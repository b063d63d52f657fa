--------------------------- MODULE MCTurnDelivery ---------------------------
(* Instance values for model checking TurnDelivery. *)
EXTENDS TurnDelivery, TLC

Anywhere == Places \ {"idle"}
Safely   == Anywhere \ LossyPlaces

Sym == Permutations(Workers) \cup Permutations(Messages)

World(W, n, t, c, at, d, H) ==
    [workers |-> W, executions |-> n, turns |-> t, crashes |-> c, crashAt |-> at,
     deaths |-> d, hazards |-> H]

\* One execution, its worker and the one that reclaims it, fast and slow: a
\* crash at any place, or a sandbox that dies.
Reclaiming == {World(Workers, 1, 3, 1, Anywhere, 0, {"lapse"}),
               World(Workers, 1, 3, 0, Anywhere, 1, {"lapse"})}

\* Two executions and slow workers.
Following == {World(Workers, 2, 2, 0, Anywhere, 0, {"lapse"})}

\* Refused and forgetful harnesses, broken attachments, and a crash that loses
\* nothing or a sandbox that dies.
Alone3(c, d) == {World({w}, 2, 3, c, Safely, d, {"auth", "resume", "break"}) : w \in Workers}
Answering    == Alone3(1, 0) \cup Alone3(0, 1)

\* Two workers: one crashes where it loses nothing, or an attachment breaks, and
\* the other reclaims the execution.
Handing == {World(Workers, 2, 2, 1, Safely, 0, {"resume", "break"})}

\* Failed turns left in the sandbox, appends out of order, several requesters.
Repeating == {World(Workers, 2, 3, 0, Anywhere, 1, {"break", "left", "overlap", "requester"})}

TurnWorlds == Reclaiming \cup Following \cup Answering \cup Handing \cup Repeating
===========================================================================
