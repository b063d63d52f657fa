-------------------------- MODULE MCSandboxCustody --------------------------
(* Instance values for model checking SandboxCustody. *)
EXTENDS SandboxCustody, TLC

CONSTANTS t1, t2, c1, c2, r1, r2

\* Sandboxes differ in nothing but their names.
Sym == Permutations(Boxes)

World(threads, on, W, stateful, max, H) ==
    [thread |-> threads, on |-> on, workers |-> W, stateful |-> stateful, maxActive |-> max, hazards |-> H]

Same   == (c1 :> t1 @@ c2 :> t1)
Apart  == (c1 :> t1 @@ c2 :> t2)
Single == (c1 :> r1 @@ c2 :> r1)
Spread == (c1 :> r1 @@ c2 :> r2)

\* Two callers of a thread, one of them a worker, without a pool.
Racing == {World(Same, Single, {c1}, TRUE, 0, {"no pool"} \cup H) :
             H \in {{"stop", "backend"}, {"repo"}, {"dies"}}}
          \cup {World(Same, Single, {c1}, FALSE, 0, {})}

\* A worker or a request, in either process, against the tick.
Swept == {World(Same, Spread, {c1}, TRUE, 0, {"no pool", "tick"})}

\* Two threads that compete for a sandbox, with a limit.
Limited == {World(Apart, Single, {c1, c2}, TRUE, 1, {"no pool"}), World(Apart, Single, {c1}, TRUE, 1, {})}

\* A pool and its process, which restarts or is replaced by another.
Pooled == {World(Apart, Single, {c1, c2}, FALSE, 0, {"exit", "adopt"}),
           World(Apart, Single, {}, FALSE, 0, {"old", "backend"}),
           World(Apart, Single, {}, FALSE, 0, {"dies"}),
           World(Apart, Spread, {}, FALSE, 0, {"overlap", "exit"})}

CustodyWorlds == Racing \cup Swept \cup Limited \cup Pooled
=============================================================================
