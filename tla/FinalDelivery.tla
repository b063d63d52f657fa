---------------------------- MODULE FinalDelivery ----------------------------
(***************************************************************************)
(* The final-delivery outbox: the rows of agent_final_delivery_outbox, the *)
(* four handlers of services/api/api/routers/agent.py that bots call       *)
(* (claim, heartbeat, delivered, failed), and the Discord bot's poller     *)
(* that calls them (services/discordbot/src/centaur/final-delivery.ts).    *)
(*                                                                         *)
(* A tick is one run of pollFinalDeliveriesOnce.  The poller starts one    *)
(* every two seconds whether or not the one before has returned, and all   *)
(* ticks of a bot process present the same consumer id.                    *)
(***************************************************************************)
EXTENDS Naturals, FiniteSets

CONSTANTS
    Deliveries,     \* execution ids with an outbox row
    Ticks,          \* concurrent runs of the poller
    Consumers,      \* bot processes
    ConsumerOf,     \* the consumer id a tick presents
    BatchLimit,     \* the limit of a claim
    MaxAttempts,    \* FINAL_DELIVERY_MAX_ATTEMPTS
    MaxRenewals,    \* bound on the further publications of each answer
    MaxFaults,      \* bound on crashes, lost calls and leases that lapse in use
    None

ASSUME DeliveryAssumption ==
    /\ ConsumerOf \in [Ticks -> Consumers]
    /\ None \notin Consumers \cup Deliveries
    /\ BatchLimit \in Nat /\ MaxAttempts \in Nat /\ MaxFaults \in Nat
    /\ MaxRenewals \in [Deliveries -> Nat]

VARIABLES
    state,      \* the row's state
    owner,      \* lease_owner
    leased,     \* lease_expires_at lies in the future
    due,        \* next_attempt_at has come
    attempts,   \* attempt_count, as far as MaxAttempts
    posted,     \* a message with the answer as last published is in the channel
    pc,         \* where a tick is
    batch,      \* what it claimed and has not finished
    outdated,   \* what of that was published anew since
    current,    \* the delivery in work
    permanent,  \* did posting fail with a non-retryable class?
    slipped,    \* history: answers whose lease a tick lost over its work
    renewals,   \* history: how often an answer was published anew
    faults

rowVars  == <<state, owner, leased, due, attempts>>
tickVars == <<pc, batch, outdated, current, permanent>>
histVars == <<slipped, renewals>>
vars     == <<rowVars, posted, tickVars, histVars, faults>>

States == {"awaiting", "pending", "sending", "delivered", "dead_letter"}

TypeOK ==
    /\ state     \in [Deliveries -> States]
    /\ owner     \in [Deliveries -> Consumers \cup {None}]
    /\ leased    \in [Deliveries -> BOOLEAN]
    /\ due       \in [Deliveries -> BOOLEAN]
    /\ attempts  \in [Deliveries -> 0 .. MaxAttempts]
    /\ posted    \in [Deliveries -> BOOLEAN]
    /\ pc        \in [Ticks -> {"idle", "loop", "report", "complain"}]
    /\ batch     \in [Ticks -> SUBSET Deliveries]
    /\ outdated  \in [Ticks -> SUBSET Deliveries]
    /\ current   \in [Ticks -> Deliveries \cup {None}]
    /\ permanent \in [Ticks -> BOOLEAN]
    /\ slipped   \subseteq Deliveries
    /\ renewals  \in [Deliveries -> Nat]
    /\ \A d \in Deliveries : renewals[d] <= MaxRenewals[d]
    /\ faults    \in 0 .. MaxFaults

Init ==
    /\ state     = [d \in Deliveries |-> "awaiting"]
    /\ owner     = [d \in Deliveries |-> None]
    /\ leased    = [d \in Deliveries |-> FALSE]
    /\ due       = [d \in Deliveries |-> FALSE]
    /\ attempts  = [d \in Deliveries |-> 0]
    /\ posted    = [d \in Deliveries |-> FALSE]
    /\ pc        = [k \in Ticks |-> "idle"]
    /\ batch     = [k \in Ticks |-> {}]
    /\ outdated  = [k \in Ticks |-> {}]
    /\ current   = [k \in Ticks |-> None]
    /\ permanent = [k \in Ticks |-> FALSE]
    /\ slipped   = {}
    /\ renewals  = [d \in Deliveries |-> 0]
    /\ faults    = 0

-----------------------------------------------------------------------------
(* The API's side *)

Held(d) == \E k \in Ticks : d \in batch[k]

\* _mark_execution_terminal publishes an answer; the grace period runs.  The
\* UPDATE asks for no state.  After a cancellation that was written over a
\* terminal status it comes a second time, with another payload, and takes
\* from the bots what they hold and opens what was settled.
Publish(d) ==
    /\ state[d] # "awaiting" => renewals[d] < MaxRenewals[d]
    /\ state'    = [state EXCEPT ![d] = "pending"]
    /\ owner'    = [owner EXCEPT ![d] = None]
    /\ leased'   = [leased EXCEPT ![d] = FALSE]
    /\ due'      = [due EXCEPT ![d] = FALSE]
    /\ posted'   = [posted EXCEPT ![d] = FALSE]
    /\ outdated' = [k \in Ticks |-> outdated[k] \cup (batch[k] \cap {d})]
    /\ slipped'  = IF Held(d) THEN slipped \cup {d} ELSE slipped
    /\ renewals' = IF state[d] = "awaiting" THEN renewals
                                            ELSE [renewals EXCEPT ![d] = @ + 1]
    /\ UNCHANGED <<attempts, pc, batch, current, permanent, faults>>

\* Mutants: a claim ignores the lease; a claim looks for pending rows only.
ClaimableWhateverLease(d) == state[d] = "sending" \/ (state[d] = "pending" /\ due[d])
ClaimablePendingOnly(d)   == state[d] = "pending" /\ due[d] /\ ~leased[d]

Claimable(d) ==
    /\ \/ state[d] = "pending" /\ due[d]
       \/ state[d] = "sending"
    /\ ~leased[d]

\* The UPDATE of /final-deliveries/{id}/delivered.
MarkDelivered(d, c) ==
    IF state[d] # "delivered" /\ owner[d] = c
      THEN /\ state'  = [state EXCEPT ![d] = "delivered"]
           /\ owner'  = [owner EXCEPT ![d] = None]
           /\ leased' = [leased EXCEPT ![d] = FALSE]
           /\ UNCHANGED <<due, attempts>>
      ELSE UNCHANGED rowVars

\* Its answer: 200 when it delivered or somebody had, else 409.
DeliveredOk(d, c) == state[d] = "delivered" \/ owner[d] = c

\* Mutant: nobody checks who complains.
MayFailAnybody(d, c, final) == c # None /\ (final => state[d] = "sending" /\ leased[d])

\* A non-retryable failure needs the live lease, any other only its owner's name.
MayFail(d, c, final) ==
    owner[d] = c /\ (final => state[d] = "sending" /\ leased[d])

\* Mutant: the row is put into a state the outbox does not have.
FailedStateRetryWait(d, final) == IF final THEN "dead_letter" ELSE "retry_wait"

\* Is the failed answer given up?
FailedState(d, final) ==
    IF final \/ attempts[d] >= MaxAttempts THEN "dead_letter" ELSE "pending"

\* The transaction of /final-deliveries/{id}/failed.
MarkFailed(d, c, final) ==
    IF MayFail(d, c, final)
      THEN /\ state'  = [state EXCEPT ![d] = FailedState(d, final)]
           /\ owner'  = [owner EXCEPT ![d] = None]
           /\ leased' = [leased EXCEPT ![d] = FALSE]
           /\ due'    = [due EXCEPT ![d] = FALSE]
           /\ UNCHANGED attempts
      ELSE UNCHANGED rowVars

-----------------------------------------------------------------------------
(* The bot's side *)

\* attempt_count goes up; beyond the limit nothing tells its values apart.
CountClaim(n) == IF n < MaxAttempts THEN n + 1 ELSE n

\* A tick starts with /final-deliveries/claim: as many claimable rows as fit.
Claim(k, S) ==
    /\ pc[k] = "idle"
    /\ S # {}
    /\ \A d \in S : Claimable(d)
    /\ Cardinality(S) <= BatchLimit
    /\ state'    = [d \in Deliveries |-> IF d \in S THEN "sending" ELSE state[d]]
    /\ owner'    = [d \in Deliveries |-> IF d \in S THEN ConsumerOf[k] ELSE owner[d]]
    /\ leased'   = [d \in Deliveries |-> d \in S \/ leased[d]]
    /\ attempts' = [d \in Deliveries |-> IF d \in S THEN CountClaim(attempts[d]) ELSE attempts[d]]
    /\ batch'    = [batch EXCEPT ![k] = S]
    /\ pc'       = [pc EXCEPT ![k] = "loop"]
    /\ UNCHANGED <<due, posted, outdated, current, permanent, histVars, faults>>

\* The message a tick posts has the answer as it was when it claimed it.
PutMessage(k, d) ==
    posted' = IF d \in outdated[k] THEN posted ELSE [posted EXCEPT ![d] = TRUE]

\* deliver: createMessage goes through.
Post(k, d) ==
    /\ pc[k] = "loop"
    /\ d \in batch[k]
    /\ PutMessage(k, d)
    /\ current' = [current EXCEPT ![k] = d]
    /\ pc'      = [pc EXCEPT ![k] = "report"]
    /\ UNCHANGED <<rowVars, batch, outdated, permanent, histVars, faults>>

\* createMessage throws: Discord refuses for good, or it may work later; in
\* that case the message may be there all the same.
PostFails(k, d) ==
    /\ pc[k] = "loop"
    /\ d \in batch[k]
    /\ \/ permanent' = [permanent EXCEPT ![k] = TRUE] /\ UNCHANGED posted
       \/ UNCHANGED permanent /\ (UNCHANGED posted \/ PutMessage(k, d))
    /\ current' = [current EXCEPT ![k] = d]
    /\ pc'      = [pc EXCEPT ![k] = "complain"]
    /\ UNCHANGED <<rowVars, batch, outdated, histVars, faults>>

\* On to the next delivery of the batch.
NextDelivery(k) ==
    /\ batch'     = [batch EXCEPT ![k] = @ \ {current[k]}]
    /\ outdated'  = [outdated EXCEPT ![k] = @ \ {current[k]}]
    /\ pc'        = [pc EXCEPT ![k] = IF batch[k] \subseteq {current[k]}
                                        THEN "idle" ELSE "loop"]
    /\ current'   = [current EXCEPT ![k] = None]
    /\ permanent' = [permanent EXCEPT ![k] = FALSE]

\* POST .../delivered; a 409 throws, and is complained about like any error.
Report(k) ==
    LET d == current[k]  c == ConsumerOf[k] IN
    /\ pc[k] = "report"
    /\ MarkDelivered(d, c)
    /\ IF DeliveredOk(d, c)
         THEN NextDelivery(k)
         ELSE pc' = [pc EXCEPT ![k] = "complain"] /\ UNCHANGED <<batch, outdated, current, permanent>>
    /\ UNCHANGED <<posted, histVars, faults>>

\* The call or its response is lost: the handler ran or it did not, the bot
\* sees an error.
ReportLost(k) ==
    /\ pc[k] = "report"
    /\ faults < MaxFaults
    /\ faults' = faults + 1
    /\ MarkDelivered(current[k], ConsumerOf[k]) \/ UNCHANGED rowVars
    /\ pc' = [pc EXCEPT ![k] = "complain"]
    /\ UNCHANGED <<posted, batch, outdated, current, permanent, histVars>>

\* POST .../failed; whatever it answers, the tick goes on.
Complain(k) ==
    /\ pc[k] = "complain"
    /\ MarkFailed(current[k], ConsumerOf[k], permanent[k])
    /\ NextDelivery(k)
    /\ UNCHANGED <<posted, histVars, faults>>

ComplainLost(k) ==
    /\ pc[k] = "complain"
    /\ faults < MaxFaults
    /\ faults' = faults + 1
    /\ NextDelivery(k)
    /\ UNCHANGED <<rowVars, posted, histVars>>

\* The bot dies with the rest of its batch.
Crash(k) ==
    /\ pc[k] # "idle"
    /\ faults < MaxFaults
    /\ faults' = faults + 1
    /\ pc'        = [pc EXCEPT ![k] = "idle"]
    /\ batch'     = [batch EXCEPT ![k] = {}]
    /\ outdated'  = [outdated EXCEPT ![k] = {}]
    /\ current'   = [current EXCEPT ![k] = None]
    /\ permanent' = [permanent EXCEPT ![k] = FALSE]
    /\ UNCHANGED <<rowVars, posted, histVars>>

\* POST .../heartbeat renews the lease, lapsed or not, of a row still owned.
Heartbeat(k, d) ==
    /\ d \in batch[k]
    /\ state[d] = "sending"
    /\ owner[d] = ConsumerOf[k]
    /\ leased' = [leased EXCEPT ![d] = TRUE]
    /\ UNCHANGED <<state, owner, due, attempts, posted, tickVars, histVars, faults>>

-----------------------------------------------------------------------------
(* Time *)

BecomesDue(d) ==
    /\ state[d] = "pending"
    /\ ~due[d]
    /\ due' = [due EXCEPT ![d] = TRUE]
    /\ UNCHANGED <<state, owner, leased, attempts, posted, tickVars, histVars, faults>>

\* The lease of an answer that no tick works on runs out.
LeaseExpires(d) ==
    /\ leased[d]
    /\ ~Held(d)
    /\ leased' = [leased EXCEPT ![d] = FALSE]
    /\ UNCHANGED <<state, owner, due, attempts, posted, tickVars, histVars, faults>>

\* A tick is slower than its lease.
LeaseLapses(d) ==
    /\ leased[d]
    /\ Held(d)
    /\ faults < MaxFaults
    /\ faults' = faults + 1
    /\ leased' = [leased EXCEPT ![d] = FALSE]
    /\ slipped' = slipped \cup {d}
    /\ UNCHANGED <<state, owner, due, attempts, posted, tickVars, renewals>>

-----------------------------------------------------------------------------
TickStep(k) ==
    \/ \E d \in Deliveries : Post(k, d) \/ PostFails(k, d)
    \/ Report(k)
    \/ Complain(k)

Next ==
    \/ \E d \in Deliveries : Publish(d) \/ BecomesDue(d) \/ LeaseExpires(d) \/ LeaseLapses(d)
    \/ \E k \in Ticks, S \in SUBSET Deliveries : Claim(k, S)
    \/ \E k \in Ticks : TickStep(k)
    \/ \E k \in Ticks : ReportLost(k) \/ ComplainLost(k) \/ Crash(k)
    \/ \E k \in Ticks, d \in Deliveries : Heartbeat(k, d)

Spec == Init /\ [][Next]_vars

\* The poller's interval keeps firing, a running tick goes on (fetch and the
\* Discord client end one way or the other), and the clock advances.
PollFairness ==
    /\ \A k \in Ticks : WF_vars(TickStep(k))
    /\ \A d \in Deliveries :
          /\ WF_vars(BecomesDue(d))
          /\ WF_vars(LeaseExpires(d))
          /\ SF_vars(\E k \in Ticks, S \in SUBSET Deliveries : d \in S /\ Claim(k, S))

PollSpec == Spec /\ PollFairness

-----------------------------------------------------------------------------
(* Properties *)

\* The promise, with pending and sending both read as offered.
Promise == INSTANCE DeliveryPromise WITH
    phase   <- [d \in Deliveries |->
                  IF state[d] \in {"pending", "sending"} THEN "offered" ELSE state[d]],
    renewed <- {d \in Deliveries : renewals[d] > 0}

\* The handlers and the poller keep the outbox's promise, with overlapping
\* ticks, lapsed leases, lost calls and crashes: nothing settled is offered
\* again or resettled but by a further publication; and until there was one,
\* "delivered" comes only after a post.
KeepsPromise == Promise!Spec

\* Only a sending row has an owner, and only an owned row a lease: what the
\* handlers' owner checks rest on.
OwnedWhileSending ==
    \A d \in Deliveries :
        /\ owner[d] # None <=> state[d] = "sending"
        /\ leased[d] => state[d] = "sending"

\* An answer is in two pairs of hands only when its lease lapsed under a
\* working tick or it was published anew under one; otherwise only a failed
\* report can lead to a second post.
OneHolder ==
    \A j, k \in Ticks : j # k => batch[j] \cap batch[k] \subseteq slipped

\* Every answer that is ready is settled in the end: posted and delivered, or
\* given up; no crash, lost call, refusal or further publication leaves it
\* hanging.
EveryAnswerSettled ==
    \A d \in Deliveries :
        state[d] = "pending" ~> state[d] \in {"delivered", "dead_letter"}
=============================================================================
