------------------------- MODULE ExecutionLifecycle -------------------------
(***************************************************************************)
(* The life of a row of agent_execution_requests in the Python control     *)
(* plane, services/api/api/runtime_control.py: enqueue, claim, process,    *)
(* finalize, cancel, release, and the watchdog passes, with every await    *)
(* between two SQL statements a point where other coroutines, other API    *)
(* replicas or a crash may come in between.                                *)
(*                                                                         *)
(* An actor is a coroutine: an execution worker, an API request handler    *)
(* (cancel, release) or the watchdog (reconcile_execution_health).  All    *)
(* of them finalize through _mark_execution_terminal, which is a pipeline  *)
(* of separate statements here as it is there: stop the session first if   *)
(* the path says so, UPDATE the row, publish to the outbox, stop the       *)
(* session last if the path says so.                                       *)
(***************************************************************************)
EXTENDS Naturals, FiniteSets

CONSTANTS
    Executions,      \* ids of agent_execution_requests rows
    Threads,         \* thread keys
    ThreadOf,        \* the thread of each execution
    Channel,         \* how each execution answers: "post", "live" or "dev"
    Workers,         \* execution worker coroutines
    Requests,        \* API handlers that may cancel or release
    Watchdogs,       \* reconcile loops
    AuthRetryLimit,  \* _RAW_HARNESS_AUTH_RETRY_LIMIT
    Worlds,          \* what a behaviour may contain, see below
    None

Actors == Workers \cup Requests \cup Watchdogs

\* A world bounds what happens in a behaviour: who takes part, which
\* executions are asked for, whether the lease of a live worker may expire,
\* how many actors crash, how many assignments a thread gets.
WorldRecords == [actors      : SUBSET Actors,
                 executions  : SUBSET Executions,
                 lapse       : BOOLEAN,
                 crashes     : Nat,
                 generations : Nat]

ASSUME ConstantsAssumption ==
    /\ ThreadOf \in [Executions -> Threads]
    /\ Channel \in [Executions -> {"post", "live", "dev"}]
    /\ AuthRetryLimit \in Nat
    /\ Worlds \subseteq WorldRecords
    /\ None \notin Executions \cup Threads
    /\ Executions \cap Threads = {}
    /\ Workers \cap Requests = {}
    /\ Workers \cap Watchdogs = {}
    /\ Requests \cap Watchdogs = {}

Terminal    == {"completed", "failed_permanent", "cancelled"}
NonTerminal == {"queued", "running", "retry_wait", "cancel_requested"}
Occupying   == {"running", "retry_wait"}

VARIABLES
    \* the row of each execution
    status,       \* "absent" until enqueued, then the CHECK constraint's values
    lease,        \* worker_lease_expires_at lies in the future
    claimed,      \* claimed_at is not NULL
    durable,      \* durable_turn_id is not NULL
    hardPast,     \* hard_deadline_at lies in the past
    authTries,    \* metadata: raw harness auth retries made
    outbox,       \* agent_final_delivery_outbox.state; "none" when no row
    \* the assignments of each thread
    generation,   \* the latest assignment_generation, 0 when none
    assigned,     \* is that assignment active?
    \* the actors
    pc,           \* where the coroutine is
    subject,      \* the execution (or, for a release, the thread) it works on
    local,        \* its local variables: the outcome it has decided on
    attached,     \* workers whose sandbox is alive
    crashes,
    world         \* chosen at first, and kept

rowVars   == <<status, lease, claimed, durable, hardPast, authTries, outbox>>
asgVars   == <<generation, assigned, world>>
actorVars == <<pc, subject, local, attached, crashes>>
vars      == <<rowVars, asgVars, actorVars>>

Statuses == {"absent"} \cup NonTerminal \cup Terminal
Places   == {"idle", "claimed", "ready", "streaming", "broken", "stopFirst",
             "finalize", "publish", "stopLast", "rewind", "cancelWrite"}

\* The locals of a coroutine: the status it is to write, why, whether the
\* session is stopped after it, and what its claim returned, the auth retries
\* and whether there is a durable turn.
\* "queued" is the replay after a raw harness auth failure.
Locals == [to    : Terminal \cup {"queued"},
           why   : {"no_input", "never_claimed", "other"},
           stop  : BOOLEAN,
           tries : 0 .. AuthRetryLimit,
           turn  : BOOLEAN]
Fresh == [to |-> "completed", why |-> "other", stop |-> FALSE, tries |-> 0,
          turn |-> FALSE]

TypeOK ==
    /\ world      \in Worlds
    /\ status     \in [Executions -> Statuses]
    /\ lease      \in [Executions -> BOOLEAN]
    /\ claimed    \in [Executions -> BOOLEAN]
    /\ durable    \in [Executions -> BOOLEAN]
    /\ hardPast   \in [Executions -> BOOLEAN]
    /\ authTries  \in [Executions -> 0 .. AuthRetryLimit]
    /\ outbox     \in [Executions -> {"none", "awaiting", "pending", "delivered"}]
    /\ generation \in [Threads -> 0 .. world.generations]
    /\ assigned   \in [Threads -> BOOLEAN]
    /\ pc         \in [Actors -> Places]
    /\ subject    \in [Actors -> Executions \cup Threads \cup {None}]
    /\ local      \in [Actors -> Locals]
    /\ attached   \subseteq Workers
    /\ crashes    \in 0 .. world.crashes

Init ==
    /\ world      \in Worlds
    /\ status     = [e \in Executions |-> "absent"]
    /\ lease      = [e \in Executions |-> FALSE]
    /\ claimed    = [e \in Executions |-> FALSE]
    /\ durable    = [e \in Executions |-> FALSE]
    /\ hardPast   = [e \in Executions |-> FALSE]
    /\ authTries  = [e \in Executions |-> 0]
    /\ outbox     = [e \in Executions |-> "none"]
    /\ generation = [t \in Threads |-> 0]
    /\ assigned   = [t \in Threads |-> FALSE]
    /\ pc         = [a \in Actors |-> "idle"]
    /\ subject    = [a \in Actors |-> None]
    /\ local      = [a \in Actors |-> Fresh]
    /\ attached   = {}
    /\ crashes    = 0

-----------------------------------------------------------------------------
(* Helpers *)

\* Mutant: a thread whose execution waits for its retry looks free.
BlockersIgnoringRetryWait(e) ==
    {f \in Executions \ {e} :
        /\ ThreadOf[f] = ThreadOf[e]
        /\ \/ status[f] = "running"
           \/ status[f] = "cancel_requested" /\ lease[f]}

\* The other executions of e's thread that a claim has to wait for.
Blockers(e) ==
    {f \in Executions \ {e} :
        /\ ThreadOf[f] = ThreadOf[e]
        /\ \/ status[f] \in Occupying
           \/ status[f] = "cancel_requested" /\ lease[f]}

Claimable(e) ==
    /\ \/ status[e] = "queued"
       \/ status[e] \in {"cancel_requested", "retry_wait"} /\ ~lease[e]
    /\ Blockers(e) = {}

\* Mutants: a claim resumes a cancelled row; a reclaim anchors the deadline anew.
ClaimedStatusRunning(e)  == IF status[e] = "absent" THEN status[e] ELSE "running"
ClaimedHardPastAnew(e)   == hardPast[e] /\ status[e] \in Terminal

\* What a claim makes of a row's status, and of its hard deadline: the first
\* claim, and the first after an auth replay, anchors it; a reclaim keeps it.
ClaimedStatus(e)   == IF status[e] = "cancel_requested" THEN status[e] ELSE "running"
ClaimedHardPast(e) == hardPast[e] /\ claimed[e]

\* Mutant: every running row counts as stale.
StaleWhateverLease ==
    {e \in Executions : status[e] \in Occupying \cup {"cancel_requested"}}

\* Rows whose worker let the lease run out.
Stale == {e \in Executions : /\ status[e] \in Occupying \cup {"cancel_requested"}
                             /\ ~lease[e]}

Overdue(e) == status[e] \in NonTerminal /\ hardPast[e]

\* Workers that run in the sandbox of thread t.
OnThread(t) ==
    {w \in Workers : subject[w] \in Executions /\ ThreadOf[subject[w]] = t}

\* The thread an actor works on.
SubjectThread(a) ==
    IF subject[a] \in Threads THEN subject[a] ELSE ThreadOf[subject[a]]

\* The coroutine's request is over.
Finish(a) ==
    /\ pc'       = [pc EXCEPT ![a] = "idle"]
    /\ subject'  = [subject EXCEPT ![a] = None]
    /\ local'    = [local EXCEPT ![a] = Fresh]
    /\ attached' = attached \ {a}

\* a decides on an outcome, leaves the stream and goes on at place p.
Decide(a, p, to, why, stop) ==
    /\ pc'       = [pc EXCEPT ![a] = p]
    /\ local'    = [local EXCEPT ![a] = [to |-> to, why |-> why, stop |-> stop,
                                       tries |-> @.tries, turn |-> @.turn]]
    /\ attached' = attached \ {a}

-----------------------------------------------------------------------------
(* Assignments and enqueueing *)

\* spawn_assignment, as far as it matters here: a thread without an active
\* assignment gets the next generation.
SpawnAssignment(t) ==
    /\ ~assigned[t]
    /\ \E e \in world.executions : ThreadOf[e] = t
    /\ generation[t] < world.generations
    /\ generation' = [generation EXCEPT ![t] = @ + 1]
    /\ assigned'   = [assigned EXCEPT ![t] = TRUE]
    /\ UNCHANGED <<rowVars, actorVars, world>>

\* enqueue_execution: one transaction inserts the row and, unless the answer
\* goes live or nowhere, its outbox row.
EnqueueExecution(e) ==
    /\ e \in world.executions
    /\ status[e] = "absent"
    /\ assigned[ThreadOf[e]]
    /\ status' = [status EXCEPT ![e] = "queued"]
    /\ outbox' = [outbox EXCEPT ![e] =
                    IF Channel[e] = "post" THEN "awaiting" ELSE "none"]
    /\ UNCHANGED <<lease, claimed, durable, hardPast, authTries, asgVars, actorVars>>

\* release_assignment: the transaction, which may cancel every unfinished
\* execution of the thread without touching the outbox; the handler then
\* stops the runtime.
ReleaseAssignment(r, t, cancelInflight) ==
    LET hit == {e \in Executions : /\ cancelInflight
                                   /\ ThreadOf[e] = t
                                   /\ status[e] \in NonTerminal}
    IN  /\ r \in world.actors
        /\ pc[r] = "idle"
        /\ assigned[t]
        /\ assigned' = [assigned EXCEPT ![t] = FALSE]
        /\ status' = [e \in Executions |-> IF e \in hit THEN "cancelled" ELSE status[e]]
        /\ lease'  = [e \in Executions |-> lease[e] /\ e \notin hit]
        /\ pc'      = [pc EXCEPT ![r] = "stopLast"]
        /\ subject' = [subject EXCEPT ![r] = t]
        /\ UNCHANGED <<claimed, durable, hardPast, authTries, outbox, generation,
                       local, attached, crashes, world>>

-----------------------------------------------------------------------------
(* The worker *)

\* _claim_next_execution, as one step: what its locks make of its statements is
\* in module ClaimTransaction, as are the slots of workflow executions, for
\* which a claim may pass over a claimable row.
ClaimNextExecution(w, e) ==
    /\ w \in world.actors
    /\ pc[w] = "idle"
    /\ Claimable(e)
    /\ status'    = [status EXCEPT ![e] = ClaimedStatus(e)]
    /\ hardPast'  = [hardPast EXCEPT ![e] = ClaimedHardPast(e)]
    /\ claimed'   = [claimed EXCEPT ![e] = TRUE]
    /\ lease'     = [lease EXCEPT ![e] = TRUE]
    /\ pc'        = [pc EXCEPT ![w] = "claimed"]
    /\ subject'   = [subject EXCEPT ![w] = e]
    \* the row is RETURNed as claimed, its turn and its metadata with it
    /\ local'    = [local EXCEPT ![w] =
                        [to    |-> IF status[e] = "cancel_requested"
                                     THEN "cancelled" ELSE "completed",
                         why   |-> "other",
                         stop  |-> FALSE,
                         tries |-> authTries[e],
                         turn  |-> durable[e]]]
    /\ UNCHANGED <<durable, authTries, outbox, asgVars, attached, crashes>>

\* The claimed row was already cancel_requested: stop the session, cancel.
ProcessCancelled(w) ==
    /\ pc[w] = "claimed"
    /\ local[w].to = "cancelled"
    /\ Decide(w, "stopFirst", "cancelled", "other", FALSE)
    /\ UNCHANGED <<rowVars, asgVars, subject, crashes>>

\* The deadline checks before the runtime is acquired.  How long a silence
\* lasted is not modelled: without a durable turn it may have been too long.
ProcessTooLate(w) ==
    /\ pc[w] = "claimed"
    /\ local[w].to # "cancelled"
    /\ hardPast[subject[w]] \/ ~local[w].turn
    /\ Decide(w, "finalize", "failed_permanent", "other", TRUE)
    /\ UNCHANGED <<rowVars, asgVars, subject, crashes>>

\* get_or_spawn returns a running sandbox.
AcquireRuntime(w) ==
    /\ pc[w] = "claimed"
    /\ local[w].to # "cancelled"
    /\ pc' = [pc EXCEPT ![w] = "ready"]
    /\ attached' = attached \cup {w}
    /\ UNCHANGED <<rowVars, asgVars, subject, local, crashes>>

\* An exception escapes _process_execution (a spawn, an attach or a statement
\* failed): the worker loop logs it and goes on, the row keeps its lease.
AbandonExecution(w) ==
    /\ pc[w] \in {"claimed", "ready"}
    /\ Finish(w)
    /\ UNCHANGED <<rowVars, asgVars, crashes>>

\* A reclaimed turn: heartbeat the lease, then either the session already
\* holds a result or the worker follows the running turn.
ResumeTurn(w) ==
    LET e == subject[w] IN
    /\ pc[w] = "ready"
    /\ w \in attached
    /\ local[w].turn
    /\ lease' = [lease EXCEPT ![e] = @ \/ status[e] \in NonTerminal \ {"queued"}]
    /\ \/ Decide(w, "finalize", "completed", "other", FALSE)
       \/ pc' = [pc EXCEPT ![w] = "streaming"] /\ UNCHANGED <<local, attached>>
    /\ UNCHANGED <<status, claimed, durable, hardPast, authTries, outbox, asgVars,
                   subject, crashes>>

\* inject_stdin wrote the pending messages: record the durable turn and touch
\* the row.  Neither UPDATE looks at the status or the worker.
InjectTurn(w) ==
    /\ pc[w] = "ready"
    /\ w \in attached
    /\ ~local[w].turn
    /\ durable' = [durable EXCEPT ![subject[w]] = TRUE]
    /\ lease'   = [lease EXCEPT ![subject[w]] = TRUE]
    /\ pc'      = [pc EXCEPT ![w] = "streaming"]
    /\ UNCHANGED <<status, claimed, hardPast, authTries, outbox, asgVars,
                   subject, local, attached, crashes>>

\* There was nothing to inject: the same UPDATE writes that there is no turn.
NothingToInject(w) ==
    /\ pc[w] = "ready"
    /\ ~local[w].turn
    /\ durable' = [durable EXCEPT ![subject[w]] = FALSE]
    /\ Decide(w, "finalize", "completed", "no_input", FALSE)
    /\ UNCHANGED <<status, lease, claimed, hardPast, authTries, outbox, asgVars,
                   subject, crashes>>

\* A stream event touches the row whatever its status; an idle second
\* heartbeats it only while it is unfinished.
KeepLease(w) ==
    /\ pc[w] = "streaming"
    /\ ~lease[subject[w]]
    /\ lease' = [lease EXCEPT ![subject[w]] = TRUE]
    /\ UNCHANGED <<status, claimed, durable, hardPast, authTries, outbox,
                   asgVars, actorVars>>

\* The loop's poll sees that the execution was cancelled.
SeeCancel(w) ==
    /\ pc[w] = "streaming"
    /\ status[subject[w]] = "cancel_requested"
    /\ \E p \in {"stopFirst", "finalize"} :
          Decide(w, p, "cancelled", "other", FALSE)
    /\ UNCHANGED <<rowVars, asgVars, subject, crashes>>

\* The hard or the silence deadline passed, or the stream ended with its
\* sandbox gone: fail, then stop or pause the session.
GiveUp(w) ==
    /\ pc[w] = "streaming"
    /\ Decide(w, "finalize", "failed_permanent", "other", TRUE)
    /\ UNCHANGED <<rowVars, asgVars, subject, crashes>>

\* turn.done: completed, failed by the harness (or by an exception in the
\* loop), or cancelled by the user inside the harness.
TurnDone(w) ==
    /\ pc[w] = "streaming"
    /\ \E to \in Terminal : Decide(w, "finalize", to, "other", FALSE)
    /\ UNCHANGED <<rowVars, asgVars, subject, crashes>>

\* Mutant: the limit is not looked at.
AuthOutcomeUnlimited(w) == IF pc[w] = "streaming" THEN "queued" ELSE "failed_permanent"

\* Replay the turn, unless the retries this worker knows of are spent.
AuthOutcome(w) ==
    IF local[w].tries < AuthRetryLimit THEN "queued" ELSE "failed_permanent"

\* turn.done says that the harness could not authenticate: stop the session,
\* then replay the turn or fail.
TurnAuthFailed(w) ==
    /\ pc[w] = "streaming"
    /\ Decide(w, "stopFirst", AuthOutcome(w), "other", FALSE)
    /\ UNCHANGED <<rowVars, asgVars, subject, crashes>>

\* The stream ended without turn.done: the worker reads its row, and is done
\* with it when somebody else has ended it.  Otherwise it goes on when the
\* sandbox is up (a cancelled row is SeeCancel, a sandbox that is gone GiveUp).
StreamEnded(w) ==
    /\ pc[w] = "streaming"
    /\ \/ status[subject[w]] \in Terminal /\ Finish(w)
       \/ /\ status[subject[w]] \notin Terminal \cup {"cancel_requested"}
          /\ w \in attached
          /\ pc' = [pc EXCEPT ![w] = "broken"]
          /\ UNCHANGED <<subject, local, attached>>
    /\ UNCHANGED <<rowVars, asgVars, crashes>>

\* The UPDATE that follows, which only a running row takes.
StreamInterrupted(w) ==
    LET e == subject[w] IN
    /\ pc[w] = "broken"
    /\ status' = [status EXCEPT ![e] = IF @ = "running" THEN "retry_wait" ELSE @]
    /\ lease'  = [lease EXCEPT ![e] = @ \/ status[e] = "running"]
    /\ Finish(w)
    /\ UNCHANGED <<claimed, durable, hardPast, authTries, outbox, asgVars,
                   crashes>>

-----------------------------------------------------------------------------
(* Finalizing: the statements of _mark_execution_terminal, for any actor *)

\* _stop_execution_session: every worker streaming from the thread's sandbox
\* loses it, whichever execution that worker is on.
StopSession(a) ==
    attached' = attached \ OnThread(SubjectThread(a))

StopSessionFirst(a) ==
    /\ pc[a] = "stopFirst"
    /\ StopSession(a)
    /\ pc' = [pc EXCEPT ![a] = "finalize"]
    /\ UNCHANGED <<rowVars, asgVars, subject, local, crashes>>

StopSessionLast(a) ==
    /\ pc[a] = "stopLast"
    /\ attached' = attached \ (OnThread(SubjectThread(a)) \cup {a})
    /\ pc'      = [pc EXCEPT ![a] = "idle"]
    /\ subject' = [subject EXCEPT ![a] = None]
    /\ local'    = [local EXCEPT ![a] = Fresh]
    /\ UNCHANGED <<rowVars, asgVars, crashes>>

\* After the outcome is written: stop the session or be done.
Return(a) ==
    IF local[a].stop
      THEN pc' = [pc EXCEPT ![a] = "stopLast"] /\ UNCHANGED <<subject, local, attached>>
      ELSE Finish(a)

\* Mutant: the UPDATE forgets its guard on the status.
MarkTerminalUnguarded(a) ==
    LET e == subject[a] IN
    /\ pc[a] = "finalize"
    /\ local[a].to \in Terminal
    /\ status' = [status EXCEPT ![e] = local[a].to]
    /\ lease'  = [lease EXCEPT ![e] = FALSE]
    /\ pc'     = [pc EXCEPT ![a] = "publish"]
    /\ UNCHANGED <<claimed, durable, hardPast, authTries, outbox, asgVars,
                   subject, local, attached, crashes>>

\* The guarded UPDATE: the first finalizer wins.
MarkTerminal(a) ==
    LET e == subject[a] IN
    /\ pc[a] = "finalize"
    /\ local[a].to \in Terminal
    /\ status[e] \notin Terminal
    /\ status' = [status EXCEPT ![e] = local[a].to]
    /\ lease'  = [lease EXCEPT ![e] = FALSE]
    /\ pc'     = [pc EXCEPT ![a] = "publish"]
    /\ UNCHANGED <<claimed, durable, hardPast, authTries, outbox, asgVars,
                   subject, local, attached, crashes>>

SkipTerminal(a) ==
    /\ pc[a] = "finalize"
    /\ local[a].to \in Terminal
    /\ status[subject[a]] \in Terminal
    /\ Return(a)
    /\ UNCHANGED <<rowVars, asgVars, crashes>>

\* Mutant: a failure counts as having nothing to say.
MaySkipFailure(a) ==
    Channel[subject[a]] # "post" \/ local[a].why = "no_input"
        \/ local[a].to = "failed_permanent"

\* Does the outcome go to the outbox?  A live answer may turn out to cover the
\* result already, or to have failed.
MayPost(a) == Channel[subject[a]] # "dev" /\ local[a].why # "no_input"
MaySkip(a) == Channel[subject[a]] # "post" \/ local[a].why = "no_input"

\* The outbox statements that follow the UPDATE.
PublishOutcome(a) ==
    LET e == subject[a] IN
    /\ pc[a] = "publish"
    /\ \/ MayPost(a) /\ outbox' = [outbox EXCEPT ![e] = "pending"]
       \/ MaySkip(a) /\ UNCHANGED outbox
    /\ Return(a)
    /\ UNCHANGED <<status, lease, claimed, durable, hardPast, authTries, asgVars,
                   crashes>>

\* _requeue_execution_after_raw_harness_auth_failure: the row UPDATE, which
\* only a running row takes.  With it the row is claimable again, while this
\* worker goes on to rewind the session.
ReplayTurn(a) ==
    LET e  == subject[a]
        ok == status[e] = "running"
    IN  /\ pc[a] = "finalize"
        /\ local[a].to = "queued"
        /\ status'    = [status EXCEPT ![e] = IF ok THEN "queued" ELSE @]
        /\ lease'     = [lease EXCEPT ![e] = @ /\ ~ok]
        /\ claimed'   = [claimed EXCEPT ![e] = @ /\ ~ok]
        /\ durable'   = [durable EXCEPT ![e] = @ /\ ~ok]
        /\ authTries' = [authTries EXCEPT ![e] = IF ok THEN local[a].tries + 1 ELSE @]
        /\ IF ok
             THEN pc' = [pc EXCEPT ![a] = "rewind"] /\ UNCHANGED <<subject, local, attached>>
             ELSE Finish(a)
        /\ UNCHANGED <<hardPast, outbox, asgVars, crashes>>

\* Its statements after that: marks of messages, the cursor of the session (in
\* module TurnDelivery) and an event.
RewindSession(a) ==
    /\ pc[a] = "rewind"
    /\ Finish(a)
    /\ UNCHANGED <<rowVars, asgVars, crashes>>

-----------------------------------------------------------------------------
(* Cancel requests *)

\* cancel_execution reads the status; a terminal or cancel_requested row
\* answers idempotently, which changes nothing.
CancelRead(r, e) ==
    /\ r \in world.actors
    /\ pc[r] = "idle"
    /\ status[e] \in {"queued", "running", "retry_wait"}
    /\ subject' = [subject EXCEPT ![r] = e]
    /\ IF status[e] = "queued"
         THEN Decide(r, "finalize", "cancelled", "other", FALSE)
         ELSE pc' = [pc EXCEPT ![r] = "cancelWrite"] /\ UNCHANGED <<local, attached>>
    /\ UNCHANGED <<rowVars, asgVars, crashes>>

\* The UPDATE that follows names the execution only: it writes over whatever
\* the status has become since.  The session is stopped after it.
CancelWrite(r) ==
    /\ pc[r] = "cancelWrite"
    /\ status' = [status EXCEPT ![subject[r]] = "cancel_requested"]
    /\ pc' = [pc EXCEPT ![r] = "stopLast"]
    /\ UNCHANGED <<lease, claimed, durable, hardPast, authTries, outbox, asgVars,
                   subject, local, attached, crashes>>

-----------------------------------------------------------------------------
(* The watchdog *)

\* _recover_stale_running: one UPDATE over every row whose lease is gone.
\* claimed_at is kept.
RecoverStaleRunning ==
    /\ Stale # {}
    /\ status' = [e \in Executions |->
                    IF e \in Stale /\ status[e] \in Occupying THEN "queued" ELSE status[e]]
    /\ lease'  = [e \in Executions |-> lease[e] /\ e \notin Stale]
    /\ UNCHANGED <<claimed, durable, hardPast, authTries, outbox, asgVars, actorVars>>

\* _reconcile_orphaned_executions selects a row past its hard deadline.
ReapOverdue(d, e) ==
    /\ d \in world.actors
    /\ pc[d] = "idle"
    /\ Overdue(e)
    /\ subject' = [subject EXCEPT ![d] = e]
    /\ Decide(d, "finalize", "failed_permanent", "other", TRUE)
    /\ UNCHANGED <<rowVars, asgVars, crashes>>

\* _reap_stuck_queued_executions selects a queued row that nothing blocks.
\* Its age is not modelled: any queued row may be old enough.
ReapQueued(d, e) ==
    /\ d \in world.actors
    /\ pc[d] = "idle"
    /\ status[e] = "queued"
    /\ Blockers(e) = {}
    /\ subject' = [subject EXCEPT ![d] = e]
    /\ Decide(d, "finalize", "failed_permanent", "never_claimed", FALSE)
    /\ UNCHANGED <<rowVars, asgVars, crashes>>

-----------------------------------------------------------------------------
(* Time, failures and the bots *)

\* A lease runs out.  In a world without lapses, only when nobody is left who
\* works on the execution.
LeaseExpires(e) ==
    /\ lease[e]
    /\ world.lapse \/ \A w \in Workers : subject[w] # e
    /\ lease' = [lease EXCEPT ![e] = FALSE]
    /\ UNCHANGED <<status, claimed, durable, hardPast, authTries, outbox,
                   asgVars, actorVars>>

HardDeadlinePasses(e) ==
    /\ status[e] \in NonTerminal
    /\ ~hardPast[e]
    /\ hardPast' = [hardPast EXCEPT ![e] = TRUE]
    /\ UNCHANGED <<status, lease, claimed, durable, authTries, outbox,
                   asgVars, actorVars>>

\* The process dies, or an exception ends the coroutine between two
\* statements; what the rows say stays.
Crash(a) ==
    /\ pc[a] # "idle"
    /\ crashes < world.crashes
    /\ crashes' = crashes + 1
    /\ Finish(a)
    /\ UNCHANGED <<rowVars, asgVars>>

\* A bot claims a pending answer, posts it and reports it delivered; the
\* steps of that exchange are those of module FinalDelivery.
Deliver(e) ==
    /\ outbox[e] = "pending"
    /\ outbox' = [outbox EXCEPT ![e] = "delivered"]
    /\ UNCHANGED <<status, lease, claimed, durable, hardPast, authTries,
                   asgVars, actorVars>>

-----------------------------------------------------------------------------
WorkerStep(w) ==
    \/ \E e \in Executions : ClaimNextExecution(w, e)
    \/ ProcessCancelled(w)
    \/ ProcessTooLate(w)
    \/ AcquireRuntime(w)
    \/ AbandonExecution(w)
    \/ ResumeTurn(w)
    \/ InjectTurn(w)
    \/ NothingToInject(w)
    \/ KeepLease(w)
    \/ SeeCancel(w)
    \/ GiveUp(w)
    \/ TurnDone(w)
    \/ TurnAuthFailed(w)
    \/ StreamEnded(w)
    \/ StreamInterrupted(w)
    \/ RewindSession(w)

FinalizeStep(a) ==
    \/ StopSessionFirst(a)
    \/ MarkTerminal(a)
    \/ SkipTerminal(a)
    \/ PublishOutcome(a)
    \/ StopSessionLast(a)

RequestStep(r) ==
    \/ \E e \in Executions : CancelRead(r, e)
    \/ \E t \in Threads, c \in BOOLEAN : ReleaseAssignment(r, t, c)
    \/ CancelWrite(r)

WatchdogStep(d) ==
    \/ \E e \in Executions : ReapOverdue(d, e)
    \/ \E e \in Executions : ReapQueued(d, e)

Next ==
    \/ \E t \in Threads : SpawnAssignment(t)
    \/ \E e \in Executions : EnqueueExecution(e)
    \/ \E w \in Workers : WorkerStep(w)
    \/ \E a \in Actors : FinalizeStep(a)
    \/ \E w \in Workers : ReplayTurn(w)
    \/ \E r \in Requests : RequestStep(r)
    \/ \E d \in Watchdogs : WatchdogStep(d)
    \/ RecoverStaleRunning
    \/ \E e \in Executions : LeaseExpires(e)
    \/ \E e \in Executions : HardDeadlinePasses(e)
    \/ \E a \in Actors : Crash(a)
    \/ \E e \in Executions : Deliver(e)

Spec == Init /\ [][Next]_vars

\* The watchdog loop of every replica keeps walking the overdue rows, so it
\* takes up a row that stays overdue, however often it was busy with others;
\* and time keeps passing.  Nothing is assumed of the workers: docstring of
\* reconcile_execution_health, "even when every execution worker is wedged".
WatchdogFairness ==
    /\ \A e \in Executions : WF_vars(HardDeadlinePasses(e))
    /\ \A d \in Watchdogs : WF_vars(FinalizeStep(d))
    /\ \A d \in Watchdogs, e \in Executions :
          <>[]Overdue(e) => []<><<ReapOverdue(d, e)>>_vars

\* A coroutine that has begun to finalize goes on unless it crashes.
FinalizeFairness == \A a \in Actors : WF_vars(FinalizeStep(a))

FinalizeSpec == Spec /\ FinalizeFairness

\* In a world with crashes, workers and handlers may also just stop.
FairSpec == Spec /\ WatchdogFairness /\ (world.crashes = 0 => FinalizeFairness)

-----------------------------------------------------------------------------
(* Properties *)

\* At most one execution of a thread is running or waits to be retried, over
\* all interleavings of claims, lease recovery, blind cancels and crashes
\* (the NOT EXISTS of _claim_next_execution).
OneActivePerThread ==
    \A e, f \in Executions :
        /\ ThreadOf[e] = ThreadOf[f]
        /\ status[e] \in Occupying
        /\ status[f] \in Occupying
        => e = f

\* Two finalizers never overwrite each other: a terminal status stays what the
\* first of them wrote, and the one step that can take it away is the
\* unguarded UPDATE of cancel_execution.
FirstFinalizerWins ==
    [][\A e \in Executions :
         status[e] \in Terminal /\ status'[e] # status[e]
         => /\ status'[e] = "cancel_requested"
            /\ \E r \in Requests : pc[r] = "cancelWrite" /\ subject[r] = e]_vars

\* A recorded cancellation is never lost to a claim, to lease recovery, to a
\* stream break or to an auth replay: the row goes nowhere but to its end.
CancelNeverForgotten ==
    [][\A e \in Executions :
         status[e] = "cancel_requested"
         => status'[e] \in Terminal \cup {"cancel_requested"}]_vars

\* Worlds where nothing is cancelled or released, and leases are kept too.
Uncancelled == world.actors \cap Requests = {}
Undisturbed == Uncancelled /\ ~world.lapse

\* Workers on execution e, but for those that gave it back for a replay and
\* have yet to rewind its session.
WorkersOn(e) == {w \in Workers : subject[w] = e /\ pc[w] # "rewind"}

\* While leases are kept and nothing is cancelled, no two workers work on one
\* execution: lease recovery takes a row only from a worker that is gone, and
\* only a replay gives a row away before its worker is done with the session.
OneWorkerPerExecution ==
    Undisturbed =>
        \A e \in Executions : \A w, x \in WorkersOn(e) : w = x

\* Without cancellations, an answer that was delivered is not put up for
\* delivery again by a second finalizer.
DeliveredStaysDelivered ==
    [][\A e \in Executions :
         Uncancelled /\ outbox[e] = "delivered" => outbox'[e] = "delivered"]_vars

\* Whatever the workers do, an enqueued execution ends: a reclaim does not
\* move the hard deadline (comment in _recover_stale_running), so the watchdog
\* catches every execution in the end.
EveryExecutionEnds ==
    \A e \in Executions : status[e] \in NonTerminal ~> status[e] \in Terminal

\* A failed execution that owes its requester an answer gets it into the
\* outbox ("Every terminal failure must say *something* to the requester"),
\* while nobody crashes between the two statements.
FailureAnswered ==
    world.crashes = 0 =>
        \A e \in Executions :
            status[e] = "failed_permanent" /\ Channel[e] = "post"
            ~> outbox[e] \in {"pending", "delivered"} \/ status[e] # "failed_permanent"
=============================================================================
