-------------------------- MODULE ClaimTransaction --------------------------
(***************************************************************************)
(* The transaction of _claim_next_execution, services/api/api/             *)
(* runtime_control.py, statement by statement.  Isolation is READ          *)
(* COMMITTED: a statement sees what was committed when it began.  The      *)
(* SELECT of the candidates locks their rows until the transaction ends    *)
(* and skips rows that others have locked, so the UPDATEs of other         *)
(* coroutines wait for it; an advisory lock per thread is tried, and held  *)
(* as long; nothing locks the count of the workflows' slots.               *)
(*                                                                         *)
(* ExecutionLifecycle takes the claim as one step.  What that rests on is  *)
(* here, and what it does not say: how slots are counted and taken.        *)
(***************************************************************************)
EXTENDS Integers, FiniteSets, FiniteSetsExt

CONSTANTS
    Executions,  \* rows, numbered in the order of created_at
    Threads,     \* thread keys
    Claimers,    \* execution worker coroutines of all replicas
    SlotCap,     \* _MAX_WORKFLOW_EXECUTION_SLOTS
    Window,      \* the LIMIT of the candidates
    Worlds,
    None

\* A world says which thread an execution has, which of them workflows ask
\* for, and whether a workflow may be slow to write the checkpoint that links
\* it to the execution it has enqueued.
WorldRecords == [threadOf : [Executions -> Threads],
                 flow     : SUBSET Executions,
                 slow     : BOOLEAN]

ASSUME ClaimAssumption ==
    /\ Executions \subseteq Nat
    /\ IsFiniteSet(Executions)
    /\ IsFiniteSet(Claimers)
    /\ SlotCap \in Nat \ {0}
    /\ Window \in Nat \ {0}
    /\ Worlds \subseteq WorldRecords
    /\ None \notin Executions

VARIABLES
    world,
    \* committed rows
    status,   \* of agent_execution_requests; "ended" for all terminal ones
    lease,    \* worker_lease_expires_at lies in the future
    linked,   \* executions that a workflow checkpoint refers to
    \* the transactions
    pc,
    rows,     \* rows a transaction has locked: its candidates
    locks,    \* threads whose advisory lock it has
    left,     \* candidates it has not looked at
    at,       \* the candidate it looks at
    free      \* did its count leave a slot free?

rowVars   == <<status, lease, linked>>
claimVars == <<pc, rows, locks, left, at, free>>
vars      == <<world, rowVars, claimVars>>

Occupying == {"running", "retry_wait"}
Statuses  == {"absent", "queued", "cancel_requested", "ended"} \cup Occupying

\* Whoever has candidates is in a transaction, and no row and no thread is
\* locked twice.
TypeOK ==
    /\ world  \in Worlds
    /\ status \in [Executions -> Statuses]
    /\ lease  \in [Executions -> BOOLEAN]
    /\ linked \subseteq world.flow
    /\ pc     \in [Claimers -> {"idle", "count", "next", "active", "slot", "take"}]
    /\ rows   \in [Claimers -> SUBSET Executions]
    /\ locks  \in [Claimers -> SUBSET Threads]
    /\ left   \in [Claimers -> SUBSET Executions]
    /\ at     \in [Claimers -> Executions \cup {None}]
    /\ free   \in [Claimers -> BOOLEAN]
    /\ \A c \in Claimers :
          /\ left[c] \subseteq rows[c]
          /\ pc[c] = "idle" => rows[c] = {} /\ locks[c] = {}
          /\ pc[c] \in {"active", "slot", "take"} => at[c] \in rows[c]
    /\ \A c, d \in Claimers : c # d => rows[c] \cap rows[d] = {} /\ locks[c] \cap locks[d] = {}

Init ==
    /\ world  \in Worlds
    /\ status = [e \in Executions |-> "absent"]
    /\ lease  = [e \in Executions |-> FALSE]
    /\ linked = {}
    /\ pc     = [c \in Claimers |-> "idle"]
    /\ rows   = [c \in Claimers |-> {}]
    /\ locks  = [c \in Claimers |-> {}]
    /\ left   = [c \in Claimers |-> {}]
    /\ at     = [c \in Claimers |-> None]
    /\ free   = [c \in Claimers |-> FALSE]

-----------------------------------------------------------------------------
(* Helpers *)

\* What keeps a claim away from e: the siblings that are at work.
Blockers(e) ==
    {f \in Executions \ {e} :
        /\ world.threadOf[f] = world.threadOf[e]
        /\ \/ status[f] \in Occupying
           \/ status[f] = "cancel_requested" /\ lease[f]}

Claimable(e) ==
    /\ \/ status[e] = "queued"
       \/ status[e] \in {"cancel_requested", "retry_wait"} /\ ~lease[e]
    /\ Blockers(e) = {}

Locked(e) == \E c \in Claimers : e \in rows[c]

\* Mutant: the SELECT does not lock its rows against others.
SelectableUnlocked == {e \in Executions : Claimable(e)}

\* The rows a SELECT may take: SKIP LOCKED passes over those of others.
Selectable == {e \in Executions : Claimable(e) /\ ~Locked(e)}

\* The oldest of S, as many as the LIMIT lets through.
Oldest(S) == {e \in S : Cardinality({f \in S : f < e}) < Window}

\* Executions of workflows that hold a slot.
SlotsTaken == {e \in linked : status[e] \in Occupying}

\* Mutant: the comparison is off by one.
RoomOffByOne == Cardinality(SlotsTaken) <= SlotCap

Room == Cardinality(SlotsTaken) < SlotCap

\* Mutant: the siblings are not looked at again under the lock.
StillFreeUnchecked(e) == status[e] # "absent"

\* The second look at the siblings, under the advisory lock of the thread.
StillFree(e) == Blockers(e) = {}

\* The transaction is over: its locks are released.
End(c) ==
    /\ pc'     = [pc EXCEPT ![c] = "idle"]
    /\ rows'   = [rows EXCEPT ![c] = {}]
    /\ locks'  = [locks EXCEPT ![c] = {}]
    /\ left'   = [left EXCEPT ![c] = {}]
    /\ at'     = [at EXCEPT ![c] = None]
    /\ free'   = [free EXCEPT ![c] = FALSE]

\* Goes on with the next candidate.
PassOver(c) ==
    /\ pc' = [pc EXCEPT ![c] = "next"]
    /\ at' = [at EXCEPT ![c] = None]

-----------------------------------------------------------------------------
(* The statements of the claim *)

SelectCandidates(c) ==
    /\ pc[c] = "idle"
    /\ pc'     = [pc EXCEPT ![c] = "count"]
    /\ rows'   = [rows EXCEPT ![c] = Oldest(Selectable)]
    /\ left'   = [left EXCEPT ![c] = Oldest(Selectable)]
    /\ UNCHANGED <<world, rowVars, locks, at, free>>

CountSlots(c) ==
    /\ pc[c] = "count"
    /\ pc'   = [pc EXCEPT ![c] = "next"]
    /\ free' = [free EXCEPT ![c] = Room]
    /\ UNCHANGED <<world, rowVars, rows, locks, left, at>>

\* pg_try_advisory_xact_lock for the next candidate's thread; a thread that
\* somebody else has is passed over.
TryThreadLock(c) ==
    /\ pc[c] = "next"
    /\ left[c] # {}
    /\ LET e == Min(left[c])
           t == world.threadOf[e]
       IN  /\ left' = [left EXCEPT ![c] = @ \ {e}]
           /\ IF \E d \in Claimers \ {c} : t \in locks[d]
                THEN UNCHANGED <<pc, at, locks>>
                ELSE /\ pc'    = [pc EXCEPT ![c] = "active"]
                     /\ at'    = [at EXCEPT ![c] = e]
                     /\ locks' = [locks EXCEPT ![c] = @ \cup {t}]
    /\ UNCHANGED <<world, rowVars, rows, free>>

CheckActive(c) ==
    /\ pc[c] = "active"
    /\ IF StillFree(at[c])
         THEN pc' = [pc EXCEPT ![c] = "slot"] /\ UNCHANGED at
         ELSE PassOver(c)
    /\ UNCHANGED <<world, rowVars, rows, locks, left, free>>

\* Is the candidate linked to a workflow?  Then the count decides.
CheckSlot(c) ==
    /\ pc[c] = "slot"
    /\ IF at[c] \in linked /\ ~free[c]
         THEN PassOver(c)
         ELSE pc' = [pc EXCEPT ![c] = "take"] /\ UNCHANGED at
    /\ UNCHANGED <<world, rowVars, rows, locks, left, free>>

\* The UPDATE and the commit, before which nobody sees it.
TakeAndCommit(c) ==
    /\ pc[c] = "take"
    /\ status' = [status EXCEPT ![at[c]] =
                    IF @ = "cancel_requested" THEN @ ELSE "running"]
    /\ lease'  = [lease EXCEPT ![at[c]] = TRUE]
    /\ End(c)
    /\ UNCHANGED <<world, linked>>

\* No candidate is left: the worker goes to sleep.
NothingToClaim(c) ==
    /\ pc[c] = "next"
    /\ left[c] = {}
    /\ End(c)
    /\ UNCHANGED <<world, rowVars>>

\* A statement fails or the process dies: the transaction is rolled back.
RollBack(c) ==
    /\ pc[c] # "idle"
    /\ End(c)
    /\ UNCHANGED <<world, rowVars>>

-----------------------------------------------------------------------------
(* What others commit meanwhile.  An UPDATE waits for the lock of its row.   *)

\* In a world that is not slow the checkpoint follows before anybody looks.
EnqueueExecution(e) ==
    /\ status[e] = "absent"
    /\ \A f \in Executions : f < e => status[f] # "absent"
    /\ status' = [status EXCEPT ![e] = "queued"]
    /\ linked' = IF world.slow THEN linked ELSE linked \cup ({e} \cap world.flow)
    /\ UNCHANGED <<world, lease, claimVars>>

\* The workflow's checkpoint of the step that enqueued the execution.
LinkExecution(e) ==
    /\ e \in world.flow \ linked
    /\ status[e] # "absent"
    /\ linked' = linked \cup {e}
    /\ UNCHANGED <<world, status, lease, claimVars>>

\* The UPDATEs of the other coroutines, whose conditions are those of
\* ExecutionLifecycle.
Update(e, to, held) ==
    /\ ~Locked(e)
    /\ status' = [status EXCEPT ![e] = to]
    /\ lease'  = [lease EXCEPT ![e] = held]
    /\ UNCHANGED <<world, linked, claimVars>>

EndRow(e)     == status[e] \notin {"absent", "ended"} /\ Update(e, "ended", FALSE)
BreakRow(e)   == status[e] = "running" /\ Update(e, "retry_wait", TRUE)
ReplayRow(e)  == status[e] = "running" /\ Update(e, "queued", FALSE)
RecoverRow(e) == /\ status[e] \in Occupying
                 /\ ~lease[e]
                 /\ Update(e, "queued", FALSE)

\* It names the row only, and writes over whatever that has become.
CancelRow(e)  == status[e] # "absent" /\ Update(e, "cancel_requested", lease[e])

\* A worker touches its row, or one that was its row.
TouchRow(e)   == /\ status[e] \in Occupying \cup {"cancel_requested"}
                 /\ Update(e, status[e], TRUE)

UpdateRow(e) ==
    \/ EndRow(e)
    \/ BreakRow(e)
    \/ ReplayRow(e)
    \/ RecoverRow(e)
    \/ CancelRow(e)
    \/ TouchRow(e)

LeaseExpires(e) ==
    /\ lease[e]
    /\ lease' = [lease EXCEPT ![e] = FALSE]
    /\ UNCHANGED <<world, status, linked, claimVars>>

ClaimStep(c) ==
    \/ SelectCandidates(c)
    \/ CountSlots(c)
    \/ TryThreadLock(c)
    \/ CheckActive(c)
    \/ CheckSlot(c)
    \/ TakeAndCommit(c)
    \/ NothingToClaim(c)
    \/ RollBack(c)

Next ==
    \/ \E c \in Claimers : ClaimStep(c)
    \/ \E e \in Executions : EnqueueExecution(e)
    \/ \E e \in Executions : LinkExecution(e)
    \/ \E e \in Executions : UpdateRow(e)
    \/ \E e \in Executions : LeaseExpires(e)

Spec == Init /\ [][Next]_vars

-----------------------------------------------------------------------------
(* Properties *)

\* The statements of two claims in any order leave one execution of a thread
\* running or waiting for a retry (the second look, under the advisory lock
\* that lasts until the commit, in _claim_next_execution).
OneActivePerThread ==
    \A e, f \in Executions :
        /\ world.threadOf[e] = world.threadOf[f]
        /\ status[e] \in Occupying
        /\ status[f] \in Occupying
        => e = f

\* When workflows link what they enqueue before anybody looks, the slots are
\* exceeded by claims under way only: by each worker but one that counted
\* before the others took.  (The comment at runtime_control.py:148 wants them
\* not exceeded at all.)
SlotsNearCap ==
    ~world.slow => Cardinality(SlotsTaken) <= SlotCap + Cardinality(Claimers) - 1
=============================================================================
