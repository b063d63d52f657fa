---------------------- MODULE ExecutionLifecycleProofs ----------------------
(***************************************************************************)
(* Proofs about ExecutionLifecycle for every number of executions,         *)
(* threads, workers, requests and watchdogs, and every bound: types, the   *)
(* serialization of a thread's executions, the two action properties of    *)
(* the status column, and who works on what in quiet worlds.                                                   *)
(***************************************************************************)
EXTENDS ExecutionLifecycle, TLAPS

\* A worker that is going to replay a turn has a retry left: what
\* ReplayTurn needs to keep authTries within its limit.
ReplayPlanned ==
    \A a \in Actors : local[a].to = "queued" => local[a].tries < AuthRetryLimit

\* Type correctness and its strengthening are inductive together.
TypeInv == TypeOK /\ ReplayPlanned

-----------------------------------------------------------------------------
USE DEF Terminal, NonTerminal, Occupying, ClaimedStatus, ClaimedHardPast, Stale, Overdue,
        AuthOutcome

\* The bounds of a world are natural numbers.
LEMMA WorldBounds ==
  ASSUME NEW x \in Worlds
  PROVE  x.crashes \in Nat /\ x.generations \in Nat
  BY ConstantsAssumption DEF WorldRecords

LEMMA InitTypeInv == Init => TypeInv
  <1>. SUFFICES ASSUME Init PROVE TypeInv
    OBVIOUS
  <1>1. world.crashes \in Nat /\ world.generations \in Nat
    BY WorldBounds DEF Init
  <1>2. 0 \in 0 .. world.crashes /\ 0 \in 0 .. world.generations
    BY <1>1
  <1>3. generation \in [Threads -> 0 .. world.generations]
    BY <1>2 DEF Init
  <1>4. crashes \in 0 .. world.crashes
    BY <1>2 DEF Init
  <1>5. local \in [Actors -> Locals] /\ ReplayPlanned
    BY ConstantsAssumption DEF Init, Locals, Fresh, ReplayPlanned
  <1>. QED
    BY <1>3, <1>4, <1>5, ConstantsAssumption DEF Init, TypeInv, TypeOK, Statuses, Places

\* Finish and Decide keep the actors' variables well typed.
LEMMA FinishTypes ==
  ASSUME TypeInv, NEW a \in Actors, Finish(a)
  PROVE  /\ pc' \in [Actors -> Places]
         /\ subject' \in [Actors -> Executions \cup Threads \cup {None}]
         /\ local' \in [Actors -> Locals]
         /\ attached' \subseteq Workers
         /\ ReplayPlanned'
  BY ConstantsAssumption
  DEF TypeInv, TypeOK, ReplayPlanned, Finish, Places, Locals, Fresh

LEMMA DecideTypes ==
  ASSUME TypeInv, NEW a \in Actors, NEW p \in Places,
         NEW to \in Terminal \cup {"queued"},
         NEW why \in {"no_input", "never_claimed", "other"},
         NEW stop \in BOOLEAN,
         to = "queued" => local[a].tries < AuthRetryLimit,
         Decide(a, p, to, why, stop)
  PROVE  /\ pc' \in [Actors -> Places]
         /\ local' \in [Actors -> Locals]
         /\ attached' \subseteq Workers
         /\ ReplayPlanned'
  <1>1. local' \in [Actors -> Locals]
    BY DEF TypeInv, TypeOK, Decide, Locals
  <1>2. ReplayPlanned'
    BY DEF TypeInv, TypeOK, Decide, Locals, ReplayPlanned
  <1>. QED  BY <1>1, <1>2 DEF TypeInv, TypeOK, Decide

LEMMA WorkerTypes ==
  ASSUME TypeInv, NEW w \in Workers, WorkerStep(w)
  PROVE  TypeInv'
  <1>. w \in Actors  BY DEF Actors
  <1>. USE ConstantsAssumption
  <1>1. CASE \E e \in Executions : ClaimNextExecution(w, e)
    <2>. PICK e \in Executions : ClaimNextExecution(w, e)  BY <1>1
    <2>1. local' \in [Actors -> Locals]
      BY DEF TypeInv, TypeOK, ClaimNextExecution, Locals
    <2>2. ReplayPlanned'
      BY DEF TypeInv, TypeOK, ClaimNextExecution, Locals, ReplayPlanned
    <2>3. /\ status' \in [Executions -> Statuses]
          /\ pc' \in [Actors -> Places]
          /\ subject' \in [Actors -> Executions \cup Threads \cup {None}]
      BY DEF TypeInv, TypeOK, ClaimNextExecution, Statuses, Places
    <2>4. /\ hardPast' \in [Executions -> BOOLEAN]
          /\ claimed' \in [Executions -> BOOLEAN]
          /\ lease' \in [Executions -> BOOLEAN]
      BY DEF TypeInv, TypeOK, ClaimNextExecution
    <2>. QED  BY <2>1, <2>2, <2>3, <2>4
              DEF TypeInv, TypeOK, ClaimNextExecution, asgVars
  <1>2. CASE ProcessCancelled(w) \/ ProcessTooLate(w) \/ GiveUp(w) \/ SeeCancel(w)
             \/ TurnDone(w)
    <2>1. PICK p \in Places, to \in Terminal, stop \in BOOLEAN,
               why \in {"no_input", "never_claimed", "other"} :
               Decide(w, p, to, why, stop)
      BY <1>2 DEF ProcessCancelled, ProcessTooLate, GiveUp, SeeCancel, TurnDone, Places
    <2>2. UNCHANGED <<rowVars, asgVars, subject, crashes>>
      BY <1>2 DEF ProcessCancelled, ProcessTooLate, GiveUp, SeeCancel, TurnDone
    <2>. QED  BY <2>1, <2>2, DecideTypes DEF TypeInv, TypeOK, rowVars, asgVars
  <1>3. CASE TurnAuthFailed(w)
    <2>1. UNCHANGED <<rowVars, asgVars, subject, crashes>>
      BY <1>3 DEF TurnAuthFailed
    <2>2. CASE local[w].tries < AuthRetryLimit
      <3>1. Decide(w, "stopFirst", "queued", "other", FALSE)
        BY <1>3, <2>2 DEF TurnAuthFailed
      <3>. QED  BY <2>1, <2>2, <3>1, DecideTypes DEF TypeInv, TypeOK, rowVars, asgVars, Places
    <2>3. CASE ~(local[w].tries < AuthRetryLimit)
      <3>1. Decide(w, "stopFirst", "failed_permanent", "other", FALSE)
        BY <1>3, <2>3 DEF TurnAuthFailed
      <3>. QED  BY <2>1, <3>1, DecideTypes DEF TypeInv, TypeOK, rowVars, asgVars, Places
    <2>. QED  BY <2>2, <2>3
  <1>4. CASE AcquireRuntime(w)
    BY <1>4 DEF AcquireRuntime, TypeInv, TypeOK, ReplayPlanned, rowVars, asgVars, Places
  <1>5. CASE AbandonExecution(w)
    BY <1>5, FinishTypes DEF AbandonExecution, TypeInv, TypeOK, rowVars, asgVars
  <1>6. CASE ResumeTurn(w)
    <2>1. lease' \in [Executions -> BOOLEAN]
      BY <1>6 DEF ResumeTurn, TypeInv, TypeOK
    <2>2. CASE Decide(w, "finalize", "completed", "other", FALSE)
      BY <1>6, <2>1, <2>2, DecideTypes
      DEF ResumeTurn, TypeInv, TypeOK, asgVars, Places
    <2>3. CASE pc' = [pc EXCEPT ![w] = "streaming"] /\ UNCHANGED <<local, attached>>
      BY <1>6, <2>1, <2>3 DEF ResumeTurn, TypeInv, TypeOK, ReplayPlanned, asgVars, Places
    <2>. QED  BY <1>6, <2>2, <2>3 DEF ResumeTurn
  <1>7. CASE InjectTurn(w)
    BY <1>7 DEF InjectTurn, TypeInv, TypeOK, ReplayPlanned, asgVars, Places
  <1>8. CASE KeepLease(w)
    BY <1>8 DEF KeepLease, TypeInv, TypeOK, ReplayPlanned, asgVars, actorVars
  <1>9. CASE StreamInterrupted(w)
    <2>1. status' \in [Executions -> Statuses] /\ lease' \in [Executions -> BOOLEAN]
      BY <1>9 DEF StreamInterrupted, TypeInv, TypeOK, Statuses
    <2>. QED  BY <1>9, <2>1, FinishTypes DEF StreamInterrupted, TypeInv, TypeOK, asgVars
  <1>10. CASE NothingToInject(w)
    <2>1. durable' \in [Executions -> BOOLEAN]
      BY <1>10 DEF NothingToInject, TypeInv, TypeOK
    <2>. QED
      BY <1>10, <2>1, DecideTypes DEF NothingToInject, TypeInv, TypeOK, asgVars, Places
  <1>11. CASE StreamEnded(w) \/ RewindSession(w)
    <2>1. CASE Finish(w)
      BY <1>11, <2>1, FinishTypes
      DEF StreamEnded, RewindSession, TypeInv, TypeOK, rowVars, asgVars
    <2>2. CASE ~Finish(w)
      BY <1>11, <2>2
      DEF StreamEnded, RewindSession, TypeInv, TypeOK, ReplayPlanned, rowVars, asgVars, Places
    <2>. QED  BY <2>1, <2>2
  <1>. QED  BY <1>1, <1>2, <1>3, <1>4, <1>5, <1>6, <1>7, <1>8, <1>9, <1>10, <1>11
            DEF WorkerStep

LEMMA FinalizeTypes ==
  ASSUME TypeInv, NEW a \in Actors, FinalizeStep(a)
  PROVE  TypeInv'
  <1>. USE ConstantsAssumption
  <1>1. ASSUME Return(a), UNCHANGED crashes
        PROVE  /\ pc' \in [Actors -> Places]
               /\ subject' \in [Actors -> Executions \cup Threads \cup {None}]
               /\ local' \in [Actors -> Locals]
               /\ attached' \subseteq Workers
               /\ ReplayPlanned'
    <2>1. CASE local[a].stop
      BY <1>1, <2>1 DEF Return, TypeInv, TypeOK, ReplayPlanned, Places
    <2>2. CASE ~local[a].stop
      BY <1>1, <2>2, FinishTypes DEF Return
    <2>. QED  BY <2>1, <2>2
  <1>2. CASE StopSessionFirst(a)
    BY <1>2 DEF StopSessionFirst, StopSession, TypeInv, TypeOK, ReplayPlanned,
                rowVars, asgVars, Places
  <1>3. CASE StopSessionLast(a)
    BY <1>3 DEF StopSessionLast, TypeInv, TypeOK, ReplayPlanned,
                rowVars, asgVars, Places, Locals, Fresh
  <1>4. CASE MarkTerminal(a)
    <2>1. status' \in [Executions -> Statuses]
      BY <1>4 DEF MarkTerminal, TypeInv, TypeOK, Statuses, Locals
    <2>. QED  BY <1>4, <2>1 DEF MarkTerminal, TypeInv, TypeOK, ReplayPlanned, asgVars, Places
  <1>5. CASE SkipTerminal(a)
    BY <1>1, <1>5 DEF SkipTerminal, TypeInv, TypeOK, rowVars, asgVars
  <1>6. CASE PublishOutcome(a)
    BY <1>1, <1>6 DEF PublishOutcome, TypeInv, TypeOK, asgVars
  <1>. QED  BY <1>2, <1>3, <1>4, <1>5, <1>6 DEF FinalizeStep

LEMMA ReplayTypes ==
  ASSUME TypeInv, NEW w \in Workers, ReplayTurn(w)
  PROVE  TypeInv'
  <1>. w \in Actors  BY DEF Actors
  <1>. USE ConstantsAssumption
  <1>1. local[w].tries + 1 \in 0 .. AuthRetryLimit
    <2>1. local[w].tries \in 0 .. AuthRetryLimit /\ local[w].tries < AuthRetryLimit
      BY DEF ReplayTurn, TypeInv, TypeOK, ReplayPlanned, Locals
    <2>. QED  BY <2>1 DEF ConstantsAssumption
  <1>2. authTries' \in [Executions -> 0 .. AuthRetryLimit]
    BY <1>1, Zenon DEF ReplayTurn, TypeInv, TypeOK
  <1>3. /\ status' \in [Executions -> Statuses]
        /\ lease' \in [Executions -> BOOLEAN]
        /\ claimed' \in [Executions -> BOOLEAN]
        /\ durable' \in [Executions -> BOOLEAN]
    BY DEF ReplayTurn, TypeInv, TypeOK, Statuses
  <1>4. /\ pc' \in [Actors -> Places]
        /\ subject' \in [Actors -> Executions \cup Threads \cup {None}]
        /\ local' \in [Actors -> Locals]
        /\ attached' \subseteq Workers
        /\ ReplayPlanned'
    <2>1. CASE Finish(w)
      BY <2>1, FinishTypes
    <2>2. CASE pc' = [pc EXCEPT ![w] = "rewind"] /\ UNCHANGED <<subject, local, attached>>
      BY <2>2 DEF TypeInv, TypeOK, ReplayPlanned, Places
    <2>. QED  BY <2>1, <2>2 DEF ReplayTurn
  <1>. QED  BY <1>2, <1>3, <1>4 DEF ReplayTurn, TypeInv, TypeOK, asgVars

LEMMA RequestTypes ==
  ASSUME TypeInv, NEW r \in Requests, RequestStep(r)
  PROVE  TypeInv'
  <1>. r \in Actors  BY DEF Actors
  <1>. USE ConstantsAssumption
  <1>1. CASE \E e \in Executions : CancelRead(r, e)
    <2>. PICK e \in Executions : CancelRead(r, e)  BY <1>1
    <2>1. subject' \in [Actors -> Executions \cup Threads \cup {None}]
      BY DEF CancelRead, TypeInv, TypeOK
    <2>2. CASE Decide(r, "finalize", "cancelled", "other", FALSE)
      BY <2>1, <2>2, DecideTypes DEF CancelRead, TypeInv, TypeOK, rowVars, asgVars, Places
    <2>3. CASE pc' = [pc EXCEPT ![r] = "cancelWrite"] /\ UNCHANGED <<local, attached>>
      BY <2>1, <2>3 DEF CancelRead, TypeInv, TypeOK, ReplayPlanned, rowVars, asgVars, Places
    <2>. QED  BY <2>2, <2>3 DEF CancelRead
  <1>2. CASE \E t \in Threads, c \in BOOLEAN : ReleaseAssignment(r, t, c)
    <2>. PICK t \in Threads, c \in BOOLEAN : ReleaseAssignment(r, t, c)  BY <1>2
    <2>. QED  BY DEF ReleaseAssignment, TypeInv, TypeOK, ReplayPlanned, Statuses, Places
  <1>3. CASE CancelWrite(r)
    BY <1>3 DEF CancelWrite, TypeInv, TypeOK, ReplayPlanned, asgVars, Statuses, Places
  <1>. QED  BY <1>1, <1>2, <1>3 DEF RequestStep

LEMMA WatchdogTypes ==
  ASSUME TypeInv, NEW d \in Watchdogs, WatchdogStep(d)
  PROVE  TypeInv'
  <1>. d \in Actors  BY DEF Actors
  <1>1. PICK e \in Executions, stop \in BOOLEAN, why \in {"never_claimed", "other"} :
          /\ subject' = [subject EXCEPT ![d] = e]
          /\ Decide(d, "finalize", "failed_permanent", why, stop)
          /\ UNCHANGED <<rowVars, asgVars, crashes>>
    BY DEF WatchdogStep, ReapOverdue, ReapQueued
  <1>. QED  BY <1>1, DecideTypes DEF TypeInv, TypeOK, rowVars, asgVars, Places

LEMMA NextTypeInv == TypeInv /\ [Next]_vars => TypeInv'
  <1>. SUFFICES ASSUME TypeInv, [Next]_vars PROVE TypeInv'
    OBVIOUS
  <1>. USE ConstantsAssumption
  <1>1. CASE UNCHANGED vars
    BY <1>1 DEF vars, rowVars, asgVars, actorVars, TypeInv, TypeOK, ReplayPlanned
  <1>2. CASE \E t \in Threads : SpawnAssignment(t)
    <2>. PICK t \in Threads : SpawnAssignment(t)  BY <1>2
    <2>1. world.generations \in Nat  BY WorldBounds DEF TypeInv, TypeOK
    <2>2. generation[t] + 1 \in 0 .. world.generations
      BY <2>1 DEF SpawnAssignment, TypeInv, TypeOK
    <2>3. generation' \in [Threads -> 0 .. world.generations]
      BY <2>2 DEF SpawnAssignment, TypeInv, TypeOK
    <2>. QED
      BY <2>3 DEF SpawnAssignment, rowVars, actorVars, TypeInv, TypeOK, ReplayPlanned
  <1>3. CASE \E e \in Executions : EnqueueExecution(e)
    BY <1>3 DEF EnqueueExecution, asgVars, actorVars, TypeInv, TypeOK, ReplayPlanned, Statuses
  <1>4. CASE \E w \in Workers : WorkerStep(w)
    BY <1>4, WorkerTypes
  <1>5. CASE \E a \in Actors : FinalizeStep(a)
    BY <1>5, FinalizeTypes
  <1>6. CASE \E w \in Workers : ReplayTurn(w)
    BY <1>6, ReplayTypes
  <1>7. CASE \E r \in Requests : RequestStep(r)
    BY <1>7, RequestTypes
  <1>8. CASE \E d \in Watchdogs : WatchdogStep(d)
    BY <1>8, WatchdogTypes
  <1>9. CASE RecoverStaleRunning
    BY <1>9 DEF RecoverStaleRunning, asgVars, actorVars, TypeInv, TypeOK, ReplayPlanned, Statuses
  <1>10. CASE \E e \in Executions : LeaseExpires(e)
    BY <1>10 DEF LeaseExpires, asgVars, actorVars, TypeInv, TypeOK, ReplayPlanned
  <1>11. CASE \E e \in Executions : HardDeadlinePasses(e)
    BY <1>11 DEF HardDeadlinePasses, asgVars, actorVars, TypeInv, TypeOK, ReplayPlanned
  <1>12. CASE \E a \in Actors : Crash(a)
    <2>. PICK a \in Actors : Crash(a)  BY <1>12
    <2>1. world.crashes \in Nat  BY WorldBounds DEF TypeInv, TypeOK
    <2>2. crashes' \in 0 .. world.crashes
      BY <2>1 DEF Crash, TypeInv, TypeOK
    <2>. QED  BY <2>2, FinishTypes DEF Crash, rowVars, asgVars, TypeInv, TypeOK
  <1>13. CASE \E e \in Executions : Deliver(e)
    BY <1>13 DEF Deliver, asgVars, actorVars, TypeInv, TypeOK, ReplayPlanned
  <1>. QED
    BY <1>1, <1>2, <1>3, <1>4, <1>5, <1>6, <1>7, <1>8, <1>9, <1>10, <1>11, <1>12, <1>13
    DEF Next

\* Every variable keeps its type, and no replay is planned beyond the limit.
THEOREM TypeCorrect == Spec => []TypeInv
  BY InitTypeInv, NextTypeInv, PTL DEF Spec

\* The type invariant the runs check.
THEOREM TypeOKHolds == Spec => []TypeOK
  <1>1. TypeInv => TypeOK  BY DEF TypeInv
  <1>. QED  BY <1>1, TypeCorrect, PTL

-----------------------------------------------------------------------------
(* The status column.  One lemma says how a step may move a status; the      *)
(* invariant and the action properties follow from it.                       *)

\* e is claimed: it was claimable, and no other status changes.
Claimed(e) ==
    /\ status[e] \in {"queued", "retry_wait"}
    /\ status'[e] = "running"
    /\ Blockers(e) = {}
    /\ \A f \in Executions \ {e} : status'[f] = status[f]

\* The UPDATE of a cancel request that has read the row earlier.
CancelledBlindly(e) ==
    /\ status'[e] = "cancel_requested"
    /\ \E r \in Requests : pc[r] = "cancelWrite" /\ subject[r] = e

StatusMove(e) ==
    \/ status'[e] = status[e]
    \/ status[e] = "absent" /\ status'[e] = "queued"
    \/ Claimed(e)
    \/ status[e] = "running" /\ status'[e] = "retry_wait"
    \/ status[e] \in Occupying /\ status'[e] = "queued"
    \/ status[e] \notin Terminal /\ status'[e] \in Terminal
    \/ CancelledBlindly(e)

LEMMA StatusMoves ==
  ASSUME TypeOK, [Next]_vars, NEW e \in Executions
  PROVE  StatusMove(e)
  <1>1. CASE UNCHANGED status
    BY <1>1 DEF StatusMove
  <1>2. CASE \E x \in Executions : EnqueueExecution(x)
    BY <1>2 DEF EnqueueExecution, StatusMove, TypeOK
  <1>3. ASSUME NEW w \in Workers, NEW x \in Executions, ClaimNextExecution(w, x)
        PROVE  StatusMove(e)
    <2>1. \A f \in Executions \ {x} : status'[f] = status[f]
      BY <1>3 DEF ClaimNextExecution, TypeOK
    <2>2. status'[x] = IF status[x] = "cancel_requested" THEN status[x] ELSE "running"
      BY <1>3 DEF ClaimNextExecution, TypeOK
    <2>3. Claimable(x)
      BY <1>3 DEF ClaimNextExecution
    <2>. QED  BY <2>1, <2>2, <2>3 DEF Claimable, Claimed, StatusMove
  <1>4. CASE \E w \in Workers : StreamInterrupted(w)
    BY <1>4 DEF StreamInterrupted, StatusMove, TypeOK
  <1>5. CASE \E a \in Actors : MarkTerminal(a)
    BY <1>5 DEF MarkTerminal, StatusMove, TypeOK
  <1>6. CASE \E w \in Workers : ReplayTurn(w)
    BY <1>6 DEF ReplayTurn, StatusMove, TypeOK
  <1>7. CASE \E r \in Requests, t \in Threads, c \in BOOLEAN : ReleaseAssignment(r, t, c)
    BY <1>7 DEF ReleaseAssignment, StatusMove
  <1>8. CASE \E r \in Requests : CancelWrite(r)
    BY <1>8 DEF CancelWrite, CancelledBlindly, StatusMove, TypeOK
  <1>9. CASE RecoverStaleRunning
    BY <1>9 DEF RecoverStaleRunning, StatusMove
  <1>10. \/ UNCHANGED status
         \/ \E x \in Executions : EnqueueExecution(x)
         \/ \E w \in Workers, x \in Executions : ClaimNextExecution(w, x)
         \/ \E w \in Workers : StreamInterrupted(w)
         \/ \E a \in Actors : MarkTerminal(a)
         \/ \E w \in Workers : ReplayTurn(w)
         \/ \E r \in Requests, t \in Threads, c \in BOOLEAN : ReleaseAssignment(r, t, c)
         \/ \E r \in Requests : CancelWrite(r)
         \/ RecoverStaleRunning
    <2>1. ASSUME NEW w \in Workers, WorkerStep(w)
          PROVE  \/ UNCHANGED status
                 \/ \E x \in Executions : ClaimNextExecution(w, x)
                 \/ StreamInterrupted(w)
      BY <2>1 DEF WorkerStep, ProcessCancelled, ProcessTooLate, AcquireRuntime,
                  AbandonExecution, ResumeTurn, InjectTurn, NothingToInject,
                  KeepLease, SeeCancel, GiveUp, TurnDone, TurnAuthFailed, StreamEnded,
                  RewindSession, rowVars
    <2>2. ASSUME NEW a \in Actors, FinalizeStep(a)
          PROVE  UNCHANGED status \/ MarkTerminal(a)
      BY <2>2 DEF FinalizeStep, StopSessionFirst, SkipTerminal, PublishOutcome,
                  StopSessionLast, rowVars
    <2>3. ASSUME NEW r \in Requests, RequestStep(r)
          PROVE  \/ UNCHANGED status
                 \/ \E t \in Threads, c \in BOOLEAN : ReleaseAssignment(r, t, c)
                 \/ CancelWrite(r)
      BY <2>3 DEF RequestStep, CancelRead, rowVars
    <2>4. ASSUME NEW d \in Watchdogs, WatchdogStep(d)
          PROVE  UNCHANGED status
      BY <2>4 DEF WatchdogStep, ReapOverdue, ReapQueued, rowVars
    <2>5. CASE UNCHANGED vars \/ \E t \in Threads : SpawnAssignment(t)
      BY <2>5 DEF vars, rowVars, SpawnAssignment
    <2>6. CASE \E a \in Actors : Crash(a)
      BY <2>6 DEF Crash, rowVars
    <2>7. CASE \E x \in Executions : LeaseExpires(x) \/ HardDeadlinePasses(x) \/ Deliver(x)
      BY <2>7 DEF LeaseExpires, HardDeadlinePasses, Deliver
    <2>. QED  BY <2>1, <2>2, <2>3, <2>4, <2>5, <2>6, <2>7 DEF Next
  <1>. QED  BY <1>1, <1>2, <1>3, <1>4, <1>5, <1>6, <1>7, <1>8, <1>9, <1>10

LEMMA OneActiveStep ==
  ASSUME TypeOK, OneActivePerThread, [Next]_vars
  PROVE  OneActivePerThread'
  <1>. SUFFICES ASSUME NEW e \in Executions, NEW f \in Executions,
                       ThreadOf[e] = ThreadOf[f],
                       status'[e] \in Occupying, status'[f] \in Occupying,
                       e # f
                PROVE  FALSE
    BY DEF OneActivePerThread
  <1>1. ASSUME NEW x \in Executions, status'[x] \in Occupying, status[x] \notin Occupying
        PROVE  Claimed(x)
    BY <1>1, StatusMoves DEF StatusMove, CancelledBlindly
  <1>2. CASE status[e] \in Occupying /\ status[f] \in Occupying
    BY <1>2 DEF OneActivePerThread
  <1>3. CASE status[e] \notin Occupying
    <2>1. Claimed(e)  BY <1>1, <1>3
    <2>2. f \in Blockers(e)  BY <2>1 DEF Claimed, Blockers
    <2>. QED  BY <2>1, <2>2 DEF Claimed
  <1>4. CASE status[f] \notin Occupying
    <2>1. Claimed(f)  BY <1>1, <1>4
    <2>2. e \in Blockers(f)  BY <2>1 DEF Claimed, Blockers
    <2>. QED  BY <2>1, <2>2 DEF Claimed
  <1>. QED  BY <1>2, <1>3, <1>4

\* The executions of a thread are serialized, whatever claims, recoveries,
\* cancels and crashes come in between (_claim_next_execution).
THEOREM Serialized == Spec => []OneActivePerThread
  <1>1. Init => OneActivePerThread  BY DEF Init, OneActivePerThread
  <1>2. TypeOK /\ OneActivePerThread /\ [Next]_vars => OneActivePerThread'
    BY OneActiveStep
  <1>. QED  BY <1>1, <1>2, TypeOKHolds, PTL DEF Spec

\* No finalizer overwrites another one; only a cancel request that read the
\* row before can take a terminal status away (_mark_execution_terminal,
\* cancel_execution).
THEOREM FirstWins == Spec => FirstFinalizerWins
  <1>1. TypeOK /\ [Next]_vars =>
          [\A e \in Executions :
             status[e] \in Terminal /\ status'[e] # status[e]
             => /\ status'[e] = "cancel_requested"
                /\ \E r \in Requests : pc[r] = "cancelWrite" /\ subject[r] = e]_vars
    BY StatusMoves DEF StatusMove, Claimed, CancelledBlindly
  <1>. QED  BY <1>1, TypeOKHolds, PTL DEF Spec, FirstFinalizerWins

\* A recorded cancellation only ever ends (_claim_next_execution,
\* _recover_stale_running, the retry_wait and replay updates).
THEOREM CancelKept == Spec => CancelNeverForgotten
  <1>1. TypeOK /\ [Next]_vars =>
          [\A e \in Executions :
             status[e] = "cancel_requested"
             => status'[e] \in Terminal \cup {"cancel_requested"}]_vars
    BY StatusMoves DEF StatusMove, Claimed, CancelledBlindly
  <1>. QED  BY <1>1, TypeOKHolds, PTL DEF Spec, CancelNeverForgotten

-----------------------------------------------------------------------------
(* Worlds where nobody cancels or releases: who works on what.               *)

\* No request is served, and whoever is busy is busy with an execution.
Quiet ==
    /\ \A r \in Requests : pc[r] = "idle"
    /\ \A a \in Actors : pc[a] # "idle" => subject[a] \in Executions
    /\ \A a \in Actors : pc[a] = "idle" => subject[a] = None

\* e has ended, or runs under a lease: nobody may claim it.
Covered(e) == status[e] \in Terminal \/ (status[e] = "running" /\ lease[e])

\* What a worker works on, unless it has given it back, is covered, and nobody
\* else works on it.
WorkerInv ==
    /\ Quiet
    /\ \A e \in Executions : status[e] # "cancel_requested"
    /\ \A e \in Executions : WorkersOn(e) # {} => Covered(e)
    /\ \A e \in Executions : \A w, x \in WorkersOn(e) : w = x

\* An answer is up for delivery only after the one publisher that its row's
\* end allows.
AnswerInv ==
    /\ Quiet
    /\ \A e \in Executions : status[e] \notin Terminal => outbox[e] \in {"none", "awaiting"}
    /\ \A a \in Actors : pc[a] = "publish" =>
         /\ status[subject[a]] \in Terminal
         /\ outbox[subject[a]] \in {"none", "awaiting"}
    /\ \A a, b \in Actors :
         pc[a] = "publish" /\ pc[b] = "publish" /\ subject[a] = subject[b] => a = b

LEMMA WorldKept == [Next]_vars => UNCHANGED world
  <1>. SUFFICES ASSUME [Next]_vars PROVE UNCHANGED world
    OBVIOUS
  <1>1. ASSUME NEW w \in Workers, WorkerStep(w) \/ ReplayTurn(w)
        PROVE  UNCHANGED world
    BY <1>1 DEF WorkerStep, ClaimNextExecution, ProcessCancelled, ProcessTooLate, AcquireRuntime,
                AbandonExecution, ResumeTurn, InjectTurn, NothingToInject, KeepLease, SeeCancel,
                GiveUp, TurnDone, TurnAuthFailed, StreamEnded, StreamInterrupted, RewindSession,
                ReplayTurn, asgVars
  <1>2. ASSUME NEW a \in Actors, FinalizeStep(a) \/ Crash(a)
        PROVE  UNCHANGED world
    BY <1>2 DEF FinalizeStep, StopSessionFirst, MarkTerminal, SkipTerminal, PublishOutcome,
                StopSessionLast, Crash, asgVars
  <1>3. ASSUME NEW r \in Requests, RequestStep(r)
        PROVE  UNCHANGED world
    BY <1>3 DEF RequestStep, CancelRead, ReleaseAssignment, CancelWrite, asgVars
  <1>4. ASSUME NEW d \in Watchdogs, WatchdogStep(d)
        PROVE  UNCHANGED world
    BY <1>4 DEF WatchdogStep, ReapOverdue, ReapQueued, asgVars
  <1>5. ASSUME NEW e \in Executions, \/ EnqueueExecution(e) \/ LeaseExpires(e)
                                     \/ HardDeadlinePasses(e) \/ Deliver(e)
        PROVE  UNCHANGED world
    BY <1>5 DEF EnqueueExecution, LeaseExpires, HardDeadlinePasses, Deliver, asgVars
  <1>6. CASE RecoverStaleRunning \/ UNCHANGED vars \/ \E t \in Threads : SpawnAssignment(t)
    BY <1>6 DEF RecoverStaleRunning, SpawnAssignment, vars, asgVars
  <1>. QED  BY <1>1, <1>2, <1>3, <1>4, <1>5, <1>6 DEF Next

\* How a step may move the actors of such a world.
GoesOn(a)   == /\ pc[a] \notin {"idle", "rewind"}
               /\ \E p \in Places \ {"idle"} : pc' = [pc EXCEPT ![a] = p]
               /\ UNCHANGED subject
TakesUp(a)  == /\ pc[a] = "idle" /\ a \notin Requests
               /\ \E p \in Places \ {"idle"} : pc' = [pc EXCEPT ![a] = p]
               /\ \E e \in Executions : subject' = [subject EXCEPT ![a] = e]
IsDone(a)   == /\ pc[a] # "idle"
               /\ pc' = [pc EXCEPT ![a] = "idle"]
               /\ subject' = [subject EXCEPT ![a] = None]
ActorMove   == \/ UNCHANGED <<pc, subject>>
               \/ \E a \in Actors : GoesOn(a) \/ TakesUp(a) \/ IsDone(a)

LEMMA ActorMoves ==
  ASSUME TypeOK, Uncancelled, Quiet, [Next]_vars
  PROVE  ActorMove
  <1>. USE ConstantsAssumption DEF GoesOn, TakesUp, IsDone, Places
  <1>1. ASSUME NEW w \in Workers, WorkerStep(w)
        PROVE  GoesOn(w) \/ TakesUp(w) \/ IsDone(w) \/ UNCHANGED <<pc, subject>>
    <2>1. CASE \E e \in Executions : ClaimNextExecution(w, e)
      BY <2>1 DEF ClaimNextExecution
    <2>2. CASE \/ ProcessCancelled(w) \/ ProcessTooLate(w) \/ AcquireRuntime(w)
               \/ NothingToInject(w) \/ InjectTurn(w) \/ SeeCancel(w) \/ GiveUp(w)
      BY <2>2 DEF ProcessCancelled, ProcessTooLate, AcquireRuntime, NothingToInject,
                  InjectTurn, SeeCancel, GiveUp, Decide
    <2>3. CASE TurnDone(w) \/ TurnAuthFailed(w) \/ ResumeTurn(w)
      BY <2>3 DEF TurnDone, TurnAuthFailed, ResumeTurn, Decide
    <2>4. CASE AbandonExecution(w) \/ StreamInterrupted(w) \/ RewindSession(w)
      BY <2>4 DEF AbandonExecution, StreamInterrupted, RewindSession, Finish
    <2>5. CASE KeepLease(w)
      BY <2>5 DEF KeepLease, actorVars
    <2>6. CASE StreamEnded(w)
      BY <2>6 DEF StreamEnded, Finish
    <2>. QED  BY <1>1, <2>1, <2>2, <2>3, <2>4, <2>5, <2>6 DEF WorkerStep
  <1>2. ASSUME NEW a \in Actors, FinalizeStep(a)
        PROVE  GoesOn(a) \/ IsDone(a)
    <2>1. CASE StopSessionFirst(a) \/ MarkTerminal(a) \/ StopSessionLast(a)
      BY <2>1 DEF StopSessionFirst, MarkTerminal, StopSessionLast
    <2>2. CASE SkipTerminal(a) \/ PublishOutcome(a)
      BY <2>2 DEF SkipTerminal, PublishOutcome, Return, Finish
    <2>. QED  BY <1>2, <2>1, <2>2 DEF FinalizeStep
  <1>3. ASSUME NEW w \in Workers, ReplayTurn(w)
        PROVE  GoesOn(w) \/ IsDone(w)
    BY <1>3 DEF ReplayTurn, Finish
  <1>4. ASSUME NEW r \in Requests, RequestStep(r)
        PROVE  FALSE
    BY <1>4 DEF RequestStep, CancelRead, ReleaseAssignment, CancelWrite, Uncancelled, Quiet
  <1>5. ASSUME NEW d \in Watchdogs, WatchdogStep(d)
        PROVE  TakesUp(d)
    BY <1>5 DEF WatchdogStep, ReapOverdue, ReapQueued, Decide
  <1>6. CASE RecoverStaleRunning \/ UNCHANGED vars \/ \E t \in Threads : SpawnAssignment(t)
    BY <1>6 DEF RecoverStaleRunning, SpawnAssignment, vars, actorVars, ActorMove
  <1>7. CASE \E e \in Executions : \/ EnqueueExecution(e) \/ LeaseExpires(e)
                                   \/ HardDeadlinePasses(e) \/ Deliver(e)
    BY <1>7 DEF EnqueueExecution, LeaseExpires, HardDeadlinePasses, Deliver, actorVars, ActorMove
  <1>8. ASSUME NEW a \in Actors, Crash(a)
        PROVE  IsDone(a)
    BY <1>8 DEF Crash, Finish
  <1>. HIDE DEF GoesOn, TakesUp, IsDone
  <1>9. Workers \subseteq Actors /\ Watchdogs \subseteq Actors
    BY DEF Actors
  <1>. QED  BY <1>1, <1>2, <1>3, <1>4, <1>5, <1>6, <1>7, <1>8, <1>9 DEF Next, ActorMove

LEMMA QuietStep ==
  ASSUME TypeOK, Uncancelled, Quiet, [Next]_vars
  PROVE  Quiet'
  <1>1. CASE UNCHANGED <<pc, subject>>
    BY <1>1 DEF Quiet
  <1>2. ASSUME NEW a \in Actors, GoesOn(a)
        PROVE  Quiet'
    BY <1>2 DEF GoesOn, Quiet, TypeOK
  <1>3. ASSUME NEW a \in Actors, TakesUp(a)
        PROVE  Quiet'
    BY <1>3 DEF TakesUp, Quiet, TypeOK
  <1>4. ASSUME NEW a \in Actors, IsDone(a)
        PROVE  Quiet'
    BY <1>4 DEF IsDone, Quiet, TypeOK
  <1>. QED  BY <1>1, <1>2, <1>3, <1>4, ActorMoves DEF ActorMove

\* The subject of a worker changes by a claim, or when the worker is done.
LEMMA WorkerSubjects ==
  ASSUME TypeOK, Uncancelled, Quiet, [Next]_vars, NEW w \in Workers, subject'[w] # subject[w]
  PROVE  \/ subject'[w] = None
         \/ \E e \in Executions : ClaimNextExecution(w, e)
  <1>. USE ConstantsAssumption DEF Actors
  <1>1. CASE \E x \in Workers, e \in Executions : ClaimNextExecution(x, e)
    <2>. PICK x \in Workers, e \in Executions : ClaimNextExecution(x, e)  BY <1>1
    <2>1. subject' = [subject EXCEPT ![x] = e]  BY DEF ClaimNextExecution
    <2>2. x = w  BY <2>1 DEF TypeOK
    <2>. QED  BY <2>2
  <1>2. ASSUME NEW x \in Workers, WorkerStep(x)
        PROVE  \/ UNCHANGED subject \/ Finish(x)
               \/ \E e \in Executions : ClaimNextExecution(x, e)
    BY <1>2 DEF WorkerStep, ProcessCancelled, ProcessTooLate, AcquireRuntime, AbandonExecution,
                ResumeTurn, InjectTurn, NothingToInject, KeepLease, SeeCancel, GiveUp, TurnDone,
                TurnAuthFailed, StreamEnded, StreamInterrupted, RewindSession, actorVars
  <1>3. ASSUME NEW a \in Actors, Finish(a)
        PROVE  subject'[w] = None
    BY <1>3 DEF Finish, TypeOK
  <1>4. CASE \E a \in Actors : FinalizeStep(a)
    BY <1>4, <1>3 DEF FinalizeStep, StopSessionFirst, MarkTerminal, StopSessionLast, SkipTerminal,
                PublishOutcome, Return, TypeOK
  <1>5. CASE \E x \in Workers : ReplayTurn(x)
    BY <1>5, <1>3 DEF ReplayTurn, TypeOK
  <1>6. ASSUME NEW r \in Requests, RequestStep(r)
        PROVE  FALSE
    BY <1>6 DEF RequestStep, CancelRead, ReleaseAssignment, CancelWrite, Uncancelled, Quiet
  <1>7. CASE \E d \in Watchdogs : WatchdogStep(d)
    <2>. PICK d \in Watchdogs, e \in Executions : subject' = [subject EXCEPT ![d] = e]
      BY <1>7 DEF WatchdogStep, ReapOverdue, ReapQueued
    <2>. QED  BY DEF TypeOK
  <1>8. CASE RecoverStaleRunning \/ UNCHANGED vars \/ \E t \in Threads : SpawnAssignment(t)
    BY <1>8 DEF RecoverStaleRunning, SpawnAssignment, vars, actorVars
  <1>9. CASE \E e \in Executions : \/ EnqueueExecution(e) \/ LeaseExpires(e)
                                   \/ HardDeadlinePasses(e) \/ Deliver(e)
    BY <1>9 DEF EnqueueExecution, LeaseExpires, HardDeadlinePasses, Deliver, actorVars
  <1>10. CASE \E a \in Actors : Crash(a)
    BY <1>10, <1>3 DEF Crash
  <1>. QED  BY <1>1, <1>2, <1>3, <1>4, <1>5, <1>6, <1>7, <1>8, <1>9, <1>10 DEF Next

\* A worker comes to work on an execution by a claim only.
LEMMA WorkersCome ==
  ASSUME TypeOK, Uncancelled, Quiet, [Next]_vars, NEW e \in Executions,
         NEW w \in WorkersOn(e)', w \notin WorkersOn(e)
  PROVE  ClaimNextExecution(w, e)
  <1>1. w \in Workers /\ subject'[w] = e /\ pc'[w] # "rewind"
    BY DEF WorkersOn
  <1>2. CASE subject[w] = e
    <2>1. pc[w] = "rewind"
      BY <1>1, <1>2 DEF WorkersOn
    <2>2. pc'[w] = "rewind" \/ subject'[w] = None
      BY <1>1, <2>1, ActorMoves
      DEF ActorMove, GoesOn, TakesUp, IsDone, Actors, TypeOK
    <2>. QED  BY <1>1, <2>2, ConstantsAssumption
  <1>3. CASE subject[w] # e
    <2>1. PICK f \in Executions : ClaimNextExecution(w, f)
      BY <1>1, <1>3, WorkerSubjects, ConstantsAssumption
    <2>2. subject'[w] = f
      BY <1>1, <2>1 DEF ClaimNextExecution, TypeOK, Actors
    <2>. QED  BY <1>1, <2>1, <2>2
  <1>. QED  BY <1>2, <1>3

\* While a worker works on e and leases are kept, e stays covered.
LEMMA CoveredStays ==
  ASSUME TypeOK, Undisturbed, WorkerInv, [Next]_vars, NEW e \in Executions,
         NEW w \in WorkersOn(e), w \in WorkersOn(e)'
  PROVE  Covered(e)'
  <1>. USE ConstantsAssumption DEF Actors, Covered
  <1>1. Covered(e)
    BY DEF WorkerInv
  <1>2. \A x \in Workers : subject[x] = e /\ pc[x] # "rewind" => x = w
    BY DEF WorkerInv, WorkersOn
  <1>3. Uncancelled /\ ~world.lapse /\ Quiet
    BY DEF Undisturbed, WorkerInv
  <1>. USE DEF TypeOK
  <1>. /\ w \in Workers /\ subject[w] = e /\ subject'[w] = e
       /\ pc[w] # "rewind" /\ pc'[w] # "rewind"
    BY DEF WorkersOn
  <1>4. CASE UNCHANGED <<status, lease>>
    BY <1>1, <1>4
  <1>5. CASE \E f \in Executions : EnqueueExecution(f)
    BY <1>1, <1>5 DEF EnqueueExecution
  <1>6. CASE \E x \in Workers, f \in Executions : ClaimNextExecution(x, f)
    BY <1>1, <1>6 DEF ClaimNextExecution, Claimable
  <1>7. CASE \E x \in Workers : ResumeTurn(x) \/ InjectTurn(x) \/ KeepLease(x)
    <2>1. UNCHANGED status
      BY <1>7 DEF ResumeTurn, InjectTurn, KeepLease
    <2>2. PICK x \in Workers : ResumeTurn(x) \/ InjectTurn(x) \/ KeepLease(x)
      BY <1>7
    <2>3. \/ lease' = [lease EXCEPT ![subject[x]] = TRUE]
          \/ lease' = [lease EXCEPT ![subject[x]] = @ \/ status[subject[x]] \in NonTerminal \ {"queued"}]
      BY <2>2 DEF ResumeTurn, InjectTurn, KeepLease
    <2>4. lease[e] => lease'[e]
      BY <2>3
    <2>. QED  BY <1>1, <2>1, <2>4
  <1>8. ASSUME NEW x \in Workers, StreamInterrupted(x) \/ ReplayTurn(x)
        PROVE  Covered(e)'
    <2>1. CASE subject[x] # e
      BY <1>1, <1>8, <2>1 DEF StreamInterrupted, ReplayTurn
    <2>2. CASE subject[x] = e
      <3>1. x = w
        BY <1>2, <1>8, <2>2 DEF StreamInterrupted, ReplayTurn
      <3>. QED  BY <1>1, <1>8, <3>1 DEF StreamInterrupted, ReplayTurn, Finish
    <2>. QED  BY <2>1, <2>2
  <1>9. CASE \E a \in Actors : MarkTerminal(a)
    BY <1>1, <1>9 DEF MarkTerminal
  <1>10. CASE RecoverStaleRunning
    BY <1>1, <1>10 DEF RecoverStaleRunning
  <1>11. CASE \E f \in Executions : LeaseExpires(f)
    BY <1>1, <1>3, <1>11 DEF LeaseExpires
  <1>12. ASSUME NEW x \in Workers, WorkerStep(x)
         PROVE  \/ UNCHANGED <<status, lease>>
                \/ \E f \in Executions : ClaimNextExecution(x, f)
                \/ ResumeTurn(x) \/ InjectTurn(x) \/ KeepLease(x) \/ StreamInterrupted(x)
    BY <1>12 DEF WorkerStep, ProcessCancelled, ProcessTooLate, AcquireRuntime, AbandonExecution,
                 NothingToInject, SeeCancel, GiveUp, TurnDone, TurnAuthFailed, StreamEnded,
                  RewindSession, rowVars
  <1>13. ASSUME NEW a \in Actors, FinalizeStep(a)
         PROVE  UNCHANGED <<status, lease>> \/ MarkTerminal(a)
    BY <1>13 DEF FinalizeStep, StopSessionFirst, SkipTerminal, PublishOutcome,
                 StopSessionLast, rowVars
  <1>14. ASSUME NEW r \in Requests, RequestStep(r)
         PROVE  FALSE
    BY <1>3, <1>14 DEF RequestStep, CancelRead, ReleaseAssignment, CancelWrite, Uncancelled, Quiet
  <1>15. CASE \E d \in Watchdogs : WatchdogStep(d)
    BY <1>4, <1>15 DEF WatchdogStep, ReapOverdue, ReapQueued, rowVars
  <1>16. CASE UNCHANGED vars \/ \E t \in Threads : SpawnAssignment(t)
    BY <1>4, <1>16 DEF vars, rowVars, SpawnAssignment
  <1>17. CASE \/ \E a \in Actors : Crash(a)
              \/ \E f \in Executions : HardDeadlinePasses(f) \/ Deliver(f)
    BY <1>4, <1>17 DEF Crash, HardDeadlinePasses, Deliver, rowVars
  <1>. QED
    BY <1>4, <1>5, <1>6, <1>7, <1>8, <1>9, <1>10, <1>11, <1>12, <1>13, <1>14, <1>15, <1>16, <1>17
    DEF Next

LEMMA WorkerInvStep ==
  ASSUME TypeOK, Undisturbed, WorkerInv, [Next]_vars
  PROVE  WorkerInv'
  <1>1. Uncancelled /\ Quiet
    BY DEF Undisturbed, WorkerInv
  <1>2. Quiet'
    BY <1>1, QuietStep
  <1>3. \A e \in Executions : status'[e] # "cancel_requested"
    <2>. SUFFICES ASSUME NEW e \in Executions PROVE status'[e] # "cancel_requested"
      OBVIOUS
    <2>. QED  BY StatusMoves DEF StatusMove, Claimed, CancelledBlindly, WorkerInv, Quiet
  <1>4. ASSUME NEW w \in Workers, NEW e \in Executions, ClaimNextExecution(w, e)
        PROVE  Covered(e)' /\ WorkersOn(e) = {}
    BY <1>4 DEF ClaimNextExecution, Claimable, Covered, WorkerInv, TypeOK
  <1>5. ASSUME NEW e \in Executions, NEW w \in WorkersOn(e)'
        PROVE  Covered(e)'
    <2>1. CASE w \in WorkersOn(e)
      BY <1>5, <2>1, CoveredStays
    <2>2. CASE w \notin WorkersOn(e)
      BY <1>1, <1>4, <1>5, <2>2, WorkersCome DEF WorkersOn
    <2>. QED  BY <2>1, <2>2
  <1>6. ASSUME NEW e \in Executions, NEW w \in WorkersOn(e)', NEW x \in WorkersOn(e)'
        PROVE  w = x
    <2>1. ASSUME NEW v \in WorkersOn(e)', NEW y \in WorkersOn(e)', v \notin WorkersOn(e)
          PROVE  v = y
      <3>1. ClaimNextExecution(v, e) /\ v \in Workers
        BY <1>1, <2>1, WorkersCome DEF WorkersOn
      <3>2. WorkersOn(e) = {} /\ subject' = [subject EXCEPT ![v] = e]
        BY <1>4, <3>1 DEF ClaimNextExecution
      <3>3. y \in Workers /\ y \notin WorkersOn(e)
        BY <3>2 DEF WorkersOn
      <3>4. ClaimNextExecution(y, e)
        BY <1>1, <2>1, <3>3, WorkersCome
      <3>. QED  BY <3>1, <3>3, <3>4 DEF ClaimNextExecution, TypeOK, Actors
    <2>2. CASE w \in WorkersOn(e) /\ x \in WorkersOn(e)
      BY <2>2 DEF WorkerInv
    <2>. QED  BY <2>1, <2>2
  <1>. QED  BY <1>2, <1>3, <1>5, <1>6 DEF WorkerInv

\* No two workers ever work on one execution where leases are kept and nobody
\* cancels, one that rewinds what it gave back aside: a reclaim finds a row
\* whose worker is gone (_claim_next_execution, _recover_stale_running).
THEOREM OneWorker == Spec => []OneWorkerPerExecution
  <1>1. Init => (Undisturbed => WorkerInv)
    BY ConstantsAssumption DEF Init, WorkerInv, WorkersOn, Quiet, Actors
  <1>2. TypeOK /\ (Undisturbed => WorkerInv) /\ [Next]_vars => (Undisturbed => WorkerInv)'
    <2>. SUFFICES ASSUME TypeOK, [Next]_vars, Undisturbed => WorkerInv, Undisturbed'
                  PROVE  WorkerInv'
      OBVIOUS
    <2>1. Undisturbed  BY WorldKept DEF Undisturbed, Uncancelled
    <2>. QED  BY <2>1, WorkerInvStep
  <1>3. (Undisturbed => WorkerInv) => OneWorkerPerExecution
    BY DEF WorkerInv, OneWorkerPerExecution
  <1>. QED  BY <1>1, <1>2, <1>3, TypeOKHolds, PTL DEF Spec

\* What a step does to the answers of such a world.
Publishes(a) == /\ pc[a] = "publish" /\ pc'[a] # "publish"
                /\ outbox' = [outbox EXCEPT ![subject[a]] = "pending"]
OutboxMove   == \/ UNCHANGED outbox
                \/ \E e \in Executions : EnqueueExecution(e) \/ Deliver(e)
                \/ \E a \in Actors : Publishes(a)

LEMMA OutboxMoves ==
  ASSUME TypeOK, [Next]_vars
  PROVE  OutboxMove
  <1>1. ASSUME NEW w \in Workers, WorkerStep(w) \/ ReplayTurn(w)
        PROVE  UNCHANGED outbox
    BY <1>1 DEF WorkerStep, ClaimNextExecution, ProcessCancelled, ProcessTooLate, AcquireRuntime,
                AbandonExecution, ResumeTurn, InjectTurn, NothingToInject, KeepLease, SeeCancel,
                GiveUp, TurnDone, TurnAuthFailed, StreamEnded, StreamInterrupted, RewindSession,
                ReplayTurn, rowVars
  <1>2. ASSUME NEW a \in Actors, FinalizeStep(a)
        PROVE  UNCHANGED outbox \/ Publishes(a)
    <2>1. CASE PublishOutcome(a)
      BY <2>1 DEF PublishOutcome, Publishes, Return, Finish, TypeOK
    <2>2. CASE StopSessionFirst(a) \/ MarkTerminal(a) \/ SkipTerminal(a) \/ StopSessionLast(a)
      BY <2>2 DEF StopSessionFirst, MarkTerminal, SkipTerminal, StopSessionLast, rowVars
    <2>. QED  BY <1>2, <2>1, <2>2 DEF FinalizeStep
  <1>3. ASSUME NEW r \in Requests, RequestStep(r)
        PROVE  UNCHANGED outbox
    BY <1>3 DEF RequestStep, CancelRead, ReleaseAssignment, CancelWrite, rowVars
  <1>4. ASSUME NEW d \in Watchdogs, WatchdogStep(d)
        PROVE  UNCHANGED outbox
    BY <1>4 DEF WatchdogStep, ReapOverdue, ReapQueued, rowVars
  <1>5. CASE \E e \in Executions : LeaseExpires(e) \/ HardDeadlinePasses(e)
    BY <1>5 DEF LeaseExpires, HardDeadlinePasses, OutboxMove
  <1>6. CASE RecoverStaleRunning \/ UNCHANGED vars \/ \E t \in Threads : SpawnAssignment(t)
    BY <1>6 DEF RecoverStaleRunning, SpawnAssignment, vars, rowVars, OutboxMove
  <1>7. CASE \E a \in Actors : Crash(a)
    BY <1>7 DEF Crash, rowVars, OutboxMove
  <1>. QED  BY <1>1, <1>2, <1>3, <1>4, <1>5, <1>6, <1>7 DEF Next, OutboxMove

\* Only the UPDATE that ends the row leads to its publication.
LEMMA PublisherEnds ==
  ASSUME TypeOK, Uncancelled, Quiet, [Next]_vars,
         NEW a \in Actors, pc'[a] = "publish", pc[a] # "publish"
  PROVE  MarkTerminal(a)
  <1>. USE ConstantsAssumption DEF TypeOK
  <1>1. ASSUME NEW w \in Workers, WorkerStep(w) \/ ReplayTurn(w)
        PROVE  pc'[a] # "publish"
    <2>. w \in Actors  BY DEF Actors
    <2>1. CASE \/ ProcessCancelled(w) \/ ProcessTooLate(w) \/ NothingToInject(w)
               \/ SeeCancel(w) \/ GiveUp(w) \/ TurnDone(w) \/ TurnAuthFailed(w)
      <3>1. PICK p \in {"finalize", "stopFirst"} : pc' = [pc EXCEPT ![w] = p]
        BY <2>1 DEF ProcessCancelled, ProcessTooLate, NothingToInject, SeeCancel, GiveUp,
                    TurnDone, TurnAuthFailed, Decide
      <3>. QED  BY <3>1
    <2>2. CASE \/ \E e \in Executions : ClaimNextExecution(w, e)
               \/ AcquireRuntime(w) \/ ResumeTurn(w) \/ InjectTurn(w)
      <3>1. PICK p \in {"claimed", "ready", "finalize", "streaming"} : pc' = [pc EXCEPT ![w] = p]
        BY <2>2 DEF ClaimNextExecution, AcquireRuntime, ResumeTurn, InjectTurn, Decide
      <3>. QED  BY <3>1
    <2>3. CASE \/ AbandonExecution(w) \/ StreamInterrupted(w) \/ ReplayTurn(w)
               \/ StreamEnded(w) \/ RewindSession(w)
      BY <2>3 DEF AbandonExecution, StreamInterrupted, ReplayTurn, StreamEnded, RewindSession,
                  Finish
    <2>4. CASE KeepLease(w)
      BY <2>4 DEF KeepLease, actorVars
    <2>. QED  BY <1>1, <2>1, <2>2, <2>3, <2>4 DEF WorkerStep
  <1>2. ASSUME NEW b \in Actors, FinalizeStep(b), ~(b = a /\ MarkTerminal(a))
        PROVE  pc'[a] # "publish"
    <2>1. CASE StopSessionFirst(b) \/ StopSessionLast(b) \/ (b # a /\ MarkTerminal(b))
      BY <2>1 DEF StopSessionFirst, StopSessionLast, MarkTerminal
    <2>2. CASE SkipTerminal(b) \/ PublishOutcome(b)
      BY <2>2 DEF SkipTerminal, PublishOutcome, Return, Finish
    <2>. QED  BY <1>2, <2>1, <2>2 DEF FinalizeStep
  <1>3. ASSUME NEW r \in Requests, RequestStep(r)
        PROVE  FALSE
    BY <1>3 DEF RequestStep, CancelRead, ReleaseAssignment, CancelWrite, Uncancelled, Quiet
  <1>4. ASSUME NEW d \in Watchdogs, WatchdogStep(d)
        PROVE  pc'[a] # "publish"
    <2>. pc' = [pc EXCEPT ![d] = "finalize"]
      BY <1>4 DEF WatchdogStep, ReapOverdue, ReapQueued, Decide
    <2>. QED  OBVIOUS
  <1>5. CASE RecoverStaleRunning \/ UNCHANGED vars \/ \E t \in Threads : SpawnAssignment(t)
    BY <1>5 DEF RecoverStaleRunning, SpawnAssignment, vars, actorVars
  <1>6. CASE \E e \in Executions : \/ EnqueueExecution(e) \/ LeaseExpires(e)
                                   \/ HardDeadlinePasses(e) \/ Deliver(e)
    BY <1>6 DEF EnqueueExecution, LeaseExpires, HardDeadlinePasses, Deliver, actorVars
  <1>7. CASE \E b \in Actors : Crash(b)
    BY <1>7 DEF Crash, Finish
  <1>. QED  BY <1>1, <1>2, <1>3, <1>4, <1>5, <1>6, <1>7 DEF Next

LEMMA AnswerInvStep ==
  ASSUME TypeOK, Uncancelled, AnswerInv, [Next]_vars
  PROVE  AnswerInv'
  <1>. USE DEF TypeOK
  <1>1. Quiet
    BY DEF AnswerInv
  <1>2. Quiet'
    BY <1>1, QuietStep
  <1>3. ASSUME NEW e \in Executions, status[e] \in Terminal
        PROVE  status'[e] \in Terminal
    BY <1>1, <1>3, StatusMoves DEF StatusMove, Claimed, CancelledBlindly, Quiet
  <1>4. ASSUME NEW a \in Actors, pc[a] = "publish"
        PROVE  subject[a] \in Executions
    BY <1>1, <1>4 DEF Quiet
  <1>5. ASSUME NEW a \in Actors, pc[a] = "publish", pc'[a] = "publish"
        PROVE  subject'[a] = subject[a]
    BY <1>1, <1>5, ActorMoves DEF ActorMove, GoesOn, TakesUp, IsDone
  <1>6. ASSUME NEW e \in Executions, status'[e] \notin Terminal
        PROVE  outbox'[e] \in {"none", "awaiting"}
    <2>1. outbox[e] \in {"none", "awaiting"}
      BY <1>3, <1>6 DEF AnswerInv
    <2>2. CASE \E f \in Executions : EnqueueExecution(f)
      BY <2>1, <2>2 DEF EnqueueExecution
    <2>3. CASE \E f \in Executions : Deliver(f)
      BY <2>1, <2>3 DEF Deliver
    <2>4. CASE \E a \in Actors : Publishes(a)
      BY <1>3, <1>6, <2>1, <2>4 DEF Publishes, AnswerInv
    <2>. QED  BY <2>1, <2>2, <2>3, <2>4, OutboxMoves DEF OutboxMove
  <1>7. ASSUME NEW a \in Actors, MarkTerminal(a)
        PROVE  /\ subject[a] \in Executions
               /\ UNCHANGED <<subject, outbox>>
               /\ pc' = [pc EXCEPT ![a] = "publish"]
               /\ status[subject[a]] \notin Terminal /\ status'[subject[a]] \in Terminal
    BY <1>1, <1>7 DEF MarkTerminal, Quiet
  <1>8. ASSUME NEW a \in Actors, pc'[a] = "publish"
        PROVE  /\ status'[subject'[a]] \in Terminal
               /\ outbox'[subject'[a]] \in {"none", "awaiting"}
    <2>1. CASE pc[a] # "publish"
      BY <1>1, <1>7, <1>8, <2>1, PublisherEnds DEF AnswerInv
    <2>2. CASE pc[a] = "publish"
      <3>. DEFINE e == subject[a]
      <3>1. e \in Executions /\ subject'[a] = e
        BY <1>4, <1>5, <1>8, <2>2
      <3>2. status[e] \in Terminal /\ outbox[e] \in {"none", "awaiting"}
        BY <2>2 DEF AnswerInv
      <3>3. \A b \in Actors : pc[b] = "publish" /\ subject[b] = e => b = a
        BY <2>2 DEF AnswerInv
      <3>. HIDE DEF e
      <3>4. outbox'[e] \in {"none", "awaiting"}
        <4>1. CASE \E f \in Executions : EnqueueExecution(f)
          BY <3>2, <4>1 DEF EnqueueExecution
        <4>2. CASE \E f \in Executions : Deliver(f)
          BY <3>2, <4>2 DEF Deliver
        <4>3. CASE \E b \in Actors : Publishes(b)
          BY <1>8, <3>1, <3>2, <3>3, <4>3 DEF Publishes
        <4>. QED  BY <3>2, <4>1, <4>2, <4>3, OutboxMoves DEF OutboxMove
      <3>. QED  BY <1>3, <3>1, <3>2, <3>4
    <2>. QED  BY <2>1, <2>2
  <1>9. ASSUME NEW a \in Actors, NEW b \in Actors,
               pc'[a] = "publish", pc'[b] = "publish", subject'[a] = subject'[b]
        PROVE  a = b
    <2>1. CASE pc[a] = "publish" /\ pc[b] = "publish"
      BY <1>5, <1>9, <2>1 DEF AnswerInv
    <2>2. ASSUME NEW x \in Actors, NEW y \in Actors, pc'[x] = "publish", pc'[y] = "publish",
                 subject'[x] = subject'[y], pc[x] # "publish"
          PROVE  x = y
      <3>1. MarkTerminal(x)
        BY <1>1, <2>2, PublisherEnds
      <3>2. y # x => pc[y] = "publish" /\ subject[y] = subject[x]
        BY <1>7, <2>2, <3>1
      <3>. QED  BY <1>7, <3>1, <3>2 DEF AnswerInv
    <2>. QED  BY <1>9, <2>1, <2>2
  <1>. QED  BY <1>2, <1>6, <1>8, <1>9 DEF AnswerInv

\* Where nobody cancels, an answer that was delivered is never put up again:
\* a row ends once, and so is published once (_mark_execution_terminal).
THEOREM DeliveredOnce == Spec => DeliveredStaysDelivered
  <1>1. Init => (Uncancelled => AnswerInv)
    <2>. SUFFICES ASSUME Init PROVE AnswerInv
      OBVIOUS
    <2>1. \A a \in Actors : pc[a] = "idle" /\ subject[a] = None
      BY DEF Init
    <2>2. Quiet
      BY <2>1 DEF Quiet, Actors
    <2>3. \A e \in Executions : outbox[e] = "none"
      BY DEF Init
    <2>. QED  BY <2>1, <2>2, <2>3 DEF AnswerInv
  <1>2. TypeOK /\ (Uncancelled => AnswerInv) /\ [Next]_vars => (Uncancelled => AnswerInv)'
    <2>. SUFFICES ASSUME TypeOK, [Next]_vars, Uncancelled => AnswerInv, Uncancelled'
                  PROVE  AnswerInv'
      OBVIOUS
    <2>1. Uncancelled  BY WorldKept DEF Uncancelled
    <2>. QED  BY <2>1, AnswerInvStep
  <1>3. TypeOK /\ (Uncancelled => AnswerInv) /\ [Next]_vars =>
          [\A e \in Executions :
             Uncancelled /\ outbox[e] = "delivered" => outbox'[e] = "delivered"]_vars
    <2>. SUFFICES ASSUME TypeOK, AnswerInv, [Next]_vars,
                         NEW e \in Executions, outbox[e] = "delivered"
                  PROVE  outbox'[e] = "delivered"
      OBVIOUS
    <2>. USE DEF TypeOK
    <2>1. CASE \E f \in Executions : EnqueueExecution(f)
      BY <2>1 DEF EnqueueExecution, AnswerInv
    <2>2. CASE \E f \in Executions : Deliver(f)
      BY <2>2 DEF Deliver
    <2>3. CASE \E a \in Actors : Publishes(a)
      BY <2>3 DEF Publishes, AnswerInv
    <2>. QED  BY <2>1, <2>2, <2>3, OutboxMoves DEF OutboxMove
  <1>. QED  BY <1>1, <1>2, <1>3, TypeOKHolds, PTL DEF Spec, DeliveredStaysDelivered
=============================================================================
