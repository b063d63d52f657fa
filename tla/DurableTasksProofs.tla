------------------------- MODULE DurableTasksProofs -------------------------
(***************************************************************************)
(* Proofs about DurableTasks, for all tasks, handlers, workers, events,    *)
(* numbers of attempts and worlds: the types, that a task has one live run *)
(* (OneLiveRun), that waits are woken (NoLostWakeup), that a worker whose  *)
(* run is gone is fenced (FencedSoon), and that replays agree with what    *)
(* handlers went on with (ReplayAgrees).                                   *)
(*                                                                         *)
(* The functions of the queue take the rows of tasks and runs and return   *)
(* what they leave, so there is a lemma about each of them; what remains   *)
(* is what the steps of one worker mean for the others: a run that has a   *)
(* worker is running until it is failed or cancelled under that worker,    *)
(* and no other worker has it.                                             *)
(***************************************************************************)
EXTENDS DurableTasks, TLAPS

TaskRows == [state : Live \cup Terminal \cup {"none"}, attempts : 0 .. MaxRuns,
             max : 0 .. MaxRuns, last : 0 .. MaxRuns, started : BOOLEAN, life : 0 .. Never]
RunRows  == [state : Live \cup Terminal \cup {"none"}, lease : 0 .. Never, avail : 0 .. Never,
             wake : Events \cup {None}, wait : Waits \cup {None}]

\* A run waits for an event in its sleep only, at the event's operation; a
\* wait without a timeout is not due by itself; and while it is not due, what
\* wakes it is what it waits for, which has not been emitted.
RunOK(t, r) ==
    /\ r.wait # None =>
         /\ r.state = "sleeping"
         /\ r.wait.step \in Positions(t) /\ Op(t, r.wait.step).kind = "event"
         /\ ~r.wait.timed => r.avail = Never
    /\ r.state = "sleeping" /\ r.avail > 0 =>
         /\ r.wake # None => r.wait # None /\ r.wait.event = r.wake
         /\ r.wait # None => event[r.wait.event] = None

\* The rows of a task: k of t_<queue>, rs of r_<queue>.
RowsOK(t, k, rs) ==
    /\ k \in TaskRows /\ rs \in [Runs -> RunRows]
    /\ k.attempts <= k.max
    /\ k.state = "none" => k.attempts = 0
    /\ k.state = "failed" => k.attempts = k.max
    /\ k.state \in Live => k.attempts \in Runs /\ rs[k.attempts].state = k.state
    /\ \A n \in Runs :
         /\ rs[n].state \in Live => k.state \in Live /\ n = k.attempts
         /\ rs[n].state # "none" => n <= k.attempts
         /\ rs[n].state = "cancelled" => k.state = "cancelled"
         /\ RunOK(t, rs[n])

TablesOK(db) ==
    /\ db.task \in [Tasks -> TaskRows]
    /\ db.run \in [Tasks -> [Runs -> RunRows]]
    /\ \A t \in Tasks : RowsOK(t, db.task[t], db.run[t])

\* The answer to the one turn of the built-in workflow.
TurnAnswer(t, v) == \E a \in agent[t] : a.key = 0 /\ a.call = v

AgentsOK ==
    /\ agent \in [Tasks -> SUBSET [key : Nat, call : Nat \ {0},
                                   status : {"running", "completed", "failed"}]]
    /\ \A t \in Tasks : \A a, b \in agent[t] : a.key = b.key => a = b

\* What a run's attempt n makes of the operation at i.
Made(t, i, n, v) ==
    /\ Op(t, i).kind = "sleep" => v \in {0, 1}
    /\ Op(t, i).kind = "step"  => v = n
    /\ Op(t, i).kind = "turn"  => TurnAnswer(t, v)

CheckpointsOK ==
    /\ DOMAIN checkpoint = Tasks
    /\ \A t \in Tasks :
         /\ checkpoint[t] \in [Positions(t) -> Checkpoints \cup {None}]
         /\ \A i \in Positions(t) : checkpoint[t][i] # None =>
              /\ checkpoint[t][i].owner <= task[t].attempts
              /\ Made(t, i, checkpoint[t][i].owner, checkpoint[t][i].val)

Pcs == {"load", "start", "next", "effect", "put", "write", "overwrite", "wait", "fail"}

Executing(seen) ==
    [pc : Pcs, task : Tasks, run : Runs, step : Nat \ {0}, requests : Nat, key : Nat,
     value : Values \cup {None}, seen : {seen}, fenced : Nat]

StateOf(x) == run[x.task][x.run].state

\* An operation that is under way.  A run whose writer is in its call is swept
\* at the price of a mark on the task, and locked while it is not.
UnderWay(x) ==
    /\ x.pc = "load" => x.step = 1
    /\ x.pc \in {"effect", "put", "write", "overwrite", "wait"} => x.step \in Positions(x.task)
    /\ x.pc = "effect" => Op(x.task, x.step).kind \in {"step", "turn"}
    /\ x.pc = "wait"   => /\ Op(x.task, x.step).kind \in {"agent", "turn"}
                          /\ Op(x.task, x.step).kind = "turn" => x.key = 0
    /\ x.pc \in {"put", "write", "overwrite"} =>
         /\ Op(x.task, x.step).kind \in {"step", "turn", "sleep"}
         /\ x.value # None /\ Made(x.task, x.step, x.run, x.value)
         /\ Op(x.task, x.step).kind = "sleep" => x.value = 1
    /\ x.pc \in {"write", "overwrite"} => StateOf(x) # "failed" \/ x.task \in torn
    /\ x.pc = "overwrite" => StateOf(x) # "running"

\* What a handler has gone on with, or remembers, is what the table says.  (A
\* worker that lost its run within its call may write over that: see torn.)
Remembers(x) ==
    \A i \in Positions(x.task) : Replayed(x.task, i) =>
        /\ i < x.step => x.seen[i] # None
        /\ x.seen[i] \notin {None, TimedOut} =>
             checkpoint[x.task][i] # None /\ checkpoint[x.task][i].val = x.seen[i]

WorkerOK(x) ==
    /\ x \in Executing(x.seen)
    /\ x.seen \in [Positions(x.task) -> Values \cup {None}]
    /\ x.step <= Len(world.program[x.task]) + 1
    /\ StateOf(x) \in {"running", "failed", "cancelled"}
    /\ UnderWay(x)
    /\ Unfenced(x.task) \/ x.fenced = 0
         \/ (x.fenced = 1 /\ StateOf(x) # "running" /\ x.pc \in {"put", "wait", "fail"})
    /\ StateOf(x) = "running" /\ x.task \notin torn => Remembers(x)

WorkersOK ==
    /\ DOMAIN exec = Workers
    /\ \A w \in Workers : exec[w] # Idle => WorkerOK(exec[w])
    /\ \A w, v \in Workers :
         /\ exec[w] # Idle /\ exec[v] # Idle
         /\ exec[w].task = exec[v].task /\ exec[w].run = exec[v].run
         => w = v

EventsOK == event \in [Events -> Payloads \cup {None}] /\ torn \subseteq Tasks

IInv == /\ world \in Worlds
        /\ EventsOK /\ TablesOK(Tables) /\ AgentsOK /\ CheckpointsOK /\ WorkersOK

-----------------------------------------------------------------------------
(* Rows. *)

\* The numbers of a world, and its programs.
LEMMA WorldTypes ==
    ASSUME world \in Worlds
    PROVE  /\ world.backoff \in 0 .. Never /\ world.delay \in 0 .. Never
           /\ world.duration \in 0 .. Never /\ world.attempts \in Runs
           /\ world.hazards \subseteq HazardNames /\ world.workers \subseteq Workers
           /\ world.tasks \subseteq Tasks /\ world.program \in [Tasks -> Seq(Ops)]
  BY DurableAssumption DEF WorldRecords

\* Positions are numbers from one, and operations are operations.
LEMMA PositionTypes ==
    ASSUME world \in Worlds, NEW t \in Tasks
    PROVE  /\ Len(world.program[t]) \in Nat
           /\ Positions(t) \subseteq Nat \ {0}
           /\ \A i \in Positions(t) : Op(t, i) \in Ops
<1>1. world.program[t] \in Seq(Ops)
  BY WorldTypes
<1>2. Len(world.program[t]) \in Nat /\ \A i \in 1 .. Len(world.program[t]) : world.program[t][i] \in Ops
  BY <1>1
<1> QED BY <1>2 DEF Positions, Op

LEMMA NeverIs == Never \in Nat /\ Never > 2 /\ Lease \in 0 .. Never /\ 0 \in 0 .. Never /\ 1 \in 0 .. Never
  BY DurableAssumption DEF Never

LEMMA RunsAre == Runs \subseteq Nat \ {0} /\ 1 \in Runs /\ MaxRuns \in Nat /\ \A n \in Nat \ {0} : n <= MaxRuns <=> n \in Runs
  BY DurableAssumption DEF Runs

\* Rows without a wait.
LEMMA BareRow ==
    ASSUME NEW t, NEW r, r.wait = None, r.wake = None
    PROVE  RunOK(t, r)
  BY DEF RunOK

LEMMA NewRows ==
    /\ NoRun \in RunRows /\ NoRun.state = "none" /\ NoRun.wait = None /\ NoRun.wake = None
    /\ \A st \in Live \cup Terminal :
         /\ [NoRun EXCEPT !.state = st] \in RunRows
         /\ [NoRun EXCEPT !.state = st].state = st
         /\ [NoRun EXCEPT !.state = st].wait = None
         /\ [NoRun EXCEPT !.state = st].wake = None
    /\ \A d \in 0 .. Never :
         /\ NewRun(d) \in RunRows /\ NewRun(d).state \in {"pending", "sleeping"}
         /\ NewRun(d).wait = None /\ NewRun(d).wake = None
         /\ NewRun(d).state = IF d = 0 THEN "pending" ELSE "sleeping"
<1>1. NoRun \in RunRows /\ NoRun.state = "none" /\ NoRun.wait = None /\ NoRun.wake = None
  BY NeverIs DEF NoRun, RunRows
<1>2. ASSUME NEW st \in Live \cup Terminal
      PROVE  /\ [NoRun EXCEPT !.state = st] \in RunRows
             /\ [NoRun EXCEPT !.state = st].state = st
             /\ [NoRun EXCEPT !.state = st].wait = None
             /\ [NoRun EXCEPT !.state = st].wake = None
  BY NeverIs DEF NoRun, RunRows
<1>3. ASSUME NEW d \in 0 .. Never
      PROVE  /\ NewRun(d) \in RunRows /\ NewRun(d).state \in {"pending", "sleeping"}
             /\ NewRun(d).wait = None /\ NewRun(d).wake = None
             /\ NewRun(d).state = IF d = 0 THEN "pending" ELSE "sleeping"
  <2> DEFINE st == IF d = 0 THEN "pending" ELSE "sleeping"
  <2>1. NewRun(d) = [NoRun EXCEPT !.state = st, !.avail = d]
    BY DEF NewRun
  <2>2. st \in Live /\ st \in {"pending", "sleeping"}
    BY DEF Live
  <2> HIDE DEF st
  <2>3. /\ [NoRun EXCEPT !.state = st, !.avail = d] \in RunRows
        /\ [NoRun EXCEPT !.state = st, !.avail = d].state = st
        /\ [NoRun EXCEPT !.state = st, !.avail = d].wait = None
        /\ [NoRun EXCEPT !.state = st, !.avail = d].wake = None
    BY <1>1, <2>2 DEF RunRows, NoRun
  <2> QED BY <2>1, <2>2, <2>3 DEF st
<1> QED BY <1>1, <1>2, <1>3

\* cancel_task, on the rows of one task.
LEMMA CancelRows ==
    ASSUME NEW t \in Tasks, NEW k, NEW rs, RowsOK(t, k, rs), k.state \in Live
    PROVE  RowsOK(t, [k EXCEPT !.state = "cancelled"],
                  [n \in Runs |-> IF Cancels(rs[n]) THEN [NoRun EXCEPT !.state = "cancelled"] ELSE rs[n]])
<1> DEFINE gone == [NoRun EXCEPT !.state = "cancelled"]
           k2 == [k EXCEPT !.state = "cancelled"]
           rs2 == [n \in Runs |-> IF Cancels(rs[n]) THEN gone ELSE rs[n]]
<1>1. gone \in RunRows /\ gone.state = "cancelled" /\ gone.wait = None /\ gone.wake = None
  BY NewRows DEF Terminal
<1>2. k2 \in TaskRows /\ k2.state = "cancelled" /\ k2.attempts = k.attempts /\ k2.max = k.max
  BY DEF RowsOK, TaskRows, Terminal
<1>3. RunOK(t, gone)
  BY <1>1, BareRow
<1> HIDE DEF gone
<1>4. rs2 \in [Runs -> RunRows]
  BY <1>1 DEF RowsOK
<1>5. \A n \in Runs : rs2[n] = IF rs[n].state \in Live THEN gone ELSE rs[n]
  BY DEF Cancels
<1> HIDE DEF k2, rs2
<1>6. \A n \in Runs :
         /\ rs2[n].state \notin Live
         /\ rs2[n].state # "none" => n <= k2.attempts
         /\ RunOK(t, rs2[n])
  BY <1>1, <1>2, <1>3, <1>5 DEF RowsOK, Live
<1>7. "cancelled" \notin Live
  BY DEF Live
<1> QED BY <1>2, <1>4, <1>6, <1>7 DEF RowsOK, k2, rs2, gone

\* fail_run, on the rows of one task.
LEMMA FailRows ==
    ASSUME world \in Worlds, NEW t \in Tasks, NEW db, TablesOK(db),
           NEW n \in Runs, db.run[t][n].state \in {"running", "sleeping"}
    PROVE  /\ RowsOK(t, FailRun(db, t, n).task[t], FailRun(db, t, n).run[t])
           /\ FailRun(db, t, n).task = [db.task EXCEPT ![t] = FailRun(db, t, n).task[t]]
           /\ FailRun(db, t, n).run = [db.run EXCEPT ![t] = FailRun(db, t, n).run[t]]
           /\ db.task[t].attempts <= FailRun(db, t, n).task[t].attempts
           /\ \A m \in Runs : \/ FailRun(db, t, n).run[t][m] = db.run[t][m]
                              \/ m = n /\ FailRun(db, t, n).run[t][m].state = "failed"
                              \/ db.run[t][m].state = "none"
<1> DEFINE k == db.task[t]  rs == db.run[t]
           failed == [NoRun EXCEPT !.state = "failed"]
           next == NewRun(world.backoff)
           more == MoreAttempts(k, n)
           late == k.started /\ k.life <= world.backoff
           rsF == [rs EXCEPT ![n] = failed]
           kN == [k EXCEPT !.state = next.state, !.last = n + 1, !.attempts = Larger(@, n + 1)]
           rsN == [rsF EXCEPT ![n + 1] = next]
           kF == [k EXCEPT !.state = IF more THEN "cancelled" ELSE "failed", !.last = n]
           new == FailRun(db, t, n)
<1>1. RowsOK(t, k, rs)
  BY DEF TablesOK
<1>2. n = k.attempts /\ k.state \in Live /\ n <= k.max /\ k.max <= MaxRuns /\ n \in Nat \ {0}
      /\ k.attempts \in Nat /\ k.max \in Nat
  BY <1>1, RunsAre DEF RowsOK, Live, TaskRows
<1>3. failed \in RunRows /\ failed.state = "failed" /\ RunOK(t, failed)
  BY NewRows, BareRow, ZenonT(40) DEF Terminal
<1>4. next \in RunRows /\ next.state \in {"pending", "sleeping"} /\ RunOK(t, next)
  BY NewRows, BareRow, WorldTypes
<1>5. CASE more /\ ~late
  <2>1. n + 1 \in Runs /\ n + 1 <= k.max /\ Larger(k.attempts, n + 1) = n + 1
    BY <1>2, <1>5, RunsAre DEF MoreAttempts, Larger
  <2>2. new.task = [db.task EXCEPT ![t] = kN] /\ new.run = [db.run EXCEPT ![t] = rsN]
    BY <1>5 DEF FailRun
  <2>3. kN \in TaskRows /\ kN.state = next.state /\ kN.attempts = n + 1 /\ kN.max = k.max
    <3>1. kN = [k EXCEPT !.state = next.state, !.last = n + 1, !.attempts = n + 1]
      BY <2>1
    <3>2. next.state \in Live /\ n + 1 \in 0 .. MaxRuns /\ k \in TaskRows
      BY <1>1, <1>4, <2>1 DEF Live, RowsOK, Runs
    <3> HIDE DEF next, k
    <3> QED BY <3>1, <3>2 DEF TaskRows
  <2> HIDE DEF kN, next, failed, new
  <2>4. rsN \in [Runs -> RunRows]
    BY <1>1, <1>3, <1>4, <2>1 DEF RowsOK
  <2>5. \A m \in Runs : rsN[m] = IF m = n + 1 THEN next ELSE IF m = n THEN failed ELSE rs[m]
    BY <1>1, <1>2, <2>1 DEF RowsOK
  <2>6. \A m \in Runs : m > n => rs[m].state = "none"
    BY <1>1, <1>2, RunsAre DEF RowsOK
  <2> HIDE DEF rsN, rsF
  <2>7. \A m \in Runs : m \notin {n, n + 1} => rs[m].state \notin Live /\ rs[m].state # "cancelled"
    BY <1>1, <1>2 DEF RowsOK, Live
  <2>8. \A m \in Runs :
           /\ rsN[m].state \in Live => m = n + 1
           /\ rsN[m].state # "none" => m <= n + 1
           /\ rsN[m].state # "cancelled"
           /\ RunOK(t, rsN[m])
    BY <1>1, <1>2, <1>3, <1>4, <2>1, <2>5, <2>6, <2>7, RunsAre DEF RowsOK, Live
  <2>9. RowsOK(t, kN, rsN)
    BY <1>2, <1>4, <2>1, <2>3, <2>4, <2>5, <2>8 DEF RowsOK, Live
  <2>10. /\ new.task[t] = kN /\ new.run[t] = rsN
         /\ new.task = [db.task EXCEPT ![t] = new.task[t]] /\ new.run = [db.run EXCEPT ![t] = new.run[t]]
    BY <2>2 DEF TablesOK
  <2>11. k.attempts <= kN.attempts
    BY <1>2, <2>3
  <2>12. ASSUME NEW m \in Runs
         PROVE  \/ rsN[m] = rs[m]
                \/ m = n /\ rsN[m].state = "failed"
                \/ rs[m].state = "none"
    <3>1. rsN[m] = IF m = n + 1 THEN next ELSE IF m = n THEN failed ELSE rs[m]
      BY <2>5
    <3>2. m = n + 1 => rs[m].state = "none"
      BY <1>2, <2>6
    <3>3. failed.state = "failed"
      BY <1>3
    <3> HIDE DEF rs
    <3> QED BY <3>1, <3>2, <3>3
  <2> HIDE DEF k, rs
  <2>13. RowsOK(t, new.task[t], new.run[t]) /\ k.attempts <= new.task[t].attempts
    BY <2>9, <2>10, <2>11
  <2>14. \A m \in Runs : \/ new.run[t][m] = rs[m]
                         \/ m = n /\ new.run[t][m].state = "failed"
                         \/ rs[m].state = "none"
    BY <2>10, <2>12
  <2> QED BY <2>10, <2>13, <2>14 DEF new, k, rs
<1>6. CASE ~(more /\ ~late)
  <2>2. new.task = [db.task EXCEPT ![t] = kF] /\ new.run = [db.run EXCEPT ![t] = rsF]
    BY <1>6 DEF FailRun
  <2>3. /\ kF \in TaskRows /\ kF.attempts = k.attempts /\ kF.max = k.max
        /\ kF.state \in {"cancelled", "failed"}
        /\ kF.state = "failed" => ~more
    BY <1>1, <1>2 DEF RowsOK, TaskRows, Terminal, Runs
  <2>4. kF.state = "failed" => kF.attempts = kF.max
    BY <1>2, <2>3 DEF MoreAttempts
  <2> HIDE DEF kF, failed, new
  <2>5. rsF \in [Runs -> RunRows] /\ \A m \in Runs : rsF[m] = IF m = n THEN failed ELSE rs[m]
    BY <1>1, <1>3 DEF RowsOK
  <2> HIDE DEF rsF
  <2>6. \A m \in Runs :
           /\ rsF[m].state \notin Live
           /\ rsF[m].state # "none" => m <= n
           /\ rsF[m].state # "cancelled"
           /\ RunOK(t, rsF[m])
    BY <1>1, <1>2, <1>3, <2>5 DEF RowsOK, Live
  <2>7. RowsOK(t, kF, rsF)
    BY <1>2, <2>3, <2>4, <2>5, <2>6 DEF RowsOK, Live
  <2>8. /\ new.task[t] = kF /\ new.run[t] = rsF
        /\ new.task = [db.task EXCEPT ![t] = new.task[t]] /\ new.run = [db.run EXCEPT ![t] = new.run[t]]
    BY <2>2 DEF TablesOK
  <2>9. k.attempts <= kF.attempts
    BY <1>2, <2>3
  <2>10. ASSUME NEW m \in Runs
         PROVE  rsF[m] = rs[m] \/ (m = n /\ rsF[m].state = "failed")
    <3>1. rsF[m] = IF m = n THEN failed ELSE rs[m]
      BY <2>5
    <3>2. failed.state = "failed"
      BY <1>3
    <3> HIDE DEF rs
    <3> QED BY <3>1, <3>2
  <2> HIDE DEF k, rs
  <2>11. RowsOK(t, new.task[t], new.run[t]) /\ k.attempts <= new.task[t].attempts
    BY <2>7, <2>8, <2>9
  <2>12. \A m \in Runs : new.run[t][m] = rs[m] \/ (m = n /\ new.run[t][m].state = "failed")
    BY <2>8, <2>10
  <2> QED BY <2>8, <2>11, <2>12 DEF new, k, rs
<1> QED BY <1>5, <1>6

\* A row that is changed without a change of its state.
LEMMA TouchRows ==
    ASSUME NEW t \in Tasks, NEW k, NEW rs, RowsOK(t, k, rs), NEW n \in Runs,
           NEW row \in RunRows, row.state = rs[n].state, RunOK(t, row)
    PROVE  RowsOK(t, k, [rs EXCEPT ![n] = row])
<1> DEFINE rs2 == [rs EXCEPT ![n] = row]
<1>1. rs2 \in [Runs -> RunRows] /\ \A m \in Runs : rs2[m] = IF m = n THEN row ELSE rs[m]
  BY DEF RowsOK
<1> HIDE DEF rs2
<1>2. \A m \in Runs : rs2[m].state = rs[m].state /\ RunOK(t, rs2[m])
  BY <1>1 DEF RowsOK
<1>3. RowsOK(t, k, rs2)
  BY <1>1, <1>2, RunsAre DEF RowsOK
<1> QED BY <1>3 DEF rs2

\* The live run of a task, and the task with it, get another state.
LEMMA MoveRows ==
    ASSUME NEW t \in Tasks, NEW k, NEW rs, RowsOK(t, k, rs), NEW n \in Runs, rs[n].state \in Live,
           NEW row \in RunRows, RunOK(t, row), row.state \notin {"none", "cancelled"},
           NEW k2 \in TaskRows, k2.state = row.state, k2.attempts = k.attempts, k2.max = k.max,
           k2.state # "failed"
    PROVE  RowsOK(t, k2, [rs EXCEPT ![n] = row])
<1> DEFINE rs2 == [rs EXCEPT ![n] = row]
<1>1. rs2 \in [Runs -> RunRows] /\ \A m \in Runs : rs2[m] = IF m = n THEN row ELSE rs[m]
  BY DEF RowsOK
<1>2. n = k.attempts /\ k.state \in Live
  BY DEF RowsOK
<1> HIDE DEF rs2
<1>3. \A m \in Runs : /\ m # n => rs2[m].state \notin Live
                      /\ rs2[m].state # "none" => m <= k.attempts
                      /\ rs2[m].state # "cancelled"
                      /\ RunOK(t, rs2[m])
  BY <1>1, <1>2, RunsAre DEF RowsOK, Live
<1>4. RowsOK(t, k2, rs2)
  BY <1>1, <1>2, <1>3 DEF RowsOK
<1> QED BY <1>4 DEF rs2

\* A task that has no live run gets its next one.
LEMMA StartRows ==
    ASSUME NEW t \in Tasks, NEW k, NEW rs, RowsOK(t, k, rs), k.state \notin Live \cup {"cancelled"},
           NEW k2 \in TaskRows, k2.attempts = k.attempts + 1, k2.attempts \in Runs,
           k2.attempts <= k2.max, k2.state = "pending"
    PROVE  RowsOK(t, k2, [rs EXCEPT ![k2.attempts] = NewRun(0)])
<1> DEFINE n == k2.attempts
           row == NewRun(0)
           rs2 == [rs EXCEPT ![n] = row]
<1>1. row \in RunRows /\ row.state = "pending" /\ RunOK(t, row)
  BY NewRows, NeverIs, BareRow
<1>2. k.attempts \in Nat /\ n \in Runs
  BY DEF RowsOK, TaskRows
<1> HIDE DEF row
<1>3. rs2 \in [Runs -> RunRows] /\ \A m \in Runs : rs2[m] = IF m = n THEN row ELSE rs[m]
  BY <1>1, <1>2 DEF RowsOK
<1> HIDE DEF rs2
<1>4. \A m \in Runs : /\ m # n => rs2[m].state \notin Live
                      /\ rs2[m].state # "none" => m <= n
                      /\ rs2[m].state # "cancelled"
                      /\ RunOK(t, rs2[m])
  BY <1>1, <1>2, <1>3, RunsAre DEF RowsOK
<1>5. RowsOK(t, k2, rs2)
  BY <1>1, <1>2, <1>3, <1>4 DEF RowsOK, Live
<1> QED BY <1>5 DEF rs2, row

\* claim_task's UPDATEs, on a run that is due.
LEMMA ClaimRows ==
    ASSUME world \in Worlds, NEW db, TablesOK(db), NEW t \in Tasks, NEW n \in Runs,
           <<t, n>> \in Due(db)
    PROVE  LET new == ClaimRun(db, t, n)
           IN  /\ RowsOK(t, new.task[t], new.run[t])
               /\ new.task = [db.task EXCEPT ![t] = new.task[t]]
               /\ new.run = [db.run EXCEPT ![t] = new.run[t]]
               /\ db.task[t].attempts <= new.task[t].attempts
               /\ \A m \in Runs : m # n => new.run[t][m] = db.run[t][m]
               /\ new.run[t][n].state = "running"
               /\ db.run[t][n].state \in {"pending", "sleeping"}
<1> DEFINE new == ClaimRun(db, t, n)
           k == db.task[t]  rs == db.run[t]  r == rs[n]
           k2 == [k EXCEPT !.state = "running", !.last = n, !.attempts = Larger(@, n),
                           !.started = TRUE, !.life = IF k.started THEN @ ELSE world.duration]
           row == [r EXCEPT !.state = "running", !.lease = Lease,
                            !.wait = Unless(r.wait # None /\ r.wait.timed, @)]
<1>1. RowsOK(t, k, rs) /\ r \in RunRows /\ k \in TaskRows
  BY DEF TablesOK, RowsOK
<1>2. r.state \in {"pending", "sleeping"} /\ r.avail = 0
  BY DEF Due
<1>3. k.attempts = n /\ k.state \in Live
  BY <1>1, <1>2 DEF RowsOK, Live
<1>4. r.wait # None => r.wait.timed
  BY <1>1, <1>2, NeverIs DEF RowsOK, RunOK
<1>5. row = [r EXCEPT !.state = "running", !.lease = Lease, !.wait = None]
  BY <1>4 DEF Unless
<1>6. row \in RunRows /\ row.state = "running" /\ row.wait = None
  BY <1>1, <1>5, NeverIs DEF RunRows, Live
<1>7. RunOK(t, row)
  BY <1>6 DEF RunOK
<1>8. k2 \in TaskRows /\ k2.state = "running" /\ k2.attempts = k.attempts /\ k2.max = k.max
  <2>1. Larger(k.attempts, n) = n /\ n \in 0 .. MaxRuns /\ world.duration \in 0 .. Never
    BY <1>3, RunsAre, WorldTypes DEF Larger, Runs
  <2> DEFINE life == IF db.task[t].started THEN k.life ELSE world.duration
  <2>2. life \in 0 .. Never
    BY <1>1, <2>1 DEF TaskRows
  <2>3. k2 = [k EXCEPT !.state = "running", !.last = n, !.attempts = n, !.started = TRUE, !.life = life]
    BY <2>1
  <2> HIDE DEF life, k2
  <2> QED BY <1>1, <1>3, <2>1, <2>2, <2>3 DEF TaskRows, Live
<1>9. new.task = [db.task EXCEPT ![t] = k2] /\ new.run = [db.run EXCEPT ![t] = [rs EXCEPT ![n] = row]]
  <2>1. new = [task |-> [db.task EXCEPT ![t] = k2], run |-> [db.run EXCEPT ![t][n] = row]]
    BY Zenon DEF ClaimRun
  <2> HIDE DEF k2, row, new
  <2> QED BY <2>1
<1> HIDE DEF row, k2, new
<1>10. RowsOK(t, k2, [rs EXCEPT ![n] = row])
  <2>1. rs[n].state \in Live
    BY <1>2 DEF Live
  <2> QED BY <1>1, <1>6, <1>7, <1>8, <2>1, MoveRows
<1>11. /\ new.task[t] = k2 /\ new.run[t] = [rs EXCEPT ![n] = row]
       /\ new.task = [db.task EXCEPT ![t] = new.task[t]]
       /\ new.run = [db.run EXCEPT ![t] = new.run[t]]
  BY <1>9 DEF TablesOK
<1>12. rs \in [Runs -> RunRows] /\ k.attempts \in Nat
  BY <1>1 DEF RowsOK, TaskRows
<1> QED BY <1>2, <1>6, <1>8, <1>10, <1>11, <1>12 DEF new

\* cancel_task, for a set of tasks.
LEMMA CancelTables ==
    ASSUME NEW db, TablesOK(db), db = [task |-> db.task, run |-> db.run], NEW S \in SUBSET Tasks
    PROVE  LET new == CancelTasks(db, S)
           IN  /\ TablesOK(new)
               /\ new = [task |-> new.task, run |-> new.run]
               /\ \A t \in Tasks : db.task[t].attempts <= new.task[t].attempts
               /\ \A t \in Tasks, m \in Runs : \/ new.run[t][m] = db.run[t][m]
                                               \/ new.run[t][m].state = "cancelled"
<1> DEFINE new == CancelTasks(db, S)
           C == {t \in S : db.task[t].state \in Live}
<1>0. \A t \in Tasks : db.task[t].attempts \in Nat /\ db.run[t] \in [Runs -> RunRows]
  BY DEF TablesOK, TaskRows
<1>1. CASE C = {}
  BY <1>0, <1>1 DEF CancelTasks
<1>2. CASE C # {}
  <2> DEFINE gone == [NoRun EXCEPT !.state = "cancelled"]
             kC(t) == [db.task[t] EXCEPT !.state = "cancelled"]
             rsC(t) == [n \in Runs |-> IF Cancels(db.run[t][n]) THEN gone ELSE db.run[t][n]]
             task2 == [t \in Tasks |-> IF t \in C THEN kC(t) ELSE db.task[t]]
             run2 == [t \in Tasks |-> [n \in Runs |->
                        IF t \in C /\ Cancels(db.run[t][n]) THEN gone ELSE db.run[t][n]]]
  <2>1. new = [task |-> task2, run |-> run2]
    BY <1>2 DEF CancelTasks
  <2>2. ASSUME NEW t \in Tasks
        PROVE  /\ task2[t] = IF t \in C THEN kC(t) ELSE db.task[t]
               /\ run2[t] = IF t \in C THEN rsC(t) ELSE db.run[t]
    BY <1>0, <2>2
  <2>3. ASSUME NEW t \in Tasks
        PROVE  RowsOK(t, task2[t], run2[t])
    <3>1. CASE t \in C
      <4>1. RowsOK(t, db.task[t], db.run[t])
        BY DEF TablesOK
      <4>2. RowsOK(t, kC(t), rsC(t))
        BY <3>1, <4>1, CancelRows
      <4> QED BY <2>2, <3>1, <4>2
    <3>2. CASE t \notin C
      BY <2>2, <3>2 DEF TablesOK
    <3> QED BY <3>1, <3>2
  <2>4. \A t \in Tasks : task2[t] \in TaskRows /\ run2[t] \in [Runs -> RunRows]
    BY <2>3 DEF RowsOK
  <2>5. \A t \in Tasks : task2[t].attempts = db.task[t].attempts
    BY <2>2 DEF TablesOK, TaskRows
  <2>6. gone.state = "cancelled"
    BY NewRows DEF Terminal
  <2> HIDE DEF gone
  <2>7. \A t \in Tasks, m \in Runs : run2[t][m] \in {db.run[t][m], gone}
    OBVIOUS
  <2>8. task2 \in [Tasks -> TaskRows] /\ run2 \in [Tasks -> [Runs -> RunRows]]
    <3>1. DOMAIN task2 = Tasks /\ DOMAIN run2 = Tasks /\ task2 = [t \in Tasks |-> task2[t]] /\ run2 = [t \in Tasks |-> run2[t]]
      OBVIOUS
    <3> HIDE DEF task2, run2
    <3> QED BY <2>4, <3>1
  <2> HIDE DEF task2, run2
  <2> QED BY <1>0, <2>1, <2>3, <2>5, <2>6, <2>7, <2>8 DEF TablesOK
<1> QED BY <1>1, <1>2

-----------------------------------------------------------------------------
(* Steps, by what they mean for workers. *)

Grows == \A t \in Tasks : task[t].attempts <= task'[t].attempts

\* The run of x is where it was, or was taken away.
Declined(x) ==
    /\ x.task \in torn => x.task \in torn'
    /\ \/ run'[x.task][x.run].state = StateOf(x)
       \/ run'[x.task][x.run].state = "cancelled"
       \/ /\ StateOf(x) = "running" /\ run'[x.task][x.run].state = "failed"
          /\ x.pc = "write" => x.task \in torn'

\* Answers to turns stay.
AnswersStay == \A t \in Tasks : \A v : TurnAnswer(t, v) => TurnAnswer(t, v)'

LEMMA MadeKept ==
    ASSUME UNCHANGED world, AnswersStay, NEW t \in Tasks, NEW i, NEW n, NEW v, Made(t, i, n, v)
    PROVE  Made(t, i, n, v)'
  BY DEF Made, AnswersStay, Op

LEMMA SameAnswers == ASSUME UNCHANGED agent PROVE AnswersStay
  BY DEF AnswersStay, TurnAnswer

\* A worker stays as it is, if it has to remember nothing else.
LEMMA WorkerStays ==
    ASSUME UNCHANGED world, AnswersStay, NEW x, WorkerOK(x), Declined(x),
           StateOf(x) = "running" /\ x.task \notin torn /\ Remembers(x) => Remembers(x)'
    PROVE  WorkerOK(x)'
<1>1. UnderWay(x)'
  <2>1. x.pc \in {"put", "write", "overwrite"} => Made(x.task, x.step, x.run, x.value)'
    BY MadeKept DEF WorkerOK, UnderWay, Executing
  <2>2. /\ x.pc \in {"write", "overwrite"} => StateOf(x)' # "failed" \/ x.task \in torn'
        /\ x.pc = "overwrite" => StateOf(x)' # "running"
    BY DEF WorkerOK, UnderWay, Declined, StateOf
  <2> QED BY <2>1, <2>2 DEF WorkerOK, UnderWay, Op, Positions
<1>2. Unfenced(x.task)' = Unfenced(x.task)
  BY DEF Unfenced, Positions, Op
<1>3. StateOf(x)' \in {"running", "failed", "cancelled"} /\ (StateOf(x)' = "running" => StateOf(x) = "running")
  BY DEF Declined, WorkerOK, StateOf
<1>4. x.task \in torn => x.task \in torn'
  BY DEF Declined
<1> QED BY <1>1, <1>2, <1>3, <1>4 DEF WorkerOK, Executing, Pcs, Values, Positions

LEMMA WorkerKept ==
    ASSUME UNCHANGED <<world, checkpoint, agent>>, NEW x, WorkerOK(x), Declined(x)
    PROVE  WorkerOK(x)'
<1>1. Remembers(x) => Remembers(x)'
  BY DEF Remembers, Positions, Replayed, Op
<1> QED BY <1>1, SameAnswers, WorkerStays

LEMMA CheckpointsKept ==
    ASSUME IInv, UNCHANGED <<world, checkpoint>>, AnswersStay, Grows, TablesOK(Tables)'
    PROVE  CheckpointsOK'
<1>1. \A t \in Tasks : task[t].attempts \in Nat /\ task'[t].attempts \in Nat
  BY DEF IInv, TablesOK, Tables, TaskRows
<1>2. \A t \in Tasks : Positions(t)' = Positions(t)
  BY DEF Positions
<1>3. Checkpoints' = Checkpoints
  BY DEF Checkpoints, Values
<1>4. ASSUME NEW t \in Tasks, NEW i \in Positions(t), checkpoint[t][i] # None
      PROVE  /\ checkpoint[t][i].owner <= task'[t].attempts
             /\ Made(t, i, checkpoint[t][i].owner, checkpoint[t][i].val)'
  <2>1. /\ checkpoint[t][i].owner <= task[t].attempts
        /\ Made(t, i, checkpoint[t][i].owner, checkpoint[t][i].val)
        /\ checkpoint[t][i].owner \in Runs
    BY <1>4 DEF IInv, CheckpointsOK, Checkpoints
  <2>2. Made(t, i, checkpoint[t][i].owner, checkpoint[t][i].val)'
    BY <2>1, MadeKept
  <2>3. task[t].attempts <= task'[t].attempts /\ checkpoint[t][i].owner \in Nat
    BY <2>1, RunsAre DEF Grows
  <2> DEFINE a == task[t].attempts  b == task'[t].attempts  c == checkpoint[t][i].owner
  <2>4. a \in Nat /\ b \in Nat /\ c \in Nat /\ c <= a /\ a <= b
    BY <1>1, <2>1, <2>3
  <2> HIDE DEF a, b, c
  <2>5. c <= b
    BY <2>4
  <2> QED BY <2>2, <2>5 DEF b, c
<1>5. DOMAIN checkpoint' = Tasks
  BY DEF IInv, CheckpointsOK
<1>6. \A t \in Tasks : checkpoint'[t] \in [Positions(t)' -> Checkpoints \cup {None}]
  BY <1>2 DEF IInv, CheckpointsOK
<1> QED BY <1>2, <1>4, <1>5, <1>6 DEF CheckpointsOK, Checkpoints, Values

\* Worker w is at y now; k and rs are the rows of t now.
Becomes(w, y)      == exec' = [exec EXCEPT ![w] = y]
Rewrites(t, k, rs) == task' = [task EXCEPT ![t] = k] /\ run' = [run EXCEPT ![t] = rs]

\* Others go on as they were, w with y.
LEMMA WorkersStep ==
    ASSUME IInv, NEW w \in Workers, NEW y, Becomes(w, y),
           \A x : (\E v \in Workers \ {w} : x = exec[v] /\ x # Idle) => WorkerOK(x)',
           y # Idle => /\ WorkerOK(y)'
                       /\ \A v \in Workers \ {w} :
                            exec[v] # Idle => ~(exec[v].task = y.task /\ exec[v].run = y.run)
    PROVE  WorkersOK'
<1>1. /\ DOMAIN exec = Workers /\ exec'[w] = y
      /\ \A v \in Workers \ {w} : exec'[v] = exec[v]
  BY DEF IInv, WorkersOK, Becomes
<1>2. \A v \in Workers : (exec[v] # Idle => WorkerOK(exec[v]))'
  <2> TAKE v \in Workers
  <2>1. Idle' = Idle
    BY DEF Idle
  <2>2. CASE v = w
    BY <1>1, <2>1, <2>2
  <2>3. CASE v # w
    BY <1>1, <2>1, <2>3
  <2> QED BY <2>2, <2>3
<1>3. \A v, u \in Workers : /\ exec'[v] # Idle /\ exec'[u] # Idle
                            /\ exec'[v].task = exec'[u].task /\ exec'[v].run = exec'[u].run
                            => v = u
  BY <1>1 DEF IInv, WorkersOK
<1>4. DOMAIN exec' = Workers
  BY DEF IInv, WorkersOK, Becomes
<1> QED BY <1>2, <1>3, <1>4 DEF WorkersOK, Idle

\* Nobody goes on.
LEMMA WorkersStay ==
    ASSUME IInv, UNCHANGED exec,
           \A x : (\E v \in Workers : x = exec[v] /\ x # Idle) => WorkerOK(x)'
    PROVE  WorkersOK'
<1>1. \A v \in Workers : (exec[v] # Idle => WorkerOK(exec[v]))'
  BY DEF Idle
<1> QED BY <1>1 DEF WorkersOK, IInv, Idle

\* A step that leaves checkpoints and agents alone; w, if it is a worker's,
\* goes on with y.
LEMMA StepKeeps ==
    ASSUME IInv, UNCHANGED <<world, checkpoint, agent>>, EventsOK', TablesOK(Tables)', Grows,
           NEW w \in Workers, NEW y,
           Becomes(w, y),
           \A v \in Workers \ {w} : exec[v] # Idle => Declined(exec[v]),
           y # Idle => /\ WorkerOK(y)'
                       /\ \A v \in Workers \ {w} :
                            exec[v] # Idle => ~(exec[v].task = y.task /\ exec[v].run = y.run)
    PROVE  IInv'
<1>1. CheckpointsOK' /\ AgentsOK'
  BY CheckpointsKept, SameAnswers DEF IInv, AgentsOK
<1>2. ASSUME NEW x, NEW v \in Workers \ {w}, x = exec[v], x # Idle PROVE WorkerOK(x)'
  <2>1. WorkerOK(x) /\ Declined(x)
    BY <1>2 DEF IInv, WorkersOK
  <2> QED BY <2>1, WorkerKept
<1>3. WorkersOK'
  BY <1>2, WorkersStep
<1> QED BY <1>1, <1>3 DEF IInv

LEMMA StayKeeps ==
    ASSUME IInv, UNCHANGED <<world, checkpoint, agent, exec>>, EventsOK', TablesOK(Tables)', Grows,
           \A v \in Workers : exec[v] # Idle => Declined(exec[v])
    PROVE  IInv'
<1>1. CheckpointsOK' /\ AgentsOK'
  BY CheckpointsKept, SameAnswers DEF IInv, AgentsOK
<1>2. ASSUME NEW x, NEW v \in Workers, x = exec[v], x # Idle PROVE WorkerOK(x)'
  <2>1. WorkerOK(x) /\ Declined(x)
    BY <1>2 DEF IInv, WorkersOK
  <2> QED BY <2>1, WorkerKept
<1>3. WorkersOK'
  BY <1>2, WorkersStay
<1> QED BY <1>1, <1>3 DEF IInv

\* The rows that a function of the queue leaves.
LEMMA TablesMove ==
    ASSUME UNCHANGED <<world, event>>, NEW db, TablesOK(db), task' = db.task, run' = db.run
    PROVE  TablesOK(Tables)'
<1>1. ASSUME NEW t \in Tasks, NEW k, NEW rs, RowsOK(t, k, rs) PROVE RowsOK(t, k, rs)'
  BY <1>1 DEF RowsOK, RunOK, Positions, Op, TaskRows, RunRows
<1>2. \A t \in Tasks : \A k, rs : k = db.task[t] /\ rs = db.run[t] => RowsOK(t, k, rs)'
  BY <1>1 DEF TablesOK
<1>3. \A t \in Tasks : RowsOK(t, task[t], run[t])'
  BY <1>2
<1>4. task' \in [Tasks -> TaskRows] /\ run' \in [Tasks -> [Runs -> RunRows]]
  BY DEF TablesOK
<1> QED BY <1>3, <1>4 DEF TablesOK, Tables, TaskRows, RunRows

\* The rows of one task change.
LEMMA OneTask ==
    ASSUME NEW db, TablesOK(db), NEW new, NEW t \in Tasks,
           RowsOK(t, new.task[t], new.run[t]),
           new.task = [db.task EXCEPT ![t] = new.task[t]],
           new.run = [db.run EXCEPT ![t] = new.run[t]]
    PROVE  TablesOK(new)
<1>1. new.task[t] \in TaskRows /\ new.run[t] \in [Runs -> RunRows]
  BY DEF RowsOK
<1>2. DOMAIN db.task = Tasks /\ DOMAIN db.run = Tasks
  BY DEF TablesOK
<1>3. \A s \in Tasks \ {t} : new.task[s] = db.task[s] /\ new.run[s] = db.run[s]
  BY <1>2
<1> QED BY <1>1, <1>2, <1>3 DEF TablesOK

\* Unchanged rows.
LEMMA TablesStay ==
    ASSUME IInv, UNCHANGED <<world, torn, event, task, run>>
    PROVE  /\ TablesOK(Tables)' /\ EventsOK' /\ Grows
           /\ \A v \in Workers : exec[v] # Idle => Declined(exec[v])
<1>1. TablesOK(Tables)'
  BY TablesMove DEF IInv, Tables
<1>2. \A t \in Tasks : task[t].attempts \in Nat
  BY DEF IInv, TablesOK, Tables, TaskRows
<1> QED BY <1>1, <1>2 DEF IInv, EventsOK, Grows, Declined, StateOf

\* A step that changes the rows of one task; workers of its runs in M go on
\* with their eyes open, the others' runs decline at most.
LEMMA OneTaskStep ==
    ASSUME IInv, UNCHANGED <<world, torn, event>>, NEW t \in Tasks, NEW k, NEW rs, RowsOK(t, k, rs),
           Rewrites(t, k, rs),
           task[t].attempts <= k.attempts, NEW M,
           \A m \in Runs : \/ m \in M
                           \/ rs[m].state = run[t][m].state
                           \/ rs[m].state = "cancelled"
                           \/ run[t][m].state \notin {"running", "failed", "cancelled"}
    PROVE  /\ TablesOK(Tables)' /\ EventsOK' /\ Grows
           /\ \A v \in Workers : exec[v] # Idle /\ ~(exec[v].task = t /\ exec[v].run \in M)
                                   => Declined(exec[v])
           /\ run'[t] = rs /\ task'[t] = k
<1> DEFINE new == [task |-> task', run |-> run']
<1>1. task \in [Tasks -> TaskRows] /\ run \in [Tasks -> [Runs -> RunRows]] /\ TablesOK(Tables)
  BY DEF IInv, TablesOK, Tables
<1>2. task'[t] = k /\ run'[t] = rs
  BY <1>1 DEF Rewrites
<1>3. TablesOK(new)
  BY <1>1, <1>2, OneTask DEF Tables, Rewrites
<1>4. TablesOK(Tables)'
  BY <1>3, TablesMove
<1>5. ASSUME NEW v \in Workers, exec[v] # Idle, ~(exec[v].task = t /\ exec[v].run \in M)
      PROVE  Declined(exec[v])
  <2>1. exec[v].task \in Tasks /\ exec[v].run \in Runs /\ StateOf(exec[v]) \in {"running", "failed", "cancelled"}
    BY <1>5 DEF IInv, WorkersOK, WorkerOK, Executing
  <2>2. CASE exec[v].task = t
    BY <1>2, <1>5, <2>1, <2>2 DEF Declined, StateOf
  <2>3. CASE exec[v].task # t
    BY <1>1, <2>1, <2>3 DEF Declined, StateOf, Rewrites
  <2> QED BY <2>2, <2>3
<1>6. \A s \in Tasks : task[s].attempts \in Nat
  BY <1>1 DEF TaskRows
<1>7. Grows
  BY <1>1, <1>2, <1>6 DEF Grows, Rewrites
<1> QED BY <1>2, <1>4, <1>5, <1>7 DEF EventsOK, IInv

-----------------------------------------------------------------------------
(* Callers. *)

LEMMA SpawnStep == ASSUME IInv, NEW t \in Tasks, Spawn(t) PROVE IInv'
<1> DEFINE k2 == [state |-> "pending", attempts |-> 1, last |-> 1,
                  max |-> world.attempts, started |-> FALSE, life |-> world.delay]
           rs2 == [run[t] EXCEPT ![1] = NewRun(0)]
<1>1. Rewrites(t, k2, rs2)
  BY DEF Spawn, Store, Rewrites
<1>2. task[t].state = "none" /\ UNCHANGED <<world, torn, checkpoint, event, agent, exec>>
  BY DEF Spawn
<1>3. RowsOK(t, task[t], run[t])
  BY DEF IInv, TablesOK, Tables
<1>4. task[t].attempts = 0
  BY <1>2, <1>3 DEF RowsOK
<1>5. k2 \in TaskRows /\ k2.state = "pending" /\ k2.attempts = 1 /\ 1 \in Runs /\ k2.attempts <= k2.max
  BY WorldTypes, RunsAre DEF IInv, TaskRows, Live, Runs
<1> HIDE DEF k2
<1>6. RowsOK(t, k2, rs2)
  <2>1. task[t].state \notin Live \cup {"cancelled"}
    BY <1>2 DEF Live
  <2> QED BY <1>3, <1>4, <1>5, <2>1, StartRows
<1>0. PICK M : M = {}
  OBVIOUS
<1>7. \A m \in Runs : \/ m \in M
                      \/ rs2[m].state = run[t][m].state
                      \/ rs2[m].state = "cancelled"
                      \/ run[t][m].state \notin {"running", "failed", "cancelled"}
  BY <1>3, <1>4, RunsAre DEF RowsOK
<1> HIDE DEF rs2
<1>8. task[t].attempts <= k2.attempts
  BY <1>4, <1>5
<1>9. /\ TablesOK(Tables)' /\ EventsOK' /\ Grows
      /\ \A v \in Workers : exec[v] # Idle /\ ~(exec[v].task = t /\ exec[v].run \in M) => Declined(exec[v])
  BY <1>1, <1>2, <1>6, <1>7, <1>8, OneTaskStep
<1> QED BY <1>0, <1>2, <1>9, StayKeeps

LEMMA RetryStep == ASSUME IInv, NEW t \in Tasks, Retry(t) PROVE IInv'
<1> DEFINE n == task[t].attempts + 1
           k == task[t]
           k2 == [k EXCEPT !.state = "pending", !.attempts = n, !.max = @ + 1, !.last = n]
           rs2 == [run[t] EXCEPT ![n] = NewRun(0)]
<1>1. Rewrites(t, k2, rs2)
  BY Zenon DEF Retry, Store, Rewrites
<1>2. /\ task[t].state = "failed" /\ task[t].attempts < MaxRuns
      /\ UNCHANGED <<world, torn, checkpoint, event, agent, exec>>
  BY DEF Retry
<1>3. RowsOK(t, task[t], run[t])
  BY DEF IInv, TablesOK, Tables
<1>4. k.attempts = k.max /\ k.attempts \in Nat /\ k \in TaskRows /\ n \in Runs /\ n \in 0 .. MaxRuns
  BY <1>2, <1>3, RunsAre DEF RowsOK, TaskRows, Runs
<1>5. k2 \in TaskRows /\ k2.state = "pending" /\ k2.attempts = n /\ k2.attempts <= k2.max
  <2>1. k2 = [k EXCEPT !.state = "pending", !.attempts = n, !.max = n, !.last = n]
    BY <1>4
  <2> HIDE DEF k2, k, n
  <2>2. k2.state = "pending" /\ k2.attempts = n /\ k2.max = n
    BY <1>4, <2>1 DEF TaskRows
  <2>3. k2 \in TaskRows
    BY <1>4, <2>1 DEF TaskRows, Live
  <2> QED BY <1>4, <2>2, <2>3
<1> HIDE DEF k2
<1>6. RowsOK(t, k2, rs2)
  <2>1. task[t].state \notin Live \cup {"cancelled"}
    BY <1>2 DEF Live
  <2>2. RowsOK(t, k2, [run[t] EXCEPT ![k2.attempts] = NewRun(0)])
    BY <1>3, <1>4, <1>5, <2>1, StartRows
  <2> QED BY <1>5, <2>2
<1>0. PICK M : M = {}
  OBVIOUS
<1>7. \A m \in Runs : \/ m \in M
                      \/ rs2[m].state = run[t][m].state
                      \/ rs2[m].state = "cancelled"
                      \/ run[t][m].state \notin {"running", "failed", "cancelled"}
  BY <1>3, <1>4, RunsAre DEF RowsOK
<1> HIDE DEF rs2
<1>8. k.attempts <= k2.attempts
  BY <1>4, <1>5
<1>9. /\ TablesOK(Tables)' /\ EventsOK' /\ Grows
      /\ \A v \in Workers : exec[v] # Idle /\ ~(exec[v].task = t /\ exec[v].run \in M) => Declined(exec[v])
  BY <1>1, <1>2, <1>6, <1>7, <1>8, OneTaskStep
<1> QED BY <1>0, <1>2, <1>9, StayKeeps

LEMMA CancelStep == ASSUME IInv, NEW t \in Tasks, Cancel(t) PROVE IInv'
<1> DEFINE new == CancelTasks(Tables, {t})
<1>1. task' = new.task /\ run' = new.run /\ UNCHANGED <<world, torn, checkpoint, event, agent, exec>>
  BY DEF Cancel, Store
<1>2. /\ TablesOK(new)
      /\ \A s \in Tasks : task[s].attempts <= new.task[s].attempts
      /\ \A s \in Tasks, m \in Runs : new.run[s][m] = run[s][m] \/ new.run[s][m].state = "cancelled"
  BY CancelTables DEF IInv, Tables
<1> HIDE DEF new
<1>3. TablesOK(Tables)'
  BY <1>1, <1>2, TablesMove
<1>4. Grows /\ EventsOK'
  BY <1>1, <1>2 DEF Grows, IInv, EventsOK
<1>5. \A v \in Workers : exec[v] # Idle => Declined(exec[v])
  BY <1>1, <1>2 DEF Declined, StateOf, IInv, WorkersOK, WorkerOK, Executing
<1> QED BY <1>1, <1>3, <1>4, <1>5, StayKeeps

-----------------------------------------------------------------------------
(* Claims. *)

\* A run that is claimed has no worker, and is new.
LEMMA NewExecution ==
    ASSUME IInv, UNCHANGED <<world, checkpoint, agent>>, NEW t \in Tasks, NEW n \in Runs,
           run'[t][n].state = "running", NEW y, y = Execution(t, n)
    PROVE  y # Idle /\ WorkerOK(y)' /\ y.task = t /\ y.run = n
<1>1. /\ y.pc = "load" /\ y.task = t /\ y.run = n /\ y.step = 1 /\ y.requests = 0 /\ y.key = 0
      /\ y.value = None /\ y.fenced = 0 /\ y.seen = [i \in Positions(t) |-> None]
  BY DEF Execution
<1>2. y \in Executing(y.seen)
  BY RunsAre DEF Executing, Execution, Pcs
<1>3. Len(world.program[t]) \in Nat /\ Positions(t) \subseteq Nat \ {0}
  BY PositionTypes DEF IInv
<1>4. UnderWay(y)'
  BY <1>1 DEF UnderWay
<1>5. Remembers(y)'
  BY <1>1, <1>3 DEF Remembers, Positions
<1>6. y # Idle
  BY <1>1 DEF Idle
<1>7. y.step <= Len(world.program[t]) + 1
  BY <1>1, <1>3
<1>8. y.seen \in [Positions(t)' -> Values \cup {None}]
  BY <1>1 DEF Positions
<1> QED BY <1>1, <1>2, <1>4, <1>5, <1>6, <1>7, <1>8 DEF WorkerOK, Executing, Pcs, Values, StateOf

\* What a sweep may have done to the rows, and has put on record.
Swept(db) ==
    /\ torn \subseteq torn' /\ torn' \subseteq Tasks
    /\ \A t \in Tasks : task[t].attempts <= db.task[t].attempts
    /\ \A t \in Tasks, m \in Runs :
         \/ db.run[t][m] = run[t][m]
         \/ db.run[t][m].state = "cancelled"
         \/ /\ run[t][m].state = "running" /\ db.run[t][m].state = "failed"
            /\ Writing(t, m) => t \in torn'
         \/ run[t][m].state = "none"

\* The claim proper.
LEMMA TakeStep ==
    ASSUME IInv, NEW w \in Workers, exec[w] = Idle, UNCHANGED <<world, checkpoint, event, agent>>,
           NEW db, TablesOK(db), Swept(db), Take(w, db)
    PROVE  IInv'
<1>0. \A v \in Workers : exec[v] # Idle =>
         /\ exec[v].task \in Tasks /\ exec[v].run \in Runs
         /\ StateOf(exec[v]) \in {"running", "failed", "cancelled"}
         /\ exec[v].pc = "write" => Writing(exec[v].task, exec[v].run)
  BY DEF IInv, WorkersOK, WorkerOK, Executing, Writing
<1>1. EventsOK'
  BY DEF IInv, EventsOK, Swept
<1>2. CASE Store(db) /\ UNCHANGED exec
  <2>1. TablesOK(Tables)'
    BY <1>2, TablesMove DEF Store
  <2>2. Grows
    BY <1>2 DEF Grows, Swept, Store
  <2>3. \A v \in Workers : exec[v] # Idle => Declined(exec[v])
    BY <1>0, <1>2 DEF Swept, Store, Declined, StateOf
  <2> QED BY <1>1, <1>2, <2>1, <2>2, <2>3, StayKeeps
<1>3. ASSUME NEW t \in Tasks, NEW n \in Runs, <<t, n>> \in Due(db),
             Store(ClaimRun(db, t, n)), exec' = [exec EXCEPT ![w] = Execution(t, n)]
      PROVE  IInv'
  <2> DEFINE new == ClaimRun(db, t, n)
  <2>1. /\ RowsOK(t, new.task[t], new.run[t])
        /\ new.task = [db.task EXCEPT ![t] = new.task[t]]
        /\ new.run = [db.run EXCEPT ![t] = new.run[t]]
        /\ db.task[t].attempts <= new.task[t].attempts
        /\ \A m \in Runs : m # n => new.run[t][m] = db.run[t][m]
        /\ new.run[t][n].state = "running"
        /\ db.run[t][n].state \in {"pending", "sleeping"}
    BY <1>3, ClaimRows DEF IInv
  <2>2. task' = new.task /\ run' = new.run
    BY <1>3 DEF Store
  <2> HIDE DEF new
  <2>3. TablesOK(Tables)'
    <3>1. TablesOK(new)
      BY <2>1, OneTask
    <3> QED BY <2>2, <3>1, TablesMove
  <2>4. DOMAIN db.task = Tasks /\ DOMAIN db.run = Tasks
    BY DEF TablesOK
  <2>5. Grows
    <3>1. \A s \in Tasks : task[s].attempts \in Nat /\ db.task[s].attempts \in Nat
      BY DEF IInv, TablesOK, Tables, TaskRows
    <3>2. new.task[t].attempts \in Nat
      BY <2>1 DEF RowsOK, TaskRows
    <3>3. \A s \in Tasks : s # t => new.task[s] = db.task[s]
      BY <2>1, <2>4
    <3> QED BY <2>1, <2>2, <3>1, <3>2, <3>3 DEF Grows, Swept
  <2>6. \A s \in Tasks, m \in Runs : ~(s = t /\ m = n) => run'[s][m] = db.run[s][m]
    BY <2>1, <2>2, <2>4
  <2>7. \A v \in Workers : exec[v] # Idle => ~(exec[v].task = t /\ exec[v].run = n) /\ Declined(exec[v])
    <3> SUFFICES ASSUME NEW v \in Workers, exec[v] # Idle
                 PROVE  ~(exec[v].task = t /\ exec[v].run = n) /\ Declined(exec[v])
      OBVIOUS
    <3>1. ~(exec[v].task = t /\ exec[v].run = n)
      BY <1>0, <2>1 DEF Swept, StateOf
    <3>2. run'[exec[v].task][exec[v].run] = db.run[exec[v].task][exec[v].run]
      BY <1>0, <2>6, <3>1
    <3> QED BY <1>0, <3>1, <3>2 DEF Swept, StateOf, Declined
  <2>8. PICK y : y = Execution(t, n)
    OBVIOUS
  <2>9. y # Idle /\ WorkerOK(y)' /\ y.task = t /\ y.run = n
    BY <2>1, <2>2, <2>8, NewExecution
  <2>10. Becomes(w, y)
    BY <1>3, <2>8 DEF Becomes
  <2> QED BY <1>1, <2>3, <2>5, <2>7, <2>9, <2>10, StepKeeps
<1>4. \/ Store(db) /\ UNCHANGED exec
      \/ \E x \in Due(db) : Store(ClaimRun(db, x[1], x[2])) /\ exec' = [exec EXCEPT ![w] = Execution(x[1], x[2])]
  BY DEF Take
<1>5. ASSUME NEW x \in Due(db), Store(ClaimRun(db, x[1], x[2])),
             exec' = [exec EXCEPT ![w] = Execution(x[1], x[2])]
      PROVE  IInv'
  <2>1. x[1] \in Tasks /\ x[2] \in Runs /\ x = <<x[1], x[2]>>
    BY <1>5 DEF Due
  <2> QED BY <1>3, <1>5, <2>1
<1> QED BY <1>2, <1>4, <1>5

LEMMA ClaimStep == ASSUME IInv, NEW w \in Workers, Claim(w) PROVE IInv'
<1> DEFINE kept == CancelTasks(Tables, {t \in Tasks : task[t].life = 0})
<1>1. exec[w] = Idle /\ UNCHANGED <<world, checkpoint, event, agent>>
  BY DEF Claim
<1>2. \/ Take(w, kept) /\ UNCHANGED torn
      \/ \E x \in Expired(kept) :
           /\ Take(w, FailRun(kept, x[1], x[2]))
           /\ torn' = IF Writing(x[1], x[2]) THEN torn \cup {x[1]} ELSE torn
  BY DEF Claim
<1>6. torn \subseteq Tasks
  BY DEF IInv, EventsOK
<1>3. /\ TablesOK(kept)
      /\ \A t \in Tasks : task[t].attempts <= kept.task[t].attempts
      /\ \A t \in Tasks, m \in Runs : kept.run[t][m] = run[t][m] \/ kept.run[t][m].state = "cancelled"
  BY CancelTables DEF IInv, Tables
<1> HIDE DEF kept
<1>4. ASSUME Take(w, kept), UNCHANGED torn PROVE IInv'
  <2>1. Swept(kept)
    BY <1>3, <1>4, <1>6 DEF Swept
  <2> QED BY <1>1, <1>3, <1>4, <2>1, TakeStep
<1>5. ASSUME NEW x \in Expired(kept), Take(w, FailRun(kept, x[1], x[2])),
             torn' = IF Writing(x[1], x[2]) THEN torn \cup {x[1]} ELSE torn
      PROVE  IInv'
  <2> DEFINE t == x[1]  n == x[2]  db == FailRun(kept, t, n)
  <2>1. t \in Tasks /\ n \in Runs /\ kept.run[t][n].state = "running"
    BY <1>5 DEF Expired
  <2>2. /\ RowsOK(t, db.task[t], db.run[t])
        /\ db.task = [kept.task EXCEPT ![t] = db.task[t]]
        /\ db.run = [kept.run EXCEPT ![t] = db.run[t]]
        /\ kept.task[t].attempts <= db.task[t].attempts
        /\ \A m \in Runs : \/ db.run[t][m] = kept.run[t][m]
                           \/ m = n /\ db.run[t][m].state = "failed"
                           \/ kept.run[t][m].state = "none"
    BY <1>3, <2>1, FailRows DEF IInv
  <2>3. Take(w, db)
    BY <1>5
  <2>9. /\ torn \subseteq torn' /\ torn' \subseteq Tasks
        /\ Writing(t, n) => t \in torn'
    BY <1>5, <1>6, <2>1
  <2> HIDE DEF db, t, n
  <2>4. TablesOK(db)
    BY <1>3, <2>1, <2>2, OneTask
  <2>5. \A s \in Tasks : s # t => db.task[s] = kept.task[s] /\ db.run[s] = kept.run[s]
    BY <1>3, <2>2 DEF TablesOK
  <2>6. \A s \in Tasks : task[s].attempts \in Nat /\ kept.task[s].attempts \in Nat /\ db.task[s].attempts \in Nat
    BY <1>3, <2>4 DEF IInv, TablesOK, Tables, TaskRows
  <2>7. \A s \in Tasks : task[s].attempts <= db.task[s].attempts
    BY <1>3, <2>2, <2>5, <2>6
  <2>8. \A s \in Tasks, m \in Runs :
          \/ db.run[s][m] = run[s][m]
          \/ db.run[s][m].state = "cancelled"
          \/ /\ run[s][m].state = "running" /\ db.run[s][m].state = "failed"
             /\ Writing(s, m) => s \in torn'
          \/ run[s][m].state = "none"
    <3> SUFFICES ASSUME NEW s \in Tasks, NEW m \in Runs
                 PROVE  \/ db.run[s][m] = run[s][m]
                        \/ db.run[s][m].state = "cancelled"
                        \/ /\ run[s][m].state = "running" /\ db.run[s][m].state = "failed"
                           /\ Writing(s, m) => s \in torn'
                        \/ run[s][m].state = "none"
      OBVIOUS
    <3>1. kept.run[s][m] = run[s][m] \/ kept.run[s][m].state = "cancelled"
      BY <1>3
    <3>2. \/ db.run[s][m] = kept.run[s][m]
          \/ s = t /\ m = n /\ db.run[s][m].state = "failed"
          \/ kept.run[s][m].state = "none"
      BY <2>2, <2>5
    <3> QED BY <2>1, <2>9, <3>1, <3>2
  <2> QED BY <1>1, <2>3, <2>4, <2>7, <2>8, <2>9, TakeStep DEF Swept
<1> QED BY <1>2, <1>4, <1>5

-----------------------------------------------------------------------------
(* Workers at work. *)

LEMMA WorkerTypes ==
    ASSUME IInv, NEW w \in Workers, NEW x, x = exec[w], x # Idle
    PROVE  /\ WorkerOK(x) /\ UnderWay(x)
           /\ x \in Executing(x.seen)
           /\ x.seen \in [Positions(x.task) -> Values \cup {None}]
           /\ x.task \in Tasks /\ x.run \in Runs /\ x.step \in Nat \ {0} /\ x.pc \in Pcs
           /\ x.requests \in Nat /\ x.fenced \in Nat /\ x.key \in Nat /\ x.value \in Values \cup {None}
           /\ StateOf(x) \in {"running", "failed", "cancelled"}
           /\ RowsOK(x.task, task[x.task], run[x.task])
           /\ run[x.task] \in [Runs -> RunRows] /\ task[x.task] \in TaskRows
           /\ checkpoint[x.task] \in [Positions(x.task) -> Checkpoints \cup {None}]
           /\ StateOf(x) = "running" => x.run = task[x.task].attempts
           /\ \A v \in Workers \ {w} : exec[v] # Idle => ~(exec[v].task = x.task /\ exec[v].run = x.run)
<1>1. WorkerOK(x) /\ x \in Executing(x.seen)
  BY DEF IInv, WorkersOK, WorkerOK
<1>2. x.task \in Tasks /\ x.run \in Runs /\ x.step \in Nat \ {0} /\ x.pc \in Pcs
      /\ x.requests \in Nat /\ x.fenced \in Nat /\ x.key \in Nat /\ x.value \in Values \cup {None}
  BY <1>1 DEF Executing
<1>3. RowsOK(x.task, task[x.task], run[x.task])
  BY <1>2 DEF IInv, TablesOK, Tables
<1>4. StateOf(x) = "running" => x.run = task[x.task].attempts
  BY <1>2, <1>3 DEF StateOf, RowsOK, Live
<1> QED BY <1>1, <1>2, <1>3, <1>4 DEF WorkerOK, IInv, WorkersOK, CheckpointsOK, RowsOK

\* The rows of a worker's own run change, or not, and it goes on with y.
LEMMA OwnRow ==
    ASSUME IInv, UNCHANGED <<world, torn, checkpoint, event, agent>>,
           NEW w \in Workers, NEW x, x = exec[w], x # Idle,
           NEW k, NEW rs, RowsOK(x.task, k, rs),
           Rewrites(x.task, k, rs),
           task[x.task].attempts <= k.attempts,
           \A m \in Runs : \/ m = x.run
                           \/ rs[m].state = run[x.task][m].state
                           \/ rs[m].state = "cancelled"
                           \/ run[x.task][m].state \notin {"running", "failed", "cancelled"},
           NEW y, Becomes(w, y),
           y = Idle \/ (WorkerOK(y)' /\ y.task = x.task /\ y.run = x.run)
    PROVE  IInv'
<1>1. x.task \in Tasks /\ \A v \in Workers \ {w} : exec[v] # Idle => ~(exec[v].task = x.task /\ exec[v].run = x.run)
  BY WorkerTypes
<1>2. PICK M : M = {x.run}
  OBVIOUS
<1>3. \A m \in Runs : \/ m \in M
                      \/ rs[m].state = run[x.task][m].state
                      \/ rs[m].state = "cancelled"
                      \/ run[x.task][m].state \notin {"running", "failed", "cancelled"}
  BY <1>2
<1>4. /\ TablesOK(Tables)' /\ EventsOK' /\ Grows
      /\ \A v \in Workers : exec[v] # Idle /\ ~(exec[v].task = x.task /\ exec[v].run \in M) => Declined(exec[v])
  BY <1>1, <1>3, OneTaskStep
<1>5. \A v \in Workers \ {w} : exec[v] # Idle => Declined(exec[v])
  BY <1>1, <1>2, <1>4
<1> QED BY <1>1, <1>4, <1>5, StepKeeps

\* Nothing but the worker changes.
LEMMA OnlyWorker ==
    ASSUME IInv, UNCHANGED <<world, torn, task, run, checkpoint, event, agent>>,
           NEW w \in Workers, NEW x, x = exec[w], x # Idle,
           NEW y, Becomes(w, y),
           y = Idle \/ (WorkerOK(y)' /\ y.task = x.task /\ y.run = x.run)
    PROVE  IInv'
<1>1. \A v \in Workers \ {w} : exec[v] # Idle => ~(exec[v].task = x.task /\ exec[v].run = x.run)
  BY WorkerTypes
<1>2. TablesOK(Tables)' /\ EventsOK' /\ Grows /\ \A v \in Workers : exec[v] # Idle => Declined(exec[v])
  BY TablesStay
<1> QED BY <1>1, <1>2, StepKeeps

\* The worker turns to something else in its operation.
LEMMA SameMemory ==
    ASSUME NEW x, NEW y, WorkerOK(x)', y \in Executing(x.seen), y.seen = x.seen,
           y.task = x.task, y.run = x.run, y.step = x.step, UnderWay(y)',
           Unfenced(y.task)' \/ y.fenced = 0
             \/ (y.fenced = 1 /\ StateOf(y)' # "running" /\ y.pc \in {"put", "wait", "fail"})
    PROVE  WorkerOK(y)'
<1>1. StateOf(y)' = StateOf(x)'
  BY DEF StateOf
<1>2. Remembers(x)' => Remembers(y)'
  BY DEF Remembers
<1> QED BY <1>1, <1>2 DEF WorkerOK, Executing

LEMMA FailsOK ==
    ASSUME NEW x, WorkerOK(x)', NEW y, y = [x EXCEPT !.pc = "fail"]
    PROVE  WorkerOK(y)' /\ y.task = x.task /\ y.run = x.run
<1>1. x \in Executing(x.seen)
  BY DEF WorkerOK, Executing, Pcs, Values
<1>2. y \in Executing(x.seen) /\ y.seen = x.seen /\ y.task = x.task /\ y.run = x.run /\ y.step = x.step
      /\ y.fenced = x.fenced /\ y.pc = "fail"
  BY <1>1 DEF Executing, Pcs
<1>3. UnderWay(y)'
  BY <1>2 DEF UnderWay
<1>4. Unfenced(y.task)' \/ y.fenced = 0
        \/ (y.fenced = 1 /\ StateOf(y)' # "running" /\ y.pc \in {"put", "wait", "fail"})
  BY <1>2 DEF WorkerOK, StateOf
<1> QED BY <1>2, <1>3, <1>4, SameMemory

\* The operation returns v.
LEMMA ReturnOK ==
    ASSUME world \in Worlds, UNCHANGED <<world, torn>>, NEW x, WorkerOK(x), Declined(x),
           x.step \in Positions(x.task),
           \A j \in Positions(x.task) \ {x.step} : checkpoint'[x.task][j] = checkpoint[x.task][j],
           NEW v \in Values,
           StateOf(x) = "running" /\ x.task \notin torn /\ Replayed(x.task, x.step) /\ v # TimedOut =>
             checkpoint'[x.task][x.step] # None /\ checkpoint'[x.task][x.step].val = v,
           NEW y, y \in Executing([x.seen EXCEPT ![x.step] = v]), y.step = x.step + 1, y.pc = "next",
           y.task = x.task, y.run = x.run, Unfenced(x.task) \/ y.fenced = 0
    PROVE  WorkerOK(y)'
<1>1. /\ x \in Executing(x.seen) /\ x.seen \in [Positions(x.task) -> Values \cup {None}]
      /\ x.task \in Tasks /\ x.step \in Nat \ {0}
      /\ StateOf(x) \in {"running", "failed", "cancelled"}
      /\ StateOf(x) = "running" /\ x.task \notin torn => Remembers(x)
  BY DEF WorkerOK, Executing
<1>2. y.seen = [x.seen EXCEPT ![x.step] = v]
  BY DEF Executing
<1>3. y.seen \in [Positions(x.task) -> Values \cup {None}]
  BY <1>1, <1>2
<1>4. Len(world.program[x.task]) \in Nat /\ Positions(x.task) \subseteq Nat \ {0}
  BY <1>1, PositionTypes
<1>5. y.step <= Len(world.program[x.task]) + 1
  BY <1>1, <1>4 DEF Positions
<1>6. UnderWay(y)'
  BY DEF UnderWay
<1>7. /\ StateOf(y)' \in {"running", "failed", "cancelled"}
      /\ StateOf(y)' = "running" => StateOf(x) = "running"
      /\ y.task \in torn => y.task \in torn'
  BY <1>1 DEF StateOf, Declined
<1>8. v # None
  BY DurableAssumption DEF Values
<1>9. ASSUME StateOf(x) = "running", x.task \notin torn PROVE Remembers(y)'
  <2> SUFFICES ASSUME NEW i \in Positions(x.task), Replayed(x.task, i)
               PROVE  /\ i < y.step => y.seen[i] # None
                      /\ y.seen[i] \notin {None, TimedOut} =>
                           checkpoint'[x.task][i] # None /\ checkpoint'[x.task][i].val = y.seen[i]
    BY DEF Remembers, Positions, Replayed, Op
  <2>1. CASE i = x.step
    BY <1>1, <1>2, <1>8, <1>9, <2>1
  <2>2. CASE i # x.step
    <3>1. y.seen[i] = x.seen[i] /\ checkpoint'[x.task][i] = checkpoint[x.task][i]
      BY <1>1, <1>2, <2>2
    <3>2. i < y.step => i < x.step
      BY <1>1, <1>4, <2>2
    <3> QED BY <1>1, <1>9, <3>1, <3>2 DEF Remembers
  <2> QED BY <2>1, <2>2
<1>10. Unfenced(y.task)' = Unfenced(x.task)
  BY DEF Unfenced, Positions, Op
<1>11. y \in Executing(y.seen)' /\ Positions(y.task)' = Positions(x.task)
  BY <1>2 DEF Executing, Positions, Pcs, Values
<1>12. y.seen \in [Positions(y.task)' -> Values \cup {None}]
  BY <1>3, <1>11
<1> QED BY <1>5, <1>6, <1>7, <1>9, <1>10, <1>11, <1>12 DEF WorkerOK, Values

\* A worker that is done with its run, or gave it up.
LEMMA LeaveStep ==
    ASSUME IInv, NEW w \in Workers, exec[w] # Idle, Leave(w),
           UNCHANGED <<world, torn, task, run, checkpoint, event, agent>>
    PROVE  IInv'
<1>1. PICK x : x = exec[w]
  OBVIOUS
<1>2. PICK y : y = Idle
  OBVIOUS
<1>3. Becomes(w, y)
  BY <1>2 DEF Leave, Becomes
<1>4. y = Idle \/ (WorkerOK(y)' /\ y.task = x.task /\ y.run = x.run)
  BY <1>2
<1>5. x # Idle
  BY <1>1
<1> QED BY <1>1, <1>3, <1>4, <1>5, OnlyWorker

\* A worker whose handler fails.
LEMMA FailsStep ==
    ASSUME IInv, NEW w \in Workers, exec[w] # Idle, Goto(w, "fail"),
           UNCHANGED <<world, torn, task, run, checkpoint, event, agent>>
    PROVE  IInv'
<1>1. PICK x : x = exec[w]
  OBVIOUS
<1>2. PICK y : y = [x EXCEPT !.pc = "fail"]
  OBVIOUS
<1>3. Becomes(w, y)
  BY <1>1, <1>2 DEF Goto, Becomes
<1>4. WorkerOK(x) /\ Declined(x)
  BY <1>1, WorkerTypes DEF Declined, StateOf
<1>5. WorkerOK(x)'
  BY <1>4, WorkerKept
<1>6. WorkerOK(y)' /\ y.task = x.task /\ y.run = x.run
  BY <1>2, <1>5, FailsOK
<1> QED BY <1>1, <1>3, <1>6, OnlyWorker

\* The run goes to sleep without a worker.
LEMMA SuspendStep ==
    ASSUME IInv, NEW w \in Workers, exec[w] # Idle, Holds(w), Leave(w),
           NEW d \in 0 .. Never, NEW wake \in Events \cup {None}, NEW wait \in Waits \cup {None},
           Suspend(exec[w].task, exec[w].run, d, wake, wait),
           RunOK(exec[w].task, [state |-> "sleeping", lease |-> Never, avail |-> d,
                                wake |-> wake, wait |-> wait]),
           UNCHANGED <<world, torn, checkpoint, event, agent>>
    PROVE  IInv'
<1>1. PICK x : x = exec[w]
  OBVIOUS
<1> DEFINE t == x.task  n == x.run
           row == [state |-> "sleeping", lease |-> Never, avail |-> d, wake |-> wake, wait |-> wait]
           k2 == [task[t] EXCEPT !.state = "sleeping"]
           rs2 == [run[t] EXCEPT ![n] = row]
<1>2. /\ t \in Tasks /\ n \in Runs /\ RowsOK(t, task[t], run[t]) /\ task[t] \in TaskRows
      /\ run[t] \in [Runs -> RunRows]
  BY <1>1, WorkerTypes
<1>3. run[t][n].state = "running"
  BY <1>1 DEF Holds, RunOf
<1>4. Rewrites(t, k2, rs2)
  BY <1>1, Zenon DEF Suspend, Rewrites
<1>5. row \in RunRows /\ row.state = "sleeping"
  BY NeverIs DEF RunRows, Live
<1>6. k2 \in TaskRows /\ k2.state = "sleeping" /\ k2.attempts = task[t].attempts /\ k2.max = task[t].max
  BY <1>2 DEF TaskRows, Live
<1>7. RunOK(t, row)
  BY <1>1
<1> HIDE DEF k2, row
<1>8. RowsOK(t, k2, rs2)
  BY <1>2, <1>3, <1>5, <1>6, <1>7, MoveRows DEF Live
<1>9. \A m \in Runs : m = n \/ rs2[m].state = run[t][m].state
  BY <1>2
<1>10. task[t].attempts <= k2.attempts
  BY <1>2, <1>6 DEF TaskRows
<1>11. PICK y : y = Idle
  OBVIOUS
<1>12. Becomes(w, y)
  BY <1>11 DEF Leave, Becomes
<1> HIDE DEF rs2
<1>13. y = Idle \/ (WorkerOK(y)' /\ y.task = x.task /\ y.run = x.run)
  BY <1>11
<1>14. PICK k, rs : k = k2 /\ rs = rs2
  OBVIOUS
<1>15. /\ RowsOK(t, k, rs) /\ task[t].attempts <= k.attempts
       /\ Rewrites(t, k, rs)
       /\ \A m \in Runs : \/ m = n
                          \/ rs[m].state = run[t][m].state
                          \/ rs[m].state = "cancelled"
                          \/ run[t][m].state \notin {"running", "failed", "cancelled"}
  BY <1>4, <1>8, <1>9, <1>10, <1>14
<1>16. x # Idle
  BY <1>1
<1> HIDE DEF t, n
<1> QED BY <1>1, <1>12, <1>13, <1>15, <1>16, OwnRow DEF t, n

\* A lease is extended.
Extends(w) == run' = [run EXCEPT ![exec[w].task][exec[w].run].lease = Lease]

\* Whoever works goes on.
LEMMA LeaseKeeps ==
    ASSUME IInv, NEW w \in Workers, NEW x, x = exec[w], x # Idle, Holds(w), Extends(w),
           UNCHANGED <<world, torn, task, event>>
    PROVE  /\ TablesOK(Tables)' /\ EventsOK' /\ Grows
           /\ \A v \in Workers : exec[v] # Idle => Declined(exec[v])
<1> DEFINE t == x.task  n == x.run  row == [RunOf(w) EXCEPT !.lease = Lease]
<1>1. /\ t \in Tasks /\ n \in Runs /\ RowsOK(t, task[t], run[t]) /\ task[t] \in TaskRows
      /\ run[t] \in [Runs -> RunRows]
  BY WorkerTypes
<1>2. RunOf(w) = run[t][n] /\ run[t][n].state = "running" /\ RunOK(t, run[t][n])
  BY <1>1 DEF Holds, RunOf, RowsOK
<1>3. row \in RunRows /\ row.state = "running" /\ row.wait = run[t][n].wait
  BY <1>1, <1>2, NeverIs DEF RunRows
<1>4. RunOK(t, row)
  BY <1>2, <1>3 DEF RunOK
<1>5. PICK rs : rs = [run[t] EXCEPT ![n] = row]
  OBVIOUS
<1>6. PICK k : k = task[t]
  OBVIOUS
<1>7. RowsOK(t, k, rs)
  BY <1>1, <1>2, <1>3, <1>4, <1>5, <1>6, TouchRows
<1>8. run' = [run EXCEPT ![t] = rs]
  BY <1>2, <1>5 DEF Extends
<1>9. Rewrites(t, k, rs) /\ task[t].attempts <= k.attempts
  <2>1. task \in [Tasks -> TaskRows] /\ task[t].attempts \in Nat
    BY <1>1 DEF IInv, TablesOK, Tables, TaskRows
  <2>2. task' = [task EXCEPT ![t] = k]
    BY <1>6, <2>1
  <2>3. task[t].attempts <= k.attempts
    BY <1>6, <2>1
  <2> QED BY <1>8, <2>2, <2>3 DEF Rewrites
<1>10. PICK M : M = {}
  OBVIOUS
<1>11. \A m \in Runs : \/ m \in M
                       \/ rs[m].state = run[t][m].state
                       \/ rs[m].state = "cancelled"
                       \/ run[t][m].state \notin {"running", "failed", "cancelled"}
  BY <1>1, <1>2, <1>3, <1>5
<1>13. UNCHANGED <<world, torn, event>>
  OBVIOUS
<1> HIDE DEF t, n, row
<1>12. /\ TablesOK(Tables)' /\ EventsOK' /\ Grows
       /\ \A v \in Workers : exec[v] # Idle /\ ~(exec[v].task = t /\ exec[v].run \in M) => Declined(exec[v])
  BY <1>1, <1>7, <1>9, <1>11, <1>13, OneTaskStep
<1> QED BY <1>10, <1>12

LEMMA DeferStep == ASSUME IInv, NEW w \in Workers, Defer(w) PROVE IInv'
<1>1. exec[w] # Idle /\ UNCHANGED <<world, torn, checkpoint, event, agent>>
  BY DEF Defer, At
<1>2. CASE Holds(w)
  <2> DEFINE t == exec[w].task  n == exec[w].run
  <2>1. Suspend(t, n, 1, None, RunOf(w).wait) /\ Leave(w)
    BY <1>2 DEF Defer
  <2>2. RunOf(w).wait = None
    BY <1>1, <1>2, WorkerTypes DEF RowsOK, RunOK, Holds, RunOf
  <2>3. RunOK(t, [state |-> "sleeping", lease |-> Never, avail |-> 1, wake |-> None, wait |-> None])
    BY BareRow
  <2> QED BY <1>1, <1>2, <2>1, <2>2, <2>3, NeverIs, SuspendStep
<1>3. CASE ~Holds(w)
  BY <1>1, <1>3, FailsStep DEF Defer
<1> QED BY <1>2, <1>3

LEMMA LoadCheckpointsStep == ASSUME IInv, NEW w \in Workers, LoadCheckpoints(w) PROVE IInv'
<1>1. PICK x : x = exec[w]
  OBVIOUS
<1>2. x # Idle /\ x.pc = "load" /\ UNCHANGED <<world, torn, task, run, checkpoint, event, agent>>
  BY <1>1 DEF LoadCheckpoints, At
<1> DEFINE t == x.task
           seen == [i \in Positions(t) |->
                      IF /\ checkpoint[t][i] # None /\ checkpoint[t][i].owner <= x.run
                         /\ Op(t, i).kind # "sleep"
                      THEN checkpoint[t][i].val ELSE None]
<1>3. PICK y : y = [x EXCEPT !.pc = "start", !.seen = seen]
  OBVIOUS
<1>4. Becomes(w, y)
  BY <1>1, <1>3 DEF LoadCheckpoints, Becomes
<1>5. /\ WorkerOK(x) /\ x \in Executing(x.seen) /\ x.step = 1
      /\ checkpoint[t] \in [Positions(t) -> Checkpoints \cup {None}]
  BY <1>1, <1>2, WorkerTypes DEF UnderWay
<1>6. y \in Executing(y.seen) /\ y.seen = seen /\ y.task = t /\ y.run = x.run /\ y.step = x.step
      /\ y.fenced = x.fenced /\ y.pc = "start"
  BY <1>3, <1>5 DEF Executing, Pcs
<1>7. seen \in [Positions(t) -> Values \cup {None}]
  BY <1>5 DEF Checkpoints
<1>8. UnderWay(y)
  BY <1>6 DEF UnderWay
<1>9. Remembers(y)
  <2>1. \A i \in Positions(t) : i \in Nat \ {0}
    BY <1>1, <1>2, WorkerTypes, PositionTypes DEF IInv
  <2> QED BY <1>5, <1>6, <2>1 DEF Remembers
<1> HIDE DEF seen
<1>10. WorkerOK(y)
  BY <1>2, <1>5, <1>6, <1>7, <1>8, <1>9 DEF WorkerOK, StateOf
<1>11. Declined(y)
  BY <1>2 DEF Declined, StateOf
<1>12. WorkerOK(y)'
  BY <1>2, <1>10, <1>11, WorkerKept
<1> QED BY <1>1, <1>2, <1>4, <1>6, <1>12, OnlyWorker

LEMMA StartStep == ASSUME IInv, NEW w \in Workers, Start(w) PROVE IInv'
<1>1. PICK x : x = exec[w]
  OBVIOUS
<1>2. x # Idle /\ x.pc = "start" /\ UNCHANGED <<world, torn, task, checkpoint, event, agent>>
  BY <1>1 DEF Start, At
<1>3. CASE Holds(w)
  <2>1. PICK y : y = [x EXCEPT !.pc = "next"]
    OBVIOUS
  <2>2. /\ Becomes(w, y)
        /\ run' = [run EXCEPT ![exec[w].task][exec[w].run].lease = Lease]
    BY <1>1, <1>3, <2>1 DEF Start, Goto, Becomes
  <2>3. WorkerOK(x) /\ x \in Executing(x.seen)
    BY <1>1, <1>2, WorkerTypes
  <2>4. y \in Executing(x.seen) /\ y.seen = x.seen /\ y.task = x.task /\ y.run = x.run /\ y.step = x.step
        /\ y.fenced = x.fenced /\ y.pc = "next"
    BY <2>1, <2>3 DEF Executing, Pcs
  <2>5. TablesOK(Tables)' /\ EventsOK' /\ Grows /\ \A v \in Workers : exec[v] # Idle => Declined(exec[v])
    BY <1>1, <1>2, <1>3, <2>2, LeaseKeeps DEF Extends
  <2>6. WorkerOK(x)'
    BY <1>1, <1>2, <2>3, <2>5, WorkerKept
  <2>7. UnderWay(y)'
    BY <2>4 DEF UnderWay
  <2>8. Unfenced(y.task)' \/ y.fenced = 0
    BY <1>2, <2>4, <2>6 DEF WorkerOK
  <2>9. WorkerOK(y)'
    BY <2>4, <2>6, <2>7, <2>8, SameMemory
  <2>10. \A v \in Workers \ {w} : exec[v] # Idle => ~(exec[v].task = x.task /\ exec[v].run = x.run)
    BY <1>1, <1>2, WorkerTypes
  <2> QED BY <1>2, <2>2, <2>4, <2>5, <2>9, <2>10, StepKeeps
<1>4. CASE ~Holds(w)
  BY <1>1, <1>2, <1>4, FailsStep DEF Start
<1> QED BY <1>3, <1>4

LEMMA HeartbeatStep == ASSUME IInv, NEW w \in Workers, Heartbeat(w) PROVE IInv'
<1>1. PICK x : x = exec[w]
  OBVIOUS
<1>2. /\ x # Idle /\ Holds(w) /\ UNCHANGED <<world, torn, task, checkpoint, event, agent, exec>>
      /\ run' = [run EXCEPT ![exec[w].task][exec[w].run].lease = Lease]
  BY <1>1 DEF Heartbeat
<1>3. TablesOK(Tables)' /\ EventsOK' /\ Grows /\ \A v \in Workers : exec[v] # Idle => Declined(exec[v])
  BY <1>1, <1>2, LeaseKeeps DEF Extends
<1> QED BY <1>2, <1>3, StayKeeps

\* The same, of a step Return(w, v).
LEMMA Returns ==
    ASSUME IInv, UNCHANGED <<world, torn>>, NEW w \in Workers, NEW x, x = exec[w], x # Idle, Declined(x),
           x.step \in Positions(x.task),
           \A j \in Positions(x.task) \ {x.step} : checkpoint'[x.task][j] = checkpoint[x.task][j],
           Unfenced(x.task) \/ x.fenced = 0,
           NEW v \in Values,
           StateOf(x) = "running" /\ x.task \notin torn /\ Replayed(x.task, x.step) /\ v # TimedOut =>
             checkpoint'[x.task][x.step] # None /\ checkpoint'[x.task][x.step].val = v,
           Return(w, v)
    PROVE  \E y : Becomes(w, y) /\ WorkerOK(y)' /\ y.task = x.task /\ y.run = x.run
<1>9. PICK y : y = [x EXCEPT !.pc = "next", !.step = @ + 1, !.seen[x.step] = v]
  OBVIOUS
<1>1. Becomes(w, y)
  BY <1>9 DEF Becomes, Return
<1>2. /\ WorkerOK(x) /\ x \in Executing(x.seen) /\ x.step \in Nat \ {0}
      /\ x.seen \in [Positions(x.task) -> Values \cup {None}]
  BY WorkerTypes
<1> DEFINE seen == [x.seen EXCEPT ![x.step] = v]
<1>0. PICK s \in Nat \ {0} : s = x.step + 1
  BY <1>2
<1>3. y = [x EXCEPT !.pc = "next", !.step = s, !.seen = seen]
  BY <1>0, <1>2, <1>9 DEF Executing
<1> HIDE DEF seen
<1>6. y \in Executing(seen) /\ y.step = s /\ y.pc = "next"
      /\ y.task = x.task /\ y.run = x.run /\ y.fenced = x.fenced
  BY <1>2, <1>3 DEF Executing, Pcs
<1>4. y \in Executing(seen) /\ y.step = x.step + 1 /\ y.pc = "next"
      /\ y.task = x.task /\ y.run = x.run /\ y.fenced = x.fenced
  BY <1>0, <1>6
<1>5. y \in Executing([x.seen EXCEPT ![x.step] = v])
  BY <1>4 DEF seen
<1>7. world \in Worlds
  BY DEF IInv
<1>10. Unfenced(x.task) \/ y.fenced = 0
  BY <1>4
<1>8. WorkerOK(y)'
  BY <1>2, <1>4, <1>5, <1>7, <1>10, ReturnOK
<1> QED BY <1>1, <1>4, <1>8

LEMMA BeginStepStep == ASSUME IInv, NEW w \in Workers, BeginStep(w) PROVE IInv'
<1>1. PICK x : x = exec[w]
  OBVIOUS
<1> DEFINE t == x.task  i == x.step  cached == x.seen[i]  saved == checkpoint[t][i]
<1>2. PICK known : known = IF cached # None THEN cached ELSE IF saved # None THEN saved.val ELSE None
  OBVIOUS
<1>3. PICK y : y = [x EXCEPT !.requests = @ + 1, !.pc = IF known # None THEN "next" ELSE "effect",
                             !.step = IF known # None THEN @ + 1 ELSE @, !.seen[i] = known]
  OBVIOUS
<1>4. /\ x # Idle /\ x.pc = "next" /\ i \in Positions(t) /\ Op(t, i).kind \in {"step", "turn"}
      /\ UNCHANGED <<world, torn, task, run, checkpoint, event, agent>>
  BY <1>1 DEF BeginStep, AtOp, At, Here
<1>5. Becomes(w, y)
  BY <1>1, <1>2, <1>3, Zenon DEF BeginStep, Becomes, Saved
<1>6. /\ WorkerOK(x) /\ x \in Executing(x.seen) /\ x.step \in Nat \ {0} /\ x.requests \in Nat
      /\ x.seen \in [Positions(t) -> Values \cup {None}]
      /\ checkpoint[t] \in [Positions(t) -> Checkpoints \cup {None}]
  BY <1>1, <1>4, WorkerTypes
<1>7. Unfenced(t) \/ x.fenced = 0
  BY <1>4, <1>6 DEF WorkerOK
<1>8. Declined(x)
  BY <1>4 DEF Declined, StateOf
<1>9. WorkerOK(x)'
  BY <1>4, <1>6, <1>8, WorkerKept
<1> DEFINE seen == [x.seen EXCEPT ![i] = known]
<1>10. known # None => known \in Values
  BY <1>2, <1>4, <1>6 DEF Checkpoints
<1>11. CASE known # None
  <2>0. PICK s \in Nat \ {0}, r \in Nat : s = x.step + 1 /\ r = x.requests + 1
    BY <1>6
  <2>1. y = [x EXCEPT !.requests = r, !.pc = "next", !.step = s, !.seen = seen]
    BY <1>3, <1>6, <1>11, <2>0 DEF Executing
  <2> HIDE DEF seen
  <2>7. y \in Executing(seen) /\ y.step = s /\ y.pc = "next"
        /\ y.task = x.task /\ y.run = x.run /\ y.fenced = x.fenced
    BY <1>6, <2>1 DEF Executing, Pcs
  <2>2. y \in Executing(seen) /\ y.step = x.step + 1 /\ y.pc = "next"
        /\ y.task = x.task /\ y.run = x.run /\ y.fenced = x.fenced
    BY <2>0, <2>7
  <2>3. y \in Executing([x.seen EXCEPT ![i] = known])
    BY <2>2 DEF seen
  <2>4. StateOf(x) = "running" /\ x.task \notin torn /\ Replayed(t, i) /\ known # TimedOut =>
          checkpoint'[t][i] # None /\ checkpoint'[t][i].val = known
    BY <1>2, <1>4, <1>6, <1>11 DEF WorkerOK, Remembers
  <2>5. \A j \in Positions(t) \ {i} : checkpoint'[t][j] = checkpoint[t][j]
    BY <1>4
  <2>8. Unfenced(t) \/ y.fenced = 0
    BY <1>7, <2>2
  <2>6. WorkerOK(y)'
    BY <1>4, <1>6, <1>8, <1>10, <1>11, <2>2, <2>3, <2>4, <2>5, <2>8, ReturnOK DEF IInv
  <2> QED BY <1>1, <1>4, <1>5, <2>2, <2>6, OnlyWorker
<1>12. CASE known = None
  <2>1. seen = x.seen
    BY <1>2, <1>4, <1>6, <1>12
  <2>0. PICK r \in Nat : r = x.requests + 1
    BY <1>6
  <2>2. y = [x EXCEPT !.requests = r, !.pc = "effect"]
    BY <1>3, <1>6, <1>12, <2>0, <2>1 DEF Executing
  <2>3. /\ y \in Executing(x.seen) /\ y.seen = x.seen /\ y.task = t /\ y.run = x.run /\ y.step = i
        /\ y.fenced = x.fenced /\ y.pc = "effect"
    BY <1>6, <2>2 DEF Executing, Pcs
  <2>4. UnderWay(y)'
    BY <1>4, <2>3 DEF UnderWay, Positions, Op
  <2>5. Unfenced(y.task)' \/ y.fenced = 0
    BY <1>4, <1>7, <2>3 DEF Unfenced, Positions, Op
  <2>6. WorkerOK(y)'
    BY <1>9, <2>3, <2>4, <2>5, SameMemory
  <2> QED BY <1>1, <1>4, <1>5, <2>3, <2>6, OnlyWorker
<1> QED BY <1>11, <1>12

LEMMA EffectStep == ASSUME IInv, NEW w \in Workers, Effect(w) PROVE IInv'
<1>1. PICK x : x = exec[w]
  OBVIOUS
<1>2. /\ x # Idle /\ x.pc = "effect" /\ Op(x.task, x.step).kind = "step"
      /\ UNCHANGED <<world, torn, task, run, checkpoint, event, agent>>
  BY <1>1 DEF Effect, At, Here
<1>3. CASE Goto(w, "fail")
  BY <1>1, <1>2, <1>3, FailsStep
<1>4. CASE ~Goto(w, "fail")
  <2>1. PICK f : f = Outside(w)
    OBVIOUS
  <2>2. PICK y : y = [x EXCEPT !.pc = "put", !.value = x.run, !.fenced = f]
    OBVIOUS
  <2>3. Becomes(w, y)
    BY <1>1, <1>4, <2>1, <2>2, Zenon DEF Effect, Becomes
  <2>4. WorkerOK(x) /\ x \in Executing(x.seen) /\ UnderWay(x) /\ x.run \in Runs /\ x.fenced \in Nat
        /\ StateOf(x) \in {"running", "failed", "cancelled"}
    BY <1>1, <1>2, WorkerTypes
  <2>5. /\ Unfenced(x.task) \/ x.fenced = 0
        /\ f = x.fenced + (IF StateOf(x) = "running" THEN 0 ELSE 1)
    BY <1>1, <1>2, <2>1, <2>4 DEF WorkerOK, Outside, Holds, RunOf, StateOf
  <2>6. f \in Nat /\ x.run \in Values /\ x.run # None
    <3>1. x.run \in Nat
      BY <2>4, RunsAre
    <3>2. x.run \in Values /\ x.run # None
      BY <3>1, DurableAssumption DEF Values
    <3> QED BY <2>4, <2>5, <3>2
  <2>7. /\ y \in Executing(x.seen) /\ y.seen = x.seen /\ y.task = x.task /\ y.run = x.run
        /\ y.step = x.step /\ y.fenced = f /\ y.pc = "put" /\ y.value = x.run
    BY <2>2, <2>4, <2>6 DEF Executing, Pcs
  <2>8. UnderWay(y)'
    BY <1>2, <2>4, <2>6, <2>7 DEF UnderWay, Positions, Op, Made
  <2>9. WorkerOK(x)' /\ StateOf(x)' = StateOf(x) /\ Unfenced(x.task)' = Unfenced(x.task)
    BY <1>2, <2>4, WorkerKept DEF Declined, StateOf, Unfenced, Positions, Op
  <2>10. Unfenced(y.task)' \/ y.fenced = 0 \/ (y.fenced = 1 /\ StateOf(y)' # "running" /\ y.pc \in {"put", "wait", "fail"})
    BY <2>5, <2>7, <2>9 DEF StateOf
  <2>11. WorkerOK(y)'
    BY <2>7, <2>8, <2>9, <2>10, SameMemory
  <2> QED BY <1>1, <1>2, <2>3, <2>7, <2>11, OnlyWorker
<1> QED BY <1>3, <1>4

LEMMA CheckOwnerStep == ASSUME IInv, NEW w \in Workers, CheckOwner(w) PROVE IInv'
<1>1. PICK x : x = exec[w]
  OBVIOUS
<1>2. x # Idle /\ x.pc = "put" /\ UNCHANGED <<world, torn, task, run, checkpoint, event, agent>>
  BY <1>1 DEF CheckOwner, At
<1>3. CASE TakenAway(w)
  BY <1>1, <1>2, <1>3, LeaveStep DEF CheckOwner
<1>4. CASE ~TakenAway(w)
  <2>1. PICK y : y = [x EXCEPT !.pc = "write", !.requests = x.requests + 1]
    OBVIOUS
  <2>2. Becomes(w, y)
    BY <1>1, <1>4, <2>1, Zenon DEF CheckOwner, Becomes
  <2>3. WorkerOK(x) /\ x \in Executing(x.seen) /\ UnderWay(x) /\ x.run \in Runs /\ x.requests \in Nat
        /\ StateOf(x) \in {"running", "failed", "cancelled"} /\ RowsOK(x.task, task[x.task], run[x.task])
    BY <1>1, <1>2, WorkerTypes
  <2>4. StateOf(x) = "running"
    BY <1>1, <1>4, <2>3 DEF TakenAway, TaskOf, RunOf, StateOf, RowsOK
  <2>5. Unfenced(x.task) \/ x.fenced = 0
    BY <2>3, <2>4 DEF WorkerOK
  <2>0. PICK r \in Nat : r = x.requests + 1
    BY <2>3
  <2>6. /\ y \in Executing(x.seen) /\ y.seen = x.seen /\ y.task = x.task /\ y.run = x.run
        /\ y.step = x.step /\ y.fenced = x.fenced /\ y.pc = "write" /\ y.value = x.value
    <3>1. y = [x EXCEPT !.pc = "write", !.requests = r]
      BY <2>0, <2>1
    <3> QED BY <2>3, <3>1 DEF Executing, Pcs
  <2>7. WorkerOK(x)' /\ UnderWay(x)' /\ Unfenced(x.task)' = Unfenced(x.task)
    BY <1>2, <2>3, WorkerKept DEF Declined, StateOf, Unfenced, Positions, Op, WorkerOK
  <2>11. StateOf(y)' = "running"
    BY <1>2, <2>4, <2>6 DEF StateOf
  <2>8. UnderWay(y)'
    BY <1>2, <2>6, <2>7, <2>11 DEF UnderWay
  <2>9. Unfenced(y.task)' \/ y.fenced = 0
    BY <2>5, <2>6, <2>7
  <2>10. WorkerOK(y)'
    BY <2>6, <2>7, <2>8, <2>9, SameMemory
  <2> QED BY <1>1, <1>2, <2>2, <2>6, <2>10, OnlyWorker
<1> QED BY <1>3, <1>4

\* A worker at an operation of the handler has done nothing in the world
\* outside since its run was taken away.
LEMMA NextUnfenced ==
    ASSUME NEW x, WorkerOK(x), x.pc \notin {"put", "wait", "fail"}
    PROVE  Unfenced(x.task) \/ x.fenced = 0
  BY DEF WorkerOK

\* An operation returns what is known already.
LEMMA ReturnStep ==
    ASSUME IInv, NEW w \in Workers, exec[w] # Idle, exec[w].pc \in {"next", "write"},
           exec[w].step \in Positions(exec[w].task),
           NEW v \in Values, Return(w, v),
           Holds(w) /\ exec[w].task \notin torn /\ Replayed(exec[w].task, exec[w].step) /\ v # TimedOut =>
             Saved(w) # None /\ Saved(w).val = v,
           UNCHANGED <<world, torn, task, run, checkpoint, event, agent>>
    PROVE  IInv'
<1>1. PICK x : x = exec[w]
  OBVIOUS
<1>2. x # Idle /\ x.pc \in {"next", "write"} /\ x.step \in Positions(x.task)
  BY <1>1
<1>3. WorkerOK(x) /\ Declined(x)
  BY <1>1, <1>2, WorkerTypes DEF Declined, StateOf
<1>4. StateOf(x) = "running" /\ x.task \notin torn /\ Replayed(x.task, x.step) /\ v # TimedOut =>
        checkpoint'[x.task][x.step] # None /\ checkpoint'[x.task][x.step].val = v
  BY <1>1 DEF Holds, RunOf, StateOf, Saved
<1>5. \A j \in Positions(x.task) \ {x.step} : checkpoint'[x.task][j] = checkpoint[x.task][j]
  OBVIOUS
<1>6. Unfenced(x.task) \/ x.fenced = 0
  BY <1>2, <1>3, NextUnfenced
<1>7. PICK y : Becomes(w, y) /\ WorkerOK(y)' /\ y.task = x.task /\ y.run = x.run
  BY <1>1, <1>2, <1>3, <1>4, <1>5, <1>6, Returns
<1> QED BY <1>1, <1>2, <1>7, OnlyWorker

LEMMA SleepUntilStep == ASSUME IInv, NEW w \in Workers, SleepUntil(w) PROVE IInv'
<1>1. PICK x : x = exec[w]
  OBVIOUS
<1>2. /\ x # Idle /\ x.pc = "next" /\ x.step \in Positions(x.task) /\ Op(x.task, x.step).kind = "sleep"
      /\ UNCHANGED <<world, torn, checkpoint, event, agent>>
  BY <1>1 DEF SleepUntil, AtOp, At, Here
<1>3. /\ WorkerOK(x) /\ UnderWay(x) /\ x \in Executing(x.seen) /\ x.task \in Tasks /\ x.run \in Runs
  BY <1>1, <1>2, WorkerTypes
<1>4. CASE Saved(w) = None
  <2>1. PICK y : y = [x EXCEPT !.pc = "put", !.value = 1]
    OBVIOUS
  <2>2. Becomes(w, y) /\ UNCHANGED <<task, run>>
    BY <1>1, <1>4, <2>1, Zenon DEF SleepUntil, Becomes
  <2>3. 1 \in Values /\ 1 # None
    BY DurableAssumption DEF Values
  <2>4. /\ y \in Executing(x.seen) /\ y.seen = x.seen /\ y.task = x.task /\ y.run = x.run
        /\ y.step = x.step /\ y.fenced = x.fenced /\ y.pc = "put" /\ y.value = 1
    BY <1>3, <2>1, <2>3 DEF Executing, Pcs
  <2>5. WorkerOK(x)' /\ Unfenced(x.task)' = Unfenced(x.task)
    BY <1>2, <1>3, <2>2, WorkerKept DEF Declined, StateOf, Unfenced, Positions, Op
  <2>6. UnderWay(y)'
    BY <1>2, <1>3, <2>3, <2>4 DEF UnderWay, Positions, Op, Made
  <2>7. Unfenced(y.task)' \/ y.fenced = 0
    BY <1>2, <1>3, <2>4, <2>5, NextUnfenced
  <2>8. WorkerOK(y)'
    BY <2>4, <2>5, <2>6, <2>7, SameMemory
  <2> QED BY <1>1, <1>2, <2>2, <2>4, <2>8, OnlyWorker
<1>5. CASE Saved(w) # None /\ Saved(w).val = 0
  <2>1. Return(w, 0) /\ UNCHANGED <<task, run>>
    BY <1>5 DEF SleepUntil
  <2>2. 0 \in Values /\ ~Replayed(x.task, x.step)
    BY <1>2 DEF Values, Replayed
  <2> QED BY <1>1, <1>2, <2>1, <2>2, ReturnStep
<1>6. CASE Saved(w) # None /\ Saved(w).val # 0
  <2>1. Saved(w).val = 1
    BY <1>1, <1>2, <1>3, <1>6 DEF IInv, CheckpointsOK, Made, Saved
  <2>2. CASE Holds(w)
    <3>1. Suspend(exec[w].task, exec[w].run, 1, None, RunOf(w).wait) /\ Leave(w)
      BY <1>6, <2>1, <2>2 DEF SleepUntil
    <3>2. RunOf(w).wait = None
      BY <1>1, <1>2, <2>2, WorkerTypes DEF RowsOK, RunOK, Holds, RunOf
    <3>3. RunOK(exec[w].task, [state |-> "sleeping", lease |-> Never, avail |-> 1, wake |-> None, wait |-> None])
      BY BareRow
    <3> QED BY <1>1, <1>2, <2>2, <3>1, <3>2, <3>3, NeverIs, SuspendStep
  <2>3. CASE ~Holds(w)
    <3>1. Goto(w, "fail") /\ UNCHANGED <<task, run>>
      BY <1>6, <2>1, <2>3 DEF SleepUntil
    <3> QED BY <1>1, <1>2, <3>1, FailsStep
  <2> QED BY <2>2, <2>3
<1> QED BY <1>4, <1>5, <1>6

LEMMA CompleteStep == ASSUME IInv, NEW w \in Workers, Complete(w) PROVE IInv'
<1>1. PICK x : x = exec[w]
  OBVIOUS
<1>2. x # Idle /\ Leave(w) /\ UNCHANGED <<world, torn, checkpoint, event, agent>>
  BY <1>1 DEF Complete, At
<1>3. CASE ~Holds(w)
  BY <1>1, <1>2, <1>3, LeaveStep DEF Complete
<1>4. CASE Holds(w)
  <2> DEFINE t == x.task  n == x.run
             row == [NoRun EXCEPT !.state = "completed"]
             k2 == [task[t] EXCEPT !.state = "completed", !.last = n]
             rs2 == [run[t] EXCEPT ![n] = row]
  <2>1. /\ t \in Tasks /\ n \in Runs /\ RowsOK(t, task[t], run[t]) /\ task[t] \in TaskRows
        /\ run[t] \in [Runs -> RunRows] /\ run[t][n].state = "running"
    BY <1>1, <1>2, <1>4, WorkerTypes DEF Holds, RunOf
  <2>2. Rewrites(t, k2, rs2)
    BY <1>1, <1>4, Zenon DEF Complete, Store, Rewrites
  <2>3. row \in RunRows /\ row.state = "completed" /\ RunOK(t, row)
    BY NewRows, BareRow, ZenonT(40) DEF Terminal
  <2>4. k2 \in TaskRows /\ k2.state = "completed" /\ k2.attempts = task[t].attempts /\ k2.max = task[t].max
    <3>1. n \in 0 .. MaxRuns /\ task[t] \in TaskRows
      BY <2>1, RunsAre DEF Runs
    <3> HIDE DEF t, n
    <3> QED BY <3>1 DEF TaskRows, Terminal
  <2> HIDE DEF row, k2
  <2>5. RowsOK(t, k2, rs2)
    BY <2>1, <2>3, <2>4, MoveRows DEF Live
  <2>6. \A m \in Runs : m # n => rs2[m] = run[t][m]
    BY <2>1
  <2>7. task[t].attempts <= k2.attempts
    BY <2>1, <2>4 DEF TaskRows
  <2> HIDE DEF rs2
  <2>8. PICK k, rs : k = k2 /\ rs = rs2
    OBVIOUS
  <2>9. PICK y : y = Idle
    OBVIOUS
  <2>10. Becomes(w, y) /\ (y = Idle \/ (WorkerOK(y)' /\ y.task = x.task /\ y.run = x.run))
    BY <1>2, <2>9 DEF Leave, Becomes
  <2>11. /\ RowsOK(t, k, rs) /\ task[t].attempts <= k.attempts /\ Rewrites(t, k, rs)
         /\ \A m \in Runs : \/ m = n
                            \/ rs[m].state = run[t][m].state
                            \/ rs[m].state = "cancelled"
                            \/ run[t][m].state \notin {"running", "failed", "cancelled"}
    BY <2>2, <2>5, <2>6, <2>7, <2>8
  <2> HIDE DEF t, n
  <2> QED BY <1>1, <1>2, <2>10, <2>11, OwnRow DEF t, n
<1> QED BY <1>3, <1>4

LEMMA FailStep == ASSUME IInv, NEW w \in Workers, Fail(w) PROVE IInv'
<1>1. PICK x : x = exec[w]
  OBVIOUS
<1>2. x # Idle /\ Leave(w) /\ UNCHANGED <<world, torn, checkpoint, event, agent>>
  BY <1>1 DEF Fail, At
<1>3. CASE RunOf(w).state \notin {"running", "sleeping"}
  BY <1>1, <1>2, <1>3, LeaveStep DEF Fail
<1>4. CASE RunOf(w).state \in {"running", "sleeping"}
  <2> DEFINE t == x.task  n == x.run  new == FailRun(Tables, t, n)
  <2>1. t \in Tasks /\ n \in Runs /\ run[t][n].state \in {"running", "sleeping"}
    BY <1>1, <1>2, <1>4, WorkerTypes DEF RunOf
  <2>2. task' = new.task /\ run' = new.run
    BY <1>1, <1>4 DEF Fail, Store
  <2>3. /\ RowsOK(t, new.task[t], new.run[t])
        /\ new.task = [task EXCEPT ![t] = new.task[t]]
        /\ new.run = [run EXCEPT ![t] = new.run[t]]
        /\ task[t].attempts <= new.task[t].attempts
        /\ \A m \in Runs : \/ new.run[t][m] = run[t][m]
                           \/ m = n /\ new.run[t][m].state = "failed"
                           \/ run[t][m].state = "none"
    BY <2>1, FailRows DEF IInv, Tables
  <2> HIDE DEF new
  <2>8. PICK k, rs : k = new.task[t] /\ rs = new.run[t]
    OBVIOUS
  <2>9. PICK y : y = Idle
    OBVIOUS
  <2>10. Becomes(w, y) /\ (y = Idle \/ (WorkerOK(y)' /\ y.task = x.task /\ y.run = x.run))
    BY <1>2, <2>9 DEF Leave, Becomes
  <2>11. /\ RowsOK(t, k, rs) /\ task[t].attempts <= k.attempts /\ Rewrites(t, k, rs)
         /\ \A m \in Runs : \/ m = n
                            \/ rs[m].state = run[t][m].state
                            \/ rs[m].state = "cancelled"
                            \/ run[t][m].state \notin {"running", "failed", "cancelled"}
    BY <2>2, <2>3, <2>8 DEF Rewrites
  <2> HIDE DEF t, n
  <2> QED BY <1>1, <1>2, <2>10, <2>11, OwnRow DEF t, n
<1> QED BY <1>3, <1>4

LEMMA CrashStep == ASSUME IInv, NEW w \in Workers, Crash(w) PROVE IInv'
  BY LeaveStep DEF Crash

\* The call returns, and nothing is kept of it.
LEMMA CallToolStep == ASSUME IInv, NEW w \in Workers, CallTool(w) PROVE IInv'
<1>1. PICK x : x = exec[w]
  OBVIOUS
<1>2. /\ x # Idle /\ x.pc = "next" /\ x.step \in Positions(x.task) /\ Op(x.task, x.step).kind = "tool"
      /\ UNCHANGED <<world, torn, task, run, checkpoint, event, agent>>
  BY <1>1 DEF CallTool, AtOp, At, Here
<1>3. CASE Goto(w, "fail")
  BY <1>1, <1>2, <1>3, FailsStep
<1>4. CASE ~Goto(w, "fail")
  <2>1. PICK f : f = Outside(w)
    OBVIOUS
  <2>2. PICK y : y = [x EXCEPT !.pc = "next", !.step = @ + 1, !.seen[x.step] = x.run,
                               !.requests = @ + 1, !.fenced = f]
    OBVIOUS
  <2>3. Becomes(w, y)
    BY <1>1, <1>4, <2>1, <2>2, Zenon DEF CallTool, Becomes
  <2>4. /\ WorkerOK(x) /\ x \in Executing(x.seen) /\ x.step \in Nat \ {0} /\ x.requests \in Nat
        /\ x.fenced \in Nat /\ x.run \in Runs /\ x.seen \in [Positions(x.task) -> Values \cup {None}]
        /\ StateOf(x) \in {"running", "failed", "cancelled"}
    BY <1>1, <1>2, WorkerTypes
  <2>5. f \in Nat
    BY <1>1, <2>1, <2>4 DEF Outside
  <2>6. PICK v \in Values : v = x.run
    BY <2>4, RunsAre DEF Values
  <2> DEFINE seen == [x.seen EXCEPT ![x.step] = v]
  <2>7. PICK s \in Nat \ {0}, r \in Nat : s = x.step + 1 /\ r = x.requests + 1
    BY <2>4
  <2>8. y = [x EXCEPT !.pc = "next", !.step = s, !.seen = seen, !.requests = r, !.fenced = f]
    BY <2>2, <2>4, <2>6, <2>7 DEF Executing
  <2> HIDE DEF seen
  <2>9. y \in Executing(seen) /\ y.step = s /\ y.pc = "next" /\ y.task = x.task /\ y.run = x.run
    BY <2>4, <2>5, <2>7, <2>8 DEF Executing, Pcs
  <2>10. y \in Executing([x.seen EXCEPT ![x.step] = v]) /\ y.step = x.step + 1
    BY <2>7, <2>9 DEF seen
  <2>11. Unfenced(x.task) /\ ~Replayed(x.task, x.step)
    BY <1>2 DEF Unfenced, Replayed
  <2>12. Declined(x) /\ \A j \in Positions(x.task) \ {x.step} : checkpoint'[x.task][j] = checkpoint[x.task][j]
    BY <1>2 DEF Declined, StateOf
  <2>13. WorkerOK(y)'
    BY <1>2, <2>4, <2>9, <2>10, <2>11, <2>12, ReturnOK DEF IInv
  <2> QED BY <1>1, <1>2, <2>3, <2>9, <2>13, OnlyWorker
<1> QED BY <1>3, <1>4

LEMMA AgentAnswersStep == ASSUME IInv, NEW w \in Workers, AgentAnswers(w) PROVE IInv'
<1>1. PICK x : x = exec[w]
  OBVIOUS
<1>2. x # Idle /\ x.pc = "wait" /\ UNCHANGED <<world, torn, task, run, checkpoint, event, agent>>
  BY <1>1 DEF AgentAnswers, At
<1>3. /\ WorkerOK(x) /\ UnderWay(x) /\ x \in Executing(x.seen) /\ x.task \in Tasks
      /\ x.step \in Positions(x.task) /\ Op(x.task, x.step).kind \in {"agent", "turn"}
      /\ Op(x.task, x.step).kind = "turn" => x.key = 0
  BY <1>1, <1>2, WorkerTypes DEF UnderWay
<1>4. PICK a \in agent[x.task] :
         /\ a.key = x.key
         /\ CASE a.status = "failed"                   -> Goto(w, "fail")
              [] Op(x.task, x.step).kind = "agent"  -> Return(w, a.call)
              [] OTHER -> exec' = [exec EXCEPT ![w] = [exec[w] EXCEPT !.pc = "put", !.value = a.call]]
  BY <1>1 DEF AgentAnswers, Here
<1>5. a.call \in Nat
  BY <1>3 DEF IInv, AgentsOK
<1>6. a.call \in Values /\ a.call # None
  BY <1>5, DurableAssumption DEF Values
<1>7. CASE Goto(w, "fail")
  BY <1>1, <1>2, <1>7, FailsStep
<1>8. CASE Op(x.task, x.step).kind = "agent" /\ Return(w, a.call)
  <2>1. Declined(x) /\ ~Replayed(x.task, x.step)
    BY <1>2, <1>8 DEF Declined, StateOf, Replayed
  <2>2. Unfenced(x.task)
    BY <1>3, <1>8 DEF Unfenced
  <2>3. \A j \in Positions(x.task) \ {x.step} : checkpoint'[x.task][j] = checkpoint[x.task][j]
    BY <1>2
  <2>4. PICK y : Becomes(w, y) /\ WorkerOK(y)' /\ y.task = x.task /\ y.run = x.run
    BY <1>1, <1>2, <1>3, <1>6, <1>8, <2>1, <2>2, <2>3, Returns
  <2> QED BY <1>1, <1>2, <2>4, OnlyWorker
<1>9. CASE /\ Op(x.task, x.step).kind # "agent"
           /\ exec' = [exec EXCEPT ![w] = [exec[w] EXCEPT !.pc = "put", !.value = a.call]]
  <2>1. PICK y : y = [x EXCEPT !.pc = "put", !.value = a.call]
    OBVIOUS
  <2>2. Becomes(w, y)
    BY <1>1, <1>9, <2>1 DEF Becomes
  <2>3. PICK v \in Values : v = a.call
    BY <1>6
  <2>4. /\ y \in Executing(x.seen) /\ y.seen = x.seen /\ y.task = x.task /\ y.run = x.run
        /\ y.step = x.step /\ y.fenced = x.fenced /\ y.pc = "put" /\ y.value = v
    BY <1>3, <2>1, <2>3 DEF Executing, Pcs
  <2>5. WorkerOK(x)' /\ StateOf(x)' = StateOf(x)
    BY <1>2, <1>3, WorkerKept DEF Declined, StateOf
  <2>6. Op(x.task, x.step).kind = "turn" /\ TurnAnswer(x.task, v)
    BY <1>3, <1>4, <1>9, <2>3 DEF TurnAnswer
  <2>7. UnderWay(y)'
    BY <1>2, <1>3, <1>6, <2>3, <2>4, <2>6 DEF UnderWay, Positions, Op, Made, TurnAnswer
  <2>8. Unfenced(y.task)' \/ y.fenced = 0 \/ (y.fenced = 1 /\ StateOf(y)' # "running" /\ y.pc \in {"put", "wait", "fail"})
    BY <2>4, <2>5 DEF WorkerOK, StateOf
  <2>9. WorkerOK(y)'
    BY <2>4, <2>5, <2>7, <2>8, SameMemory
  <2> QED BY <1>1, <1>2, <2>2, <2>4, <2>9, OnlyWorker
<1> QED BY <1>3, <1>4, <1>7, <1>8, <1>9

\* A checkpoint is written.
Writes(t, i, c) == checkpoint' = [checkpoint EXCEPT ![t][i] = c]

LEMMA CheckpointOthers ==
    ASSUME IInv, NEW t \in Tasks, NEW i \in Positions(t), NEW c,
           Writes(t, i, c)
    PROVE  /\ DOMAIN checkpoint' = Tasks
           /\ DOMAIN checkpoint'[t] = Positions(t)
           /\ checkpoint'[t][i] = c
           /\ \A j \in Positions(t) \ {i} : checkpoint'[t][j] = checkpoint[t][j]
           /\ \A s \in Tasks \ {t} : checkpoint'[s] = checkpoint[s]
           /\ checkpoint'[t] = [checkpoint[t] EXCEPT ![i] = c]
  BY DEF IInv, CheckpointsOK, Writes

LEMMA CheckpointPut ==
    ASSUME IInv, UNCHANGED <<world, torn>>, AnswersStay, Grows, TablesOK(Tables)',
           NEW t \in Tasks, NEW i \in Positions(t), NEW c \in Checkpoints,
           Writes(t, i, c),
           c.owner <= task'[t].attempts, Made(t, i, c.owner, c.val)
    PROVE  CheckpointsOK'
<1>1. /\ DOMAIN checkpoint' = Tasks /\ checkpoint'[t][i] = c
      /\ \A j \in Positions(t) \ {i} : checkpoint'[t][j] = checkpoint[t][j]
      /\ \A s \in Tasks \ {t} : checkpoint'[s] = checkpoint[s]
      /\ checkpoint'[t] = [checkpoint[t] EXCEPT ![i] = c]
  BY CheckpointOthers
<1>2. \A s \in Tasks : checkpoint'[s] \in [Positions(s) -> Checkpoints \cup {None}]
  BY <1>1 DEF IInv, CheckpointsOK
<1>3. ASSUME NEW s \in Tasks, NEW j \in Positions(s), NEW d, d = checkpoint'[s][j], d # None
      PROVE  d.owner <= task'[s].attempts /\ Made(s, j, d.owner, d.val)'
  <2>2. CASE s = t /\ j = i
    <3>1. Made(t, i, c.owner, c.val)'
      BY MadeKept
    <3> QED BY <1>1, <1>3, <2>2, <3>1
  <2>3. CASE ~(s = t /\ j = i)
    <3>1. checkpoint[s][j] = d
      BY <1>1, <1>3, <2>3
    <3>2. /\ d.owner <= task[s].attempts /\ Made(s, j, d.owner, d.val) /\ d.owner \in Runs
      BY <1>3, <3>1 DEF IInv, CheckpointsOK, Checkpoints
    <3>3. Made(s, j, d.owner, d.val)'
      BY <3>2, MadeKept
    <3>4. task[s].attempts \in Nat /\ task'[s].attempts \in Nat /\ d.owner \in Nat
      <4>1. \A u \in Tasks : task[u].attempts \in Nat /\ task'[u].attempts \in Nat
        BY DEF IInv, TablesOK, Tables, TaskRows
      <4> QED BY <3>2, <4>1, RunsAre
    <3>5. d.owner <= task'[s].attempts
      <4> DEFINE a == task[s].attempts  b == task'[s].attempts  m == d.owner
      <4>1. a \in Nat /\ b \in Nat /\ m \in Nat /\ m <= a /\ a <= b
        BY <3>2, <3>4 DEF Grows
      <4> HIDE DEF a, b, m
      <4>2. m <= b
        BY <4>1
      <4> QED BY <4>2 DEF b, m
    <3> QED BY <3>3, <3>5
  <2> QED BY <2>2, <2>3
<1>4. \A s \in Tasks : Positions(s)' = Positions(s)
  BY DEF Positions
<1>5. Checkpoints' = Checkpoints
  BY DEF Checkpoints, Values
<1>6. \A s \in Tasks : (\A j \in Positions(s) : checkpoint[s][j] # None =>
         /\ checkpoint[s][j].owner <= task[s].attempts
         /\ Made(s, j, checkpoint[s][j].owner, checkpoint[s][j].val))'
  BY <1>3, <1>4
<1> QED BY <1>1, <1>2, <1>4, <1>5, <1>6 DEF CheckpointsOK

\* The payload of the event is the checkpoint, or the run sleeps until there is one.
LEMMA AwaitEventStep == ASSUME IInv, NEW w \in Workers, AwaitEvent(w) PROVE IInv'
<1>1. PICK x : x = exec[w]
  OBVIOUS
<1> DEFINE t == x.task  n == x.run  i == x.step  e == Op(t, i).event  cached == x.seen[i]
           saved == checkpoint[t][i]
<1>2. /\ x # Idle /\ x.pc = "next" /\ i \in Positions(t) /\ Op(t, i).kind = "event"
      /\ UNCHANGED <<world, torn, event, agent>>
  BY <1>1 DEF AwaitEvent, AtOp, At, Here
<1>3. /\ WorkerOK(x) /\ UnderWay(x) /\ x \in Executing(x.seen) /\ t \in Tasks /\ n \in Runs
      /\ x.seen \in [Positions(t) -> Values \cup {None}]
      /\ checkpoint[t] \in [Positions(t) -> Checkpoints \cup {None}]
      /\ RowsOK(t, task[t], run[t]) /\ task[t] \in TaskRows /\ run[t] \in [Runs -> RunRows]
      /\ StateOf(x) = "running" => n = task[t].attempts
  BY <1>1, <1>2, WorkerTypes
<1>4. Op(t, i) \in Ops /\ e \in Events /\ Op(t, i).timeout \in {1, Never}
  BY <1>2, <1>3, PositionTypes DEF IInv, Ops
<1>5. Unfenced(t) \/ x.fenced = 0
  BY <1>2, <1>3, NextUnfenced
<1>6. Holds(w) <=> StateOf(x) = "running"
  BY <1>1 DEF Holds, RunOf, StateOf
\* Known.
<1>7. ASSUME cached # None \/ saved # None, UNCHANGED <<task, run, checkpoint>>,
             Return(w, IF cached # None THEN cached ELSE saved.val)
      PROVE  IInv'
  <2>1. PICK v : v = IF cached # None THEN cached ELSE saved.val
    OBVIOUS
  <2>2. v \in Values
    BY <1>2, <1>3, <1>7, <2>1 DEF Checkpoints
  <2>3. Return(w, v)
    BY <1>7, <2>1
  <2>4. Holds(w) /\ exec[w].task \notin torn /\ Replayed(exec[w].task, exec[w].step) /\ v # TimedOut =>
          Saved(w) # None /\ Saved(w).val = v
    BY <1>1, <1>2, <1>3, <1>6, <1>7, <2>1 DEF WorkerOK, Remembers, Saved
  <2> QED BY <1>1, <1>2, <1>7, <2>2, <2>3, <2>4, ReturnStep
\* Woken by the timeout.
<1>8. ASSUME Holds(w), run' = [run EXCEPT ![t][n].wake = None], UNCHANGED <<task, checkpoint>>,
             Return(w, TimedOut) \/ Goto(w, "fail")
      PROVE  IInv'
  <2> DEFINE row == [run[t][n] EXCEPT !.wake = None]
  <2>1. PICK k, rs : k = task[t] /\ rs = [run[t] EXCEPT ![n] = row]
    OBVIOUS
  <2>2. row \in RunRows /\ row.state = run[t][n].state /\ row.wait = run[t][n].wait
    BY <1>3 DEF RunRows
  <2>3. RunOK(t, row)
    BY <1>3, <1>6, <1>8, <2>2 DEF StateOf, RowsOK, RunOK
  <2>4. RowsOK(t, k, rs)
    BY <1>3, <2>1, <2>2, <2>3, TouchRows
  <2>5. Rewrites(t, k, rs) /\ task[t].attempts <= k.attempts
    <3>1. task \in [Tasks -> TaskRows] /\ task[t].attempts \in Nat
      BY <1>3 DEF IInv, TablesOK, Tables, TaskRows
    <3>2. task' = [task EXCEPT ![t] = k]
      BY <1>8, <2>1, <3>1
    <3>3. run' = [run EXCEPT ![t] = rs]
      BY <1>8, <2>1
    <3>4. task[t].attempts <= k.attempts
      BY <2>1, <3>1
    <3> QED BY <3>2, <3>3, <3>4 DEF Rewrites
  <2>6. Declined(x)
    <3>1. run'[t][n].state = run[t][n].state
      BY <1>3, <1>8, <2>2 DEF IInv, TablesOK, Tables
    <3> QED BY <1>2, <3>1 DEF Declined, StateOf
  <2>7. TimedOut \in Values
    BY DEF Values
  <2>8. PICK y : Becomes(w, y) /\ WorkerOK(y)' /\ y.task = x.task /\ y.run = x.run
    <3>1. CASE Return(w, TimedOut)
      <4>1. \A j \in Positions(t) \ {i} : checkpoint'[t][j] = checkpoint[t][j]
        BY <1>8
      <4> QED BY <1>1, <1>2, <1>3, <1>5, <2>6, <2>7, <3>1, <4>1, Returns
    <3>2. CASE Goto(w, "fail")
      <4>1. PICK y : y = [x EXCEPT !.pc = "fail"]
        OBVIOUS
      <4>2. Becomes(w, y)
        BY <1>1, <3>2, <4>1 DEF Goto, Becomes
      <4>3. WorkerOK(x)'
        BY <1>2, <1>3, <1>8, <2>6, WorkerKept
      <4>4. WorkerOK(y)' /\ y.task = x.task /\ y.run = x.run
        BY <4>1, <4>3, FailsOK
      <4> QED BY <4>2, <4>4
    <3> QED BY <1>8, <3>1, <3>2
  <2>11. \A m \in Runs : \/ m = x.run
                         \/ rs[m].state = run[t][m].state
                         \/ rs[m].state = "cancelled"
                         \/ run[t][m].state \notin {"running", "failed", "cancelled"}
    BY <1>3, <2>1
  <2> HIDE DEF t, n
  <2>12. RowsOK(x.task, k, rs) /\ Rewrites(x.task, k, rs) /\ task[x.task].attempts <= k.attempts
    BY <2>4, <2>5 DEF t
  <2> QED BY <1>1, <1>2, <1>8, <2>8, <2>11, <2>12, OwnRow, SMTT(30) DEF t
\* Emitted: the payload is the checkpoint.
<1>9. ASSUME Holds(w), event[e] # None, cached = None, saved = None, UNCHANGED <<task, run>>,
             Return(w, event[e]), checkpoint' = [checkpoint EXCEPT ![t][i] = [val |-> event[e], owner |-> n]]
      PROVE  IInv'
  <2>1. PICK v \in Values : v = event[e]
    BY <1>4, <1>9 DEF IInv, EventsOK, Values
  <2>2. PICK c \in Checkpoints : c = [val |-> v, owner |-> n]
    BY <1>3 DEF Checkpoints
  <2>3. TablesOK(Tables)' /\ EventsOK' /\ Grows /\ \A z \in Workers : exec[z] # Idle => Declined(exec[z])
    BY <1>2, <1>9, TablesStay
  <2>4. AnswersStay /\ AgentsOK'
    BY <1>2, SameAnswers DEF IInv, AgentsOK
  <2>5. Writes(t, i, c)
    BY <1>9, <2>1, <2>2 DEF Writes
  <2>6. c.owner <= task'[t].attempts
    <3>1. n = task[t].attempts /\ n \in Nat
      BY <1>3, <1>6, <1>9, RunsAre
    <3> QED BY <1>9, <2>2, <3>1
  <2>7. Made(t, i, c.owner, c.val)
    BY <1>2 DEF Made
  <2>8. CheckpointsOK'
    BY <1>2, <1>3, <2>2, <2>3, <2>4, <2>5, <2>6, <2>7, CheckpointPut
  <2>9. /\ checkpoint'[t][i] = c
        /\ \A j \in Positions(t) \ {i} : checkpoint'[t][j] = checkpoint[t][j]
        /\ \A s \in Tasks \ {t} : checkpoint'[s] = checkpoint[s]
    BY <1>2, <1>3, <2>5 DEF IInv, CheckpointsOK, Writes
  <2>10. Return(w, v) /\ Declined(x) /\ c.val = v /\ c # None
    BY <1>1, <1>2, <1>9, <2>1, <2>2, <2>3, DurableAssumption
  <2>11. PICK y : Becomes(w, y) /\ WorkerOK(y)' /\ y.task = x.task /\ y.run = x.run
    BY <1>1, <1>2, <1>5, <2>1, <2>9, <2>10, Returns
  <2>12. ASSUME NEW z, NEW u \in Workers \ {w}, z = exec[u], z # Idle PROVE WorkerOK(z)'
    <3>1. /\ WorkerOK(z) /\ Declined(z) /\ z.task \in Tasks
          /\ StateOf(z) = "running" => z.run = task[z.task].attempts
      BY <2>3, <2>12, WorkerTypes
    <3>2. ~(z.task = x.task /\ z.run = x.run)
      BY <1>1, <1>2, <2>12, WorkerTypes
    <3>3. StateOf(z) = "running" => z.task # t
      BY <1>3, <1>6, <1>9, <3>1, <3>2
    <3>4. StateOf(z) = "running" /\ z.task \notin torn /\ Remembers(z) => Remembers(z)'
      BY <1>2, <2>9, <3>1, <3>3 DEF Remembers, Positions, Replayed, Op
    <3> QED BY <1>2, <2>4, <3>1, <3>4, WorkerStays
  <2>13. \A u \in Workers \ {w} : exec[u] # Idle => ~(exec[u].task = y.task /\ exec[u].run = y.run)
    BY <1>1, <1>2, <2>11, WorkerTypes
  <2>14. WorkersOK'
    BY <2>11, <2>12, <2>13, WorkersStep
  <2> QED BY <1>2, <2>3, <2>4, <2>8, <2>14 DEF IInv
\* The run waits.
<1>10. ASSUME Holds(w), event[e] = None, UNCHANGED checkpoint, Leave(w),
              Suspend(t, n, Op(t, i).timeout, e,
                      [step |-> i, event |-> e, timed |-> Op(t, i).timeout # Never])
       PROVE  IInv'
  <2>1. PICK wait : wait = [step |-> i, event |-> e, timed |-> Op(t, i).timeout # Never]
    OBVIOUS
  <2>2. PICK d \in 0 .. Never : d = Op(t, i).timeout
    BY <1>4, NeverIs
  <2>3. i \in Nat
    BY <1>2, <1>3, PositionTypes DEF IInv
  <2>4. wait \in Waits /\ wait.step = i /\ wait.event = e /\ (~wait.timed => d = Never)
    BY <1>4, <2>1, <2>2, <2>3 DEF Waits
  <2>5. RunOK(t, [state |-> "sleeping", lease |-> Never, avail |-> d, wake |-> e, wait |-> wait])
    <3>1. PICK r : r = [state |-> "sleeping", lease |-> Never, avail |-> d, wake |-> e, wait |-> wait]
      OBVIOUS
    <3>2. r.wait = wait /\ r.wake = e /\ r.state = "sleeping" /\ r.avail = d
      BY <3>1
    <3>3. RunOK(t, r)
      BY <1>2, <1>10, <2>4, <3>2, DurableAssumption DEF RunOK
    <3> QED BY <3>1, <3>3
  <2>6. Suspend(t, n, d, e, wait)
    BY <1>10, <2>1, <2>2
  <2> HIDE DEF e
  <2> QED BY <1>1, <1>2, <1>4, <1>10, <2>4, <2>5, <2>6, SuspendStep
<1> QED
  <2>1. CASE cached # None \/ saved # None
    BY <1>1, <1>7, <2>1 DEF AwaitEvent, Here, Saved
  <2>2. CASE cached = None /\ saved = None /\ Holds(w) /\ event[e] # None
    <3>1. TaskOf(w).state # "cancelled"
      BY <1>1, <1>3, <1>6, <2>2 DEF TaskOf, StateOf, RowsOK, Live
    <3>2. /\ Return(w, event[e]) /\ UNCHANGED <<task, run>>
          /\ checkpoint' = [checkpoint EXCEPT ![t][i] = [val |-> event[e], owner |-> n]]
      BY <1>1, <2>2, <3>1 DEF AwaitEvent, Here, Saved
    <3> QED BY <1>9, <2>2, <3>2
  <2>3. CASE cached = None /\ saved = None /\ ~(Holds(w) /\ event[e] # None)
    <3>1. UNCHANGED checkpoint
      BY <1>1, <2>3 DEF AwaitEvent, Here, Saved
    <3>2. CASE Leave(w) /\ UNCHANGED <<task, run>>
      BY <1>1, <1>2, <3>1, <3>2, LeaveStep
    <3>3. CASE Goto(w, "fail") /\ UNCHANGED <<task, run>>
      BY <1>1, <1>2, <3>1, <3>3, FailsStep
    <3>4. CASE Holds(w) /\ run' = [run EXCEPT ![t][n].wake = None] /\ UNCHANGED task
               /\ (Return(w, TimedOut) \/ Goto(w, "fail"))
      BY <1>8, <3>1, <3>4
    <3>5. CASE /\ Holds(w) /\ event[e] = None /\ Leave(w)
               /\ Suspend(t, n, Op(t, i).timeout, e,
                          [step |-> i, event |-> e, timed |-> Op(t, i).timeout # Never])
      BY <1>10, <3>1, <3>5
    <3> QED BY <1>1, <2>3, <3>2, <3>3, <3>4, <3>5 DEF AwaitEvent, Here, Saved
  <2> QED BY <2>1, <2>2, <2>3

\* How a worker goes on after a checkpoint call, whether it was written or not.
LEMMA PersistedWorker ==
    ASSUME IInv, UNCHANGED <<world, torn, agent>>, NEW w \in Workers, NEW x, x = exec[w], x # Idle,
           x.pc \in {"write", "overwrite"}, Declined(x),
           \A j \in Positions(x.task) \ {x.step} : checkpoint'[x.task][j] = checkpoint[x.task][j],
           StateOf(x) = "running" =>
             checkpoint'[x.task][x.step] # None /\ checkpoint'[x.task][x.step].val = x.value,
           Persisted(w)
    PROVE  \E y : Becomes(w, y) /\ WorkerOK(y)' /\ y.task = x.task /\ y.run = x.run
<1> DEFINE t == x.task  i == x.step
<1>1. /\ WorkerOK(x) /\ UnderWay(x) /\ x \in Executing(x.seen) /\ t \in Tasks
      /\ i \in Positions(t) /\ x.value \in Values
  BY WorkerTypes DEF UnderWay
<1>2. Unfenced(t) \/ x.fenced = 0
  BY <1>1, NextUnfenced
<1>3. AnswersStay
  BY SameAnswers
<1>4. CASE Op(t, i).kind = "sleep"
  <2>1. PICK y : y = [x EXCEPT !.pc = "next"]
    OBVIOUS
  <2>2. Becomes(w, y)
    BY <1>4, <2>1 DEF Persisted, Here, Goto, Becomes
  <2>3. Remembers(x) => Remembers(x)'
    BY <1>4 DEF Remembers, Positions, Replayed, Op
  <2>4. WorkerOK(x)'
    BY <1>1, <1>3, <2>3, WorkerStays
  <2>5. /\ y \in Executing(x.seen) /\ y.seen = x.seen /\ y.task = t /\ y.run = x.run
        /\ y.step = i /\ y.fenced = x.fenced /\ y.pc = "next"
    BY <1>1, <2>1 DEF Executing, Pcs
  <2>6. UnderWay(y)'
    BY <2>5 DEF UnderWay
  <2>7. Unfenced(y.task)' \/ y.fenced = 0
    BY <1>2, <2>5 DEF Unfenced, Positions, Op
  <2>8. WorkerOK(y)'
    BY <2>4, <2>5, <2>6, <2>7, SameMemory
  <2> QED BY <2>2, <2>5, <2>8
<1>5. CASE Op(t, i).kind # "sleep"
  <2>1. Return(w, x.value)
    BY <1>5 DEF Persisted, Here
  <2> QED BY <1>1, <1>2, <2>1, Returns
<1> QED BY <1>4, <1>5

\* A checkpoint is put over what there was; of the other workers nobody whose
\* run still is its task's, and who has to remember anything, works on the task.
LEMMA PutStep ==
    ASSUME IInv, UNCHANGED <<world, torn, task, event, agent>>, NEW w \in Workers, NEW x, x = exec[w],
           x # Idle, x.pc \in {"write", "overwrite"}, Put(w), Persisted(w),
           TablesOK(Tables)', EventsOK', Grows,
           \A u \in Workers : exec[u] # Idle => Declined(exec[u]),
           \A u \in Workers \ {w} : exec[u] # Idle /\ StateOf(exec[u]) = "running"
                                      => exec[u].task # x.task \/ x.task \in torn
    PROVE  IInv'
<1> DEFINE t == x.task  i == x.step
<1>1. /\ UnderWay(x) /\ t \in Tasks /\ x.run \in Runs /\ RowsOK(t, task[t], run[t])
      /\ StateOf(x) \in {"running", "failed", "cancelled"}
      /\ x.value \in Values /\ i \in Positions(t) /\ Made(t, i, x.run, x.value)
      /\ task[t] \in TaskRows
  BY WorkerTypes DEF UnderWay
<1>2. PICK c : c = [val |-> x.value, owner |-> x.run]
  OBVIOUS
<1>3. c \in Checkpoints /\ c.val = x.value /\ c.owner = x.run /\ c # None
  BY <1>1, <1>2, DurableAssumption DEF Checkpoints
<1>4. Writes(t, i, c)
  BY <1>2 DEF Put, Writes
<1>5. AnswersStay /\ AgentsOK'
  BY SameAnswers DEF IInv, AgentsOK
<1>6. CheckpointsOK'
  <2>1. c.owner <= task'[t].attempts
    BY <1>1, <1>3 DEF RowsOK, StateOf
  <2>2. Made(t, i, c.owner, c.val)
    BY <1>1, <1>3
  <2> QED BY <1>1, <1>3, <1>4, <1>5, <2>1, <2>2, CheckpointPut
<1>7. /\ checkpoint'[t][i] = c
      /\ \A j \in Positions(t) \ {i} : checkpoint'[t][j] = checkpoint[t][j]
      /\ \A s \in Tasks \ {t} : checkpoint'[s] = checkpoint[s]
  BY <1>1, <1>4 DEF IInv, CheckpointsOK, Writes
<1>8. PICK y : Becomes(w, y) /\ WorkerOK(y)' /\ y.task = x.task /\ y.run = x.run
  <2>1. Declined(x)
    OBVIOUS
  <2> QED BY <1>3, <1>7, <2>1, PersistedWorker
<1>9. ASSUME NEW z, NEW u \in Workers \ {w}, z = exec[u], z # Idle PROVE WorkerOK(z)'
  <2>1. WorkerOK(z) /\ Declined(z) /\ z.task \in Tasks
    BY <1>9, WorkerTypes
  <2>2. StateOf(z) = "running" /\ z.task \notin torn => z.task # t
    BY <1>9
  <2>3. StateOf(z) = "running" /\ z.task \notin torn /\ Remembers(z) => Remembers(z)'
    BY <1>7, <2>1, <2>2 DEF Remembers, Positions, Replayed, Op
  <2> QED BY <1>5, <2>1, <2>3, WorkerStays
<1>10. \A u \in Workers \ {w} : exec[u] # Idle => ~(exec[u].task = y.task /\ exec[u].run = y.run)
  <2>1. \A u \in Workers \ {w} : exec[u] # Idle => ~(exec[u].task = x.task /\ exec[u].run = x.run)
    BY WorkerTypes
  <2> QED BY <1>8, <2>1
<1>11. WorkersOK'
  BY <1>8, <1>9, <1>10, WorkersStep
<1> QED BY <1>5, <1>6, <1>11 DEF IInv

\* The run is locked and still the task's, so nobody else works on the task.
LEMMA WriteCheckpointStep == ASSUME IInv, NEW w \in Workers, WriteCheckpoint(w) PROVE IInv'
<1>1. PICK x : x = exec[w]
  OBVIOUS
<1>2. /\ x # Idle /\ x.pc = "write" /\ Holds(w) /\ UNCHANGED <<world, torn, task, event, agent>>
      /\ run' = [run EXCEPT ![exec[w].task][exec[w].run].lease = Lease]
      /\ Persisted(w) /\ (MayWrite(w) => Put(w))
  BY <1>1 DEF WriteCheckpoint, At
<1>3. /\ UnderWay(x) /\ x.task \in Tasks /\ x.run \in Runs /\ StateOf(x) = "running"
      /\ x.run = task[x.task].attempts
  BY <1>1, <1>2, WorkerTypes DEF Holds, RunOf, StateOf
<1>4. TablesOK(Tables)' /\ EventsOK' /\ Grows /\ \A u \in Workers : exec[u] # Idle => Declined(exec[u])
  BY <1>1, <1>2, LeaseKeeps DEF Extends
<1>5. MayWrite(w)
  <2>1. x.step \in Positions(x.task)
    BY <1>2, <1>3 DEF UnderWay
  <2>2. checkpoint[x.task][x.step] # None => checkpoint[x.task][x.step].owner <= task[x.task].attempts
    BY <1>3, <2>1 DEF IInv, CheckpointsOK
  <2> QED BY <1>1, <1>3, <2>2 DEF MayWrite, Saved
<1>6. ASSUME NEW u \in Workers \ {w}, exec[u] # Idle, StateOf(exec[u]) = "running"
      PROVE  exec[u].task # x.task
  <2>1. exec[u].run = task[exec[u].task].attempts
    BY <1>6, WorkerTypes
  <2>2. ~(exec[u].task = x.task /\ exec[u].run = x.run)
    BY <1>1, <1>2, <1>6, WorkerTypes
  <2> QED BY <1>3, <2>1, <2>2
<1> QED BY <1>1, <1>2, <1>4, <1>5, <1>6, PutStep

\* The run is gone, and whoever looked up the owner does not look again.
LEMMA LookUpOwnerStep == ASSUME IInv, NEW w \in Workers, LookUpOwner(w) PROVE IInv'
<1>1. PICK x : x = exec[w]
  OBVIOUS
<1>2. /\ x # Idle /\ x.pc = "write" /\ ~Holds(w)
      /\ UNCHANGED <<world, torn, task, run, checkpoint, event, agent>>
  BY <1>1 DEF LookUpOwner, At
<1>3. /\ WorkerOK(x) /\ UnderWay(x) /\ x \in Executing(x.seen) /\ StateOf(x) # "running"
      /\ Declined(x)
  BY <1>1, <1>2, WorkerTypes DEF Holds, RunOf, StateOf, Declined
<1>4. CASE Goto(w, "overwrite")
  <2>1. PICK y : y = [x EXCEPT !.pc = "overwrite"]
    OBVIOUS
  <2>2. Becomes(w, y)
    BY <1>1, <1>4, <2>1 DEF Goto, Becomes
  <2>3. /\ y \in Executing(x.seen) /\ y.seen = x.seen /\ y.task = x.task /\ y.run = x.run
        /\ y.step = x.step /\ y.fenced = x.fenced /\ y.pc = "overwrite" /\ y.value = x.value
    BY <1>3, <2>1 DEF Executing, Pcs
  <2>4. WorkerOK(x)' /\ UnderWay(x)' /\ Unfenced(x.task)' = Unfenced(x.task) /\ StateOf(x)' # "running"
    BY <1>2, <1>3, WorkerKept DEF Unfenced, Positions, Op, WorkerOK, StateOf
  <2>5. UnderWay(y)'
    BY <1>2, <2>3, <2>4 DEF UnderWay, StateOf
  <2>6. Unfenced(y.task)' \/ y.fenced = 0
    BY <1>2, <1>3, <2>3, <2>4, NextUnfenced
  <2>7. WorkerOK(y)'
    BY <2>3, <2>4, <2>5, <2>6, SameMemory
  <2> QED BY <1>1, <1>2, <2>2, <2>3, <2>7, OnlyWorker
<1>5. CASE Persisted(w)
  <2>1. \A j \in Positions(x.task) \ {x.step} : checkpoint'[x.task][j] = checkpoint[x.task][j]
    BY <1>2
  <2>2. PICK y : Becomes(w, y) /\ WorkerOK(y)' /\ y.task = x.task /\ y.run = x.run
    BY <1>1, <1>2, <1>3, <1>5, <2>1, PersistedWorker
  <2> QED BY <1>1, <1>2, <2>2, OnlyWorker
<1> QED BY <1>4, <1>5 DEF LookUpOwner

\* It was swept, which is on record, or cancelled, and then the task with it.
LEMMA OverwriteStep == ASSUME IInv, NEW w \in Workers, Overwrite(w) PROVE IInv'
<1>1. PICK x : x = exec[w]
  OBVIOUS
<1>2. /\ x # Idle /\ x.pc = "overwrite" /\ Put(w) /\ Persisted(w)
      /\ UNCHANGED <<world, torn, task, run, event, agent>>
  BY <1>1 DEF Overwrite, At
<1>3. /\ UnderWay(x) /\ x.task \in Tasks /\ x.run \in Runs /\ RowsOK(x.task, task[x.task], run[x.task])
      /\ StateOf(x) \in {"running", "failed", "cancelled"}
  BY <1>1, <1>2, WorkerTypes
<1>4. TablesOK(Tables)' /\ EventsOK' /\ Grows /\ \A u \in Workers : exec[u] # Idle => Declined(exec[u])
  BY <1>2, TablesStay
<1>5. ASSUME NEW u \in Workers \ {w}, exec[u] # Idle, StateOf(exec[u]) = "running"
      PROVE  exec[u].task # x.task \/ x.task \in torn
  <2>1. exec[u].run \in Runs /\ exec[u].task \in Tasks
    BY <1>5, WorkerTypes
  <2>2. exec[u].task = x.task => task[x.task].state \in Live
    BY <1>3, <1>5, <2>1 DEF RowsOK, StateOf, Live
  <2>3. StateOf(x) = "cancelled" => task[x.task].state \notin Live
    BY <1>3 DEF RowsOK, StateOf, Live
  <2> QED BY <1>2, <1>3, <2>2, <2>3 DEF UnderWay
<1> QED BY <1>1, <1>2, <1>4, <1>5, PutStep

-----------------------------------------------------------------------------
(* Agent turns. *)

AgentRows == [key : Nat, call : Nat \ {0}, status : {"running", "completed", "failed"}]

\* Where only agents change, the other workers stay.
LEMMA AgentsStep ==
    ASSUME IInv, UNCHANGED <<world, torn, task, run, checkpoint, event>>, AnswersStay
    PROVE  /\ TablesOK(Tables)' /\ EventsOK' /\ CheckpointsOK'
           /\ \A x : (\E v \in Workers : x = exec[v] /\ x # Idle) => WorkerOK(x)'
<1>1. TablesOK(Tables)' /\ EventsOK' /\ Grows /\ \A v \in Workers : exec[v] # Idle => Declined(exec[v])
  BY TablesStay
<1>2. CheckpointsOK'
  BY <1>1, CheckpointsKept
<1>3. ASSUME NEW x, NEW v \in Workers, x = exec[v], x # Idle PROVE WorkerOK(x)'
  <2>1. WorkerOK(x) /\ Declined(x)
    BY <1>1, <1>3, WorkerTypes
  <2>2. Remembers(x) => Remembers(x)'
    BY DEF Remembers, Positions, Replayed, Op
  <2> QED BY <2>1, <2>2, WorkerStays
<1> QED BY <1>1, <1>2, <1>3

LEMMA AgentEndsStep == ASSUME IInv, NEW t \in Tasks, AgentEnds(t) PROVE IInv'
<1>1. PICK a \in agent[t], status \in {"completed", "failed"} :
         agent' = [agent EXCEPT ![t] = (@ \ {a}) \cup {[a EXCEPT !.status = status]}]
  BY DEF AgentEnds
<1>2. UNCHANGED <<world, torn, task, run, checkpoint, event, exec>>
  BY DEF AgentEnds
<1>3. agent \in [Tasks -> SUBSET AgentRows] /\ a \in AgentRows
  BY <1>1 DEF IInv, AgentsOK, AgentRows
<1>4. PICK b : b = [a EXCEPT !.status = status]
  OBVIOUS
<1>5. b \in AgentRows /\ b.key = a.key /\ b.call = a.call
  BY <1>3, <1>4 DEF AgentRows
<1>6. /\ agent'[t] = (agent[t] \ {a}) \cup {b} /\ \A s \in Tasks \ {t} : agent'[s] = agent[s]
      /\ agent' \in [Tasks -> SUBSET AgentRows]
  BY <1>1, <1>3, <1>4, <1>5
<1>7. \A s \in Tasks : \A c, d \in agent'[s] : c.key = d.key => c = d
  <2>1. \A s \in Tasks : \A c, d \in agent[s] : c.key = d.key => c = d
    BY DEF IInv, AgentsOK
  <2> QED BY <1>1, <1>5, <1>6, <2>1
<1>8. AgentsOK'
  BY <1>6, <1>7 DEF AgentsOK, AgentRows
<1>9. AnswersStay
  BY <1>5, <1>6 DEF AnswersStay, TurnAnswer
<1>10. /\ TablesOK(Tables)' /\ EventsOK' /\ CheckpointsOK'
       /\ \A x : (\E v \in Workers : x = exec[v] /\ x # Idle) => WorkerOK(x)'
  BY <1>2, <1>9, AgentsStep
<1>11. WorkersOK'
  BY <1>2, <1>10, WorkersStay
<1> QED BY <1>2, <1>8, <1>10, <1>11 DEF IInv

LEMMA AskAgentStep == ASSUME IInv, NEW w \in Workers, AskAgent(w) PROVE IInv'
<1>1. PICK x : x = exec[w]
  OBVIOUS
<1> DEFINE t == x.task
<1>2. PICK key : key = TurnKey(w)
  OBVIOUS
<1>3. PICK f : f = IF \A a \in agent[t] : a.key # key THEN Outside(w) ELSE x.fenced
  OBVIOUS
<1>4. PICK y : y = [x EXCEPT !.pc = "wait", !.key = key, !.requests = @ + 1, !.fenced = f]
  OBVIOUS
<1>5. PICK a : a = [key |-> key, call |-> x.step, status |-> "running"]
  OBVIOUS
<1>6. /\ x # Idle /\ UNCHANGED <<world, torn, task, run, checkpoint, event>>
      /\ \/ x.pc = "next" /\ x.step \in Positions(t) /\ Op(t, x.step).kind = "agent"
         \/ x.pc = "effect" /\ Op(t, x.step).kind = "turn"
  BY <1>1 DEF AskAgent, AtOp, At, Here
<1>7. Becomes(w, y)
  BY <1>1, <1>2, <1>3, <1>4, Zenon DEF AskAgent, Becomes
<1>8. agent' = IF \A b \in agent[t] : b.key # key THEN [agent EXCEPT ![t] = @ \cup {a}] ELSE agent
  BY <1>1, <1>2, <1>5, Zenon DEF AskAgent
<1>9. /\ WorkerOK(x) /\ UnderWay(x) /\ x \in Executing(x.seen) /\ t \in Tasks /\ x.step \in Nat \ {0}
      /\ x.requests \in Nat /\ x.fenced \in Nat /\ StateOf(x) \in {"running", "failed", "cancelled"}
  BY <1>1, <1>6, WorkerTypes
<1>10. x.step \in Positions(t)
  BY <1>6, <1>9 DEF UnderWay
<1>11. key \in Nat /\ (Op(t, x.step).kind = "turn" => key = 0)
  BY <1>1, <1>2, <1>9 DEF TurnKey, Here
<1>12. a \in AgentRows /\ a.key = key
  BY <1>5, <1>9, <1>11 DEF AgentRows
<1>13. agent \in [Tasks -> SUBSET AgentRows] /\ \A s \in Tasks : \A c, d \in agent[s] : c.key = d.key => c = d
  BY DEF IInv, AgentsOK, AgentRows
<1>14. /\ \A s \in Tasks \ {t} : agent'[s] = agent[s]
       /\ agent'[t] = IF \A b \in agent[t] : b.key # key THEN agent[t] \cup {a} ELSE agent[t]
       /\ agent' \in [Tasks -> SUBSET AgentRows]
  BY <1>8, <1>9, <1>12, <1>13
<1>15. \A s \in Tasks : \A c, d \in agent'[s] : c.key = d.key => c = d
  BY <1>12, <1>13, <1>14
<1>16. AgentsOK'
  BY <1>14, <1>15 DEF AgentsOK, AgentRows
<1>17. AnswersStay
  BY <1>14 DEF AnswersStay, TurnAnswer
<1>18. /\ TablesOK(Tables)' /\ EventsOK' /\ CheckpointsOK'
       /\ \A z : (\E v \in Workers : z = exec[v] /\ z # Idle) => WorkerOK(z)'
  BY <1>6, <1>17, AgentsStep
<1>19. WorkerOK(x)'
  BY <1>1, <1>6, <1>18
<1>20. /\ f \in Nat
       /\ Unfenced(t) \/ f = 0 \/ (f = 1 /\ StateOf(x) # "running")
  <2>1. Unfenced(t) \/ x.fenced = 0
    BY <1>6, <1>9, NextUnfenced
  <2>2. Outside(w) = x.fenced + (IF StateOf(x) = "running" THEN 0 ELSE 1)
    BY <1>1 DEF Outside, Holds, RunOf, StateOf
  <2> QED BY <1>3, <1>9, <2>1, <2>2
<1>21. /\ y \in Executing(x.seen) /\ y.seen = x.seen /\ y.task = x.task /\ y.run = x.run
       /\ y.step = x.step /\ y.fenced = f /\ y.pc = "wait" /\ y.key = key
  <2>1. PICK r \in Nat : r = x.requests + 1
    BY <1>9
  <2>2. y = [x EXCEPT !.pc = "wait", !.key = key, !.requests = r, !.fenced = f]
    BY <1>4, <1>9, <2>1 DEF Executing
  <2> QED BY <1>9, <1>11, <1>20, <2>2 DEF Executing, Pcs
<1>22. UnderWay(y)'
  BY <1>6, <1>10, <1>11, <1>21 DEF UnderWay, Positions, Op
<1>23. Unfenced(y.task)' \/ y.fenced = 0 \/ (y.fenced = 1 /\ StateOf(y)' # "running" /\ y.pc \in {"put", "wait", "fail"})
  BY <1>6, <1>20, <1>21 DEF Unfenced, Positions, Op, StateOf
<1>24. WorkerOK(y)'
  BY <1>19, <1>21, <1>22, <1>23, SameMemory
<1>25. \A v \in Workers \ {w} : exec[v] # Idle => ~(exec[v].task = y.task /\ exec[v].run = y.run)
  <2>1. \A v \in Workers \ {w} : exec[v] # Idle => ~(exec[v].task = x.task /\ exec[v].run = x.run)
    BY <1>1, <1>6, WorkerTypes
  <2> QED BY <1>21, <2>1
<1>26. WorkersOK'
  BY <1>7, <1>18, <1>24, <1>25, WorkersStep
<1> QED BY <1>6, <1>16, <1>18, <1>26 DEF IInv

-----------------------------------------------------------------------------
(* Events. *)

\* The wait of the run n of t is resolved by event e, or is over.
WaitsFor(e, t, n) == run[t][n].wait # None /\ run[t][n].wait.event = e
Over(e, t, n)     == WaitsFor(e, t, n) /\ WaitOver(run[t][n])
Resolved(e, t, n) == WaitsFor(e, t, n) /\ ~WaitOver(run[t][n]) /\ run[t][n].state = "sleeping"

\* What becomes of that run.
Emitted(e, t, n) == IF Resolved(e, t, n) THEN NewRun(0)
                    ELSE IF Over(e, t, n) THEN [run[t][n] EXCEPT !.wait = None]
                    ELSE [run[t][n] EXCEPT !.wait = run[t][n].wait]

LEMMA EmitMeans ==
    ASSUME NEW e \in Events, NEW p \in Payloads, Emit(e, p)
    PROVE  /\ event[e] = None /\ event' = [event EXCEPT ![e] = p]
           /\ UNCHANGED <<world, torn, agent, exec>>
           /\ task' = [t \in Tasks |-> task'[t]] /\ run' = [t \in Tasks |-> run'[t]]
           /\ checkpoint' = [t \in Tasks |-> checkpoint'[t]]
           /\ \A t \in Tasks :
                /\ task'[t] = IF \E n \in Runs : Resolved(e, t, n)
                              THEN [task[t] EXCEPT !.state = "pending"] ELSE task[t]
                /\ run'[t] = [n \in Runs |-> run'[t][n]]
                /\ checkpoint'[t] = [i \in Positions(t) |-> checkpoint'[t][i]]
           /\ \A t \in Tasks : \A n \in Runs : run'[t][n] = Emitted(e, t, n)
           /\ \A t \in Tasks : \A i \in Positions(t) :
                checkpoint'[t][i] = IF \E n \in Runs : Resolved(e, t, n) /\ run[t][n].wait.step = i
                                    THEN [val |-> p, owner |-> CHOOSE n \in Runs :
                                            Resolved(e, t, n) /\ run[t][n].wait.step = i]
                                    ELSE checkpoint[t][i]
<1> DEFINE waits    == {x \in Tasks \X Runs : /\ run[x[1]][x[2]].wait # None
                                              /\ run[x[1]][x[2]].wait.event = e}
           expired  == {x \in waits : WaitOver(run[x[1]][x[2]])}
           resolved == {x \in waits \ expired : run[x[1]][x[2]].state = "sleeping"}
<1>1. \A t \in Tasks : \A n \in Runs : /\ <<t, n>> \in expired <=> Over(e, t, n)
                                       /\ <<t, n>> \in resolved <=> Resolved(e, t, n)
  BY DEF WaitsFor, Over, Resolved
<1>2. /\ run' = [t \in Tasks |-> [n \in Runs |->
                   IF <<t, n>> \in resolved THEN NewRun(0)
                   ELSE [run[t][n] EXCEPT !.wait = Unless(<<t, n>> \in expired, @)]]]
      /\ task' = [t \in Tasks |-> IF \E n \in Runs : <<t, n>> \in resolved
                                  THEN [task[t] EXCEPT !.state = "pending"] ELSE task[t]]
      /\ checkpoint' = [t \in Tasks |-> [i \in Positions(t) |->
                          IF \E n \in Runs : <<t, n>> \in resolved /\ run[t][n].wait.step = i
                          THEN [val |-> p, owner |-> CHOOSE n \in Runs :
                                   <<t, n>> \in resolved /\ run[t][n].wait.step = i]
                          ELSE checkpoint[t][i]]]
  BY DEF Emit
<1>3. event[e] = None /\ event' = [event EXCEPT ![e] = p] /\ UNCHANGED <<world, torn, agent, exec>>
  BY DEF Emit
<1> HIDE DEF resolved, expired
<1>4. /\ task' = [t \in Tasks |-> task'[t]] /\ run' = [t \in Tasks |-> run'[t]]
      /\ checkpoint' = [t \in Tasks |-> checkpoint'[t]]
  BY <1>2
<1>5. ASSUME NEW t \in Tasks
      PROVE  /\ task'[t] = IF \E n \in Runs : Resolved(e, t, n)
                           THEN [task[t] EXCEPT !.state = "pending"] ELSE task[t]
             /\ run'[t] = [n \in Runs |-> run'[t][n]]
             /\ checkpoint'[t] = [i \in Positions(t) |-> checkpoint'[t][i]]
  BY <1>1, <1>2
<1>6. ASSUME NEW t \in Tasks, NEW n \in Runs
      PROVE  run'[t][n] = Emitted(e, t, n)
  <2>1. run'[t][n] = IF <<t, n>> \in resolved THEN NewRun(0)
                     ELSE [run[t][n] EXCEPT !.wait = Unless(<<t, n>> \in expired, run[t][n].wait)]
    BY <1>2
  <2> QED BY <1>1, <2>1 DEF Unless, Emitted
<1>7. ASSUME NEW t \in Tasks, NEW i \in Positions(t)
      PROVE  checkpoint'[t][i] = IF \E n \in Runs : Resolved(e, t, n) /\ run[t][n].wait.step = i
                                 THEN [val |-> p, owner |-> CHOOSE n \in Runs :
                                         Resolved(e, t, n) /\ run[t][n].wait.step = i]
                                 ELSE checkpoint[t][i]
  <2>1. (CHOOSE n \in Runs : <<t, n>> \in resolved /\ run[t][n].wait.step = i)
           = (CHOOSE n \in Runs : Resolved(e, t, n) /\ run[t][n].wait.step = i)
    BY <1>1
  <2> QED BY <1>1, <1>2, <2>1
<1> QED BY <1>3, <1>4, <1>5, <1>6, <1>7

\* A run that sleeps on the event becomes pending, and its task; a wait that
\* is over is dropped.
LEMMA EmitRows ==
    ASSUME IInv, NEW e \in Events, NEW p \in Payloads, Emit(e, p), NEW t \in Tasks,
           NEW k, k = task'[t], NEW rs, rs = run'[t]
    PROVE  /\ RowsOK(t, k, rs)' /\ k.attempts = task[t].attempts
           /\ \A n \in Runs : rs[n].state = run[t][n].state \/ run[t][n].state = "sleeping"
<1>1. /\ RowsOK(t, task[t], run[t]) /\ task[t] \in TaskRows /\ run[t] \in [Runs -> RunRows]
      /\ world \in Worlds
  BY DEF IInv, TablesOK, Tables
<1>2. /\ event[e] = None /\ event' = [event EXCEPT ![e] = p] /\ UNCHANGED <<world, torn>>
      /\ k = IF \E n \in Runs : Resolved(e, t, n) THEN [task[t] EXCEPT !.state = "pending"] ELSE task[t]
      /\ rs = [n \in Runs |-> rs[n]]
      /\ \A n \in Runs : rs[n] = IF Resolved(e, t, n) THEN NewRun(0)
                                 ELSE IF Over(e, t, n) THEN [run[t][n] EXCEPT !.wait = None]
                                 ELSE [run[t][n] EXCEPT !.wait = run[t][n].wait]
  <2>1. /\ event[e] = None /\ event' = [event EXCEPT ![e] = p] /\ UNCHANGED <<world, torn>>
        /\ task'[t] = IF \E n \in Runs : Resolved(e, t, n)
                      THEN [task[t] EXCEPT !.state = "pending"] ELSE task[t]
        /\ run'[t] = [n \in Runs |-> run'[t][n]]
    BY EmitMeans
  <2>2. \A n \in Runs : rs[n] = Emitted(e, t, n)
    BY EmitMeans
  <2>3. \A n \in Runs : rs[n] = IF Resolved(e, t, n) THEN NewRun(0)
                                ELSE IF Over(e, t, n) THEN [run[t][n] EXCEPT !.wait = None]
                                ELSE [run[t][n] EXCEPT !.wait = run[t][n].wait]
    BY <2>2 DEF Emitted
  <2> QED BY <2>1, <2>3
<1>3. \A n \in Runs : run[t][n].wait # None => run[t][n].state = "sleeping" /\ n = task[t].attempts
  BY <1>1 DEF RowsOK, RunOK, Live
<1>4. ASSUME NEW r, RunOK(t, r), r.state # "sleeping" \/ r.avail = 0 \/ (r.wait = None /\ r.wake = None)
      PROVE  RunOK(t, r)'
  BY <1>2, <1>4, NeverIs DEF RunOK, Positions, Op
<1>5. ASSUME NEW n \in Runs, Resolved(e, t, n)
      PROVE  /\ RowsOK(t, k, rs)' /\ k.attempts = task[t].attempts
             /\ \A m \in Runs : rs[m].state = run[t][m].state \/ run[t][m].state = "sleeping"
  <2> DEFINE row == NewRun(0)  k2 == [task[t] EXCEPT !.state = "pending"]
  <2>1. n = task[t].attempts /\ run[t][n].state = "sleeping"
    BY <1>3, <1>5 DEF Resolved, WaitsFor
  <2>2. \A m \in Runs \ {n} : rs[m] = run[t][m] /\ run[t][m].state # "sleeping"
    <3>1. \A m \in Runs \ {n} : run[t][m].wait = None /\ run[t][m] \in RunRows /\ run[t][m].state # "sleeping"
      BY <1>1, <1>3, <2>1 DEF RowsOK, Live
    <3>2. \A m \in Runs \ {n} : rs[m] = [run[t][m] EXCEPT !.wait = None]
      BY <1>2, <3>1 DEF Resolved, WaitsFor, Unless
    <3> QED BY <3>1, <3>2 DEF RunRows
  <2>3. row \in RunRows /\ row.state = "pending" /\ RunOK(t, row)
    BY NewRows, NeverIs, BareRow
  <2>4. rs[n] = row
    BY <1>2, <1>5
  <2>5. k = k2 /\ k2 \in TaskRows /\ k2.state = "pending" /\ k2.attempts = task[t].attempts /\ k2.max = task[t].max
    BY <1>1, <1>2, <1>5 DEF TaskRows, Live
  <2> HIDE DEF row, k2
  <2>6. rs = [run[t] EXCEPT ![n] = row]
    BY <1>1, <1>2, <2>2, <2>4
  <2>7. RowsOK(t, k, rs)
    BY <1>1, <2>1, <2>3, <2>5, <2>6, MoveRows DEF Live
  <2>8. \A m \in Runs : RunOK(t, rs[m]) /\ rs[m].state # "sleeping"
    BY <2>2, <2>3, <2>4, <2>7 DEF RowsOK
  <2>9. \A m \in Runs : \A r : r = rs[m] => RunOK(t, r)'
    BY <1>4, <2>8
  <2>10. RowsOK(t, k, rs)'
    BY <1>2, <2>7, <2>9 DEF RowsOK, TaskRows, RunRows
  <2> QED BY <2>1, <2>2, <2>5, <2>10
<1>6. ASSUME ~\E n \in Runs : Resolved(e, t, n)
      PROVE  /\ RowsOK(t, k, rs)' /\ k.attempts = task[t].attempts
             /\ \A m \in Runs : rs[m].state = run[t][m].state
  <2>1. k = task[t]
    BY <1>2, <1>6
  <2>2. ASSUME NEW n \in Runs, NEW r, r = rs[n]
        PROVE  r \in RunRows /\ r.state = run[t][n].state /\ RunOK(t, r)'
    <3>0. PICK q : q = run[t][n]
      OBVIOUS
    <3>1. q \in RunRows /\ RunOK(t, q)
      BY <1>1, <3>0 DEF RowsOK
    <3>2. r = IF Over(e, t, n) THEN [q EXCEPT !.wait = None] ELSE q
      <4>1. r = IF Over(e, t, n) THEN [q EXCEPT !.wait = None] ELSE [q EXCEPT !.wait = q.wait]
        BY <1>2, <1>6, <2>2, <3>0
      <4> QED BY <3>1, <4>1 DEF RunRows
    <3>3. CASE Over(e, t, n)
      <4>1. q.avail = 0
        BY <3>0, <3>3 DEF Over, WaitOver
      <4>2. r \in RunRows /\ r.state = q.state /\ r.wait = None /\ r.avail = 0
        BY <3>1, <3>2, <3>3, <4>1 DEF RunRows
      <4>3. RunOK(t, r)
        BY <4>2 DEF RunOK
      <4> QED BY <1>4, <3>0, <4>2, <4>3
    <3>4. CASE ~Over(e, t, n)
      <4>1. r = q
        BY <3>2, <3>4
      <4>2. q.wait # None => q.wait.event # e \/ q.avail = 0
        BY <1>3, <1>6, <3>0, <3>4 DEF Over, Resolved, WaitsFor, WaitOver
      <4>3. q.wait # None => q.wait \in Waits
        BY <3>1 DEF RunRows
      <4>4. RunOK(t, q)'
        <5>1. \A a \in Events : a # e => event'[a] = event[a]
          BY <1>2 DEF IInv, EventsOK
        <5>2. q.wait # None /\ q.wait.event # e => event'[q.wait.event] = event[q.wait.event]
          BY <4>3, <5>1 DEF Waits
        <5> QED BY <1>2, <3>1, <4>2, <5>2 DEF RunOK, Positions, Op
      <4>5. r \in RunRows /\ r.state = q.state /\ RunOK(t, r)'
        BY <3>1, <4>1, <4>4
      <4> QED BY <3>0, <4>5
    <3> QED BY <3>3, <3>4
  <2>3. rs \in [Runs -> RunRows]
    BY <1>2, <2>2
  <2>4. RowsOK(t, k, rs)'
    <3>1. \A n \in Runs : rs[n].state = run[t][n].state
      BY <2>2
    <3>2. \A n \in Runs : \A r : r = rs[n] => RunOK(t, r)'
      BY <2>2
    <3> QED BY <1>1, <1>2, <2>1, <2>3, <3>1, <3>2, SMTT(30) DEF RowsOK, TaskRows, RunRows
  <2> QED BY <2>1, <2>2, <2>4
<1> QED BY <1>5, <1>6

\* The rows and the checkpoints of all tasks, one by one.
LEMMA EachRows ==
    ASSUME task' = [t \in Tasks |-> task'[t]], run' = [t \in Tasks |-> run'[t]],
           \A t \in Tasks : \A k, rs : k = task'[t] /\ rs = run'[t] => RowsOK(t, k, rs)'
    PROVE  TablesOK(Tables)'
<1>1. \A t \in Tasks : RowsOK(t, task[t], run[t])'
  OBVIOUS
<1>2. \A t \in Tasks : task'[t] \in TaskRows /\ run'[t] \in [Runs -> RunRows]
  BY <1>1 DEF RowsOK, TaskRows, RunRows
<1>3. task' \in [Tasks -> TaskRows] /\ run' \in [Tasks -> [Runs -> RunRows]]
  BY <1>2
<1> QED BY <1>1, <1>3 DEF TablesOK, Tables, TaskRows, RunRows

LEMMA EachCheckpoint ==
    ASSUME IInv, UNCHANGED <<world, torn, agent>>, Grows, TablesOK(Tables)',
           checkpoint' = [t \in Tasks |-> checkpoint'[t]],
           \A t \in Tasks : checkpoint'[t] = [i \in Positions(t) |-> checkpoint'[t][i]],
           \A t \in Tasks : \A i \in Positions(t) : \A c : c = checkpoint'[t][i] =>
             \/ c = None
             \/ c \in Checkpoints /\ c.owner <= task[t].attempts /\ Made(t, i, c.owner, c.val)
    PROVE  CheckpointsOK'
<1>1. \A t \in Tasks : task[t].attempts \in Nat /\ task'[t].attempts \in Nat
  BY DEF IInv, TablesOK, Tables, TaskRows
<1>2. AnswersStay
  BY SameAnswers
<1>3. ASSUME NEW t \in Tasks, NEW i \in Positions(t), NEW c, c = checkpoint'[t][i], c # None
      PROVE  c \in Checkpoints /\ c.owner <= task'[t].attempts /\ Made(t, i, c.owner, c.val)'
  <2>1. c \in Checkpoints /\ c.owner <= task[t].attempts /\ Made(t, i, c.owner, c.val)
    BY <1>3
  <2>2. Made(t, i, c.owner, c.val)'
    BY <1>2, <2>1, MadeKept
  <2>3. c.owner \in Nat /\ task[t].attempts <= task'[t].attempts
    BY <2>1, RunsAre DEF Checkpoints, Grows
  <2> QED BY <1>1, <2>1, <2>2, <2>3
<1>4. \A t \in Tasks : checkpoint'[t] \in [Positions(t) -> Checkpoints \cup {None}]
  BY <1>3
<1>5. \A t \in Tasks : Positions(t)' = Positions(t)
  BY DEF Positions
<1>6. \A t \in Tasks : \A i \in Positions(t) : checkpoint'[t][i] # None =>
        /\ checkpoint'[t][i].owner <= task'[t].attempts
        /\ Made(t, i, checkpoint[t][i].owner, checkpoint[t][i].val)'
  BY <1>3
<1>7. DOMAIN checkpoint' = Tasks
  OBVIOUS
<1> QED BY <1>4, <1>5, <1>6, <1>7 DEF CheckpointsOK, Checkpoints, Values

\* Nobody goes on, and nobody is surprised.
LEMMA EachWorker ==
    ASSUME IInv, UNCHANGED <<world, torn, agent, exec>>,
           \A t \in Tasks : \A n \in Runs : \/ run'[t][n].state = run[t][n].state
                                            \/ run[t][n].state = "sleeping",
           \A t \in Tasks : \A i \in Positions(t) :
             task[t].state = "running" /\ Replayed(t, i) => checkpoint'[t][i] = checkpoint[t][i]
    PROVE  WorkersOK'
<1>1. ASSUME NEW x, NEW v \in Workers, x = exec[v], x # Idle PROVE WorkerOK(x)'
  <2>1. /\ WorkerOK(x) /\ x.task \in Tasks /\ x.run \in Runs
        /\ StateOf(x) \in {"running", "failed", "cancelled"}
        /\ RowsOK(x.task, task[x.task], run[x.task])
    BY <1>1, WorkerTypes
  <2>2. Declined(x)
    BY <2>1 DEF Declined, StateOf
  <2>3. StateOf(x) = "running" => task[x.task].state = "running"
    BY <2>1 DEF RowsOK, StateOf, Live
  <2>4. StateOf(x) = "running" /\ x.task \notin torn /\ Remembers(x) => Remembers(x)'
    BY <2>1, <2>3 DEF Remembers, Positions, Replayed, Op
  <2> QED BY <2>1, <2>2, <2>4, SameAnswers, WorkerStays
<1> QED BY <1>1, WorkersStay

LEMMA EmitStep == ASSUME IInv, NEW e \in Events, NEW p \in Payloads, Emit(e, p) PROVE IInv'
<1>1. /\ event' = [event EXCEPT ![e] = p] /\ UNCHANGED <<world, torn, agent, exec>>
      /\ task' = [t \in Tasks |-> task'[t]] /\ run' = [t \in Tasks |-> run'[t]]
      /\ checkpoint' = [t \in Tasks |-> checkpoint'[t]]
      /\ \A t \in Tasks : checkpoint'[t] = [i \in Positions(t) |-> checkpoint'[t][i]]
  BY EmitMeans
<1>2. \A t \in Tasks : \A i \in Positions(t) :
        checkpoint'[t][i] = IF \E n \in Runs : Resolved(e, t, n) /\ run[t][n].wait.step = i
                            THEN [val |-> p, owner |-> CHOOSE n \in Runs :
                                    Resolved(e, t, n) /\ run[t][n].wait.step = i]
                            ELSE checkpoint[t][i]
  BY EmitMeans, ZenonT(40)
<1>3. ASSUME NEW t \in Tasks, NEW k, NEW rs, k = task'[t], rs = run'[t]
      PROVE  /\ RowsOK(t, k, rs)' /\ k.attempts = task[t].attempts
             /\ \A n \in Runs : rs[n].state = run[t][n].state \/ run[t][n].state = "sleeping"
  BY <1>3, EmitRows
<1>4. TablesOK(Tables)'
  BY <1>1, <1>3, EachRows
<1>5. \A t \in Tasks : RowsOK(t, task[t], run[t])
  BY DEF IInv, TablesOK, Tables
<1>6. Grows
  <2>1. \A t \in Tasks : task[t].attempts \in Nat
    BY <1>5 DEF RowsOK, TaskRows
  <2> QED BY <1>3, <2>1 DEF Grows
<1>7. EventsOK'
  BY <1>1 DEF IInv, EventsOK
<1>8. \A t \in Tasks : \A n \in Runs : Resolved(e, t, n) =>
        /\ n = task[t].attempts /\ task[t].state = "sleeping"
        /\ run[t][n].wait.step \in Positions(t) => Op(t, run[t][n].wait.step).kind = "event"
  BY <1>5 DEF Resolved, WaitsFor, RowsOK, RunOK, Live
<1>9. ASSUME NEW t \in Tasks, NEW i \in Positions(t), NEW c, c = checkpoint'[t][i], c # None
      PROVE  c \in Checkpoints /\ c.owner <= task[t].attempts /\ Made(t, i, c.owner, c.val)
  <2>1. CASE \E n \in Runs : Resolved(e, t, n) /\ run[t][n].wait.step = i
    <3>1. PICK n : n = CHOOSE m \in Runs : Resolved(e, t, m) /\ run[t][m].wait.step = i
      OBVIOUS
    <3>2. n \in Runs /\ Resolved(e, t, n) /\ run[t][n].wait.step = i
      BY <2>1, <3>1, Zenon
    <3>3. c = [val |-> p, owner |-> n]
      BY <1>2, <1>9, <2>1, <3>1, Zenon
    <3>4. n = task[t].attempts /\ Op(t, i).kind = "event"
      BY <1>8, <3>2
    <3>5. c \in Checkpoints /\ c.owner = n /\ n <= n
      BY <3>2, <3>3, RunsAre DEF Checkpoints, Values
    <3> QED BY <3>4, <3>5 DEF Made
  <2>2. CASE ~\E n \in Runs : Resolved(e, t, n) /\ run[t][n].wait.step = i
    <3>1. c = checkpoint[t][i]
      BY <1>2, <1>9, <2>2, Zenon
    <3> QED BY <1>9, <3>1 DEF IInv, CheckpointsOK
  <2> QED BY <2>1, <2>2
<1>10. CheckpointsOK'
  BY <1>1, <1>4, <1>6, <1>9, EachCheckpoint
<1>11. \A t \in Tasks : \A i \in Positions(t) :
         task[t].state = "running" /\ Replayed(t, i) => checkpoint'[t][i] = checkpoint[t][i]
  <2> SUFFICES ASSUME NEW t \in Tasks, NEW i \in Positions(t), task[t].state = "running"
               PROVE  checkpoint'[t][i] = checkpoint[t][i]
    OBVIOUS
  <2>1. ~\E n \in Runs : Resolved(e, t, n) /\ run[t][n].wait.step = i
    BY <1>8
  <2> QED BY <1>2, <2>1, Zenon
<1>12. WorkersOK'
  BY <1>1, <1>3, <1>11, EachWorker
<1>13. AgentsOK'
  BY <1>1 DEF IInv, AgentsOK
<1> QED BY <1>1, <1>4, <1>7, <1>10, <1>12, <1>13 DEF IInv

-----------------------------------------------------------------------------
(* Time. *)

LEMMA LessIs ==
    /\ \A d \in 0 .. Never : Less(d) \in 0 .. Never /\ (Less(d) > 0 => d > 0)
    /\ Less(Never) = Never /\ Less(0) = 0 /\ Less(1) = 0
<1>1. Never \in Nat /\ Never > 2
  BY NeverIs
<1> QED BY <1>1 DEF Less

LEMMA TickMeans ==
    ASSUME Tick
    PROVE  /\ UNCHANGED <<world, torn, event, agent, exec>>
           /\ task' = [t \in Tasks |-> task'[t]] /\ run' = [t \in Tasks |-> run'[t]]
           /\ checkpoint' = [t \in Tasks |-> checkpoint'[t]]
           /\ \A t \in Tasks : checkpoint'[t] = [i \in Positions(t) |-> checkpoint'[t][i]]
           /\ \A t \in Tasks : run'[t] = [n \in Runs |-> run'[t][n]]
  BY DEF Tick

\* Neither states nor attempts change; what was not due before still waits for
\* what it waited for.
LEMMA TickRows ==
    ASSUME IInv, Tick, NEW t \in Tasks, NEW k, k = task'[t], NEW rs, rs = run'[t]
    PROVE  /\ RowsOK(t, k, rs)' /\ k.attempts = task[t].attempts
           /\ \A n \in Runs : rs[n].state = run[t][n].state
<1>1. /\ RowsOK(t, task[t], run[t]) /\ task[t] \in TaskRows /\ run[t] \in [Runs -> RunRows]
  BY DEF IInv, TablesOK, Tables
<1>2. UNCHANGED <<world, torn, event>>
  BY DEF Tick
<1>3. PICK q : q = task[t]
  OBVIOUS
<1>4. PICK d : d = IF q.state \in Live THEN Less(q.life) ELSE q.life
  OBVIOUS
<1>5. d \in 0 .. Never
  BY <1>1, <1>3, <1>4, LessIs DEF TaskRows
<1>6. k = [q EXCEPT !.life = d]
  BY <1>3, <1>4 DEF Tick
<1>7. k \in TaskRows /\ k.attempts = q.attempts /\ k.max = q.max /\ k.state = q.state
  BY <1>1, <1>3, <1>5, <1>6 DEF TaskRows
<1>8. ASSUME NEW n \in Runs, NEW r, r = rs[n]
      PROVE  r \in RunRows /\ r.state = run[t][n].state /\ RunOK(t, r)'
  <2>1. PICK o : o = run[t][n]
    OBVIOUS
  <2>2. o \in RunRows /\ RunOK(t, o)
    BY <1>1, <2>1 DEF RowsOK
  <2>3. PICK l, a : l = Less(o.lease) /\ a = Less(o.avail)
    OBVIOUS
  <2>4. /\ l \in 0 .. Never /\ a \in 0 .. Never /\ (a > 0 => o.avail > 0)
        /\ o.avail = Never => a = Never
    BY <2>2, <2>3, LessIs DEF RunRows
  <2>5. r = [o EXCEPT !.lease = l, !.avail = a]
    BY <1>8, <2>1, <2>3 DEF Tick
  <2>6. r \in RunRows /\ r.state = o.state /\ r.wait = o.wait /\ r.wake = o.wake /\ r.avail = a
    BY <2>2, <2>4, <2>5 DEF RunRows
  <2>7. RunOK(t, r)
    BY <2>2, <2>4, <2>6 DEF RunOK
  <2>8. RunOK(t, r)'
    BY <1>2, <2>7 DEF RunOK, Positions, Op
  <2> QED BY <2>1, <2>6, <2>8
<1>9. rs = [n \in Runs |-> rs[n]]
  BY TickMeans
<1>10. rs \in [Runs -> RunRows]
  BY <1>8, <1>9
<1>11. /\ \A n \in Runs : rs[n].state = run[t][n].state
       /\ \A n \in Runs : \A r : r = rs[n] => RunOK(t, r)'
  BY <1>8
<1>12. RowsOK(t, k, rs)'
  BY <1>1, <1>3, <1>7, <1>10, <1>11 DEF RowsOK, TaskRows, RunRows
<1> QED BY <1>3, <1>7, <1>11, <1>12

LEMMA TickStep == ASSUME IInv, Tick PROVE IInv'
<1>1. /\ UNCHANGED <<world, torn, event, agent, exec>>
      /\ task' = [t \in Tasks |-> task'[t]] /\ run' = [t \in Tasks |-> run'[t]]
      /\ checkpoint' = [t \in Tasks |-> checkpoint'[t]]
      /\ \A t \in Tasks : checkpoint'[t] = [i \in Positions(t) |-> checkpoint'[t][i]]
  BY TickMeans
<1>2. ASSUME NEW t \in Tasks, NEW k, NEW rs, k = task'[t], rs = run'[t]
      PROVE  /\ RowsOK(t, k, rs)' /\ k.attempts = task[t].attempts
             /\ \A n \in Runs : rs[n].state = run[t][n].state
  BY <1>2, TickRows
<1>3. TablesOK(Tables)'
  BY <1>1, <1>2, EachRows
<1>4. \A t \in Tasks : RowsOK(t, task[t], run[t])
  BY DEF IInv, TablesOK, Tables
<1>5. Grows
  <2>1. \A t \in Tasks : task[t].attempts \in Nat
    BY <1>4 DEF RowsOK, TaskRows
  <2> QED BY <1>2, <2>1 DEF Grows
<1>6. \A t \in Tasks : \A i \in Positions(t) :
        checkpoint'[t][i] = IF Op(t, i).kind = "sleep" /\ checkpoint[t][i] # None
                            THEN [checkpoint[t][i] EXCEPT !.val = Less(checkpoint[t][i].val)]
                            ELSE checkpoint[t][i]
  BY DEF Tick
<1>7. ASSUME NEW t \in Tasks, NEW i \in Positions(t), NEW c, c = checkpoint'[t][i], c # None
      PROVE  c \in Checkpoints /\ c.owner <= task[t].attempts /\ Made(t, i, c.owner, c.val)
  <2>1. PICK o : o = checkpoint[t][i]
    OBVIOUS
  <2>2. o # None => o \in Checkpoints /\ o.owner <= task[t].attempts /\ Made(t, i, o.owner, o.val)
    BY <2>1 DEF IInv, CheckpointsOK
  <2>3. CASE Op(t, i).kind = "sleep" /\ o # None
    <3>1. o.val \in {0, 1}
      BY <2>2, <2>3 DEF Made
    <3>2. Less(o.val) = 0
      BY <3>1, LessIs
    <3>3. c = [o EXCEPT !.val = 0]
      BY <1>6, <1>7, <2>1, <2>3, <3>2
    <3>4. c \in Checkpoints /\ c.owner = o.owner /\ c.val = 0
      BY <2>2, <2>3, <3>3 DEF Checkpoints, Values
    <3> QED BY <2>2, <2>3, <3>4 DEF Made
  <2>4. CASE ~(Op(t, i).kind = "sleep" /\ o # None)
    <3>1. c = o
      BY <1>6, <1>7, <2>1, <2>4
    <3> QED BY <1>7, <2>2, <3>1
  <2> QED BY <2>3, <2>4
<1>8. CheckpointsOK'
  BY <1>1, <1>3, <1>5, <1>7, EachCheckpoint
<1>9. \A t \in Tasks : \A i \in Positions(t) :
        task[t].state = "running" /\ Replayed(t, i) => checkpoint'[t][i] = checkpoint[t][i]
  BY <1>6 DEF Replayed
<1>10. WorkersOK'
  BY <1>1, <1>2, <1>9, EachWorker
<1>11. AgentsOK' /\ EventsOK'
  BY <1>1 DEF IInv, AgentsOK, EventsOK
<1> QED BY <1>1, <1>3, <1>8, <1>10, <1>11 DEF IInv

-----------------------------------------------------------------------------
(* The invariant. *)

\* No task, no run, no checkpoint, no worker at work.
LEMMA InitOK == ASSUME Init PROVE IInv
<1>1. world \in Worlds /\ task = [t \in Tasks |-> NoTask]
      /\ run = [t \in Tasks |-> [n \in Runs |-> NoRun]]
      /\ checkpoint = [t \in Tasks |-> [i \in Positions(t) |-> None]]
      /\ event = [e \in Events |-> None] /\ agent = [t \in Tasks |-> {}]
      /\ exec = [w \in Workers |-> Idle] /\ torn = {}
  BY DEF Init
<1>2. NoTask \in TaskRows /\ NoTask.state = "none" /\ NoTask.attempts = 0 /\ NoTask.max = 0
  BY NeverIs, RunsAre DEF NoTask, TaskRows
<1>3. NoRun \in RunRows /\ NoRun.state = "none" /\ \A t : RunOK(t, NoRun)
  BY NewRows, BareRow
<1> HIDE DEF NoTask, NoRun
<1>4. ASSUME NEW t \in Tasks PROVE RowsOK(t, task[t], run[t])
  BY <1>1, <1>2, <1>3 DEF RowsOK, Live
<1>5. TablesOK(Tables)
  BY <1>1, <1>2, <1>3, <1>4 DEF TablesOK, Tables
<1>6. EventsOK /\ AgentsOK
  BY <1>1 DEF EventsOK, AgentsOK
<1>7. CheckpointsOK
  BY <1>1 DEF CheckpointsOK
<1>8. WorkersOK
  BY <1>1 DEF WorkersOK
<1> QED BY <1>1, <1>5, <1>6, <1>7, <1>8 DEF IInv

LEMMA ExecuteStep == ASSUME IInv, NEW w \in Workers, Execute(w) PROVE IInv'
<1>1. CASE Defer(w)
  BY <1>1, DeferStep
<1>2. CASE LoadCheckpoints(w)
  BY <1>2, LoadCheckpointsStep
<1>3. CASE Start(w)
  BY <1>3, StartStep
<1>4. CASE BeginStep(w)
  BY <1>4, BeginStepStep
<1>5. CASE Effect(w)
  BY <1>5, EffectStep
<1>6. CASE CheckOwner(w)
  BY <1>6, CheckOwnerStep
<1>7. CASE WriteCheckpoint(w)
  BY <1>7, WriteCheckpointStep
<1>8. CASE SleepUntil(w)
  BY <1>8, SleepUntilStep
<1>9. CASE AwaitEvent(w)
  BY <1>9, AwaitEventStep
<1>10. CASE AskAgent(w)
  BY <1>10, AskAgentStep
<1>11. CASE AgentAnswers(w)
  BY <1>11, AgentAnswersStep
<1>12. CASE Complete(w)
  BY <1>12, CompleteStep
<1>13. CASE Fail(w)
  BY <1>13, FailStep
<1>14. CASE LookUpOwner(w)
  BY <1>14, LookUpOwnerStep
<1>15. CASE Overwrite(w)
  BY <1>15, OverwriteStep
<1>16. CASE CallTool(w)
  BY <1>16, CallToolStep
<1> QED
  BY <1>1, <1>2, <1>3, <1>4, <1>5, <1>6, <1>7, <1>8, <1>9, <1>10, <1>11, <1>12, <1>13, <1>14, <1>15, <1>16
     DEF Execute

LEMMA StutterStep == ASSUME IInv, UNCHANGED vars PROVE IInv'
<1>1. UNCHANGED <<world, torn, task, run, checkpoint, event, agent, exec>>
  BY DEF vars
<1> QED BY <1>1, TablesStay, StayKeeps

LEMMA NextStep == ASSUME IInv, [Next]_vars PROVE IInv'
<1>1. ASSUME NEW t \in Tasks, Spawn(t) \/ Cancel(t) \/ Retry(t) \/ AgentEnds(t) PROVE IInv'
  BY <1>1, SpawnStep, CancelStep, RetryStep, AgentEndsStep
<1>2. ASSUME NEW e \in Events, NEW p \in Payloads, Emit(e, p) PROVE IInv'
  BY <1>2, EmitStep
<1>3. ASSUME NEW w \in world.workers, Claim(w) \/ Execute(w) \/ Heartbeat(w) \/ Crash(w) PROVE IInv'
  <2>1. w \in Workers
    BY WorldTypes DEF IInv
  <2> QED BY <1>3, <2>1, ClaimStep, ExecuteStep, HeartbeatStep, CrashStep
<1>4. ASSUME Tick PROVE IInv'
  BY <1>4, TickStep
<1> QED BY <1>1, <1>2, <1>3, <1>4, StutterStep DEF Next

\* The inductive invariant holds in every state of every behaviour.
LEMMA Invariance == Spec => []IInv
<1>1. Init => IInv
  BY InitOK
<1>2. IInv /\ [Next]_vars => IInv'
  BY NextStep
<1> QED BY <1>1, <1>2, PTL DEF Spec

-----------------------------------------------------------------------------
(* What it means. *)

LEMMA TypesFollow == ASSUME IInv PROVE TypeOK
<1>1. \A t \in Tasks : RowsOK(t, task[t], run[t])
  BY DEF IInv, TablesOK, Tables
<1>2. task \in [Tasks -> TaskRows] /\ \A t \in Tasks : task[t].attempts <= task[t].max
  BY <1>1 DEF IInv, TablesOK, Tables, RowsOK
<1>3. ASSUME NEW t \in Tasks, NEW n \in Runs
      PROVE  /\ run[t][n].state \in Live \cup Terminal \cup {"none"}
             /\ run[t][n].lease \in 0 .. Never /\ run[t][n].avail \in 0 .. Never
             /\ run[t][n].wait # None => run[t][n].wait.step \in Positions(t)
  <2>1. run[t][n] \in RunRows /\ RunOK(t, run[t][n])
    BY <1>1 DEF RowsOK
  <2> QED BY <2>1 DEF RunRows, RunOK
<1>4. ASSUME NEW w \in Workers, exec[w] # Idle
      PROVE  exec[w].step \in 1 .. Len(world.program[exec[w].task]) + 1
  <2>1. PICK x : x = exec[w]
    OBVIOUS
  <2>2. x.task \in Tasks /\ x.step \in Nat \ {0} /\ x.step <= Len(world.program[x.task]) + 1
    BY <1>4, <2>1, WorkerTypes DEF WorkerOK
  <2>3. Len(world.program[x.task]) \in Nat
    BY <2>2, PositionTypes DEF IInv
  <2> QED BY <2>1, <2>2, <2>3
<1>5. torn \subseteq Tasks
  BY DEF IInv, EventsOK
<1> QED BY <1>2, <1>3, <1>4, <1>5 DEF TypeOK, TaskRows

LEMMA OneLiveRunFollows == ASSUME IInv PROVE OneLiveRun
<1> SUFFICES ASSUME NEW t \in Tasks
             PROVE  IF task[t].state \in Live
                    THEN /\ {n \in Runs : run[t][n].state \in Live} = {task[t].attempts}
                         /\ run[t][task[t].attempts].state = task[t].state
                    ELSE {n \in Runs : run[t][n].state \in Live} = {}
  BY DEF OneLiveRun
<1>1. RowsOK(t, task[t], run[t])
  BY DEF IInv, TablesOK, Tables
<1> QED BY <1>1 DEF RowsOK

LEMMA NoLostWakeupFollows == ASSUME IInv PROVE NoLostWakeup
<1>1. \A t \in Tasks : \A n \in Runs : RunOK(t, run[t][n])
  BY DEF IInv, TablesOK, Tables, RowsOK
<1> QED BY <1>1 DEF NoLostWakeup, RunOK

LEMMA FencedSoonFollows == ASSUME IInv PROVE FencedSoon
<1> SUFFICES ASSUME NEW w \in Workers, exec[w] # Idle, ~Unfenced(exec[w].task)
             PROVE  exec[w].fenced <= 1
  BY DEF FencedSoon
<1>1. WorkerOK(exec[w])
  BY DEF IInv, WorkersOK
<1> QED BY <1>1 DEF WorkerOK

LEMMA ReplayAgreesFollows == ASSUME IInv PROVE ReplayAgrees
<1> SUFFICES ASSUME NEW w \in Workers, NEW x, x = exec[w], x # Idle,
                    run[x.task][x.run].state = "running", x.task \notin torn,
                    NEW i \in 1 .. x.step - 1, Replayed(x.task, i), x.seen[i] # TimedOut
             PROVE  checkpoint[x.task][i] # None /\ checkpoint[x.task][i].val = x.seen[i]
  BY DEF ReplayAgrees, Holds, RunOf
<1>1. WorkerOK(x) /\ x.task \in Tasks /\ x.step \in Nat \ {0}
  BY WorkerTypes
<1>2. Remembers(x) /\ x.step <= Len(world.program[x.task]) + 1
  BY <1>1 DEF WorkerOK, StateOf
<1>3. Len(world.program[x.task]) \in Nat
  BY <1>1, PositionTypes DEF IInv
<1>4. i \in Positions(x.task) /\ i < x.step
  BY <1>1, <1>2, <1>3 DEF Positions
<1> QED BY <1>2, <1>4 DEF Remembers

-----------------------------------------------------------------------------
(* Theorems. *)

\* Rows, checkpoints and executions have their types, attempts stay within
\* max_attempts, and waits are at operations of the handler: what the migrations'
\* CHECKs and claim_task, fail_run and retry_task promise together.
THEOREM TypeOKHolds == Spec => []TypeOK
<1>1. IInv => TypeOK
  BY TypesFollow
<1> QED BY <1>1, Invariance, PTL

\* Claims, sweeps, failures, waits, emitters, retries and cancellations, in any
\* order, leave a task that is not over exactly one run that is not over, its
\* latest attempt, in the same state, and a task that is over none.
THEOREM OneLiveRunHolds == Spec => []OneLiveRun
<1>1. IInv => OneLiveRun
  BY OneLiveRunFollows
<1> QED BY <1>1, Invariance, PTL

\* await_event and emit_event, in any order and with timeouts in between, leave
\* no run asleep that is not due and whose event was emitted.
THEOREM NoLostWakeupHolds == Spec => []NoLostWakeup
<1>1. IInv => NoLostWakeup
  BY NoLostWakeupFollows
<1> QED BY <1>1, Invariance, PTL

\* A worker whose run was swept or cancelled under it computes at most one step
\* more before set_task_checkpoint_state ends its execution, in handlers that do
\* what they do outside within steps.
THEOREM FencedSoonHolds == Spec => []FencedSoon
<1>1. IInv => FencedSoon
  BY FencedSoonFollows
<1> QED BY <1>1, Invariance, PTL

\* All attempts at a task go on with values that stay in the checkpoints: neither
\* a late call of an attempt before, whose check of the states was not locked, nor
\* an emitter replaces what a running handler has used, unless the task lost a
\* run by a sweep within the very call that writes.
THEOREM ReplayAgreesHolds == Spec => []ReplayAgrees
<1>1. IInv => ReplayAgrees
  BY ReplayAgreesFollows
<1> QED BY <1>1, Invariance, PTL
=============================================================================
