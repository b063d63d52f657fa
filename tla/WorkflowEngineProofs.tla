------------------------ MODULE WorkflowEngineProofs ------------------------
(***************************************************************************)
(* Proofs about WorkflowEngine: what has ended stays, and what a call      *)
(* returned it returns again at every replay, for all programs, workers,   *)
(* events and hazards.                                                     *)
(*                                                                         *)
(* The argument for replays: results are never overwritten.  A worker      *)
(* writes a checkpoint only while it owns the run, and while it does its   *)
(* memory of the checkpoints is exact, because nobody else writes them.    *)
(* It writes only where it remembers no result, so there is none.          *)
(***************************************************************************)
EXTENDS WorkflowEngine, FiniteSetTheorems, TLAPS

Dues     == {Now, Never} \cup Places
Statuses == {"none", "queued", "running"} \cup Suspended \cup Terminal

\* Executions of agent turns, and those a cancel came over.
TurnStates == {"none", "running", "cancelling", "cancelled"} \cup Outcomes
Late       == {"cancelling", "cancelled"}

\* Whoever is past loading the checkpoints and not yet past the last use of them.
Loaded(x) == x.pc \notin {"load", "tell", "notify"}

\* The memory a worker has of its run's checkpoints: results it remembers
\* are still there, and while it owns the run it remembers all.
Remembers(x) ==
    /\ x.seen = [i \in Places |-> x.seen[i]]
    /\ \A i \in Places :
         /\ IsResult(x.seen[i]) => checkpoint[x.run][i] = x.seen[i]
         /\ run[x.run].owner = x.id => x.seen[i] = checkpoint[x.run][i]

\* What a worker is about to write, and where.
AboutToWrite(x) ==
    /\ x.at \in DOMAIN Program(x.run)
    /\ ~IsResult(x.seen[x.at])
    /\ IsResult(x.value) \/ x.value \in {Marker, WakeTime}
    /\ Program(x.run)[x.at].op = "sleep" => x.value = WakeTime
    /\ Program(x.run)[x.at].op = "turn"  => IsResult(x.value)

Pcs == {"load", "call", "persist", "linked", "suspend", "finish", "tell", "notify"}

\* The records of workers, by what they hold.
Shape(id, r, seen, value, then) ==
    [id : {id}, run : {r}, pc : Pcs, at : Nat, seen : {seen}, value : {value},
     then : {then}, due : Dues]

WorkerOK(x) ==
    /\ x \in Shape(x.id, x.run, x.seen, x.value, x.then)
    /\ x.id \in Nat \ {0} /\ x.id <= claims /\ x.run \in Runs
    /\ \A r \in Runs : run[r].owner = x.id => r = x.run
    /\ Loaded(x) => Remembers(x)
    /\ x.pc = "persist" => AboutToWrite(x)
    /\ x.pc \in {"linked", "suspend"} => x.then \in Suspended
    /\ x.pc = "finish" => x.then \in Terminal

WorkersOK ==
    /\ worker = [w \in Workers |-> worker[w]]
    /\ \A w \in Workers : worker[w] # None => WorkerOK(worker[w])
    /\ \A w, x \in Workers : /\ worker[w] # None /\ worker[x] # None
                             /\ worker[w].id = worker[x].id
                             => w = x

RunsOK ==
    /\ run \in [Runs -> [status : Statuses, due : Dues, owner : Nat, leased : BOOLEAN]]
    /\ claims \in Nat
    /\ \A r \in Runs : /\ run[r].owner # 0 <=> run[r].status = "running"
                       /\ run[r].leased => run[r].status = "running"
                       /\ run[r].owner <= claims
    /\ \A r, s \in Runs : run[r].owner = run[s].owner => r = s \/ run[r].owner = 0

CheckpointsOK ==
    /\ checkpoint = [r \in Runs |-> [i \in Places |-> checkpoint[r][i]]]
    /\ \A r \in Runs : \A i \in Places :
         IsResult(checkpoint[r][i]) \/ checkpoint[r][i] \in {Nothing, Marker, WakeTime}

\* What calls returned: that a time has come, how a turn has ended (unless a cancel
\* came over it), or the checkpoint.
UsedAt(r, i) ==
    \/ used[r][i] = {}
    \/ /\ i \in DOMAIN Program(r)
       /\ CASE Program(r)[i].op = "sleep" -> used[r][i] = {"slept"}
            [] Program(r)[i].op = "turn"  ->
                 turn[r][i] \in Late \/ (turn[r][i] \in Outcomes /\ used[r][i] = {turn[r][i]})
            [] OTHER -> /\ IsResult(checkpoint[r][i])
                        /\ used[r][i] = {checkpoint[r][i].v}

UsedOK ==
    /\ turn \in [Runs -> [Places -> TurnStates]]
    /\ used = [r \in Runs |-> [i \in Places |-> used[r][i]]]
    /\ \A r \in Runs : \A i \in Places : UsedAt(r, i)

IInv == world \in Worlds /\ RunsOK /\ WorkersOK /\ CheckpointsOK /\ UsedOK

-----------------------------------------------------------------------------
\* The places of a program are places.
LEMMA ProgramPlaces ==
    ASSUME world \in Worlds, NEW r \in Runs
    PROVE  /\ DOMAIN Program(r) \subseteq Places
           /\ DOMAIN Program(r) \subseteq Nat \ {0}
<1>1. world.program[r] \in Seq(Calls)
  BY EngineAssumption
<1>2. DOMAIN world.program[r] \subseteq Nat \ {0}
  BY <1>1
<1>3. DOMAIN world.program[r] \in {DOMAIN world.program[s] : s \in Runs}
  OBVIOUS
<1>4. DOMAIN world.program[r] \subseteq UNION {DOMAIN world.program[s] : s \in Runs}
  BY <1>3
<1>5. UNION {DOMAIN world.program[s] : s \in Runs} \subseteq Places
  BY DEF Places
<1> QED BY <1>2, <1>4, <1>5 DEF Program

\* The invariant holds at the beginning.
LEMMA InitIInv == Init => IInv
<1> SUFFICES ASSUME Init PROVE IInv
  OBVIOUS
<1>1. RunsOK
  <2> DEFINE Rows == [status : Statuses, due : Dues, owner : Nat, leased : BOOLEAN]
             Asked == [NoRun EXCEPT !.status = "queued"]
  <2>1. NoRun \in Rows /\ NoRun.owner = 0 /\ NoRun.leased = FALSE /\ NoRun.status = "none"
    BY DEF NoRun, Now, Statuses, Dues
  <2>2. Asked \in Rows /\ Asked.owner = 0 /\ Asked.leased = FALSE /\ Asked.status = "queued"
    BY <2>1 DEF Statuses
  <2>3. run = [r \in Runs |-> IF r \in world.roots THEN Asked ELSE NoRun] /\ claims = 0
    BY DEF Init
  <2>4. run \in [Runs -> Rows]
    BY <2>1, <2>2, <2>3
  <2>5. \A r \in Runs : run[r].owner = 0 /\ run[r].leased = FALSE /\ run[r].status # "running"
    BY <2>1, <2>2, <2>3
  <2> QED BY <2>3, <2>4, <2>5 DEF RunsOK
<1>2. WorkersOK
  BY DEF Init, WorkersOK
<1>3. CheckpointsOK
  BY DEF Init, CheckpointsOK
<1>4. UsedOK
  BY DEF Init, UsedOK, UsedAt, TurnStates
<1> QED BY <1>1, <1>2, <1>3, <1>4 DEF Init, IInv

-----------------------------------------------------------------------------
(* Steps, by what they change. *)

\* What a worker knows stays true while its run, and the run's checkpoints, do.
LEMMA WorkerOKKept ==
    ASSUME IInv, NEW x, WorkerOK(x),
           UNCHANGED <<world, checkpoint>>, claims' \in Nat, claims <= claims',
           \A r \in Runs : run'[r].owner = x.id => run[r].owner = x.id
    PROVE  WorkerOK(x)'
<1>1. x.run \in Runs /\ x.id \in Nat
  BY DEF WorkerOK
<1>2. x.id <= claims'
  BY <1>1 DEF WorkerOK, IInv, RunsOK
<1>3. Places' = Places /\ Dues' = Dues
  BY DEF Places, Dues, Now, Never
<1>4. Remembers(x) => Remembers(x)'
  BY <1>1, <1>3 DEF Remembers, IsResult
<1>5. AboutToWrite(x) => AboutToWrite(x)'
  BY DEF AboutToWrite, Program, IsResult, Marker, WakeTime
<1> QED BY <1>1, <1>2, <1>3, <1>4, <1>5 DEF WorkerOK, Loaded, Shape, Suspended, Terminal

\* Rows, checkpoints and what calls returned stay well formed while they stay.
LEMMA SameRuns ==
    ASSUME IInv, UNCHANGED <<run, claims>>
    PROVE  RunsOK'
<1>1. Places' = Places /\ Dues' = Dues
  BY DEF Places, Dues, Now, Never
<1> QED BY <1>1 DEF IInv, RunsOK, Statuses, Suspended, Terminal

\* How a turn ended stays, unless a cancel comes over it.
TurnsKept ==
    /\ turn' \in [Runs -> [Places -> TurnStates]]
    /\ \A r \in Runs : \A i \in Places :
         /\ turn[r][i] \in Outcomes => turn'[r][i] = turn[r][i] \/ turn'[r][i] \in Late
         /\ turn[r][i] \in Late => turn'[r][i] \in Late

LEMMA TurnsUsed ==
    ASSUME IInv, UNCHANGED <<world, checkpoint, used>>, TurnsKept
    PROVE  UsedOK'
<1>1. Places' = Places
  BY DEF Places
<1>2. ASSUME NEW r \in Runs, NEW i \in Places PROVE UsedAt(r, i)'
  <2>1. UsedAt(r, i) /\ used'[r][i] = used[r][i] /\ checkpoint'[r][i] = checkpoint[r][i]
    BY DEF IInv, UsedOK
  <2>2. Program(r)' = Program(r)
    BY DEF Program
  <2> QED BY <2>1, <2>2 DEF TurnsKept, UsedAt, IsResult, Outcomes, Late
<1> QED BY <1>1, <1>2 DEF IInv, UsedOK, TurnsKept, TurnStates, Outcomes

LEMMA SameUsed ==
    ASSUME IInv, UNCHANGED <<world, checkpoint, used, turn>>
    PROVE  UsedOK'
<1>1. TurnsKept
  BY DEF IInv, UsedOK, TurnsKept
<1> QED BY <1>1, TurnsUsed

\* A turn that changes its state.
LEMMA TurnChanges ==
    ASSUME IInv, NEW r \in Runs, NEW i \in Places, NEW s \in TurnStates,
           turn' = [turn EXCEPT ![r][i] = s],
           s \in Late \/ s = turn[r][i] \/ turn[r][i] \in {"none", "running"}
    PROVE  TurnsKept
<1>1. turn' \in [Runs -> [Places -> TurnStates]]
  BY DEF IInv, UsedOK
<1>2. \A q \in Runs : \A j \in Places : turn'[q][j] = IF q = r /\ j = i THEN s ELSE turn[q][j]
  BY DEF IInv, UsedOK
<1> QED BY <1>1, <1>2 DEF TurnsKept, Outcomes, Late

LEMMA SameCheckpoints ==
    ASSUME IInv, UNCHANGED checkpoint
    PROVE  CheckpointsOK'
<1>1. Places' = Places
  BY DEF Places
<1> QED BY <1>1 DEF IInv, CheckpointsOK, IsResult, Nothing, Marker, WakeTime

OwnersOnlyLeave == \A r \in Runs : run'[r].owner \in {0, run[r].owner}

\* A worker that goes on, or leaves, and takes no run.
LEMMA WorkerGoesOn ==
    ASSUME IInv, NEW w \in Workers, worker[w] # None, NEW x,
           x # None => WorkerOK(x) /\ x.id = worker[w].id,
           worker' = [worker EXCEPT ![w] = x],
           RunsOK', UsedOK', OwnersOnlyLeave, UNCHANGED <<world, checkpoint, claims>>
    PROVE  IInv'
<1>1. CheckpointsOK' /\ (world \in Worlds)'
  BY SameCheckpoints DEF IInv
<1>2. claims' \in Nat /\ claims <= claims'
  BY DEF IInv, RunsOK
<1>3. \A v \in Workers : worker'[v] # None => WorkerOK(worker'[v])
  BY DEF IInv, WorkersOK
<1>4. ASSUME NEW y, WorkerOK(y) PROVE WorkerOK(y)'
  <2>1. y.id # 0
    BY <1>4 DEF WorkerOK
  <2>2. \A r \in Runs : run'[r].owner = y.id => run[r].owner = y.id
    BY <2>1 DEF OwnersOnlyLeave
  <2> QED BY <1>2, <1>4, <2>2, WorkerOKKept
<1>5. WorkersOK'
  BY <1>3, <1>4 DEF IInv, WorkersOK
<1> QED BY <1>1, <1>5 DEF IInv

\* A step of no worker that takes no run.
LEMMA OthersStep ==
    ASSUME IInv, RunsOK', UsedOK', OwnersOnlyLeave,
           UNCHANGED <<world, checkpoint, claims, worker>>
    PROVE  IInv'
<1>1. CheckpointsOK' /\ (world \in Worlds)'
  BY SameCheckpoints DEF IInv
<1>2. claims' \in Nat /\ claims <= claims'
  BY DEF IInv, RunsOK
<1>3. ASSUME NEW y, WorkerOK(y) PROVE WorkerOK(y)'
  <2>1. y.id # 0
    BY <1>3 DEF WorkerOK
  <2>2. \A r \in Runs : run'[r].owner = y.id => run[r].owner = y.id
    BY <2>1 DEF OwnersOnlyLeave
  <2> QED BY <1>2, <1>3, <2>2, WorkerOKKept
<1>4. WorkersOK'
  BY <1>3 DEF IInv, WorkersOK
<1> QED BY <1>1, <1>4 DEF IInv

LEMMA SameOwners == ASSUME UNCHANGED run PROVE OwnersOnlyLeave
  BY DEF OwnersOnlyLeave

Rows == [status : Statuses, due : Dues, owner : Nat, leased : BOOLEAN]

\* A run that nobody runs any more, or yet.
LEMMA RunLeft ==
    ASSUME IInv, NEW r \in Runs, NEW row \in Rows,
           row.owner = 0, row.leased = FALSE, row.status # "running",
           run' = [run EXCEPT ![r] = row], UNCHANGED claims
    PROVE  RunsOK' /\ OwnersOnlyLeave
<1>1. Places' = Places /\ Dues' = Dues /\ Statuses' = Statuses
  BY DEF Places, Dues, Now, Never, Statuses, Suspended, Terminal
<1>2. run' \in [Runs -> Rows]
  BY DEF IInv, RunsOK, Rows
<1>3. \A s \in Runs : run'[s] = IF s = r THEN row ELSE run[s]
  BY DEF IInv, RunsOK
<1> QED BY <1>1, <1>2, <1>3 DEF IInv, RunsOK, OwnersOnlyLeave, Rows

-----------------------------------------------------------------------------
(* The steps of no worker. *)

LEMMA WakeStep == ASSUME IInv, NEW n \in notices, Wake(n) PROVE IInv'
<1>1. RunsOK' /\ OwnersOnlyLeave
  <2>1. Places' = Places /\ Dues' = Dues
    BY DEF Places, Dues, Now, Never
  <2>2. \A r \in Runs : run'[r] \in {run[r], [run[r] EXCEPT !.due = Now]}
    BY DEF Wake
  <2>3. \A r \in Runs :
          /\ run'[r] \in [status : Statuses, due : Dues, owner : Nat, leased : BOOLEAN]
          /\ run'[r].status = run[r].status /\ run'[r].owner = run[r].owner
          /\ run'[r].leased = run[r].leased
    BY <2>2 DEF IInv, RunsOK, Dues
  <2>4. run' \in [Runs -> [status : Statuses, due : Dues, owner : Nat, leased : BOOLEAN]]
    BY <2>3 DEF Wake
  <2>5. claims' = claims
    BY DEF Wake
  <2> QED BY <2>1, <2>3, <2>4, <2>5 DEF IInv, RunsOK, OwnersOnlyLeave, Statuses, Suspended, Terminal
<1>2. UsedOK'
  BY SameUsed DEF Wake
<1> QED BY <1>1, <1>2, OthersStep DEF Wake

LEMMA CancelStep == ASSUME IInv, NEW r \in Runs, CancelRun(r) PROVE IInv'
<1>1. RunsOK' /\ OwnersOnlyLeave
  <2>1. Places' = Places /\ Dues' = Dues
    BY DEF Places, Dues, Now, Never
  <2> DEFINE row == [run[r] EXCEPT !.status = "cancelled", !.owner = 0, !.leased = FALSE]
  <2>2. row \in Rows /\ row.owner = 0 /\ row.leased = FALSE /\ row.status = "cancelled"
    BY ZenonT(40) DEF IInv, RunsOK, Rows, Statuses, Terminal
  <2>3. run' = [run EXCEPT ![r] = row] /\ claims' = claims
    BY DEF CancelRun
  <2> QED BY <2>2, <2>3, RunLeft
<1>2. TurnsKept
  <2>1. \A q \in Runs : \A i \in Places :
          \/ turn'[q][i] = turn[q][i]
          \/ turn[q][i] = "running" /\ turn'[q][i] = "cancelled"
    BY DEF CancelRun, IInv, UsedOK
  <2>2. turn' \in [Runs -> [Places -> TurnStates]]
    BY DEF CancelRun, IInv, UsedOK, TurnStates
  <2> QED BY <2>1, <2>2 DEF TurnsKept, Outcomes, Late
<1>3. UsedOK'
  BY <1>2, TurnsUsed DEF CancelRun
<1> QED BY <1>1, <1>3, OthersStep DEF CancelRun, rows

LEMMA LapseStep == ASSUME IInv, NEW r \in Runs, LeaseLapses(r) PROVE IInv'
<1>1. RunsOK' /\ OwnersOnlyLeave
  <2>1. Places' = Places /\ Dues' = Dues
    BY DEF Places, Dues, Now, Never
  <2>2. run' = [run EXCEPT ![r].leased = FALSE] /\ claims' = claims
    BY DEF LeaseLapses
  <2> QED BY <2>1, <2>2 DEF IInv, RunsOK, OwnersOnlyLeave, Statuses, Suspended, Terminal
<1>2. UsedOK'
  BY SameUsed DEF LeaseLapses
<1> QED BY <1>1, <1>2, OthersStep DEF LeaseLapses

\* Steps that change neither rows nor workers.
LEMMA OutsideStep ==
    ASSUME IInv, UNCHANGED <<world, rows, worker, claims>>, UsedOK'
    PROVE  IInv'
  BY SameRuns, SameOwners, OthersStep DEF rows

LEMMA TurnStep ==
    ASSUME IInv, NEW r \in Runs, NEW i \in Places, TurnEnds(r, i) \/ CancelTurn(r, i)
    PROVE  IInv'
<1>1. CASE TurnEnds(r, i)
  <2>1. PICK s \in TurnStates : /\ turn' = [turn EXCEPT ![r][i] = s]
                                /\ s \in Late \/ turn[r][i] = "running"
    BY <1>1 DEF TurnEnds, TurnStates, Late
  <2>2. TurnsKept
    BY <2>1, TurnChanges
  <2>3. UsedOK'
    BY <1>1, <2>2, TurnsUsed DEF TurnEnds, rows
  <2> QED BY <1>1, <2>3, OutsideStep DEF TurnEnds
<1>2. CASE CancelTurn(r, i)
  <2>1. "cancelling" \in TurnStates /\ "cancelling" \in Late
    BY DEF TurnStates, Late
  <2>2. TurnsKept
    BY <1>2, <2>1, TurnChanges DEF CancelTurn
  <2>3. UsedOK'
    BY <1>2, <2>2, TurnsUsed DEF CancelTurn, rows
  <2> QED BY <1>2, <2>3, OutsideStep DEF CancelTurn
<1> QED BY <1>1, <1>2

-----------------------------------------------------------------------------
(* The moves of a worker. *)

\* Changes of one field.
LEMMA SetPc ==
    ASSUME NEW i, NEW r, NEW s, NEW v, NEW t, NEW y \in Shape(i, r, s, v, t), NEW p \in Pcs
    PROVE  [y EXCEPT !.pc = p] \in Shape(i, r, s, v, t)
  BY DEF Shape
LEMMA SetAt ==
    ASSUME NEW i, NEW r, NEW s, NEW v, NEW t, NEW y \in Shape(i, r, s, v, t), NEW n \in Nat
    PROVE  [y EXCEPT !.at = n] \in Shape(i, r, s, v, t)
  BY DEF Shape
LEMMA SetDue ==
    ASSUME NEW i, NEW r, NEW s, NEW v, NEW t, NEW y \in Shape(i, r, s, v, t), NEW d \in Dues
    PROVE  [y EXCEPT !.due = d] \in Shape(i, r, s, v, t)
  BY DEF Shape
LEMMA SetValue ==
    ASSUME NEW i, NEW r, NEW s, NEW v, NEW t, NEW y \in Shape(i, r, s, v, t), NEW v1
    PROVE  [y EXCEPT !.value = v1] \in Shape(i, r, s, v1, t)
  BY DEF Shape
LEMMA SetThen ==
    ASSUME NEW i, NEW r, NEW s, NEW v, NEW t, NEW y \in Shape(i, r, s, v, t), NEW t1
    PROVE  [y EXCEPT !.then = t1] \in Shape(i, r, s, v, t1)
  BY DEF Shape
LEMMA SetSeen ==
    ASSUME NEW i, NEW r, NEW s, NEW v, NEW t, NEW y \in Shape(i, r, s, v, t), NEW s1
    PROVE  [y EXCEPT !.seen = s1] \in Shape(i, r, s1, v, t)
  BY DEF Shape

\* What a record of a shape holds.
LEMMA ShapeFields ==
    ASSUME NEW i, NEW r, NEW s, NEW v, NEW t, NEW y \in Shape(i, r, s, v, t)
    PROVE  /\ y.id = i /\ y.run = r /\ y.seen = s /\ y.value = v /\ y.then = t
           /\ y.pc \in Pcs /\ y.at \in Nat /\ y.due \in Dues
  BY DEF Shape

\* A worker past its load that moves within its run.
LEMMA MovesOK ==
    ASSUME IInv, NEW w \in Workers, worker[w] # None, Loaded(worker[w]), NEW v, NEW t,
           NEW x \in Shape(worker[w].id, worker[w].run, worker[w].seen, v, t),
           x.pc # "load", x.pc = "persist" => AboutToWrite(x),
           x.pc \in {"linked", "suspend"} => t \in Suspended,
           x.pc = "finish" => t \in Terminal,
           worker' = [worker EXCEPT ![w] = x],
           RunsOK', UsedOK', OwnersOnlyLeave, UNCHANGED <<world, checkpoint, claims>>
    PROVE  IInv'
<1> DEFINE y == worker[w]
<1>1. WorkerOK(y)
  BY DEF IInv, WorkersOK
<1>2. x.id = y.id /\ x.run = y.run /\ x.seen = y.seen /\ x.value = v /\ x.then = t
  BY ShapeFields
<1>3. Remembers(x)
  BY <1>1, <1>2 DEF WorkerOK, Remembers
<1>4. WorkerOK(x)
  BY <1>1, <1>2, <1>3 DEF WorkerOK, Loaded
<1> QED BY <1>2, <1>4, WorkerGoesOn

\* What a worker is, seen from its fields.
LEMMA WorkerFields ==
    ASSUME IInv, NEW w \in Workers, worker[w] # None
    PROVE  /\ worker[w] \in Shape(worker[w].id, worker[w].run, worker[w].seen,
                                  worker[w].value, worker[w].then)
           /\ worker[w].run \in Runs /\ worker[w].at \in Nat
           /\ worker = [v \in Workers |-> worker[v]]
<1>1. WorkerOK(worker[w]) /\ worker = [v \in Workers |-> worker[v]]
  BY DEF IInv, WorkersOK
<1> QED BY <1>1, ShapeFields DEF WorkerOK

LEMMA FinishMove ==
    ASSUME IInv, NEW w \in Workers, worker[w] # None, Loaded(worker[w]),
           NEW s \in Terminal, Finish(w, s),
           RunsOK', UsedOK', OwnersOnlyLeave, UNCHANGED <<world, checkpoint, claims>>
    PROVE  IInv'
<1> DEFINE y == worker[w]
           z == [y EXCEPT !.pc = "finish"]
           x == [z EXCEPT !.then = s]
<1>1. worker' = [worker EXCEPT ![w] = x]
  BY WorkerFields DEF Finish, Shape
<1>2. x \in Shape(y.id, y.run, y.seen, y.value, s)
  <2>0. "finish" \in Pcs
    BY DEF Pcs
  <2>1. y \in Shape(y.id, y.run, y.seen, y.value, y.then)
    BY WorkerFields, Zenon
  <2>2. z \in Shape(y.id, y.run, y.seen, y.value, y.then)
    BY <2>0, <2>1, SetPc, Zenon
  <2> QED BY <2>2, SetThen, Zenon
<1>3. x.pc = "finish"
  BY WorkerFields DEF Shape
<1> QED BY <1>1, <1>2, <1>3, MovesOK

LEMMA PersistMove ==
    ASSUME IInv, NEW w \in Workers, worker[w] # None, Loaded(worker[w]),
           NEW v, Persist(w, v),
           Place(w) \in DOMAIN Program(Run(w)), ~IsResult(Seen(w)),
           IsResult(v) \/ v \in {Marker, WakeTime}, Call(w).op = "sleep" => v = WakeTime,
           Call(w).op = "turn" => IsResult(v),
           RunsOK', UsedOK', OwnersOnlyLeave, UNCHANGED <<world, checkpoint, claims>>
    PROVE  IInv'
<1> DEFINE y == worker[w]
           z == [y EXCEPT !.pc = "persist"]
           x == [z EXCEPT !.value = v]
<1>1. worker' = [worker EXCEPT ![w] = x]
  BY WorkerFields DEF Persist, Shape
<1>2. x \in Shape(y.id, y.run, y.seen, v, y.then)
  <2>0. "persist" \in Pcs
    BY DEF Pcs
  <2>1. y \in Shape(y.id, y.run, y.seen, y.value, y.then)
    BY WorkerFields, Zenon
  <2>2. z \in Shape(y.id, y.run, y.seen, y.value, y.then)
    BY <2>0, <2>1, SetPc, Zenon
  <2> QED BY <2>2, SetValue, Zenon
<1>3. x.pc = "persist" /\ x.at = y.at /\ x.run = y.run /\ x.seen = y.seen /\ x.value = v
  BY WorkerFields DEF Shape
<1>4. AboutToWrite(x)
  BY <1>3 DEF AboutToWrite, Place, Run, Call, Seen
<1> QED BY <1>1, <1>2, <1>3, <1>4, MovesOK

LEMMA SuspendMove ==
    ASSUME IInv, NEW w \in Workers, worker[w] # None, Loaded(worker[w]),
           NEW s \in Suspended, NEW due \in Dues, Suspend(w, s, due),
           RunsOK', UsedOK', OwnersOnlyLeave, UNCHANGED <<world, checkpoint, claims>>
    PROVE  IInv'
<1> DEFINE y == worker[w]
           pc == IF s = "waiting" THEN "linked" ELSE "suspend"
           u == [y EXCEPT !.pc = pc]
           z == [u EXCEPT !.then = s]
           x == [z EXCEPT !.due = due]
<1>1. worker' = [worker EXCEPT ![w] = x]
  BY WorkerFields DEF Suspend, Shape
<1>2. z \in Shape(y.id, y.run, y.seen, y.value, s)
  <2>0. pc \in Pcs
    BY DEF Pcs
  <2>1. y \in Shape(y.id, y.run, y.seen, y.value, y.then)
    BY WorkerFields, Zenon
  <2>2. u \in Shape(y.id, y.run, y.seen, y.value, y.then)
    BY <2>0, <2>1, SetPc, Zenon
  <2> QED BY <2>2, SetThen, Zenon
<1>3. x \in Shape(y.id, y.run, y.seen, y.value, s)
  BY <1>2, SetDue, Zenon
<1>4. x.pc \in {"linked", "suspend"}
  BY WorkerFields DEF Shape
<1> QED BY <1>1, <1>3, <1>4, MovesOK

LEMMA GotoMove ==
    ASSUME IInv, NEW w \in Workers, worker[w] # None,
           NEW pc \in {"tell", "notify"}, Goto(w, pc),
           RunsOK', UsedOK', OwnersOnlyLeave, UNCHANGED <<world, checkpoint, claims>>
    PROVE  IInv'
<1> DEFINE y == worker[w]
           x == [y EXCEPT !.pc = pc]
<1>1. worker' = [worker EXCEPT ![w] = x]
  BY WorkerFields DEF Goto
<1>2. x \in Shape(y.id, y.run, y.seen, y.value, y.then)
  <2>0. pc \in Pcs
    BY DEF Pcs
  <2>1. y \in Shape(y.id, y.run, y.seen, y.value, y.then)
    BY WorkerFields, Zenon
  <2> QED BY <2>0, <2>1, SetPc, Zenon
<1>3. x.pc = pc
  BY WorkerFields DEF Shape
<1>4. x.id = y.id /\ x.run = y.run /\ x.seen = y.seen /\ x.value = y.value /\ x.then = y.then
  BY <1>2, ShapeFields
<1>5. WorkerOK(y)
  BY DEF IInv, WorkersOK
<1>6. WorkerOK(x)
  BY <1>2, <1>3, <1>4, <1>5 DEF WorkerOK, Loaded
<1> QED BY <1>1, <1>4, <1>6, WorkerGoesOn

LEMMA LeaveMove ==
    ASSUME IInv, NEW w \in Workers, worker[w] # None, worker' = [worker EXCEPT ![w] = None],
           RunsOK', UsedOK', OwnersOnlyLeave, UNCHANGED <<world, checkpoint, claims>>
    PROVE  IInv'
  BY WorkerGoesOn

\* A call returns: what it did before, or what its checkpoint holds.
LEMMA GoOnMove ==
    ASSUME IInv, NEW w \in Workers, worker[w] # None, Loaded(worker[w]),
           NEW v, GoOn(w, v), Place(w) \in DOMAIN Program(Run(w)),
           CASE Call(w).op = "sleep" -> v = "slept"
             [] Call(w).op = "turn"  -> v = turn[Run(w)][Place(w)] /\ v \in Outcomes \cup Late
             [] OTHER -> IsResult(checkpoint[Run(w)][Place(w)]) /\ v = checkpoint[Run(w)][Place(w)].v,
           UNCHANGED <<world, rows, claims, turn>>
    PROVE  IInv'
<1> DEFINE y == worker[w]
           z == [y EXCEPT !.pc = "call"]
           x == [z EXCEPT !.at = y.at + 1]
<1>1. worker' = [worker EXCEPT ![w] = x]
  BY WorkerFields DEF GoOn, Shape
<1>2. x \in Shape(y.id, y.run, y.seen, y.value, y.then) /\ x.pc = "call"
  <2>1. y.at + 1 \in Nat
    BY WorkerFields
  <2>2. x \in Shape(y.id, y.run, y.seen, y.value, y.then)
    <3>0. "call" \in Pcs
      BY DEF Pcs
    <3>1. y \in Shape(y.id, y.run, y.seen, y.value, y.then)
      BY WorkerFields, Zenon
    <3>2. z \in Shape(y.id, y.run, y.seen, y.value, y.then)
      BY <3>0, <3>1, SetPc, Zenon
    <3> QED BY <2>1, <3>2, SetAt, Zenon
  <2> QED BY <2>2, WorkerFields DEF Shape
<1>3. UsedOK'
  <2>1. used' = [used EXCEPT ![Run(w)][Place(w)] = @ \cup {v}]
    BY DEF GoOn, Use
  <2>2. Run(w) \in Runs /\ Place(w) \in Places
    BY WorkerFields, ProgramPlaces DEF Run, IInv
  <2>3. Places' = Places /\ world' = world /\ checkpoint' = checkpoint
    BY DEF Places, rows
  <2>4. \/ used'[Run(w)][Place(w)] = {v}
        \/ Call(w).op = "turn" /\ turn[Run(w)][Place(w)] \in Late
    <3>1. UsedAt(Run(w), Place(w))
      BY <2>2 DEF IInv, UsedOK
    <3>2. used'[Run(w)][Place(w)] = used[Run(w)][Place(w)] \cup {v}
      BY <2>1, <2>2 DEF IInv, UsedOK
    <3> QED BY <3>1, <3>2 DEF UsedAt, Call
  <2>5. \A r \in Runs : \A i \in Places :
          r # Run(w) \/ i # Place(w) => used'[r][i] = used[r][i]
    BY <2>1, <2>2 DEF IInv, UsedOK
  <2>6. used' = [r \in Runs |-> [i \in Places |-> used'[r][i]]]
    BY <2>1, <2>2 DEF IInv, UsedOK
  <2>7. ASSUME NEW r \in Runs, NEW i \in Places
        PROVE  UsedAt(r, i)'
    <3>1. CASE r = Run(w) /\ i = Place(w)
      BY <2>3, <2>4, <3>1 DEF UsedAt, Call, Program, IsResult, Late, Outcomes
    <3>2. CASE r # Run(w) \/ i # Place(w)
      BY <2>3, <2>5, <3>2 DEF IInv, UsedOK, UsedAt, Program, IsResult, Late, Outcomes
    <3> QED BY <3>1, <3>2
  <2> QED BY <2>3, <2>6, <2>7 DEF IInv, UsedOK, TurnStates, Outcomes
<1>4. RunsOK' /\ OwnersOnlyLeave
  BY SameRuns, SameOwners DEF rows
<1> QED BY <1>1, <1>2, <1>3, <1>4, MovesOK DEF rows

-----------------------------------------------------------------------------
(* The steps of a worker. *)

LEMMA RowsKept ==
    ASSUME IInv, UNCHANGED <<world, rows, claims, used, turn>>
    PROVE  RunsOK' /\ UsedOK' /\ OwnersOnlyLeave
  BY SameRuns, SameUsed, SameOwners DEF rows

\* What is known of a worker in a call.
LEMMA CallFacts ==
    ASSUME IInv, NEW w \in Workers, NEW ops, Calling(w, ops)
    PROVE  /\ worker[w] # None /\ Loaded(worker[w]) /\ Run(w) \in Runs
           /\ Place(w) \in DOMAIN Program(Run(w)) /\ Call(w).op \in ops
           /\ Place(w) \in Places /\ Place(w) \in Dues
           /\ IsResult(Seen(w)) => checkpoint[Run(w)][Place(w)] = Seen(w)
<1>1. /\ worker[w] # None /\ worker[w].pc = "call"
      /\ Place(w) \in DOMAIN Program(Run(w)) /\ Call(w).op \in ops
  BY DEF Calling, At
<1>2. WorkerOK(worker[w])
  BY <1>1 DEF IInv, WorkersOK
<1>3. Run(w) \in Runs /\ Remembers(worker[w])
  BY <1>1, <1>2 DEF WorkerOK, Loaded, Run
<1>4. Place(w) \in Places /\ Place(w) \in Dues
  BY <1>1, <1>3, ProgramPlaces DEF IInv, Dues
<1> QED BY <1>1, <1>3, <1>4 DEF Remembers, Loaded, Seen, Run, Place

LEMMA LoadStep == ASSUME IInv, NEW w \in Workers, LoadCheckpoints(w) PROVE IInv'
<1> DEFINE y == worker[w]
           z == [y EXCEPT !.seen = checkpoint[Run(w)]]
           x == [z EXCEPT !.pc = "call"]
<1>1. y # None /\ WorkerOK(y)
  BY DEF LoadCheckpoints, At, IInv, WorkersOK
<1>2. worker' = [worker EXCEPT ![w] = x]
  BY <1>1, WorkerFields DEF LoadCheckpoints, Shape
<1>3. x \in Shape(y.id, y.run, checkpoint[Run(w)], y.value, y.then)
  <2>1. "call" \in Pcs
    BY DEF Pcs
  <2>2. y \in Shape(y.id, y.run, y.seen, y.value, y.then)
    BY <1>1, WorkerFields, Zenon
  <2>3. z \in Shape(y.id, y.run, checkpoint[Run(w)], y.value, y.then)
    BY <2>2, SetSeen, Zenon
  <2> QED BY <2>1, <2>3, SetPc, Zenon
<1>4. x.pc = "call"
  BY <1>1, WorkerFields DEF Shape
<1>5. /\ x.id = y.id /\ x.run = y.run /\ x.seen = checkpoint[y.run]
      /\ x.value = y.value /\ x.then = y.then
  BY <1>3, ShapeFields DEF Run
<1>6. Remembers(x)
  BY <1>1, <1>5 DEF Remembers, IInv, CheckpointsOK, WorkerOK
<1>7. WorkerOK(x)
  BY <1>1, <1>3, <1>4, <1>5, <1>6 DEF WorkerOK, Loaded, Run
<1>8. RunsOK' /\ UsedOK' /\ OwnersOnlyLeave
  BY RowsKept DEF LoadCheckpoints
<1> QED BY <1>1, <1>2, <1>5, <1>7, <1>8, WorkerGoesOn DEF LoadCheckpoints, rows

LEMMA ReturnStep == ASSUME IInv, NEW w \in Workers, Return(w) PROVE IInv'
<1>1. RunsOK' /\ UsedOK' /\ OwnersOnlyLeave
  BY RowsKept DEF Return
<1>2. worker[w] # None /\ Loaded(worker[w]) /\ "completed" \in Terminal
  BY DEF Return, At, Loaded, Terminal
<1> QED BY <1>1, <1>2, FinishMove DEF Return, rows

LEMMA ReplayStep == ASSUME IInv, NEW w \in Workers, Replay(w) PROVE IInv'
<1>1. Calling(w, {"step", "start", "event", "child"}) /\ IsResult(Seen(w)) /\ GoOn(w, Seen(w).v)
  BY DEF Replay
<1>2. Call(w).op # "sleep" /\ Call(w).op # "turn"
  BY <1>1, CallFacts
<1> QED BY <1>1, <1>2, CallFacts, GoOnMove DEF Replay, rows

LEMMA StepStep == ASSUME IInv, NEW w \in Workers, Step(w) PROVE IInv'
<1>1. RunsOK' /\ UsedOK' /\ OwnersOnlyLeave
  BY RowsKept DEF Step
<1>2. Calling(w, {"step"}) /\ ~IsResult(Seen(w)) /\ Call(w).op # "sleep" /\ Call(w).op # "turn"
  BY CallFacts DEF Step, IsResult, Nothing
<1>3. CASE Persist(w, Result(worker[w].id))
  BY <1>1, <1>2, <1>3, CallFacts, PersistMove DEF Step, rows, IsResult, Result
<1>4. CASE Finish(w, "failed")
  BY <1>1, <1>2, <1>4, CallFacts, FinishMove DEF Step, rows, Terminal
<1> QED BY <1>3, <1>4 DEF Step

LEMMA DispatchStep == ASSUME IInv, NEW w \in Workers, DispatchTurn(w) PROVE IInv'
<1>1. Calling(w, {"turn"}) /\ ~IsResult(Seen(w)) /\ Call(w).op # "sleep"
  BY CallFacts DEF DispatchTurn, IsResult, Nothing
<1>2. RunsOK' /\ UsedOK' /\ OwnersOnlyLeave
  <2>1. Run(w) \in Runs /\ Place(w) \in Places
    BY <1>1, CallFacts
  <2>2. PICK s \in TurnStates : /\ turn' = [turn EXCEPT ![Run(w)][Place(w)] = s]
                                /\ s = turn[Run(w)][Place(w)] \/ turn[Run(w)][Place(w)] = "none"
    BY <2>1 DEF DispatchTurn, IInv, UsedOK, TurnStates
  <2>3. TurnsKept
    BY <2>1, <2>2, TurnChanges
  <2>4. UsedOK'
    BY <2>3, TurnsUsed DEF DispatchTurn, rows
  <2> QED BY <2>4, SameRuns, SameOwners DEF DispatchTurn, rows
<1> QED BY <1>1, <1>2, CallFacts, PersistMove DEF DispatchTurn, rows, IsResult, Result

LEMMA AwaitStep == ASSUME IInv, NEW w \in Workers, AwaitTurn(w) PROVE IInv'
<1>1. Calling(w, {"turn"}) /\ Call(w).op = "turn"
  BY CallFacts DEF AwaitTurn
<1>2. CASE Over(Run(w), Place(w)) /\ GoOn(w, turn[Run(w)][Place(w)])
  BY <1>1, <1>2, CallFacts, GoOnMove DEF AwaitTurn, rows, Over, Late
<1>3. CASE Suspend(w, "waiting", Never) /\ UNCHANGED used
  <2>1. RunsOK' /\ UsedOK' /\ OwnersOnlyLeave
    BY <1>3, RowsKept DEF AwaitTurn
  <2>2. "waiting" \in Suspended /\ Never \in Dues
    BY DEF Suspended, Dues
  <2> QED BY <1>1, <1>3, <2>1, <2>2, CallFacts, SuspendMove DEF AwaitTurn, rows
<1> QED BY <1>2, <1>3 DEF AwaitTurn

LEMMA SleepStep == ASSUME IInv, NEW w \in Workers, Sleep(w) PROVE IInv'
<1>1. Calling(w, {"sleep"}) /\ Call(w).op = "sleep"
  BY CallFacts DEF Sleep
<1>2. CASE Seen(w) = Nothing /\ Persist(w, WakeTime) /\ UNCHANGED used
  <2>1. RunsOK' /\ UsedOK' /\ OwnersOnlyLeave
    BY <1>2, RowsKept DEF Sleep
  <2>2. ~IsResult(Seen(w))
    BY <1>2 DEF IsResult, Nothing
  <2> QED BY <1>1, <1>2, <2>1, <2>2, CallFacts, PersistMove DEF Sleep, rows
<1>3. CASE GoOn(w, "slept")
  BY <1>1, <1>3, CallFacts, GoOnMove DEF Sleep, rows
<1>4. CASE Suspend(w, "sleeping", Place(w)) /\ UNCHANGED used
  <2>1. RunsOK' /\ UsedOK' /\ OwnersOnlyLeave
    BY <1>4, RowsKept DEF Sleep
  <2>2. "sleeping" \in Suspended
    BY DEF Suspended
  <2> QED BY <1>1, <1>4, <2>1, <2>2, CallFacts, SuspendMove DEF Sleep, rows
<1> QED BY <1>2, <1>3, <1>4 DEF Sleep

LEMMA LookStep == ASSUME IInv, NEW w \in Workers, LookForAnswer(w) PROVE IInv'
<1>1. RunsOK' /\ UsedOK' /\ OwnersOnlyLeave
  BY RowsKept DEF LookForAnswer
<1>2. Calling(w, {"event", "child"}) /\ ~IsResult(Seen(w)) /\ Call(w).op # "sleep" /\ Call(w).op # "turn"
  BY CallFacts DEF LookForAnswer
<1>3. CASE Persist(w, Result(Answer(w)))
  BY <1>1, <1>2, <1>3, CallFacts, PersistMove DEF LookForAnswer, rows, IsResult, Result
<1>4. CASE Persist(w, Marker)
  BY <1>1, <1>2, <1>4, CallFacts, PersistMove DEF LookForAnswer, rows
<1>5. CASE Finish(w, "failed")
  BY <1>1, <1>2, <1>5, CallFacts, FinishMove DEF LookForAnswer, rows, Terminal
<1>6. CASE Suspend(w, "waiting", Deadline(w))
  <2>1. "waiting" \in Suspended /\ Deadline(w) \in Dues
    BY <1>2, CallFacts DEF Suspended, Deadline, Dues
  <2> QED BY <1>1, <1>2, <1>6, <2>1, CallFacts, SuspendMove DEF LookForAnswer, rows
<1> QED BY <1>3, <1>4, <1>5, <1>6 DEF LookForAnswer

LEMMA LinkedStep == ASSUME IInv, NEW w \in Workers, CheckLinked(w) PROVE IInv'
<1> DEFINE y == worker[w]
<1>1. y # None /\ y.pc = "linked" /\ WorkerOK(y)
  BY DEF CheckLinked, At, IInv, WorkersOK
<1>2. PICK due \in {Now, y.due} : worker' = [worker EXCEPT ![w].pc = "suspend", ![w].due = due]
  BY DEF CheckLinked
<1> DEFINE z == [y EXCEPT !.pc = "suspend"]
           x == [z EXCEPT !.due = due]
<1>3. worker' = [worker EXCEPT ![w] = x]
  BY <1>1, <1>2, WorkerFields DEF Shape
<1>4. y \in Shape(y.id, y.run, y.seen, y.value, y.then)
  BY <1>1, WorkerFields, Zenon
<1>5. due \in Dues
  BY <1>4, ShapeFields DEF Dues
<1>6. x \in Shape(y.id, y.run, y.seen, y.value, y.then)
  <2>1. "suspend" \in Pcs
    BY DEF Pcs
  <2>2. z \in Shape(y.id, y.run, y.seen, y.value, y.then)
    BY <1>4, <2>1, SetPc, Zenon
  <2> QED BY <1>5, <2>2, SetDue, Zenon
<1>7. x.pc = "suspend" /\ y.then \in Suspended /\ Loaded(y)
  BY <1>1, <1>4 DEF Shape, WorkerOK, Loaded
<1>8. RunsOK' /\ UsedOK' /\ OwnersOnlyLeave
  BY RowsKept DEF CheckLinked
<1> QED BY <1>1, <1>3, <1>6, <1>7, <1>8, MovesOK DEF CheckLinked, rows

LEMMA TellStep == ASSUME IInv, NEW w \in Workers, TellFailure(w) PROVE IInv'
<1>1. RunsOK' /\ UsedOK' /\ OwnersOnlyLeave
  BY RowsKept DEF TellFailure
<1>2. worker[w] # None
  BY DEF TellFailure, At
<1> QED BY <1>1, <1>2, GotoMove DEF TellFailure, rows

LEMMA NotifyStep == ASSUME IInv, NEW w \in Workers, NotifyEnd(w) PROVE IInv'
<1>1. RunsOK' /\ UsedOK' /\ OwnersOnlyLeave
  BY RowsKept DEF NotifyEnd
<1> QED BY <1>1, LeaveMove DEF NotifyEnd, At, rows

LEMMA CrashStep == ASSUME IInv, NEW w \in Workers, Crash(w) PROVE IInv'
<1>1. RunsOK' /\ UsedOK' /\ OwnersOnlyLeave
  BY RowsKept DEF Crash
<1> QED BY <1>1, LeaveMove DEF Crash, rows

LEMMA StartStep == ASSUME IInv, NEW w \in Workers, StartChild(w) PROVE IInv'
<1>1. Calling(w, {"start"}) /\ ~IsResult(Seen(w)) /\ Call(w).op # "sleep" /\ Call(w).op # "turn"
  BY CallFacts DEF StartChild, IsResult, Nothing
<1>2. RunsOK' /\ OwnersOnlyLeave
  <2>1. CASE run' = run
    BY <2>1, SameRuns, SameOwners DEF StartChild
  <2>2. CASE run' # run
    <3> DEFINE c == Call(w).of
               row == [run[c] EXCEPT !.status = "queued"]
    <3>1. run' = [run EXCEPT ![c].status = "queued"] /\ run[c].status = "none" /\ claims' = claims
      BY <2>2 DEF StartChild
    <3>2. c \in Runs
      BY <2>2, <3>1 DEF IInv, RunsOK
    <3>3. row \in Rows /\ row.owner = 0 /\ row.leased = FALSE /\ row.status = "queued"
      BY <3>1, <3>2 DEF IInv, RunsOK, Rows, Statuses
    <3>4. run' = [run EXCEPT ![c] = row]
      BY <3>1, <3>2 DEF IInv, RunsOK
    <3> QED BY <3>1, <3>2, <3>3, <3>4, RunLeft
  <2> QED BY <2>1, <2>2
<1>3. UsedOK'
  BY SameUsed DEF StartChild
<1> QED BY <1>1, <1>2, <1>3, CallFacts, PersistMove DEF StartChild, IsResult, Result

\* The row of a run is written by its owner only, and while it runs.
LEMMA SuspendStep == ASSUME IInv, NEW w \in Workers, SuspendRun(w) PROVE IInv'
<1>1. worker[w] # None /\ worker[w].pc = "suspend" /\ WorkerOK(worker[w])
  BY DEF SuspendRun, At, IInv, WorkersOK
<1>2. RunsOK' /\ OwnersOnlyLeave
  <2>1. CASE MayUpdate(w)
    <3> DEFINE row == [status |-> worker[w].then, due |-> worker[w].due,
                       owner |-> 0, leased |-> FALSE]
    <3>1. row \in Rows /\ row.owner = 0 /\ row.leased = FALSE /\ row.status # "running"
      BY <1>1, ShapeFields DEF WorkerOK, Rows, Statuses, Suspended
    <3>2. run' = [run EXCEPT ![Run(w)] = row] /\ claims' = claims
      BY <2>1 DEF SuspendRun
    <3> QED BY <1>1, <3>1, <3>2, RunLeft DEF WorkerOK, Run
  <2>2. CASE ~MayUpdate(w)
    BY <2>2, SameRuns, SameOwners DEF SuspendRun
  <2> QED BY <2>1, <2>2
<1>3. UsedOK'
  BY SameUsed DEF SuspendRun
<1> QED BY <1>1, <1>2, <1>3, LeaveMove DEF SuspendRun

\* A worker that does not have the handler owns nothing, or not any more.
LEMMA UnknownStep == ASSUME IInv, NEW w \in Workers, UnknownWorkflow(w) PROVE IInv'
<1>1. worker[w] # None /\ WorkerOK(worker[w])
  BY DEF UnknownWorkflow, At, IInv, WorkersOK
<1>2. UsedOK'
  BY SameUsed DEF UnknownWorkflow
<1> DEFINE row == [NoRun EXCEPT !.status = "failed"]
<1>3. row \in Rows /\ row.owner = 0 /\ row.leased = FALSE /\ row.status # "running"
  BY DEF NoRun, Now, Rows, Statuses, Dues, Terminal
<1>4. run' = [run EXCEPT ![Run(w)] = row] /\ claims' = claims
  BY DEF UnknownWorkflow
<1>5. RunsOK' /\ OwnersOnlyLeave
  BY <1>1, <1>3, <1>4, RunLeft DEF WorkerOK, Run
<1> QED BY <1>1, <1>2, <1>5, GotoMove DEF UnknownWorkflow

LEMMA FinishStep == ASSUME IInv, NEW w \in Workers, FinishRun(w) PROVE IInv'
<1>1. worker[w] # None /\ worker[w].pc = "finish" /\ WorkerOK(worker[w])
  BY DEF FinishRun, At, IInv, WorkersOK
<1>2. UsedOK'
  BY SameUsed DEF FinishRun
<1>3. CASE MayUpdate(w)
  <2> DEFINE row == [NoRun EXCEPT !.status = worker[w].then]
  <2>1. NoRun \in Rows /\ NoRun.owner = 0 /\ NoRun.leased = FALSE
    BY DEF NoRun, Now, Rows, Statuses, Dues
  <2>2. worker[w].then \in Terminal
    BY <1>1 DEF WorkerOK
  <2>3. row \in Rows /\ row.owner = 0 /\ row.leased = FALSE /\ row.status # "running"
    BY <2>1, <2>2 DEF Rows, Statuses, Terminal
  <2>4. run' = [run EXCEPT ![Run(w)] = row] /\ claims' = claims
    BY <1>3 DEF FinishRun
  <2>5. RunsOK' /\ OwnersOnlyLeave
    BY <1>1, <2>3, <2>4, RunLeft DEF WorkerOK, Run
  <2> QED BY <1>1, <1>2, <1>3, <2>5, GotoMove DEF FinishRun
<1>4. CASE ~MayUpdate(w)
  <2>1. RunsOK' /\ OwnersOnlyLeave
    BY <1>4, SameRuns, SameOwners DEF FinishRun
  <2> QED BY <1>1, <1>2, <1>4, <2>1, LeaveMove DEF FinishRun
<1> QED BY <1>3, <1>4

\* A claim takes an id nobody has, and a run nobody has any more.
LEMMA ClaimStep == ASSUME IInv, NEW w \in Workers, Claim(w) PROVE IInv'
<1>0. PICK r \in Runs :
        /\ run' = [[s \in Runs |-> Requeued(s)] EXCEPT
                     ![r] = [status |-> "running", due |-> Now, owner |-> claims + 1, leased |-> TRUE]]
        /\ worker' = [worker EXCEPT ![w] =
             [id |-> claims + 1, run |-> r, pc |-> "load", at |-> 1, seen |-> <<>>,
              value |-> None, then |-> None, due |-> Never]]
  BY DEF Claim
<1>a. PICK id : id = claims + 1
  OBVIOUS
<1>b. PICK x : x = [id |-> id, run |-> r, pc |-> "load", at |-> 1, seen |-> <<>>,
                    value |-> None, then |-> None, due |-> Never]
  OBVIOUS
<1>1. /\ run' = [[s \in Runs |-> Requeued(s)] EXCEPT
                   ![r] = [status |-> "running", due |-> Now, owner |-> id, leased |-> TRUE]]
      /\ worker' = [worker EXCEPT ![w] = x]
  BY <1>0, <1>a, <1>b
<1> DEFINE row == [status |-> "running", due |-> Now, owner |-> id, leased |-> TRUE]
<1>2. /\ claims \in Nat /\ id = claims + 1 /\ claims' = id /\ id \in Nat \ {0}
      /\ claims <= claims' /\ x.id = id
  BY <1>a, <1>b DEF Claim, IInv, RunsOK
<1>3. row \in Rows /\ row.status = "running" /\ row.owner = id /\ row.leased = TRUE
  BY <1>2 DEF Rows, Statuses, Dues
<1>4. \A s \in Runs : /\ Requeued(s) \in Rows /\ Requeued(s).owner \in {0, run[s].owner}
                      /\ Requeued(s).owner # 0 <=> Requeued(s).status = "running"
                      /\ Requeued(s).leased => Requeued(s).status = "running"
  <2>1. NoRun \in Rows /\ NoRun.owner = 0 /\ NoRun.leased = FALSE
    BY DEF NoRun, Now, Rows, Statuses, Dues
  <2> DEFINE queued == [NoRun EXCEPT !.status = "queued"]
  <2>2. queued \in Rows /\ queued.owner = 0 /\ queued.leased = FALSE /\ queued.status = "queued"
    BY <2>1 DEF Rows, Statuses
  <2>3. \A s \in Runs : Requeued(s) \in {run[s], queued}
    BY DEF Requeued
  <2> QED BY <2>2, <2>3 DEF IInv, RunsOK, Rows
<1>5. run' \in [Runs -> Rows] /\ \A s \in Runs : run'[s] = IF s = r THEN row ELSE Requeued(s)
  BY <1>1, <1>3, <1>4
<1>6. RunsOK'
  <2>1. Places' = Places /\ Dues' = Dues /\ Statuses' = Statuses
    BY DEF Places, Dues, Now, Never, Statuses, Suspended, Terminal
  <2>2. \A s \in Runs : run[s].owner <= claims /\ run[s].owner \in Nat
    BY DEF IInv, RunsOK
  <2>3. \A s \in Runs : run'[s].owner <= claims'
    BY <1>2, <1>3, <1>4, <1>5, <2>2
  <2>4. \A s, t \in Runs : run'[s].owner = run'[t].owner => s = t \/ run'[s].owner = 0
    BY <1>2, <1>3, <1>4, <1>5, <2>2 DEF IInv, RunsOK
  <2>5. \A s \in Runs : /\ run'[s].owner # 0 <=> run'[s].status = "running"
                        /\ run'[s].leased => run'[s].status = "running"
    BY <1>2, <1>3, <1>4, <1>5
  <2> QED BY <1>2, <1>5, <2>1, <2>3, <2>4, <2>5 DEF RunsOK, Rows
<1>7. CheckpointsOK' /\ UsedOK' /\ (world \in Worlds)'
  BY SameCheckpoints, SameUsed DEF Claim, IInv
<1>8. ASSUME NEW y, WorkerOK(y) PROVE WorkerOK(y)'
  <2>1. y.id \in Nat \ {0} /\ y.id <= claims
    BY <1>8 DEF WorkerOK
  <2>2. \A s \in Runs : run'[s].owner = y.id => run[s].owner = y.id
    BY <1>2, <1>3, <1>4, <1>5, <2>1
  <2> QED BY <1>2, <1>8, <2>2, WorkerOKKept DEF Claim
<1>9. WorkerOK(x)'
  <2>1. x \in Shape(id, r, <<>>, None, None) /\ x.pc = "load"
    BY <1>b DEF Shape, Pcs, Dues
  <2>2. \A s \in Runs : run'[s].owner = id => s = r
    BY <1>2, <1>3, <1>4, <1>5 DEF IInv, RunsOK
  <2>3. Dues' = Dues
    BY DEF Places, Dues, Now, Never
  <2>4. x.id = id /\ x.run = r /\ x.seen = <<>> /\ x.value = None /\ x.then = None
    BY <1>b
  <2>5. x \in Shape(x.id, x.run, x.seen, x.value, x.then)'
    BY <2>1, <2>3, <2>4 DEF Shape
  <2> QED BY <1>2, <2>1, <2>2, <2>4, <2>5 DEF WorkerOK, Loaded
<1>10. WorkersOK'
  <2>1. worker' = [v \in Workers |-> worker'[v]]
    BY <1>1 DEF IInv, WorkersOK
  <2>2. \A v \in Workers : worker'[v] = IF v = w THEN x ELSE worker[v]
    BY <1>1 DEF IInv, WorkersOK
  <2>3. ASSUME NEW v \in Workers, NEW y, y = worker'[v], y # None PROVE WorkerOK(y)'
    BY <1>8, <1>9, <2>2, <2>3 DEF IInv, WorkersOK
  <2>4. \A v \in Workers : worker[v] # None => worker[v].id # id
    BY <1>2 DEF IInv, WorkersOK, WorkerOK
  <2>5. \A u, v \in Workers :
          worker'[u] # None /\ worker'[v] # None /\ worker'[u].id = worker'[v].id => u = v
    <3> SUFFICES ASSUME NEW u \in Workers, NEW v \in Workers,
                        worker'[u] # None, worker'[v] # None, worker'[u].id = worker'[v].id
                 PROVE  u = v
      OBVIOUS
    <3>1. CASE u = w \/ v = w
      BY <1>2, <2>2, <2>4, <3>1
    <3>2. CASE u # w /\ v # w
      <4>1. worker'[u] = worker[u] /\ worker'[v] = worker[v]
        BY <2>2, <3>2
      <4> QED BY <4>1 DEF IInv, WorkersOK
    <3> QED BY <3>1, <3>2
  <2> QED BY <2>1, <2>3, <2>5 DEF WorkersOK
<1> QED BY <1>6, <1>7, <1>10 DEF IInv

\* A checkpoint is written where its worker, and so the table, has no result.
LEMMA WriteFacts ==
    ASSUME IInv, NEW w \in Workers, At(w, "persist")
    PROVE  /\ worker[w] # None /\ worker[w].pc = "persist" /\ WorkerOK(worker[w])
           /\ Run(w) \in Runs /\ Place(w) \in Places /\ Place(w) \in Dues
           /\ AboutToWrite(worker[w]) /\ Remembers(worker[w])
           /\ MayPersist(w) => ~IsResult(checkpoint[Run(w)][Place(w)])
<1>1. worker[w] # None /\ worker[w].pc = "persist" /\ WorkerOK(worker[w])
  BY DEF At, IInv, WorkersOK
<1>2. Run(w) \in Runs /\ AboutToWrite(worker[w]) /\ Remembers(worker[w])
  BY <1>1 DEF WorkerOK, Loaded, Run
<1>3. Place(w) \in Places /\ Place(w) \in Dues
  BY <1>2, ProgramPlaces DEF IInv, AboutToWrite, Place, Run, Dues
<1>4. MayPersist(w) => checkpoint[Run(w)][Place(w)] = worker[w].seen[Place(w)]
  BY <1>2, <1>3 DEF MayPersist, Owns, Remembers, Run
<1> QED BY <1>1, <1>2, <1>3, <1>4 DEF AboutToWrite, Place

\* The write, by a worker that goes on as x: nobody else owns the run, and nobody
\* remembers a result where there was none.
LEMMA WriteMove ==
    ASSUME IInv, NEW w \in Workers, At(w, "persist"), MayPersist(w),
           NEW v, v = worker[w].value, NEW x, NEW t, NEW s,
           checkpoint' = [checkpoint EXCEPT ![Run(w)][Place(w)] = v],
           run' = [run EXCEPT ![Run(w)].leased = @ \/ Owns(w)],
           s = [worker[w].seen EXCEPT ![Place(w)] = v],
           x \in Shape(worker[w].id, worker[w].run, s, v, t),
           x.pc \notin {"load", "persist", "finish"},
           x.pc \in {"linked", "suspend"} => t \in Suspended,
           worker' = [worker EXCEPT ![w] = x], UsedOK', UNCHANGED <<world, claims>>
    PROVE  IInv'
<1> DEFINE y == worker[w]  r == Run(w)  i == Place(w)
<1>1. /\ y # None /\ WorkerOK(y) /\ r \in Runs /\ r = y.run /\ i \in Places
      /\ AboutToWrite(y) /\ Remembers(y) /\ ~IsResult(checkpoint[r][i])
      /\ run[r].owner = y.id /\ y.id # 0
  BY WriteFacts DEF MayPersist, Owns, Run, WorkerOK
<1>2. Places' = Places /\ Dues' = Dues /\ claims' \in Nat /\ claims <= claims'
  BY DEF Places, Dues, Now, Never, IInv, RunsOK
<1>3. RunsOK' /\ OwnersOnlyLeave
  <2>1. run' = [run EXCEPT ![r].leased = TRUE] /\ run[r].status = "running"
    BY <1>1 DEF Owns, IInv, RunsOK
  <2>2. run' \in [Runs -> Rows]
    BY <1>1, <2>1, ZenonT(40) DEF IInv, RunsOK, Rows
  <2>3. \A q \in Runs : /\ run'[q].owner = run[q].owner /\ run'[q].status = run[q].status
                        /\ run'[q].leased => run'[q].status = "running"
    BY <1>1, <2>1 DEF IInv, RunsOK
  <2>4. Statuses' = Statuses
    BY DEF Statuses, Suspended, Terminal
  <2> QED BY <1>2, <2>2, <2>3, <2>4 DEF IInv, RunsOK, OwnersOnlyLeave, Rows
<1>4. \A q \in Runs : \A j \in Places :
        checkpoint'[q][j] = IF q = r /\ j = i THEN v ELSE checkpoint[q][j]
  BY <1>1 DEF IInv, CheckpointsOK
<1>5. CheckpointsOK'
  <2>1. checkpoint' = [q \in Runs |-> [j \in Places |-> checkpoint'[q][j]]]
    BY <1>1, ZenonT(40) DEF IInv, CheckpointsOK
  <2>2. IsResult(v) \/ v \in {Nothing, Marker, WakeTime}
    BY <1>1 DEF AboutToWrite
  <2>3. \A q \in Runs : \A j \in Places :
          IsResult(checkpoint'[q][j]) \/ checkpoint'[q][j] \in {Nothing, Marker, WakeTime}
    BY <1>4, <2>2 DEF IInv, CheckpointsOK
  <2> QED BY <1>2, <2>1, <2>3 DEF CheckpointsOK, IsResult, Nothing, Marker, WakeTime
<1>6. WorkerOK(x)'
  <2>1. x.id = y.id /\ x.run = y.run /\ x.seen = s /\ x.value = v /\ x.then = t
    BY ShapeFields
  <2>2. \A j \in Places : s[j] = IF j = i THEN v ELSE y.seen[j]
    BY <1>1 DEF Remembers
  <2>3. s = [j \in Places |-> s[j]]
    BY <1>1 DEF Remembers
  <2>4. \A j \in Places : y.seen[j] = checkpoint[r][j]
    BY <1>1 DEF Remembers
  <2>5. \A j \in Places : checkpoint'[x.run][j] = x.seen[j]
    BY <1>1, <1>4, <2>1, <2>2, <2>4
  <2>6. Remembers(x)'
    BY <1>2, <2>1, <2>3, <2>5 DEF Remembers, IsResult
  <2>7. \A q \in Runs : run'[q].owner = x.id => q = x.run
    BY <1>1, <2>1, <1>3 DEF OwnersOnlyLeave, WorkerOK
  <2>8. x \in Shape(x.id, x.run, x.seen, x.value, x.then)'
    BY <1>2, <2>1 DEF Shape, Pcs
  <2> QED BY <1>1, <1>2, <2>1, <2>6, <2>7, <2>8 DEF WorkerOK, Suspended, Terminal
<1>7. ASSUME NEW u \in Workers, u # w, NEW z, z = worker[u], z # None
      PROVE  WorkerOK(z)'
  <2>1. WorkerOK(z) /\ z.id # y.id /\ z.id # 0
    BY <1>1, <1>7 DEF IInv, WorkersOK, WorkerOK
  <2>2. \A q \in Runs : run'[q].owner = z.id => run[q].owner = z.id
    BY <1>3, <2>1 DEF OwnersOnlyLeave
  <2>3. z.run = r => run'[r].owner # z.id
    BY <1>1, <2>1, <2>2
  <2>4. ASSUME Remembers(z) PROVE Remembers(z)'
    <3>1. \A j \in Places : IsResult(z.seen[j]) => checkpoint'[z.run][j] = z.seen[j]
      BY <1>1, <1>4, <2>1, <2>4, SMTT(30) DEF Remembers, WorkerOK
    <3>2. \A j \in Places : run'[z.run].owner = z.id => z.seen[j] = checkpoint'[z.run][j]
      BY <1>4, <2>1, <2>2, <2>3, <2>4 DEF Remembers, WorkerOK
    <3> QED BY <1>2, <2>4, <3>1, <3>2 DEF Remembers, IsResult
  <2>5. AboutToWrite(z) => AboutToWrite(z)'
    BY DEF AboutToWrite, Program, IsResult, Marker, WakeTime
  <2>6. z \in Shape(z.id, z.run, z.seen, z.value, z.then)'
    BY <1>2, <2>1 DEF Shape, Pcs, WorkerOK
  <2> QED BY <1>2, <2>1, <2>2, <2>4, <2>5, <2>6 DEF WorkerOK, Loaded, Suspended, Terminal
<1>8. WorkersOK'
  <2>1. worker' = [u \in Workers |-> worker'[u]]
    BY DEF IInv, WorkersOK
  <2>2. \A u \in Workers : worker'[u] = IF u = w THEN x ELSE worker[u]
    BY DEF IInv, WorkersOK
  <2>3. ASSUME NEW u \in Workers, NEW z, z = worker'[u], z # None PROVE WorkerOK(z)'
    BY <1>6, <1>7, <2>2, <2>3
  <2>4. x.id = y.id
    BY ShapeFields
  <2>5. \A a, b \in Workers :
          worker'[a] # None /\ worker'[b] # None /\ worker'[a].id = worker'[b].id => a = b
    BY <1>1, <2>2, <2>4 DEF IInv, WorkersOK
  <2> QED BY <2>1, <2>3, <2>5 DEF WorkersOK
<1> QED BY <1>3, <1>5, <1>8 DEF IInv

\* Where there was no result no call has returned one.
LEMMA UnusedYet ==
    ASSUME IInv, NEW w \in Workers, At(w, "persist"), MayPersist(w)
    PROVE  Call(w).op \notin {"sleep", "turn"} => used[Run(w)][Place(w)] = {}
  BY WriteFacts DEF IInv, UsedOK, UsedAt, Call

LEMMA WriteUnused ==
    ASSUME IInv, NEW w \in Workers, At(w, "persist"), MayPersist(w), NEW v,
           checkpoint' = [checkpoint EXCEPT ![Run(w)][Place(w)] = v],
           UNCHANGED <<world, used, turn>>
    PROVE  UsedOK'
<1>1. \A r \in Runs : \A i \in Places :
        r # Run(w) \/ i # Place(w) => checkpoint'[r][i] = checkpoint[r][i]
  BY WriteFacts DEF IInv, CheckpointsOK
<1>2. Places' = Places
  BY DEF Places
<1>3. ASSUME NEW r \in Runs, NEW i \in Places PROVE UsedAt(r, i)'
  <2>1. UsedAt(r, i) /\ Program(r)' = Program(r)
    BY DEF IInv, UsedOK, Program
  <2>2. CASE r = Run(w) /\ i = Place(w)
    BY <2>1, <2>2, UnusedYet DEF UsedAt, Call, IsResult, Late, Outcomes
  <2>3. CASE r # Run(w) \/ i # Place(w)
    BY <1>1, <2>1, <2>3 DEF UsedAt, IsResult, Late, Outcomes
  <2> QED BY <2>2, <2>3
<1> QED BY <1>2, <1>3 DEF IInv, UsedOK, TurnStates, Outcomes

LEMMA WriteUsed ==
    ASSUME IInv, NEW w \in Workers, At(w, "persist"), MayPersist(w), NEW v, IsResult(v),
           Call(w).op \notin {"sleep", "turn"},
           checkpoint' = [checkpoint EXCEPT ![Run(w)][Place(w)] = v],
           Use(w, v.v), UNCHANGED <<world, turn>>
    PROVE  UsedOK'
<1> DEFINE q == Run(w)  j == Place(w)
<1>1. q \in Runs /\ j \in Places /\ j \in DOMAIN Program(q) /\ used[q][j] = {}
  BY WriteFacts, UnusedYet DEF AboutToWrite, Run, Place
<1>2. \A r \in Runs : \A i \in Places :
        /\ checkpoint'[r][i] = IF r = q /\ i = j THEN v ELSE checkpoint[r][i]
        /\ used'[r][i] = IF r = q /\ i = j THEN {v.v} ELSE used[r][i]
  <2>1. \A r \in Runs : \A i \in Places :
          checkpoint'[r][i] = IF r = q /\ i = j THEN v ELSE checkpoint[r][i]
    BY DEF IInv, CheckpointsOK
  <2>2. used' = [used EXCEPT ![q][j] = {v.v}]
    BY <1>1 DEF Use
  <2>3. \A r \in Runs : \A i \in Places :
          used'[r][i] = IF r = q /\ i = j THEN {v.v} ELSE used[r][i]
    BY <2>2 DEF IInv, UsedOK
  <2> QED BY <2>1, <2>3
<1>3. used' = [r \in Runs |-> [i \in Places |-> used'[r][i]]]
  BY <1>1 DEF IInv, UsedOK, Use
<1>4. Places' = Places
  BY DEF Places
<1>5. ASSUME NEW r \in Runs, NEW i \in Places PROVE UsedAt(r, i)'
  <2>1. CASE r = q /\ i = j
    BY <1>1, <1>2, <2>1 DEF UsedAt, Call, Program, IsResult
  <2>2. CASE r # q \/ i # j
    BY <1>2, <2>2 DEF IInv, UsedOK, UsedAt, Program, IsResult, Late, Outcomes
  <2> QED BY <2>1, <2>2
<1> QED BY <1>3, <1>4, <1>5 DEF IInv, UsedOK, TurnStates, Outcomes

LEMMA PersistStep == ASSUME IInv, NEW w \in Workers, PersistCheckpoint(w) PROVE IInv'
<1> DEFINE y == worker[w]
<1>1. At(w, "persist") /\ y # None /\ y.pc = "persist" /\ Loaded(y)
  BY DEF PersistCheckpoint, At, Loaded
<1>2. CASE ~MayPersist(w)
  <2>1. RunsOK' /\ UsedOK' /\ OwnersOnlyLeave
    BY <1>2, RowsKept DEF PersistCheckpoint
  <2>2. "cancelled" \in Terminal
    BY DEF Terminal
  <2> QED BY <1>1, <1>2, <2>1, <2>2, FinishMove DEF PersistCheckpoint, rows
<1>3. CASE MayPersist(w)
  <2>1. PICK v, s : v = y.value /\ s = [y.seen EXCEPT ![Place(w)] = v]
    OBVIOUS
  <2>2. /\ checkpoint' = [checkpoint EXCEPT ![Run(w)][Place(w)] = v]
        /\ run' = [run EXCEPT ![Run(w)].leased = @ \/ Owns(w)]
        /\ UNCHANGED <<world, claims, turn>>
    BY <1>3, <2>1 DEF PersistCheckpoint
  <2>3. /\ y \in Shape(y.id, y.run, y.seen, v, y.then)
        /\ worker = [u \in Workers |-> worker[u]]
    BY <1>1, <2>1, WorkerFields, Zenon
  <2>4. /\ IsResult(v) \/ v \in {Marker, WakeTime}
        /\ Call(w).op = "sleep" => v = WakeTime
        /\ Call(w).op = "turn" => IsResult(v)
        /\ Marker # WakeTime /\ ~IsResult(Marker) /\ ~IsResult(WakeTime)
    <3>1. Marker.kind = "waiting" /\ WakeTime.kind = "wake"
      BY DEF Marker, WakeTime
    <3> QED BY <1>1, <2>1, <3>1, WriteFacts DEF AboutToWrite, Call, Run, Place, IsResult
  <2> DEFINE z == [y EXCEPT !.seen = s]
  <2>5. z \in Shape(y.id, y.run, s, v, y.then)
    BY <2>3, SetSeen, Zenon
  <2>6. CASE v = Marker
    <3> DEFINE a == [z EXCEPT !.pc = "linked"]
               b == [a EXCEPT !.then = "waiting"]
               x == [b EXCEPT !.due = Deadline(w)]
    <3>1. worker' = [worker EXCEPT ![w] = x] /\ UNCHANGED used
      BY <1>3, <2>1, <2>3, <2>4, <2>6 DEF PersistCheckpoint, Shape
    <3>2. "linked" \in Pcs /\ Deadline(w) \in Dues /\ "waiting" \in Suspended
      BY <1>1, WriteFacts DEF Pcs, Deadline, Dues, Suspended
    <3>3. a \in Shape(y.id, y.run, s, v, y.then)
      BY <2>5, <3>2, SetPc, Zenon
    <3>4. b \in Shape(y.id, y.run, s, v, "waiting")
      BY <3>3, SetThen, Zenon
    <3>5. x \in Shape(y.id, y.run, s, v, "waiting")
      BY <3>2, <3>4, SetDue, Zenon
    <3>6. x.pc = "linked"
      BY <2>3 DEF Shape
    <3>7. UsedOK'
      BY <1>1, <1>3, <2>2, <3>1, WriteUnused
    <3> QED BY <1>1, <1>3, <2>1, <2>2, <3>1, <3>2, <3>5, <3>6, <3>7, WriteMove
  <2>7. CASE v = WakeTime
    <3> DEFINE a == [z EXCEPT !.pc = "suspend"]
               b == [a EXCEPT !.then = "sleeping"]
               x == [b EXCEPT !.due = Place(w)]
    <3>1. worker' = [worker EXCEPT ![w] = x] /\ UNCHANGED used
      BY <1>3, <2>1, <2>3, <2>4, <2>7 DEF PersistCheckpoint, Shape
    <3>2. "suspend" \in Pcs /\ Place(w) \in Dues /\ "sleeping" \in Suspended
      BY <1>1, WriteFacts DEF Pcs, Suspended
    <3>3. a \in Shape(y.id, y.run, s, v, y.then)
      BY <2>5, <3>2, SetPc, Zenon
    <3>4. b \in Shape(y.id, y.run, s, v, "sleeping")
      BY <3>3, SetThen, Zenon
    <3>5. x \in Shape(y.id, y.run, s, v, "sleeping")
      BY <3>2, <3>4, SetDue, Zenon
    <3>6. x.pc = "suspend"
      BY <2>3 DEF Shape
    <3>7. UsedOK'
      BY <1>1, <1>3, <2>2, <3>1, WriteUnused
    <3> QED BY <1>1, <1>3, <2>1, <2>2, <3>1, <3>2, <3>5, <3>6, <3>7, WriteMove
  <2>8. CASE Call(w).op = "turn"
    <3> DEFINE x == [z EXCEPT !.pc = "call"]
    <3>1. worker' = [worker EXCEPT ![w] = x] /\ UNCHANGED used
      BY <1>3, <2>1, <2>3, <2>4, <2>8 DEF PersistCheckpoint, Shape
    <3>2. "call" \in Pcs
      BY DEF Pcs
    <3>3. x \in Shape(y.id, y.run, s, v, y.then)
      BY <2>5, <3>2, SetPc, Zenon
    <3>4. x.pc = "call"
      BY <2>3 DEF Shape
    <3>5. UsedOK'
      BY <1>1, <1>3, <2>2, <3>1, WriteUnused
    <3> QED BY <1>1, <1>3, <2>1, <2>2, <3>1, <3>3, <3>4, <3>5, WriteMove
  <2>9. CASE v # Marker /\ v # WakeTime /\ Call(w).op # "turn"
    <3> DEFINE a == [z EXCEPT !.pc = "call"]
               x == [a EXCEPT !.at = y.at + 1]
    <3>1. worker' = [worker EXCEPT ![w] = x] /\ Use(w, v.v)
      BY <1>3, <2>1, <2>3, <2>4, <2>9 DEF PersistCheckpoint, Shape
    <3>2. "call" \in Pcs
      BY DEF Pcs
    <3>3. y.at + 1 \in Nat
      BY <1>1, WorkerFields
    <3>4. a \in Shape(y.id, y.run, s, v, y.then)
      BY <2>5, <3>2, SetPc, Zenon
    <3>5. x \in Shape(y.id, y.run, s, v, y.then)
      BY <3>3, <3>4, SetAt, Zenon
    <3>6. x.pc = "call"
      BY <2>3 DEF Shape
    <3>7. UsedOK'
      BY <1>1, <1>3, <2>2, <2>4, <2>9, <3>1, WriteUsed
    <3> QED BY <1>1, <1>3, <2>1, <2>2, <3>1, <3>5, <3>6, <3>7, WriteMove
  <2> QED BY <2>6, <2>7, <2>8, <2>9
<1> QED BY <1>2, <1>3

-----------------------------------------------------------------------------
(* The invariant. *)

LEMMA NextIInv == IInv /\ [Next]_vars => IInv'
<1> SUFFICES ASSUME IInv, [Next]_vars PROVE IInv'
  OBVIOUS
<1>1. ASSUME NEW w \in Workers, Work(w) PROVE IInv'
  BY <1>1, LoadStep, UnknownStep, ReturnStep, ReplayStep, StepStep, DispatchStep, AwaitStep, StartStep,
     SleepStep, LookStep, PersistStep, LinkedStep, SuspendStep, FinishStep, TellStep, NotifyStep DEF Work
<1>2. ASSUME NEW w \in Workers, Claim(w) \/ Crash(w) PROVE IInv'
  BY <1>2, ClaimStep, CrashStep
<1>3. ASSUME NEW n \in notices, FindWaiting(n) \/ LoseNotice(n) PROVE IInv'
  BY <1>3, SameUsed, OutsideStep DEF FindWaiting, LoseNotice, rows
<1>4. ASSUME NEW n \in notices, Wake(n) PROVE IInv'
  BY <1>4, WakeStep
<1>5. ASSUME NEW e \in Events, SendEvent(e) PROVE IInv'
  BY <1>5, SameUsed, OutsideStep DEF SendEvent, rows
<1>6. ASSUME NEW r \in Runs, CancelRun(r) \/ LeaseLapses(r) PROVE IInv'
  BY <1>6, CancelStep, LapseStep
<1>7. ASSUME NEW r \in Runs, NEW i \in Places,
             TurnEnds(r, i) \/ CancelTurn(r, i) \/ TimePasses(r, i)
      PROVE  IInv'
  BY <1>7, TurnStep, SameUsed, OutsideStep DEF TimePasses, rows
<1>8. CASE UNCHANGED vars
  BY <1>8, SameUsed, OutsideStep DEF vars, rows
<1> QED BY <1>1, <1>2, <1>3, <1>4, <1>5, <1>6, <1>7, <1>8 DEF Next

\* The invariant, of every behaviour: who owns what, what workers remember, and
\* what calls have returned (_claim_run, _persist_checkpoint, _run_handler).
THEOREM Invariant == Spec => []IInv
  BY InitIInv, NextIInv, PTL DEF Spec

\* Types; and a run has an owner exactly while it is running, and an owner has one
\* run (_claim_run makes a worker_id per claim).
THEOREM TypeOKHolds == Spec => []TypeOK
<1>1. IInv => TypeOK
  BY DEF IInv, RunsOK, CheckpointsOK, TypeOK, Statuses, Dues
<1> QED BY <1>1, Invariant, PTL

\* A call that is replayed returns what it returned (_persist_checkpoint and the
\* replay of WorkflowContext, and the execution's row for an agent turn), for every
\* program, with lapsed leases and crashes.
THEOREM ReplayAgreesHolds == Spec => []ReplayAgrees
<1>1. IInv => ReplayAgrees
  <2> SUFFICES ASSUME IInv, NEW r \in Runs, NEW i \in Places,
                      turn[r][i] \notin Late
               PROVE  Cardinality(used[r][i]) <= 1
    BY DEF ReplayAgrees, Late
  <2>1. CASE used[r][i] = {}
    BY <2>1, FS_EmptySet
  <2>2. CASE used[r][i] # {}
    <3>1. \E v : used[r][i] = {v}
      BY <2>2, ZenonT(40) DEF IInv, UsedOK, UsedAt
    <3>2. Cardinality(used[r][i]) = 1
      BY <3>1, FS_Singleton, Zenon
    <3> QED BY <3>2
  <2> QED BY <2>1, <2>2
<1> QED BY <1>1, Invariant, PTL

\* What any step does to a run that has ended: nothing.  Every UPDATE of
\* workflow_runs but one asks for an unfinished status, and checkpoints have an owner.
LEMMA EndedKept ==
    ASSUME IInv, [Next]_vars, NEW r \in Runs, Ended(r)
    PROVE  /\ checkpoint'[r] = checkpoint[r]
           /\ \/ run'[r].status = run[r].status
              \/ \E w \in Workers : UnknownWorkflow(w) /\ Run(w) = r
<1>1. /\ run[r].status \notin {"none", "queued", "running", "waiting", "sleeping"}
      /\ ~run[r].leased /\ run[r].owner = 0
      /\ run = [s \in Runs |-> run[s]] /\ checkpoint = [s \in Runs |-> checkpoint[s]]
  BY DEF Ended, Terminal, IInv, RunsOK, CheckpointsOK
<1>2. ASSUME NEW w \in Workers, worker[w] # None, worker[w].id = run[r].owner PROVE FALSE
  BY <1>1, <1>2 DEF IInv, WorkersOK, WorkerOK
<1>3. ASSUME NEW w \in Workers, PersistCheckpoint(w)
      PROVE  run'[r].status = run[r].status /\ checkpoint'[r] = checkpoint[r]
  <2>1. MayPersist(w) => Run(w) # r
    BY <1>2, <1>3 DEF PersistCheckpoint, MayPersist, Owns, At, Run
  <2>2. checkpoint'[r] = checkpoint[r] /\ run'[r] = run[r]
    BY <1>1, <1>3, <2>1 DEF PersistCheckpoint, rows
  <2> QED BY <2>2
<1>4. ASSUME NEW w \in Workers, SuspendRun(w) \/ FinishRun(w)
      PROVE  run'[r].status = run[r].status /\ checkpoint'[r] = checkpoint[r]
  BY <1>1, <1>4 DEF SuspendRun, FinishRun, MayUpdate
<1>5. ASSUME NEW w \in Workers, StartChild(w)
      PROVE  run'[r].status = run[r].status /\ checkpoint'[r] = checkpoint[r]
  BY <1>1, <1>5 DEF StartChild
<1>6. ASSUME NEW w \in Workers, Work(w), ~UnknownWorkflow(w)
      PROVE  run'[r].status = run[r].status /\ checkpoint'[r] = checkpoint[r]
  BY <1>3, <1>4, <1>5, <1>6 DEF Work, LoadCheckpoints, Return, Replay, Step, DispatchTurn, AwaitTurn,
     Sleep, LookForAnswer, CheckLinked, TellFailure, NotifyEnd, rows
<1>7. ASSUME NEW w \in Workers, Claim(w)
      PROVE  run'[r].status = run[r].status /\ checkpoint'[r] = checkpoint[r]
  <2>1. Requeued(r) = run[r] /\ Rank(r) = 4
    BY <1>1 DEF Requeued, Expired, Rank
  <2> QED BY <1>7, <2>1 DEF Claim
<1>8. ASSUME NEW n \in notices, Wake(n)
      PROVE  run'[r].status = run[r].status /\ checkpoint'[r] = checkpoint[r]
  BY <1>1, <1>8 DEF Wake
<1>9. ASSUME NEW s \in Runs, CancelRun(s) \/ LeaseLapses(s)
      PROVE  run'[r].status = run[r].status /\ checkpoint'[r] = checkpoint[r]
  BY <1>1, <1>9 DEF CancelRun, LeaseLapses
<1>10. ASSUME UNCHANGED rows
       PROVE  run'[r].status = run[r].status /\ checkpoint'[r] = checkpoint[r]
  BY <1>10 DEF rows
<1>11. ASSUME NEW w \in Workers, UnknownWorkflow(w)
       PROVE  checkpoint'[r] = checkpoint[r] /\ (run'[r].status = run[r].status \/ Run(w) = r)
  BY <1>1, <1>11 DEF UnknownWorkflow
<1> QED BY <1>6, <1>7, <1>8, <1>9, <1>10, <1>11
        DEF Next, Crash, FindWaiting, LoseNotice, SendEvent, TurnEnds, CancelTurn, TimePasses, vars, rows

\* A run that has ended keeps its checkpoints, and its status but for workers that
\* have no handler for it, whatever slow workers do afterwards (_persist_checkpoint,
\* _run_handler, cancel_workflow_run).
THEOREM EndedStays == Spec => EndedStaysEnded
<1>1. IInv /\ [Next]_vars =>
        [\A r \in Runs : Ended(r) =>
           /\ checkpoint'[r] = checkpoint[r]
           /\ \/ run'[r].status = run[r].status
              \/ \E w \in Workers : UnknownWorkflow(w) /\ Run(w) = r]_vars
  BY EndedKept
<1> QED BY <1>1, Invariant, PTL DEF Spec, EndedStaysEnded

=============================================================================
