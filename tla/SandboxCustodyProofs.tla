------------------------ MODULE SandboxCustodyProofs ------------------------
(***************************************************************************)
(* Proofs about SandboxCustody: no sandbox serves two threads or is served *)
(* and offered at once, for any number of threads, callers, processes and  *)
(* sandboxes, and with everything that may fail.                           *)
(*                                                                         *)
(* The argument: a thread gets a sandbox that it does not have only from   *)
(* its process's pool, which gives it up in the same step, or by creating  *)
(* one, and what has not been created belongs to nobody.  Every other step *)
(* passes a sandbox on within its thread, or loses it.                     *)
(***************************************************************************)
EXTENDS SandboxCustody, TLAPS

\* What has not been created is nobody's.
Created ==
    \A b \in Boxes : pod[b] = "none" => /\ \A t \in Threads : ~Has(t, b)
                                        /\ \A r \in Replicas : ~Offers(r, b)

\* What a process adds to its pool is not there yet.
Fresh == \A r \in Replicas : loop[r].new \notin pool[r]

Sound == Exclusive /\ Created /\ Fresh
IInv  == TypeOK /\ (Hazard("adopt") \/ Sound)

\* A step by which nobody gets a sandbox.
NoGain ==
    /\ \A t \in Threads, b \in Boxes : Has(t, b)' => Has(t, b)
    /\ \A r \in Replicas, b \in Boxes : Offers(r, b)' => Offers(r, b)
    /\ \A r \in Replicas : loop'[r].new \in pool'[r] => loop[r].new \in pool[r]
    /\ \A b \in Boxes : pod'[b] = "none" => pod[b] = "none"

-----------------------------------------------------------------------------
LEMMA NoGainSound == Sound /\ NoGain => Sound'
<1> SUFFICES ASSUME Sound, NoGain PROVE Sound'
  OBVIOUS
<1>1. Exclusive'
  BY DEF Sound, Exclusive, NoGain
<1>2. Created'
  BY DEF Sound, Created, NoGain
<1>3. Fresh'
  BY DEF Sound, Fresh, NoGain
<1> QED BY <1>1, <1>2, <1>3 DEF Sound

\* A caller goes somewhere, with a sandbox where it wants one.
LEMMA CallMoves ==
    ASSUME CallsOK, NEW c \in Callers,
           NEW x \in [pc : EmptyHanded \cup Holding, box : Boxes \cup {None},
                      state : Reusable \cup {"stopped", None}],
           x.box = None <=> x.pc \in EmptyHanded,
           x.pc \in {"check", "insert warm"} => x.box \in warm,
           warm \subseteq warm',
           call' = [call EXCEPT ![c] = x]
    PROVE  CallsOK'
BY DEF CallsOK

\* It goes on with what it has.
LEMMA CallGoesOn ==
    ASSUME CallsOK, NEW c \in Callers, NEW pc \in EmptyHanded \cup Holding,
           call[c].box = None <=> pc \in EmptyHanded,
           pc \in {"check", "insert warm"} => call[c].box \in warm,
           warm \subseteq warm',
           At(c, pc)
    PROVE  CallsOK'
<1> DEFINE x == [call[c] EXCEPT !.pc = pc]
<1>1. x \in [pc : EmptyHanded \cup Holding, box : Boxes \cup {None}, state : Reusable \cup {"stopped", None}]
  BY DEF CallsOK
<1>2. x.pc = pc /\ x.box = call[c].box
  BY DEF CallsOK
<1>3. call' = [call EXCEPT ![c] = x]
  BY DEF At
<1> QED BY <1>1, <1>2, <1>3, CallMoves

\* It takes a sandbox, or lets its own go.
LEMMA CallHolds ==
    ASSUME CallsOK, NEW c \in Callers, NEW pc \in EmptyHanded \cup Holding,
           NEW b \in Boxes \cup {None},
           b = None <=> pc \in EmptyHanded,
           pc \in {"check", "insert warm"} => b \in warm,
           warm \subseteq warm',
           Hold(c, pc, b)
    PROVE  CallsOK'
<1> DEFINE x == [call[c] EXCEPT !.pc = pc, !.box = b]
<1>1. x \in [pc : EmptyHanded \cup Holding, box : Boxes \cup {None}, state : Reusable \cup {"stopped", None}]
  BY DEF CallsOK
<1>2. x.pc = pc /\ x.box = b
  BY DEF CallsOK
<1>3. call' = [call EXCEPT ![c] = x]
  BY DEF Hold
<1> QED BY <1>1, <1>2, <1>3, CallMoves

LEMMA CallReturns ==
    ASSUME CallsOK, NEW c \in Callers, warm \subseteq warm', Return(c)
    PROVE  CallsOK'
<1>1. Idle \in [pc : EmptyHanded \cup Holding, box : Boxes \cup {None}, state : Reusable \cup {"stopped", None}]
  BY DEF Idle, EmptyHanded
<1> QED BY <1>1, CallMoves DEF Return, Idle, EmptyHanded

\* Whose hands hold what, after that.
LEMMA Hands ==
    ASSUME CallsOK, NEW c \in Callers
    PROVE  /\ \A pc : At(c, pc) => \A d \in Callers : call'[d].box = call[d].box
           /\ \A pc, b : Hold(c, pc, b) => /\ call'[c].box = b
                                         /\ \A d \in Callers \ {c} : call'[d].box = call[d].box
           /\ Return(c) => /\ call'[c].box = None
                           /\ \A d \in Callers \ {c} : call'[d].box = call[d].box
<1>1. ASSUME NEW pc, At(c, pc), NEW d \in Callers PROVE call'[d].box = call[d].box
  BY <1>1 DEF At, CallsOK
<1>2. ASSUME NEW pc, NEW b, Hold(c, pc, b)
      PROVE  /\ call'[c].box = b
             /\ \A d \in Callers \ {c} : call'[d].box = call[d].box
  BY <1>2 DEF Hold, CallsOK
<1>3. ASSUME Return(c)
      PROVE  /\ call'[c].box = None
             /\ \A d \in Callers \ {c} : call'[d].box = call[d].box
  BY <1>3 DEF Return, Idle, CallsOK
<1> QED BY <1>1, <1>2, <1>3

\* Sandboxes stop and pause.
LEMMA PodsMove ==
    ASSUME PodsOK, UNCHANGED warm, NEW b \in Boxes, StopBox(b) \/ PauseBox(b) \/ Stopped(b)
    PROVE  PodsOK' /\ \A x \in Boxes : pod'[x] = "none" => pod[x] = "none"
BY DEF PodsOK, StopBox, PauseBox, Stopped

\* Parts of the invariant stay with their variables.
LEMMA Stays ==
    /\ PodsOK /\ UNCHANGED <<pod, warm>> => PodsOK'
    /\ RowsOK /\ UNCHANGED row => RowsOK'
    /\ PoolsOK /\ UNCHANGED <<pool, loop, warm>> => PoolsOK'
    /\ CallsOK /\ UNCHANGED <<call, warm>> => CallsOK'
    /\ JobsOK /\ UNCHANGED job => JobsOK'
BY DEF PodsOK, RowsOK, PoolsOK, CallsOK, JobsOK

LEMMA InitIInv == Init => IInv
<1> SUFFICES ASSUME Init PROVE IInv
  OBVIOUS
<1>1. PodsOK /\ RowsOK
  BY DEF Init, PodsOK, RowsOK
<1>2. PoolsOK
  BY DEF Init, PoolsOK, Down
<1>3. CallsOK
  BY DEF Init, CallsOK, Idle, EmptyHanded
<1>4. JobsOK
  BY DEF Init, JobsOK, NoJob
<1>5. \A b \in Boxes : /\ \A t \in Threads : ~Has(t, b)
                      /\ \A r \in Replicas : ~Offers(r, b)
  BY CustodyAssumption DEF Init, Has, Offers, Idle, Down
<1>6. Sound
  BY <1>5 DEF Sound, Exclusive, Created, Fresh, Init
<1> QED BY <1>1, <1>2, <1>3, <1>4, <1>6 DEF IInv, TypeOK, Init

-----------------------------------------------------------------------------
(* The steps by which nobody gets a sandbox *)

\* A caller whose sandbox is its thread's already, or that lets it go.
LEMMA SameHolders ==
    ASSUME TypeOK, NEW c \in Callers,
           UNCHANGED <<world, pool, loop>>,
           \A b \in Boxes : pod'[b] = "none" => pod[b] = "none",
           \A d \in Callers \ {c} : call'[d].box = call[d].box,
           call'[c].box = None \/ Has(ThreadOf(c), call'[c].box),
           \A t \in Threads : row'[t] # None => Has(t, row'[t].box)
    PROVE  NoGain
<1>1. ASSUME NEW t \in Threads, NEW b \in Boxes, Has(t, b)' PROVE Has(t, b)
  <2>1. CASE row'[t] # None /\ row'[t].box = b
    BY <2>1
  <2>2. CASE \E d \in Callers : ThreadOf(d)' = t /\ call'[d].box = b
    <3>1. PICK d \in Callers : ThreadOf(d)' = t /\ call'[d].box = b
      BY <2>2
    <3>2. ThreadOf(d) = t
      BY <3>1 DEF ThreadOf
    <3>3. CASE d = c
      BY <3>1, <3>2, <3>3, CustodyAssumption
    <3>4. CASE d # c
      BY <3>1, <3>2, <3>4 DEF Has
    <3> QED BY <3>3, <3>4
  <2> QED BY <1>1, <2>1, <2>2 DEF Has
<1> QED BY <1>1 DEF NoGain, Offers

\* What the rows say of sandboxes is no news.
RowsQuiet == RowsOK' /\ \A t \in Threads : row'[t] # None => Has(t, row'[t].box)

\* The same for a caller that goes on with what it has.
LEMMA GoesOnQuiet ==
    ASSUME TypeOK, NEW c \in Callers, NEW pc \in EmptyHanded \cup Holding,
           pc \in EmptyHanded <=> call[c].pc \in EmptyHanded,
           pc \in {"check", "insert warm"} => call[c].box \in warm,
           UNCHANGED <<world, warm, pool, loop>>,
           At(c, pc),
           PodsOK' /\ \A b \in Boxes : pod'[b] = "none" => pod[b] = "none",
           RowsQuiet, JobsOK'
    PROVE  TypeOK' /\ NoGain
<1>1. CallsOK'
  BY CallGoesOn DEF TypeOK, CallsOK
<1>2. \A d \in Callers : call'[d].box = call[d].box
  BY Hands DEF TypeOK
<1>3. call'[c].box = None \/ Has(ThreadOf(c), call'[c].box)
  BY <1>2 DEF Has
<1>4. NoGain
  BY <1>2, <1>3, SameHolders DEF RowsQuiet
<1> QED BY <1>1, <1>4, Stays DEF TypeOK, RowsQuiet

\* And for one that takes its thread's sandbox,
LEMMA TakesQuiet ==
    ASSUME TypeOK, NEW c \in Callers, NEW pc \in Holding \ {"check", "insert warm"}, NEW b \in Boxes,
           Has(ThreadOf(c), b),
           UNCHANGED <<world, warm, pool, loop, job>>,
           Hold(c, pc, b),
           PodsOK' /\ \A x \in Boxes : pod'[x] = "none" => pod[x] = "none",
           RowsQuiet
    PROVE  TypeOK' /\ NoGain
<1>1. CallsOK'
  <2>1. b # None /\ pc \notin EmptyHanded
    BY CustodyAssumption DEF EmptyHanded, Holding
  <2> QED BY <2>1, CallHolds DEF TypeOK
<1>2. call'[c].box = b /\ \A d \in Callers \ {c} : call'[d].box = call[d].box
  BY Hands DEF TypeOK
<1>3. NoGain
  BY <1>2, SameHolders DEF RowsQuiet
<1> QED BY <1>1, <1>3, Stays DEF TypeOK, RowsQuiet

\* or lets its own go,
LEMMA LetsGoQuiet ==
    ASSUME TypeOK, NEW c \in Callers, NEW pc \in EmptyHanded,
           UNCHANGED <<world, warm, pool, loop, job>>,
           Hold(c, pc, None),
           PodsOK' /\ \A x \in Boxes : pod'[x] = "none" => pod[x] = "none",
           RowsQuiet
    PROVE  TypeOK' /\ NoGain
<1>1. CallsOK'
  <2>1. pc \notin {"check", "insert warm"}
    BY DEF EmptyHanded
  <2> QED BY <2>1, CallHolds DEF TypeOK
<1>2. call'[c].box = None /\ \A d \in Callers \ {c} : call'[d].box = call[d].box
  BY Hands DEF TypeOK
<1>3. NoGain
  BY <1>2, SameHolders DEF RowsQuiet
<1> QED BY <1>1, <1>3, Stays DEF TypeOK, RowsQuiet

\* or returns.
LEMMA ReturnQuiet ==
    ASSUME TypeOK, NEW c \in Callers,
           UNCHANGED <<world, warm, pool, loop, job>>,
           Return(c),
           PodsOK' /\ \A x \in Boxes : pod'[x] = "none" => pod[x] = "none",
           RowsQuiet
    PROVE  TypeOK' /\ NoGain
<1>1. CallsOK'
  BY CallReturns DEF TypeOK
<1>2. call'[c].box = None /\ \A d \in Callers \ {c} : call'[d].box = call[d].box
  BY Hands DEF TypeOK
<1>3. NoGain
  BY <1>2, SameHolders DEF RowsQuiet
<1> QED BY <1>1, <1>3, Stays DEF TypeOK, RowsQuiet

\* Rows are their threads'.
LEMMA RowsHave == \A t \in Threads : row[t] # None => Has(t, row[t].box)
BY DEF Has

LEMMA RowsStay == TypeOK /\ UNCHANGED row => RowsQuiet
BY RowsHave, Stays DEF RowsQuiet, TypeOK

LEMMA PodsStay ==
    ASSUME TypeOK, UNCHANGED <<pod, warm>>
    PROVE  PodsOK' /\ \A b \in Boxes : pod'[b] = "none" => pod[b] = "none"
BY DEF TypeOK, PodsOK

LEMMA EnqueueQuiet ==
    ASSUME TypeOK, NEW c \in Callers, Enqueue(c) PROVE TypeOK' /\ NoGain
BY GoesOnQuiet, PodsStay, RowsStay, Stays DEF TypeOK, Enqueue, EmptyHanded

LEMMA ReadSessionQuiet ==
    ASSUME TypeOK, NEW c \in Callers, ReadSession(c) PROVE TypeOK' /\ NoGain
<1> DEFINE t == ThreadOf(c)
<1>0. t \in Threads /\ (row[t] = None \/ row[t] \in Rows)
  BY CustodyAssumption DEF TypeOK, RowsOK, ThreadOf
<1>1. CASE row[t] = None
  BY <1>1, GoesOnQuiet, PodsStay, RowsStay, Stays DEF TypeOK, ReadSession, EmptyHanded
<1>2. CASE row[t] # None
  <2> DEFINE x == [pc |-> IF row[t].state \in Reusable THEN "status" ELSE "delete",
                   box |-> row[t].box, state |-> row[t].state]
  <2>1. call' = [call EXCEPT ![c] = x]
    BY <1>2 DEF ReadSession
  <2>2. x.pc \in {"status", "delete"} /\ x.box \in Boxes /\ x.state \in Reusable \cup {"stopped"}
    BY <1>0, <1>2 DEF Rows
  <2>3. x.box # None
    BY <2>2, CustodyAssumption
  <2>4. CallsOK'
    <3>1. x \in [pc : EmptyHanded \cup Holding, box : Boxes \cup {None}, state : Reusable \cup {"stopped", None}]
      BY <2>2 DEF Holding
    <3>2. x.pc \notin EmptyHanded /\ x.pc \notin {"check", "insert warm"}
      BY <2>2 DEF EmptyHanded
    <3>3. warm \subseteq warm'
      BY DEF ReadSession
    <3> QED BY <2>1, <2>3, <3>1, <3>2, <3>3, CallMoves DEF TypeOK
  <2>5. call'[c].box = row[t].box /\ \A d \in Callers \ {c} : call'[d].box = call[d].box
    BY <2>1 DEF TypeOK, CallsOK
  <2>6. Has(ThreadOf(c), call'[c].box)
    BY <1>0, <1>2, <2>5, RowsHave
  <2>7. NoGain
    BY <2>5, <2>6, RowsHave, PodsStay, SameHolders DEF ReadSession
  <2> QED BY <2>4, <2>7, Stays DEF TypeOK, ReadSession
<1> QED BY <1>1, <1>2

LEMMA StatusQuiet ==
    ASSUME TypeOK, NEW c \in Callers, Reuse(c) \/ Discard(c) \/ Missing(c) PROVE TypeOK' /\ NoGain
<1>1. /\ call[c].pc = "status" /\ call[c].box \in Boxes
      /\ UNCHANGED <<world, warm, row, pool, loop, job>>
      /\ UNCHANGED pod \/ Stopped(call[c].box)
  BY DEF Reuse, Discard, Missing, TypeOK, CallsOK, EmptyHanded
<1>2. PICK pc \in {"use", "delete", "resume", "stop old"} : At(c, pc)
  BY DEF Reuse, Discard, Missing, AfterStatus
<1>3. PodsOK' /\ \A b \in Boxes : pod'[b] = "none" => pod[b] = "none"
  BY <1>1, PodsMove, PodsStay DEF TypeOK
<1> QED BY <1>1, <1>2, <1>3, GoesOnQuiet, RowsStay, Stays DEF TypeOK, EmptyHanded, Holding

\* Setting the state of a thread's row is no news.
LEMMA SetStateQuiet ==
    ASSUME TypeOK, NEW t \in Threads, NEW st \in Reusable, SetState(t, st)
    PROVE  RowsQuiet
<1>1. CASE row[t] = None
  BY <1>1, RowsStay DEF SetState
<1>2. CASE row[t] # None
  <2> DEFINE r == [row[t] EXCEPT !.state = st, !.old = FALSE]
  <2>1. row[t] \in Rows
    BY <1>2 DEF TypeOK, RowsOK
  <2>2. r \in Rows /\ r.box = row[t].box
    BY <2>1 DEF Rows
  <2>3. row' = [row EXCEPT ![t] = r]
    BY <1>2 DEF SetState
  <2>4. RowsOK'
    BY <2>2, <2>3 DEF TypeOK, RowsOK
  <2>5. \A u \in Threads : row'[u] # None => row[u] # None /\ row'[u].box = row[u].box
    BY <1>2, <2>2, <2>3 DEF TypeOK, RowsOK
  <2> QED BY <2>4, <2>5, RowsHave DEF RowsQuiet
<1> QED BY <1>1, <1>2

\* Nor is a thread's row of a sandbox it has.
LEMMA RowQuiet ==
    ASSUME TypeOK, NEW t \in Threads, NEW b \in Boxes, NEW st \in Reusable,
           Has(t, b), row' = [row EXCEPT ![t] = Row(b, st)]
    PROVE  RowsQuiet
<1>1. Row(b, st) \in Rows /\ Row(b, st).box = b
  BY DEF Row, Rows
<1>2. RowsOK'
  BY <1>1 DEF TypeOK, RowsOK
<1>3. \A u \in Threads : row'[u] = IF u = t THEN Row(b, st) ELSE row[u]
  BY DEF TypeOK, RowsOK
<1> QED BY <1>1, <1>2, <1>3, RowsHave DEF RowsQuiet

\* What a caller holds its thread has.
LEMMA CallersHave ==
    ASSUME TypeOK, NEW c \in Callers
    PROVE  /\ ThreadOf(c) \in Threads
           /\ Has(ThreadOf(c), call[c].box)
           /\ call[c].pc \in Holding => call[c].box \in Boxes
<1>1. call[c].pc \in Holding => call[c].pc \notin EmptyHanded
  BY DEF Holding, EmptyHanded
<1> QED BY <1>1, CustodyAssumption DEF TypeOK, CallsOK, Has, ThreadOf

LEMMA ResumeQuiet ==
    ASSUME TypeOK, NEW c \in Callers, Resume(c) \/ StopOld(c) \/ DeleteRow(c)
    PROVE  TypeOK' /\ NoGain
<1>1. CASE Resume(c)
  <2>1. /\ call[c].pc = "resume" /\ UNCHANGED <<world, warm, row, pool, loop, job>>
        /\ UNCHANGED pod \/ pod' = [pod EXCEPT ![call[c].box] = "running"]
    BY <1>1 DEF Resume
  <2>2. PICK pc \in {"resumed", "stop old"} : At(c, pc)
    BY <1>1 DEF Resume
  <2>3. PodsOK' /\ \A b \in Boxes : pod'[b] = "none" => pod[b] = "none"
    BY <2>1 DEF TypeOK, PodsOK
  <2> QED BY <2>1, <2>2, <2>3, GoesOnQuiet, RowsStay, Stays DEF TypeOK, EmptyHanded, Holding
<1>2. CASE StopOld(c)
  <2>1. /\ call[c].pc = "stop old" /\ UNCHANGED <<world, warm, row, pool, loop, job>>
        /\ At(c, "delete") /\ StopBox(call[c].box)
    BY <1>2 DEF StopOld
  <2>2. call[c].box \in Boxes
    BY <2>1, CallersHave DEF Holding
  <2>3. PodsOK' /\ \A b \in Boxes : pod'[b] = "none" => pod[b] = "none"
    BY <2>1, <2>2, PodsMove DEF TypeOK
  <2> QED BY <2>1, <2>3, GoesOnQuiet, RowsStay, Stays DEF TypeOK, EmptyHanded, Holding
<1>3. CASE DeleteRow(c)
  <2>1. /\ UNCHANGED <<world, warm, pod, pool, loop, job>>
        /\ Hold(c, "warm", None) /\ row' = [row EXCEPT ![ThreadOf(c)] = None]
    BY <1>3 DEF DeleteRow
  <2>2. RowsQuiet
    BY <2>1, RowsHave DEF TypeOK, RowsOK, RowsQuiet
  <2> QED BY <2>1, <2>2, LetsGoQuiet, PodsStay DEF EmptyHanded
<1> QED BY <1>1, <1>2, <1>3

LEMMA ResumedQuiet ==
    ASSUME TypeOK, NEW c \in Callers, Resumed(c) PROVE TypeOK' /\ NoGain
<1>1. call[c].pc = "resumed" /\ At(c, "use") /\ UNCHANGED <<world, pod, warm, pool, loop, job>>
  BY DEF Resumed
<1>2. /\ ThreadOf(c) \in Threads /\ call[c].box \in Boxes /\ Has(ThreadOf(c), call[c].box)
  BY <1>1, CallersHave DEF Holding
<1>3. UNCHANGED row \/ row' = [row EXCEPT ![ThreadOf(c)] = Row(call[c].box, "idle")]
  BY DEF Resumed
<1>4. RowsQuiet
  BY <1>2, <1>3, RowQuiet, RowsStay DEF Reusable, Active
<1> QED BY <1>1, <1>4, GoesOnQuiet, PodsStay, Stays DEF TypeOK, EmptyHanded, Holding

LEMMA InsertWarmQuiet ==
    ASSUME TypeOK, NEW c \in Callers, InsertWarm(c) \/ InsertSession(c) PROVE TypeOK' /\ NoGain
<1>1. call[c].pc \in {"insert warm", "insert"} /\ UNCHANGED <<world, pod, warm, pool, loop, job>>
  BY DEF InsertWarm, InsertSession
<1>2. /\ ThreadOf(c) \in Threads /\ call[c].box \in Boxes /\ Has(ThreadOf(c), call[c].box)
  BY <1>1, CallersHave DEF Holding
<1>3. \/ /\ At(c, "use")
         /\ \E st \in Active : row' = [row EXCEPT ![ThreadOf(c)] = Row(call[c].box, st)]
      \/ UNCHANGED row /\ (At(c, "lost") \/ Hold(c, "cold", None))
  BY DEF InsertWarm, InsertSession, Insert, Active
<1>4. RowsQuiet
  BY <1>2, <1>3, RowQuiet, RowsStay DEF Reusable
<1>5. CASE At(c, "use") \/ At(c, "lost")
  BY <1>1, <1>4, <1>5, GoesOnQuiet, PodsStay, Stays DEF TypeOK, EmptyHanded, Holding
<1>6. CASE Hold(c, "cold", None)
  BY <1>1, <1>4, <1>6, LetsGoQuiet, PodsStay DEF EmptyHanded
<1> QED BY <1>3, <1>5, <1>6

LEMMA WarmQuiet ==
    ASSUME TypeOK, NEW c \in Callers, NoWarm(c) \/ CheckWarm(c) PROVE TypeOK' /\ NoGain
<1>1. CASE NoWarm(c)
  BY <1>1, GoesOnQuiet, PodsStay, RowsStay, Stays DEF TypeOK, NoWarm, EmptyHanded
<1>2. CASE CheckWarm(c)
  <2>1. call[c].pc = "check" /\ UNCHANGED <<world, warm, row, pool, loop, job>>
    BY <1>2 DEF CheckWarm
  <2>2. call[c].box \in Boxes /\ call[c].box \in warm
    BY <2>1, CallersHave DEF Holding, TypeOK, CallsOK
  <2>3. CASE UNCHANGED pod /\ At(c, "insert warm")
    BY <2>1, <2>2, <2>3, GoesOnQuiet, PodsStay, RowsStay, Stays DEF TypeOK, EmptyHanded, Holding
  <2>4. CASE StopBox(call[c].box) /\ Hold(c, "cold", None)
    <3>1. PodsOK' /\ \A b \in Boxes : pod'[b] = "none" => pod[b] = "none"
      BY <2>1, <2>2, <2>4, PodsMove DEF TypeOK
    <3> QED BY <2>1, <2>4, <3>1, LetsGoQuiet, RowsStay DEF EmptyHanded
  <2> QED BY <1>2, <2>3, <2>4 DEF CheckWarm
<1> QED BY <1>1, <1>2

LEMMA CapacityQuiet ==
    ASSUME TypeOK, NEW c \in Callers, SelectForCapacity(c) \/ Evicted(c) PROVE TypeOK' /\ NoGain
<1>1. CASE SelectForCapacity(c)
  <2>1. PICK S \in SUBSET IdleThreads :
           job' = [job EXCEPT ![c] = [kind |-> "evict", left |-> {Item(t) : t \in S}, now |-> None]]
    BY <1>1 DEF SelectForCapacity
  <2>2. {Item(t) : t \in S} \subseteq Items
    BY DEF Item, Items, IdleThreads, TypeOK, RowsOK, Rows
  <2>3. JobsOK'
    BY <2>1, <2>2 DEF TypeOK, JobsOK
  <2> QED BY <1>1, <2>3, GoesOnQuiet, PodsStay, RowsStay DEF SelectForCapacity, EmptyHanded
<1>2. CASE Evicted(c)
  <2>1. JobsOK'
    BY <1>2 DEF Evicted, TypeOK, JobsOK, NoJob
  <2> QED BY <1>2, <2>1, GoesOnQuiet, PodsStay, RowsStay DEF Evicted, EmptyHanded
<1> QED BY <1>1, <1>2

LEMMA LostQuiet ==
    ASSUME TypeOK, NEW c \in Callers, StopLost(c) \/ AdoptWinner(c) \/ Raise(c) \/ Spawned(c)
    PROVE  TypeOK' /\ NoGain
<1>1. CASE StopLost(c)
  <2>1. /\ call[c].pc = "lost" /\ UNCHANGED <<world, warm, row, pool, loop, job>>
        /\ Stopped(call[c].box) /\ Hold(c, "adopt", None)
    BY <1>1 DEF StopLost
  <2>2. call[c].box \in Boxes
    BY <2>1, CallersHave DEF Holding
  <2>3. PodsOK' /\ \A b \in Boxes : pod'[b] = "none" => pod[b] = "none"
    BY <2>1, <2>2, PodsMove DEF TypeOK
  <2> QED BY <2>1, <2>3, LetsGoQuiet, RowsStay DEF EmptyHanded
<1>2. CASE AdoptWinner(c) /\ row[ThreadOf(c)] # None
  <2>1. /\ Hold(c, "use", row[ThreadOf(c)].box)
        /\ UNCHANGED <<world, pod, warm, row, pool, loop, job>>
    BY <1>2 DEF AdoptWinner
  <2>2. ThreadOf(c) \in Threads
    BY CallersHave
  <2>3. row[ThreadOf(c)].box \in Boxes
    BY <1>2, <2>2 DEF TypeOK, RowsOK, Rows
  <2>4. row[ThreadOf(c)].box # None /\ Has(ThreadOf(c), row[ThreadOf(c)].box)
    BY <1>2, <2>2, <2>3, RowsHave, CustodyAssumption
  <2> QED BY <2>1, <2>3, <2>4, TakesQuiet, PodsStay, RowsStay DEF Holding
<1>3. CASE Return(c) /\ UNCHANGED <<world, pod, warm, row, pool, loop, job>>
  BY <1>3, ReturnQuiet, PodsStay, RowsStay
<1> QED BY <1>1, <1>2, <1>3 DEF AdoptWinner, Raise, Spawned

LEMMA TurnQuiet ==
    ASSUME TypeOK, NEW c \in Callers, BeginTurn(c) \/ EndTurn(c) PROVE TypeOK' /\ NoGain
<1>1. RowsQuiet
  BY CallersHave, SetStateQuiet DEF BeginTurn, EndTurn, Reusable, Active
<1>2. CASE BeginTurn(c)
  BY <1>1, <1>2, GoesOnQuiet, PodsStay, Stays DEF BeginTurn, TypeOK, EmptyHanded, Holding
<1>3. CASE EndTurn(c)
  BY <1>1, <1>3, ReturnQuiet, PodsStay DEF EndTurn
<1> QED BY <1>2, <1>3

LEMMA StopQuiet ==
    ASSUME TypeOK, NEW c \in Callers, ReadToStop(c) \/ StopSession(c) \/ MarkStopped(c)
    PROVE  TypeOK' /\ NoGain
<1>1. CASE ReadToStop(c)
  <2>1. /\ row[ThreadOf(c)] # None /\ UNCHANGED <<world, pod, warm, row, pool, loop, job>>
        /\ \E pc \in {"stop", "pause"} : Hold(c, pc, row[ThreadOf(c)].box)
    BY <1>1 DEF ReadToStop
  <2>2. ThreadOf(c) \in Threads
    BY CallersHave
  <2>3. row[ThreadOf(c)].box \in Boxes /\ Has(ThreadOf(c), row[ThreadOf(c)].box)
    BY <2>1, <2>2, RowsHave DEF TypeOK, RowsOK, Rows
  <2>4. PICK pc \in {"stop", "pause"} : Hold(c, pc, row[ThreadOf(c)].box)
    BY <2>1
  <2> QED BY <2>1, <2>3, <2>4, TakesQuiet, PodsStay, RowsStay DEF Holding
<1>2. CASE StopSession(c)
  <2>1. /\ call[c].pc \in {"stop", "pause"} /\ UNCHANGED <<world, warm, row, pool, loop, job>>
        /\ StopBox(call[c].box) \/ PauseBox(call[c].box)
        /\ Return(c) \/ \E pc \in {"stopped", "suspended"} : At(c, pc)
    BY <1>2 DEF StopSession
  <2>2. call[c].box \in Boxes
    BY <2>1, CallersHave DEF Holding
  <2>3. PodsOK' /\ \A b \in Boxes : pod'[b] = "none" => pod[b] = "none"
    BY <2>1, <2>2, PodsMove DEF TypeOK
  <2>4. CASE Return(c)
    BY <2>1, <2>3, <2>4, ReturnQuiet, RowsStay
  <2>5. CASE \E pc \in {"stopped", "suspended"} : At(c, pc)
    <3>1. PICK pc \in {"stopped", "suspended"} : At(c, pc)
      BY <2>5
    <3> QED BY <2>1, <2>3, <3>1, GoesOnQuiet, RowsStay, Stays DEF TypeOK, EmptyHanded, Holding
  <2> QED BY <2>1, <2>4, <2>5
<1>3. CASE MarkStopped(c)
  <2>1. /\ call[c].pc \in {"stopped", "suspended"} /\ Return(c)
        /\ UNCHANGED <<world, pod, warm, pool, loop, job>>
    BY <1>3 DEF MarkStopped
  <2>2. \A b \in Boxes : Row(b, call[c].pc) \in Rows /\ Row(b, call[c].pc).box = b
    BY <2>1 DEF Row, Rows, Reusable
  <2>3. /\ row' \in [Threads -> Rows \cup {None}]
        /\ \A t \in Threads : row'[t] # None => row[t] # None /\ row'[t].box = row[t].box
    BY <1>3, <2>2 DEF MarkStopped, TypeOK, RowsOK, Rows
  <2>4. RowsQuiet
    BY <2>3, RowsHave DEF RowsQuiet, RowsOK
  <2> QED BY <2>1, <2>4, ReturnQuiet, PodsStay
<1> QED BY <1>1, <1>2, <1>3

\* A step of the tick, or of an eviction, moves no caller.
LEMMA CallsRest ==
    ASSUME TypeOK, UNCHANGED <<world, warm, pool, loop, call>>,
           PodsOK' /\ \A b \in Boxes : pod'[b] = "none" => pod[b] = "none",
           RowsQuiet, JobsOK'
    PROVE  TypeOK' /\ NoGain
<1>1. ASSUME NEW t \in Threads, NEW b \in Boxes, Has(t, b)' PROVE Has(t, b)
  BY <1>1 DEF Has, RowsQuiet, ThreadOf
<1>2. NoGain
  BY <1>1 DEF NoGain, Offers
<1> QED BY <1>2, Stays DEF TypeOK, RowsQuiet

\* Rows that are deleted, or grow old, are no news.
LEMMA FewerRows ==
    ASSUME TypeOK, row' \in [Threads -> Rows \cup {None}],
           \A t \in Threads : row'[t] # None => row[t] # None /\ row'[t].box = row[t].box
    PROVE  RowsQuiet
BY RowsHave DEF RowsQuiet, RowsOK

LEMMA TickQuiet ==
    ASSUME TypeOK,
           \/ \E t \in Threads : Age(t)
           \/ \E kind \in {"check", "expire", "reap"} : StepOfTick(kind)
           \/ CleanRows
           \/ StepEnds
    PROVE  TypeOK' /\ NoGain
<1>1. ASSUME NEW t \in Threads, Age(t) PROVE TypeOK' /\ NoGain
  <2> DEFINE r == [row[t] EXCEPT !.old = TRUE]
  <2>1. row[t] \in Rows /\ row' = [row EXCEPT ![t] = r]
    BY <1>1 DEF Age, TypeOK, RowsOK
  <2>2. r \in Rows /\ r.box = row[t].box
    BY <2>1 DEF Rows
  <2>3. RowsQuiet
    BY <1>1, <2>1, <2>2, FewerRows DEF Age, TypeOK, RowsOK
  <2> QED BY <1>1, <2>3, CallsRest, PodsStay, Stays DEF Age, TypeOK
<1>2. ASSUME NEW kind \in {"check", "expire", "reap"}, StepOfTick(kind) PROVE TypeOK' /\ NoGain
  <2>1. Selected(kind) \subseteq {t \in Threads : row[t] # None}
    BY DEF Selected
  <2>2. {Item(t) : t \in Selected(kind)} \subseteq Items
    BY <2>1 DEF Item, Items, TypeOK, RowsOK, Rows
  <2>3. JobsOK'
    BY <1>2, <2>2 DEF StepOfTick, TypeOK, JobsOK
  <2>4. RowsQuiet
    BY <1>2, FewerRows DEF StepOfTick, TypeOK, RowsOK
  <2> QED BY <1>2, <2>3, <2>4, CallsRest, PodsStay DEF StepOfTick
<1>3. CASE StepEnds
  <2>1. JobsOK'
    BY <1>3 DEF StepEnds, TypeOK, JobsOK, NoJob
  <2>2. RowsQuiet
    BY <1>3, FewerRows DEF StepEnds, WithoutOld, TypeOK, RowsOK
  <2> QED BY <1>3, <2>1, <2>2, CallsRest, PodsStay DEF StepEnds
<1>4. CASE CleanRows
  <2>1. RowsQuiet
    BY <1>4, FewerRows DEF CleanRows, WithoutOld, TypeOK, RowsOK
  <2> QED BY <1>4, <2>1, CallsRest, PodsStay, Stays DEF CleanRows, TypeOK
<1> QED BY <1>1, <1>2, <1>3, <1>4

LEMMA ItemQuiet ==
    ASSUME TypeOK, NEW a \in Callers \cup {Tick},
           MarkItem(a) \/ \E i \in job[a].left : TakeItem(a, i)
    PROVE  TypeOK' /\ NoGain
<1>0. job[a].left \subseteq Items /\ (job[a].now = None \/ job[a].now \in Items)
  BY DEF TypeOK, JobsOK
<1>1. ASSUME NEW i \in job[a].left, TakeItem(a, i) PROVE TypeOK' /\ NoGain
  <2>1. i \in Items /\ i.box \in Boxes
    BY <1>0 DEF Items
  <2>2. JobsOK'
    <3>1. PICK now \in {i, None} : job' = [job EXCEPT ![a].left = @ \ {i}, ![a].now = now]
      BY <1>1 DEF TakeItem
    <3> QED BY <2>1, <3>1 DEF TypeOK, JobsOK
  <2>3. UNCHANGED <<world, warm, row, pool, loop, call>>
    BY <1>1 DEF TakeItem
  <2>4. UNCHANGED pod \/ StopBox(i.box) \/ PauseBox(i.box)
    BY <1>1 DEF TakeItem
  <2>5. PodsOK' /\ \A b \in Boxes : pod'[b] = "none" => pod[b] = "none"
    BY <2>1, <2>3, <2>4, PodsMove, PodsStay DEF TypeOK
  <2> QED BY <2>2, <2>3, <2>5, CallsRest, RowsStay
<1>2. CASE MarkItem(a)
  <2>1. job[a].now \in Items /\ job[a].now.thread \in Threads
    BY <1>0, <1>2 DEF MarkItem, Items
  <2>2. UNCHANGED row \/ SetState(job[a].now.thread, "suspended")
    BY <1>2 DEF MarkItem
  <2>3. RowsQuiet
    BY <2>1, <2>2, SetStateQuiet, RowsStay DEF Reusable
  <2>4. JobsOK'
    BY <1>2 DEF MarkItem, TypeOK, JobsOK
  <2> QED BY <1>2, <2>3, <2>4, CallsRest, PodsStay DEF MarkItem
<1> QED BY <1>1, <1>2
-----------------------------------------------------------------------------
(* The pools *)

LoopPlaces == {"down", "off", "assigned", "list", "recover", "spawn", "append", "sleep"}

\* A process's loop goes on, with what its pool holds.
LEMMA LoopMoves ==
    ASSUME PoolsOK, NEW r \in Replicas,
           NEW x \in [pc : LoopPlaces, boxes : SUBSET Boxes, new : warm' \cup {None}],
           x.pc = "append" <=> x.new # None,
           x.pc = "recover" => x.boxes \subseteq warm',
           warm \subseteq warm',
           pool' \in [Replicas -> SUBSET warm'],
           loop' = [loop EXCEPT ![r] = x]
    PROVE  PoolsOK' /\ loop'[r].new = x.new /\ \A q \in Replicas \ {r} : loop'[q].new = loop[q].new
<1>1. loop' \in [Replicas -> [pc : LoopPlaces, boxes : SUBSET Boxes, new : warm' \cup {None}]]
  BY DEF PoolsOK, LoopPlaces
<1>2. \A q \in Replicas : loop'[q] = IF q = r THEN x ELSE loop[q]
  BY DEF PoolsOK
<1>3. \A q \in Replicas : /\ loop'[q].pc = "append" <=> loop'[q].new # None
                          /\ loop'[q].pc = "recover" => loop'[q].boxes \subseteq warm'
  BY <1>2 DEF PoolsOK
<1> QED BY <1>1, <1>2, <1>3 DEF PoolsOK, LoopPlaces

\* A step of a process by which it offers nothing more.
LEMMA LoopQuiet ==
    ASSUME TypeOK, UNCHANGED <<world, row, call, job, warm>>,
           PodsOK' /\ \A b \in Boxes : pod'[b] = "none" => pod[b] = "none",
           PoolsOK',
           \A r \in Replicas, b \in Boxes : Offers(r, b)' => Offers(r, b),
           \A r \in Replicas : loop'[r].new = None \/ (loop'[r].new = loop[r].new /\ pool'[r] \subseteq pool[r])
    PROVE  TypeOK' /\ NoGain
<1>1. \A r \in Replicas : None \notin pool'[r]
  BY CustodyAssumption DEF PoolsOK, PodsOK
<1>2. NoGain
  BY <1>1 DEF NoGain, Has, ThreadOf
<1> QED BY <1>2, Stays DEF TypeOK

\* The loop's place and what it has read, while it creates nothing.
LEMMA PlaceQuiet ==
    ASSUME TypeOK, NEW r \in Replicas, NEW pc \in LoopPlaces \ {"append"}, NEW S \in SUBSET Boxes,
           pc = "recover" => S \subseteq warm,
           loop[r].pc # "append",
           loop' = [loop EXCEPT ![r].pc = pc, ![r].boxes = S],
           UNCHANGED <<world, row, call, job, warm>>,
           PodsOK' /\ \A b \in Boxes : pod'[b] = "none" => pod[b] = "none",
           pool' \in [Replicas -> SUBSET warm],
           \A q \in Replicas : pool'[q] \subseteq pool[q]
    PROVE  TypeOK' /\ NoGain
<1> DEFINE x == [loop[r] EXCEPT !.pc = pc, !.boxes = S]
<1>1. loop[r].new = None
  BY DEF TypeOK, PoolsOK
<1>2. loop' = [loop EXCEPT ![r] = x]
  OBVIOUS
<1>3. /\ x \in [pc : LoopPlaces, boxes : SUBSET Boxes, new : warm' \cup {None}]
      /\ x.new = None /\ x.pc = pc /\ x.boxes = S
  BY <1>1 DEF TypeOK, PoolsOK, LoopPlaces
<1>4. PoolsOK' /\ loop'[r].new = None /\ \A q \in Replicas \ {r} : loop'[q].new = loop[q].new
  BY <1>2, <1>3, LoopMoves DEF TypeOK
<1>5. \A q \in Replicas, b \in Boxes : Offers(q, b)' => Offers(q, b)
  BY <1>1, <1>4 DEF Offers
<1> QED BY <1>4, <1>5, LoopQuiet

LEMMA StartQuiet ==
    ASSUME TypeOK, NEW r \in Replicas, Start(r) \/ ReadAssigned(r) \/ ListWarm(r) \/ Replenished(r)
    PROVE  TypeOK' /\ NoGain
<1>0. loop[r].boxes \in SUBSET Boxes /\ loop \in [Replicas -> [pc : LoopPlaces, boxes : SUBSET Boxes, new : warm \cup {None}]]
  BY DEF TypeOK, PoolsOK, LoopPlaces
<1>1. /\ UNCHANGED <<world, pod, warm, row, pool, call, job>> /\ pool' \in [Replicas -> SUBSET warm]
      /\ loop[r].pc # "append"
  BY DEF Start, ReadAssigned, ListWarm, Replenished, TypeOK, PoolsOK
<1>2. CASE Start(r) \/ Replenished(r)
  <2>1. PICK pc \in {"off", "assigned", "sleep"} : loop' = [loop EXCEPT ![r].pc = pc]
    BY <1>2 DEF Start, Replenished
  <2>2. loop' = [loop EXCEPT ![r].pc = pc, ![r].boxes = loop[r].boxes]
    BY <1>0, <2>1
  <2> QED BY <1>0, <1>1, <2>2, PlaceQuiet, PodsStay DEF LoopPlaces
<1>3. CASE ReadAssigned(r)
  <2> DEFINE S == {row[t].box : t \in {t \in Threads : row[t] # None /\ row[t].state \in Active}}
  <2>1. S \subseteq Boxes
    BY DEF TypeOK, RowsOK, Rows
  <2>2. loop' = [loop EXCEPT ![r].pc = "list", ![r].boxes = S]
    BY <1>3 DEF ReadAssigned
  <2> HIDE DEF S
  <2> QED BY <1>1, <2>1, <2>2, PlaceQuiet, PodsStay DEF LoopPlaces
<1>4. CASE ListWarm(r)
  <2> DEFINE S == {b \in warm : pod[b] = "running"} \ loop[r].boxes
  <2>1. S \subseteq warm /\ S \subseteq Boxes
    BY DEF TypeOK, PodsOK
  <2>2. loop' = [loop EXCEPT ![r].pc = "recover", ![r].boxes = S]
    BY <1>4 DEF ListWarm
  <2> HIDE DEF S
  <2> QED BY <1>1, <2>1, <2>2, PlaceQuiet, PodsStay DEF LoopPlaces
<1> QED BY <1>2, <1>3, <1>4

LEMMA PoolQuiet ==
    ASSUME TypeOK, NEW r \in Replicas, CheckPool(r) \/ \E b \in Boxes : EvictWarm(r, b)
    PROVE  TypeOK' /\ NoGain
<1>0. /\ loop \in [Replicas -> [pc : LoopPlaces, boxes : SUBSET Boxes, new : warm \cup {None}]]
      /\ loop[r].boxes \in SUBSET Boxes /\ pool \in [Replicas -> SUBSET warm]
      /\ loop[r].pc = "recover" => loop[r].boxes \subseteq warm
  BY DEF TypeOK, PoolsOK, LoopPlaces
<1>1. CASE CheckPool(r)
  <2>1. PICK drop \in SUBSET pool[r] :
           /\ pool' = [pool EXCEPT ![r] = @ \ drop]
           /\ UNCHANGED pod \/ pod' = [b \in Boxes |-> IF b \in drop THEN "gone" ELSE pod[b]]
    <3>1. PICK old \in SUBSET pool[r] :
             LET drop == old \cup {b \in pool[r] : pod[b] # "running"}
             IN  /\ pool' = [pool EXCEPT ![r] = @ \ drop]
                 /\ UNCHANGED pod \/ pod' = [b \in Boxes |-> IF b \in drop THEN "gone" ELSE pod[b]]
      BY <1>1 DEF CheckPool
    <3> QED BY <3>1
  <2>2. /\ UNCHANGED <<world, warm, row, call, job>> /\ loop[r].pc # "append"
        /\ loop' = [loop EXCEPT ![r].pc = "spawn"]
    BY <1>1 DEF CheckPool
  <2>3. PodsOK' /\ \A b \in Boxes : pod'[b] = "none" => pod[b] = "none"
    BY <2>1, <2>2 DEF TypeOK, PodsOK
  <2>4. pool' \in [Replicas -> SUBSET warm] /\ \A q \in Replicas : pool'[q] \subseteq pool[q]
    BY <1>0, <2>1
  <2>5. loop' = [loop EXCEPT ![r].pc = "spawn", ![r].boxes = loop[r].boxes]
    BY <1>0, <2>2
  <2>6. "spawn" \in LoopPlaces \ {"append"} /\ "spawn" # "recover"
    BY DEF LoopPlaces
  <2>7. pool' \in [Replicas -> SUBSET warm] /\ \A q \in Replicas : pool'[q] \subseteq pool[q]
    BY <2>4
  <2> QED BY <1>0, <2>2, <2>3, <2>5, <2>6, <2>7, PlaceQuiet
<1>2. ASSUME NEW b \in Boxes, EvictWarm(r, b) PROVE TypeOK' /\ NoGain
  <2>1. /\ loop[r].pc = "recover" /\ StopBox(b) /\ UNCHANGED <<world, warm, row, pool, call, job>>
        /\ loop' = [loop EXCEPT ![r].boxes = @ \ {b}]
    BY <1>2 DEF EvictWarm
  <2>2. loop' = [loop EXCEPT ![r].pc = "recover", ![r].boxes = loop[r].boxes \ {b}]
    BY <1>0, <2>1
  <2>3. PodsOK' /\ \A x \in Boxes : pod'[x] = "none" => pod[x] = "none"
    BY <2>1, PodsMove DEF TypeOK
  <2>4. "recover" \in LoopPlaces \ {"append"} /\ loop[r].boxes \ {b} \in SUBSET Boxes
        /\ loop[r].boxes \ {b} \subseteq warm /\ loop[r].pc # "append"
    BY <1>0, <2>1 DEF LoopPlaces
  <2>5. pool' \in [Replicas -> SUBSET warm] /\ \A q \in Replicas : pool'[q] \subseteq pool[q]
    BY <1>0, <2>1
  <2>6. UNCHANGED <<world, row, call, job, warm>>
    BY <2>1
  <2> QED BY <2>2, <2>3, <2>4, <2>5, <2>6, PlaceQuiet
<1> QED BY <1>1, <1>2

LEMMA AppendQuiet ==
    ASSUME TypeOK, NEW r \in Replicas, AppendWarm(r) PROVE TypeOK' /\ NoGain
<1> DEFINE x == [loop[r] EXCEPT !.pc = "spawn", !.new = None]
<1>0. /\ loop \in [Replicas -> [pc : LoopPlaces, boxes : SUBSET Boxes, new : warm \cup {None}]]
      /\ loop[r].boxes \in SUBSET Boxes /\ pool \in [Replicas -> SUBSET warm]
      /\ loop[r].new \in warm
  BY DEF AppendWarm, TypeOK, PoolsOK, LoopPlaces
<1>1. /\ UNCHANGED <<world, pod, warm, row, call, job>>
      /\ pool' = [pool EXCEPT ![r] = @ \cup {loop[r].new}]
      /\ loop' = [loop EXCEPT ![r] = x]
  BY DEF AppendWarm
<1>2. pool' \in [Replicas -> SUBSET warm']
  BY <1>0, <1>1
<1>3. x \in [pc : LoopPlaces, boxes : SUBSET Boxes, new : warm' \cup {None}] /\ x.new = None /\ x.pc = "spawn"
  BY <1>0 DEF LoopPlaces
<1>4. PoolsOK' /\ loop'[r].new = None /\ \A q \in Replicas \ {r} : loop'[q].new = loop[q].new
  BY <1>1, <1>2, <1>3, LoopMoves DEF TypeOK
<1>5. ASSUME NEW q \in Replicas, NEW b \in Boxes, Offers(q, b)' PROVE Offers(q, b)
  BY <1>0, <1>1, <1>4, <1>5, CustodyAssumption DEF Offers
<1> QED BY <1>1, <1>4, <1>5, LoopQuiet, PodsStay

LEMMA ExitQuiet ==
    ASSUME TypeOK, NEW r \in Replicas, Exit(r) PROVE TypeOK' /\ NoGain
<1>1. /\ UNCHANGED <<world, pod, warm, row>> /\ pool' = [pool EXCEPT ![r] = {}]
      /\ loop' = [loop EXCEPT ![r] = Down]
      /\ call' = [c \in Callers |-> IF world.on[c] = r THEN Idle ELSE call[c]]
  BY DEF Exit
<1>2. PoolsOK' /\ \A q \in Replicas, b \in Boxes : Offers(q, b)' => Offers(q, b)
  <2>1. Down \in [pc : LoopPlaces, boxes : SUBSET Boxes, new : warm' \cup {None}]
        /\ Down.new = None /\ Down.pc = "down"
    BY DEF Down, LoopPlaces
  <2>2. pool' \in [Replicas -> SUBSET warm']
    BY <1>1 DEF TypeOK, PoolsOK
  <2>3. PoolsOK' /\ loop'[r].new = None /\ \A q \in Replicas \ {r} : loop'[q].new = loop[q].new
    BY <1>1, <2>1, <2>2, LoopMoves DEF TypeOK
  <2> QED BY <1>1, <2>3, CustodyAssumption DEF Offers, TypeOK, PoolsOK
<1>3. CallsOK'
  <2>1. Idle \in [pc : EmptyHanded \cup Holding, box : Boxes \cup {None}, state : Reusable \cup {"stopped", None}]
        /\ Idle.box = None /\ Idle.pc = "idle"
    BY DEF Idle, EmptyHanded
  <2>2. call' \in [Callers -> [pc : EmptyHanded \cup Holding, box : Boxes \cup {None},
                               state : Reusable \cup {"stopped", None}]]
    BY <1>1, <2>1 DEF TypeOK, CallsOK
  <2>3. \A c \in Callers : call'[c] = Idle \/ call'[c] = call[c]
    BY <1>1
  <2> QED BY <1>1, <2>1, <2>2, <2>3 DEF TypeOK, CallsOK, EmptyHanded
<1>4. JobsOK'
  BY DEF Exit, TypeOK, JobsOK, NoJob
<1>5. \A t \in Threads, b \in Boxes : Has(t, b)' => Has(t, b)
  BY <1>1, CustodyAssumption DEF Has, ThreadOf, Idle
<1>6. \A q \in Replicas : loop'[q].new \in pool'[q] => loop[q].new \in pool[q]
  BY <1>1 DEF TypeOK, PoolsOK
<1>7. NoGain
  BY <1>1, <1>2, <1>5, <1>6 DEF NoGain
<1> QED BY <1>1, <1>2, <1>3, <1>4, <1>7, Stays DEF TypeOK

LEMMA DeathQuiet ==
    ASSUME TypeOK, NEW b \in Boxes, PodDies(b) PROVE TypeOK' /\ NoGain
<1>1. PodsOK' /\ \A x \in Boxes : pod'[x] = "none" => pod[x] = "none"
  BY DEF PodDies, TypeOK, PodsOK
<1> QED BY <1>1, CallsRest, RowsStay, Stays DEF PodDies, TypeOK
-----------------------------------------------------------------------------
(* The steps by which somebody does *)

LEMMA ClaimSound ==
    ASSUME TypeOK, NEW c \in Callers, ClaimWarm(c) PROVE TypeOK' /\ (Sound => Sound')
<1> DEFINE r == world.on[c]
           t == ThreadOf(c)
<1>0. r \in Replicas /\ t \in Threads
  BY CustodyAssumption DEF TypeOK, ThreadOf
<1>1. PICK b \in pool[r] : pool' = [pool EXCEPT ![r] = @ \ {b}] /\ Hold(c, "check", b)
  BY DEF ClaimWarm, Pop
<1>2. UNCHANGED <<world, pod, warm, row, loop, job>>
  BY DEF ClaimWarm
<1>3. b \in warm /\ b \in Boxes /\ b # None
  BY <1>0, CustodyAssumption DEF TypeOK, PoolsOK, PodsOK
<1>4. TypeOK'
  <2>1. PoolsOK'
    BY <1>0, <1>1, <1>2 DEF TypeOK, PoolsOK
  <2>2. "check" \in EmptyHanded \cup Holding /\ "check" \notin EmptyHanded
    BY DEF EmptyHanded, Holding
  <2>3. CallsOK'
    BY <1>1, <1>2, <1>3, <2>2, CallHolds DEF TypeOK
  <2> QED BY <1>2, <2>1, <2>3, Stays DEF TypeOK
<1>5. call'[c].box = b /\ \A d \in Callers \ {c} : call'[d].box = call[d].box
  BY <1>1, Hands DEF TypeOK
<1>6. \A u \in Threads, x \in Boxes : Has(u, x)' => Has(u, x) \/ (u = t /\ x = b)
  BY <1>2, <1>5 DEF Has, ThreadOf
<1>7. \A q \in Replicas : pool'[q] = IF q = r THEN pool[q] \ {b} ELSE pool[q]
  BY <1>0, <1>1 DEF TypeOK, PoolsOK
<1>8. ASSUME Sound PROVE Sound'
  <2>1. \A q \in Replicas, x \in Boxes : Offers(q, x)' => Offers(q, x) /\ x # b
    <3>1. \A q \in Replicas : Offers(q, b) => q = r
      BY <1>0, <1>3, <1>8 DEF Sound, Exclusive, Offers
    <3>2. loop[r].new # b
      BY <1>0, <1>8 DEF Sound, Fresh
    <3> QED BY <1>2, <1>7, <3>1, <3>2 DEF Offers
  <2>2. /\ \A u \in Threads : ~Has(u, b)
        /\ pod[b] # "none"
    BY <1>0, <1>3, <1>8 DEF Sound, Exclusive, Created, Offers
  <2>3. Exclusive'
    BY <1>6, <1>8, <2>1, <2>2 DEF Sound, Exclusive
  <2>4. Created'
    BY <1>2, <1>6, <1>8, <2>1, <2>2 DEF Sound, Created
  <2>5. Fresh'
    BY <1>2, <1>7, <1>8 DEF Sound, Fresh
  <2> QED BY <2>3, <2>4, <2>5 DEF Sound
<1> QED BY <1>4, <1>8

LEMMA CreateSound ==
    ASSUME TypeOK, NEW c \in Callers, Create(c) PROVE TypeOK' /\ (Sound => Sound')
<1> DEFINE t == ThreadOf(c)
<1>0. t \in Threads
  BY CallersHave
<1>1. PICK b \in Boxes : /\ pod[b] = "none" /\ pod' = [pod EXCEPT ![b] = "running"]
                         /\ Hold(c, "insert", b)
  BY DEF Create
<1>2. UNCHANGED <<world, warm, row, pool, loop, job>>
  BY DEF Create
<1>3. TypeOK'
  <2>1. PodsOK'
    BY <1>1, <1>2 DEF TypeOK, PodsOK
  <2>2. "insert" \in EmptyHanded \cup Holding /\ "insert" \notin EmptyHanded /\ b # None
    BY CustodyAssumption DEF EmptyHanded, Holding
  <2>3. CallsOK'
    BY <1>1, <1>2, <2>2, CallHolds DEF TypeOK
  <2> QED BY <1>2, <2>1, <2>3, Stays DEF TypeOK
<1>4. call'[c].box = b /\ \A d \in Callers \ {c} : call'[d].box = call[d].box
  BY <1>1, Hands DEF TypeOK
<1>5. \A u \in Threads, x \in Boxes : Has(u, x)' => Has(u, x) \/ (u = t /\ x = b)
  BY <1>2, <1>4 DEF Has, ThreadOf
<1>6. \A x \in Boxes : pod'[x] = "none" => pod[x] = "none" /\ x # b
  BY <1>1 DEF TypeOK, PodsOK
<1>7. ASSUME Sound PROVE Sound'
  <2>1. /\ \A u \in Threads : ~Has(u, b)
        /\ \A q \in Replicas : ~Offers(q, b)
    BY <1>1, <1>7 DEF Sound, Created
  <2>2. \A q \in Replicas, x \in Boxes : Offers(q, x)' => Offers(q, x)
    BY <1>2 DEF Offers
  <2>3. Exclusive'
    BY <1>5, <1>7, <2>1, <2>2 DEF Sound, Exclusive
  <2>4. Created'
    BY <1>5, <1>6, <1>7, <2>2 DEF Sound, Created
  <2> QED BY <1>2, <1>7, <2>3, <2>4 DEF Sound, Fresh
<1> QED BY <1>3, <1>7

LEMMA SpawnSound ==
    ASSUME TypeOK, NEW r \in Replicas, SpawnWarm(r) PROVE TypeOK' /\ (Sound => Sound')
<1>1. PICK b \in Boxes : /\ pod[b] = "none" /\ pod' = [pod EXCEPT ![b] = "running"]
                         /\ warm' = warm \cup {b}
                         /\ loop' = [loop EXCEPT ![r].pc = "append", ![r].new = b]
  BY DEF SpawnWarm
<1>2. UNCHANGED <<world, row, pool, call, job>>
  BY DEF SpawnWarm
<1> DEFINE x == [loop[r] EXCEPT !.pc = "append", !.new = b]
<1>3. /\ x \in [pc : LoopPlaces, boxes : SUBSET Boxes, new : warm' \cup {None}]
      /\ x.new = b /\ x.pc = "append" /\ b # None
  BY <1>1, CustodyAssumption DEF TypeOK, PoolsOK, LoopPlaces
<1>4. loop' = [loop EXCEPT ![r] = x]
  BY <1>1
<1>5. pool' \in [Replicas -> SUBSET warm']
  BY <1>1, <1>2 DEF TypeOK, PoolsOK
<1>6. PoolsOK' /\ loop'[r].new = b /\ \A q \in Replicas \ {r} : loop'[q].new = loop[q].new
  BY <1>1, <1>3, <1>4, <1>5, LoopMoves DEF TypeOK
<1>7. TypeOK'
  <2>1. PodsOK'
    BY <1>1 DEF TypeOK, PodsOK
  <2>2. CallsOK'
    BY <1>1, <1>2 DEF TypeOK, CallsOK
  <2> QED BY <1>2, <1>6, <2>1, <2>2, Stays DEF TypeOK
<1>8. \A u \in Threads, y \in Boxes : Has(u, y)' => Has(u, y)
  BY <1>2 DEF Has, ThreadOf
<1>9. \A q \in Replicas, y \in Boxes : Offers(q, y)' => Offers(q, y) \/ (q = r /\ y = b)
  BY <1>2, <1>6 DEF Offers
<1>10. \A y \in Boxes : pod'[y] = "none" => pod[y] = "none" /\ y # b
  BY <1>1 DEF TypeOK, PodsOK
<1>11. ASSUME Sound PROVE Sound'
  <2>1. /\ \A u \in Threads : ~Has(u, b)
        /\ \A q \in Replicas : ~Offers(q, b)
    BY <1>1, <1>11 DEF Sound, Created
  <2>2. Exclusive'
    BY <1>8, <1>9, <1>11, <2>1 DEF Sound, Exclusive
  <2>3. Created'
    BY <1>8, <1>9, <1>10, <1>11 DEF Sound, Created
  <2>4. Fresh'
    BY <1>2, <1>6, <1>11, <2>1 DEF Sound, Fresh, Offers
  <2> QED BY <2>2, <2>3, <2>4 DEF Sound
<1> QED BY <1>7, <1>11

LEMMA RecoverHolds ==
    ASSUME TypeOK, NEW r \in Replicas, RecoverWarm(r) PROVE TypeOK' /\ Hazard("adopt")'
<1>1. PICK S \in SUBSET loop[r].boxes : pool' = [pool EXCEPT ![r] = S]
  BY DEF RecoverWarm
<1>2. /\ UNCHANGED <<world, pod, warm, row, call, job>> /\ loop[r].pc = "recover"
      /\ loop' = [loop EXCEPT ![r].boxes = {}] /\ Hazard("adopt")
  BY DEF RecoverWarm
<1> DEFINE x == [loop[r] EXCEPT !.boxes = {}]
<1>3. /\ x \in [pc : LoopPlaces, boxes : SUBSET Boxes, new : warm' \cup {None}]
      /\ x.new = None /\ x.pc = "recover" /\ x.boxes = {}
  BY <1>2 DEF TypeOK, PoolsOK, LoopPlaces
<1>4. pool' \in [Replicas -> SUBSET warm']
  BY <1>1, <1>2 DEF TypeOK, PoolsOK
<1>5. PoolsOK'
  BY <1>2, <1>3, <1>4, LoopMoves DEF TypeOK
<1> QED BY <1>2, <1>5, Stays DEF TypeOK, Hazard

LEMMA NextIInv == IInv /\ [Next]_vars => IInv'
<1> SUFFICES ASSUME IInv, [Next]_vars PROVE IInv'
  OBVIOUS
<1>0. TypeOK
  BY DEF IInv
<1>1. ASSUME TypeOK', NoGain, UNCHANGED world PROVE IInv'
  BY <1>1, NoGainSound DEF IInv, Hazard
<1>2. ASSUME TypeOK', Sound => Sound', UNCHANGED world PROVE IInv'
  BY <1>2 DEF IInv, Hazard
<1>3. CASE UNCHANGED vars
  <2>1. NoGain
    BY <1>3 DEF vars, NoGain, Has, Offers, ThreadOf
  <2> QED BY <1>0, <1>1, <1>3, <2>1, Stays DEF vars, TypeOK
<1>4. Next => UNCHANGED world
  BY DEF Next, GetOrSpawn, Reconcile, PoolLoop, Enqueue, ReadSession, Reuse, Discard, Missing, Resume,
         Resumed, StopOld, DeleteRow, ClaimWarm, NoWarm, CheckWarm, InsertWarm, SelectForCapacity,
         Evicted, Create, InsertSession, StopLost, AdoptWinner, Raise, BeginTurn, EndTurn, Spawned,
         ReadToStop, StopSession, MarkStopped, Age, StepOfTick, CleanRows, StepEnds, MarkItem, TakeItem, Start,
         ReadAssigned, ListWarm, RecoverWarm, CheckPool, SpawnWarm, AppendWarm, Replenished, Exit,
         EvictWarm, PodDies
<1>5. ASSUME NEW c \in Callers, GetOrSpawn(c), UNCHANGED world PROVE IInv'
  <2>1. CASE ClaimWarm(c)
    BY <1>0, <1>2, <1>5, <2>1, ClaimSound
  <2>2. CASE Create(c)
    BY <1>0, <1>2, <1>5, <2>2, CreateSound
  <2>3. CASE ~ClaimWarm(c) /\ ~Create(c)
    <3>1. TypeOK' /\ NoGain
      BY <1>0, <1>5, <2>3, EnqueueQuiet, ReadSessionQuiet, StatusQuiet, ResumeQuiet, ResumedQuiet,
         WarmQuiet, InsertWarmQuiet, CapacityQuiet, LostQuiet, TurnQuiet DEF GetOrSpawn
    <3> QED BY <1>1, <1>5, <3>1
  <2> QED BY <2>1, <2>2, <2>3
<1>6. ASSUME NEW c \in Callers, ReadToStop(c) \/ StopSession(c) \/ MarkStopped(c), UNCHANGED world
      PROVE IInv'
  BY <1>0, <1>1, <1>6, StopQuiet
<1>7. CASE Reconcile /\ UNCHANGED world
  <2>1. TypeOK' /\ NoGain
    BY <1>0, <1>7, TickQuiet, ItemQuiet DEF Reconcile
  <2> QED BY <1>1, <1>7, <2>1
<1>8. ASSUME NEW r \in Replicas, PoolLoop(r), UNCHANGED world PROVE IInv'
  <2>1. CASE RecoverWarm(r)
    BY <1>0, <2>1, RecoverHolds DEF IInv
  <2>2. CASE SpawnWarm(r)
    BY <1>0, <1>2, <1>8, <2>2, SpawnSound
  <2>3. CASE ~RecoverWarm(r) /\ ~SpawnWarm(r)
    <3>1. TypeOK' /\ NoGain
      BY <1>0, <1>8, <2>3, StartQuiet, PoolQuiet, AppendQuiet, ExitQuiet DEF PoolLoop
    <3> QED BY <1>1, <1>8, <3>1
  <2> QED BY <2>1, <2>2, <2>3
<1>9. ASSUME NEW b \in Boxes, PodDies(b), UNCHANGED world PROVE IInv'
  BY <1>0, <1>1, <1>9, DeathQuiet
<1> QED BY <1>3, <1>4, <1>5, <1>6, <1>7, <1>8, <1>9 DEF Next

-----------------------------------------------------------------------------
\* The variables stay in their ranges, pools hold only what was created for them, and
\* a caller of get_or_spawn has a sandbox in its hands exactly where it should
\* (agent.py and warm_pool.py).
THEOREM TypeOKHolds == Spec => []TypeOK
<1>1. IInv => TypeOK
  BY DEF IInv
<1> QED BY <1>1, InitIInv, NextIInv, PTL DEF Spec

\* get_or_spawn and claim_container never give a sandbox to two threads, nor does a
\* pool offer one that a thread has, unless processes adopt the warm sandboxes they find
\* (WARM_POOL_EVICT_ON_STARTUP off).
THEOREM ExclusiveHolds == Spec => [](Hazard("adopt") \/ Exclusive)
<1>1. IInv => Hazard("adopt") \/ Exclusive
  BY DEF IInv, Sound
<1> QED BY <1>1, InitIInv, NextIInv, PTL DEF Spec
=============================================================================
