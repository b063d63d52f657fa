------------------------ MODULE SessionRuntimeProofs ------------------------
(***************************************************************************)
(* Proofs about SessionRuntime, for any number of requests, executions,    *)
(* sandboxes and coroutines, and any worlds: types and the order of turns, *)
(* that input is written once, that clients are told one end, and that     *)
(* answers are own where nothing cuts an execution off.                    *)
(***************************************************************************)
EXTENDS SessionRuntime, FiniteSetTheorems, WellFoundedInduction, TLAPS

-----------------------------------------------------------------------------
(* Types. *)

Kinds  == {"request", "steer", "stream", "pump", "timer", "idle", "adopt"}
Places == {"create", "claim", "status", "resume", "replace", "look", "open", "piped", "refuse",
           "failrow", "session", "record", "tell", "sleep", "pause", "read", "eof", "list",
           "adopt", "logs"}
Output == [turn : Nat, ends : BOOLEAN, ok : BOOLEAN]
CoRecords == [kind : Kinds, proc : Procs, pc : Places, ex : Executions \cup {None},
              box : Boxes \cup {None}, pod : Nat, out : Ends \cup {None}, buf : Seq(Output),
              eof : BOOLEAN, known : SUBSET [turn : Nat, ex : Executions]]
BoxRecords == [state : {"none", "running", "suspended", "gone"}, pod : Nat, input : Seq(Nat),
               now : Nat, log : Seq([turn : Nat, ok : BOOLEAN, since : SUBSET Executions])]
TurnRecords == [ex : Executions, steers : BOOLEAN]

\* Where coroutines of each kind are.
PlaceOK(k, p) ==
    /\ k = "request" => p \in {"create", "claim", "status", "resume", "replace", "look", "open",
                               "piped", "refuse", "failrow"}
    /\ k = "steer"   => p \in {"session", "look", "open", "piped"}
    /\ k = "stream"  => p \in {"look", "open"}
    /\ k = "pump"    => p \in {"read", "record", "tell", "eof"}
    /\ k = "timer"   => p \in {"sleep", "record", "tell"}
    /\ k = "idle"    => p \in {"sleep", "pause"}
    /\ k = "adopt"   => p \in {"list", "adopt", "logs", "look", "open", "piped", "record", "tell"}

\* Who is about an execution, and who about a sandbox.
WantsEx(k, p)  == \/ k \in {"request", "steer", "timer", "idle"} \/ p \in {"record", "tell"}
                  \/ k = "adopt" /\ p # "list"
WantsBox(k, p) == \/ k \in {"pump", "idle"}
                  \/ p \in {"resume", "look", "open", "piped", "logs"}

TurnOK(t) == t \in 1 .. Len(turns)
EndOK(o)  == /\ o.turn <= Len(turns)
             /\ o.by = "turn" => TurnOK(o.turn)
             /\ o.ok => o.by = "turn"

\* What makes sense of a coroutine with these kind, process, place, execution, sandbox
\* and outcome.
Good(k, q, p, e, b, o) ==
    /\ proc[q] = "up"
    /\ PlaceOK(k, p)
    /\ b # None => box[b].state # "none"
    /\ WantsBox(k, p) => b # None
    /\ WantsEx(k, p) => e # None
    /\ p \in {"record", "tell"} => o # None /\ o.by # "request"
    /\ o # None => EndOK(o)

Fits(r) ==
    /\ r \in CoRecords
    /\ Good(r.kind, r.proc, r.pc, r.ex, r.box, r.out)
    /\ \A i \in DOMAIN r.buf : TurnOK(r.buf[i].turn)

CoOK == /\ co \in [Slots -> CoRecords \cup {Free}]
        /\ \A c \in Slots : co[c] # Free => Fits(co[c])

\* What a sandbox did, does and has to do, in the order in which it was written.
InOrder(r) ==
    /\ \A i \in DOMAIN r.log :
          /\ TurnOK(r.log[i].turn)
          /\ r.now # 0 => r.log[i].turn < r.now
          /\ \A j \in DOMAIN r.input : r.log[i].turn < r.input[j]
          /\ \A j \in DOMAIN r.log : i < j => r.log[i].turn < r.log[j].turn
    /\ r.now # 0 => TurnOK(r.now)
    /\ \A i \in DOMAIN r.input :
          /\ TurnOK(r.input[i])
          /\ r.now # 0 => r.now < r.input[i]
          /\ \A j \in DOMAIN r.input : i < j => r.input[i] < r.input[j]

BoxOK  == /\ box \in [Boxes -> BoxRecords] /\ \A b \in Boxes : InOrder(box[b])
          /\ assigned \in Boxes \cup {None}
          /\ assigned # None => box[assigned].state # "none"
          /\ pipe \in [Procs -> [Boxes -> Nat]]
TurnsOK == turns \in Seq(TurnRecords)
RowsOK == /\ status \in [Executions -> {"none", "queued", "running"} \cup Terminal]
          /\ result \in [Executions -> Ends \cup {None}]
          /\ told \in [Executions -> SUBSET Terminal]
          /\ \A e \in Executions : result[e] # None <=> status[e] \in Terminal
          /\ \A e \in Executions : result[e] # None => EndOK(result[e])
          /\ \A e, f \in Active : e = f
WorldOK == world \in Worlds /\ proc \in [Procs -> {"up", "new", "dead"}]

Typed == CoOK /\ BoxOK /\ TurnsOK /\ RowsOK /\ WorldOK

-----------------------------------------------------------------------------
(* What the proofs need of the operators. *)

LEMMA MinIs == ASSUME NEW S \in SUBSET Nat, S # {} PROVE Min(S) \in S
<1>1. PICK x \in S : \A y \in S : <<y, x>> \notin OpToRel(<, Nat)
  BY NatLessThanWellFounded, WFMin
<1>2. \A y \in S : x <= y
  <2> TAKE y \in S
  <2>1. ~(y < x)
    BY <1>1 DEF OpToRel
  <2> QED BY <2>1
<1> QED BY <1>2 DEF Min

LEMMA NewSlotIs ==
    ASSUME HasSlot
    PROVE  NewSlot \in Slots /\ co[NewSlot] = Free
<1> DEFINE S == {s \in Slots : co[s] = Free}
<1>1. S \subseteq Nat /\ S # {}
  BY DEF HasSlot, Slots
<1>2. PICK x \in S : \A y \in S : <<y, x>> \notin OpToRel(<, Nat)
  BY <1>1, NatLessThanWellFounded, WFMin
<1>3. \A r \in 1 .. x - 1 : co[r] # Free
  <2> SUFFICES ASSUME NEW r \in 1 .. x - 1, co[r] = Free PROVE FALSE
    OBVIOUS
  <2>1. r \in S /\ r < x
    BY <1>1, SessionAssumption DEF Slots
  <2> QED BY <1>1, <1>2, <2>1 DEF OpToRel
<1>4. \E s \in Slots : co[s] = Free /\ \A r \in 1 .. s - 1 : co[r] # Free
  BY <1>3
<1> QED BY <1>4 DEF NewSlot

LEMMA TheActiveIs ==
    /\ Active = {} => TheActive = None
    /\ Active # {} => TheActive \in Active
BY DEF TheActive

\* A coroutine record is not Free; None is no record, place or name.
LEMMA Apart ==
    /\ \A r \in CoRecords : r # Free /\ r.kind # "free"
    /\ Free.kind = "free"
BY DEF CoRecords, Kinds, Free

LEMMA KindIs ==
    ASSUME CoOK, NEW c \in Slots, co[c].kind \in Kinds
    PROVE  co[c] \in CoRecords /\ co[c] # Free /\ Fits(co[c])
BY Apart DEF CoOK, Kinds

LEMMA AtIs ==
    ASSUME CoOK, NEW c \in Slots, co[c] # Free
    PROVE  co[c] \in CoRecords /\ Fits(co[c])
BY DEF CoOK

\* The record of a coroutine that goes on.
Altered(s, r, p, e, b, o) ==
    /\ s \in CoRecords /\ s.kind = r.kind /\ s.proc = r.proc
    /\ s.pc = p /\ s.ex = e /\ s.box = b /\ s.out = o
    /\ s.buf = r.buf /\ s.eof = r.eof /\ s.known \subseteq r.known

LEMMA RecordAltered ==
    ASSUME NEW r \in CoRecords, NEW p \in Places, NEW e \in Executions \cup {None},
           NEW b \in Boxes \cup {None}, NEW o \in Ends \cup {None}, NEW n \in Nat,
           NEW K \in SUBSET r.known
    PROVE  /\ Altered([r EXCEPT !.pc = p], r, p, r.ex, r.box, r.out)
           /\ Altered([r EXCEPT !.pc = p, !.box = b], r, p, r.ex, b, r.out)
           /\ Altered([r EXCEPT !.pc = p, !.pod = n], r, p, r.ex, r.box, r.out)
           /\ Altered([r EXCEPT !.pc = p, !.out = o], r, p, r.ex, r.box, o)
           /\ Altered([r EXCEPT !.pc = p, !.ex = e], r, p, e, r.box, r.out)
           /\ Altered([r EXCEPT !.pc = p, !.ex = e, !.out = o], r, p, e, r.box, o)
           /\ Altered([r EXCEPT !.box = b, !.pc = p, !.out = o], r, p, r.ex, b, o)
           /\ Altered([[r EXCEPT !.known = K] EXCEPT !.pc = p, !.ex = e, !.out = o], r, p, e, r.box, o)
<1> DEFINE E == Executions \cup {None}
           B == Boxes \cup {None}
           O == Ends \cup {None}
           S == SUBSET [turn : Nat, ex : Executions]
           F == Seq(Output)
           C == [kind : Kinds, proc : Procs, pc : Places, ex : E, box : B, pod : Nat, out : O,
                 buf : F, eof : BOOLEAN, known : S]
<1>1. r \in C /\ C = CoRecords /\ e \in E /\ b \in B /\ o \in O
  BY DEF CoRecords
<1>2. K \in S
  BY <1>1
<1> HIDE DEF E, B, O, S, F
<1>3. /\ [r EXCEPT !.pc = p] \in C /\ [r EXCEPT !.pc = p, !.box = b] \in C
      /\ [r EXCEPT !.pc = p, !.pod = n] \in C /\ [r EXCEPT !.pc = p, !.out = o] \in C
      /\ [r EXCEPT !.pc = p, !.ex = e] \in C /\ [r EXCEPT !.pc = p, !.ex = e, !.out = o] \in C
      /\ [r EXCEPT !.box = b, !.pc = p, !.out = o] \in C
      /\ [[r EXCEPT !.known = K] EXCEPT !.pc = p, !.ex = e, !.out = o] \in C
  BY <1>1, <1>2
<1> HIDE DEF C
<1>4. r \in CoRecords
  OBVIOUS
<1>5. /\ Altered([r EXCEPT !.pc = p], r, p, r.ex, r.box, r.out)
      /\ Altered([r EXCEPT !.pc = p, !.box = b], r, p, r.ex, b, r.out)
      /\ Altered([r EXCEPT !.pc = p, !.pod = n], r, p, r.ex, r.box, r.out)
      /\ Altered([r EXCEPT !.pc = p, !.out = o], r, p, r.ex, r.box, o)
  BY ZenonT(60), <1>1, <1>3 DEF Altered, CoRecords
<1>6. /\ Altered([r EXCEPT !.pc = p, !.ex = e], r, p, e, r.box, r.out)
      /\ Altered([r EXCEPT !.pc = p, !.ex = e, !.out = o], r, p, e, r.box, o)
      /\ Altered([r EXCEPT !.box = b, !.pc = p, !.out = o], r, p, r.ex, b, o)
  BY SMTT(30), <1>1, <1>3 DEF Altered, CoRecords
<1>7. Altered([[r EXCEPT !.known = K] EXCEPT !.pc = p, !.ex = e, !.out = o], r, p, e, r.box, o)
  BY <1>1, <1>3 DEF Altered, CoRecords
<1> QED BY <1>5, <1>6, <1>7

\* A new one.
New(s, k, p, pc, e, b) ==
    /\ s \in CoRecords /\ s.kind = k /\ s.proc = p /\ s.pc = pc /\ s.ex = e /\ s.box = b
    /\ s.out = None /\ s.buf = <<>> /\ s.eof = FALSE /\ s.known = {}

LEMMA CoroutineIs ==
    ASSUME NEW k \in Kinds, NEW p \in Procs, NEW pc \in Places,
           NEW e \in Executions \cup {None}, NEW b \in Boxes \cup {None}, NEW n \in Nat
    PROVE  /\ New(Coroutine(k, p, pc, e, b), k, p, pc, e, b)
           /\ New([Coroutine(k, p, pc, e, b) EXCEPT !.pod = n], k, p, pc, e, b)
<1>1. Coroutine(k, p, pc, e, b) \in CoRecords
  BY DEF CoRecords, Coroutine
<1>2. ASSUME NEW r \in CoRecords
      PROVE  [r EXCEPT !.pod = n] \in CoRecords
  BY DEF CoRecords
<1>3. [Coroutine(k, p, pc, e, b) EXCEPT !.pod = n] \in CoRecords
  BY <1>1, <1>2
<1> QED BY <1>1, <1>3 DEF New, Coroutine

-----------------------------------------------------------------------------
(* What a step makes of the coroutines. *)

Still(d)  == co'[d] = co[d]
Gone(d)   == co'[d] = Free
Goes(c, p, e, b, o) == Altered(co'[c], co[c], p, e, b, o)
Moves(c, p)         == Goes(c, p, co[c].ex, co[c].box, co[c].out)
Born(n, k, p, pc, e, b) == New(co'[n], k, p, pc, e, b)
Shaped    == co' = [x \in Slots |-> co'[x]]
Others(c) == Shaped /\ \A d \in Slots \ {c} : Still(d)

LEMMA Replaced ==
    ASSUME CoOK, NEW c \in Slots, NEW r, co' = [co EXCEPT ![c] = r]
    PROVE  Others(c) /\ co'[c] = r
BY DEF CoOK, Others, Shaped, Still

LEMMA ReturnGone ==
    ASSUME CoOK, NEW c \in Slots, Return(c)
    PROVE  Others(c) /\ Gone(c)
BY Replaced DEF Return, Gone

LEMMA GotoMoves ==
    ASSUME CoOK, NEW c \in Slots, co[c] # Free, NEW p \in Places, Goto(c, p)
    PROVE  Others(c) /\ Moves(c, p)
<1>1. co[c] \in CoRecords
  BY AtIs
<1>2. co' = [co EXCEPT ![c] = [co[c] EXCEPT !.pc = p]]
  BY DEF Goto
<1>3. Others(c) /\ co'[c] = [co[c] EXCEPT !.pc = p]
  BY <1>2, Replaced
<1>4. Altered([co[c] EXCEPT !.pc = p], co[c], p, co[c].ex, co[c].box, co[c].out)
  <2>1. 0 \in Nat /\ {} \in SUBSET co[c].known
    OBVIOUS
  <2> QED BY <1>1, <2>1, RecordAltered DEF CoRecords
<1> QED BY <1>3, <1>4 DEF Moves, Goes

LEMMA SpawnBorn ==
    ASSUME CoOK, HasSlot, NEW r, co' = [co EXCEPT ![NewSlot] = r]
    PROVE  \E n \in Slots : co[n] = Free /\ Others(n) /\ co'[n] = r
BY NewSlotIs, Replaced

LEMMA SpawnTwo ==
    ASSUME CoOK, NEW c \in Slots, co[c] # Free, NEW r, NEW s, GoOnAndSpawn(c, r, s)
    PROVE  \E n \in Slots \ {c} :
              /\ co[n] = Free /\ Shaped /\ co'[c] = r /\ co'[n] = s
              /\ \A d \in Slots \ {c, n} : Still(d)
<1>1. NewSlot \in Slots \ {c} /\ co[NewSlot] = Free
  BY NewSlotIs DEF GoOnAndSpawn
<1> QED BY <1>1 DEF GoOnAndSpawn, CoOK, Shaped, Still

-----------------------------------------------------------------------------
(* What coroutines are after each action. *)

LEMMA ExecuteIs ==
    ASSUME CoOK, BoxOK, WorldOK, NEW r \in Requests, NEW p \in Procs, Execute(r, p)
    PROVE  /\ world.key[r] \in Executions
           /\ \E n \in Slots : co[n] = Free /\ Others(n)
                               /\ Born(n, "request", p, "create", world.key[r], assigned)
<1>1. world.key[r] \in Executions
  BY SessionAssumption DEF WorldOK, WorldRecords, Execute
<1>2. New(Coroutine("request", p, "create", world.key[r], assigned),
          "request", p, "create", world.key[r], assigned)
  <2>1. assigned \in Boxes \cup {None} /\ world.key[r] \in Executions \cup {None}
    BY <1>1 DEF BoxOK
  <2> QED BY <2>1, CoroutineIs, 0 \in Nat DEF Kinds, Places
<1> QED BY <1>1, <1>2, SpawnBorn DEF Execute, Spawn, Born

LEMMA AppendMessagesIs ==
    ASSUME CoOK, NEW p \in Procs, AppendMessages(p)
    PROVE  /\ TheActive \in Active
           /\ \E n \in Slots : co[n] = Free /\ Others(n)
                               /\ Born(n, "steer", p, "session", TheActive, None)
<1>1. TheActive \in Active /\ TheActive \in Executions
  BY TheActiveIs DEF AppendMessages, Active
<1>2. New(Coroutine("steer", p, "session", TheActive, None), "steer", p, "session", TheActive, None)
  BY <1>1, CoroutineIs, 0 \in Nat DEF Kinds, Places
<1> QED BY <1>1, <1>2, SpawnBorn DEF AppendMessages, Spawn, Born

LEMMA StreamEventsIs ==
    ASSUME CoOK, BoxOK, NEW p \in Procs, StreamEvents(p)
    PROVE  \E n \in Slots : co[n] = Free /\ Others(n)
                            /\ Born(n, "stream", p, "look", None, assigned)
<1>1. New(Coroutine("stream", p, "look", None, assigned), "stream", p, "look", None, assigned)
  <2>1. assigned \in Boxes \cup {None}
    BY DEF BoxOK
  <2> QED BY <2>1, CoroutineIs, 0 \in Nat DEF Kinds, Places
<1> QED BY <1>1, SpawnBorn DEF StreamEvents, Spawn, Born

LEMMA DisconnectIs ==
    ASSUME CoOK, NEW c \in Slots, Disconnect(c)
    PROVE  Others(c) /\ Gone(c)
BY ReturnGone DEF Disconnect

\* A request before it has a pipe.
LEMMA RequestIs ==
    ASSUME CoOK, NEW c \in Slots, co[c] # Free,
           co[c].pc \in {"create", "claim", "status", "resume", "replace", "refuse", "failrow"}
    PROVE  co[c].kind = "request"
BY AtIs DEF Fits, Good, PlaceOK, CoRecords, Kinds

LEMMA CreateExecutionIs ==
    ASSUME CoOK, NEW c \in Slots, CreateExecution(c)
    PROVE  /\ co[c] # Free /\ co[c].kind = "request" /\ co[c].pc = "create" /\ Others(c)
           /\ IF MayCreate(co[c].ex) \/ status[co[c].ex] = "queued" THEN Moves(c, "claim") ELSE Gone(c)
BY GotoMoves, ReturnGone DEF CreateExecution, Is, At, Places

LEMMA MarkExecutionRunningIs ==
    ASSUME CoOK, NEW c \in Slots, MarkExecutionRunning(c)
    PROVE  /\ co[c] # Free /\ co[c].kind = "request" /\ co[c].pc = "claim" /\ Others(c)
           /\ IF MayClaim(co[c].ex) THEN Moves(c, "status") ELSE Gone(c)
BY GotoMoves, ReturnGone DEF MarkExecutionRunning, Is, At, Places

LEMMA SandboxStatusIs ==
    ASSUME CoOK, NEW c \in Slots, SandboxStatus(c)
    PROVE  /\ co[c] # Free /\ co[c].kind = "request" /\ co[c].pc = "status" /\ Others(c)
           /\ \/ Moves(c, "look") /\ Runs(co[c].box)
              \/ Moves(c, "resume") /\ co[c].box # None /\ box[co[c].box].state = "suspended"
              \/ Moves(c, "replace")
<1>1. PICK p \in Places : /\ Goto(c, p)
                          /\ \/ p = "look" /\ Runs(co[c].box)
                             \/ p = "resume" /\ co[c].box # None /\ box[co[c].box].state = "suspended"
                             \/ p = "replace"
  BY DEF SandboxStatus, Places
<1>2. co[c] # Free /\ co[c].kind = "request" /\ co[c].pc = "status"
  BY DEF SandboxStatus, Is, At
<1> QED BY <1>1, <1>2, GotoMoves

LEMMA ResumeSandboxIs ==
    ASSUME CoOK, NEW c \in Slots, ResumeSandbox(c)
    PROVE  /\ co[c] # Free /\ co[c].kind = "request" /\ co[c].pc = "resume" /\ Others(c)
           /\ co[c].box \in Boxes
           /\ \/ Moves(c, "look") /\ box[co[c].box].state # "gone"
              \/ Moves(c, "replace") /\ box[co[c].box].state = "gone"
<1>1. co[c] # Free /\ co[c].pc = "resume" /\ co[c].kind = "request" /\ co[c].box \in Boxes
  BY RequestIs, AtIs DEF ResumeSandbox, At, Fits, Good, WantsBox, CoRecords
<1> QED BY <1>1, GotoMoves DEF ResumeSandbox, Places

LEMMA EnsureFailsIs ==
    ASSUME CoOK, NEW c \in Slots, EnsureFails(c)
    PROVE  /\ co[c] # Free /\ co[c].kind = "request" /\ Others(c)
           /\ co[c].pc \in {"status", "resume", "replace"} /\ Moves(c, "refuse")
<1>1. co[c] # Free /\ co[c].kind = "request" /\ co[c].pc \in {"status", "resume", "replace"}
  BY DEF EnsureFails, Is, Free
<1> QED BY <1>1, GotoMoves DEF EnsureFails, Places

LEMMA ReplaceSandboxIs ==
    ASSUME CoOK, NEW c \in Slots, ReplaceSandbox(c)
    PROVE  /\ co[c] # Free /\ co[c].kind = "request" /\ co[c].pc = "replace" /\ Others(c)
           /\ \E b \in Boxes : /\ Goes(c, "look", co[c].ex, b, co[c].out)
                               /\ box[b].state = "none" /\ assigned' = b
                               /\ box' = [box EXCEPT ![b] = Fresh(b)]
<1>1. co[c] # Free /\ co[c].pc = "replace" /\ co[c].kind = "request" /\ co[c] \in CoRecords
  BY RequestIs, AtIs DEF ReplaceSandbox, At
<1>2. PICK b \in Boxes : /\ box[b].state = "none" /\ assigned' = b
                         /\ box' = [box EXCEPT ![b] = Fresh(b)]
                         /\ co' = [co EXCEPT ![c].pc = "look", ![c].box = b]
  BY DEF ReplaceSandbox
<1>3. co' = [co EXCEPT ![c] = [co[c] EXCEPT !.pc = "look", !.box = b]]
  BY <1>2 DEF CoOK
<1>4. Others(c) /\ co'[c] = [co[c] EXCEPT !.pc = "look", !.box = b]
  BY <1>3, Replaced
<1>5. Altered([co[c] EXCEPT !.pc = "look", !.box = b], co[c], "look", co[c].ex, b, co[c].out)
  BY <1>1, RecordAltered, 0 \in Nat, {} \in SUBSET co[c].known, "look" \in Places,
     b \in Boxes \cup {None} DEF Places
<1> QED BY <1>1, <1>2, <1>4, <1>5 DEF Goes

\* Who looks for a pipe.
LEMMA LookerIs ==
    ASSUME CoOK, NEW c \in Slots, co[c] # Free, co[c].pc \in {"look", "open"}
    PROVE  /\ co[c].kind \in {"request", "steer", "stream", "adopt"}
           /\ co[c].proc \in Procs /\ co[c].box \in Boxes /\ co[c] \in CoRecords
BY AtIs DEF Fits, Good, PlaceOK, WantsBox, CoRecords, Kinds

LEMMA PipedIs ==
    ASSUME CoOK, NEW c \in Slots, co[c] # Free, co[c].pc = "piped"
    PROVE  /\ co[c].kind \in {"request", "steer", "adopt"}
           /\ co[c].proc \in Procs /\ co[c].box \in Boxes /\ co[c].ex \in Executions
           /\ co[c] \in CoRecords
BY AtIs DEF Fits, Good, PlaceOK, WantsBox, WantsEx, CoRecords, Kinds

\* Attached: an event stream is served, the others go on.
Pipes(c) == IF co[c].kind = "stream" THEN Gone(c) ELSE Moves(c, "piped")

LEMMA WithPipeIs ==
    ASSUME CoOK, NEW c \in Slots, co[c] # Free, NEW n \in Nat, co'[c] = WithPipe(c, n)
    PROVE  Pipes(c)
<1>1. co[c] \in CoRecords
  BY AtIs
<1>2. Altered([co[c] EXCEPT !.pc = "piped", !.pod = n], co[c], "piped", co[c].ex, co[c].box, co[c].out)
  <2>1. "piped" \in Places /\ {} \in SUBSET co[c].known /\ None \in Ends \cup {None}
    BY DEF Places
  <2> QED BY <1>1, <2>1, RecordAltered DEF CoRecords
<1> QED BY <1>2 DEF WithPipe, Pipes, Gone, Moves, Goes, Is

LEMMA LookForPipeIs ==
    ASSUME CoOK, BoxOK, NEW c \in Slots, LookForPipe(c)
    PROVE  /\ co[c] # Free /\ co[c].pc = "look" /\ Others(c)
           /\ IF pipe[co[c].proc][co[c].box] = 0 THEN Moves(c, "open") ELSE Pipes(c)
<1>1. co[c] # Free /\ co[c].pc = "look" /\ "open" \in Places
  BY DEF LookForPipe, At, Places
<1>2. pipe[co[c].proc][co[c].box] \in Nat
  BY <1>1, LookerIs DEF BoxOK
<1>3. CASE pipe[co[c].proc][co[c].box] = 0
  BY <1>1, <1>3, GotoMoves DEF LookForPipe
<1>4. CASE pipe[co[c].proc][co[c].box] # 0
  BY <1>1, <1>2, <1>4, Replaced, WithPipeIs DEF LookForPipe
<1> QED BY <1>3, <1>4

LEMMA OpenIoIs ==
    ASSUME CoOK, BoxOK, NEW c \in Slots, OpenIo(c)
    PROVE  /\ co[c] # Free /\ co[c].pc = "open"
           /\ IF Runs(co[c].box)
              THEN \E n \in Slots \ {c} :
                     /\ co[n] = Free /\ Shaped /\ Pipes(c)
                     /\ Born(n, "pump", co[c].proc, "read", None, co[c].box)
                     /\ \A d \in Slots \ {c, n} : Still(d)
              ELSE /\ Others(c)
                   /\ \/ co[c].kind = "request" /\ Moves(c, "refuse")
                      \/ co[c].kind = "steer" /\ Moves(c, "session")
                      \/ co[c].kind \in {"stream", "adopt"} /\ Gone(c)
<1>1. co[c] # Free /\ co[c].pc = "open"
  BY DEF OpenIo, At
<1>2. /\ co[c].kind \in {"request", "steer", "stream", "adopt"}
      /\ co[c].proc \in Procs /\ co[c].box \in Boxes
  BY <1>1, LookerIs
<1>3. CASE Runs(co[c].box)
  <2> DEFINE pod == box[co[c].box].pod
             pump == Coroutine("pump", co[c].proc, "read", None, co[c].box)
  <2>1. pod \in Nat
    BY <1>2 DEF BoxOK, BoxRecords
  <2>2. GoOnAndSpawn(c, WithPipe(c, pod), [pump EXCEPT !.pod = pod])
    BY <1>3 DEF OpenIo
  <2>3. New([pump EXCEPT !.pod = pod], "pump", co[c].proc, "read", None, co[c].box)
    <3>1. "pump" \in Kinds /\ "read" \in Places /\ None \in Executions \cup {None}
          /\ co[c].box \in Boxes \cup {None}
      BY <1>2 DEF Kinds, Places
    <3> HIDE DEF pod
    <3> QED BY <1>2, <2>1, <3>1, CoroutineIs
  <2> HIDE DEF pod, pump
  <2>4. PICK n \in Slots \ {c} : /\ co[n] = Free /\ Shaped /\ co'[c] = WithPipe(c, pod)
                                 /\ co'[n] = [pump EXCEPT !.pod = pod]
                                 /\ \A d \in Slots \ {c, n} : Still(d)
    BY <1>1, <2>2, SpawnTwo
  <2>5. Pipes(c)
    BY <1>1, <2>1, <2>4, WithPipeIs
  <2> QED BY <1>1, <1>3, <2>3, <2>4, <2>5 DEF Born
<1>4. CASE ~Runs(co[c].box)
  BY <1>1, <1>2, <1>4, GotoMoves, ReturnGone DEF OpenIo, Is, Places
<1> QED BY <1>3, <1>4

LEMMA TimerBorn ==
    ASSUME CoOK, NEW c \in Slots, co[c].proc \in Procs, co[c].ex \in Executions,
           co' = [co EXCEPT ![c] = Coroutine("timer", @.proc, "sleep", @.ex, None)]
    PROVE  Others(c) /\ Born(c, "timer", co[c].proc, "sleep", co[c].ex, None)
<1>1. Others(c) /\ co'[c] = Coroutine("timer", co[c].proc, "sleep", co[c].ex, None)
  BY Replaced DEF CoOK
<1>2. "timer" \in Kinds /\ "sleep" \in Places /\ None \in Boxes \cup {None}
      /\ co[c].ex \in Executions \cup {None} /\ 0 \in Nat
  BY DEF Kinds, Places
<1> QED BY <1>1, <1>2, CoroutineIs DEF Born

Writes(c) == Runs(co[c].box) /\ box[co[c].box].pod = co[c].pod

LEMMA WriteInputIs ==
    ASSUME CoOK, NEW c \in Slots, WriteInput(c)
    PROVE  /\ co[c] # Free /\ co[c].pc = "piped" /\ Others(c)
           /\ \/ /\ co[c].kind = "request" /\ Writes(c)
                 /\ Born(c, "timer", co[c].proc, "sleep", co[c].ex, None)
              \/ co[c].kind = "request" /\ ~Writes(c) /\ Moves(c, "refuse")
              \/ co[c].kind = "steer" /\ Gone(c)
<1>1. co[c] # Free /\ co[c].pc = "piped" /\ co[c].kind \in {"request", "steer"}
  BY DEF WriteInput, At
<1>2. co[c].proc \in Procs /\ co[c].ex \in Executions /\ "refuse" \in Places
  BY <1>1, PipedIs DEF Places
<1>3. CASE co[c].kind = "steer"
  <2>1. Return(c)
    BY <1>3 DEF WriteInput, Is
  <2> QED BY <1>1, <1>3, <2>1, ReturnGone
<1>4. CASE co[c].kind = "request" /\ Writes(c)
  <2>1. co' = [co EXCEPT ![c] = Coroutine("timer", @.proc, "sleep", @.ex, None)]
    BY <1>4 DEF WriteInput, Is, Writes
  <2> QED BY <1>1, <1>2, <1>4, <2>1, TimerBorn
<1>5. CASE co[c].kind = "request" /\ ~Writes(c)
  <2>1. Goto(c, "refuse")
    BY <1>5 DEF WriteInput, Is, Writes
  <2> QED BY <1>1, <1>2, <1>5, <2>1, GotoMoves
<1> QED BY <1>1, <1>3, <1>4, <1>5

LEMMA AppendFailureIs ==
    ASSUME CoOK, NEW c \in Slots, AppendFailure(c)
    PROVE  /\ co[c] # Free /\ co[c].kind = "request" /\ co[c].pc = "refuse" /\ Others(c)
           /\ Moves(c, "failrow")
BY RequestIs, GotoMoves DEF AppendFailure, At, Places

LEMMA FailExecutionIs ==
    ASSUME CoOK, NEW c \in Slots, FailExecution(c)
    PROVE  /\ co[c] # Free /\ co[c].kind = "request" /\ co[c].pc = "failrow" /\ Others(c)
           /\ Gone(c)
BY RequestIs, ReturnGone DEF FailExecution, At

LEMMA SteeringSessionIs ==
    ASSUME CoOK, BoxOK, NEW c \in Slots, SteeringSession(c)
    PROVE  /\ co[c] # Free /\ co[c].kind = "steer" /\ co[c].pc = "session" /\ Others(c)
           /\ \/ assigned # None /\ Goes(c, "look", co[c].ex, assigned, co[c].out)
              \/ Gone(c)
<1>1. co[c] # Free /\ co[c].kind = "steer" /\ co[c].pc = "session" /\ co[c] \in CoRecords
  BY AtIs DEF SteeringSession, Is, At
<1>2. CASE assigned # None /\ co' = [co EXCEPT ![c].pc = "look", ![c].box = assigned]
  <2>1. co' = [co EXCEPT ![c] = [co[c] EXCEPT !.pc = "look", !.box = assigned]]
    BY <1>2 DEF CoOK
  <2>2. Others(c) /\ co'[c] = [co[c] EXCEPT !.pc = "look", !.box = assigned]
    BY <2>1, Replaced
  <2>3. assigned \in Boxes \cup {None} /\ "look" \in Places /\ {} \in SUBSET co[c].known /\ 0 \in Nat
    BY DEF BoxOK, Places
  <2>4. Altered([co[c] EXCEPT !.pc = "look", !.box = assigned],
                co[c], "look", co[c].ex, assigned, co[c].out)
    BY <1>1, <2>3, RecordAltered
  <2> QED BY <1>1, <1>2, <2>2, <2>4 DEF Goes
<1>3. CASE Return(c)
  BY <1>1, <1>3, ReturnGone
<1> QED BY <1>2, <1>3 DEF SteeringSession

\* Who records and tells an outcome.
LEMMA RecorderIs ==
    ASSUME CoOK, NEW c \in Slots, co[c] # Free, co[c].pc \in {"record", "tell"}
    PROVE  /\ co[c].kind \in {"pump", "timer", "adopt"} /\ co[c].proc \in Procs
           /\ co[c].ex \in Executions /\ co[c].out \in Ends /\ EndOK(co[c].out)
           /\ co[c] \in CoRecords /\ (co[c].kind = "pump" => co[c].box \in Boxes)
BY AtIs DEF Fits, Good, PlaceOK, WantsEx, WantsBox, CoRecords, Kinds

\* After the recording.
Resumes(c) ==
    IF co[c].kind = "pump"
    THEN Goes(c, IF co[c].out.by = "eof" THEN "eof" ELSE "read", None, co[c].box, None)
    ELSE Gone(c)

LEMMA AfterwardsIs ==
    ASSUME CoOK, NEW c \in Slots, co[c] # Free, co'[c] = Afterwards(c)
    PROVE  Resumes(c)
<1>1. co[c] \in CoRecords
  BY AtIs
<1>2. CASE co[c].kind = "pump"
  <2>1. PICK p \in Places : p = IF co[c].out.by = "eof" THEN "eof" ELSE "read"
    BY DEF Places
  <2>2. PICK K \in SUBSET co[c].known : K = {k \in co[c].known : k.ex # co[c].ex}
    OBVIOUS
  <2>3. co'[c] = [[co[c] EXCEPT !.known = K] EXCEPT !.pc = p, !.ex = None, !.out = None]
    BY <1>2, <2>1, <2>2 DEF Afterwards, Forget, Is
  <2>4. Altered([[co[c] EXCEPT !.known = K] EXCEPT !.pc = p, !.ex = None, !.out = None],
                co[c], p, None, co[c].box, None)
    <3>1. None \in Executions \cup {None} /\ None \in Ends \cup {None} /\ 0 \in Nat
          /\ None \in Boxes \cup {None}
      OBVIOUS
    <3> QED BY <1>1, <2>1, <2>2, <3>1, RecordAltered
  <2> QED BY <1>2, <2>1, <2>3, <2>4 DEF Resumes, Goes
<1>3. CASE co[c].kind # "pump"
  BY <1>3 DEF Resumes, Afterwards, Is, Gone
<1> QED BY <1>2, <1>3

LEMMA RecordIs ==
    ASSUME CoOK, NEW c \in Slots, Record(c)
    PROVE  /\ co[c] # Free /\ co[c].pc = "record" /\ Others(c)
           /\ IF MayEnd(co[c].ex) THEN Moves(c, "tell") ELSE Resumes(c)
<1>1. co[c] # Free /\ co[c].pc = "record"
  BY DEF Record, At
<1>2. CASE MayEnd(co[c].ex)
  BY <1>1, <1>2, GotoMoves DEF Record, Places
<1>3. CASE ~MayEnd(co[c].ex)
  BY <1>1, <1>3, Replaced, AfterwardsIs DEF Record
<1> QED BY <1>1, <1>2, <1>3

LEMMA TellIs ==
    ASSUME CoOK, BoxOK, NEW c \in Slots, Tell(c)
    PROVE  /\ co[c] # Free /\ co[c].pc = "tell"
           /\ \/ Others(c) /\ Resumes(c)
              \/ /\ Hazard("idle")
                 /\ \E n \in Slots, b \in Boxes :
                      /\ co[n] = Free \/ n = c
                      /\ box[b].state # "none" /\ Shaped
                      /\ Born(n, "idle", co[c].proc, "sleep", co[c].ex, b)
                      /\ n # c => Resumes(c)
                      /\ \A d \in Slots \ {c, n} : Still(d)
<1>1. co[c] # Free /\ co[c].pc = "tell"
  BY DEF Tell, At
<1>2. PICK b \in Boxes \cup {None} : b = IF Is(c, "timer") THEN assigned ELSE co[c].box
  BY <1>1, AtIs DEF BoxOK, CoRecords
<1>3. CASE ~Hazard("idle") \/ b = None
  <2>1. co' = [co EXCEPT ![c] = Afterwards(c)]
    BY <1>2, <1>3 DEF Tell
  <2> QED BY <1>1, <2>1, Replaced, AfterwardsIs
<1>4. CASE Hazard("idle") /\ b # None
  <2> DEFINE idle == Coroutine("idle", co[c].proc, "sleep", co[c].ex, b)
  <2>1. New(idle, "idle", co[c].proc, "sleep", co[c].ex, b)
    <3>1. /\ "idle" \in Kinds /\ "sleep" \in Places /\ co[c].ex \in Executions \cup {None}
          /\ co[c].proc \in Procs /\ 0 \in Nat
      BY <1>1, RecorderIs DEF Kinds, Places
    <3> QED BY <3>1, CoroutineIs
  <2>2. b \in Boxes /\ box[b].state # "none"
    BY <1>1, <1>2, <1>4, AtIs DEF BoxOK, Fits, Good
  <2>3. IF co[c].kind = "pump" THEN GoOnAndSpawn(c, Afterwards(c), idle)
        ELSE co' = [co EXCEPT ![c] = idle]
    BY <1>2, <1>4 DEF Tell, Is
  <2> HIDE DEF idle
  <2>4. CASE co[c].kind = "pump"
    <3>1. PICK n \in Slots \ {c} : /\ co[n] = Free /\ Shaped /\ co'[c] = Afterwards(c)
                                   /\ co'[n] = idle /\ \A d \in Slots \ {c, n} : Still(d)
      BY <1>1, <2>3, <2>4, SpawnTwo
    <3>2. Resumes(c)
      BY <1>1, <3>1, AfterwardsIs
    <3> QED BY <1>1, <1>4, <2>1, <2>2, <3>1, <3>2 DEF Born
  <2>5. CASE co[c].kind # "pump"
    <3>1. Others(c) /\ co'[c] = idle
      BY <2>3, <2>5, Replaced
    <3> QED BY <1>1, <1>4, <2>1, <2>2, <3>1 DEF Born, Others
  <2> QED BY <2>4, <2>5
<1> QED BY <1>3, <1>4

\* c goes on to record an outcome.
LEMMA ToRecord ==
    ASSUME CoOK, NEW c \in Slots, co[c] # Free, NEW p \in Places, NEW e \in Executions \cup {None},
           NEW o \in Ends \cup {None},
           \/ co' = [co EXCEPT ![c].pc = p, ![c].ex = e, ![c].out = o]
           \/ co' = [co EXCEPT ![c] = [@ EXCEPT !.pc = p, !.ex = e, !.out = o]]
    PROVE  Others(c) /\ Goes(c, p, e, co[c].box, o)
<1>1. co' = [co EXCEPT ![c] = [co[c] EXCEPT !.pc = p, !.ex = e, !.out = o]]
  BY DEF CoOK
<1>2. Others(c) /\ co'[c] = [co[c] EXCEPT !.pc = p, !.ex = e, !.out = o]
  BY <1>1, Replaced
<1>3. Altered([co[c] EXCEPT !.pc = p, !.ex = e, !.out = o], co[c], p, e, co[c].box, o)
  <2>1. co[c] \in CoRecords /\ {} \in SUBSET co[c].known /\ 0 \in Nat /\ None \in Boxes \cup {None}
    BY AtIs
  <2> QED BY <2>1, RecordAltered
<1> QED BY <1>2, <1>3 DEF Goes

LEMMA ToOutcome ==
    ASSUME CoOK, NEW c \in Slots, co[c] # Free, NEW p \in Places, NEW o \in Ends \cup {None},
           \/ co' = [co EXCEPT ![c].pc = p, ![c].out = o]
           \/ co' = [co EXCEPT ![c] = [@ EXCEPT !.pc = p, !.out = o]]
    PROVE  Others(c) /\ Goes(c, p, co[c].ex, co[c].box, o)
<1>1. co' = [co EXCEPT ![c] = [co[c] EXCEPT !.pc = p, !.out = o]]
  BY DEF CoOK
<1>2. Others(c) /\ co'[c] = [co[c] EXCEPT !.pc = p, !.out = o]
  BY <1>1, Replaced
<1>3. Altered([co[c] EXCEPT !.pc = p, !.out = o], co[c], p, co[c].ex, co[c].box, o)
  <2>1. co[c] \in CoRecords /\ {} \in SUBSET co[c].known /\ 0 \in Nat /\ None \in Boxes \cup {None}
    BY AtIs
  <2> QED BY <2>1, RecordAltered
<1> QED BY <1>2, <1>3 DEF Goes

LEMMA FailureIs ==
    ASSUME NEW y \in {"eof", "orphan", "timeout", "request"}
    PROVE  Failure(y) \in Ends /\ EndOK(Failure(y)) /\ ~Failure(y).ok /\ Failure(y).by = y
BY DEF Failure, Outcome, Ends, EndOK, TurnOK

LEMMA MaxDurationIs ==
    ASSUME CoOK, NEW c \in Slots, MaxDuration(c)
    PROVE  /\ co[c] # Free /\ co[c].kind = "timer" /\ co[c].pc = "sleep" /\ Others(c)
           /\ \/ Hazard("timeout") /\ Goes(c, "record", co[c].ex, co[c].box, Failure("timeout"))
              \/ Gone(c)
<1>1. co[c] # Free /\ co[c].kind = "timer" /\ co[c].pc = "sleep"
  BY DEF MaxDuration, Is, At
<1>2. CASE co[c].ex \in Active
  <2>1. co' = [co EXCEPT ![c].pc = "record", ![c].out = Failure("timeout")] /\ Hazard("timeout")
    BY <1>2 DEF MaxDuration
  <2>2. "record" \in Places /\ Failure("timeout") \in Ends \cup {None}
    BY FailureIs DEF Places
  <2> QED BY <1>1, <2>1, <2>2, ToOutcome
<1>3. CASE co[c].ex \notin Active
  BY <1>1, <1>3, ReturnGone DEF MaxDuration
<1> QED BY <1>2, <1>3

LEMMA IdleCheckIs ==
    ASSUME CoOK, NEW c \in Slots, IdleCheck(c)
    PROVE  /\ co[c] # Free /\ co[c].kind = "idle" /\ co[c].pc = "sleep" /\ Others(c)
           /\ Moves(c, "pause") \/ Gone(c)
BY GotoMoves, ReturnGone DEF IdleCheck, Is, At, Places

\* The streams of a pod that ended: closed, or as they were.
Shuts(s, r) ==
    /\ s \in CoRecords /\ s.kind = r.kind /\ s.proc = r.proc /\ s.pc = r.pc /\ s.ex = r.ex
    /\ s.box = r.box /\ s.out = r.out /\ s.buf = r.buf /\ s.eof = TRUE /\ s.known = r.known
Shut(d)   == co[d] # Free /\ co[d].kind = "pump" /\ Shuts(co'[d], co[d])
Closes(b) == \A d \in Slots : Still(d) \/ (Shut(d) /\ co[d].box = b)

LEMMA ShutIs ==
    ASSUME NEW r \in CoRecords
    PROVE  Shuts([r EXCEPT !.eof = TRUE], r)
<1>1. [r EXCEPT !.eof = TRUE] \in CoRecords
  BY DEF CoRecords
<1> QED BY <1>1 DEF Shuts, CoRecords

LEMMA ClosedStreamsIs ==
    ASSUME CoOK, NEW b, NEW d \in Slots, co'[d] = ClosedStreams(b)[d]
    PROVE  IF Attached(d, b) THEN Shut(d) /\ co[d].box = b ELSE Still(d)
<1>1. CASE Attached(d, b)
  <2>1. co[d].kind = "pump" /\ co[d] # Free /\ co[d].box = b
    BY <1>1, Apart DEF Attached, Is, Free
  <2>2. co[d] \in CoRecords
    BY <2>1, AtIs
  <2>3. co'[d] = [co[d] EXCEPT !.eof = TRUE]
    BY <1>1 DEF ClosedStreams
  <2>4. Shuts([co[d] EXCEPT !.eof = TRUE], co[d])
    BY <2>2, ShutIs
  <2> QED BY <1>1, <2>1, <2>3, <2>4 DEF Shut
<1>2. CASE ~Attached(d, b)
  <2>1. co'[d] = co[d]
    BY <1>2 DEF ClosedStreams
  <2> QED BY <1>2, <2>1 DEF Still
<1> QED BY <1>1, <1>2

LEMMA PauseSandboxIs ==
    ASSUME CoOK, NEW c \in Slots, PauseSandbox(c)
    PROVE  /\ co[c] # Free /\ co[c].kind = "idle" /\ co[c].pc = "pause"
           /\ co[c].proc \in Procs /\ co[c].box \in Boxes
           /\ Shaped /\ Gone(c)
           /\ \A d \in Slots \ {c} : Still(d) \/ Shut(d)
<1>1. co[c] # Free /\ co[c].pc = "pause"
  BY DEF PauseSandbox, At
<1>2. co[c].kind = "idle" /\ co[c].proc \in Procs /\ co[c].box \in Boxes
  BY <1>1, AtIs DEF Fits, Good, PlaceOK, WantsBox, CoRecords, Kinds
<1>3. CASE Runs(co[c].box)
  <2>1. co' = [ClosedStreams(co[c].box) EXCEPT ![c] = Free]
    BY <1>3 DEF PauseSandbox
  <2>2. Shaped /\ Gone(c) /\ \A d \in Slots \ {c} : co'[d] = ClosedStreams(co[c].box)[d]
    BY <2>1 DEF Shaped, Gone, ClosedStreams
  <2>3. \A d \in Slots \ {c} : Still(d) \/ Shut(d)
    <3> TAKE d \in Slots \ {c}
    <3> QED BY <2>2, ClosedStreamsIs
  <2> QED BY <1>1, <1>2, <2>2, <2>3
<1>4. CASE ~Runs(co[c].box)
  <2>1. Return(c)
    BY <1>4 DEF PauseSandbox
  <2> QED BY <1>1, <1>2, <2>1, ReturnGone DEF Others
<1> QED BY <1>3, <1>4

LEMMA SandboxDiesIs ==
    ASSUME CoOK, NEW b \in Boxes, SandboxDies(b)
    PROVE  Shaped /\ Closes(b) /\ \A d \in Slots : Attached(d, b) => Shut(d)
<1>1. Shaped /\ \A d \in Slots : co'[d] = ClosedStreams(b)[d]
  BY DEF SandboxDies, ClosedStreams, Shaped
<1>2. \A d \in Slots : IF Attached(d, b) THEN Shut(d) /\ co[d].box = b ELSE Still(d)
  BY <1>1, ClosedStreamsIs
<1> QED BY <1>1, <1>2 DEF Closes

\* The streams of a sandbox that says something.
Hears(d, L) == /\ co[d] # Free /\ co[d].kind = "pump" /\ co'[d] = [co[d] EXCEPT !.buf = @ \o L]
               /\ co'[d] \in CoRecords /\ co'[d].buf = co[d].buf \o L
               /\ co'[d].kind = "pump" /\ co'[d].proc = co[d].proc /\ co'[d].pc = co[d].pc
               /\ co'[d].ex = co[d].ex /\ co'[d].box = co[d].box /\ co'[d].out = co[d].out
               /\ co'[d].eof = co[d].eof /\ co'[d].known = co[d].known

LEMMA Element ==
    ASSUME NEW S, NEW s \in Seq(S), NEW i \in DOMAIN s
    PROVE  s[i] \in S
OBVIOUS

LEMMA Joined ==
    ASSUME NEW S, NEW s \in Seq(S), NEW t \in Seq(S)
    PROVE  s \o t \in Seq(S)
OBVIOUS

LEMMA EmitIs ==
    ASSUME CoOK, NEW b \in Boxes, NEW L \in Seq(Output), Emit(b, L)
    PROVE  Shaped /\ \A d \in Slots : IF Attached(d, b) THEN Hears(d, L) ELSE Still(d)
<1>1. Shaped /\ \A d \in Slots : co'[d] = IF Attached(d, b) THEN [co[d] EXCEPT !.buf = @ \o L] ELSE co[d]
  BY DEF Emit, Shaped
<1>2. ASSUME NEW d \in Slots, Attached(d, b)
      PROVE  Hears(d, L)
  <2>1. co[d].kind = "pump" /\ co[d] # Free
    BY <1>2, Apart DEF Attached, Is, Free
  <2>2. co[d] \in CoRecords
    BY <2>1, AtIs
  <2>3. ASSUME NEW r \in CoRecords
        PROVE  [r EXCEPT !.buf = r.buf \o L] \in CoRecords
    <3>1. r.buf \in Seq(Output)
      BY DEF CoRecords
    <3>2. PICK q \in Seq(Output) : q = r.buf \o L
      BY <3>1, Joined
    <3>3. [r EXCEPT !.buf = q] \in CoRecords
      BY DEF CoRecords
    <3> QED BY <3>2, <3>3
  <2>4. co'[d] = [co[d] EXCEPT !.buf = co[d].buf \o L]
    BY <1>1, <1>2
  <2>5. co'[d] \in CoRecords
    BY <2>2, <2>3, <2>4
  <2> QED BY <1>1, <1>2, <2>1, <2>2, <2>4, <2>5 DEF Hears, CoRecords
<1> QED BY <1>1, <1>2 DEF Still

LEMMA PumpEofIs ==
    ASSUME CoOK, NEW c \in Slots, PumpEof(c)
    PROVE  /\ co[c] # Free /\ co[c].kind = "pump" /\ co[c].pc = "read" /\ Others(c)
           /\ co[c].eof /\ co[c].buf = <<>>
           /\ \/ TheActive \in Active /\ Goes(c, "record", TheActive, co[c].box, Failure("eof"))
              \/ Moves(c, "eof")
<1>1. co[c] # Free /\ co[c].kind = "pump" /\ co[c].pc = "read" /\ co[c].eof /\ co[c].buf = <<>>
  BY DEF PumpEof, Is, At
<1>2. CASE Active # {}
  <2>1. co' = [co EXCEPT ![c].pc = "record", ![c].ex = TheActive, ![c].out = Failure("eof")]
    BY <1>2 DEF PumpEof
  <2>2. "record" \in Places /\ Failure("eof") \in Ends \cup {None}
    BY FailureIs DEF Places
  <2>3. TheActive \in Active /\ TheActive \in Executions \cup {None}
    BY <1>2, TheActiveIs DEF Active
  <2> QED BY <1>1, <2>1, <2>2, <2>3, ToRecord
<1>3. CASE Active = {}
  <2>1. Goto(c, "eof")
    BY <1>3 DEF PumpEof
  <2> QED BY <1>1, <2>1, GotoMoves DEF Places
<1> QED BY <1>2, <1>3

LEMMA PumpEndIs ==
    ASSUME CoOK, NEW c \in Slots, PumpEnd(c)
    PROVE  /\ co[c] # Free /\ co[c].kind = "pump" /\ co[c].pc = "eof" /\ Others(c) /\ Gone(c)
           /\ co[c].proc \in Procs /\ co[c].box \in Boxes
BY AtIs, ReturnGone DEF PumpEnd, At, Fits, Good, PlaceOK, WantsBox, CoRecords, Kinds

LEMMA StartProcessIs ==
    ASSUME CoOK, StartProcess
    PROVE  \E n \in Slots : co[n] = Free /\ Others(n) /\ Born(n, "adopt", 2, "list", None, None)
<1>1. New(Coroutine("adopt", 2, "list", None, None), "adopt", 2, "list", None, None)
  <2>1. "adopt" \in Kinds /\ "list" \in Places /\ 2 \in Procs /\ 0 \in Nat
        /\ None \in Executions \cup {None} /\ None \in Boxes \cup {None}
    BY DEF Kinds, Places, Procs
  <2> QED BY <2>1, CoroutineIs
<1> QED BY <1>1, SpawnBorn DEF StartProcess, Spawn, Born

LEMMA ProcessDiesIs ==
    ASSUME CoOK, ProcessDies
    PROVE  /\ Shaped /\ \A d \in Slots : Gone(d) \/ Still(d)
           /\ \A d \in Slots : co'[d] # Free => co'[d].proc # 1
BY DEF ProcessDies, Shaped, Gone, Still

LEMMA ListActiveIs ==
    ASSUME CoOK, NEW c \in Slots, ListActive(c)
    PROVE  /\ co[c] # Free /\ co[c].kind = "adopt" /\ co[c].pc = "list" /\ Others(c)
           /\ \/ Gone(c)
              \/ /\ TheActive \in Active
                 /\ \/ Goes(c, "record", TheActive, co[c].box, Failure("orphan"))
                    \/ Goes(c, "adopt", TheActive, co[c].box, co[c].out)
<1>1. co[c] # Free /\ co[c].pc = "list"
  BY DEF ListActive, At
<1>2. co[c].kind = "adopt" /\ co[c] \in CoRecords
  BY <1>1, AtIs DEF Fits, Good, PlaceOK, CoRecords, Kinds
<1>3. CASE Active = {}
  BY <1>1, <1>2, <1>3, Replaced DEF ListActive, Gone
<1>4. CASE Active # {} /\ status[TheActive] = "queued"
  <2>1. co' = [co EXCEPT ![c] = [@ EXCEPT !.pc = "record", !.ex = TheActive, !.out = Failure("orphan")]]
    BY <1>4 DEF ListActive
  <2>2. "record" \in Places /\ Failure("orphan") \in Ends \cup {None}
    BY FailureIs DEF Places
  <2>3. TheActive \in Active /\ TheActive \in Executions \cup {None}
    BY <1>4, TheActiveIs DEF Active
  <2> QED BY <1>1, <1>2, <2>1, <2>2, <2>3, ToRecord
<1>5. CASE Active # {} /\ status[TheActive] # "queued"
  <2>1. co' = [co EXCEPT ![c] = [@ EXCEPT !.pc = "adopt", !.ex = TheActive]]
    BY <1>5 DEF ListActive
  <2>2. Others(c) /\ co'[c] = [co[c] EXCEPT !.pc = "adopt", !.ex = TheActive]
    BY <2>1, Replaced
  <2>3. TheActive \in Active /\ TheActive \in Executions \cup {None}
    BY <1>5, TheActiveIs DEF Active
  <2>4. Altered([co[c] EXCEPT !.pc = "adopt", !.ex = TheActive],
                co[c], "adopt", TheActive, co[c].box, co[c].out)
    <3>1. "adopt" \in Places /\ {} \in SUBSET co[c].known /\ 0 \in Nat
          /\ None \in Boxes \cup {None} /\ None \in Ends \cup {None}
      BY DEF Places
    <3> QED BY <1>2, <2>3, <3>1, RecordAltered
  <2> QED BY <1>1, <1>2, <2>2, <2>3, <2>4 DEF Goes
<1> QED BY <1>3, <1>4, <1>5

LEMMA AdoptSessionIs ==
    ASSUME CoOK, BoxOK, NEW c \in Slots, AdoptSession(c)
    PROVE  /\ co[c] # Free /\ co[c].kind = "adopt" /\ co[c].pc = "adopt" /\ Others(c)
           /\ IF Runs(assigned) THEN Goes(c, "logs", co[c].ex, assigned, None)
                                ELSE Goes(c, "record", co[c].ex, assigned, Failure("orphan"))
<1>1. co[c] # Free /\ co[c].pc = "adopt"
  BY DEF AdoptSession, At
<1>2. co[c].kind = "adopt" /\ co[c] \in CoRecords
  BY <1>1, AtIs DEF Fits, Good, PlaceOK, CoRecords, Kinds
<1>3. PICK p \in Places : p = IF Runs(assigned) THEN "logs" ELSE "record"
  BY DEF Places
<1>4. PICK o \in Ends \cup {None} : o = IF Runs(assigned) THEN None ELSE Failure("orphan")
  BY FailureIs
<1>5. co' = [co EXCEPT ![c] = [co[c] EXCEPT !.box = assigned, !.pc = p, !.out = o]]
  BY <1>3, <1>4 DEF AdoptSession, CoOK
<1>6. Others(c) /\ co'[c] = [co[c] EXCEPT !.box = assigned, !.pc = p, !.out = o]
  BY <1>5, Replaced
<1>7. Altered([co[c] EXCEPT !.box = assigned, !.pc = p, !.out = o], co[c], p, co[c].ex, assigned, o)
  <2>1. assigned \in Boxes \cup {None} /\ {} \in SUBSET co[c].known /\ 0 \in Nat
        /\ None \in Executions \cup {None}
    BY DEF BoxOK
  <2> QED BY <1>2, <2>1, RecordAltered
<1> QED BY <1>1, <1>2, <1>3, <1>4, <1>6, <1>7 DEF Goes

LEMMA OutcomeIs ==
    ASSUME NEW k \in BOOLEAN, NEW t \in Nat
    PROVE  /\ Outcome("turn", k, t) \in Ends /\ Outcome("turn", k, t).by = "turn"
           /\ Outcome("turn", k, t).turn = t /\ Outcome("turn", k, t).ok = k
BY DEF Outcome, Ends

LEMMA ReadLogsIs ==
    ASSUME CoOK, BoxOK, NEW c \in Slots, ReadLogs(c)
    PROVE  /\ co[c] # Free /\ co[c].kind = "adopt" /\ co[c].pc = "logs" /\ Others(c)
           /\ co[c].box \in Boxes /\ co[c].ex \in Executions
           /\ \/ Moves(c, "look")
              \/ \E i \in DOMAIN box[co[c].box].log :
                    LET line == box[co[c].box].log[i] IN
                    /\ Hazard("clock") \/ co[c].ex \in line.since
                    /\ Goes(c, "record", co[c].ex, co[c].box, Outcome("turn", line.ok, line.turn))
<1>1. co[c] # Free /\ co[c].pc = "logs"
  BY DEF ReadLogs, At
<1>2. /\ co[c].kind = "adopt" /\ co[c] \in CoRecords /\ co[c].box \in Boxes
      /\ co[c].ex \in Executions
  BY <1>1, AtIs DEF Fits, Good, PlaceOK, WantsBox, WantsEx, CoRecords, Kinds
<1>3. PICK lines \in IF Runs(co[c].box) THEN OutputsSince(co[c].box, co[c].ex) ELSE {{}} :
         LET line == box[co[c].box].log[Min(lines)]
         IN  co' = [co EXCEPT ![c] =
               IF lines = {} THEN [@ EXCEPT !.pc = "look"]
               ELSE [@ EXCEPT !.pc = "record", !.out = Outcome("turn", line.ok, line.turn)]]
  BY DEF ReadLogs
<1>4. CASE lines = {}
  <2>1. co' = [co EXCEPT ![c] = [@ EXCEPT !.pc = "look"]]
    BY <1>3, <1>4
  <2>2. Goto(c, "look")
    BY <2>1 DEF Goto, CoOK
  <2> QED BY <1>1, <1>2, <2>2, GotoMoves DEF Places
<1>5. CASE lines # {}
  <2>1. lines \in OutputsSince(co[c].box, co[c].ex)
    BY <1>3, <1>5
  <2>2. box[co[c].box].log \in Seq([turn : Nat, ok : BOOLEAN, since : SUBSET Executions])
    BY <1>2 DEF BoxOK, BoxRecords
  <2>3. /\ lines \subseteq DOMAIN box[co[c].box].log /\ lines \in SUBSET Nat
        /\ Hazard("clock") \/ lines = LogSince(co[c].box, co[c].ex)
    BY <2>1, <2>2 DEF OutputsSince, LogSince
  <2>4. Min(lines) \in lines
    BY <1>5, <2>3, MinIs
  <2>5. PICK i \in DOMAIN box[co[c].box].log :
           i = Min(lines) /\ (Hazard("clock") \/ co[c].ex \in box[co[c].box].log[i].since)
    BY <2>3, <2>4 DEF LogSince
  <2>6. PICK line \in [turn : Nat, ok : BOOLEAN, since : SUBSET Executions] :
            line = box[co[c].box].log[i]
    BY <2>2, <2>5, Element
  <2>7. co' = [co EXCEPT ![c] = [@ EXCEPT !.pc = "record", !.out = Outcome("turn", line.ok, line.turn)]]
    BY <1>3, <1>5, <2>5, <2>6
  <2>8. "record" \in Places /\ Outcome("turn", line.ok, line.turn) \in Ends \cup {None}
    BY <2>6, OutcomeIs DEF Places
  <2>9. Others(c) /\ Goes(c, "record", co[c].ex, co[c].box, Outcome("turn", line.ok, line.turn))
    BY <1>1, <2>7, <2>8, ToOutcome
  <2> QED BY <1>1, <1>2, <2>5, <2>6, <2>9
<1> QED BY <1>4, <1>5

LEMMA RearmTimerIs ==
    ASSUME CoOK, NEW c \in Slots, RearmTimer(c)
    PROVE  /\ co[c] # Free /\ co[c].kind = "adopt" /\ co[c].pc = "piped" /\ Others(c)
           /\ Born(c, "timer", co[c].proc, "sleep", co[c].ex, None)
<1>1. co[c] # Free /\ co[c].kind = "adopt" /\ co[c].pc = "piped"
  BY DEF RearmTimer, Is, At
<1>2. co[c].proc \in Procs /\ co[c].ex \in Executions
  BY <1>1, PipedIs
<1> QED BY <1>1, <1>2, TimerBorn DEF RearmTimer

LEMMA HeadTail ==
    ASSUME NEW S, NEW s \in Seq(S), s # <<>>
    PROVE  /\ Head(s) \in S /\ Tail(s) \in Seq(S) /\ Head(s) = s[1] /\ 1 \in DOMAIN s
           /\ Len(Tail(s)) = Len(s) - 1
           /\ \A i \in DOMAIN Tail(s) : i + 1 \in DOMAIN s /\ Tail(s)[i] = s[i + 1]
OBVIOUS

\* The pump takes a line.
Lined(s, r, p, e, o, K) ==
    /\ s \in CoRecords /\ s.kind = r.kind /\ s.proc = r.proc
    /\ s.pc = p /\ s.ex = e /\ s.box = r.box /\ s.out = o
    /\ s.buf = Tail(r.buf) /\ s.eof = r.eof /\ s.known = K

LEMMA RecordLined ==
    ASSUME NEW r \in CoRecords, NEW q \in Seq(Output), NEW p \in Places, q = Tail(r.buf),
           NEW e \in Executions \cup {None}, NEW o \in Ends \cup {None},
           NEW K \in SUBSET [turn : Nat, ex : Executions]
    PROVE  /\ Lined([r EXCEPT !.buf = q], r, r.pc, r.ex, r.out, r.known)
           /\ Lined([[r EXCEPT !.buf = q] EXCEPT !.known = K], r, r.pc, r.ex, r.out, K)
           /\ Lined([[[r EXCEPT !.buf = q] EXCEPT !.known = K] EXCEPT !.pc = p, !.ex = e, !.out = o],
                    r, p, e, o, K)
<1> DEFINE E == Executions \cup {None}
           B == Boxes \cup {None}
           O == Ends \cup {None}
           S == SUBSET [turn : Nat, ex : Executions]
           F == Seq(Output)
           C == [kind : Kinds, proc : Procs, pc : Places, ex : E, box : B, pod : Nat, out : O,
                 buf : F, eof : BOOLEAN, known : S]
<1>1. r \in C /\ C = CoRecords /\ e \in E /\ o \in O /\ K \in S /\ q \in F
  BY DEF CoRecords
<1> HIDE DEF E, B, O, S, F
<1>2. /\ [r EXCEPT !.buf = q] \in C /\ [[r EXCEPT !.buf = q] EXCEPT !.known = K] \in C
      /\ [[[r EXCEPT !.buf = q] EXCEPT !.known = K] EXCEPT !.pc = p, !.ex = e, !.out = o] \in C
  BY <1>1
<1> HIDE DEF C
<1>3. /\ Lined([r EXCEPT !.buf = q], r, r.pc, r.ex, r.out, r.known)
      /\ Lined([[r EXCEPT !.buf = q] EXCEPT !.known = K], r, r.pc, r.ex, r.out, K)
  BY <1>1, <1>2 DEF Lined, CoRecords
<1>4. Lined([[[r EXCEPT !.buf = q] EXCEPT !.known = K] EXCEPT !.pc = p, !.ex = e, !.out = o],
            r, p, e, o, K)
  BY <1>1, <1>2 DEF Lined, CoRecords
<1> QED BY <1>3, <1>4

\* It drops the line, notes its turn for the active execution, or goes on to record it.
LEMMA PumpLineIs ==
    ASSUME CoOK, NEW c \in Slots, PumpLine(c)
    PROVE  /\ co[c] # Free /\ co[c].kind = "pump" /\ co[c].pc = "read" /\ Others(c)
           /\ co[c].buf # <<>> /\ co[c].buf \in Seq(Output)
           /\ \E line \in Output :
                /\ line = Head(co[c].buf)
                /\ \/ \E K \in SUBSET co[c].known :
                        Lined(co'[c], co[c], co[c].pc, co[c].ex, co[c].out, K)
                   \/ /\ TheActive \in Active
                      /\ \E K \in SUBSET (co[c].known \cup {[turn |-> line.turn, ex |-> TheActive]}) :
                           IF line.ends
                           THEN Lined(co'[c], co[c], "record", TheActive,
                                      Outcome("turn", line.ok, line.turn), K)
                           ELSE Lined(co'[c], co[c], co[c].pc, co[c].ex, co[c].out, K)
<1>1. co[c] # Free /\ co[c].kind = "pump" /\ co[c].pc = "read" /\ co[c].buf # <<>>
  BY DEF PumpLine, Is, At
<1>2. co[c] \in CoRecords
  BY <1>1, AtIs
<1>3. co[c].buf \in Seq(Output) /\ co[c].known \in SUBSET [turn : Nat, ex : Executions]
  BY <1>2 DEF CoRecords
<1> DEFINE line  == Head(co[c].buf)
           known == {k \in co[c].known : k.turn = line.turn}
           e     == ExecutionForLine(c, line)
           r     == [co[c] EXCEPT !.buf = Tail(@)]
           x     == (CHOOSE k \in known : TRUE).ex
           noted == [r EXCEPT !.known = IF known = {} THEN @ \cup {[turn |-> line.turn, ex |-> e]} ELSE @]
<1>4. co' = [co EXCEPT ![c] =
         IF e = None
         THEN IF line.ends /\ known # {} THEN Forget(r, x) ELSE r
         ELSE IF line.ends
         THEN [noted EXCEPT !.pc = "record", !.ex = e, !.out = Outcome("turn", line.ok, line.turn)]
         ELSE noted]
  BY DEF PumpLine
<1>5. line \in Output
  BY <1>1, <1>3, HeadTail
<1>6. e # None => TheActive \in Active /\ e = TheActive
  BY TheActiveIs DEF ExecutionForLine
<1>7. PICK q \in Seq(Output) : q = Tail(co[c].buf)
  BY <1>1, <1>3, HeadTail
<1>8. PICK K \in SUBSET co[c].known : K = {k \in co[c].known : k.ex # x}
  OBVIOUS
<1>9. PICK N : N = IF known = {} THEN co[c].known \cup {[turn |-> line.turn, ex |-> e]} ELSE co[c].known
  OBVIOUS
<1>10. r = [co[c] EXCEPT !.buf = q] /\ r.known = co[c].known
  BY <1>2, <1>7 DEF CoRecords
<1> HIDE DEF line, known, e, x
<1>11. noted = [[co[c] EXCEPT !.buf = q] EXCEPT !.known = N]
  BY <1>9, <1>10
<1>12. Forget(r, x) = [[co[c] EXCEPT !.buf = q] EXCEPT !.known = K]
  BY <1>8, <1>10 DEF Forget
<1> HIDE DEF r, noted
<1>13. Others(c) /\ co'[c] =
         IF e = None
         THEN IF line.ends /\ known # {} THEN [[co[c] EXCEPT !.buf = q] EXCEPT !.known = K]
                                         ELSE [co[c] EXCEPT !.buf = q]
         ELSE IF line.ends
         THEN [[[co[c] EXCEPT !.buf = q] EXCEPT !.known = N]
                 EXCEPT !.pc = "record", !.ex = e, !.out = Outcome("turn", line.ok, line.turn)]
         ELSE [[co[c] EXCEPT !.buf = q] EXCEPT !.known = N]
  <2>1. PICK z : z = IF e = None
         THEN IF line.ends /\ known # {} THEN [[co[c] EXCEPT !.buf = q] EXCEPT !.known = K]
                                         ELSE [co[c] EXCEPT !.buf = q]
         ELSE IF line.ends
         THEN [[[co[c] EXCEPT !.buf = q] EXCEPT !.known = N]
                 EXCEPT !.pc = "record", !.ex = e, !.out = Outcome("turn", line.ok, line.turn)]
         ELSE [[co[c] EXCEPT !.buf = q] EXCEPT !.known = N]
    OBVIOUS
  <2>2. co' = [co EXCEPT ![c] = z]
    BY <1>4, <1>10, <1>11, <1>12, <2>1
  <2> QED BY <2>1, <2>2, Replaced
<1>14. line = Head(co[c].buf)
  BY DEF line
<1>15. line.turn \in Nat /\ line.ok \in BOOLEAN /\ line.ends \in BOOLEAN
  BY <1>5 DEF Output
<1>16. Outcome("turn", line.ok, line.turn) \in Ends \cup {None} /\ "record" \in Places
  BY <1>15, OutcomeIs DEF Places
<1>17. CASE e = None
  <2>1. None \in Executions \cup {None} /\ None \in Ends \cup {None}
        /\ K \in SUBSET [turn : Nat, ex : Executions] /\ co[c].known \in SUBSET co[c].known
    BY <1>3
  <2>2. /\ Lined([co[c] EXCEPT !.buf = q], co[c], co[c].pc, co[c].ex, co[c].out, co[c].known)
        /\ Lined([[co[c] EXCEPT !.buf = q] EXCEPT !.known = K], co[c], co[c].pc, co[c].ex, co[c].out, K)
    BY <1>2, <1>7, <1>16, <2>1, RecordLined
  <2> QED BY <1>1, <1>3, <1>5, <1>13, <1>14, <1>17, <2>1, <2>2
<1>18. CASE e # None
  <2>1. e \in Executions /\ e = TheActive /\ TheActive \in Active
    BY <1>6, <1>18 DEF Active
  <2>2. N \in SUBSET (co[c].known \cup {[turn |-> line.turn, ex |-> TheActive]})
    BY <1>9, <2>1
  <2>3. N \in SUBSET [turn : Nat, ex : Executions]
    BY <1>3, <1>15, <2>1, <2>2
  <2>4. /\ Lined([[co[c] EXCEPT !.buf = q] EXCEPT !.known = N], co[c], co[c].pc, co[c].ex, co[c].out, N)
        /\ Lined([[[co[c] EXCEPT !.buf = q] EXCEPT !.known = N]
                    EXCEPT !.pc = "record", !.ex = e, !.out = Outcome("turn", line.ok, line.turn)],
                 co[c], "record", e, Outcome("turn", line.ok, line.turn), N)
    <3>1. e \in Executions \cup {None}
      BY <2>1
    <3> QED BY <1>2, <1>7, <1>16, <2>3, <3>1, RecordLined
  <2> QED BY <1>1, <1>3, <1>5, <1>13, <1>14, <1>18, <2>1, <2>2, <2>4, SMTT(30)
<1> QED BY <1>17, <1>18

-----------------------------------------------------------------------------
(* What made sense goes on to. *)

\* Turns, sandboxes and processes stay.
Grown == /\ Len(turns) \in Nat /\ Len(turns') \in Nat /\ Len(turns) <= Len(turns')
         /\ \A b \in Boxes : box[b].state # "none" => box'[b].state # "none"
         /\ \A p \in Procs : proc[p] = "up" => proc'[p] = "up"

FitsNext(d) == Fits(co[d])'

LEMMA TurnKept == ASSUME Grown, NEW t, TurnOK(t) PROVE TurnOK(t)'
BY DEF Grown, TurnOK

LEMMA EndKept == ASSUME Grown, NEW o \in Ends, EndOK(o) PROVE EndOK(o)'
<1>1. o.turn \in Nat
  BY DEF Ends
<1> QED BY <1>1 DEF Grown, EndOK, TurnOK

LEMMA GoodKept ==
    ASSUME Grown, NEW k, NEW q \in Procs, NEW p, NEW e, NEW b \in Boxes \cup {None},
           NEW o \in Ends \cup {None}, Good(k, q, p, e, b, o)
    PROVE  Good(k, q, p, e, b, o)'
<1>1. o # None => EndOK(o)'
  BY EndKept DEF Good
<1>2. b # None => box'[b].state # "none"
  BY DEF Good, Grown
<1>3. proc'[q] = "up"
  BY DEF Good, Grown
<1> QED BY <1>1, <1>2, <1>3 DEF Good, PlaceOK, WantsBox, WantsEx

LEMMA RecordFit ==
    ASSUME NEW d \in Slots, NEW r, r = co'[d], r \in CoRecords,
           Good(r.kind, r.proc, r.pc, r.ex, r.box, r.out)',
           \A i \in DOMAIN r.buf : TurnOK(r.buf[i].turn)'
    PROVE  FitsNext(d)
BY DEF FitsNext, Fits

LEMMA BufKept ==
    ASSUME CoOK, Grown, NEW d \in Slots, co[d] # Free, NEW r, r.buf = co[d].buf
    PROVE  \A i \in DOMAIN r.buf : TurnOK(r.buf[i].turn)'
BY AtIs, TurnKept DEF Fits

LEMMA GoesFitAfter ==
    ASSUME CoOK, Grown, NEW d \in Slots, co[d] # Free, NEW p, NEW e, NEW b, NEW o,
           Goes(d, p, e, b, o), NEW k, k = co[d].kind, NEW q, q = co[d].proc, Good(k, q, p, e, b, o)'
    PROVE  FitsNext(d)
<1>1. PICK r : r = co'[d]
  OBVIOUS
<1>2. /\ r \in CoRecords /\ r.kind = k /\ r.proc = q /\ r.pc = p /\ r.ex = e /\ r.box = b
      /\ r.out = o /\ r.buf = co[d].buf
  BY <1>1 DEF Goes, Altered
<1>3. \A i \in DOMAIN r.buf : TurnOK(r.buf[i].turn)'
  BY <1>2, BufKept
<1>4. Good(r.kind, r.proc, r.pc, r.ex, r.box, r.out)'
  BY <1>2
<1> QED BY <1>1, <1>2, <1>3, <1>4, RecordFit

LEMMA GoesFit ==
    ASSUME CoOK, Grown, NEW d \in Slots, co[d] # Free, NEW p, NEW e, NEW b \in Boxes \cup {None},
           NEW o \in Ends \cup {None}, Goes(d, p, e, b, o), Good(co[d].kind, co[d].proc, p, e, b, o)
    PROVE  FitsNext(d)
<1>1. PICK k : k = co[d].kind
  OBVIOUS
<1>2. PICK q \in Procs : q = co[d].proc
  BY AtIs DEF CoRecords
<1>3. Good(k, q, p, e, b, o)'
  BY <1>1, <1>2, GoodKept
<1> QED BY <1>1, <1>2, <1>3, GoesFitAfter

LEMMA MovesFit ==
    ASSUME CoOK, Grown, NEW d \in Slots, co[d] # Free, NEW p, Moves(d, p),
           Good(co[d].kind, co[d].proc, p, co[d].ex, co[d].box, co[d].out)
    PROVE  FitsNext(d)
<1>1. co[d].box \in Boxes \cup {None} /\ co[d].out \in Ends \cup {None}
  BY AtIs DEF CoRecords
<1> QED BY <1>1, GoesFit DEF Moves

LEMMA StillFit ==
    ASSUME CoOK, Grown, NEW d \in Slots, co[d] # Free, Still(d)
    PROVE  FitsNext(d)
<1>1. PICK r \in CoRecords : r = co[d] /\ r = co'[d]
  BY AtIs DEF Still
<1>2. Good(r.kind, r.proc, r.pc, r.ex, r.box, r.out)
  BY <1>1, AtIs DEF Fits
<1>3. r.proc \in Procs /\ r.box \in Boxes \cup {None} /\ r.out \in Ends \cup {None}
  BY DEF CoRecords
<1>4. Good(r.kind, r.proc, r.pc, r.ex, r.box, r.out)'
  BY <1>2, <1>3, GoodKept
<1> QED BY <1>1, <1>4, BufKept, RecordFit

LEMMA BornFit ==
    ASSUME Grown, NEW n \in Slots, NEW k, NEW q \in Procs, NEW p, NEW e, NEW b \in Boxes \cup {None},
           Born(n, k, q, p, e, b), Good(k, q, p, e, b, None)
    PROVE  FitsNext(n)
<1>1. PICK r : r = co'[n]
  OBVIOUS
<1>2. /\ r \in CoRecords /\ r.kind = k /\ r.proc = q /\ r.pc = p /\ r.ex = e /\ r.box = b
      /\ r.out = None /\ r.buf = <<>>
  BY <1>1 DEF Born, New
<1>3. Good(r.kind, r.proc, r.pc, r.ex, r.box, r.out)'
  BY <1>2, GoodKept
<1> QED BY <1>1, <1>2, <1>3, RecordFit

LEMMA ShutFit ==
    ASSUME CoOK, Grown, NEW d \in Slots, Shut(d)
    PROVE  FitsNext(d)
<1>1. PICK r \in CoRecords : r = co'[d]
  BY DEF Shut, Shuts
<1>2. co[d] \in CoRecords /\ Fits(co[d]) /\ co[d] # Free
  BY AtIs DEF Shut
<1>3. /\ r.kind = co[d].kind /\ r.proc = co[d].proc /\ r.pc = co[d].pc /\ r.ex = co[d].ex
      /\ r.box = co[d].box /\ r.out = co[d].out /\ r.buf = co[d].buf
  BY <1>1, <1>2 DEF Shut, Shuts
<1>4. Good(r.kind, r.proc, r.pc, r.ex, r.box, r.out)
  BY <1>2, <1>3 DEF Fits
<1>5. r.proc \in Procs /\ r.box \in Boxes \cup {None} /\ r.out \in Ends \cup {None}
  BY DEF CoRecords
<1>6. Good(r.kind, r.proc, r.pc, r.ex, r.box, r.out)'
  BY <1>4, <1>5, GoodKept
<1> QED BY <1>1, <1>2, <1>3, <1>6, BufKept, RecordFit

LEMMA HearsFit ==
    ASSUME CoOK, Grown, NEW d \in Slots, NEW L \in Seq(Output), Hears(d, L),
           \A i \in DOMAIN L : TurnOK(L[i].turn)
    PROVE  FitsNext(d)
<1>1. PICK r \in CoRecords : r = co'[d]
  BY DEF Hears
<1>2. co[d] \in CoRecords /\ Fits(co[d]) /\ co[d] # Free
  BY AtIs DEF Hears
<1>3. /\ r.kind = co[d].kind /\ r.proc = co[d].proc /\ r.pc = co[d].pc /\ r.ex = co[d].ex
      /\ r.box = co[d].box /\ r.out = co[d].out /\ r.buf = co[d].buf \o L
  BY <1>1, <1>2 DEF Hears, CoRecords, Fits, Good, PlaceOK
<1>4. Good(r.kind, r.proc, r.pc, r.ex, r.box, r.out)
  BY <1>2, <1>3 DEF Fits
<1>5. r.proc \in Procs /\ r.box \in Boxes \cup {None} /\ r.out \in Ends \cup {None}
  BY DEF CoRecords
<1>6. Good(r.kind, r.proc, r.pc, r.ex, r.box, r.out)'
  BY <1>4, <1>5, GoodKept
<1>7. \A i \in DOMAIN r.buf : TurnOK(r.buf[i].turn)
  <2>1. PICK B \in Seq(Output) : B = co[d].buf /\ \A i \in DOMAIN B : TurnOK(B[i].turn)
    BY <1>2 DEF CoRecords, Fits
  <2>2. \A i \in DOMAIN (B \o L) : (i \in DOMAIN B /\ (B \o L)[i] = B[i])
                                    \/ (i - Len(B) \in DOMAIN L /\ (B \o L)[i] = L[i - Len(B)])
    BY <2>1
  <2> QED BY <1>3, <2>1, <2>2
<1>8. \A i \in DOMAIN r.buf : TurnOK(r.buf[i].turn)'
  BY <1>7, TurnKept
<1> QED BY <1>1, <1>6, <1>8, RecordFit

LEMMA AllFit ==
    ASSUME Shaped, \A d \in Slots : co'[d] = Free \/ FitsNext(d)
    PROVE  CoOK'
<1>1. \A d \in Slots : FitsNext(d) => co'[d] \in CoRecords
  BY DEF FitsNext, Fits
<1>2. \A d \in Slots : co'[d] \in CoRecords \cup {Free}
  BY <1>1
<1>3. co' \in [Slots -> CoRecords \cup {Free}]
  BY <1>2 DEF Shaped
<1>4. \A d \in Slots : co'[d] # Free => Fits(co[d])'
  BY DEF FitsNext
<1> QED BY <1>3, <1>4 DEF CoOK

LEMMA OthersFit ==
    ASSUME CoOK, Grown, NEW c \in Slots, Others(c), Gone(c) \/ FitsNext(c)
    PROVE  CoOK'
<1>1. ASSUME NEW d \in Slots PROVE co'[d] = Free \/ FitsNext(d)
  <2>1. CASE d = c
    BY <2>1 DEF Gone
  <2>2. CASE d # c
    BY <2>2, StillFit DEF Others, Still
  <2> QED BY <2>1, <2>2
<1> QED BY <1>1, AllFit DEF Others

-----------------------------------------------------------------------------
(* Types are kept. *)

LEMMA SameGrown ==
    ASSUME Typed, UNCHANGED <<box, turns, proc>>
    PROVE  Grown
<1>1. Len(turns) \in Nat
  BY DEF Typed, TurnsOK
<1> QED BY <1>1 DEF Grown

LEMMA OrderKept == ASSUME Grown, NEW r, InOrder(r) PROVE InOrder(r)'
BY TurnKept DEF InOrder

LEMMA BoxKept ==
    ASSUME BoxOK, Grown, UNCHANGED <<box, assigned>>, pipe' \in [Procs -> [Boxes -> Nat]]
    PROVE  BoxOK'
<1>1. \A b \in Boxes : InOrder(box[b])'
  <2> TAKE b \in Boxes
  <2>1. PICK r : r = box[b] /\ r = box'[b] /\ InOrder(r)
    BY DEF BoxOK
  <2>2. InOrder(r)'
    BY <2>1, OrderKept
  <2> QED BY <2>1, <2>2 DEF InOrder
<1> QED BY <1>1 DEF BoxOK

LEMMA RowsKept ==
    ASSUME RowsOK, Grown, UNCHANGED <<status, result>>, told' \in [Executions -> SUBSET Terminal]
    PROVE  RowsOK'
<1>1. \A e \in Executions : result'[e] # None => EndOK(result[e])'
  <2> TAKE e \in Executions
  <2>1. PICK o : o = result[e] /\ o = result'[e]
    OBVIOUS
  <2>2. o # None => o \in Ends /\ EndOK(o)
    BY <2>1 DEF RowsOK
  <2> QED BY <2>1, <2>2, EndKept
<1> QED BY <1>1 DEF RowsOK, Active

\* A step that changes coroutines and pipes only.
LEMMA PipesTyped ==
    ASSUME Typed, UNCHANGED <<world, status, result, told, assigned, box, turns, proc>>,
           pipe' \in [Procs -> [Boxes -> Nat]], CoOK'
    PROVE  Typed'
<1>1. Grown
  BY SameGrown
<1>2. BoxOK'
  BY <1>1, BoxKept DEF Typed
<1>3. RowsOK'
  BY <1>1, RowsKept DEF Typed, RowsOK
<1>4. TurnsOK' /\ WorldOK'
  BY DEF Typed, TurnsOK, WorldOK
<1> QED BY <1>2, <1>3, <1>4 DEF Typed

LEMMA CoTyped ==
    ASSUME Typed, UNCHANGED <<world, status, result, told, assigned, box, turns, proc, pipe>>, CoOK'
    PROVE  Typed'
BY PipesTyped DEF Typed, BoxOK

LEMMA ExecuteTyped ==
    ASSUME Typed, NEW r \in Requests, NEW p \in Procs, Execute(r, p)
    PROVE  Typed'
<1>1. UNCHANGED <<world, status, result, told, assigned, box, turns, proc, pipe>> /\ proc[p] = "up"
  BY DEF Execute, rows
<1>2. Grown
  BY <1>1, SameGrown
<1>3. PICK n \in Slots : /\ co[n] = Free /\ Others(n)
                         /\ Born(n, "request", p, "create", world.key[r], assigned)
                         /\ world.key[r] \in Executions
  BY ExecuteIs DEF Typed
<1>4. Good("request", p, "create", world.key[r], assigned, None) /\ assigned \in Boxes \cup {None}
  BY <1>1, <1>3, SessionAssumption DEF Good, PlaceOK, WantsBox, WantsEx, Typed, BoxOK
<1>5. FitsNext(n)
  BY <1>2, <1>3, <1>4, BornFit
<1> QED BY <1>1, <1>2, <1>3, <1>5, OthersFit, CoTyped DEF Typed

LEMMA AppendMessagesTyped ==
    ASSUME Typed, NEW p \in Procs, AppendMessages(p)
    PROVE  Typed'
<1>1. UNCHANGED <<world, status, result, told, assigned, box, turns, proc, pipe>> /\ proc[p] = "up"
  BY DEF AppendMessages, rows
<1>2. Grown
  BY <1>1, SameGrown
<1>3. PICK n \in Slots : /\ co[n] = Free /\ Others(n)
                         /\ Born(n, "steer", p, "session", TheActive, None)
                         /\ TheActive \in Active
  BY AppendMessagesIs DEF Typed
<1>4. Good("steer", p, "session", TheActive, None, None)
  BY <1>1, <1>3, SessionAssumption DEF Good, PlaceOK, WantsBox, WantsEx, Active
<1>5. FitsNext(n)
  BY <1>2, <1>3, <1>4, BornFit, None \in Boxes \cup {None}
<1> QED BY <1>1, <1>2, <1>3, <1>5, OthersFit, CoTyped DEF Typed

LEMMA StreamEventsTyped ==
    ASSUME Typed, NEW p \in Procs, StreamEvents(p)
    PROVE  Typed'
<1>1. /\ UNCHANGED <<world, status, result, told, assigned, box, turns, proc, pipe>>
      /\ proc[p] = "up" /\ Runs(assigned)
  BY DEF StreamEvents, rows
<1>2. Grown
  BY <1>1, SameGrown
<1>3. PICK n \in Slots : co[n] = Free /\ Others(n) /\ Born(n, "stream", p, "look", None, assigned)
  BY StreamEventsIs DEF Typed
<1>4. Good("stream", p, "look", None, assigned, None) /\ assigned \in Boxes \cup {None}
  BY <1>1 DEF Good, PlaceOK, WantsBox, WantsEx, Typed, BoxOK, Runs
<1>5. FitsNext(n)
  BY <1>2, <1>3, <1>4, BornFit
<1> QED BY <1>1, <1>2, <1>3, <1>5, OthersFit, CoTyped DEF Typed

LEMMA DisconnectTyped ==
    ASSUME Typed, NEW c \in Slots, Disconnect(c)
    PROVE  Typed'
<1>1. UNCHANGED <<world, status, result, told, assigned, box, turns, proc, pipe>>
  BY DEF Disconnect, rows
<1>2. Grown
  BY <1>1, SameGrown
<1> QED BY <1>1, <1>2, DisconnectIs, OthersFit, CoTyped DEF Typed

LEMMA GoodIs ==
    ASSUME CoOK, NEW c \in Slots, co[c] # Free
    PROVE  Good(co[c].kind, co[c].proc, co[c].pc, co[c].ex, co[c].box, co[c].out)
BY AtIs DEF Fits

\* Whoever looked for a pipe has it.
LEMMA PipesFit ==
    ASSUME CoOK, Grown, NEW c \in Slots, co[c] # Free, co[c].pc \in {"look", "open"}, Pipes(c)
    PROVE  Gone(c) \/ FitsNext(c)
<1>1. CASE co[c].kind # "stream"
  <2>1. Good(co[c].kind, co[c].proc, "piped", co[c].ex, co[c].box, co[c].out)
    BY <1>1, GoodIs, LookerIs DEF Good, PlaceOK, WantsBox, WantsEx
  <2> QED BY <1>1, <2>1, MovesFit DEF Pipes
<1> QED BY <1>1 DEF Pipes

LEMMA LookForPipeTyped ==
    ASSUME Typed, NEW c \in Slots, LookForPipe(c)
    PROVE  Typed'
<1>1. UNCHANGED <<world, status, result, told, assigned, box, turns, proc, pipe>>
  BY DEF LookForPipe, rows
<1>2. CoOK /\ BoxOK /\ Grown
  BY <1>1, SameGrown DEF Typed
<1>3. co[c] # Free /\ co[c].pc = "look" /\ Others(c) /\ (Moves(c, "open") \/ Pipes(c))
  BY <1>2, LookForPipeIs
<1>4. Good(co[c].kind, co[c].proc, "open", co[c].ex, co[c].box, co[c].out)
  BY <1>2, <1>3, GoodIs, LookerIs DEF Good, PlaceOK, WantsBox, WantsEx
<1>5. Gone(c) \/ FitsNext(c)
  BY <1>2, <1>3, <1>4, MovesFit, PipesFit
<1> QED BY <1>1, <1>2, <1>3, <1>5, OthersFit, CoTyped

LEMMA SteeringSessionTyped ==
    ASSUME Typed, NEW c \in Slots, SteeringSession(c)
    PROVE  Typed'
<1>1. UNCHANGED <<world, status, result, told, assigned, box, turns, proc, pipe>>
  BY DEF SteeringSession, rows
<1>2. CoOK /\ BoxOK /\ Grown
  BY <1>1, SameGrown DEF Typed
<1>3. /\ co[c] # Free /\ co[c].kind = "steer" /\ co[c].pc = "session" /\ Others(c)
      /\ (assigned # None /\ Goes(c, "look", co[c].ex, assigned, co[c].out)) \/ Gone(c)
  BY <1>2, SteeringSessionIs
<1>4. CASE assigned # None /\ Goes(c, "look", co[c].ex, assigned, co[c].out)
  <2>1. Good(co[c].kind, co[c].proc, "look", co[c].ex, assigned, co[c].out)
    BY <1>2, <1>3, <1>4, GoodIs DEF Good, PlaceOK, WantsBox, WantsEx, BoxOK
  <2>2. assigned \in Boxes \cup {None} /\ co[c].out \in Ends \cup {None}
    BY <1>2, <1>3, AtIs DEF BoxOK, CoRecords
  <2> QED BY <1>1, <1>2, <1>3, <1>4, <2>1, <2>2, GoesFit, OthersFit, CoTyped
<1>5. CASE Gone(c)
  BY <1>1, <1>2, <1>3, <1>5, OthersFit, CoTyped
<1> QED BY <1>3, <1>4, <1>5

LEMMA MaxDurationTyped ==
    ASSUME Typed, NEW c \in Slots, MaxDuration(c)
    PROVE  Typed'
<1>1. UNCHANGED <<world, status, result, told, assigned, box, turns, proc, pipe>>
  BY DEF MaxDuration, rows
<1>2. CoOK /\ Grown
  BY <1>1, SameGrown DEF Typed
<1>3. /\ co[c] # Free /\ co[c].kind = "timer" /\ co[c].pc = "sleep" /\ Others(c)
      /\ Goes(c, "record", co[c].ex, co[c].box, Failure("timeout")) \/ Gone(c)
  BY <1>2, MaxDurationIs
<1>4. Good(co[c].kind, co[c].proc, "record", co[c].ex, co[c].box, Failure("timeout"))
  BY <1>2, <1>3, GoodIs, FailureIs, SessionAssumption DEF Good, PlaceOK, WantsBox, WantsEx
<1>5. co[c].box \in Boxes \cup {None} /\ Failure("timeout") \in Ends \cup {None}
  BY <1>2, <1>3, AtIs, FailureIs DEF CoRecords
<1>6. Gone(c) \/ FitsNext(c)
  BY <1>2, <1>3, <1>4, <1>5, GoesFit
<1> QED BY <1>1, <1>2, <1>3, <1>6, OthersFit, CoTyped

LEMMA IdleCheckTyped ==
    ASSUME Typed, NEW c \in Slots, IdleCheck(c)
    PROVE  Typed'
<1>1. UNCHANGED <<world, status, result, told, assigned, box, turns, proc, pipe>>
  BY DEF IdleCheck, rows
<1>2. CoOK /\ Grown
  BY <1>1, SameGrown DEF Typed
<1>3. /\ co[c] # Free /\ co[c].kind = "idle" /\ co[c].pc = "sleep" /\ Others(c)
      /\ Moves(c, "pause") \/ Gone(c)
  BY <1>2, IdleCheckIs
<1>4. Good(co[c].kind, co[c].proc, "pause", co[c].ex, co[c].box, co[c].out)
  BY <1>2, <1>3, GoodIs DEF Good, PlaceOK, WantsBox, WantsEx
<1> QED BY <1>1, <1>2, <1>3, <1>4, MovesFit, OthersFit, CoTyped

LEMMA PumpLineTyped ==
    ASSUME Typed, NEW c \in Slots, PumpLine(c)
    PROVE  Typed'
<1>1. UNCHANGED <<world, status, result, told, assigned, box, turns, proc, pipe>>
  BY DEF PumpLine, rows
<1>2. CoOK /\ Grown
  BY <1>1, SameGrown DEF Typed
<1>3. /\ co[c] # Free /\ co[c].kind = "pump" /\ co[c].pc = "read" /\ Others(c)
      /\ co[c].buf # <<>> /\ co[c].buf \in Seq(Output)
  BY <1>2, PumpLineIs
<1>4. PICK line \in Output :
        /\ line = Head(co[c].buf)
        /\ \E p, e, o, K : /\ Lined(co'[c], co[c], p, e, o, K)
                           /\ \/ p = co[c].pc /\ e = co[c].ex /\ o = co[c].out
                              \/ p = "record" /\ e \in Active /\ o = Outcome("turn", line.ok, line.turn)
  BY <1>2, PumpLineIs
<1>10. PICK p, e, o, K : /\ Lined(co'[c], co[c], p, e, o, K)
                         /\ \/ p = co[c].pc /\ e = co[c].ex /\ o = co[c].out
                            \/ p = "record" /\ e \in Active /\ o = Outcome("turn", line.ok, line.turn)
  BY <1>4
<1>5. TurnOK(line.turn) /\ \A i \in DOMAIN Tail(co[c].buf) : TurnOK(Tail(co[c].buf)[i].turn)
  <2>1. \A i \in DOMAIN co[c].buf : TurnOK(co[c].buf[i].turn)
    BY <1>2, <1>3, AtIs DEF Fits
  <2> QED BY <1>3, <1>4, <2>1, HeadTail
<1>6. line.turn \in Nat /\ line.ok \in BOOLEAN
  BY <1>4 DEF Output
<1>7. PICK a : a = Outcome("turn", line.ok, line.turn) /\ a \in Ends /\ EndOK(a) /\ a.by # "request"
  BY <1>5, <1>6, OutcomeIs DEF EndOK, TurnOK
<1>8. Good(co[c].kind, co[c].proc, p, e, co[c].box, o) /\ o \in Ends \cup {None}
  <2>1. Good(co[c].kind, co[c].proc, co[c].pc, co[c].ex, co[c].box, co[c].out)
        /\ co[c].out \in Ends \cup {None}
    BY <1>2, <1>3, GoodIs, AtIs DEF CoRecords
  <2>2. CASE p = "record" /\ e \in Active /\ o = Outcome("turn", line.ok, line.turn)
    BY <1>3, <1>7, <2>1, <2>2, SessionAssumption DEF Good, PlaceOK, WantsBox, WantsEx, Active
  <2> QED BY <1>10, <2>1, <2>2
<1>9. FitsNext(c)
  <2>1. PICK r : r = co'[c]
    OBVIOUS
  <2>2. /\ r \in CoRecords /\ r.kind = co[c].kind /\ r.proc = co[c].proc /\ r.pc = p /\ r.ex = e
        /\ r.box = co[c].box /\ r.out = o /\ r.buf = Tail(co[c].buf)
    BY <1>10, <2>1 DEF Lined
  <2>3. Good(r.kind, r.proc, r.pc, r.ex, r.box, r.out)
        /\ \A i \in DOMAIN r.buf : TurnOK(r.buf[i].turn)
    BY <1>5, <1>8, <2>2
  <2>4. r.proc \in Procs /\ r.box \in Boxes \cup {None} /\ r.out \in Ends \cup {None}
    BY <2>2 DEF CoRecords
  <2>5. Good(r.kind, r.proc, r.pc, r.ex, r.box, r.out)'
    BY <1>2, <2>3, <2>4, GoodKept
  <2>6. \A i \in DOMAIN r.buf : TurnOK(r.buf[i].turn)'
    BY <1>2, <2>3, TurnKept
  <2> QED BY <2>1, <2>2, <2>5, <2>6, RecordFit
<1> QED BY <1>1, <1>2, <1>3, <1>9, OthersFit, CoTyped

LEMMA PumpEofTyped ==
    ASSUME Typed, NEW c \in Slots, PumpEof(c)
    PROVE  Typed'
<1>1. UNCHANGED <<world, status, result, told, assigned, box, turns, proc, pipe>>
  BY DEF PumpEof, rows
<1>2. CoOK /\ Grown
  BY <1>1, SameGrown DEF Typed
<1>3. /\ co[c] # Free /\ co[c].kind = "pump" /\ co[c].pc = "read" /\ Others(c)
      /\ \/ TheActive \in Active /\ Goes(c, "record", TheActive, co[c].box, Failure("eof"))
         \/ Moves(c, "eof")
  BY <1>2, PumpEofIs
<1>4. CASE TheActive \in Active /\ Goes(c, "record", TheActive, co[c].box, Failure("eof"))
  <2>1. Good(co[c].kind, co[c].proc, "record", TheActive, co[c].box, Failure("eof"))
    BY <1>2, <1>3, <1>4, GoodIs, FailureIs, SessionAssumption
       DEF Good, PlaceOK, WantsBox, WantsEx, Active
  <2>2. co[c].box \in Boxes \cup {None} /\ Failure("eof") \in Ends \cup {None}
    BY <1>2, <1>3, AtIs, FailureIs DEF CoRecords
  <2> QED BY <1>1, <1>2, <1>3, <1>4, <2>1, <2>2, GoesFit, OthersFit, CoTyped
<1>5. CASE Moves(c, "eof")
  <2>1. Good(co[c].kind, co[c].proc, "eof", co[c].ex, co[c].box, co[c].out)
    BY <1>2, <1>3, GoodIs DEF Good, PlaceOK, WantsBox, WantsEx
  <2> QED BY <1>1, <1>2, <1>3, <1>5, <2>1, MovesFit, OthersFit, CoTyped
<1> QED BY <1>3, <1>4, <1>5

LEMMA ListActiveTyped ==
    ASSUME Typed, NEW c \in Slots, ListActive(c)
    PROVE  Typed'
<1>1. UNCHANGED <<world, status, result, told, assigned, box, turns, proc, pipe>>
  BY DEF ListActive, rows
<1>2. CoOK /\ Grown
  BY <1>1, SameGrown DEF Typed
<1>3. /\ co[c] # Free /\ co[c].kind = "adopt" /\ co[c].pc = "list" /\ Others(c)
      /\ \/ Gone(c)
         \/ /\ TheActive \in Active
            /\ \/ Goes(c, "record", TheActive, co[c].box, Failure("orphan"))
               \/ Goes(c, "adopt", TheActive, co[c].box, co[c].out)
  BY <1>2, ListActiveIs
<1>4. /\ co[c].box \in Boxes \cup {None} /\ Failure("orphan") \in Ends \cup {None}
      /\ co[c].out \in Ends \cup {None}
  BY <1>2, <1>3, AtIs, FailureIs DEF CoRecords
<1>5. TheActive \in Active =>
         /\ Good(co[c].kind, co[c].proc, "record", TheActive, co[c].box, Failure("orphan"))
         /\ Good(co[c].kind, co[c].proc, "adopt", TheActive, co[c].box, co[c].out)
  BY <1>2, <1>3, GoodIs, FailureIs, SessionAssumption DEF Good, PlaceOK, WantsBox, WantsEx, Active
<1>6. Gone(c) \/ FitsNext(c)
  BY <1>2, <1>3, <1>4, <1>5, GoesFit
<1> QED BY <1>1, <1>2, <1>3, <1>6, OthersFit, CoTyped

LEMMA AdoptSessionTyped ==
    ASSUME Typed, NEW c \in Slots, AdoptSession(c)
    PROVE  Typed'
<1>1. UNCHANGED <<world, status, result, told, assigned, box, turns, proc, pipe>>
  BY DEF AdoptSession, rows
<1>2. CoOK /\ BoxOK /\ Grown
  BY <1>1, SameGrown DEF Typed
<1>3. /\ co[c] # Free /\ co[c].kind = "adopt" /\ co[c].pc = "adopt" /\ Others(c)
      /\ IF Runs(assigned) THEN Goes(c, "logs", co[c].ex, assigned, None)
                           ELSE Goes(c, "record", co[c].ex, assigned, Failure("orphan"))
  BY <1>2, AdoptSessionIs
<1>4. /\ assigned \in Boxes \cup {None} /\ Failure("orphan") \in Ends \cup {None}
      /\ None \in Ends \cup {None}
  BY <1>2, FailureIs DEF BoxOK
<1>5. /\ Runs(assigned) => Good(co[c].kind, co[c].proc, "logs", co[c].ex, assigned, None)
      /\ Good(co[c].kind, co[c].proc, "record", co[c].ex, assigned, Failure("orphan"))
  BY <1>2, <1>3, GoodIs, FailureIs, SessionAssumption
     DEF Good, PlaceOK, WantsBox, WantsEx, BoxOK, Runs
<1>6. FitsNext(c)
  BY <1>2, <1>3, <1>4, <1>5, GoesFit
<1> QED BY <1>1, <1>2, <1>3, <1>6, OthersFit, CoTyped

LEMMA ReadLogsTyped ==
    ASSUME Typed, NEW c \in Slots, ReadLogs(c)
    PROVE  Typed'
<1>1. UNCHANGED <<world, status, result, told, assigned, box, turns, proc, pipe>>
  BY DEF ReadLogs, rows
<1>2. CoOK /\ BoxOK /\ Grown
  BY <1>1, SameGrown DEF Typed
<1>3. /\ co[c] # Free /\ co[c].kind = "adopt" /\ co[c].pc = "logs" /\ Others(c)
      /\ co[c].box \in Boxes /\ co[c].ex \in Executions
  BY <1>2, ReadLogsIs
<1>4. Good(co[c].kind, co[c].proc, co[c].pc, co[c].ex, co[c].box, co[c].out)
  BY <1>2, <1>3, GoodIs
<1>5. CASE Moves(c, "look")
  <2>1. Good(co[c].kind, co[c].proc, "look", co[c].ex, co[c].box, co[c].out)
    BY <1>3, <1>4 DEF Good, PlaceOK, WantsBox, WantsEx
  <2> QED BY <1>1, <1>2, <1>3, <1>5, <2>1, MovesFit, OthersFit, CoTyped
<1>6. CASE \E i \in DOMAIN box[co[c].box].log :
             LET line == box[co[c].box].log[i] IN
             Goes(c, "record", co[c].ex, co[c].box, Outcome("turn", line.ok, line.turn))
  <2>1. PICK i \in DOMAIN box[co[c].box].log :
          LET line == box[co[c].box].log[i] IN
          Goes(c, "record", co[c].ex, co[c].box, Outcome("turn", line.ok, line.turn))
    BY <1>6
  <2>2. box[co[c].box].log \in Seq([turn : Nat, ok : BOOLEAN, since : SUBSET Executions])
    BY <1>2, <1>3 DEF BoxOK, BoxRecords
  <2>3. PICK line \in [turn : Nat, ok : BOOLEAN, since : SUBSET Executions] :
          line = box[co[c].box].log[i]
    BY <2>2, Element
  <2>4. TurnOK(line.turn)
    BY <1>2, <1>3, <2>3 DEF BoxOK, InOrder
  <2>5. PICK o : o = Outcome("turn", line.ok, line.turn)
    OBVIOUS
  <2>6. o \in Ends /\ EndOK(o) /\ o.by # "request"
    <3>1. line.turn \in Nat /\ line.ok \in BOOLEAN
      BY <2>3
    <3> QED BY <2>4, <2>5, <3>1, OutcomeIs DEF EndOK, TurnOK
  <2>7. Good(co[c].kind, co[c].proc, "record", co[c].ex, co[c].box, o)
    BY <1>3, <1>4, <2>6, SessionAssumption DEF Good, PlaceOK, WantsBox, WantsEx
  <2>8. Goes(c, "record", co[c].ex, co[c].box, o)
    BY <2>1, <2>3, <2>5
  <2>9. co[c].box \in Boxes \cup {None} /\ o \in Ends \cup {None}
    BY <1>3, <2>6
  <2> QED BY <1>1, <1>2, <1>3, <2>7, <2>8, <2>9, GoesFit, OthersFit, CoTyped
<1> QED BY <1>2, <1>5, <1>6, ReadLogsIs

\* The timer of an execution.
LEMMA TimerFit ==
    ASSUME CoOK, Grown, NEW c \in Slots, co[c] # Free, co[c].pc = "piped",
           Born(c, "timer", co[c].proc, "sleep", co[c].ex, None)
    PROVE  FitsNext(c)
<1>1. co[c].proc \in Procs /\ co[c].ex \in Executions /\ proc[co[c].proc] = "up"
  BY PipedIs, GoodIs DEF Good
<1>2. Good("timer", co[c].proc, "sleep", co[c].ex, None, None)
  BY <1>1, SessionAssumption DEF Good, PlaceOK, WantsBox, WantsEx
<1> QED BY <1>1, <1>2, BornFit, None \in Boxes \cup {None}

LEMMA RearmTimerTyped ==
    ASSUME Typed, NEW c \in Slots, RearmTimer(c)
    PROVE  Typed'
<1>1. UNCHANGED <<world, status, result, told, assigned, box, turns, proc, pipe>>
  BY DEF RearmTimer, rows
<1>2. CoOK /\ Grown
  BY <1>1, SameGrown DEF Typed
<1> QED BY <1>1, <1>2, RearmTimerIs, TimerFit, OthersFit, CoTyped

\* Pipes are numbers.
LEMMA PipeSet ==
    ASSUME BoxOK, NEW p \in Procs, NEW b \in Boxes, NEW n \in Nat
    PROVE  [pipe EXCEPT ![p][b] = n] \in [Procs -> [Boxes -> Nat]]
BY DEF BoxOK

LEMMA SandboxStatusTyped ==
    ASSUME Typed, NEW c \in Slots, SandboxStatus(c)
    PROVE  Typed'
<1>1. UNCHANGED <<world, status, result, told, assigned, box, turns, proc>>
  BY DEF SandboxStatus, rows
<1>2. CoOK /\ BoxOK /\ Grown
  BY <1>1, SameGrown DEF Typed
<1>3. /\ co[c] # Free /\ co[c].kind = "request" /\ co[c].pc = "status" /\ Others(c)
      /\ \/ Moves(c, "look") /\ Runs(co[c].box)
         \/ Moves(c, "resume") /\ co[c].box # None /\ box[co[c].box].state = "suspended"
         \/ Moves(c, "replace")
  BY <1>2, SandboxStatusIs
<1>4. co[c].proc \in Procs /\ co[c].box \in Boxes \cup {None}
  BY <1>2, <1>3, AtIs DEF CoRecords
<1>5. pipe' \in [Procs -> [Boxes -> Nat]]
  <2>1. pipe \in [Procs -> [Boxes -> Nat]]
    BY <1>2 DEF BoxOK
  <2>2. co[c].box \in Boxes => [pipe EXCEPT ![co[c].proc][co[c].box] = 0] \in [Procs -> [Boxes -> Nat]]
    BY <1>2, <1>4, PipeSet
  <2> QED BY <1>4, <2>1, <2>2 DEF SandboxStatus
<1>6. /\ Runs(co[c].box) => Good(co[c].kind, co[c].proc, "look", co[c].ex, co[c].box, co[c].out)
      /\ co[c].box # None => Good(co[c].kind, co[c].proc, "resume", co[c].ex, co[c].box, co[c].out)
      /\ Good(co[c].kind, co[c].proc, "replace", co[c].ex, co[c].box, co[c].out)
  BY <1>2, <1>3, GoodIs DEF Good, PlaceOK, WantsBox, WantsEx, Runs
<1>7. FitsNext(c)
  BY <1>2, <1>3, <1>6, MovesFit
<1> QED BY <1>1, <1>2, <1>3, <1>5, <1>7, OthersFit, PipesTyped

LEMMA EnsureFailsTyped ==
    ASSUME Typed, NEW c \in Slots, EnsureFails(c)
    PROVE  Typed'
<1>1. UNCHANGED <<world, status, result, told, assigned, box, turns, proc, pipe>>
  BY DEF EnsureFails, rows
<1>2. CoOK /\ Grown
  BY <1>1, SameGrown DEF Typed
<1>3. co[c] # Free /\ co[c].kind = "request" /\ Others(c) /\ Moves(c, "refuse")
  BY <1>2, EnsureFailsIs
<1>4. Good(co[c].kind, co[c].proc, "refuse", co[c].ex, co[c].box, co[c].out)
  BY <1>2, <1>3, GoodIs DEF Good, PlaceOK, WantsBox, WantsEx
<1> QED BY <1>1, <1>2, <1>3, <1>4, MovesFit, OthersFit, CoTyped

LEMMA OpenIoTyped ==
    ASSUME Typed, NEW c \in Slots, OpenIo(c)
    PROVE  Typed'
<1>1. UNCHANGED <<world, status, result, told, assigned, box, turns, proc>>
  BY DEF OpenIo, rows
<1>2. CoOK /\ BoxOK /\ Grown
  BY <1>1, SameGrown DEF Typed
<1>3. co[c] # Free /\ co[c].pc = "open"
  BY <1>2, OpenIoIs
<1>4. co[c].proc \in Procs /\ co[c].box \in Boxes
  BY <1>2, <1>3, LookerIs
<1>5. pipe' \in [Procs -> [Boxes -> Nat]]
  <2>1. pipe \in [Procs -> [Boxes -> Nat]] /\ box[co[c].box].pod \in Nat
    BY <1>2, <1>4 DEF BoxOK, BoxRecords
  <2>2. [pipe EXCEPT ![co[c].proc][co[c].box] = box[co[c].box].pod] \in [Procs -> [Boxes -> Nat]]
    BY <1>2, <1>4, <2>1, PipeSet
  <2> QED BY <2>1, <2>2 DEF OpenIo
<1>6. Good(co[c].kind, co[c].proc, "open", co[c].ex, co[c].box, co[c].out)
  BY <1>2, <1>3, GoodIs
<1>7. CASE Runs(co[c].box)
  <2>1. PICK n \in Slots \ {c} : /\ co[n] = Free /\ Shaped /\ Pipes(c)
                                 /\ Born(n, "pump", co[c].proc, "read", None, co[c].box)
                                 /\ \A d \in Slots \ {c, n} : Still(d)
    BY <1>2, <1>7, OpenIoIs
  <2>2. Good("pump", co[c].proc, "read", None, co[c].box, None)
    BY <1>4, <1>6, <1>7 DEF Good, PlaceOK, WantsBox, WantsEx, Runs
  <2>3. FitsNext(n)
    <3>1. co[c].box \in Boxes \cup {None}
      BY <1>4
    <3> QED BY <1>2, <1>4, <2>1, <2>2, <3>1, BornFit
  <2>4. Gone(c) \/ FitsNext(c)
    BY <1>2, <1>3, <2>1, PipesFit
  <2>5. \A d \in Slots : co'[d] = Free \/ FitsNext(d)
    <3> TAKE d \in Slots
    <3>1. CASE d \notin {c, n}
      BY <1>2, <2>1, <3>1, StillFit DEF Still
    <3> QED BY <2>3, <2>4, <3>1 DEF Gone
  <2> QED BY <1>1, <1>5, <2>1, <2>5, AllFit, PipesTyped
<1>8. CASE ~Runs(co[c].box)
  <2>1. Others(c) /\ \/ co[c].kind = "request" /\ Moves(c, "refuse")
                     \/ co[c].kind = "steer" /\ Moves(c, "session")
                     \/ Gone(c)
    BY <1>2, <1>8, OpenIoIs
  <2>2. /\ co[c].kind = "request" =>
             Good(co[c].kind, co[c].proc, "refuse", co[c].ex, co[c].box, co[c].out)
        /\ co[c].kind = "steer" =>
             Good(co[c].kind, co[c].proc, "session", co[c].ex, co[c].box, co[c].out)
    BY <1>6 DEF Good, PlaceOK, WantsBox, WantsEx
  <2>3. Gone(c) \/ FitsNext(c)
    BY <1>2, <1>3, <2>1, <2>2, MovesFit
  <2> QED BY <1>1, <1>2, <1>5, <2>1, <2>3, OthersFit, PipesTyped
<1> QED BY <1>7, <1>8

LEMMA PumpEndTyped ==
    ASSUME Typed, NEW c \in Slots, PumpEnd(c)
    PROVE  Typed'
<1>1. /\ UNCHANGED <<world, status, result, told, assigned, box, turns, proc>>
      /\ pipe' = [pipe EXCEPT ![co[c].proc][co[c].box] = 0]
  BY DEF PumpEnd, rows
<1>2. CoOK /\ BoxOK /\ Grown
  BY <1>1, SameGrown DEF Typed
<1>3. co[c] # Free /\ Others(c) /\ Gone(c) /\ co[c].proc \in Procs /\ co[c].box \in Boxes
  BY <1>2, PumpEndIs
<1>4. pipe' \in [Procs -> [Boxes -> Nat]]
  BY <1>1, <1>2, <1>3, PipeSet, 0 \in Nat
<1> QED BY <1>1, <1>2, <1>3, <1>4, OthersFit, PipesTyped

\* The process after a deployment.
LEMMA StartProcessTyped ==
    ASSUME Typed, StartProcess
    PROVE  Typed'
<1>1. /\ UNCHANGED <<world, status, result, told, assigned, box, turns, pipe>>
      /\ proc' = [proc EXCEPT ![2] = "up"] /\ proc[2] = "new"
  BY DEF StartProcess, rows
<1>2. Len(turns) \in Nat /\ proc \in [Procs -> {"up", "new", "dead"}]
  BY DEF Typed, TurnsOK, WorldOK
<1>3. Grown /\ proc' \in [Procs -> {"up", "new", "dead"}] /\ proc'[2] = "up" /\ 2 \in Procs
  BY <1>1, <1>2 DEF Grown, Procs
<1>4. PICK n \in Slots : co[n] = Free /\ Others(n) /\ Born(n, "adopt", 2, "list", None, None)
  BY StartProcessIs DEF Typed
<1>5. FitsNext(n)
  <2>1. PICK r : r = co'[n]
    OBVIOUS
  <2>2. /\ r \in CoRecords /\ r.kind = "adopt" /\ r.proc = 2 /\ r.pc = "list" /\ r.ex = None
        /\ r.box = None /\ r.out = None /\ r.buf = <<>>
    BY <1>4, <2>1 DEF Born, New
  <2>3. Good("adopt", 2, "list", None, None, None)'
    BY <1>3 DEF Good, PlaceOK, WantsBox, WantsEx
  <2>4. Good(r.kind, r.proc, r.pc, r.ex, r.box, r.out)'
    BY <2>2, <2>3
  <2> QED BY <2>1, <2>2, <2>4, RecordFit
<1>6. CoOK'
  BY <1>3, <1>4, <1>5, OthersFit DEF Typed
<1>7. BoxOK'
  BY <1>1, <1>3, BoxKept DEF Typed, BoxOK
<1>8. RowsOK'
  BY <1>1, <1>3, RowsKept DEF Typed, RowsOK
<1> QED BY <1>1, <1>3, <1>6, <1>7, <1>8 DEF Typed, TurnsOK, WorldOK

LEMMA ProcessDiesTyped ==
    ASSUME Typed, ProcessDies
    PROVE  Typed'
<1>1. /\ UNCHANGED <<world, status, result, told, assigned, box, turns>>
      /\ proc' = [proc EXCEPT ![1] = "dead"]
      /\ pipe' = [pipe EXCEPT ![1] = [b \in Boxes |-> 0]]
  BY DEF ProcessDies, rows
<1>2. Len(turns) \in Nat /\ proc \in [Procs -> {"up", "new", "dead"}]
  BY DEF Typed, TurnsOK, WorldOK
<1>3. /\ proc' \in [Procs -> {"up", "new", "dead"}]
      /\ \A p \in Procs \ {1} : proc'[p] = proc[p]
  BY <1>1, <1>2 DEF Procs
<1>4. /\ CoOK /\ Shaped /\ \A d \in Slots : Gone(d) \/ Still(d)
      /\ \A d \in Slots : co'[d] # Free => co'[d].proc # 1
  BY ProcessDiesIs DEF Typed
<1>5. \A d \in Slots : co'[d] = Free \/ FitsNext(d)
  <2> SUFFICES ASSUME NEW d \in Slots, co'[d] # Free
               PROVE  FitsNext(d)
    OBVIOUS
  <2>1. PICK r \in CoRecords : r = co[d] /\ r = co'[d] /\ Fits(r)
    BY <1>4, AtIs DEF Gone, Still
  <2>2. r.proc \in Procs \ {1}
    BY <1>4, <2>1 DEF CoRecords
  <2>3. proc'[r.proc] = "up" /\ UNCHANGED <<box, turns>>
    BY <1>1, <1>3, <2>1, <2>2 DEF Fits, Good
  <2>4. Good(r.kind, r.proc, r.pc, r.ex, r.box, r.out)
    BY <2>1 DEF Fits
  <2>5. Good(r.kind, r.proc, r.pc, r.ex, r.box, r.out)'
    BY <2>3, <2>4 DEF Good, EndOK, TurnOK
  <2>6. \A i \in DOMAIN r.buf : TurnOK(r.buf[i].turn)'
    BY <2>1, <2>3 DEF Fits, TurnOK
  <2> QED BY <2>1, <2>5, <2>6, RecordFit
<1>6. CoOK'
  BY <1>4, <1>5, AllFit
<1>7. BoxOK'
  <2>1. pipe' \in [Procs -> [Boxes -> Nat]]
    BY <1>1 DEF Typed, BoxOK
  <2>2. \A b \in Boxes : InOrder(box[b])'
    BY <1>1 DEF Typed, BoxOK, InOrder, TurnOK
  <2> QED BY <1>1, <2>1, <2>2 DEF Typed, BoxOK
<1>8. RowsOK'
  BY <1>1 DEF Typed, RowsOK, EndOK, TurnOK, Active
<1> QED BY <1>1, <1>3, <1>6, <1>7, <1>8 DEF Typed, TurnsOK, WorldOK

\* A step that changes coroutines and rows only.
LEMMA RowsTyped ==
    ASSUME Typed, UNCHANGED <<world, assigned, box, turns, proc, pipe>>, CoOK', RowsOK'
    PROVE  Typed'
<1>1. Grown
  BY SameGrown
<1>2. BoxOK'
  BY <1>1, BoxKept DEF Typed, BoxOK
<1> QED BY <1>2 DEF Typed, TurnsOK, WorldOK

\* An active execution goes on, or the first one begins.
LEMMA StatusRows ==
    ASSUME Typed, NEW e \in Executions, UNCHANGED <<turns, result, told>>,
           \/ status[e] = "none" /\ Active = {} /\ status' = [status EXCEPT ![e] = "queued"]
           \/ status[e] = "queued" /\ status' = [status EXCEPT ![e] = "running"]
    PROVE  RowsOK'
<1>1. status' \in [Executions -> {"none", "queued", "running"} \cup Terminal]
  BY DEF Typed, RowsOK
<1>2. \A x \in Executions : (status'[x] \in Terminal <=> status[x] \in Terminal)
  BY DEF Typed, RowsOK, Terminal
<1>3. \A x \in Active' : x \in Active \/ (x = e /\ Active = {})
  BY DEF Typed, RowsOK, Active
<1>4. \A x, y \in Active' : x = y
  BY <1>3 DEF Typed, RowsOK
<1> QED BY <1>1, <1>2, <1>4 DEF Typed, RowsOK, EndOK, TurnOK

\* The end of an execution.
LEMMA EndRows ==
    ASSUME Typed, NEW e \in Executions, NEW o \in Ends, EndOK(o), End(e, o),
           UNCHANGED <<turns, told>>
    PROVE  RowsOK'
<1>1. PICK s \in Terminal : status' = [status EXCEPT ![e] = s]
  BY DEF End, Terminal
<1>2. result' = [result EXCEPT ![e] = IF result[e] = None THEN o ELSE result[e]]
  BY DEF End, Typed, RowsOK
<1>3. status' \in [Executions -> {"none", "queued", "running"} \cup Terminal]
      /\ \A x \in Executions : status'[x] = IF x = e THEN s ELSE status[x]
  BY <1>1 DEF Typed, RowsOK
<1>4. /\ result' \in [Executions -> Ends \cup {None}]
      /\ \A x \in Executions : result'[x] = IF x = e /\ result[e] = None THEN o ELSE result[x]
  BY <1>2 DEF Typed, RowsOK
<1>5. \A x \in Executions : result'[x] # None <=> status'[x] \in Terminal
  BY <1>3, <1>4, SessionAssumption DEF Typed, RowsOK
<1>6. \A x \in Executions : result'[x] # None => EndOK(result[x])'
  <2> TAKE x \in Executions
  <2>1. PICK r : r = result'[x]
    OBVIOUS
  <2>2. r # None => EndOK(r)
    BY <1>4, <2>1 DEF Typed, RowsOK
  <2>3. r # None => EndOK(r)'
    BY <2>2 DEF EndOK, TurnOK
  <2> QED BY <2>1, <2>3
<1>7. \A x, y \in Active' : x = y
  <2>1. Active' \subseteq Active
    BY <1>3 DEF Active, Terminal
  <2> QED BY <2>1 DEF Typed, RowsOK
<1>8. told' \in [Executions -> SUBSET Terminal]
  BY DEF Typed, RowsOK
<1> QED BY <1>3, <1>4, <1>5, <1>6, <1>7, <1>8 DEF RowsOK

LEMMA ToldRows ==
    ASSUME Typed, NEW e \in Executions, NEW x \in Terminal, UNCHANGED <<turns, status, result>>,
           told' = [told EXCEPT ![e] = @ \cup {x}]
    PROVE  RowsOK'
<1>1. told' \in [Executions -> SUBSET Terminal]
  BY DEF Typed, RowsOK
<1> QED BY <1>1 DEF Typed, RowsOK, EndOK, TurnOK, Active

LEMMA CreateExecutionTyped ==
    ASSUME Typed, NEW c \in Slots, CreateExecution(c)
    PROVE  Typed'
<1>1. UNCHANGED <<world, result, told, assigned, box, turns, proc, pipe>>
  BY DEF CreateExecution
<1>2. CoOK /\ Grown
  BY <1>1, SameGrown DEF Typed
<1>3. /\ co[c] # Free /\ co[c].kind = "request" /\ co[c].pc = "create" /\ Others(c)
      /\ Moves(c, "claim") \/ Gone(c)
  BY <1>2, CreateExecutionIs
<1>4. co[c].ex \in Executions
  BY <1>2, <1>3, AtIs, GoodIs DEF Good, WantsEx, CoRecords
<1>5. Good(co[c].kind, co[c].proc, "claim", co[c].ex, co[c].box, co[c].out)
  BY <1>2, <1>3, GoodIs DEF Good, PlaceOK, WantsBox, WantsEx
<1>6. CoOK'
  BY <1>2, <1>3, <1>5, MovesFit, OthersFit
<1>7. RowsOK'
  <2>1. CASE MayCreate(co[c].ex)
    BY <1>1, <1>4, <2>1, StatusRows DEF CreateExecution, MayCreate
  <2>2. CASE ~MayCreate(co[c].ex)
    BY <1>1, <1>2, <2>2, RowsKept DEF CreateExecution, Typed, RowsOK
  <2> QED BY <2>1, <2>2
<1> QED BY <1>1, <1>6, <1>7, RowsTyped

LEMMA MarkExecutionRunningTyped ==
    ASSUME Typed, NEW c \in Slots, MarkExecutionRunning(c)
    PROVE  Typed'
<1>1. UNCHANGED <<world, result, told, assigned, box, turns, proc, pipe>>
  BY DEF MarkExecutionRunning
<1>2. CoOK /\ Grown
  BY <1>1, SameGrown DEF Typed
<1>3. /\ co[c] # Free /\ co[c].kind = "request" /\ co[c].pc = "claim" /\ Others(c)
      /\ Moves(c, "status") \/ Gone(c)
  BY <1>2, MarkExecutionRunningIs
<1>4. co[c].ex \in Executions
  BY <1>2, <1>3, AtIs, GoodIs DEF Good, WantsEx, CoRecords
<1>5. Good(co[c].kind, co[c].proc, "status", co[c].ex, co[c].box, co[c].out)
  BY <1>2, <1>3, GoodIs DEF Good, PlaceOK, WantsBox, WantsEx
<1>6. CoOK'
  BY <1>2, <1>3, <1>5, MovesFit, OthersFit
<1>7. RowsOK'
  <2>1. CASE MayClaim(co[c].ex)
    BY <1>1, <1>4, <2>1, StatusRows DEF MarkExecutionRunning, MayClaim
  <2>2. CASE ~MayClaim(co[c].ex)
    BY <1>1, <1>2, <2>2, RowsKept DEF MarkExecutionRunning, Typed, RowsOK
  <2> QED BY <2>1, <2>2
<1> QED BY <1>1, <1>6, <1>7, RowsTyped

LEMMA AppendFailureTyped ==
    ASSUME Typed, NEW c \in Slots, AppendFailure(c)
    PROVE  Typed'
<1>1. /\ UNCHANGED <<world, status, result, assigned, box, turns, proc, pipe>>
      /\ told' = [told EXCEPT ![co[c].ex] = @ \cup {"failed"}]
  BY DEF AppendFailure
<1>2. CoOK /\ Grown
  BY <1>1, SameGrown DEF Typed
<1>3. /\ co[c] # Free /\ co[c].kind = "request" /\ co[c].pc = "refuse" /\ Others(c)
      /\ Moves(c, "failrow")
  BY <1>2, AppendFailureIs
<1>4. co[c].ex \in Executions
  BY <1>2, <1>3, AtIs, GoodIs DEF Good, WantsEx, CoRecords
<1>5. Good(co[c].kind, co[c].proc, "failrow", co[c].ex, co[c].box, co[c].out)
  BY <1>2, <1>3, GoodIs DEF Good, PlaceOK, WantsBox, WantsEx
<1>6. CoOK'
  BY <1>2, <1>3, <1>5, MovesFit, OthersFit
<1>7. RowsOK'
  BY <1>1, <1>4, ToldRows DEF Terminal
<1> QED BY <1>1, <1>6, <1>7, RowsTyped

LEMMA FailExecutionTyped ==
    ASSUME Typed, NEW c \in Slots, FailExecution(c)
    PROVE  Typed'
<1>1. /\ UNCHANGED <<world, told, assigned, box, turns, proc, pipe>>
      /\ End(co[c].ex, Failure("request"))
  BY DEF FailExecution
<1>2. CoOK /\ Grown
  BY <1>1, SameGrown DEF Typed
<1>3. /\ co[c] # Free /\ co[c].kind = "request" /\ co[c].pc = "failrow" /\ Others(c)
      /\ Gone(c)
  BY <1>2, FailExecutionIs
<1>4. co[c].ex \in Executions
  BY <1>2, <1>3, AtIs, GoodIs DEF Good, WantsEx, CoRecords
<1>5. CoOK'
  BY <1>2, <1>3, OthersFit
<1>6. RowsOK'
  BY <1>1, <1>4, FailureIs, EndRows
<1> QED BY <1>1, <1>5, <1>6, RowsTyped

\* After a recording a pump reads on, or ends with its stream.
LEMMA ResumesFit ==
    ASSUME CoOK, Grown, NEW c \in Slots, co[c] # Free, co[c].pc \in {"record", "tell"}, Resumes(c)
    PROVE  Gone(c) \/ FitsNext(c)
<1>1. CASE co[c].kind = "pump"
  <2>1. PICK p : p \in {"eof", "read"} /\ Goes(c, p, None, co[c].box, None)
    BY <1>1 DEF Resumes
  <2>2. Good(co[c].kind, co[c].proc, p, None, co[c].box, None)
    BY <1>1, <2>1, GoodIs, SessionAssumption DEF Good, PlaceOK, WantsBox, WantsEx
  <2>3. co[c].box \in Boxes \cup {None} /\ None \in Ends \cup {None}
    BY AtIs DEF CoRecords
  <2> QED BY <2>1, <2>2, <2>3, GoesFit
<1> QED BY <1>1 DEF Resumes

LEMMA RecordTyped ==
    ASSUME Typed, NEW c \in Slots, Record(c)
    PROVE  Typed'
<1>1. UNCHANGED <<world, told, assigned, box, turns, proc, pipe>>
  BY DEF Record
<1>2. CoOK /\ Grown
  BY <1>1, SameGrown DEF Typed
<1>3. /\ co[c] # Free /\ co[c].pc = "record" /\ Others(c)
      /\ Moves(c, "tell") \/ Resumes(c)
  BY <1>2, RecordIs
<1>4. co[c].ex \in Executions /\ co[c].out \in Ends /\ EndOK(co[c].out)
  BY <1>2, <1>3, RecorderIs
<1>5. Good(co[c].kind, co[c].proc, "tell", co[c].ex, co[c].box, co[c].out)
  BY <1>2, <1>3, GoodIs DEF Good, PlaceOK, WantsBox, WantsEx
<1>6. CoOK'
  BY <1>2, <1>3, <1>5, MovesFit, ResumesFit, OthersFit
<1>7. RowsOK'
  <2>1. CASE MayEnd(co[c].ex)
    BY <1>1, <1>4, <2>1, EndRows DEF Record
  <2>2. CASE ~MayEnd(co[c].ex)
    BY <1>1, <1>2, <2>2, RowsKept DEF Record, Typed, RowsOK
  <2> QED BY <2>1, <2>2
<1> QED BY <1>1, <1>6, <1>7, RowsTyped

LEMMA TellTyped ==
    ASSUME Typed, NEW c \in Slots, Tell(c)
    PROVE  Typed'
<1>1. /\ UNCHANGED <<world, status, result, assigned, box, turns, proc, pipe>>
      /\ told' = [told EXCEPT ![co[c].ex] = @ \cup {IF co[c].out.ok THEN "completed" ELSE "failed"}]
  BY DEF Tell
<1>2. CoOK /\ BoxOK /\ Grown
  BY <1>1, SameGrown DEF Typed
<1>3. co[c] # Free /\ co[c].pc = "tell"
  BY <1>2, TellIs
<1>4. co[c].ex \in Executions /\ co[c].proc \in Procs
  BY <1>2, <1>3, RecorderIs
<1>5. CoOK'
  <2>1. CASE Others(c) /\ Resumes(c)
    BY <1>2, <1>3, <2>1, ResumesFit, OthersFit
  <2>2. CASE \E n \in Slots, b \in Boxes :
               /\ co[n] = Free \/ n = c
               /\ box[b].state # "none" /\ Shaped
               /\ Born(n, "idle", co[c].proc, "sleep", co[c].ex, b)
               /\ n # c => Resumes(c)
               /\ \A d \in Slots \ {c, n} : Still(d)
    <3>1. PICK n \in Slots, b \in Boxes :
               /\ co[n] = Free \/ n = c
               /\ box[b].state # "none" /\ Shaped
               /\ Born(n, "idle", co[c].proc, "sleep", co[c].ex, b)
               /\ n # c => Resumes(c)
               /\ \A d \in Slots \ {c, n} : Still(d)
      BY <2>2
    <3>2. Good("idle", co[c].proc, "sleep", co[c].ex, b, None)
      <4>1. proc[co[c].proc] = "up"
        BY <1>2, <1>3, GoodIs DEF Good
      <4> QED BY <1>4, <3>1, <4>1, SessionAssumption DEF Good, PlaceOK, WantsBox, WantsEx
    <3>3. FitsNext(n)
      <4>1. b \in Boxes \cup {None}
        OBVIOUS
      <4> QED BY <1>2, <1>4, <3>1, <3>2, <4>1, BornFit
    <3>4. n # c => Gone(c) \/ FitsNext(c)
      BY <1>2, <1>3, <3>1, ResumesFit
    <3>5. \A d \in Slots : co'[d] = Free \/ FitsNext(d)
      <4> TAKE d \in Slots
      <4>1. CASE d \notin {c, n}
        BY <1>2, <3>1, <4>1, StillFit DEF Still
      <4> QED BY <3>3, <3>4, <4>1 DEF Gone
    <3> QED BY <3>1, <3>5, AllFit
  <2> QED BY <1>2, <2>1, <2>2, TellIs
<1>6. RowsOK'
  BY <1>1, <1>4, ToldRows DEF Terminal
<1> QED BY <1>1, <1>5, <1>6, RowsTyped

\* A step that changes one sandbox.
LEMMA BoxReplaced ==
    ASSUME Typed, NEW b \in Boxes, NEW r \in BoxRecords, box' = [box EXCEPT ![b] = r],
           box[b].state # "none" => r.state # "none", proc' = proc,
           Len(turns') \in Nat, Len(turns) <= Len(turns'), InOrder(r)',
           \/ assigned' = assigned
           \/ assigned' = b /\ r.state # "none",
           pipe' \in [Procs -> [Boxes -> Nat]]
    PROVE  BoxOK' /\ Grown
<1>1. /\ box' \in [Boxes -> BoxRecords] /\ box'[b] = r
      /\ \A a \in Boxes \ {b} : box'[a] = box[a]
  BY DEF Typed, BoxOK
<1>2. Grown
  BY <1>1 DEF Grown, Typed, TurnsOK
<1>3. \A a \in Boxes : InOrder(box[a])'
  <2> TAKE a \in Boxes
  <2>1. PICK q : q = box'[a]
    OBVIOUS
  <2>2. InOrder(q)'
    BY <1>1, <1>2, <2>1, OrderKept DEF Typed, BoxOK
  <2> QED BY <2>1, <2>2 DEF InOrder
<1>4. assigned' \in Boxes \cup {None} /\ (assigned' # None => box'[assigned'].state # "none")
  BY <1>1 DEF Typed, BoxOK
<1> QED BY <1>1, <1>2, <1>3, <1>4 DEF BoxOK

LEMMA BoxTyped ==
    ASSUME Typed, Grown, UNCHANGED <<world, status, result, told, turns, proc>>, BoxOK', CoOK'
    PROVE  Typed'
BY RowsKept DEF Typed, TurnsOK, WorldOK, RowsOK

\* A sandbox without work.
LEMMA Emptied ==
    ASSUME BoxOK, NEW b \in Boxes, NEW r,
           \/ r = Fresh(b)
           \/ \E s \in {"suspended", "gone"} : r = [NoBox EXCEPT !.state = s, !.pod = box[b].pod]
    PROVE  /\ r \in BoxRecords /\ r.state # "none" /\ InOrder(r)'
           /\ r.now = 0 /\ r.input = <<>> /\ r.log = <<>>
<1>1. box[b].pod \in Nat
  BY DEF BoxOK, BoxRecords
<1>2. PICK s \in {"running", "suspended", "gone"}, n \in Nat : r = [NoBox EXCEPT !.state = s, !.pod = n]
  <2>1. CASE r = Fresh(b)
    <3>1. PICK n : n = box[b].pod + 1
      OBVIOUS
    <3>2. n \in Nat
      BY <1>1, <3>1
    <3>3. r = [NoBox EXCEPT !.state = "running", !.pod = n]
      BY <2>1, <3>1 DEF Fresh
    <3> QED BY <3>2, <3>3
  <2> QED BY <1>1, <2>1
<1>3. r = [state |-> s, pod |-> n, input |-> <<>>, now |-> 0, log |-> <<>>]
  BY <1>2 DEF NoBox
<1>4. r \in BoxRecords
  <2> DEFINE I == Seq(Nat)
             L == Seq([turn : Nat, ok : BOOLEAN, since : SUBSET Executions])
  <2>1. <<>> \in I /\ <<>> \in L
    OBVIOUS
  <2> HIDE DEF I, L
  <2>2. r \in [state : {"none", "running", "suspended", "gone"}, pod : Nat, input : I, now : Nat,
               log : L]
    BY <1>3, <2>1
  <2> QED BY <2>2 DEF BoxRecords, I, L
<1> QED BY <1>3, <1>4 DEF InOrder

LEMMA ResumeSandboxTyped ==
    ASSUME Typed, NEW c \in Slots, ResumeSandbox(c)
    PROVE  Typed'
<1>1. UNCHANGED <<world, status, result, told, assigned, turns, proc, pipe>>
  BY DEF ResumeSandbox, rows
<1>2. CoOK /\ BoxOK /\ Len(turns) \in Nat
  BY DEF Typed, TurnsOK
<1>3. /\ co[c] # Free /\ co[c].kind = "request" /\ co[c].pc = "resume" /\ Others(c)
      /\ co[c].box \in Boxes /\ (Moves(c, "look") \/ Moves(c, "replace"))
  BY <1>2, ResumeSandboxIs
<1>4. PICK b \in Boxes : b = co[c].box
  BY <1>3
<1>5. BoxOK' /\ Grown
  <2>1. CASE box[b].state = "suspended"
    <3>1. PICK r : r = Fresh(b)
      OBVIOUS
    <3>2. r \in BoxRecords /\ r.state # "none" /\ InOrder(r)'
      BY <1>2, <3>1, Emptied
    <3>3. box' = [box EXCEPT ![b] = r] /\ pipe' \in [Procs -> [Boxes -> Nat]]
      BY <1>1, <1>2, <1>4, <2>1, <3>1 DEF ResumeSandbox, BoxOK
    <3>4. proc' = proc /\ assigned' = assigned /\ Len(turns') \in Nat /\ Len(turns) <= Len(turns')
      BY <1>1, <1>2
    <3> QED BY <3>2, <3>3, <3>4, BoxReplaced
  <2>2. CASE box[b].state # "suspended"
    <3>1. box' = box
      BY <1>4, <2>2 DEF ResumeSandbox
    <3> QED BY <1>1, <1>2, <3>1, SameGrown, BoxKept DEF BoxOK
  <2> QED BY <2>1, <2>2
<1>6. /\ Good(co[c].kind, co[c].proc, "look", co[c].ex, co[c].box, co[c].out)
      /\ Good(co[c].kind, co[c].proc, "replace", co[c].ex, co[c].box, co[c].out)
  BY <1>2, <1>3, GoodIs, SessionAssumption DEF Good, PlaceOK, WantsBox, WantsEx
<1>7. CoOK'
  BY <1>2, <1>3, <1>5, <1>6, MovesFit, OthersFit
<1> QED BY <1>1, <1>5, <1>7, BoxTyped

LEMMA ReplaceSandboxTyped ==
    ASSUME Typed, NEW c \in Slots, ReplaceSandbox(c)
    PROVE  Typed'
<1>1. UNCHANGED <<world, status, result, told, turns, proc, pipe>>
  BY DEF ReplaceSandbox, rows
<1>2. CoOK /\ BoxOK /\ Len(turns) \in Nat
  BY DEF Typed, TurnsOK
<1>3. co[c] # Free /\ co[c].kind = "request" /\ co[c].pc = "replace" /\ Others(c)
  BY <1>2, ReplaceSandboxIs
<1>4. PICK b \in Boxes : /\ Goes(c, "look", co[c].ex, b, co[c].out)
                         /\ box[b].state = "none" /\ assigned' = b
                         /\ box' = [box EXCEPT ![b] = Fresh(b)]
  BY <1>2, ReplaceSandboxIs
<1>5. PICK r : r = Fresh(b)
  OBVIOUS
<1>6. r \in BoxRecords /\ r.state # "none" /\ InOrder(r)'
  BY <1>2, <1>5, Emptied
<1>7. box' = [box EXCEPT ![b] = r] /\ pipe' \in [Procs -> [Boxes -> Nat]]
  BY <1>1, <1>2, <1>4, <1>5 DEF BoxOK
<1>8. BoxOK' /\ Grown
  <2>1. proc' = proc /\ Len(turns') \in Nat /\ Len(turns) <= Len(turns')
    BY <1>1, <1>2
  <2> QED BY <1>4, <1>6, <1>7, <2>1, BoxReplaced
<1>9. FitsNext(c)
  <2>1. PICK k, q, o, e : k = co[c].kind /\ q = co[c].proc /\ o = co[c].out /\ e = co[c].ex
    OBVIOUS
  <2>2. box'[b].state # "none"
    BY <1>2, <1>6, <1>7 DEF BoxOK
  <2>3. Good(k, q, "replace", e, co[c].box, o) /\ k = "request" /\ q \in Procs /\ o \in Ends \cup {None}
    BY <1>2, <1>3, <2>1, GoodIs, AtIs DEF CoRecords
  <2>4. Good(k, q, "replace", e, None, o)
    BY <2>3 DEF Good, WantsBox
  <2>5. Good(k, q, "replace", e, None, o)'
    BY <1>8, <2>3, <2>4, GoodKept, None \in Boxes \cup {None}
  <2>6. Good(k, q, "look", e, b, o)'
    BY <2>2, <2>3, <2>5, SessionAssumption DEF Good, PlaceOK, WantsBox, WantsEx
  <2> QED BY <1>2, <1>3, <1>4, <1>8, <2>1, <2>6, GoesFitAfter
<1>10. CoOK'
  BY <1>2, <1>3, <1>8, <1>9, OthersFit
<1> QED BY <1>1, <1>8, <1>10, BoxTyped

Line == [turn : Nat, ok : BOOLEAN, since : SUBSET Executions]

\* What a sandbox becomes.
LEMMA RecordInput ==
    ASSUME NEW r \in BoxRecords, NEW i \in Seq(Nat)
    PROVE  /\ [r EXCEPT !.input = i] \in BoxRecords
           /\ [r EXCEPT !.input = i].input = i /\ [r EXCEPT !.input = i].now = r.now
           /\ [r EXCEPT !.input = i].log = r.log /\ [r EXCEPT !.input = i].state = r.state
           /\ [r EXCEPT !.input = i].pod = r.pod
<1> DEFINE I == Seq(Nat)
           L == Seq(Line)
           C == [state : {"none", "running", "suspended", "gone"}, pod : Nat, input : I, now : Nat,
                 log : L]
<1>1. r \in C /\ C = BoxRecords /\ i \in I
  BY DEF BoxRecords, Line
<1> HIDE DEF I, L
<1>2. [r EXCEPT !.input = i] \in C
  BY <1>1
<1> QED BY <1>1, <1>2

Taken(r, n, i) == [r EXCEPT !.now = n, !.input = i]

LEMMA RecordTaken ==
    ASSUME NEW r \in BoxRecords, NEW i \in Seq(Nat), NEW n \in Nat
    PROVE  /\ Taken(r, n, i) \in BoxRecords
           /\ Taken(r, n, i).input = i
           /\ Taken(r, n, i).now = n
           /\ Taken(r, n, i).log = r.log
           /\ Taken(r, n, i).state = r.state
           /\ Taken(r, n, i).pod = r.pod
<1> DEFINE I == Seq(Nat)
           L == Seq(Line)
           C == [state : {"none", "running", "suspended", "gone"}, pod : Nat, input : I, now : Nat,
                 log : L]
<1>1. r \in C /\ C = BoxRecords /\ i \in I
  BY DEF BoxRecords, Line
<1> HIDE DEF I, L
<1>2. Taken(r, n, i) \in C
  BY <1>1 DEF Taken
<1> QED BY <1>1, <1>2 DEF Taken

Done(r, n, l) == [r EXCEPT !.now = n, !.log = l]

LEMMA RecordDone ==
    ASSUME NEW r \in BoxRecords, NEW n \in Nat, NEW l \in Seq(Line)
    PROVE  /\ Done(r, n, l) \in BoxRecords
           /\ Done(r, n, l).input = r.input
           /\ Done(r, n, l).now = n
           /\ Done(r, n, l).log = l
           /\ Done(r, n, l).state = r.state
           /\ Done(r, n, l).pod = r.pod
<1> DEFINE I == Seq(Nat)
           L == Seq(Line)
           C == [state : {"none", "running", "suspended", "gone"}, pod : Nat, input : I, now : Nat,
                 log : L]
<1>1. r \in C /\ C = BoxRecords /\ l \in L
  BY DEF BoxRecords, Line
<1> HIDE DEF I, L
<1>2. Done(r, n, l) \in C
  BY <1>1 DEF Done
<1> QED BY <1>1, <1>2 DEF Done

LEMMA Appended ==
    ASSUME NEW S, NEW s \in Seq(S), NEW x \in S
    PROVE  /\ Append(s, x) \in Seq(S) /\ Len(Append(s, x)) = Len(s) + 1
           /\ DOMAIN Append(s, x) = DOMAIN s \cup {Len(s) + 1}
           /\ Append(s, x)[Len(s) + 1] = x
           /\ \A i \in DOMAIN s : i <= Len(s) /\ Append(s, x)[i] = s[i]
OBVIOUS

LEMMA Single ==
    ASSUME NEW S, NEW x \in S
    PROVE  <<x>> \in Seq(S) /\ DOMAIN <<x>> = {1} /\ <<x>>[1] = x
OBVIOUS

LEMMA BoxIs ==
    ASSUME BoxOK, NEW b \in Boxes
    PROVE  /\ box[b] \in BoxRecords /\ box[b].input \in Seq(Nat) /\ box[b].now \in Nat
           /\ box[b].log \in Seq(Line) /\ InOrder(box[b]) /\ box[b].pod \in Nat
BY DEF BoxOK, BoxRecords, Line

\* A turn that comes last.
LEMMA OrderAppended ==
    ASSUME NEW r \in BoxRecords, NEW s \in BoxRecords, InOrder(r), s.now = r.now, s.log = r.log,
           Len(turns) \in Nat, Len(turns') = Len(turns) + 1, s.input = Append(r.input, Len(turns) + 1)
    PROVE  InOrder(s)'
<1>1. r.input \in Seq(Nat) /\ r.now \in Nat /\ r.log \in Seq(Line) /\ Len(turns) + 1 \in Nat
  BY DEF BoxRecords, Line
<1>2. \A i \in DOMAIN r.log : r.log[i].turn \in 1 .. Len(turns)
  BY DEF InOrder, TurnOK
<1>3. \A i \in DOMAIN r.input : r.input[i] \in 1 .. Len(turns)
  BY DEF InOrder, TurnOK
<1>4. /\ DOMAIN s.input = DOMAIN r.input \cup {Len(r.input) + 1}
      /\ s.input[Len(r.input) + 1] = Len(turns) + 1
      /\ \A i \in DOMAIN r.input : i <= Len(r.input) /\ s.input[i] = r.input[i]
  BY <1>1, Appended
<1>5. DOMAIN r.input \subseteq Nat /\ Len(r.input) \in Nat
  BY <1>1
<1>6. \A i \in DOMAIN s.input : /\ s.input[i] \in 1 .. Len(turns')
                                /\ s.now # 0 => s.now < s.input[i]
                                /\ \A j \in DOMAIN s.input : i < j => s.input[i] < s.input[j]
  <2> TAKE i \in DOMAIN s.input
  <2>1. CASE i \in DOMAIN r.input
    BY <1>1, <1>3, <1>4, <1>5, <2>1 DEF InOrder, TurnOK
  <2>2. CASE i = Len(r.input) + 1
    BY <1>1, <1>4, <1>5, <2>2 DEF InOrder, TurnOK
  <2> QED BY <1>4, <2>1, <2>2
<1>7. \A i \in DOMAIN s.log : /\ s.log[i].turn \in 1 .. Len(turns')
                              /\ s.now # 0 => s.log[i].turn < s.now
                              /\ \A j \in DOMAIN s.input : s.log[i].turn < s.input[j]
                              /\ \A j \in DOMAIN s.log : i < j => s.log[i].turn < s.log[j].turn
  <2> TAKE i \in DOMAIN s.log
  <2>1. i \in DOMAIN r.log /\ s.log[i].turn = r.log[i].turn /\ r.log[i].turn \in 1 .. Len(turns)
    BY <1>2
  <2>2. \A j \in DOMAIN s.input : s.log[i].turn < s.input[j]
    <3> TAKE j \in DOMAIN s.input
    <3>1. CASE j \in DOMAIN r.input
      BY <1>4, <2>1, <3>1 DEF InOrder
    <3>2. CASE j = Len(r.input) + 1
      BY <1>4, <2>1, <3>2
    <3> QED BY <1>4, <3>1, <3>2
  <2> QED BY <2>1, <2>2 DEF InOrder
<1>8. s.now # 0 => s.now \in 1 .. Len(turns')
  BY <1>1 DEF InOrder, TurnOK
<1> QED BY <1>6, <1>7, <1>8 DEF InOrder, TurnOK

LEMMA WriteInputTyped ==
    ASSUME Typed, NEW c \in Slots, WriteInput(c)
    PROVE  Typed'
<1>1. UNCHANGED <<world, status, result, told, assigned, proc, pipe>>
  BY DEF WriteInput, rows
<1>2. CoOK /\ BoxOK /\ Len(turns) \in Nat /\ turns \in Seq(TurnRecords)
  BY DEF Typed, TurnsOK
<1>3. /\ co[c] # Free /\ co[c].pc = "piped" /\ Others(c)
      /\ \/ Born(c, "timer", co[c].proc, "sleep", co[c].ex, None)
         \/ co[c].kind = "request" /\ Moves(c, "refuse")
         \/ Gone(c)
  BY <1>2, WriteInputIs
<1>4. PICK b \in Boxes : b = co[c].box
  BY <1>2, <1>3, PipedIs
<1>5. BoxOK' /\ Grown /\ TurnsOK'
  <2>1. CASE Writes(c)
    <3>1. PICK n \in TurnRecords : turns' = Append(turns, n)
      <4>1. [ex |-> co[c].ex, steers |-> Is(c, "steer")] \in TurnRecords
        BY <1>2, <1>3, PipedIs DEF TurnRecords, Is
      <4> QED BY <2>1, <4>1 DEF WriteInput, Writes
    <3>2. turns' \in Seq(TurnRecords) /\ Len(turns') = Len(turns) + 1
      BY <1>2, <3>1, Appended
    <3>3. PICK i \in Seq(Nat) : i = Append(box[b].input, Len(turns) + 1)
      <4>1. Len(turns) + 1 \in Nat /\ box[b].input \in Seq(Nat)
        BY <1>2, BoxIs
      <4> QED BY <4>1, Appended
    <3>4. PICK r : r = [box[b] EXCEPT !.input = i]
      OBVIOUS
    <3>5. box' = [box EXCEPT ![b] = r]
      BY <1>2, <1>4, <2>1, <3>3, <3>4 DEF WriteInput, Writes, BoxOK
    <3>6. /\ r \in BoxRecords /\ r.input = i /\ r.now = box[b].now /\ r.log = box[b].log
          /\ r.state = box[b].state
      <4>1. PICK q \in BoxRecords : q = box[b]
        BY <1>2, BoxIs
      <4>2. /\ [q EXCEPT !.input = i] \in BoxRecords
            /\ [q EXCEPT !.input = i].input = i /\ [q EXCEPT !.input = i].now = q.now
            /\ [q EXCEPT !.input = i].log = q.log /\ [q EXCEPT !.input = i].state = q.state
        BY RecordInput
      <4> QED BY <3>4, <4>1, <4>2
    <3>7. InOrder(r)'
      BY <1>2, <3>2, <3>3, <3>6, BoxIs, OrderAppended
    <3>8. proc' = proc /\ assigned' = assigned /\ Len(turns') \in Nat /\ Len(turns) <= Len(turns')
          /\ pipe' \in [Procs -> [Boxes -> Nat]]
      BY <1>1, <1>2, <3>2 DEF BoxOK
    <3> QED BY <3>2, <3>5, <3>6, <3>7, <3>8, BoxReplaced DEF TurnsOK
  <2>2. CASE ~Writes(c)
    <3>1. box' = box /\ turns' = turns
      BY <2>2 DEF WriteInput, Writes
    <3> QED BY <1>1, <1>2, <3>1, SameGrown, BoxKept DEF BoxOK, TurnsOK
  <2> QED BY <2>1, <2>2
<1>6. co[c].kind = "request" => Good(co[c].kind, co[c].proc, "refuse", co[c].ex, co[c].box, co[c].out)
  BY <1>2, <1>3, GoodIs, SessionAssumption DEF Good, PlaceOK, WantsBox, WantsEx
<1>7. CoOK'
  BY <1>2, <1>3, <1>5, <1>6, MovesFit, TimerFit, OthersFit
<1>8. RowsOK'
  BY <1>1, <1>5, RowsKept DEF Typed, RowsOK
<1> QED BY <1>1, <1>5, <1>7, <1>8 DEF Typed, WorldOK

\* The turn that comes first is taken.
LEMMA OrderTaken ==
    ASSUME NEW r \in BoxRecords, NEW s \in BoxRecords, InOrder(r), turns' = turns, r.now = 0,
           r.input # <<>>, s.now = Head(r.input), s.input = Tail(r.input), s.log = r.log
    PROVE  InOrder(s)'
<1>1. r.input \in Seq(Nat) /\ r.log \in Seq(Line)
  BY DEF BoxRecords, Line
<1>2. /\ s.now = r.input[1] /\ 1 \in DOMAIN r.input
      /\ \A i \in DOMAIN s.input : i + 1 \in DOMAIN r.input /\ s.input[i] = r.input[i + 1]
  BY <1>1, HeadTail
<1>3. DOMAIN s.input \subseteq Nat \ {0} /\ DOMAIN r.input \subseteq Nat
  BY <1>1, HeadTail
<1>4. \A i \in DOMAIN s.input : /\ TurnOK(s.input[i])
                                /\ s.now < s.input[i]
                                /\ \A j \in DOMAIN s.input : i < j => s.input[i] < s.input[j]
  <2> TAKE i \in DOMAIN s.input
  <2>1. i + 1 \in DOMAIN r.input /\ 1 < i + 1
    BY <1>2, <1>3
  <2>2. TurnOK(s.input[i]) /\ s.now < s.input[i]
    BY <1>2, <2>1 DEF InOrder
  <2>3. ASSUME NEW j \in DOMAIN s.input, i < j
        PROVE  s.input[i] < s.input[j]
    <3>1. j + 1 \in DOMAIN r.input /\ i + 1 < j + 1
      BY <1>2, <1>3, <2>3
    <3> QED BY <1>2, <2>1, <3>1 DEF InOrder
  <2> QED BY <2>2, <2>3
<1>5. TurnOK(s.now)
  BY <1>2 DEF InOrder
<1>6. \A i \in DOMAIN s.log : /\ TurnOK(s.log[i].turn)
                              /\ s.log[i].turn < s.now
                              /\ \A j \in DOMAIN s.input : s.log[i].turn < s.input[j]
                              /\ \A j \in DOMAIN s.log : i < j => s.log[i].turn < s.log[j].turn
  BY <1>2 DEF InOrder
<1>7. InOrder(s)
  BY <1>4, <1>5, <1>6 DEF InOrder
<1> QED BY <1>7 DEF InOrder, TurnOK

\* The turn that was done goes to the log.
LEMMA OrderDone ==
    ASSUME NEW r \in BoxRecords, NEW s \in BoxRecords, InOrder(r), turns' = turns, r.now # 0,
           s.now = 0, s.input = r.input, NEW l \in Line, l.turn = r.now, s.log = Append(r.log, l)
    PROVE  InOrder(s)'
<1>1. r.log \in Seq(Line)
  BY DEF BoxRecords, Line
<1>2. /\ DOMAIN s.log = DOMAIN r.log \cup {Len(r.log) + 1}
      /\ s.log[Len(r.log) + 1] = l
      /\ \A i \in DOMAIN r.log : i <= Len(r.log) /\ s.log[i] = r.log[i]
  BY <1>1, Appended
<1>3. DOMAIN r.log \subseteq Nat /\ Len(r.log) \in Nat
  BY <1>1
<1>4. \A i \in DOMAIN s.log : /\ TurnOK(s.log[i].turn)
                              /\ \A j \in DOMAIN s.input : s.log[i].turn < s.input[j]
                              /\ \A j \in DOMAIN s.log : i < j => s.log[i].turn < s.log[j].turn
  <2> TAKE i \in DOMAIN s.log
  <2>1. CASE i \in DOMAIN r.log
    <3>1. s.log[i] = r.log[i] /\ i <= Len(r.log) /\ r.log[i].turn < r.now
      BY <1>2, <2>1 DEF InOrder
    <3>2. \A j \in DOMAIN s.log : i < j => s.log[i].turn < s.log[j].turn
      <4> TAKE j \in DOMAIN s.log
      <4>1. CASE j \in DOMAIN r.log
        BY <1>2, <2>1, <3>1, <4>1 DEF InOrder
      <4>2. CASE j = Len(r.log) + 1
        BY <1>2, <3>1, <4>2
      <4> QED BY <1>2, <4>1, <4>2
    <3> QED BY <2>1, <3>1, <3>2 DEF InOrder
  <2>2. CASE i = Len(r.log) + 1
    <3>1. s.log[i].turn = r.now
      BY <1>2, <2>2
    <3>2. \A j \in DOMAIN s.log : ~(i < j)
      BY <1>2, <1>3, <2>2
    <3> QED BY <3>1, <3>2 DEF InOrder
  <2> QED BY <1>2, <2>1, <2>2
<1>5. InOrder(s)
  BY <1>4 DEF InOrder
<1> QED BY <1>5 DEF InOrder, TurnOK

LEMMA LinesIs ==
    ASSUME NEW t \in Nat, NEW e \in BOOLEAN, NEW k \in BOOLEAN
    PROVE  /\ Lines(t, e) \in Output /\ Lines(t, e).turn = t /\ Lines(t, e).ends = e
           /\ [Lines(t, e) EXCEPT !.ok = k] \in Output /\ [Lines(t, e) EXCEPT !.ok = k].turn = t
           /\ [Lines(t, e) EXCEPT !.ok = k].ends = e /\ [Lines(t, e) EXCEPT !.ok = k].ok = k
           /\ Lines(t, e).ok = TRUE
BY DEF Lines, Output

LEMMA EmitFit ==
    ASSUME CoOK, Grown, NEW b \in Boxes, NEW L \in Seq(Output), Emit(b, L),
           \A i \in DOMAIN L : TurnOK(L[i].turn)
    PROVE  CoOK'
<1>1. Shaped /\ \A d \in Slots : Hears(d, L) \/ Still(d)
  BY EmitIs
<1>2. \A d \in Slots : co'[d] = Free \/ FitsNext(d)
  <2> TAKE d \in Slots
  <2> QED BY <1>1, HearsFit, StillFit DEF Still
<1> QED BY <1>1, <1>2, AllFit

LEMMA HarnessTakesLineTyped ==
    ASSUME Typed, NEW b \in Boxes, HarnessTakesLine(b)
    PROVE  Typed'
<1>1. /\ UNCHANGED <<world, status, result, told, assigned, turns, proc, pipe>>
      /\ box[b].now = 0 /\ box[b].input # <<>>
  BY DEF HarnessTakesLine, rows
<1>2. CoOK /\ BoxOK /\ Len(turns) \in Nat
  BY DEF Typed, TurnsOK
<1>3. PICK q \in BoxRecords : q = box[b] /\ InOrder(q) /\ q.input \in Seq(Nat)
  BY <1>2, BoxIs
<1>4. PICK n \in Nat, i \in Seq(Nat) : n = Head(q.input) /\ i = Tail(q.input)
  BY <1>1, <1>3, HeadTail
<1>5. PICK r : r = Taken(q, n, i)
  OBVIOUS
<1>6. box' = [box EXCEPT ![b] = r] /\ Emit(b, <<Lines(n, FALSE)>>)
  BY <1>2, <1>3, <1>4, <1>5 DEF HarnessTakesLine, BoxOK, Taken
<1>7. r \in BoxRecords /\ r.input = i /\ r.now = n /\ r.log = q.log /\ r.state = q.state
  BY <1>5, RecordTaken
<1>8. InOrder(r)'
  BY <1>1, <1>3, <1>4, <1>7, OrderTaken
<1>9. BoxOK' /\ Grown
  <2>1. proc' = proc /\ assigned' = assigned /\ Len(turns') \in Nat /\ Len(turns) <= Len(turns')
        /\ pipe' \in [Procs -> [Boxes -> Nat]] /\ (box[b].state # "none" => r.state # "none")
    BY <1>1, <1>2, <1>3, <1>7 DEF BoxOK
  <2> QED BY <1>6, <1>7, <1>8, <2>1, BoxReplaced
<1>10. CoOK'
  <2>1. PICK l \in Output : l = Lines(n, FALSE) /\ l.turn = n
    BY LinesIs
  <2>2. PICK L \in Seq(Output) : L = <<l>> /\ DOMAIN L = {1} /\ L[1] = l
    BY Single
  <2>3. TurnOK(n)
    BY <1>1, <1>3, <1>4, HeadTail DEF InOrder
  <2>4. \A j \in DOMAIN L : TurnOK(L[j].turn)
    BY <2>1, <2>2, <2>3
  <2>5. Emit(b, L)
    BY <1>6, <2>1, <2>2
  <2> QED BY <1>2, <1>9, <2>4, <2>5, EmitFit
<1> QED BY <1>1, <1>9, <1>10, BoxTyped

LEMMA BadIs ==
    ASSUME NEW t \in Nat
    PROVE  LET y == [Lines(t, TRUE) EXCEPT !.ok = FALSE]
           IN  y \in Output /\ y.turn = t /\ y.ends /\ y.ok \in BOOLEAN
BY DEF Lines, Output

\* A turn ends with lines, the last of which end it.
EndsWith(b, L) ==
    /\ L \in Seq(Output) /\ Emit(b, L) /\ L # <<>> /\ (Hazard("fail") \/ Len(L) = 1)
    /\ \A i \in DOMAIN L : L[i].turn = box[b].now /\ L[i].ends
    /\ \E l \in Line : /\ l.turn = box[b].now /\ l.since = Started
                       /\ box' = [box EXCEPT ![b] = Done(box[b], 0, Append(box[b].log, l))]

LEMMA EndsTurnIs ==
    ASSUME BoxOK, NEW b \in Boxes, HarnessEndsTurn(b)
    PROVE  \E L \in Seq(Output) : EndsWith(b, L)
<1>1. PICK t \in Nat : t = box[b].now
  BY BoxIs
<1>2. PICK x \in Output : x = Lines(t, TRUE) /\ x.turn = t /\ x.ends /\ x.ok \in BOOLEAN
  BY LinesIs
<1>3. PICK y \in Output :
         y = [Lines(t, TRUE) EXCEPT !.ok = FALSE] /\ y.turn = t /\ y.ends /\ y.ok \in BOOLEAN
  BY BadIs
<1>4. PICK L : /\ L = <<x>> \/ (L = <<y, y>> /\ Hazard("fail"))
               /\ box' = [box EXCEPT ![b].now = 0,
                            ![b].log = Append(@, [turn |-> t, ok |-> L[1].ok, since |-> Started])]
               /\ Emit(b, L)
  BY <1>1, <1>2, <1>3 DEF HarnessEndsTurn
<1>5. /\ L \in Seq(Output) /\ L # <<>> /\ L[1].ok \in BOOLEAN /\ (Hazard("fail") \/ Len(L) = 1)
      /\ \A i \in DOMAIN L : L[i].turn = t /\ L[i].ends
  <2>1. CASE L = <<x>>
    <3>1. L \in Seq(Output) /\ L[1] = x /\ Len(L) = 1 /\ L # <<>> /\ \A i \in DOMAIN L : L[i] = x
      BY SMTT(30), <2>1, Single
    <3>2. x.turn = t /\ x.ends /\ x.ok \in BOOLEAN
      BY <1>2
    <3> QED BY <3>1, <3>2
  <2>2. CASE L = <<y, y>> /\ Hazard("fail")
    <3>1. L \in Seq(Output) /\ L[1] = y /\ L # <<>> /\ \A i \in DOMAIN L : L[i] = y
      BY <2>2
    <3> QED BY <1>3, <2>2, <3>1
  <2> QED BY <1>4, <2>1, <2>2
<1>6. PICK l : l = [turn |-> t, ok |-> L[1].ok, since |-> Started]
  OBVIOUS
<1>7. l \in Line /\ l.turn = t /\ l.since = Started
  BY <1>5, <1>6 DEF Line, Started
<1>8. box' = [box EXCEPT ![b] = Done(box[b], 0, Append(box[b].log, l))]
  BY <1>4, <1>6 DEF BoxOK, Done
<1> QED BY <1>1, <1>4, <1>5, <1>7, <1>8 DEF EndsWith

LEMMA HarnessEndsTurnTyped ==
    ASSUME Typed, NEW b \in Boxes, HarnessEndsTurn(b)
    PROVE  Typed'
<1>1. /\ UNCHANGED <<world, status, result, told, assigned, turns, proc, pipe>>
      /\ box[b].now # 0
  BY DEF HarnessEndsTurn, rows
<1>2. CoOK /\ BoxOK /\ Len(turns) \in Nat
  BY DEF Typed, TurnsOK
<1>3. PICK q \in BoxRecords : /\ q = box[b] /\ InOrder(q) /\ q.input \in Seq(Nat)
                              /\ q.log \in Seq(Line) /\ q.now \in Nat
  BY <1>2, BoxIs
<1>4. PICK L \in Seq(Output) : EndsWith(b, L)
  BY EndsTurnIs DEF Typed
<1>5. PICK l \in Line : l.turn = q.now /\ box' = [box EXCEPT ![b] = Done(q, 0, Append(q.log, l))]
  BY <1>3, <1>4 DEF EndsWith
<1>6. PICK m \in Seq(Line) : m = Append(q.log, l)
  BY <1>3, Appended
<1>7. PICK r : r = Done(q, 0, m)
  OBVIOUS
<1>8. r \in BoxRecords /\ r.input = q.input /\ r.now = 0 /\ r.log = m /\ r.state = q.state
  BY <1>7, RecordDone
<1>9. InOrder(r)'
  BY <1>1, <1>3, <1>5, <1>6, <1>8, OrderDone
<1>10. BoxOK' /\ Grown
  <2>1. proc' = proc /\ assigned' = assigned /\ Len(turns') \in Nat /\ Len(turns) <= Len(turns')
        /\ pipe' \in [Procs -> [Boxes -> Nat]] /\ (box[b].state # "none" => r.state # "none")
    BY <1>1, <1>2, <1>3, <1>8 DEF BoxOK
  <2>2. box' = [box EXCEPT ![b] = r]
    BY <1>5, <1>6, <1>7
  <2> QED BY <1>8, <1>9, <2>1, <2>2, BoxReplaced
<1>11. CoOK'
  <2>1. TurnOK(q.now)
    BY <1>1, <1>3 DEF InOrder
  <2>2. \A i \in DOMAIN L : TurnOK(L[i].turn)
    BY <1>3, <1>4, <2>1 DEF EndsWith
  <2> QED BY <1>2, <1>4, <1>10, <2>2, EmitFit DEF EndsWith
<1> QED BY <1>1, <1>10, <1>11, BoxTyped

\* The pod of a sandbox ends.
LEMMA StopBox ==
    ASSUME Typed, NEW b \in Boxes, NEW s \in {"suspended", "gone"}, Stop(b, s),
           UNCHANGED <<assigned, turns, proc>>, pipe' \in [Procs -> [Boxes -> Nat]]
    PROVE  BoxOK' /\ Grown
<1>1. PICK r : r = [NoBox EXCEPT !.state = s, !.pod = box[b].pod]
  OBVIOUS
<1>2. r \in BoxRecords /\ r.state # "none" /\ InOrder(r)'
  BY <1>1, Emptied DEF Typed
<1>3. box' = [box EXCEPT ![b] = r]
  BY <1>1 DEF Stop
<1>4. Len(turns') \in Nat /\ Len(turns) <= Len(turns') /\ proc' = proc /\ assigned' = assigned
  BY DEF Typed, TurnsOK
<1> QED BY <1>2, <1>3, <1>4, BoxReplaced

LEMMA SandboxDiesTyped ==
    ASSUME Typed, NEW b \in Boxes, SandboxDies(b)
    PROVE  Typed'
<1>1. /\ UNCHANGED <<world, status, result, told, assigned, turns, proc, pipe>>
      /\ Stop(b, "gone")
  BY DEF SandboxDies, rows
<1>2. CoOK /\ pipe' \in [Procs -> [Boxes -> Nat]]
  BY <1>1 DEF Typed, BoxOK
<1>3. BoxOK' /\ Grown
  BY <1>1, <1>2, StopBox
<1>4. Shaped /\ \A d \in Slots : Still(d) \/ Shut(d)
  BY <1>2, SandboxDiesIs DEF Closes
<1>5. \A d \in Slots : co'[d] = Free \/ FitsNext(d)
  <2> TAKE d \in Slots
  <2> QED BY <1>2, <1>3, <1>4, ShutFit, StillFit DEF Still
<1>6. CoOK'
  BY <1>4, <1>5, AllFit
<1> QED BY <1>1, <1>3, <1>6, BoxTyped

LEMMA PauseSandboxTyped ==
    ASSUME Typed, NEW c \in Slots, PauseSandbox(c)
    PROVE  Typed'
<1>1. UNCHANGED <<world, status, result, told, assigned, turns, proc>>
  BY DEF PauseSandbox, rows
<1>2. CoOK /\ BoxOK
  BY DEF Typed
<1>3. /\ co[c].proc \in Procs /\ co[c].box \in Boxes /\ Shaped /\ Gone(c)
      /\ \A d \in Slots \ {c} : Still(d) \/ Shut(d)
  BY <1>2, PauseSandboxIs
<1>4. pipe' \in [Procs -> [Boxes -> Nat]]
  <2>1. pipe' = [pipe EXCEPT ![co[c].proc][co[c].box] = 0] /\ 0 \in Nat
    BY DEF PauseSandbox
  <2> QED BY <1>2, <1>3, <2>1, PipeSet
<1>5. BoxOK' /\ Grown
  <2>1. CASE Runs(co[c].box)
    BY <1>1, <1>3, <1>4, <2>1, StopBox DEF PauseSandbox
  <2>2. CASE ~Runs(co[c].box)
    <3>1. box' = box
      BY <2>2 DEF PauseSandbox
    <3> QED BY <1>1, <1>2, <1>4, <3>1, SameGrown, BoxKept
  <2> QED BY <2>1, <2>2
<1>6. \A d \in Slots : co'[d] = Free \/ FitsNext(d)
  <2> TAKE d \in Slots
  <2> QED BY <1>2, <1>3, <1>5, ShutFit, StillFit DEF Still, Gone
<1>7. CoOK'
  BY <1>3, <1>6, AllFit
<1> QED BY <1>1, <1>5, <1>7, BoxTyped

LEMMA TypedStep ==
    ASSUME Typed, [Next]_vars
    PROVE  Typed'
<1>1. ASSUME NEW c \in Slots, Step(c) PROVE Typed'
  BY <1>1, CreateExecutionTyped, MarkExecutionRunningTyped, SandboxStatusTyped,
     ResumeSandboxTyped, ReplaceSandboxTyped, EnsureFailsTyped, LookForPipeTyped, OpenIoTyped, WriteInputTyped,
     AppendFailureTyped, FailExecutionTyped, SteeringSessionTyped, RecordTyped, TellTyped,
     MaxDurationTyped, IdleCheckTyped, PauseSandboxTyped, PumpLineTyped, PumpEofTyped,
     PumpEndTyped, ListActiveTyped, AdoptSessionTyped, ReadLogsTyped, RearmTimerTyped DEF Step
<1>2. CASE UNCHANGED vars
  <2>1. CoOK' /\ RowsOK'
    BY <1>2 DEF vars, rows, Typed, CoOK, Fits, Good, EndOK, TurnOK, RowsOK, Active
  <2>2. UNCHANGED <<world, status, result, told, assigned, box, turns, proc, pipe>>
    BY <1>2 DEF vars, rows
  <2> QED BY <2>1, <2>2, CoTyped
<1> QED
  BY <1>1, <1>2, ExecuteTyped, AppendMessagesTyped, StreamEventsTyped, DisconnectTyped,
     HarnessTakesLineTyped, HarnessEndsTurnTyped, SandboxDiesTyped, StartProcessTyped,
     ProcessDiesTyped DEF Next

LEMMA TypedInit == ASSUME Init PROVE Typed
<1>1. CoOK
  BY DEF Init, CoOK
<1>2. BoxOK
  <2>1. NoBox \in BoxRecords
    <3> DEFINE I == Seq(Nat)
               L == Seq([turn : Nat, ok : BOOLEAN, since : SUBSET Executions])
    <3>1. <<>> \in I /\ <<>> \in L
      OBVIOUS
    <3> HIDE DEF I, L
    <3>2. NoBox \in [state : {"none", "running", "suspended", "gone"}, pod : Nat, input : I, now : Nat,
                     log : L]
      BY <3>1 DEF NoBox
    <3> QED BY <3>2 DEF BoxRecords, I, L
  <2>2. box \in [Boxes -> BoxRecords]
    BY <2>1 DEF Init
  <2>3. InOrder(NoBox)
    BY DEF NoBox, InOrder
  <2>4. \A b \in Boxes : InOrder(box[b])
    BY <2>3 DEF Init
  <2>5. pipe \in [Procs -> [Boxes -> Nat]]
    BY DEF Init
  <2> QED BY <2>2, <2>4, <2>5 DEF Init, BoxOK
<1>3. TurnsOK
  BY DEF Init, TurnsOK
<1>4. RowsOK
  BY SessionAssumption DEF Init, RowsOK, Terminal, Active
<1>5. WorldOK
  BY DEF Init, WorldOK, Procs
<1> QED BY <1>1, <1>2, <1>3, <1>4, <1>5 DEF Typed

LEMMA TypedHolds == Spec => []Typed
BY TypedInit, TypedStep, PTL DEF Spec

Rising(s) == \A i, j \in DOMAIN s : i < j => s[i] < s[j]

LEMMA RisingJoined ==
    ASSUME NEW s \in Seq(Nat), NEW t \in Seq(Nat), Rising(s), Rising(t),
           \A i \in DOMAIN s : \A j \in DOMAIN t : s[i] < t[j]
    PROVE  /\ s \o t \in Seq(Nat) /\ Rising(s \o t)
           /\ \A i \in DOMAIN (s \o t) : \/ \E j \in DOMAIN s : (s \o t)[i] = s[j]
                                         \/ \E j \in DOMAIN t : (s \o t)[i] = t[j]
<1> DEFINE u == s \o t
<1>1. u \in Seq(Nat) /\ Len(u) = Len(s) + Len(t) /\ Len(s) \in Nat /\ Len(t) \in Nat
  OBVIOUS
<1>2. \A i \in DOMAIN u : \/ i \in DOMAIN s /\ u[i] = s[i]
                          \/ i - Len(s) \in DOMAIN t /\ u[i] = t[i - Len(s)] /\ i > Len(s)
  OBVIOUS
<1>3. DOMAIN u \subseteq Nat /\ \A i \in DOMAIN s : i <= Len(s)
  OBVIOUS
<1> HIDE DEF u
<1>4. ASSUME NEW i \in DOMAIN u, NEW j \in DOMAIN u, i < j
      PROVE  u[i] < u[j]
  <2>1. CASE i \in DOMAIN s /\ u[i] = s[i]
    <3>1. CASE j \in DOMAIN s /\ u[j] = s[j]
      BY <1>4, <2>1, <3>1 DEF Rising
    <3>2. CASE j - Len(s) \in DOMAIN t /\ u[j] = t[j - Len(s)]
      BY <2>1, <3>2
    <3> QED BY <1>2, <3>1, <3>2
  <2>2. CASE i - Len(s) \in DOMAIN t /\ u[i] = t[i - Len(s)] /\ i > Len(s)
    <3>1. i \in Nat /\ j \in Nat /\ j > Len(s)
      BY <1>1, <1>3, <1>4, <2>2
    <3>2. j - Len(s) \in DOMAIN t /\ u[j] = t[j - Len(s)]
      BY <1>1, <1>2, <1>3, <3>1
    <3>3. i - Len(s) < j - Len(s)
      BY <1>1, <1>4, <3>1
    <3> QED BY <2>2, <3>2, <3>3 DEF Rising
  <2> QED BY <1>2, <2>1, <2>2
<1>5. Rising(u)
  BY <1>4 DEF Rising
<1> QED BY <1>1, <1>2, <1>5 DEF u

\* TypeOK of SessionRuntime: a session has one active execution, its sandbox exists, and a
\* sandbox did, does and will do what was written to it, in that order; for any number of
\* requests, executions, sandboxes and coroutines (session_executions, write_input_lines).
THEOREM TypeOKHolds == Spec => []TypeOK
<1>1. ASSUME Typed PROVE TypeOK
  <2>1. status \in [Executions -> {"none", "queued", "running"} \cup Terminal]
    BY <1>1 DEF Typed, RowsOK
  <2>2. \A e \in Executions : /\ result[e] \in Outcomes \cup {None}
                              /\ result[e] # None <=> status[e] \in Terminal
                              /\ told[e] \subseteq Terminal
    <3> TAKE e \in Executions
    <3>1. Len(turns) \in Nat
      BY <1>1 DEF Typed, TurnsOK
    <3>2. result[e] \in Outcomes \cup {None}
      <4> SUFFICES ASSUME result[e] # None PROVE result[e] \in Outcomes
        OBVIOUS
      <4>1. result[e] \in Ends /\ result[e].turn <= Len(turns)
        BY <1>1 DEF Typed, RowsOK, EndOK
      <4>2. result[e].turn \in Nat
        BY <4>1 DEF Ends
      <4> QED BY <3>1, <4>1, <4>2 DEF Outcomes
    <3> QED BY <1>1, <3>2 DEF Typed, RowsOK
  <2>3. Cardinality(Active) <= 1
    <3>1. CASE Active = {}
      BY <3>1, FS_EmptySet
    <3>2. CASE Active # {}
      <4>1. PICK e \in Active : Active = {e}
        BY <1>1, <3>2 DEF Typed, RowsOK
      <4> QED BY <4>1, FS_Singleton
    <3> QED BY <3>1, <3>2
  <2>4. assigned # None => box[assigned].state # "none"
    BY <1>1 DEF Typed, BoxOK
  <2>5. ASSUME NEW b \in Boxes
        PROVE  LET done   == [i \in DOMAIN box[b].log |-> box[b].log[i].turn]
                   doing  == IF box[b].now = 0 THEN <<>> ELSE <<box[b].now>>
                   passed == done \o doing \o box[b].input
               IN  \A i, j \in DOMAIN passed : passed[i] \in DOMAIN turns
                                               /\ (i < j => passed[i] < passed[j])
    <3> DEFINE done  == [i \in DOMAIN box[b].log |-> box[b].log[i].turn]
               doing == IF box[b].now = 0 THEN <<>> ELSE <<box[b].now>>
               input == box[b].input
    <3>1. box[b].log \in Seq(Line) /\ input \in Seq(Nat) /\ box[b].now \in Nat /\ InOrder(box[b])
      BY <1>1, BoxIs DEF Typed
    <3>2. /\ done \in Seq(Nat) /\ DOMAIN done = DOMAIN box[b].log
          /\ \A i \in DOMAIN done : done[i] = box[b].log[i].turn
      <4>1. \A i \in DOMAIN box[b].log : box[b].log[i].turn \in Nat
        <5> TAKE i \in DOMAIN box[b].log
        <5>1. PICK l \in Line : l = box[b].log[i]
          BY <3>1, Element
        <5> QED BY <5>1 DEF Line
      <4>2. Len(box[b].log) \in Nat /\ DOMAIN box[b].log = 1 .. Len(box[b].log)
        BY <3>1
      <4> QED BY <4>1, <4>2
    <3>3. /\ doing \in Seq(Nat)
          /\ \A i \in DOMAIN doing : doing[i] = box[b].now /\ box[b].now # 0 /\ i = 1
      BY <3>1
    <3> HIDE DEF done, doing, input
    <3>4. Rising(done) /\ Rising(doing) /\ Rising(input)
      BY <3>1, <3>2, <3>3 DEF Rising, InOrder, input
    <3>5. PICK half : half = done \o doing
      OBVIOUS
    <3>6. /\ half \in Seq(Nat) /\ Rising(half)
          /\ \A i \in DOMAIN half : \/ \E j \in DOMAIN done : half[i] = done[j]
                                    \/ \E j \in DOMAIN doing : half[i] = doing[j]
      <4>1. \A i \in DOMAIN done : \A j \in DOMAIN doing : done[i] < doing[j]
        BY <3>1, <3>2, <3>3 DEF InOrder
      <4>2. done \in Seq(Nat) /\ doing \in Seq(Nat) /\ Rising(done) /\ Rising(doing)
        BY <3>2, <3>3, <3>4
      <4>3. /\ done \o doing \in Seq(Nat) /\ Rising(done \o doing)
            /\ \A i \in DOMAIN (done \o doing) : \/ \E j \in DOMAIN done : (done \o doing)[i] = done[j]
                                                 \/ \E j \in DOMAIN doing : (done \o doing)[i] = doing[j]
        BY ONLY <4>1, <4>2, RisingJoined
      <4> QED BY <3>5, <4>3
    <3>7. \A i \in DOMAIN half : /\ TurnOK(half[i])
                                 /\ \A j \in DOMAIN input : half[i] < input[j]
      BY ZenonT(60), <3>1, <3>2, <3>3, <3>6 DEF InOrder, input
    <3>8. PICK all : all = half \o input
      OBVIOUS
    <3>9. /\ Rising(all)
          /\ \A i \in DOMAIN all : \/ \E j \in DOMAIN half : all[i] = half[j]
                                   \/ \E j \in DOMAIN input : all[i] = input[j]
      BY ZenonT(60), <3>1, <3>4, <3>6, <3>7, <3>8, RisingJoined
    <3>10. \A i \in DOMAIN all : all[i] \in DOMAIN turns
      <4>1. \A i \in DOMAIN all : TurnOK(all[i])
        BY <3>1, <3>7, <3>9 DEF InOrder, input
      <4>2. DOMAIN turns = 1 .. Len(turns)
        BY <1>1 DEF Typed, TurnsOK
      <4> QED BY <4>1, <4>2 DEF TurnOK
    <3>11. all = done \o doing \o box[b].input
      BY <3>5, <3>8 DEF input
    <3>12. \A i, j \in DOMAIN all : all[i] \in DOMAIN turns /\ (i < j => all[i] < all[j])
      BY <3>9, <3>10 DEF Rising
    <3> QED BY <3>11, <3>12 DEF done, doing
  <2>6. \A c \in Slots : co[c] = Free \/ (co[c].proc \in Procs /\ proc[co[c].proc] = "up")
    BY <1>1, AtIs, GoodIs DEF Typed, Good, CoRecords
  <2> QED BY <2>1, <2>2, <2>3, <2>4, <2>5, <2>6 DEF TypeOK
<1> QED BY <1>1, TypedHolds, PTL

-----------------------------------------------------------------------------
(* Input is written once: whoever is to write it or gave up has the row alone.     *)

InputTurns(e) == {t \in DOMAIN turns : turns[t].ex = e /\ ~turns[t].steers}
Writing  == {"status", "resume", "replace", "look", "open", "piped"}
Refused  == {"refuse", "failrow"}
Holds(c) == co[c].kind = "request" /\ co[c].pc \in Writing \cup Refused

Once ==
    /\ \A c \in Slots : Holds(c) => status[co[c].ex] \notin Unwritten /\ InputTurns(co[c].ex) = {}
    /\ \A c, d \in Slots : Holds(c) /\ Holds(d) /\ co[c].ex = co[d].ex => c = d
    /\ \A e \in Executions : InputTurns(e) # {} => status[e] \notin Unwritten
    /\ \A t, u \in DOMAIN turns :
          ~turns[t].steers /\ ~turns[u].steers /\ turns[t].ex = turns[u].ex => t = u

\* d holds nothing that it did not hold, writes nothing that it had given up, and tells
\* what it had to tell or has just recorded.
HeldBefore(d) == Holds(d)' => /\ Holds(d) /\ co'[d].ex = co[d].ex
                              /\ co'[d].pc \in Writing => co[d].pc \in Writing
ToldBefore(d) == At(d, "tell")' => /\ co'[d].ex = co[d].ex /\ co'[d].out = co[d].out
                                   /\ At(d, "tell") \/ (Record(d) /\ MayEnd(co[d].ex))
Before(d) == HeldBefore(d) /\ ToldBefore(d)
StatusKept    == \A e \in Executions : status[e] \notin Unwritten => status'[e] \notin Unwritten

LEMMA HolderIs ==
    ASSUME CoOK, NEW c \in Slots, Holds(c)
    PROVE  co[c] # Free /\ co[c].ex \in Executions
<1>1. co[c] # Free
  BY Apart DEF Holds
<1> QED BY <1>1, AtIs, GoodIs DEF Holds, Good, WantsEx, CoRecords

LEMMA OnceKept ==
    ASSUME Typed, Once, turns' = turns, StatusKept, \A d \in Slots : Before(d)
    PROVE  Once'
<1>1. \A c \in Slots : Holds(c)' => (status[co[c].ex] \notin Unwritten /\ InputTurns(co[c].ex) = {})'
  <2> SUFFICES ASSUME NEW c \in Slots, Holds(c)'
               PROVE  (status[co[c].ex] \notin Unwritten /\ InputTurns(co[c].ex) = {})'
    OBVIOUS
  <2>1. Holds(c) /\ co'[c].ex = co[c].ex
    BY DEF Before, HeldBefore
  <2>2. co[c].ex \in Executions /\ status[co[c].ex] \notin Unwritten /\ InputTurns(co[c].ex) = {}
    BY <2>1, HolderIs DEF Once, Typed
  <2> QED BY <2>1, <2>2 DEF StatusKept, InputTurns, Unwritten
<1>2. \A c, d \in Slots : Holds(c)' /\ Holds(d)' /\ co'[c].ex = co'[d].ex => c = d
  BY DEF Once, Before, HeldBefore
<1>3. \A e \in Executions : (InputTurns(e) # {} => status[e] \notin Unwritten)'
  BY DEF Once, InputTurns, StatusKept, Unwritten
<1>4. \A t, u \in DOMAIN turns' :
          ~turns'[t].steers /\ ~turns'[u].steers /\ turns'[t].ex = turns'[u].ex => t = u
  BY DEF Once
<1> QED BY <1>1, <1>2, <1>3, <1>4 DEF Once

LEMMA HeldStill ==
    ASSUME NEW d \in Slots, Still(d) \/ Gone(d) \/ Shut(d)
    PROVE  Before(d)
BY Apart DEF Before, HeldBefore, ToldBefore, Holds, At, Still, Gone, Shut, Shuts

LEMMA HeldGoes ==
    ASSUME NEW d \in Slots, NEW p, NEW e, NEW b, NEW o, Goes(d, p, e, b, o), p # "tell",
           \/ co[d].kind # "request"
           \/ p \notin Writing \cup Refused
           \/ co[d].pc \in Writing /\ e = co[d].ex
           \/ co[d].pc \in Refused /\ p \in Refused /\ e = co[d].ex
    PROVE  Before(d)
BY DEF Before, HeldBefore, ToldBefore, Holds, At, Goes, Altered, Writing, Refused

LEMMA HeldMoves ==
    ASSUME NEW d \in Slots, NEW p, Moves(d, p), p # "tell",
           \/ co[d].kind # "request"
           \/ p \notin Writing \cup Refused
           \/ co[d].pc \in Writing
           \/ co[d].pc \in Refused /\ p \in Refused
    PROVE  Before(d)
BY HeldGoes DEF Moves

LEMMA HeldTells ==
    ASSUME NEW d \in Slots, Moves(d, "tell"), Record(d), MayEnd(co[d].ex)
    PROVE  Before(d)
BY DEF Before, HeldBefore, ToldBefore, Holds, At, Moves, Goes, Altered, Writing, Refused

LEMMA HeldBorn ==
    ASSUME NEW d \in Slots, NEW k, NEW q, NEW p, NEW e, NEW b, Born(d, k, q, p, e, b),
           p # "tell", k # "request" \/ p \notin Writing \cup Refused
    PROVE  Before(d)
BY DEF Before, HeldBefore, ToldBefore, Holds, At, Born, New

LEMMA HeldHears ==
    ASSUME NEW d \in Slots, NEW L, Hears(d, L)
    PROVE  Before(d)
BY DEF Before, HeldBefore, ToldBefore, Holds, At, Hears

LEMMA HeldLined ==
    ASSUME NEW d \in Slots, co[d].kind = "pump", NEW p, NEW e, NEW o, NEW K,
           Lined(co'[d], co[d], p, e, o, K), p # "tell"
    PROVE  Before(d)
BY DEF Before, HeldBefore, ToldBefore, Holds, At, Lined

LEMMA HeldOthers ==
    ASSUME NEW c \in Slots, Others(c), Before(c)
    PROVE  \A d \in Slots : Before(d)
BY HeldStill DEF Others

LEMMA HeldPipes ==
    ASSUME NEW c \in Slots, co[c].pc \in {"look", "open"}, Pipes(c)
    PROVE  Before(c)
BY HeldStill, HeldMoves DEF Pipes, Writing

LEMMA HeldResumes ==
    ASSUME NEW c \in Slots, co[c].kind # "request", Resumes(c)
    PROVE  Before(c)
BY HeldStill, HeldGoes DEF Resumes

\* The steps that take hold of nothing.
LEMMA HeldByCallers ==
    ASSUME Typed,
           \/ \E p \in Procs : AppendMessages(p) \/ StreamEvents(p) \/ \E r \in Requests : Execute(r, p)
           \/ \E c \in Slots : Disconnect(c)
           \/ StartProcess \/ ProcessDies
    PROVE  \A d \in Slots : Before(d)
<1>1. CoOK /\ BoxOK /\ WorldOK
  BY DEF Typed
<1>2. ASSUME NEW p \in Procs, NEW r \in Requests, Execute(r, p) PROVE \A d \in Slots : Before(d)
  BY <1>1, <1>2, ExecuteIs, HeldBorn, HeldOthers DEF Writing, Refused
<1>3. ASSUME NEW p \in Procs, AppendMessages(p) PROVE \A d \in Slots : Before(d)
  BY <1>1, <1>3, AppendMessagesIs, HeldBorn, HeldOthers
<1>4. ASSUME NEW p \in Procs, StreamEvents(p) PROVE \A d \in Slots : Before(d)
  BY <1>1, <1>4, StreamEventsIs, HeldBorn, HeldOthers
<1>5. ASSUME NEW c \in Slots, Disconnect(c) PROVE \A d \in Slots : Before(d)
  BY <1>1, <1>5, DisconnectIs, HeldStill, HeldOthers
<1>6. CASE StartProcess
  BY <1>1, <1>6, StartProcessIs, HeldBorn, HeldOthers
<1>7. CASE ProcessDies
  BY <1>1, <1>7, ProcessDiesIs, HeldStill
<1> QED BY <1>2, <1>3, <1>4, <1>5, <1>6, <1>7

\* Only MarkExecutionRunning takes hold of an execution.
LEMMA HeldByRequests ==
    ASSUME Typed, NEW c \in Slots,
           CreateExecution(c) \/ SandboxStatus(c) \/ ResumeSandbox(c) \/ ReplaceSandbox(c)
           \/ EnsureFails(c) \/ LookForPipe(c) \/ OpenIo(c) \/ WriteInput(c) \/ AppendFailure(c) \/ FailExecution(c)
           \/ SteeringSession(c)
    PROVE  \A d \in Slots : Before(d)
<1>1. CoOK /\ BoxOK
  BY DEF Typed
<1>2. CASE CreateExecution(c)
  BY <1>1, <1>2, CreateExecutionIs, HeldStill, HeldMoves, HeldOthers DEF Writing, Refused
<1>3. CASE SandboxStatus(c)
  BY <1>1, <1>3, SandboxStatusIs, HeldMoves, HeldOthers DEF Writing
<1>4. CASE ResumeSandbox(c)
  BY <1>1, <1>4, ResumeSandboxIs, HeldMoves, HeldOthers DEF Writing
<1>5. CASE ReplaceSandbox(c)
  BY <1>1, <1>5, ReplaceSandboxIs, HeldGoes, HeldOthers DEF Writing
<1>6. CASE LookForPipe(c)
  BY <1>1, <1>6, LookForPipeIs, HeldMoves, HeldPipes, HeldOthers DEF Writing
<1>7. CASE OpenIo(c)
  <2>1. co[c].pc = "open"
    BY <1>1, <1>7, OpenIoIs
  <2>2. CASE Runs(co[c].box)
    <3>1. PICK n \in Slots \ {c} : /\ Pipes(c) /\ Born(n, "pump", co[c].proc, "read", None, co[c].box)
                                   /\ \A d \in Slots \ {c, n} : Still(d)
      BY <1>1, <1>7, <2>2, OpenIoIs
    <3> QED BY <2>1, <3>1, HeldPipes, HeldBorn, HeldStill
  <2>3. CASE ~Runs(co[c].box)
    BY <1>1, <1>7, <2>1, <2>3, OpenIoIs, HeldMoves, HeldStill, HeldOthers DEF Writing
  <2> QED BY <2>2, <2>3
<1>8. CASE WriteInput(c)
  BY <1>1, <1>8, WriteInputIs, HeldBorn, HeldMoves, HeldStill, HeldOthers DEF Writing
<1>9. CASE AppendFailure(c)
  BY <1>1, <1>9, AppendFailureIs, HeldMoves, HeldOthers DEF Refused
<1>10. CASE FailExecution(c)
  BY <1>1, <1>10, FailExecutionIs, HeldStill, HeldOthers
<1>11. CASE SteeringSession(c)
  BY <1>1, <1>11, SteeringSessionIs, HeldGoes, HeldStill, HeldOthers
<1>12. CASE EnsureFails(c)
  BY <1>1, <1>12, EnsureFailsIs, HeldMoves, HeldOthers DEF Writing
<1> QED BY <1>2, <1>3, <1>4, <1>5, <1>6, <1>7, <1>8, <1>9, <1>10, <1>11, <1>12

LEMMA HeldByOthers ==
    ASSUME Typed, NEW c \in Slots,
           Record(c) \/ Tell(c) \/ MaxDuration(c) \/ IdleCheck(c) \/ PauseSandbox(c) \/ PumpLine(c)
           \/ PumpEof(c) \/ PumpEnd(c) \/ ListActive(c) \/ AdoptSession(c) \/ ReadLogs(c)
           \/ RearmTimer(c)
    PROVE  \A d \in Slots : Before(d)
<1>1. CoOK /\ BoxOK
  BY DEF Typed
<1>2. CASE Record(c)
  <2>1. co[c].kind # "request"
    BY <1>1, <1>2, RecordIs, RecorderIs
  <2> QED BY <1>1, <1>2, <2>1, RecordIs, HeldTells, HeldResumes, HeldOthers
<1>3. CASE Tell(c)
  <2>1. co[c].kind # "request"
    BY <1>1, <1>3, TellIs, RecorderIs
  <2>2. CASE Others(c) /\ Resumes(c)
    BY <2>1, <2>2, HeldResumes, HeldOthers
  <2>3. CASE \E n \in Slots, b \in Boxes :
               /\ Born(n, "idle", co[c].proc, "sleep", co[c].ex, b)
               /\ n # c => Resumes(c)
               /\ \A d \in Slots \ {c, n} : Still(d)
    BY <2>1, <2>3, HeldBorn, HeldResumes, HeldStill
  <2> QED BY <1>1, <1>3, <2>2, <2>3, TellIs
<1>4. CASE MaxDuration(c)
  BY <1>1, <1>4, MaxDurationIs, HeldGoes, HeldStill, HeldOthers
<1>5. CASE IdleCheck(c)
  BY <1>1, <1>5, IdleCheckIs, HeldMoves, HeldStill, HeldOthers
<1>6. CASE PauseSandbox(c)
  BY <1>1, <1>6, PauseSandboxIs, HeldStill
<1>7. CASE PumpLine(c)
  <2>1. /\ Others(c) /\ co[c].kind = "pump"
        /\ \E p, e, o, K : p # "tell" /\ Lined(co'[c], co[c], p, e, o, K)
    BY <1>1, <1>7, PumpLineIs
  <2> QED BY <2>1, HeldLined, HeldOthers
<1>8. CASE PumpEof(c)
  BY <1>1, <1>8, PumpEofIs, HeldGoes, HeldMoves, HeldOthers
<1>9. CASE PumpEnd(c)
  BY <1>1, <1>9, PumpEndIs, HeldStill, HeldOthers
<1>10. CASE ListActive(c)
  BY <1>1, <1>10, ListActiveIs, HeldGoes, HeldStill, HeldOthers
<1>11. CASE AdoptSession(c)
  BY <1>1, <1>11, AdoptSessionIs, HeldGoes, HeldOthers
<1>12. CASE ReadLogs(c)
  <2>1. /\ Others(c) /\ co[c].kind = "adopt"
        /\ Moves(c, "look") \/ \E o : Goes(c, "record", co[c].ex, co[c].box, o)
    BY <1>1, <1>12, ReadLogsIs
  <2> QED BY <2>1, HeldGoes, HeldMoves, HeldOthers
<1>13. CASE RearmTimer(c)
  BY <1>1, <1>13, RearmTimerIs, HeldBorn, HeldOthers
<1> QED BY <1>2, <1>3, <1>4, <1>5, <1>6, <1>7, <1>8, <1>9, <1>10, <1>11, <1>12, <1>13

\* What the streams of a sandbox get.
LEMMA HarnessIs ==
    ASSUME CoOK, BoxOK, NEW b \in Boxes,
           HarnessTakesLine(b) \/ HarnessEndsTurn(b) \/ SandboxDies(b)
    PROVE  Shaped /\ \A d \in Slots : Still(d) \/ Shut(d) \/ \E L : Hears(d, L)
<1>1. CASE HarnessTakesLine(b)
  <2>1. /\ Emit(b, <<Lines(Head(box[b].input), FALSE)>>)
        /\ box[b].input # <<>> /\ box[b].input \in Seq(Nat)
    BY <1>1, BoxIs DEF HarnessTakesLine
  <2>2. PICK l \in Output : l = Lines(Head(box[b].input), FALSE)
    BY <2>1, HeadTail, LinesIs
  <2>3. <<l>> \in Seq(Output) /\ Emit(b, <<l>>)
    BY <2>1, <2>2, Single
  <2> QED BY <2>3, EmitIs
<1>2. CASE HarnessEndsTurn(b)
  <2>1. PICK L \in Seq(Output) : Emit(b, L)
    BY <1>2, EndsTurnIs DEF EndsWith
  <2> QED BY <2>1, EmitIs
<1>3. CASE SandboxDies(b)
  BY <1>3, SandboxDiesIs DEF Closes
<1> QED BY <1>1, <1>2, <1>3

LEMMA HeldByHarness ==
    ASSUME Typed, NEW b \in Boxes,
           HarnessTakesLine(b) \/ HarnessEndsTurn(b) \/ SandboxDies(b)
    PROVE  \A d \in Slots : Before(d)
BY HarnessIs, HeldStill, HeldHears DEF Typed

\* The rows that do not change, or end.
LEMMA EndKeeps ==
    ASSUME Typed, NEW e \in Executions, NEW o, End(e, o)
    PROVE  StatusKept
BY DEF Typed, RowsOK, End, StatusKept, Unwritten

\* No step makes an execution one that was not started.
LEMMA StatusStays ==
    ASSUME Typed, NEW c \in Slots, Step(c)
    PROVE  StatusKept
<1>1. CASE CreateExecution(c)
  <2>1. status' = status \/ (MayCreate(co[c].ex) /\ status' = [status EXCEPT ![co[c].ex] = "queued"])
    BY <1>1 DEF CreateExecution
  <2> QED BY <2>1 DEF StatusKept, MayCreate, Unwritten, Typed, RowsOK
<1>2. CASE FailExecution(c)
  <2>1. co[c].ex \in Executions /\ End(co[c].ex, Failure("request"))
    BY <1>2, FailExecutionIs, HolderIs DEF FailExecution, Typed, Holds, Refused
  <2> QED BY <2>1, EndKeeps
<1>3. CASE Record(c)
  <2>1. co[c].ex \in Executions
    BY <1>3, RecordIs, RecorderIs DEF Typed
  <2>2. status' = status \/ End(co[c].ex, co[c].out)
    BY <1>3 DEF Record
  <2> QED BY <2>1, <2>2, EndKeeps DEF StatusKept
<1>4. CASE MarkExecutionRunning(c)
  <2>1. status' = status \/ status' = [status EXCEPT ![co[c].ex] = "running"]
    BY <1>4 DEF MarkExecutionRunning
  <2> QED BY <2>1 DEF StatusKept, Unwritten, Typed, RowsOK
<1>5. CASE ~CreateExecution(c) /\ ~FailExecution(c) /\ ~Record(c) /\ ~MarkExecutionRunning(c)
  <2>1. status' = status
    BY <1>5 DEF Step, SandboxStatus, ResumeSandbox, ReplaceSandbox, EnsureFails, LookForPipe, OpenIo,
       WriteInput, AppendFailure, SteeringSession, Tell, MaxDuration, IdleCheck, PauseSandbox, PumpLine,
       PumpEof, PumpEnd, ListActive, AdoptSession, ReadLogs, RearmTimer, rows
  <2> QED BY <2>1 DEF StatusKept
<1> QED BY <1>1, <1>2, <1>3, <1>4, <1>5

\* The steps that take hold of nothing and write nothing.
LEMMA OnceOthers ==
    ASSUME Typed, Once, NEW c \in Slots, Step(c), ~MarkExecutionRunning(c), ~WriteInput(c)
    PROVE  Once'
<1>1. \A d \in Slots : Before(d)
  BY HeldByRequests, HeldByOthers DEF Step
<1>2. turns' = turns
  BY DEF Step, CreateExecution, SandboxStatus, ResumeSandbox, ReplaceSandbox, EnsureFails, LookForPipe, OpenIo,
         AppendFailure, FailExecution, SteeringSession, Record, Tell, MaxDuration, IdleCheck,
         PauseSandbox, PumpLine, PumpEof, PumpEnd, ListActive, AdoptSession, ReadLogs, RearmTimer
<1>3. StatusKept
  BY StatusStays
<1> QED BY <1>1, <1>2, <1>3, OnceKept

\* mark_execution_running takes hold of a row that nobody held.
LEMMA OnceMarks ==
    ASSUME Typed, Once, NEW c \in Slots, MarkExecutionRunning(c)
    PROVE  Once'
<1>1. turns' = turns /\ CoOK
  BY DEF MarkExecutionRunning, Typed
<1>2. /\ co[c] # Free /\ co[c].kind = "request" /\ co[c].pc = "claim" /\ Others(c)
      /\ IF MayClaim(co[c].ex) THEN Moves(c, "status") ELSE Gone(c)
  BY <1>1, MarkExecutionRunningIs
<1>3. PICK e \in Executions : e = co[c].ex
  BY <1>1, <1>2, AtIs, GoodIs DEF Good, WantsEx, CoRecords
<1>4. CASE ~MayClaim(e)
  <2>1. status' = status
    BY <1>3, <1>4 DEF MarkExecutionRunning
  <2> QED BY <1>1, <1>2, <1>3, <1>4, <2>1, HeldStill, HeldOthers, OnceKept DEF StatusKept
<1>5. CASE MayClaim(e)
  <2>1. status[e] = "queued" /\ status' = [status EXCEPT ![e] = "running"]
    BY <1>3, <1>5 DEF MarkExecutionRunning, MayClaim
  <2>2. StatusKept /\ status'[e] \notin Unwritten
    BY <2>1 DEF StatusKept, Unwritten, Typed, RowsOK
  <2>3. InputTurns(e) = {} /\ \A d \in Slots : Holds(d) => co[d].ex # e
    BY <2>1 DEF Once, Unwritten
  <2>4. co'[c].ex = e /\ \A d \in Slots \ {c} : Before(d)
    BY <1>2, <1>3, <1>5, HeldStill DEF Moves, Goes, Altered, Others
  <2>5. ASSUME NEW d \in Slots, Holds(d)'
        PROVE  (status[co[d].ex] \notin Unwritten /\ InputTurns(co[d].ex) = {})'
    <3>1. CASE d = c
      BY <1>1, <2>2, <2>3, <2>4, <3>1 DEF InputTurns, Unwritten
    <3>2. CASE d # c
      <4>1. Holds(d) /\ co'[d].ex = co[d].ex
        BY <2>4, <2>5, <3>2 DEF Before, HeldBefore
      <4>2. co[d].ex \in Executions /\ status[co[d].ex] \notin Unwritten /\ InputTurns(co[d].ex) = {}
        BY <1>1, <4>1, HolderIs DEF Once
      <4> QED BY <1>1, <2>2, <4>1, <4>2 DEF StatusKept, InputTurns, Unwritten
    <3> QED BY <3>1, <3>2
  <2>6. \A d, f \in Slots : Holds(d)' /\ Holds(f)' /\ co'[d].ex = co'[f].ex => d = f
    BY <2>3, <2>4 DEF Once, Before, HeldBefore
  <2>7. \A x \in Executions : (InputTurns(x) # {} => status[x] \notin Unwritten)'
    BY <1>1, <2>2 DEF Once, InputTurns, StatusKept, Unwritten
  <2> QED BY <1>1, <2>5, <2>6, <2>7 DEF Once
<1> QED BY <1>3, <1>4, <1>5

LEMMA WritesTurn ==
    ASSUME Typed, NEW c \in Slots, WriteInput(c), Writes(c)
    PROVE  \E n \in TurnRecords : /\ turns' = Append(turns, n) /\ n.ex = co[c].ex
                                  /\ n.steers = (co[c].kind = "steer")
<1>1. co[c].ex \in Executions
  BY WriteInputIs, PipedIs DEF Typed
<1>2. PICK s \in BOOLEAN : s = (co[c].kind = "steer")
  OBVIOUS
<1>3. PICK n : n = [ex |-> co[c].ex, steers |-> s]
  OBVIOUS
<1>4. n \in TurnRecords /\ n.ex = co[c].ex /\ n.steers = s
  BY <1>1, <1>3 DEF TurnRecords
<1>5. turns' = Append(turns, n)
  BY <1>2, <1>3 DEF WriteInput, Writes, Is
<1> QED BY <1>2, <1>4, <1>5

\* What holds an execution writes its input, and holds it no more.
LEMMA OnceWrites ==
    ASSUME Typed, Once, NEW c \in Slots, WriteInput(c)
    PROVE  Once'
<1>1. status' = status /\ CoOK /\ turns \in Seq(TurnRecords) /\ Len(turns) \in Nat
  BY DEF WriteInput, rows, Typed, TurnsOK
<1>2. \A d \in Slots : Before(d)
  BY HeldByRequests
<1>3. StatusKept
  BY <1>1 DEF StatusKept
<1>4. CASE ~Writes(c)
  <2>1. turns' = turns
    BY <1>4 DEF WriteInput, Writes
  <2> QED BY <1>2, <1>3, <2>1, OnceKept
<1>5. CASE Writes(c)
  <2>1. PICK n \in TurnRecords : turns' = Append(turns, n) /\ n.ex = co[c].ex
                                 /\ n.steers = (co[c].kind = "steer")
    BY <1>5, WritesTurn
  <2>2. /\ DOMAIN turns' = DOMAIN turns \cup {Len(turns) + 1}
        /\ turns'[Len(turns) + 1] = n
        /\ \A t \in DOMAIN turns : turns'[t] = turns[t]
    BY <1>1, <2>1, Appended
  <2>3. ~n.steers => Holds(c) /\ co[c].ex \in Executions
    <3>1. co[c].pc = "piped" /\ co[c].kind \in {"request", "steer"}
      BY <1>1, WriteInputIs
    <3>2. co[c].kind = "request" => Holds(c)
      BY <3>1 DEF Holds, Writing
    <3>3. ~n.steers => co[c].kind = "request"
      BY <2>1, <3>1
    <3> QED BY <1>1, <3>2, <3>3, HolderIs
  <2>4. ~n.steers => ~Holds(c)' /\ InputTurns(n.ex) = {} /\ status[n.ex] \notin Unwritten
    <3>1. ~n.steers => ~Holds(c)'
      <4> SUFFICES ASSUME ~n.steers PROVE ~Holds(c)'
        OBVIOUS
      <4>1. co[c].kind = "request"
        BY <2>3 DEF Holds
      <4>2. Born(c, "timer", co[c].proc, "sleep", co[c].ex, None)
        BY <1>1, <1>5, <4>1, WriteInputIs
      <4> QED BY <4>2 DEF Born, New, Holds
    <3> QED BY <2>1, <2>3, <3>1 DEF Once
  <2>5. \A t \in DOMAIN turns' : t \in DOMAIN turns \/ (t = Len(turns) + 1 /\ turns'[t] = n)
    BY <2>2
  <2>6. \A e \in Executions : n.steers \/ e # n.ex => InputTurns(e)' = InputTurns(e)
    BY <2>2, <2>5 DEF InputTurns
  <2>7. ASSUME NEW d \in Slots, Holds(d)'
        PROVE  (status[co[d].ex] \notin Unwritten /\ InputTurns(co[d].ex) = {})'
    <3>1. Holds(d) /\ co'[d].ex = co[d].ex /\ co[d].ex \in Executions
      BY <1>1, <1>2, <2>7, HolderIs DEF Before, HeldBefore
    <3>2. n.steers \/ co[d].ex # n.ex
      BY <2>1, <2>3, <2>4, <2>7, <3>1 DEF Once
    <3>3. status[co[d].ex] \notin Unwritten /\ InputTurns(co[d].ex) = {}
      BY <3>1 DEF Once
    <3>4. PICK e \in Executions : e = co[d].ex /\ e = co'[d].ex
      BY <3>1
    <3> QED BY <1>1, <2>6, <3>2, <3>3, <3>4 DEF InputTurns, Unwritten
  <2>8. \A d, f \in Slots : Holds(d)' /\ Holds(f)' /\ co'[d].ex = co'[f].ex => d = f
    BY <1>2 DEF Once, Before, HeldBefore
  <2>9. \A e \in Executions : (InputTurns(e) # {} => status[e] \notin Unwritten)'
    BY <1>1, <2>4, <2>6 DEF Once, Unwritten
  <2>10. \A t, u \in DOMAIN turns' :
            ~turns'[t].steers /\ ~turns'[u].steers /\ turns'[t].ex = turns'[u].ex => t = u
    <3> SUFFICES ASSUME NEW t \in DOMAIN turns', NEW u \in DOMAIN turns', ~turns'[t].steers,
                        ~turns'[u].steers, turns'[t].ex = turns'[u].ex
                 PROVE  t = u
      OBVIOUS
    <3>1. \A v \in DOMAIN turns : ~n.steers /\ ~turns[v].steers => turns[v].ex # n.ex
      BY <2>4 DEF InputTurns
    <3> QED BY <2>2, <2>5, <3>1 DEF Once
  <2> QED BY <2>7, <2>8, <2>9, <2>10 DEF Once
<1> QED BY <1>4, <1>5

LEMMA OnceStep ==
    ASSUME Typed, Once, [Next]_vars
    PROVE  Once'
<1>1. ASSUME NEW c \in Slots, Step(c) PROVE Once'
  BY <1>1, OnceOthers, OnceMarks, OnceWrites
<1>2. ASSUME \/ \E p \in Procs : AppendMessages(p) \/ StreamEvents(p) \/ \E r \in Requests : Execute(r, p)
             \/ \E c \in Slots : Disconnect(c)
             \/ StartProcess \/ ProcessDies
      PROVE  Once'
  <2>1. turns' = turns /\ status' = status
    BY <1>2 DEF AppendMessages, StreamEvents, Execute, Disconnect, StartProcess, ProcessDies, rows
  <2> QED BY <1>2, <2>1, HeldByCallers, OnceKept DEF StatusKept
<1>3. ASSUME NEW b \in Boxes, HarnessTakesLine(b) \/ HarnessEndsTurn(b) \/ SandboxDies(b)
      PROVE  Once'
  <2>1. turns' = turns /\ status' = status
    BY <1>3 DEF HarnessTakesLine, HarnessEndsTurn, SandboxDies, rows
  <2> QED BY <1>3, <2>1, HeldByHarness, OnceKept DEF StatusKept
<1>4. CASE UNCHANGED vars
  BY <1>4 DEF vars, rows, Once, InputTurns, Holds
<1> QED BY <1>1, <1>2, <1>3, <1>4 DEF Next

LEMMA OnceInit == ASSUME Init PROVE Once
<1>1. \A c \in Slots : ~Holds(c)
  BY Apart DEF Init, Holds
<1>2. DOMAIN turns = {}
  BY DEF Init
<1> QED BY <1>1, <1>2 DEF Once, InputTurns

\* InputOnce of SessionRuntime: the input of an execution is written to a sandbox at most
\* once, by however many requests, callers that disconnect and processes it is asked for
\* (mark_execution_running and write_input_lines, with a sandbox and a pipe in between).
THEOREM InputOnceHolds == Spec => []InputOnce
<1>1. Init => Typed /\ Once
  BY TypedInit, OnceInit
<1>2. (Typed /\ Once) /\ [Next]_vars => (Typed /\ Once)'
  BY TypedStep, OnceStep
<1>3. Typed /\ Once => InputOnce
  <2> SUFFICES ASSUME Once, NEW e \in Executions
               PROVE  Cardinality({t \in DOMAIN turns : turns[t].ex = e /\ ~turns[t].steers}) <= 1
    BY DEF InputOnce
  <2>1. CASE InputTurns(e) = {}
    BY <2>1, FS_EmptySet DEF InputTurns
  <2>2. CASE InputTurns(e) # {}
    <3>1. PICK t \in InputTurns(e) : InputTurns(e) = {t}
      BY <2>2 DEF Once, InputTurns
    <3>2. Cardinality({t}) = 1
      BY FS_Singleton
    <3>3. Cardinality(InputTurns(e)) <= 1
      BY <3>1, <3>2
    <3> QED BY <3>3 DEF InputTurns
  <2> QED BY <2>1, <2>2
<1> QED BY <1>1, <1>2, <1>3, PTL DEF Spec

-----------------------------------------------------------------------------
(* One story: what is told agrees with the row, or with a row that had no input.   *)

\* Nothing was written for e, and nobody is going to.
Barren(e) ==
    /\ status[e] \notin Unwritten /\ InputTurns(e) = {}
    /\ \A c \in Slots : Holds(c) /\ co[c].pc \in Writing => co[c].ex # e

Story ==
    /\ \A c \in Slots : At(c, "tell") => result[co[c].ex] = co[c].out
    /\ \A e \in Executions :
          /\ "completed" \in told[e] => result[e] # None /\ result[e].ok
          /\ "failed" \in told[e] => (result[e] # None /\ ~result[e].ok) \/ Barren(e)

BarrenKept == \A e \in Executions : Barren(e) => Barren(e)'
ResultKept == \A e \in Executions : result[e] # None => result'[e] = result[e]

\* What no step but mark_execution_running takes hold of.
LEMMA StepBefore ==
    ASSUME Typed, [Next]_vars, \A c \in Slots : ~MarkExecutionRunning(c)
    PROVE  /\ \A d \in Slots : Before(d)
           /\ StatusKept
<1>1. CASE \E c \in Slots : Step(c)
  BY <1>1, StatusStays, HeldByRequests, HeldByOthers DEF Step
<1>2. CASE \/ \E p \in Procs : AppendMessages(p) \/ StreamEvents(p) \/ \E r \in Requests : Execute(r, p)
           \/ \E c \in Slots : Disconnect(c)
           \/ StartProcess \/ ProcessDies
  <2>1. status' = status
    BY <1>2 DEF AppendMessages, StreamEvents, Execute, Disconnect, StartProcess, ProcessDies, rows
  <2> QED BY <1>2, <2>1, HeldByCallers DEF StatusKept
<1>3. CASE \E b \in Boxes : HarnessTakesLine(b) \/ HarnessEndsTurn(b) \/ SandboxDies(b)
  <2>1. status' = status
    BY <1>3 DEF HarnessTakesLine, HarnessEndsTurn, SandboxDies, rows
  <2> QED BY <1>3, <2>1, HeldByHarness DEF StatusKept
<1>4. CASE UNCHANGED vars
  <2>1. status' = status /\ co' = co
    BY <1>4 DEF vars
  <2> QED BY <2>1, HeldStill DEF StatusKept, Still
<1> QED BY <1>1, <1>2, <1>3, <1>4 DEF Next

\* ... which takes hold of a queued one.
LEMMA MarkHolds ==
    ASSUME Typed, NEW c \in Slots, MarkExecutionRunning(c)
    PROVE  /\ turns' = turns /\ told' = told /\ result' = result /\ StatusKept
           /\ \A d \in Slots \ {c} : Before(d)
           /\ ToldBefore(c)
           /\ Holds(c)' => status[co[c].ex] = "queued" /\ co'[c].ex = co[c].ex
<1>1. turns' = turns /\ told' = told /\ result' = result /\ CoOK /\ StatusKept
  BY StatusStays DEF MarkExecutionRunning, Typed, Step
<1>2. /\ Others(c) /\ IF MayClaim(co[c].ex) THEN Moves(c, "status") ELSE Gone(c)
  BY <1>1, MarkExecutionRunningIs
<1>3. \A d \in Slots \ {c} : Before(d)
  BY <1>2, HeldStill DEF Others
<1>4. CASE MayClaim(co[c].ex)
  <2>1. co'[c].pc = "status" /\ co'[c].ex = co[c].ex
    BY <1>2, <1>4 DEF Moves, Goes, Altered
  <2> QED BY <1>1, <1>3, <1>4, <2>1 DEF ToldBefore, At, MayClaim
<1>5. CASE ~MayClaim(co[c].ex)
  <2>1. Gone(c)
    BY <1>2, <1>5
  <2>2. Before(c) /\ ~Holds(c)'
    BY <2>1, HeldStill, Apart DEF Gone, Holds
  <2> QED BY <1>1, <1>3, <2>2 DEF Before
<1> QED BY <1>4, <1>5

LEMMA WritesInput ==
    ASSUME Typed, NEW c \in Slots, WriteInput(c)
    PROVE  \/ turns' = turns
           \/ \E n \in TurnRecords : /\ turns' = Append(turns, n) /\ n.ex = co[c].ex
                                     /\ ~n.steers => Holds(c) /\ co[c].pc \in Writing
<1>1. CASE Writes(c)
  <2>1. co[c].pc = "piped" /\ co[c].kind \in {"request", "steer"}
    BY WriteInputIs DEF Typed, WriteInput, At
  <2> QED BY <1>1, <2>1, WritesTurn DEF Holds, Writing
<1>2. CASE ~Writes(c)
  BY <1>2 DEF WriteInput, Writes
<1> QED BY <1>1, <1>2

\* The turns of a step.
LEMMA TurnsStay ==
    ASSUME [Next]_vars, \A c \in Slots : ~WriteInput(c)
    PROVE  turns' = turns
<1>1. ASSUME NEW c \in Slots, Step(c) PROVE turns' = turns
  BY <1>1 DEF Step, CreateExecution, MarkExecutionRunning, SandboxStatus, ResumeSandbox,
         ReplaceSandbox, EnsureFails, LookForPipe, OpenIo, AppendFailure, FailExecution, SteeringSession, Record,
         Tell, MaxDuration, IdleCheck, PauseSandbox, PumpLine, PumpEof, PumpEnd, ListActive,
         AdoptSession, ReadLogs, RearmTimer
<1>2. CASE \/ \E p \in Procs : AppendMessages(p) \/ StreamEvents(p) \/ \E r \in Requests : Execute(r, p)
           \/ \E c \in Slots : Disconnect(c)
           \/ StartProcess \/ ProcessDies
  BY <1>2 DEF AppendMessages, StreamEvents, Execute, Disconnect, StartProcess, ProcessDies
<1>3. CASE \E b \in Boxes : HarnessTakesLine(b) \/ HarnessEndsTurn(b) \/ SandboxDies(b)
  BY <1>3 DEF HarnessTakesLine, HarnessEndsTurn, SandboxDies
<1>4. CASE UNCHANGED vars
  BY <1>4 DEF vars
<1> QED BY <1>1, <1>2, <1>3, <1>4 DEF Next

LEMMA BarrenStays ==
    ASSUME Typed, [Next]_vars
    PROVE  BarrenKept
<1> SUFFICES ASSUME NEW e \in Executions, Barren(e) PROVE Barren(e)'
  BY DEF BarrenKept
<1>1. StatusKept /\ \A d \in Slots : Holds(d)' /\ co'[d].pc \in Writing => co'[d].ex # e
  <2>1. CASE \A c \in Slots : ~MarkExecutionRunning(c)
    BY <2>1, StepBefore DEF Barren, Before, HeldBefore
  <2>2. ASSUME NEW c \in Slots, MarkExecutionRunning(c)
        PROVE  StatusKept /\ \A d \in Slots : Holds(d)' /\ co'[d].pc \in Writing => co'[d].ex # e
    BY <2>2, MarkHolds DEF Barren, Before, HeldBefore, Unwritten
  <2> QED BY <2>1, <2>2
<1>2. InputTurns(e)' = {}
  <2>1. CASE turns' = turns
    BY <2>1 DEF Barren, InputTurns
  <2>2. ASSUME NEW c \in Slots, WriteInput(c), turns' # turns
        PROVE  InputTurns(e)' = {}
    <3>1. PICK n \in TurnRecords : /\ turns' = Append(turns, n) /\ n.ex = co[c].ex
                                   /\ ~n.steers => Holds(c) /\ co[c].pc \in Writing
      BY <2>2, WritesInput
    <3>2. n.steers \/ n.ex # e
      BY <3>1 DEF Barren
    <3>3. /\ DOMAIN turns' = DOMAIN turns \cup {Len(turns) + 1}
          /\ turns'[Len(turns) + 1] = n
          /\ \A t \in DOMAIN turns : turns'[t] = turns[t]
      BY <3>1, Appended DEF Typed, TurnsOK
    <3> QED BY <3>2, <3>3 DEF Barren, InputTurns
  <2> QED BY <2>1, <2>2, TurnsStay
<1>3. status'[e] \notin Unwritten
  BY <1>1 DEF Barren, StatusKept
<1> QED BY <1>1, <1>2, <1>3 DEF Barren, Unwritten

LEMMA EndsResult ==
    ASSUME Typed, NEW e \in Executions, NEW o \in Ends, End(e, o)
    PROVE  ResultKept /\ (result[e] = None => result'[e] = o)
BY DEF Typed, RowsOK, End, ResultKept

\* A recorded outcome is the row's.
LEMMA RecordsResult ==
    ASSUME Typed, NEW c \in Slots, Record(c)
    PROVE  ResultKept /\ (MayEnd(co[c].ex) => result'[co[c].ex] = co[c].out)
<1>1. co[c].ex \in Executions /\ co[c].out \in Ends
  BY RecordIs, RecorderIs DEF Typed
<1>2. CASE MayEnd(co[c].ex)
  <2>1. End(co[c].ex, co[c].out) /\ result[co[c].ex] = None
    BY <1>1, <1>2 DEF Record, MayEnd, Active, Typed, RowsOK, Terminal
  <2> QED BY <1>1, <2>1, EndsResult
<1>3. CASE ~MayEnd(co[c].ex)
  BY <1>3 DEF Record, ResultKept
<1> QED BY <1>2, <1>3

LEMMA ResultStays ==
    ASSUME Typed, [Next]_vars
    PROVE  ResultKept
<1>1. ASSUME NEW c \in Slots, Step(c) PROVE ResultKept
  <2>1. CASE Record(c)
    BY <2>1, RecordsResult
  <2>2. CASE FailExecution(c)
    <3>1. co[c].ex \in Executions /\ End(co[c].ex, Failure("request"))
      BY <2>2, FailExecutionIs, HolderIs DEF FailExecution, Typed, Holds, Refused
    <3> QED BY <3>1, EndsResult, FailureIs
  <2>3. CASE ~Record(c) /\ ~FailExecution(c)
    <3>1. result' = result
      BY <1>1, <2>3 DEF Step, CreateExecution, MarkExecutionRunning, SandboxStatus, ResumeSandbox,
         ReplaceSandbox, EnsureFails, LookForPipe, OpenIo, WriteInput, AppendFailure, SteeringSession,
         Tell, MaxDuration, IdleCheck, PauseSandbox, PumpLine, PumpEof, PumpEnd, ListActive,
         AdoptSession, ReadLogs, RearmTimer, rows
    <3> QED BY <3>1 DEF ResultKept
  <2> QED BY <2>1, <2>2, <2>3
<1>2. CASE \/ \E p \in Procs : AppendMessages(p) \/ StreamEvents(p) \/ \E r \in Requests : Execute(r, p)
           \/ \E c \in Slots : Disconnect(c)
           \/ StartProcess \/ ProcessDies
  BY <1>2 DEF AppendMessages, StreamEvents, Execute, Disconnect, StartProcess, ProcessDies, rows,
              ResultKept
<1>3. CASE \E b \in Boxes : HarnessTakesLine(b) \/ HarnessEndsTurn(b) \/ SandboxDies(b)
  BY <1>3 DEF HarnessTakesLine, HarnessEndsTurn, SandboxDies, rows, ResultKept
<1>4. CASE UNCHANGED vars
  BY <1>4 DEF vars, ResultKept
<1> QED BY <1>1, <1>2, <1>3, <1>4 DEF Next

\* Whatever is told after a step is what the row says.
LEMMA TellersKept ==
    ASSUME Typed, Story, [Next]_vars
    PROVE  \A d \in Slots : At(d, "tell")' => (result[co[d].ex] = co[d].out)'
<1> SUFFICES ASSUME NEW d \in Slots, At(d, "tell")' PROVE result'[co'[d].ex] = co'[d].out
  OBVIOUS
<1>1. ToldBefore(d)
  BY StepBefore, MarkHolds DEF Before
<1>2. co'[d].ex = co[d].ex /\ co'[d].out = co[d].out
      /\ (At(d, "tell") \/ (Record(d) /\ MayEnd(co[d].ex)))
  BY <1>1 DEF ToldBefore
<1>3. CASE At(d, "tell")
  <2>1. co[d].ex \in Executions /\ co[d].out \in Ends
    BY <1>3, RecorderIs DEF Typed, At
  <2>2. result[co[d].ex] = co[d].out /\ co[d].out # None
    BY <1>3, <2>1, SessionAssumption DEF Story
  <2> QED BY <1>2, <2>1, <2>2, ResultStays DEF ResultKept
<1>4. CASE Record(d) /\ MayEnd(co[d].ex)
  BY <1>2, <1>4, RecordsResult
<1> QED BY <1>2, <1>3, <1>4

\* What was told stays true.
LEMMA TalesKept ==
    ASSUME Typed, Story, [Next]_vars, NEW e \in Executions
    PROVE  /\ "completed" \in told[e] => result'[e] # None /\ result'[e].ok
           /\ "failed" \in told[e] => (result'[e] # None /\ ~result'[e].ok) \/ Barren(e)'
BY ResultStays, BarrenStays DEF Story, ResultKept, BarrenKept

LEMMA WhoTells ==
    ASSUME [Next]_vars
    PROVE  told' = told \/ \E c \in Slots : AppendFailure(c) \/ Tell(c)
<1>1. ASSUME NEW c \in Slots, Step(c) PROVE told' = told \/ AppendFailure(c) \/ Tell(c)
  BY <1>1 DEF Step, CreateExecution, MarkExecutionRunning, SandboxStatus, ResumeSandbox,
         ReplaceSandbox, EnsureFails, LookForPipe, OpenIo, WriteInput, FailExecution, SteeringSession, Record,
         MaxDuration, IdleCheck, PauseSandbox, PumpLine, PumpEof, PumpEnd, ListActive,
         AdoptSession, ReadLogs, RearmTimer, rows
<1>2. CASE \/ \E p \in Procs : AppendMessages(p) \/ StreamEvents(p) \/ \E r \in Requests : Execute(r, p)
           \/ \E c \in Slots : Disconnect(c)
           \/ StartProcess \/ ProcessDies
  BY <1>2 DEF AppendMessages, StreamEvents, Execute, Disconnect, StartProcess, ProcessDies, rows
<1>3. CASE \E b \in Boxes : HarnessTakesLine(b) \/ HarnessEndsTurn(b) \/ SandboxDies(b)
  BY <1>3 DEF HarnessTakesLine, HarnessEndsTurn, SandboxDies, rows
<1>4. CASE UNCHANGED vars
  BY <1>4 DEF vars
<1> QED BY <1>1, <1>2, <1>3, <1>4 DEF Next

LEMMA StoryStep ==
    ASSUME Typed, Once, Story, [Next]_vars
    PROVE  Story'
<1>1. \A e \in Executions :
         /\ ("completed" \in told[e] => result[e] # None /\ result[e].ok)'
         /\ ("failed" \in told[e] => (result[e] # None /\ ~result[e].ok) \/ Barren(e))'
  <2>1. CASE told' = told
    BY <2>1, TalesKept
  <2>2. ASSUME NEW x \in Executions, NEW w,
               told' = [told EXCEPT ![x] = @ \cup {w}],
               w = "completed" => result'[x] # None /\ result'[x].ok,
               w = "failed" => (result'[x] # None /\ ~result'[x].ok) \/ Barren(x)'
        PROVE  \A e \in Executions :
         /\ ("completed" \in told[e] => result[e] # None /\ result[e].ok)'
         /\ ("failed" \in told[e] => (result[e] # None /\ ~result[e].ok) \/ Barren(e))'
    <3>1. \A e \in Executions : told'[e] = IF e = x THEN told[e] \cup {w} ELSE told[e]
      BY <2>2 DEF Typed, RowsOK
    <3> QED BY <2>2, <3>1, TalesKept
  <2>3. ASSUME NEW c \in Slots, AppendFailure(c)
        PROVE  \A e \in Executions :
         /\ ("completed" \in told[e] => result[e] # None /\ result[e].ok)'
         /\ ("failed" \in told[e] => (result[e] # None /\ ~result[e].ok) \/ Barren(e))'
    <3>1. co[c].kind = "request" /\ co[c].pc = "refuse"
      BY <2>3, AppendFailureIs DEF Typed
    <3>2. Holds(c) /\ co[c].ex \in Executions
      BY <3>1, HolderIs DEF Holds, Refused, Typed
    <3>3. PICK x \in Executions : x = co[c].ex
      BY <3>2
    <3>4. Barren(x)
      BY <3>1, <3>2, <3>3 DEF Once, Barren, Writing
    <3>5. Barren(x)'
      BY <3>4, BarrenStays DEF BarrenKept
    <3>6. told' = [told EXCEPT ![x] = @ \cup {"failed"}]
      BY <2>3, <3>3 DEF AppendFailure
    <3> QED BY <2>2, <3>5, <3>6
  <2>4. ASSUME NEW c \in Slots, Tell(c)
        PROVE  \A e \in Executions :
         /\ ("completed" \in told[e] => result[e] # None /\ result[e].ok)'
         /\ ("failed" \in told[e] => (result[e] # None /\ ~result[e].ok) \/ Barren(e))'
    <3>1. co[c].pc = "tell" /\ At(c, "tell")
      BY <2>4 DEF Tell, At
    <3>2. co[c].ex \in Executions /\ co[c].out \in Ends
      BY <3>1, RecorderIs DEF Typed, At
    <3>3. result[co[c].ex] = co[c].out /\ co[c].out # None /\ result' = result
      BY <2>4, <3>1, <3>2, SessionAssumption DEF Story, Tell
    <3>4. PICK x \in Executions : x = co[c].ex
      BY <3>2
    <3>5. PICK w : w = IF co[c].out.ok THEN "completed" ELSE "failed"
      OBVIOUS
    <3>6. told' = [told EXCEPT ![x] = @ \cup {w}]
      BY <2>4, <3>4, <3>5 DEF Tell
    <3>7. /\ w = "completed" => result'[x] # None /\ result'[x].ok
          /\ w = "failed" => result'[x] # None /\ ~result'[x].ok
      BY <3>3, <3>4, <3>5
    <3> QED BY <2>2, <3>6, <3>7
  <2> QED
    <3>1. told' = told \/ \E c \in Slots : AppendFailure(c) \/ Tell(c)
      BY WhoTells
    <3> QED BY <2>1, <2>3, <2>4, <3>1
<1> QED BY <1>1, TellersKept DEF Story

\* OneStory of SessionRuntime: clients are not told both that an execution completed and
\* that it failed, although pump, timer, adoption and failing request all tell, and the
\* failing request without a look at the row: where both is told, a request gave up before
\* it wrote any input, and a turn that was not the execution's own ended it
\* (record_execution_failure, record_terminal_output).
THEOREM OneStoryHolds == Spec => []OneStory
<1>1. Init => Typed /\ Once /\ Story
  <2> SUFFICES ASSUME Init PROVE Story
    BY TypedInit, OnceInit
  <2> QED BY DEF Init, Story, At
<1>2. (Typed /\ Once /\ Story) /\ [Next]_vars => (Typed /\ Once /\ Story)'
  BY TypedStep, OnceStep, StoryStep
<1>3. Typed /\ Once /\ Story => OneStory
  <2> SUFFICES ASSUME Typed, Once, Story, NEW e \in Executions, told[e] = Terminal
               PROVE  Foreign(e)
    BY DEF OneStory
  <2>1. result[e] # None /\ result[e].ok
    BY DEF Story, Terminal
  <2>2. Barren(e)
    BY <2>1 DEF Story, Terminal
  <2>3. result[e].by = "turn" /\ result[e].turn \in 1 .. Len(turns)
    BY <2>1 DEF Typed, RowsOK, EndOK, TurnOK
  <2>4. result[e].turn \in DOMAIN turns
    BY <2>3 DEF Typed, TurnsOK
  <2> QED BY <2>1, <2>2, <2>3, <2>4 DEF Barren, InputTurns, Foreign
<1> QED BY <1>1, <1>2, <1>3, PTL DEF Spec

-----------------------------------------------------------------------------
(* Answers are own: in a calm session, all that is on its way is of one turn, that *)
(* of the active execution, and it is in one place.                                *)

Calm == world.hazards \cap Guarded = {} /\ ~CutOff

Pump(c)      == co[c].kind = "pump"
Deaf(c)      == Pump(c) => co[c].buf = <<>>
Recording(c) == At(c, "record") /\ co[c].out.by = "turn"
Ended(c)     == co[c].pc = "eof" \/ (co[c].pc \in {"record", "tell"} /\ co[c].out.by = "eof")
Idle(b)      == box[b].now = 0 /\ box[b].input = <<>>
Quiet        == \A b \in Boxes : Idle(b)
InWork(b, t) == box[b].now = t \/ \E j \in DOMAIN box[b].input : box[b].input[j] = t
OfActive(t)  == turns[t].ex \in Active

\* What no hazard brings does not happen.
Plain ==
    /\ proc[2] # "new" => proc[1] = "dead"
    /\ \A c \in Slots : co[c].kind \notin {"steer", "stream", "idle"}
    /\ \A t \in DOMAIN turns : ~turns[t].steers
    /\ \A b \in Boxes : box[b].state # "suspended" /\ (Runs(b) => box[b].pod # 0)

\* Adoption is alone, but for the pump that it starts.
Adopting == \A c \in Slots : co[c].kind = "adopt" =>
    /\ proc[2] # "new"
    /\ \A d \in Slots \ {c} : co[d] = Free \/ (co[c].pc = "piped" /\ Pump(d))
    /\ co[c].pc \in {"adopt", "logs"} => co[c].ex \in Active

Held == \A c \in Slots : Holds(c) => co[c].ex \in Active

\* One pump reads a sandbox, as long as it runs.
Piping ==
    /\ \A c, d \in Slots : Pump(c) /\ Pump(d) /\ co[c].box = co[d].box => c = d
    /\ \A c \in Slots : Pump(c) /\ Runs(co[c].box) => pipe[co[c].proc][co[c].box] # 0 /\ ~co[c].eof
    /\ \A c \in Slots : Pump(c) /\ Ended(c) => co[c].eof
    /\ \A c, d \in Slots : At(c, "open") /\ Runs(co[c].box) /\ Pump(d) => co[d].box # co[c].box

\* What sandboxes have in work, one at a time; what pumps have to read, one at a time;
\* and what is recorded, when all else is silent.
Flight ==
    /\ \A b \in Boxes : \A t \in DOMAIN turns : InWork(b, t) => OfActive(t)
    /\ \A a, b \in Boxes : ~Idle(a) /\ ~Idle(b) => a = b
    /\ \A c \in Slots : Pump(c) => \A i \in DOMAIN co[c].buf :
          /\ OfActive(co[c].buf[i].turn)
          /\ co[c].buf[i].ends => Quiet /\ i = Len(co[c].buf)
          /\ \A b \in Boxes : box[b].input = <<>> /\ (box[b].now # 0 => b = co[c].box)
          /\ \A d \in Slots \ {c} : Deaf(d)
    /\ \A c \in Slots : Recording(c) =>
          /\ turns[co[c].out.turn].ex = co[c].ex /\ co[c].ex \in Active
          /\ Quiet /\ \A d \in Slots : Deaf(d)
          /\ \A d \in Slots : Recording(d) => c = d

\* The log tells answers apart: what it has since an active execution started is of that one.
Logged == \A b \in Boxes : \A i \in DOMAIN box[b].log :
    /\ \A a \in Boxes : ~InWork(a, box[b].log[i].turn)
    /\ \A e \in box[b].log[i].since :
          status[e] \notin Unwritten /\ (e \in Active => turns[box[b].log[i].turn].ex = e)

Owned == \A e \in Executions : ~Foreign(e)

Composed == Plain /\ Adopting /\ Held /\ Piping /\ Flight /\ Logged /\ Owned

\* Nothing is on its way.
Nothing == Quiet /\ \A d \in Slots : Deaf(d) /\ ~Recording(d)

LEMMA CalmBefore ==
    ASSUME Typed, [Next]_vars, Calm'
    PROVE  Calm /\ world' = world
<1>1. world' = world
  <2>1. ASSUME NEW c \in Slots, Step(c) PROVE world' = world
    BY <2>1 DEF Step, CreateExecution, MarkExecutionRunning, SandboxStatus, ResumeSandbox,
         ReplaceSandbox, EnsureFails, LookForPipe, OpenIo, WriteInput, AppendFailure, FailExecution,
         SteeringSession, Record, Tell, MaxDuration, IdleCheck, PauseSandbox, PumpLine, PumpEof,
         PumpEnd, ListActive, AdoptSession, ReadLogs, RearmTimer
  <2>2. CASE \/ \E p \in Procs : AppendMessages(p) \/ StreamEvents(p) \/ \E r \in Requests : Execute(r, p)
             \/ \E c \in Slots : Disconnect(c)
             \/ StartProcess \/ ProcessDies
    BY <2>2 DEF AppendMessages, StreamEvents, Execute, Disconnect, StartProcess, ProcessDies
  <2>3. CASE \E b \in Boxes : HarnessTakesLine(b) \/ HarnessEndsTurn(b) \/ SandboxDies(b)
    BY <2>3 DEF HarnessTakesLine, HarnessEndsTurn, SandboxDies
  <2>4. CASE UNCHANGED vars
    BY <2>4 DEF vars
  <2> QED BY <2>1, <2>2, <2>3, <2>4 DEF Next
<1>2. CutOff => CutOff'
  BY ResultStays DEF ResultKept, CutOff
<1> QED BY <1>1, <1>2 DEF Calm

\* The active execution has one turn at most, and a sandbox that is busy nothing else to do.
LEMMA OneTurn ==
    ASSUME Typed, Once, Plain, NEW t \in DOMAIN turns, NEW u \in DOMAIN turns, OfActive(t), OfActive(u)
    PROVE  t = u
BY DEF Typed, RowsOK, Once, Plain, OfActive

LEMMA WorkIs ==
    ASSUME Typed, NEW b \in Boxes
    PROVE  /\ box[b].now \in Nat /\ box[b].input \in Seq(Nat)
           /\ box[b].now # 0 => box[b].now \in DOMAIN turns /\ InWork(b, box[b].now)
           /\ \A j \in DOMAIN box[b].input :
                 box[b].input[j] \in DOMAIN turns /\ InWork(b, box[b].input[j])
<1>1. box[b] \in BoxRecords /\ InOrder(box[b]) /\ DOMAIN turns = 1 .. Len(turns)
  BY DEF Typed, BoxOK, TurnsOK
<1> QED BY <1>1 DEF BoxRecords, InOrder, TurnOK, InWork

LEMMA BusyIs ==
    ASSUME Typed, Once, Plain, Flight, NEW b \in Boxes
    PROVE  /\ box[b].now # 0 => box[b].input = <<>>
           /\ box[b].input # <<>> => Len(box[b].input) = 1
<1>1. box[b] \in BoxRecords /\ InOrder(box[b])
  BY DEF Typed, BoxOK
<1>2. PICK s \in Seq(Nat) : s = box[b].input
  BY <1>1 DEF BoxRecords
<1>3. \A j \in DOMAIN s : s[j] \in DOMAIN turns /\ OfActive(s[j]) /\ (box[b].now # 0 => box[b].now < s[j])
  BY <1>1, <1>2, WorkIs DEF Flight, InOrder
<1>4. box[b].now # 0 => box[b].now \in DOMAIN turns /\ OfActive(box[b].now)
  BY WorkIs DEF Flight
<1>5. \A i, j \in DOMAIN s : i < j => s[i] < s[j]
  BY <1>1, <1>2 DEF InOrder
<1>6. ASSUME box[b].now # 0, s # <<>> PROVE FALSE
  <2>1. 1 \in DOMAIN s /\ s[1] \in Nat /\ box[b].now \in Nat
    BY <1>2, <1>6, WorkIs
  <2>2. s[1] = box[b].now
    BY <1>3, <1>4, <1>6, <2>1, OneTurn
  <2> QED BY <1>3, <1>6, <2>1, <2>2
<1>7. ASSUME s # <<>>, Len(s) # 1 PROVE FALSE
  <2>1. 1 \in DOMAIN s /\ 2 \in DOMAIN s /\ s[1] \in Nat /\ s[2] \in Nat
    <3>1. Len(s) \in Nat /\ Len(s) # 0 /\ DOMAIN s = 1 .. Len(s)
      BY <1>7
    <3>2. Len(s) >= 2
      BY <1>7, <3>1
    <3>3. 1 \in DOMAIN s /\ 2 \in DOMAIN s
      BY <3>1, <3>2
    <3> QED BY <1>2, <3>3
  <2>2. s[1] = s[2]
    BY <1>3, <2>1, OneTurn
  <2> QED BY <1>5, <2>1, <2>2
<1> QED BY <1>2, <1>6, <1>7

\* Where the active execution has no turn, nothing is on its way.
LEMMA NothingIs ==
    ASSUME Typed, Flight, \A t \in DOMAIN turns : ~OfActive(t)
    PROVE  Nothing
<1>1. ASSUME NEW b \in Boxes PROVE Idle(b)
  <2>1. box[b].now = 0
    BY WorkIs DEF Flight
  <2>2. box[b].input = <<>>
    <3>1. PICK s \in Seq(Nat) : s = box[b].input
      BY WorkIs
    <3>2. 1 \notin DOMAIN s
      BY <3>1, WorkIs DEF Flight
    <3> QED BY <3>1, <3>2
  <2> QED BY <2>1, <2>2 DEF Idle
<1>2. ASSUME NEW d \in Slots, Pump(d) PROVE co[d].buf = <<>>
  <2>1. co[d] \in CoRecords /\ Fits(co[d])
    BY <1>2, Apart, AtIs DEF Pump, Typed
  <2>2. PICK s \in Seq(Output) : s = co[d].buf
    BY <2>1 DEF CoRecords
  <2>3. 1 \notin DOMAIN s
    <3>1. \A i \in DOMAIN s : s[i].turn \in DOMAIN turns
      BY <2>1, <2>2 DEF Fits, TurnOK, Typed, TurnsOK
    <3> QED BY <1>2, <2>2, <3>1 DEF Flight
  <2> QED BY <2>2, <2>3
<1>3. ASSUME NEW d \in Slots, Recording(d) PROVE FALSE
  <2>1. EndOK(co[d].out)
    BY <1>3, RecorderIs DEF Recording, At, Typed
  <2>2. co[d].out.turn \in DOMAIN turns
    BY <1>3, <2>1 DEF EndOK, TurnOK, Recording, Typed, TurnsOK
  <2> QED BY <1>3, <2>2 DEF Flight, OfActive
<1> QED BY <1>1, <1>2, <1>3 DEF Nothing, Quiet, Deaf

LEMMA NoneFlies ==
    ASSUME Typed', Nothing'
    PROVE  Flight'
<1>1. (\A b \in Boxes : \A t \in DOMAIN turns : ~InWork(b, t))'
  BY DEF Nothing, Quiet, Idle, InWork, Typed, TurnsOK
<1> QED BY <1>1 DEF Nothing, Quiet, Deaf, Flight

-----------------------------------------------------------------------------
(* What most steps leave to each part.                                             *)

Odd == {"steer", "stream", "idle"}

\* d has no more to read than it had, and records what it recorded; its pump or attachment
\* is as it was; it is of no odd kind, and no adoption that was not there.
Tame(d) ==
    /\ Pump(d)' => \/ Pump(d) /\ co'[d].box = co[d].box /\ co'[d].buf = co[d].buf
                   \/ co'[d].buf = <<>>
    /\ Recording(d)' => Recording(d) /\ co'[d].ex = co[d].ex /\ co'[d].out = co[d].out
Steady(d) ==
    /\ Pump(d)' => /\ Pump(d) /\ co'[d].box = co[d].box /\ co'[d].proc = co[d].proc
                   /\ co'[d].eof = co[d].eof
                   /\ Ended(d)' => Ended(d) \/ co[d].eof
    /\ At(d, "open")' => At(d, "open") /\ co'[d].box = co[d].box
Kinded(d) == co'[d].kind \notin Odd /\ (co'[d].kind = "adopt" => co[d].kind = "adopt")
Calmly(d) == Tame(d) /\ Steady(d) /\ Kinded(d)

LEMMA CalmStill ==
    ASSUME Plain, NEW d \in Slots, Still(d) \/ Gone(d)
    PROVE  Calmly(d)
<1>1. CASE Still(d)
  BY <1>1 DEF Calmly, Tame, Steady, Kinded, Pump, Recording, At, Ended, Still, Plain, Odd
<1>2. CASE Gone(d)
  <2>1. co'[d] = Free /\ co'[d].kind = "free"
    BY <1>2, Apart DEF Gone
  <2> QED BY <2>1 DEF Calmly, Tame, Steady, Kinded, Pump, Recording, At, Odd
<1> QED BY <1>1, <1>2

LEMMA CalmGoes ==
    ASSUME Plain, NEW d \in Slots, NEW p, NEW e, NEW b, NEW o, Goes(d, p, e, b, o),
           p # "open", p = "record" => o.by # "turn", Pump(d) => b = co[d].box,
           Pump(d) /\ (p = "eof" \/ (p \in {"record", "tell"} /\ o.by = "eof")) =>
              Ended(d) \/ co[d].eof
    PROVE  Calmly(d)
<1>1. PICK s : s = co'[d]
  OBVIOUS
<1>2. /\ s.kind = co[d].kind /\ s.proc = co[d].proc /\ s.pc = p /\ s.ex = e /\ s.box = b /\ s.out = o
      /\ s.buf = co[d].buf /\ s.eof = co[d].eof
  BY <1>1 DEF Goes, Altered
<1> QED BY <1>1, <1>2 DEF Calmly, Tame, Steady, Kinded, Pump, Recording, At, Ended, Plain, Odd

LEMMA CalmMoves ==
    ASSUME Plain, NEW d \in Slots, NEW p, Moves(d, p), p \notin {"open", "record"},
           p = "eof" => co[d].eof, p = "tell" => co[d].pc = "record"
    PROVE  Calmly(d)
BY CalmGoes DEF Moves, Ended

LEMMA CalmBorn ==
    ASSUME NEW d \in Slots, NEW k, NEW q, NEW p, NEW e, NEW b, Born(d, k, q, p, e, b),
           k \notin Odd, k \notin {"pump", "adopt"}, p \notin {"open", "record"}
    PROVE  Calmly(d)
<1>1. PICK s : s = co'[d]
  OBVIOUS
<1>2. s.kind = k /\ s.pc = p
  BY <1>1 DEF Born, New
<1> QED BY <1>1, <1>2 DEF Calmly, Tame, Steady, Kinded, Pump, Recording, At, Ended

LEMMA CalmOthers ==
    ASSUME Plain, NEW c \in Slots, Others(c), Calmly(c)
    PROVE  \A d \in Slots : Calmly(d)
BY CalmStill DEF Others

LEMMA CalmResumes ==
    ASSUME Plain, NEW c \in Slots, co[c].pc \in {"record", "tell"}, Resumes(c)
    PROVE  Calmly(c)
<1>1. CASE co[c].kind = "pump"
  <2>1. PICK p : p = IF co[c].out.by = "eof" THEN "eof" ELSE "read"
    OBVIOUS
  <2>2. Goes(c, p, None, co[c].box, None)
    BY <1>1, <2>1 DEF Resumes
  <2>3. p = "eof" => Ended(c)
    BY <2>1 DEF Ended
  <2> QED BY <2>1, <2>2, <2>3, CalmGoes
<1>2. CASE co[c].kind # "pump"
  BY <1>2, CalmStill DEF Resumes
<1> QED BY <1>1, <1>2

-----------------------------------------------------------------------------

TurnsGrow == \A t \in DOMAIN turns : t \in DOMAIN turns' /\ turns'[t] = turns[t]

LEMMA PlainKept ==
    ASSUME Plain, \A d \in Slots : Kinded(d), proc' = proc,
           turns' = turns,
           \A b \in Boxes : box'[b].state # "suspended" /\ (Runs(b)' => box'[b].pod # 0)
    PROVE  Plain'
BY DEF Plain, Kinded, Odd

LEMMA AdoptingNone ==
    ASSUME \A d \in Slots : co[d].kind # "adopt" /\ Kinded(d)
    PROVE  Adopting'
BY DEF Adopting, Kinded

\* A request or a timer means that no adoption goes on.
LEMMA AdoptAlone ==
    ASSUME Adopting, NEW c \in Slots, co[c] # Free, co[c].kind \notin {"adopt", "pump"}
    PROVE  \A d \in Slots : co[d].kind # "adopt"
BY DEF Adopting, Pump

\* The step of a pump beside an adoption.
LEMMA AdoptingPump ==
    ASSUME Adopting, NEW c \in Slots, co[c] # Free, co[c].kind = "pump", Others(c),
           co'[c] = Free \/ co'[c].kind = "pump", proc' = proc
    PROVE  Adopting'
<1> SUFFICES ASSUME NEW a \in Slots, co'[a].kind = "adopt"
             PROVE  /\ proc[2]' # "new"
                    /\ \A d \in Slots \ {a} : \/ co'[d] = Free
                                              \/ co'[a].pc = "piped" /\ co'[d].kind = "pump"
                    /\ co'[a].pc \in {"adopt", "logs"} => (co[a].ex \in Active)'
  BY DEF Adopting, Pump
<1>1. a # c
  BY Apart
<1>2. co'[a] = co[a]
  BY <1>1 DEF Others, Still
<1>3. co[a].pc = "piped" /\ proc[2] # "new"
  BY <1>1, <1>2 DEF Adopting
<1>4. \A d \in Slots \ {a} : co[d] = Free \/ co[d].kind = "pump"
  BY <1>2 DEF Adopting, Pump
<1> QED BY <1>2, <1>3, <1>4 DEF Others, Still

\* The step of an adoption.
LEMMA AdoptingSelf ==
    ASSUME Adopting, NEW c \in Slots, co[c].kind = "adopt", co[c].pc # "piped", Others(c), proc' = proc,
           co'[c].kind = "adopt" /\ co'[c].pc \in {"adopt", "logs"} => (co[c].ex \in Active)'
    PROVE  Adopting'
<1>1. \A d \in Slots \ {c} : co'[d] = Free
  BY DEF Adopting, Others, Still
<1> QED BY <1>1, Apart DEF Adopting

LEMMA HeldKept ==
    ASSUME Held, \A d \in Slots : Before(d), \A e \in Active : (e \in Active)'
    PROVE  Held'
BY DEF Held, Before, HeldBefore

LEMMA PipingKept ==
    ASSUME Piping, \A d \in Slots : Steady(d),
           \A b \in Boxes : Runs(b)' => \/ Runs(b)
                                        \/ \A d \in Slots : Pump(d) \/ At(d, "open") => co[d].box # b,
           \A p \in Procs, b \in Boxes : Runs(b) /\ pipe[p][b] # 0 => pipe'[p][b] # 0,
           \A d \in Slots : Pump(d) => co[d].proc \in Procs /\ co[d].box \in Boxes,
           \A d \in Slots : At(d, "open") => co[d].box \in Boxes
    PROVE  Piping'
<1>1. \A c, d \in Slots : (Pump(c) /\ Pump(d) /\ co[c].box = co[d].box)' => c = d
  BY DEF Piping, Steady
<1>2. ASSUME NEW c \in Slots, (Pump(c) /\ Runs(co[c].box))'
      PROVE  (pipe[co[c].proc][co[c].box] # 0 /\ ~co[c].eof)'
  <2>1. PICK p \in Procs, b \in Boxes : /\ p = co[c].proc /\ b = co[c].box
                                        /\ p = co'[c].proc /\ b = co'[c].box
    BY <1>2 DEF Steady
  <2>2. Pump(c) /\ Runs(b)' /\ co'[c].eof = co[c].eof
    BY <1>2, <2>1 DEF Steady, Runs
  <2>3. Runs(b)
    BY <2>1, <2>2
  <2>4. pipe[p][b] # 0 /\ ~co[c].eof
    BY <2>1, <2>2, <2>3 DEF Piping
  <2> QED BY <2>1, <2>2, <2>3, <2>4
<1>3. \A c \in Slots : (Pump(c) /\ Ended(c))' => co'[c].eof
  BY DEF Piping, Steady
<1>4. ASSUME NEW c \in Slots, NEW d \in Slots, (At(c, "open") /\ Runs(co[c].box) /\ Pump(d))'
      PROVE  co'[d].box # co'[c].box
  <2>1. PICK b \in Boxes : b = co[c].box /\ b = co'[c].box
    BY <1>4 DEF Steady
  <2>2. At(c, "open") /\ Runs(b)' /\ Pump(d) /\ co'[d].box = co[d].box
    BY <1>4, <2>1 DEF Steady, Runs
  <2>3. Runs(b)
    BY <2>1, <2>2
  <2> QED BY <2>1, <2>2, <2>3 DEF Piping
<1> QED BY <1>1, <1>2, <1>3, <1>4 DEF Piping

LEMMA FlightKept ==
    ASSUME Typed, Flight, \A d \in Slots : Tame(d), turns' = turns, Active' = Active,
           \A b \in Boxes : \/ box'[b].now = box[b].now /\ box'[b].input = box[b].input
                            \/ Idle(b)'
    PROVE  Flight'
<1>1. \A b \in Boxes : \A t \in DOMAIN turns' : InWork(b, t)' => OfActive(t)'
  <2> SUFFICES ASSUME NEW b \in Boxes, NEW t \in DOMAIN turns, InWork(b, t)' PROVE OfActive(t)
    BY DEF OfActive
  <2>1. InWork(b, t)
    BY DEF InWork, Idle, Typed, TurnsOK
  <2> QED BY <2>1 DEF Flight
<1>2. \A b \in Boxes : Idle(b) => Idle(b)'
  BY DEF Idle
<1>3. \A d \in Slots : Deaf(d) => Deaf(d)'
  BY DEF Deaf, Tame
<1>4. Quiet => Quiet'
  BY <1>2 DEF Quiet
<1>5. \A a, b \in Boxes : ~Idle(a)' /\ ~Idle(b)' => a = b
  BY <1>2 DEF Flight
<1>6. ASSUME NEW c \in Slots, Pump(c)', NEW i \in DOMAIN co'[c].buf
      PROVE  (/\ OfActive(co[c].buf[i].turn)
              /\ co[c].buf[i].ends => Quiet /\ i = Len(co[c].buf)
              /\ \A b \in Boxes : box[b].input = <<>> /\ (box[b].now # 0 => b = co[c].box)
              /\ \A d \in Slots \ {c} : Deaf(d))'
  <2>1. Pump(c) /\ co'[c].box = co[c].box /\ co'[c].buf = co[c].buf /\ i \in DOMAIN co[c].buf
    BY <1>6 DEF Tame
  <2>2. /\ OfActive(co[c].buf[i].turn)
        /\ co[c].buf[i].ends => Quiet /\ i = Len(co[c].buf)
        /\ \A b \in Boxes : box[b].input = <<>> /\ (box[b].now # 0 => b = co[c].box)
        /\ \A d \in Slots \ {c} : Deaf(d)
    BY <2>1 DEF Flight
  <2>3. \A b \in Boxes : box'[b].input = <<>> /\ (box'[b].now # 0 => b = co[c].box)
    BY <2>2 DEF Idle
  <2> QED BY <1>3, <1>4, <2>1, <2>2, <2>3 DEF OfActive
<1>7. ASSUME NEW c \in Slots, Recording(c)'
      PROVE  (/\ turns[co[c].out.turn].ex = co[c].ex /\ co[c].ex \in Active
              /\ Quiet /\ \A d \in Slots : Deaf(d)
              /\ \A d \in Slots : Recording(d) => c = d)'
  <2>1. Recording(c) /\ co'[c].ex = co[c].ex /\ co'[c].out = co[c].out
    BY <1>7 DEF Tame
  <2>2. /\ turns[co[c].out.turn].ex = co[c].ex /\ co[c].ex \in Active
        /\ Quiet /\ \A d \in Slots : Deaf(d)
        /\ \A d \in Slots : Recording(d) => c = d
    BY <2>1 DEF Flight
  <2>3. \A d \in Slots : Recording(d)' => c = d
    BY <2>2 DEF Tame
  <2> QED BY <1>3, <1>4, <2>1, <2>2, <2>3
<1> QED BY <1>1, <1>5, <1>6, <1>7 DEF Flight

LEMMA LoggedKept ==
    ASSUME Typed, Logged, StatusKept, TurnsGrow,
           \A e \in Executions : (e \in Active)' => e \in Active \/ status[e] \in Unwritten,
           \A b \in Boxes : box'[b].log = box[b].log \/ box'[b].log = <<>>,
           \A b \in Boxes : \A t \in DOMAIN turns : InWork(b, t)' => \E a \in Boxes : InWork(a, t)
    PROVE  Logged'
<1> SUFFICES ASSUME NEW b \in Boxes, NEW i \in DOMAIN box'[b].log
             PROVE  (/\ \A a \in Boxes : ~InWork(a, box[b].log[i].turn)
                     /\ \A e \in box[b].log[i].since :
                          /\ status[e] \notin Unwritten
                          /\ e \in Active => turns[box[b].log[i].turn].ex = e)'
  BY DEF Logged
<1>1. box'[b].log = box[b].log /\ i \in DOMAIN box[b].log
  OBVIOUS
<1>2. PICK l \in Line : l = box[b].log[i]
  <2>1. box[b].log \in Seq(Line)
    BY BoxIs DEF Typed
  <2> QED BY <1>1, <2>1, Element
<1>3. l.turn \in DOMAIN turns /\ l.since \subseteq Executions
  BY <1>1, <1>2 DEF Line, Typed, BoxOK, InOrder, TurnOK, TurnsOK
<1>4. /\ \A a \in Boxes : ~InWork(a, l.turn)
      /\ \A e \in l.since : status[e] \notin Unwritten /\ (e \in Active => turns[l.turn].ex = e)
  BY <1>1, <1>2 DEF Logged
<1>5. \A a \in Boxes : ~InWork(a, l.turn)'
  BY <1>3, <1>4
<1>6. \A e \in l.since : status'[e] \notin Unwritten /\ ((e \in Active)' => turns'[l.turn].ex = e)
  BY <1>3, <1>4 DEF StatusKept, TurnsGrow
<1> QED BY <1>1, <1>2, <1>5, <1>6 DEF Unwritten

LEMMA OwnedKept ==
    ASSUME Typed, Owned, TurnsGrow,
           \A e \in Executions : result'[e] = result[e] \/ result'[e].by # "turn"
    PROVE  Owned'
<1> SUFFICES ASSUME NEW e \in Executions, Foreign(e)' PROVE FALSE
  BY DEF Owned
<1>1. result'[e] = result[e] /\ result[e] # None /\ result[e].by = "turn"
  BY DEF Foreign
<1>2. result[e].turn \in DOMAIN turns
  BY <1>1 DEF Typed, RowsOK, EndOK, TurnOK, TurnsOK
<1> QED BY <1>1, <1>2 DEF Owned, Foreign, TurnsGrow

-----------------------------------------------------------------------------
(* The steps that leave everything but coroutines alone.                           *)

LEMMA CalmWorld ==
    ASSUME Calm
    PROVE  \A h \in Guarded : ~Hazard(h)
BY DEF Calm, Hazard

LEMMA CallersCalmly ==
    ASSUME Typed, Calm, Plain,
           \/ \E p \in Procs, r \in Requests : Execute(r, p)
           \/ \E c \in Slots : Disconnect(c)
           \/ ProcessDies
    PROVE  \A d \in Slots : Calmly(d)
<1>1. CoOK /\ BoxOK /\ WorldOK
  BY DEF Typed
<1>2. ASSUME NEW p \in Procs, NEW r \in Requests, Execute(r, p) PROVE \A d \in Slots : Calmly(d)
  BY <1>1, <1>2, ExecuteIs, CalmBorn, CalmOthers DEF Odd
<1>3. ASSUME NEW c \in Slots, Disconnect(c) PROVE \A d \in Slots : Calmly(d)
  BY <1>1, <1>3, DisconnectIs, CalmStill, CalmOthers
<1>4. CASE ProcessDies
  BY <1>1, <1>4, ProcessDiesIs, CalmStill
<1> QED BY <1>2, <1>3, <1>4

LEMMA RequestsCalmly ==
    ASSUME Typed, Calm, Plain, NEW c \in Slots,
           CreateExecution(c) \/ MarkExecutionRunning(c) \/ SandboxStatus(c) \/ ResumeSandbox(c)
           \/ ReplaceSandbox(c) \/ EnsureFails(c) \/ WriteInput(c) \/ AppendFailure(c)
           \/ FailExecution(c)
    PROVE  \A d \in Slots : Calmly(d)
<1>1. CoOK /\ BoxOK
  BY DEF Typed
<1>2. CASE CreateExecution(c)
  BY <1>1, <1>2, CreateExecutionIs, CalmStill, CalmMoves, CalmOthers
<1>3. CASE MarkExecutionRunning(c)
  BY <1>1, <1>3, MarkExecutionRunningIs, CalmStill, CalmMoves, CalmOthers
<1>4. CASE SandboxStatus(c)
  BY <1>1, <1>4, SandboxStatusIs, CalmMoves, CalmOthers
<1>5. CASE ResumeSandbox(c)
  BY <1>1, <1>5, ResumeSandboxIs, CalmMoves, CalmOthers
<1>6. CASE ReplaceSandbox(c)
  <2>1. co[c].kind = "request" /\ Others(c) /\ \E b : Goes(c, "look", co[c].ex, b, co[c].out)
    BY <1>1, <1>6, ReplaceSandboxIs
  <2>2. ~Pump(c)
    BY <2>1 DEF Pump
  <2> QED BY <2>1, <2>2, CalmGoes, CalmOthers
<1>7. CASE WriteInput(c)
  BY <1>1, <1>7, WriteInputIs, CalmStill, CalmMoves, CalmBorn, CalmOthers DEF Odd
<1>8. CASE AppendFailure(c)
  BY <1>1, <1>8, AppendFailureIs, CalmMoves, CalmOthers
<1>9. CASE FailExecution(c)
  BY <1>1, <1>9, FailExecutionIs, CalmStill, CalmOthers
<1>10. CASE EnsureFails(c)
  BY <1>1, <1>10, EnsureFailsIs, CalmMoves, CalmOthers
<1> QED BY <1>2, <1>3, <1>4, <1>5, <1>6, <1>7, <1>8, <1>9, <1>10

LEMMA OthersCalmly ==
    ASSUME Typed, Calm, Plain, NEW c \in Slots,
           Record(c) \/ Tell(c) \/ MaxDuration(c) \/ PumpEof(c) \/ PumpEnd(c) \/ ListActive(c)
           \/ AdoptSession(c) \/ RearmTimer(c)
    PROVE  \A d \in Slots : Calmly(d)
<1>1. CoOK /\ BoxOK
  BY DEF Typed
<1>2. CASE Record(c)
  BY <1>1, <1>2, RecordIs, CalmMoves, CalmResumes, CalmOthers
<1>3. CASE Tell(c)
  <2>1. ~Hazard("idle")
    BY CalmWorld DEF Guarded
  <2> QED BY <1>1, <1>3, <2>1, TellIs, CalmResumes, CalmOthers
<1>4. CASE MaxDuration(c)
  <2>1. co[c].kind = "timer" /\ Others(c) /\ ~Pump(c)
        /\ (Goes(c, "record", co[c].ex, co[c].box, Failure("timeout")) \/ Gone(c))
    BY <1>1, <1>4, MaxDurationIs DEF Pump
  <2> QED BY <2>1, FailureIs, CalmGoes, CalmStill, CalmOthers
<1>5. CASE PumpEof(c)
  <2>1. /\ Others(c) /\ co[c].eof
        /\ \/ Goes(c, "record", TheActive, co[c].box, Failure("eof"))
           \/ Moves(c, "eof")
    BY <1>1, <1>5, PumpEofIs
  <2> QED BY <2>1, FailureIs, CalmGoes, CalmMoves, CalmOthers
<1>6. CASE PumpEnd(c)
  BY <1>1, <1>6, PumpEndIs, CalmStill, CalmOthers
<1>7. CASE ListActive(c)
  <2>1. /\ Others(c) /\ ~Pump(c)
        /\ \/ Gone(c)
           \/ Goes(c, "record", TheActive, co[c].box, Failure("orphan"))
           \/ Goes(c, "adopt", TheActive, co[c].box, co[c].out)
    BY <1>1, <1>7, ListActiveIs DEF Pump
  <2> QED BY <2>1, FailureIs, CalmGoes, CalmStill, CalmOthers
<1>8. CASE AdoptSession(c)
  <2>1. /\ Others(c) /\ ~Pump(c)
        /\ \/ Goes(c, "logs", co[c].ex, assigned, None)
           \/ Goes(c, "record", co[c].ex, assigned, Failure("orphan"))
    BY <1>1, <1>8, AdoptSessionIs DEF Pump
  <2> QED BY <2>1, FailureIs, CalmGoes, CalmOthers
<1>9. CASE RearmTimer(c)
  BY <1>1, <1>9, RearmTimerIs, CalmBorn, CalmOthers DEF Odd
<1> QED BY <1>2, <1>3, <1>4, <1>5, <1>6, <1>7, <1>8, <1>9

\* Where coroutines are that have a pump or want one.
LEMMA PlacedIs ==
    ASSUME Typed
    PROVE  /\ \A d \in Slots : Pump(d) => co[d].proc \in Procs /\ co[d].box \in Boxes
           /\ \A d \in Slots : At(d, "open") => co[d].box \in Boxes
<1>1. ASSUME NEW d \in Slots, Pump(d) PROVE co[d].proc \in Procs /\ co[d].box \in Boxes
  <2>1. co[d] \in CoRecords /\ Fits(co[d])
    BY <1>1, Apart, AtIs DEF Pump, Typed
  <2> QED BY <1>1, <2>1 DEF Fits, Good, WantsBox, CoRecords, Pump
<1> QED BY <1>1, LookerIs DEF At, Typed

LEMMA RowsComposed ==
    ASSUME Typed, Composed, \A d \in Slots : Calmly(d), Adopting', Held', Flight', Owned',
           proc' = proc, turns' = turns, box' = box, StatusKept,
           \A e \in Executions : (e \in Active)' => e \in Active \/ status[e] \in Unwritten,
           \A p \in Procs, b \in Boxes : Runs(b) /\ pipe[p][b] # 0 => pipe'[p][b] # 0
    PROVE  Composed'
<1>1. Plain'
  BY PlainKept DEF Composed, Calmly, Plain, Runs
<1>2. Piping'
  <2>1. \A b \in Boxes : Runs(b)' => Runs(b)
    BY DEF Runs
  <2>2. \A d \in Slots : Steady(d)
    BY DEF Calmly
  <2> QED BY <2>1, <2>2, PlacedIs, PipingKept DEF Composed
<1>3. Logged'
  <2>1. \A b \in Boxes : \A t \in DOMAIN turns : InWork(b, t)' => InWork(b, t)
    BY DEF InWork
  <2>2. TurnsGrow
    BY DEF TurnsGrow
  <2> QED BY <2>1, <2>2, LoggedKept DEF Composed
<1> QED BY <1>1, <1>2, <1>3 DEF Composed

LEMMA ComposedKept ==
    ASSUME Typed, Composed, \A d \in Slots : Calmly(d) /\ Before(d), Adopting',
           proc' = proc, turns' = turns, box' = box, status' = status, result' = result,
           \A p \in Procs, b \in Boxes : Runs(b) /\ pipe[p][b] # 0 => pipe'[p][b] # 0
    PROVE  Composed'
<1>1. Active' = Active /\ StatusKept /\ TurnsGrow
  BY DEF Active, StatusKept, TurnsGrow
<1>2. Held'
  BY <1>1, HeldKept DEF Composed
<1>3. Flight'
  BY <1>1, FlightKept DEF Composed, Calmly
<1>4. Owned'
  BY <1>1, OwnedKept DEF Composed
<1> QED BY <1>1, <1>2, <1>3, <1>4, RowsComposed

\* The step of a request or a timer.
LEMMA AdoptingOthers ==
    ASSUME Adopting, NEW c \in Slots, co[c] # Free, co[c].kind \notin {"adopt", "pump"},
           \A d \in Slots : Calmly(d)
    PROVE  Adopting'
BY AdoptAlone, AdoptingNone DEF Calmly

\* Whoever goes on as what it was, or not at all.
LEMMA AdoptingSame ==
    ASSUME Adopting, NEW c \in Slots, co[c] # Free, Others(c), proc' = proc,
           \A d \in Slots : Calmly(d),
           Gone(c) \/ co'[c].kind = co[c].kind,
           co[c].kind = "adopt" => co[c].pc # "piped" /\ (Gone(c) \/ co'[c].pc \notin {"adopt", "logs"})
    PROVE  Adopting'
<1>1. CASE co[c].kind = "pump"
  BY <1>1, AdoptingPump DEF Gone
<1>2. CASE co[c].kind = "adopt"
  BY <1>2, Apart, AdoptingSelf DEF Gone
<1>3. CASE co[c].kind \notin {"adopt", "pump"}
  BY <1>3, AdoptingOthers
<1> QED BY <1>1, <1>2, <1>3

LEMMA CallersComposed ==
    ASSUME Typed, Calm, Composed,
           \/ \E p \in Procs, r \in Requests : Execute(r, p)
           \/ \E c \in Slots : Disconnect(c)
    PROVE  Composed'
<1>1. \A d \in Slots : Calmly(d) /\ Before(d)
  BY CallersCalmly, HeldByCallers DEF Composed
<1>2. ASSUME NEW p \in Procs, NEW r \in Requests, Execute(r, p) PROVE Composed'
  <2>1. Adopting'
    <3>1. ~Hazard("busy")
      BY CalmWorld DEF Guarded
    <3>2. \A d \in Slots : co[d].kind # "adopt"
      BY <1>2, <3>1 DEF Execute, Is
    <3> QED BY <1>1, <3>2, AdoptingNone DEF Calmly
  <2>2. UNCHANGED <<proc, turns, box, status, result, pipe>>
    BY <1>2 DEF Execute, rows
  <2> QED BY <1>1, <2>1, <2>2, ComposedKept
<1>3. ASSUME NEW c \in Slots, Disconnect(c) PROVE Composed'
  <2>1. co[c].kind = "request" /\ co[c] # Free
    BY <1>3, Apart DEF Disconnect, Is
  <2>2. Adopting'
    BY <1>1, <2>1, AdoptingOthers DEF Composed
  <2>3. UNCHANGED <<proc, turns, box, status, result, pipe>>
    BY <1>3 DEF Disconnect, rows
  <2> QED BY <1>1, <2>2, <2>3, ComposedKept
<1> QED BY <1>2, <1>3

LEMMA RequestsComposed ==
    ASSUME Typed, Calm, Composed, NEW c \in Slots,
           SandboxStatus(c) \/ ResumeSandbox(c) \/ EnsureFails(c) \/ AppendFailure(c)
    PROVE  Composed'
<1>1. \A d \in Slots : Calmly(d) /\ Before(d)
  BY RequestsCalmly, HeldByRequests DEF Composed
<1>2. CoOK /\ BoxOK
  BY DEF Typed
<1>3. co[c] # Free /\ co[c].kind = "request" /\ (co[c].box # None => co[c].box \in Boxes)
  <2>1. co[c] # Free /\ co[c].kind = "request"
    BY <1>2, SandboxStatusIs, ResumeSandboxIs, EnsureFailsIs, AppendFailureIs
  <2>2. co[c] \in CoRecords
    BY <1>2, <2>1, AtIs
  <2> QED BY <2>1, <2>2 DEF CoRecords
<1>4. Adopting'
  BY <1>1, <1>3, AdoptingOthers DEF Composed
<1>5. \A b \in Boxes : box[b].state # "suspended"
  BY DEF Composed, Plain
<1>6. CASE SandboxStatus(c)
  <2>1. UNCHANGED <<proc, turns, box, status, result, pipe>>
    BY <1>3, <1>5, <1>6 DEF SandboxStatus, rows
  <2> QED BY <1>1, <1>4, <2>1, ComposedKept
<1>7. CASE ResumeSandbox(c)
  <2>1. co[c].box \in Boxes
    BY <1>2, <1>7, ResumeSandboxIs
  <2>2. UNCHANGED <<proc, turns, box, status, result, pipe>>
    BY <1>5, <1>7, <2>1 DEF ResumeSandbox, rows
  <2> QED BY <1>1, <1>4, <2>2, ComposedKept
<1>8. CASE EnsureFails(c) \/ AppendFailure(c)
  <2>1. UNCHANGED <<proc, turns, box, status, result, pipe>>
    BY <1>8 DEF EnsureFails, AppendFailure, rows
  <2> QED BY <1>1, <1>4, <2>1, ComposedKept
<1> QED BY <1>6, <1>7, <1>8

LEMMA RecordersComposed ==
    ASSUME Typed, Calm, Composed, NEW c \in Slots,
           Tell(c) \/ (Record(c) /\ ~MayEnd(co[c].ex)) \/ MaxDuration(c)
    PROVE  Composed'
<1>1. \A d \in Slots : Calmly(d) /\ Before(d)
  BY OthersCalmly, HeldByOthers DEF Composed
<1>2. CoOK /\ BoxOK
  BY DEF Typed
<1>3. CASE Tell(c) \/ (Record(c) /\ ~MayEnd(co[c].ex))
  <2>1. ~Hazard("idle")
    BY CalmWorld DEF Guarded
  <2>2. co[c] # Free /\ co[c].pc \in {"record", "tell"} /\ Others(c) /\ Resumes(c)
    BY <1>2, <1>3, <2>1, TellIs, RecordIs
  <2>3. Gone(c) \/ (co'[c].kind = co[c].kind /\ co[c].kind = "pump")
    BY <2>2 DEF Resumes, Goes, Altered
  <2>4. UNCHANGED <<proc, turns, box, status, result, pipe>>
    BY <1>3 DEF Tell, Record
  <2>5. co[c].kind = "adopt" => co[c].pc # "piped" /\ Gone(c)
    BY <2>2, <2>3
  <2>6. Adopting'
    BY <1>1, <2>2, <2>3, <2>4, <2>5, AdoptingSame DEF Composed
  <2> QED BY <1>1, <2>4, <2>6, ComposedKept
<1>4. CASE MaxDuration(c)
  <2>1. co[c] # Free /\ co[c].kind = "timer"
    BY <1>2, <1>4, MaxDurationIs
  <2>2. Adopting'
    BY <1>1, <2>1, AdoptingOthers DEF Composed
  <2>3. UNCHANGED <<proc, turns, box, status, result, pipe>>
    BY <1>4 DEF MaxDuration, rows
  <2> QED BY <1>1, <2>2, <2>3, ComposedKept
<1> QED BY <1>3, <1>4

LEMMA PumpEndsComposed ==
    ASSUME Typed, Calm, Composed, NEW c \in Slots, PumpEof(c) \/ PumpEnd(c)
    PROVE  Composed'
<1>1. \A d \in Slots : Calmly(d) /\ Before(d)
  BY OthersCalmly, HeldByOthers DEF Composed
<1>2. CoOK /\ BoxOK
  BY DEF Typed
<1>3. co[c] # Free /\ co[c].kind = "pump" /\ Others(c) /\ (Gone(c) \/ co'[c].kind = co[c].kind)
  BY <1>2, PumpEofIs, PumpEndIs DEF Moves, Goes, Altered
<1>4. UNCHANGED <<proc, turns, box, status, result>>
  BY DEF PumpEof, PumpEnd, rows
<1>5. Adopting'
  BY <1>1, <1>3, <1>4, AdoptingSame DEF Composed
<1>6. ASSUME NEW p \in Procs, NEW b \in Boxes, Runs(b), pipe[p][b] # 0 PROVE pipe'[p][b] # 0
  <2>1. CASE PumpEof(c)
    BY <1>6, <2>1 DEF PumpEof
  <2>2. CASE PumpEnd(c)
    <3>1. co[c].pc = "eof" /\ co[c].proc \in Procs /\ co[c].box \in Boxes
      BY <1>2, <2>2, PumpEndIs
    <3>2. ~Runs(co[c].box)
      BY <1>3, <3>1 DEF Composed, Piping, Pump, Ended
    <3>3. pipe' = [pipe EXCEPT ![co[c].proc][co[c].box] = 0]
      BY <2>2 DEF PumpEnd
    <3>4. b # co[c].box
      BY <1>6, <3>2
    <3>5. pipe \in [Procs -> [Boxes -> Nat]]
      BY <1>2 DEF BoxOK
    <3> QED BY <1>6, <3>1, <3>3, <3>4, <3>5
  <2> QED BY <2>1, <2>2
<1> QED BY <1>1, <1>4, <1>5, <1>6, ComposedKept

LEMMA AdoptersComposed ==
    ASSUME Typed, Calm, Composed, NEW c \in Slots, ListActive(c) \/ AdoptSession(c) \/ RearmTimer(c)
    PROVE  Composed'
<1>1. \A d \in Slots : Calmly(d) /\ Before(d)
  BY OthersCalmly, HeldByOthers DEF Composed
<1>2. CoOK /\ BoxOK
  BY DEF Typed
<1>3. co[c] # Free /\ co[c].kind = "adopt" /\ Others(c)
  BY <1>2, ListActiveIs, AdoptSessionIs, RearmTimerIs
<1>4. UNCHANGED <<proc, turns, box, status, result, pipe>>
  BY DEF ListActive, AdoptSession, RearmTimer, rows
<1>5. Active' = Active
  BY <1>4 DEF Active
<1>6. CASE ListActive(c) \/ AdoptSession(c)
  <2>1. co[c].pc # "piped"
    BY <1>2, <1>6, ListActiveIs, AdoptSessionIs
  <2>2. co'[c].kind = "adopt" /\ co'[c].pc \in {"adopt", "logs"} => (co[c].ex \in Active)'
    <3>1. CASE ListActive(c)
      <4>1. \/ Gone(c)
            \/ TheActive \in Active /\ co'[c].ex = TheActive
        BY <1>2, <3>1, ListActiveIs DEF Goes, Altered
      <4> QED BY <1>5, <4>1, Apart DEF Gone
    <3>2. CASE AdoptSession(c)
      <4>1. co'[c].ex = co[c].ex /\ co[c].pc = "adopt"
        BY <1>2, <3>2, AdoptSessionIs DEF Goes, Altered
      <4>2. co[c].ex \in Active
        BY <1>3, <4>1 DEF Composed, Adopting
      <4> QED BY <1>5, <4>1, <4>2
    <3> QED BY <1>6, <3>1, <3>2
  <2>3. Adopting'
    BY <1>3, <1>4, <2>1, <2>2, AdoptingSelf DEF Composed
  <2> QED BY <1>1, <1>4, <2>3, ComposedKept
<1>7. CASE RearmTimer(c)
  <2>1. co'[c].kind = "timer"
    BY <1>2, <1>7, RearmTimerIs DEF Born, New
  <2>2. \A d \in Slots \ {c} : co[d].kind # "adopt" /\ co'[d] = co[d]
    <3>1. \A d \in Slots \ {c} : co[d] = Free \/ Pump(d)
      BY <1>3 DEF Composed, Adopting
    <3> QED BY <1>3, <3>1, Apart DEF Others, Still, Pump
  <2>3. Adopting'
    BY <2>1, <2>2 DEF Adopting
  <2> QED BY <1>1, <1>4, <2>3, ComposedKept
<1> QED BY <1>6, <1>7

-----------------------------------------------------------------------------
(* The steps that change rows.                                                     *)

\* Nothing comes on its way where sandboxes stay.
LEMMA NothingStays ==
    ASSUME Nothing, box' = box, \A d \in Slots : Calmly(d)
    PROVE  Nothing'
BY DEF Nothing, Quiet, Idle, Deaf, Calmly, Tame

\* A turn of the active execution is its input.
LEMMA InputIs ==
    ASSUME Typed, Plain, NEW e \in Active, NEW t \in DOMAIN turns, OfActive(t)
    PROVE  t \in InputTurns(e)
BY DEF Typed, RowsOK, Plain, OfActive, InputTurns

LEMMA CreateExecutionComposed ==
    ASSUME Typed, Typed', Calm, Composed, NEW c \in Slots, CreateExecution(c)
    PROVE  Composed'
<1>1. \A d \in Slots : Calmly(d) /\ Before(d)
  BY RequestsCalmly, HeldByRequests DEF Composed
<1>2. co[c] # Free /\ co[c].kind = "request" /\ co[c].ex \in Executions
  <2>1. co[c] # Free /\ co[c].kind = "request"
    BY CreateExecutionIs DEF Typed
  <2> QED BY <2>1, AtIs DEF Typed, Fits, Good, WantsEx, CoRecords
<1>3. UNCHANGED <<proc, turns, box, result, pipe>>
  BY DEF CreateExecution
<1>4. Adopting'
  BY <1>1, <1>2, AdoptingOthers DEF Composed
<1>5. CASE status' = status
  BY <1>1, <1>3, <1>4, <1>5, ComposedKept
<1>6. CASE status' # status
  <2>1. /\ Active = {} /\ status[co[c].ex] = "none"
        /\ status' = [status EXCEPT ![co[c].ex] = "queued"]
    BY <1>6 DEF CreateExecution, MayCreate
  <2>2. Flight'
    <3>1. Nothing
      BY <2>1, NothingIs DEF Composed, OfActive
    <3> QED BY <1>1, <1>3, <3>1, NothingStays, NoneFlies
  <2>3. StatusKept /\ \A e \in Executions : (e \in Active)' => status[e] \in Unwritten
    BY <1>2, <2>1 DEF StatusKept, Unwritten, Active, Typed, RowsOK
  <2>4. Held'
    BY <1>1, <2>1, HeldKept DEF Composed
  <2>5. Owned'
    BY <1>3, OwnedKept DEF Composed, TurnsGrow
  <2> QED BY <1>1, <1>3, <1>4, <2>2, <2>3, <2>4, <2>5, RowsComposed
<1> QED BY <1>5, <1>6

LEMMA MarkExecutionRunningComposed ==
    ASSUME Typed, Calm, Composed, NEW c \in Slots, MarkExecutionRunning(c)
    PROVE  Composed'
<1>1. \A d \in Slots : Calmly(d)
  BY RequestsCalmly DEF Composed
<1>2. co[c] # Free /\ co[c].kind = "request" /\ co[c].ex \in Executions
  <2>1. co[c] # Free /\ co[c].kind = "request"
    BY MarkExecutionRunningIs DEF Typed
  <2> QED BY <2>1, AtIs DEF Typed, Fits, Good, WantsEx, CoRecords
<1>3. UNCHANGED <<proc, turns, box, result, pipe>>
  BY DEF MarkExecutionRunning
<1>4. Adopting'
  BY <1>1, <1>2, AdoptingOthers DEF Composed
<1>5. Active' = Active
  BY <1>2 DEF MarkExecutionRunning, MayClaim, Active, Typed, RowsOK
<1>6. StatusKept
  BY MarkHolds
<1>7. Held'
  <2>1. \A d \in Slots \ {c} : Holds(d)' => Holds(d) /\ co'[d].ex = co[d].ex
    BY MarkHolds DEF Before, HeldBefore
  <2>2. Holds(c)' => status[co[c].ex] = "queued" /\ co'[c].ex = co[c].ex
    BY MarkHolds
  <2>3. status[co[c].ex] = "queued" => co[c].ex \in Active
    BY <1>2 DEF Active
  <2> QED BY <1>5, <2>1, <2>2, <2>3 DEF Composed, Held
<1>8. Flight'
  BY <1>1, <1>3, <1>5, FlightKept DEF Composed, Calmly
<1>9. Owned'
  BY <1>3, OwnedKept DEF Composed, TurnsGrow
<1> QED BY <1>1, <1>3, <1>4, <1>5, <1>6, <1>7, <1>8, <1>9, RowsComposed

LEMMA FailExecutionComposed ==
    ASSUME Typed, Typed', Once, Calm, Composed, NEW c \in Slots, FailExecution(c)
    PROVE  Composed'
<1>1. \A d \in Slots : Calmly(d) /\ Before(d)
  BY RequestsCalmly, HeldByRequests DEF Composed
<1>2. co[c] # Free /\ co[c].kind = "request" /\ co[c].pc = "failrow" /\ Gone(c)
  BY FailExecutionIs DEF Typed
<1>3. PICK e \in Executions : e = co[c].ex
  BY <1>2, AtIs DEF Typed, Fits, Good, WantsEx, CoRecords
<1>4. UNCHANGED <<proc, turns, box, pipe>> /\ End(e, Failure("request"))
  BY <1>3 DEF FailExecution
<1>5. Adopting'
  BY <1>1, <1>2, AdoptingOthers DEF Composed
<1>6. Holds(c) /\ e \in Active
  BY <1>2, <1>3 DEF Holds, Refused, Composed, Held
<1>7. Flight'
  <2>1. InputTurns(e) = {}
    BY <1>3, <1>6 DEF Once
  <2>2. \A t \in DOMAIN turns : ~OfActive(t)
    BY <1>6, <2>1, InputIs DEF Composed
  <2>3. Nothing
    BY <2>2, NothingIs DEF Composed
  <2> QED BY <1>1, <1>4, <2>3, NothingStays, NoneFlies
<1>8. StatusKept
  BY <1>4, EndKeeps
<1>9. status' = [status EXCEPT ![e] = "failed"]
  BY <1>4, FailureIs DEF End
<1>10. \A x \in Executions : x \in Active' => x \in Active
  BY <1>9 DEF Active, Typed, RowsOK
<1>11. Held'
  <2>1. ASSUME NEW d \in Slots, Holds(d)' PROVE FALSE
    <3>1. Holds(d)
      BY <1>1, <2>1 DEF Before, HeldBefore
    <3>2. co[d].ex = e
      BY <1>6, <3>1 DEF Composed, Held, Typed, RowsOK
    <3>3. d = c
      BY <1>3, <1>6, <3>1, <3>2 DEF Once
    <3> QED BY <1>2, <2>1, <3>3, Apart DEF Holds, Gone
  <2> QED BY <2>1 DEF Held
<1>12. Owned'
  <2>1. \A x \in Executions : result'[x] = result[x] \/ result'[x].by # "turn"
    BY <1>4, FailureIs DEF End, Typed, RowsOK
  <2> QED BY <1>4, <2>1, OwnedKept DEF Composed, TurnsGrow
<1> QED BY <1>1, <1>4, <1>5, <1>7, <1>8, <1>10, <1>11, <1>12, RowsComposed

\* What is recorded in a calm session is the outcome of a turn.
LEMMA CalmRecords ==
    ASSUME Typed, Calm', NEW c \in Slots, Record(c), MayEnd(co[c].ex)
    PROVE  Recording(c) /\ result'[co[c].ex] = co[c].out
<1>1. PICK e \in Executions : e = co[c].ex
  BY RecordIs, RecorderIs DEF Typed
<1>2. /\ co[c] # Free /\ co[c].pc = "record" /\ co[c].out \in Ends /\ co[c].out # None
      /\ co[c].out.by # "request"
  BY RecordIs, RecorderIs, GoodIs DEF Typed, Good
<1>3. result'[e] = co[c].out
  BY <1>1, RecordsResult
<1>4. co[c].out.by \notin {"eof", "orphan", "timeout"}
  BY <1>2, <1>3 DEF Calm, CutOff
<1>5. co[c].out.by = "turn"
  BY <1>2, <1>4 DEF Ends
<1> QED BY <1>1, <1>2, <1>3, <1>5 DEF Recording, At

LEMMA RecordComposed ==
    ASSUME Typed, Typed', Once, Calm, Calm', Composed, NEW c \in Slots, Record(c), MayEnd(co[c].ex)
    PROVE  Composed'
<1>1. \A d \in Slots : Calmly(d) /\ Before(d)
  BY OthersCalmly, HeldByOthers DEF Composed
<1>2. co[c] # Free /\ co[c].pc = "record" /\ Others(c) /\ Moves(c, "tell")
  BY RecordIs DEF Typed
<1>3. PICK e \in Executions : e = co[c].ex
  BY <1>2, RecorderIs DEF Typed
<1>4. UNCHANGED <<proc, turns, box, pipe>> /\ End(e, co[c].out) /\ e \in Active
  BY <1>3 DEF Record, MayEnd
<1>5. Recording(c) /\ result'[e] = co[c].out
  BY <1>3, CalmRecords
<1>6. PICK t \in DOMAIN turns : t = co[c].out.turn
  BY <1>2, <1>5, RecorderIs DEF Recording, Typed, EndOK, TurnOK, TurnsOK
<1>7. /\ turns[t].ex = e /\ Quiet /\ \A d \in Slots : Deaf(d)
      /\ \A d \in Slots : Recording(d) => d = c
  BY <1>3, <1>5, <1>6 DEF Composed, Flight
<1>8. Adopting'
  <2>1. co'[c].kind = co[c].kind /\ co'[c].pc = "tell"
    BY <1>2 DEF Moves, Goes, Altered
  <2> QED BY <1>1, <1>2, <1>4, <2>1, AdoptingSame DEF Composed
<1>9. Flight'
  <2>1. Quiet'
    BY <1>4, <1>7 DEF Quiet, Idle
  <2>2. \A d \in Slots : Deaf(d)'
    BY <1>1, <1>7 DEF Deaf, Calmly, Tame
  <2>3. ~Recording(c)'
    BY <1>2 DEF Recording, At, Moves, Goes, Altered
  <2>4. \A d \in Slots : ~Recording(d)'
    BY <1>1, <1>7, <2>3 DEF Calmly, Tame
  <2>5. Nothing'
    BY <2>1, <2>2, <2>4 DEF Nothing
  <2> QED BY <2>5, NoneFlies
<1>10. StatusKept
  BY <1>4, EndKeeps
<1>11. \A x \in Executions : x \in Active' => x \in Active
  BY <1>4 DEF End, Active, Typed, RowsOK
<1>12. Held'
  <2>1. t \in InputTurns(e)
    BY <1>4, <1>6, <1>7, InputIs DEF Composed, OfActive
  <2>2. ASSUME NEW d \in Slots, Holds(d)' PROVE FALSE
    <3>1. Holds(d)
      BY <1>1, <2>2 DEF Before, HeldBefore
    <3>2. co[d].ex = e
      BY <1>4, <3>1 DEF Composed, Held, Typed, RowsOK
    <3> QED BY <2>1, <3>1, <3>2 DEF Once
  <2> QED BY <2>2 DEF Held
<1>13. Owned'
  <2> SUFFICES ASSUME NEW x \in Executions, Foreign(x)' PROVE FALSE
    BY DEF Owned
  <2>1. CASE x = e
    <3>1. turns'[t].ex = e /\ ~turns'[t].steers
      BY <1>4, <1>6, <1>7 DEF Composed, Plain
    <3> QED BY <1>5, <1>6, <2>1, <3>1 DEF Foreign
  <2>2. CASE x # e
    <3>1. result'[x] = result[x]
      BY <1>4, <2>2 DEF End, Typed, RowsOK
    <3>2. Foreign(x)
      BY <1>4, <3>1 DEF Foreign
    <3> QED BY <3>2 DEF Composed, Owned
  <2> QED BY <2>1, <2>2
<1> QED BY <1>1, <1>4, <1>8, <1>9, <1>10, <1>11, <1>12, <1>13, RowsComposed

-----------------------------------------------------------------------------
(* The steps that change sandboxes and pipes.                                      *)

LEMMA ReplaceSandboxComposed ==
    ASSUME Typed, Calm, Composed, NEW c \in Slots, ReplaceSandbox(c)
    PROVE  Composed'
<1>1. \A d \in Slots : Calmly(d) /\ Before(d)
  BY RequestsCalmly, HeldByRequests DEF Composed
<1>2. CoOK /\ BoxOK
  BY DEF Typed
<1>3. co[c] # Free /\ co[c].kind = "request"
  BY <1>2, ReplaceSandboxIs
<1>4. PICK b \in Boxes : box[b].state = "none" /\ box' = [box EXCEPT ![b] = Fresh(b)]
  BY <1>2, ReplaceSandboxIs
<1>5. UNCHANGED <<status, result, turns, proc, pipe>>
  BY DEF ReplaceSandbox, rows
<1>6. /\ Fresh(b) \in BoxRecords /\ Fresh(b).now = 0 /\ Fresh(b).input = <<>> /\ Fresh(b).log = <<>>
      /\ Fresh(b).state = "running" /\ Fresh(b).pod # 0
  <2>1. box[b].pod \in Nat
    BY <1>2, BoxIs
  <2>2. Fresh(b).state = "running" /\ Fresh(b).pod = box[b].pod + 1
    BY <2>1 DEF Fresh, NoBox
  <2>3. PICK r : r = Fresh(b)
    OBVIOUS
  <2>4. r \in BoxRecords /\ r.now = 0 /\ r.input = <<>> /\ r.log = <<>>
    BY ONLY <1>2, <2>3, Emptied
  <2>5. box[b].pod + 1 # 0
    BY <2>1
  <2> QED BY <2>2, <2>3, <2>4, <2>5
<1>7. \A a \in Boxes : box'[a] = IF a = b THEN Fresh(b) ELSE box[a]
  BY <1>2, <1>4 DEF BoxOK
<1>8. Adopting'
  BY <1>1, <1>3, AdoptingOthers DEF Composed
<1>9. Plain'
  BY <1>1, <1>5, <1>6, <1>7, PlainKept DEF Composed, Calmly, Plain, Runs
<1>10. Held'
  <2>1. Active' = Active
    BY <1>5 DEF Active
  <2> QED BY <1>1, <2>1, HeldKept DEF Composed
<1>11. Piping'
  <2>1. \A d \in Slots : Pump(d) \/ At(d, "open") => co[d].box # b
    <3> SUFFICES ASSUME NEW d \in Slots, Pump(d) \/ At(d, "open"), co[d].box = b PROVE FALSE
      OBVIOUS
    <3>1. co[d] # Free
      BY Apart DEF Pump, At
    <3>2. b # None
      BY SessionAssumption
    <3> QED BY <1>2, <1>4, <3>1, <3>2, GoodIs DEF Good
  <2>2. \A a \in Boxes : Runs(a)' => Runs(a) \/ a = b
    BY <1>7 DEF Runs
  <2>3. \A d \in Slots : Steady(d)
    BY <1>1 DEF Calmly
  <2> QED BY <1>5, <2>1, <2>2, <2>3, PlacedIs, PipingKept DEF Composed
<1>12. Flight'
  <2>1. Active' = Active
    BY <1>5 DEF Active
  <2>2. \A a \in Boxes : \/ box'[a].now = box[a].now /\ box'[a].input = box[a].input
                         \/ Idle(a)'
    BY <1>6, <1>7 DEF Idle
  <2> QED BY <1>1, <1>5, <2>1, <2>2, FlightKept DEF Composed, Calmly
<1>13. Logged'
  <2>1. Active' = Active /\ StatusKept /\ TurnsGrow
    BY <1>5 DEF Active, StatusKept, TurnsGrow
  <2>2. \A a \in Boxes : box'[a].log = box[a].log \/ box'[a].log = <<>>
    BY <1>6, <1>7
  <2>3. \A a \in Boxes : \A t \in DOMAIN turns : InWork(a, t)' => InWork(a, t)
    BY <1>2, <1>6, <1>7 DEF InWork, Typed, TurnsOK
  <2> QED BY <2>1, <2>2, <2>3, LoggedKept DEF Composed
<1>14. Owned'
  BY <1>5, OwnedKept DEF Composed, TurnsGrow
<1> QED BY <1>8, <1>9, <1>10, <1>11, <1>12, <1>13, <1>14 DEF Composed

\* Whoever looks for a pipe is a request or an adoption.
LEMMA CalmLooker ==
    ASSUME Typed, Plain, NEW c \in Slots, co[c] # Free, co[c].pc \in {"look", "open"}
    PROVE  /\ co[c].kind \in {"request", "adopt"}
           /\ co[c].proc \in Procs /\ proc[co[c].proc] = "up" /\ co[c].box \in Boxes
BY LookerIs, GoodIs DEF Typed, Plain, Good

\* One process is up, as far as a calm session sees.
LEMMA OneUp ==
    ASSUME Typed, Plain, NEW p \in Procs, NEW q \in Procs, proc[p] = "up", proc[q] = "up"
    PROVE  p = q
BY DEF Plain, Procs

LEMMA LookForPipeComposed ==
    ASSUME Typed, Calm, Composed, NEW c \in Slots, LookForPipe(c)
    PROVE  Composed'
<1>1. \A d \in Slots : Before(d)
  BY HeldByRequests
<1>2. CoOK /\ BoxOK
  BY DEF Typed
<1>3. /\ co[c] # Free /\ co[c].pc = "look" /\ Others(c)
      /\ IF pipe[co[c].proc][co[c].box] = 0 THEN Moves(c, "open") ELSE Pipes(c)
  BY <1>2, LookForPipeIs
<1>4. PICK p \in Procs, b \in Boxes : p = co[c].proc /\ b = co[c].box
  BY <1>3, CalmLooker DEF Composed
<1>5. co[c].kind \in {"request", "adopt"} /\ proc[p] = "up"
  BY <1>3, <1>4, CalmLooker DEF Composed
<1>6. UNCHANGED <<status, result, turns, proc, pipe, box>>
  BY DEF LookForPipe, rows
<1>7. PICK x \in {"open", "piped"} : Moves(c, x) /\ (x = "open" => pipe[p][b] = 0)
  BY <1>3, <1>4, <1>5 DEF Pipes
<1>8. /\ co'[c].kind = co[c].kind /\ co'[c].pc = x /\ co'[c].box = b
      /\ co[c].kind # "pump"
  BY <1>4, <1>5, <1>7 DEF Moves, Goes, Altered
<1>9. \A d \in Slots \ {c} : Calmly(d)
  BY <1>3, CalmStill DEF Others, Composed
<1>10. Tame(c) /\ Kinded(c)
  BY <1>5, <1>7, <1>8 DEF Tame, Kinded, Odd, Pump, Recording, At
<1>11. Adopting'
  <2>1. CASE co[c].kind = "adopt"
    BY <1>3, <1>6, <1>7, <1>8, <2>1, AdoptingSelf DEF Composed
  <2>2. CASE co[c].kind = "request"
    <3>1. \A d \in Slots : co[d].kind # "adopt"
      BY <1>3, <2>2, AdoptAlone DEF Composed
    <3> QED BY <1>9, <1>10, <3>1, AdoptingNone DEF Calmly
  <2> QED BY <1>5, <2>1, <2>2
<1>12. Active' = Active /\ StatusKept /\ TurnsGrow
  BY <1>6 DEF Active, StatusKept, TurnsGrow
<1>13. Plain'
  BY <1>6, <1>9, <1>10, PlainKept DEF Composed, Calmly, Plain, Runs
<1>14. Held'
  BY <1>1, <1>12, HeldKept DEF Composed
<1>15. Piping'
  <2>1. ~Pump(c)' /\ \A d \in Slots \ {c} : Pump(d)' => co'[d] = co[d] /\ Pump(d)
    BY <1>3, <1>8, Apart DEF Others, Still, Pump
  <2>2. \A d \in Slots : Pump(d) /\ Runs(b) => co[d].box # b \/ x # "open"
    <3> SUFFICES ASSUME NEW d \in Slots, Pump(d), Runs(b), co[d].box = b, x = "open" PROVE FALSE
      OBVIOUS
    <3>1. pipe[co[d].proc][b] # 0
      BY DEF Composed, Piping
    <3>2. co[d].proc \in Procs /\ proc[co[d].proc] = "up"
      BY <1>2, Apart, GoodIs, PlacedIs DEF Good, Pump
    <3>3. co[d].proc = p
      BY <1>5, <3>2, OneUp DEF Composed
    <3> QED BY <1>7, <3>1, <3>3
  <2>3. \A a \in Boxes : Runs(a)' = Runs(a)
    BY <1>6 DEF Runs
  <2>4. \A d \in Slots \ {c} : At(d, "open")' => co'[d] = co[d] /\ At(d, "open")
    BY <1>3 DEF Others, Still, At
  <2>5. (\A d, e \in Slots : Pump(d) /\ Pump(e) /\ co[d].box = co[e].box => d = e)'
    BY <2>1 DEF Composed, Piping
  <2>6. (\A d \in Slots : Pump(d) /\ Runs(co[d].box) => pipe[co[d].proc][co[d].box] # 0 /\ ~co[d].eof)'
    BY <1>6, <2>1, <2>3, PlacedIs DEF Composed, Piping
  <2>7. (\A d \in Slots : Pump(d) /\ Ended(d) => co[d].eof)'
    BY <2>1 DEF Composed, Piping, Ended
  <2>8. (\A d, e \in Slots : At(d, "open") /\ Runs(co[d].box) /\ Pump(e) => co[e].box # co[d].box)'
    <3> SUFFICES ASSUME NEW d \in Slots, NEW e \in Slots, (At(d, "open") /\ Runs(co[d].box) /\ Pump(e))'
                 PROVE  co'[e].box # co'[d].box
      OBVIOUS
    <3>1. e # c /\ Pump(e) /\ co'[e] = co[e]
      BY <2>1
    <3>2. CASE d = c
      BY <1>4, <1>8, <2>2, <2>3, <3>1, <3>2 DEF At
    <3>3. CASE d # c
      <4>1. At(d, "open") /\ co'[d] = co[d]
        BY <2>4, <3>3
      <4>2. co[d].box \in Boxes
        BY <4>1, PlacedIs
      <4> QED BY <2>3, <3>1, <4>1, <4>2 DEF Composed, Piping
    <3> QED BY <3>2, <3>3
  <2> QED BY <2>5, <2>6, <2>7, <2>8 DEF Piping
<1>16. Flight'
  BY <1>6, <1>9, <1>10, <1>12, FlightKept DEF Composed, Calmly
<1>17. Logged'
  <2>1. \A a \in Boxes : \A t \in DOMAIN turns : InWork(a, t)' => InWork(a, t)
    BY <1>6 DEF InWork
  <2> QED BY <1>6, <1>12, <2>1, LoggedKept DEF Composed
<1>18. Owned'
  BY <1>6, <1>12, OwnedKept DEF Composed
<1> QED BY <1>11, <1>13, <1>14, <1>15, <1>16, <1>17, <1>18 DEF Composed

LEMMA OpenIoComposed ==
    ASSUME Typed, Once, Calm, Composed, NEW c \in Slots, OpenIo(c)
    PROVE  Composed'
<1>1. \A d \in Slots : Before(d)
  BY HeldByRequests
<1>2. CoOK /\ BoxOK
  BY DEF Typed
<1>3. co[c] # Free /\ co[c].pc = "open"
  BY <1>2, OpenIoIs
<1>4. PICK p \in Procs, b \in Boxes : p = co[c].proc /\ b = co[c].box
  BY <1>3, CalmLooker DEF Composed
<1>5. co[c].kind \in {"request", "adopt"}
  BY <1>3, CalmLooker DEF Composed
<1>6. UNCHANGED <<status, result, turns, proc, box>>
  BY DEF OpenIo, rows
<1>7. Active' = Active /\ StatusKept /\ TurnsGrow
  BY <1>6 DEF Active, StatusKept, TurnsGrow
<1>8. CASE ~Runs(b)
  <2>1. Others(c) /\ (Moves(c, "refuse") \/ Gone(c)) /\ (co[c].kind = "adopt" => Gone(c))
    BY <1>2, <1>4, <1>5, <1>8, OpenIoIs
  <2>2. \A d \in Slots : Calmly(d)
    BY <2>1, CalmMoves, CalmStill, CalmOthers DEF Composed
  <2>3. Adopting'
    <3>1. CASE co[c].kind = "adopt"
      BY <1>3, <1>6, <2>1, <2>2, <3>1, AdoptingSame DEF Composed
    <3>2. CASE co[c].kind = "request"
      BY <1>3, <2>2, <3>2, AdoptingOthers DEF Composed
    <3> QED BY <1>5, <3>1, <3>2
  <2>4. pipe' = pipe
    BY <1>4, <1>8 DEF OpenIo
  <2> QED BY <1>1, <1>6, <2>2, <2>3, <2>4, ComposedKept
<1>9. CASE Runs(b)
  <2>1. PICK n \in Slots \ {c} : /\ co[n] = Free /\ Moves(c, "piped")
                                 /\ Born(n, "pump", p, "read", None, b)
                                 /\ \A d \in Slots \ {c, n} : Still(d)
    BY <1>2, <1>4, <1>5, <1>9, OpenIoIs DEF Pipes
  <2>2. /\ co'[c].kind = co[c].kind /\ co'[c].pc = "piped"
        /\ co'[n].kind = "pump" /\ co'[n].proc = p /\ co'[n].pc = "read" /\ co'[n].box = b
        /\ co'[n].buf = <<>> /\ co'[n].eof = FALSE
    BY <2>1 DEF Moves, Goes, Altered, Born, New
  <2>3. \A d \in Slots \ {c, n} : Calmly(d)
    BY <2>1, CalmStill DEF Composed
  <2>4. Tame(c) /\ Kinded(c) /\ Tame(n) /\ Kinded(n)
    BY <1>5, <2>2 DEF Tame, Kinded, Odd, Pump, Recording, At
  <2>5. \A d \in Slots : At(d, "open") => d = c
    <3> SUFFICES ASSUME NEW d \in Slots, At(d, "open"), d # c PROVE FALSE
      OBVIOUS
    <3>1. co[d] # Free /\ co[d].kind \in {"request", "adopt"}
      BY CalmLooker DEF At, Composed
    <3>2. co[d].kind # "adopt"
      BY <1>3, <1>5, <3>1 DEF Composed, Adopting, At, Pump
    <3>3. co[c].kind # "adopt"
      BY <3>1 DEF Composed, Adopting, At, Pump
    <3>4. Holds(c) /\ Holds(d)
      BY <1>3, <1>5, <3>1, <3>2, <3>3 DEF Holds, Writing, At
    <3>5. co[c].ex = co[d].ex
      BY <3>4 DEF Composed, Held, Typed, RowsOK
    <3> QED BY <3>4, <3>5 DEF Once
  <2>6. Adopting'
    <3>1. CASE co[c].kind = "adopt"
      <4>1. \A d \in Slots \ {c} : co[d] = Free
        BY <1>3, <3>1 DEF Composed, Adopting
      <4>2. \A d \in Slots \ {c, n} : co'[d] = Free
        BY <2>1, <4>1 DEF Still
      <4>3. proc[2]' # "new"
        BY <1>6, <3>1 DEF Composed, Adopting
      <4> QED BY <2>2, <4>2, <4>3, Apart DEF Adopting, Pump
    <3>2. CASE co[c].kind = "request"
      <4>1. \A d \in Slots : co[d].kind # "adopt"
        BY <1>3, <3>2, AdoptAlone DEF Composed
      <4> QED BY <2>3, <2>4, <4>1, AdoptingNone DEF Calmly
    <3> QED BY <1>5, <3>1, <3>2
  <2>7. Plain'
    BY <1>6, <2>3, <2>4, PlainKept DEF Composed, Calmly, Plain, Runs
  <2>8. Held'
    BY <1>1, <1>7, HeldKept DEF Composed
  <2>9. Piping'
    <3>1. \A d \in Slots : Pump(d)' => d = n \/ (Pump(d) /\ co'[d] = co[d])
      BY <1>5, <2>1, <2>2, Apart DEF Still, Pump
    <3>2. \A d \in Slots : Pump(d) => co[d].box # b
      BY <1>3, <1>4, <1>9 DEF Composed, Piping, At
    <3>3. \A a \in Boxes : Runs(a)' = Runs(a)
      BY <1>6 DEF Runs
    <3>4. \A d \in Slots : ~At(d, "open")'
      BY <2>1, <2>2, <2>5 DEF Still, At
    <3>5. pipe' = [pipe EXCEPT ![p][b] = box[b].pod] /\ pipe \in [Procs -> [Boxes -> Nat]]
      BY <1>2, <1>4, <1>9 DEF OpenIo, BoxOK
    <3>6. box[b].pod # 0
      BY <1>9 DEF Composed, Plain
    <3>7. (\A d, e \in Slots : Pump(d) /\ Pump(e) /\ co[d].box = co[e].box => d = e)'
      BY <2>2, <3>1, <3>2 DEF Composed, Piping
    <3>8. (\A d \in Slots : Pump(d) /\ Runs(co[d].box) => pipe[co[d].proc][co[d].box] # 0 /\ ~co[d].eof)'
      <4> SUFFICES ASSUME NEW d \in Slots, (Pump(d) /\ Runs(co[d].box))'
                   PROVE  (pipe[co[d].proc][co[d].box] # 0 /\ ~co[d].eof)'
        OBVIOUS
      <4>1. CASE d = n
        BY <2>2, <3>5, <3>6, <4>1
      <4>2. CASE d # n
        <5>1. Pump(d) /\ co'[d] = co[d]
          BY <3>1, <4>2
        <5>2. PICK q \in Procs, a \in Boxes : q = co[d].proc /\ a = co[d].box
          BY <5>1, PlacedIs
        <5>3. pipe[q][a] # 0 /\ ~co[d].eof /\ a # b
          BY <3>2, <3>3, <5>1, <5>2 DEF Composed, Piping
        <5> QED BY <3>5, <5>1, <5>2, <5>3
      <4> QED BY <4>1, <4>2
    <3>9. (\A d \in Slots : Pump(d) /\ Ended(d) => co[d].eof)'
      BY <2>2, <3>1 DEF Composed, Piping, Ended
    <3> QED BY <3>4, <3>7, <3>8, <3>9 DEF Piping
  <2>10. Flight'
    BY <1>6, <1>7, <2>3, <2>4, FlightKept DEF Composed, Calmly
  <2>11. Logged'
    <3>1. \A a \in Boxes : \A t \in DOMAIN turns : InWork(a, t)' => InWork(a, t)
      BY <1>6 DEF InWork
    <3> QED BY <1>6, <1>7, <3>1, LoggedKept DEF Composed
  <2>12. Owned'
    BY <1>6, <1>7, OwnedKept DEF Composed
  <2> QED BY <2>6, <2>7, <2>8, <2>9, <2>10, <2>11, <2>12 DEF Composed
<1> QED BY <1>8, <1>9

\* Whoever holds an execution that has no input yet has the session for itself.
LEMMA HolderAlone ==
    ASSUME Typed, Once, Composed, NEW c \in Slots, Holds(c)
    PROVE  co[c].ex \in Active /\ Nothing
<1>1. PICK e \in Executions : e = co[c].ex
  BY HolderIs DEF Typed
<1>2. e \in Active /\ InputTurns(e) = {}
  BY <1>1 DEF Composed, Held, Once
<1>3. \A t \in DOMAIN turns : ~OfActive(t)
  BY <1>2, InputIs DEF Composed
<1> QED BY <1>1, <1>2, <1>3, NothingIs DEF Composed

LEMMA WritesBox ==
    ASSUME Typed, NEW c \in Slots, WriteInput(c), Writes(c), NEW b \in Boxes, b = co[c].box
    PROVE  /\ \A a \in Boxes \ {b} : box'[a] = box[a]
           /\ box'[b].input = Append(box[b].input, Len(turns) + 1)
           /\ box'[b].now = box[b].now /\ box'[b].log = box[b].log
           /\ box'[b].state = box[b].state /\ box'[b].pod = box[b].pod
<1>1. BoxOK /\ Len(turns) \in Nat
  BY DEF Typed, TurnsOK
<1>2. PICK i \in Seq(Nat) : i = Append(box[b].input, Len(turns) + 1)
  <2>1. Len(turns) + 1 \in Nat /\ box[b].input \in Seq(Nat)
    BY <1>1, BoxIs
  <2> QED BY <2>1, Appended
<1>3. PICK q \in BoxRecords : q = box[b]
  BY <1>1, BoxIs
<1>4. box' = [box EXCEPT ![b] = [q EXCEPT !.input = i]]
  BY <1>1, <1>2, <1>3 DEF WriteInput, Writes, BoxOK
<1>5. /\ [q EXCEPT !.input = i].input = i /\ [q EXCEPT !.input = i].now = q.now
      /\ [q EXCEPT !.input = i].log = q.log /\ [q EXCEPT !.input = i].state = q.state
      /\ [q EXCEPT !.input = i].pod = q.pod
  BY RecordInput
<1> QED BY <1>1, <1>2, <1>3, <1>4, <1>5 DEF BoxOK

LEMMA WriteInputComposed ==
    ASSUME Typed, Once, Calm, Composed, NEW c \in Slots, WriteInput(c)
    PROVE  Composed'
<1>1. \A d \in Slots : Calmly(d) /\ Before(d)
  BY RequestsCalmly, HeldByRequests DEF Composed
<1>2. CoOK /\ BoxOK
  BY DEF Typed
<1>3. co[c] # Free /\ co[c].pc = "piped" /\ co[c].kind = "request"
  BY <1>2, WriteInputIs DEF Composed, Plain
<1>4. UNCHANGED <<status, result, proc, pipe>>
  BY DEF WriteInput, rows
<1>5. Active' = Active /\ StatusKept
  BY <1>4 DEF Active, StatusKept
<1>6. Adopting'
  BY <1>1, <1>3, AdoptingOthers DEF Composed
<1>7. CASE ~Writes(c)
  <2>1. turns' = turns /\ box' = box
    BY <1>7 DEF WriteInput, Writes
  <2> QED BY <1>1, <1>4, <1>6, <2>1, ComposedKept
<1>8. CASE Writes(c)
  <2>1. PICK b \in Boxes, e \in Executions : b = co[c].box /\ e = co[c].ex
    BY <1>2, <1>3, PipedIs
  <2>2. e \in Active /\ Nothing
    <3>1. Holds(c)
      BY <1>3 DEF Holds, Writing
    <3> QED BY <2>1, <3>1, HolderAlone
  <2>3. PICK n \in TurnRecords : turns' = Append(turns, n) /\ n.ex = e /\ ~n.steers
    BY <1>3, <1>8, <2>1, WritesTurn
  <2>4. PICK m \in Nat : m = Len(turns) + 1 /\ DOMAIN turns = 1 .. Len(turns)
    BY DEF Typed, TurnsOK
  <2>5. /\ DOMAIN turns' = DOMAIN turns \cup {m} /\ m \notin DOMAIN turns /\ turns'[m] = n
        /\ \A t \in DOMAIN turns : turns'[t] = turns[t]
    BY <2>3, <2>4, Appended DEF Typed, TurnsOK
  <2>6. /\ \A a \in Boxes \ {b} : box'[a] = box[a]
        /\ box'[b].input = Append(box[b].input, m)
        /\ box'[b].now = box[b].now /\ box'[b].log = box[b].log
        /\ box'[b].state = box[b].state /\ box'[b].pod = box[b].pod
    BY <1>8, <2>1, <2>4, WritesBox
  <2>7. /\ \A a \in Boxes : box'[a].now = 0 /\ box'[a].log = box[a].log
                            /\ box'[a].state = box[a].state /\ box'[a].pod = box[a].pod
        /\ \A a \in Boxes \ {b} : box'[a].input = <<>>
        /\ box'[b].input = <<m>>
    <3>1. \A a \in Boxes : box[a].now = 0 /\ box[a].input = <<>>
      BY <2>2 DEF Nothing, Quiet, Idle
    <3>2. Append(<<>>, m) = <<m>>
      OBVIOUS
    <3> QED BY <2>6, <3>1, <3>2
  <2>8. \A a \in Boxes : \A t \in Nat : t # 0 /\ InWork(a, t)' => a = b /\ t = m
    <3> SUFFICES ASSUME NEW a \in Boxes, NEW t \in Nat, t # 0, InWork(a, t)' PROVE a = b /\ t = m
      OBVIOUS
    <3>1. DOMAIN box'[b].input = {1} /\ box'[b].input[1] = m
      BY <2>7, Single
    <3> QED BY <2>7, <3>1 DEF InWork
  <2>9. TurnsGrow
    BY <2>5 DEF TurnsGrow
  <2>10. Plain'
    BY <1>1, <1>4, <2>3, <2>5, <2>7 DEF Plain, Composed, Calmly, Kinded, Odd, Runs
  <2>11. Held'
    BY <1>1, <1>5, HeldKept DEF Composed
  <2>12. Piping'
    <3>1. \A a \in Boxes : Runs(a)' => Runs(a)
      BY <2>7 DEF Runs
    <3>2. \A d \in Slots : Steady(d)
      BY <1>1 DEF Calmly
    <3> QED BY <1>4, <3>1, <3>2, PlacedIs, PipingKept DEF Composed
  <2>13. Flight'
    <3>1. \A d \in Slots : Deaf(d)' /\ ~Recording(d)'
      BY <1>1, <2>2 DEF Nothing, Deaf, Calmly, Tame
    <3>2. \A a \in Boxes : \A t \in DOMAIN turns' : InWork(a, t)' => OfActive(t)'
      <4>1. OfActive(m)'
        BY <1>5, <2>2, <2>3, <2>5 DEF OfActive
      <4>2. \A t \in DOMAIN turns' : t \in Nat /\ t # 0
        BY <2>4, <2>5
      <4> QED BY <2>8, <4>1, <4>2
    <3>3. \A a \in Boxes : ~Idle(a)' => a = b
      BY <2>7 DEF Idle
    <3>4. \A d \in Slots : Pump(d)' => co'[d].buf = <<>>
      BY <3>1 DEF Deaf
    <3> QED BY <3>1, <3>2, <3>3, <3>4 DEF Flight
  <2>14. Logged'
    <3>1. \A a \in Boxes : \A t \in DOMAIN turns : ~InWork(a, t)'
      BY <2>4, <2>5, <2>8
    <3> QED BY <1>5, <2>7, <2>9, <3>1, LoggedKept DEF Composed
  <2>15. Owned'
    BY <1>4, <2>9, OwnedKept DEF Composed
  <2> QED BY <1>6, <2>10, <2>11, <2>12, <2>13, <2>14, <2>15 DEF Composed
<1> QED BY <1>7, <1>8

-----------------------------------------------------------------------------
(* The steps that move outcomes.                                                   *)

\* Where rows and sandboxes stay.
LEMMA FlightComposed ==
    ASSUME Typed, Composed, \A d \in Slots : Kinded(d) /\ Steady(d) /\ Before(d), Adopting', Flight',
           UNCHANGED <<proc, turns, box, status, result, pipe>>
    PROVE  Composed'
<1>1. Active' = Active /\ StatusKept /\ TurnsGrow
  BY DEF Active, StatusKept, TurnsGrow
<1>2. Plain'
  BY PlainKept DEF Composed, Plain, Runs
<1>3. Held'
  BY <1>1, HeldKept DEF Composed
<1>4. Piping'
  <2>1. \A b \in Boxes : Runs(b)' => Runs(b)
    BY DEF Runs
  <2> QED BY <2>1, PlacedIs, PipingKept DEF Composed
<1>5. Logged'
  <2>1. \A b \in Boxes : \A t \in DOMAIN turns : InWork(b, t)' => InWork(b, t)
    BY DEF InWork
  <2> QED BY <1>1, <2>1, LoggedKept DEF Composed
<1>6. Owned'
  BY <1>1, OwnedKept DEF Composed
<1> QED BY <1>2, <1>3, <1>4, <1>5, <1>6 DEF Composed

LEMMA ReadLogsComposed ==
    ASSUME Typed, Once, Calm, Composed, NEW c \in Slots, ReadLogs(c)
    PROVE  Composed'
<1>1. \A d \in Slots : Before(d)
  BY HeldByOthers
<1>2. CoOK /\ BoxOK
  BY DEF Typed
<1>3. co[c] # Free /\ co[c].kind = "adopt" /\ co[c].pc = "logs" /\ Others(c)
  BY <1>2, ReadLogsIs
<1>4. PICK b \in Boxes, e \in Executions : b = co[c].box /\ e = co[c].ex
  BY <1>2, ReadLogsIs
<1>5. UNCHANGED <<proc, turns, box, status, result, pipe>>
  BY DEF ReadLogs, rows
<1>6. e \in Active /\ \A d \in Slots \ {c} : co[d] = Free
  BY <1>3, <1>4 DEF Composed, Adopting
<1>7. CASE Moves(c, "look")
  <2>1. \A d \in Slots : Calmly(d)
    BY <1>3, <1>7, CalmMoves, CalmOthers DEF Composed
  <2>2. co'[c].kind = co[c].kind /\ co'[c].pc = "look"
    BY <1>7 DEF Moves, Goes, Altered
  <2>3. Adopting'
    BY <1>3, <1>5, <2>1, <2>2, AdoptingSame DEF Composed
  <2> QED BY <1>1, <1>5, <2>1, <2>3, ComposedKept
<1>8. CASE ~Moves(c, "look")
  <2>1. PICK i \in DOMAIN box[b].log :
            /\ e \in box[b].log[i].since
            /\ Goes(c, "record", e, b, Outcome("turn", box[b].log[i].ok, box[b].log[i].turn))
    BY <1>2, <1>4, <1>8, ReadLogsIs, CalmWorld DEF Guarded
  <2>2. PICK l \in Line : l = box[b].log[i]
    BY <1>2, BoxIs, Element
  <2>3. PICK t \in DOMAIN turns : t = l.turn
    BY <1>2, <2>2, BoxIs DEF InOrder, TurnOK, Typed, TurnsOK
  <2>4. turns[t].ex = e /\ \A a \in Boxes : ~InWork(a, t)
    BY <1>6, <2>1, <2>2, <2>3 DEF Composed, Logged
  <2>5. PICK o : o = Outcome("turn", l.ok, l.turn)
    OBVIOUS
  <2>6. o.by = "turn" /\ o.turn = t
    BY <2>2, <2>3, <2>5, OutcomeIs DEF Line
  <2>7. /\ co'[c].kind = "adopt" /\ co'[c].pc = "record" /\ co'[c].ex = e /\ co'[c].out = o
    BY <1>3, <2>1, <2>2, <2>5 DEF Goes, Altered
  <2>8. Quiet
    <3> SUFFICES ASSUME NEW a \in Boxes PROVE Idle(a)
      BY DEF Quiet
    <3>1. \A u \in DOMAIN turns : ~InWork(a, u)
      <4> SUFFICES ASSUME NEW u \in DOMAIN turns, InWork(a, u) PROVE FALSE
        OBVIOUS
      <4>1. OfActive(u) /\ OfActive(t)
        BY <1>6, <2>4 DEF Composed, Flight, OfActive
      <4>2. u = t
        BY <4>1, OneTurn DEF Composed
      <4> QED BY <2>4, <4>2
    <3>2. PICK s \in Seq(Nat) : s = box[a].input
      BY WorkIs
    <3>3. box[a].now = 0 /\ 1 \notin DOMAIN s
      BY <3>1, <3>2, WorkIs
    <3>4. s = <<>>
      BY <3>3
    <3> QED BY <3>2, <3>3, <3>4 DEF Idle
  <2>9. \A d \in Slots : Deaf(d)' /\ ~Pump(d)'
    BY <1>3, <1>6, <2>7, Apart DEF Others, Still, Deaf, Pump
  <2>10. \A d \in Slots : Recording(d)' => d = c
    BY <1>3, <1>6 DEF Others, Still, Recording, At
  <2>11. Quiet'
    BY <1>5, <2>8 DEF Quiet, Idle
  <2>12. Flight'
    <3>1. \A a \in Boxes : \A u \in DOMAIN turns' : ~InWork(a, u)'
      BY <1>5, <2>11 DEF Quiet, Idle, InWork, Typed, TurnsOK
    <3>2. turns'[co'[c].out.turn].ex = co'[c].ex /\ co'[c].ex \in Active'
      BY <1>5, <1>6, <2>4, <2>6, <2>7 DEF Active
    <3> QED BY <2>9, <2>10, <2>11, <3>1, <3>2 DEF Flight, Quiet
  <2>13. \A d \in Slots : Kinded(d) /\ Steady(d)
    <3>1. Kinded(c) /\ Steady(c)
      BY <1>3, <2>7 DEF Kinded, Steady, Odd, Pump, At
    <3> QED BY <1>3, <3>1, CalmStill DEF Others, Calmly, Composed
  <2>14. Adopting'
    BY <1>3, <1>5, <2>7, AdoptingSelf DEF Composed
  <2> QED BY <1>1, <1>5, <2>12, <2>13, <2>14, FlightComposed
<1> QED BY <1>7, <1>8

LEMMA PumpLineComposed ==
    ASSUME Typed, Calm, Composed, NEW c \in Slots, PumpLine(c)
    PROVE  Composed'
<1>1. \A d \in Slots : Before(d)
  BY HeldByOthers
<1>2. CoOK
  BY DEF Typed
<1>3. co[c] # Free /\ co[c].kind = "pump" /\ co[c].pc = "read" /\ Others(c)
  BY <1>2, PumpLineIs
<1>4. UNCHANGED <<proc, turns, box, status, result, pipe>>
  BY DEF PumpLine, rows
<1>5. PICK s \in Seq(Output) : s = co[c].buf /\ s # <<>>
  BY <1>2, PumpLineIs
<1>6. PICK line \in Output : line = s[1] /\ line = Head(s) /\ 1 \in DOMAIN s
  BY <1>5, HeadTail
<1>7. /\ co'[c].kind = "pump" /\ co'[c].proc = co[c].proc /\ co'[c].box = co[c].box
      /\ co'[c].buf = Tail(s) /\ co'[c].eof = co[c].eof
      /\ \/ co'[c].pc = "read"
         \/ /\ line.ends /\ TheActive \in Active
            /\ co'[c].pc = "record" /\ co'[c].ex = TheActive
            /\ co'[c].out = Outcome("turn", line.ok, line.turn)
  BY <1>2, <1>3, <1>5, <1>6, PumpLineIs DEF Lined
<1>8. PICK o : o = Outcome("turn", line.ok, line.turn)
  OBVIOUS
<1>9. o.by = "turn" /\ o.turn = line.turn
  BY <1>8, OutcomeIs DEF Output
<1>10. \A i \in DOMAIN s : /\ OfActive(s[i].turn)
                           /\ s[i].ends => Quiet /\ i = Len(s)
  BY <1>3, <1>5 DEF Composed, Flight, Pump
<1>11. /\ \A b \in Boxes : box[b].input = <<>> /\ (box[b].now # 0 => b = co[c].box)
       /\ \A d \in Slots \ {c} : Deaf(d)
  BY <1>3, <1>5, <1>6 DEF Composed, Flight, Pump
<1>12. \A d \in Slots : ~Recording(d)
  <2>1. ~Deaf(c)
    BY <1>3, <1>5 DEF Deaf, Pump
  <2> QED BY <2>1 DEF Composed, Flight
<1>13. \A d \in Slots \ {c} : Deaf(d)' /\ ~Recording(d)'
  BY <1>3, <1>11, <1>12 DEF Others, Still, Deaf, Pump, Recording, At
<1>14. \A d \in Slots : Kinded(d) /\ Steady(d)
  <2>1. Kinded(c)
    BY <1>7 DEF Kinded, Odd
  <2>2. Steady(c)
    BY <1>3, <1>7, <1>8, <1>9 DEF Steady, Pump, Ended, At
  <2> QED BY <1>3, <2>1, <2>2, CalmStill DEF Others, Calmly, Composed
<1>15. Adopting'
  BY <1>3, <1>4, <1>7, AdoptingPump DEF Composed
<1>16. Active' = Active /\ (Quiet => Quiet')
  BY <1>4 DEF Active, Quiet, Idle
<1>17. Flight'
  <2>1. /\ \A b \in Boxes : \A t \in DOMAIN turns' : InWork(b, t)' => OfActive(t)'
        /\ \A a, b \in Boxes : ~Idle(a)' /\ ~Idle(b)' => a = b
    BY <1>4, <1>16 DEF Composed, Flight, InWork, OfActive, Idle
  <2>2. ASSUME NEW i \in DOMAIN Tail(s)
        PROVE  OfActive(Tail(s)[i].turn)' /\ (Tail(s)[i].ends => Quiet' /\ i = Len(Tail(s)))
    <3>1. i + 1 \in DOMAIN s /\ Tail(s)[i] = s[i + 1] /\ Len(Tail(s)) = Len(s) - 1
      BY <1>5, HeadTail
    <3>2. OfActive(s[i + 1].turn)' /\ (s[i + 1].ends => Quiet' /\ i + 1 = Len(s))
      BY <1>4, <1>10, <1>16, <3>1 DEF OfActive
    <3>3. i \in Nat /\ Len(s) \in Nat
      BY <1>5, HeadTail
    <3>4. i + 1 = Len(s) => i = Len(Tail(s))
      BY <3>1, <3>3
    <3> QED BY <3>1, <3>2, <3>4
  <2>3. \A d \in Slots \ {c} : Pump(d)' => co'[d].buf = <<>>
    BY <1>13 DEF Deaf
  <2>4. \A b \in Boxes : box'[b].input = <<>> /\ (box'[b].now # 0 => b = co'[c].box)
    BY <1>4, <1>7, <1>11
  <2>5. \A d \in Slots : Pump(d)' => \A i \in DOMAIN co'[d].buf :
          /\ OfActive(co[d].buf[i].turn)'
          /\ co'[d].buf[i].ends => Quiet' /\ i = Len(co'[d].buf)
          /\ \A b \in Boxes : box'[b].input = <<>> /\ (box'[b].now # 0 => b = co'[d].box)
          /\ \A x \in Slots \ {d} : Deaf(x)'
    <3> SUFFICES ASSUME NEW d \in Slots, Pump(d)', NEW i \in DOMAIN co'[d].buf
                 PROVE  /\ OfActive(co[d].buf[i].turn)'
                        /\ co'[d].buf[i].ends => Quiet' /\ i = Len(co'[d].buf)
                        /\ \A b \in Boxes : box'[b].input = <<>> /\ (box'[b].now # 0 => b = co'[d].box)
                        /\ \A x \in Slots \ {d} : Deaf(x)'
      OBVIOUS
    <3>1. d = c
      BY <2>3
    <3>2. i \in DOMAIN Tail(s) /\ co'[d].buf = Tail(s)
      BY <1>7, <3>1
    <3> QED BY <1>13, <2>2, <2>4, <3>1, <3>2 DEF OfActive
  <2>6. ASSUME NEW d \in Slots, Recording(d)'
        PROVE  /\ turns'[co'[d].out.turn].ex = co'[d].ex /\ co'[d].ex \in Active'
               /\ Quiet' /\ \A x \in Slots : Deaf(x)'
               /\ \A x \in Slots : Recording(x)' => d = x
    <3>1. d = c
      BY <1>13, <2>6
    <3>2. line.ends /\ TheActive \in Active /\ co'[c].ex = TheActive /\ co'[c].out = o
      BY <1>7, <1>8, <2>6, <3>1 DEF Recording, At
    <3>3. Quiet' /\ Len(s) = 1 /\ OfActive(line.turn)
      BY <1>6, <1>10, <1>16, <3>2
    <3>4. co'[c].buf = <<>>
      <4>1. Tail(s) \in Seq(Output) /\ Len(Tail(s)) = 0
        BY <1>5, <3>3, HeadTail
      <4> QED BY <1>7, <4>1
    <3>5. turns[line.turn].ex = TheActive
      BY <3>2, <3>3 DEF OfActive, Typed, RowsOK
    <3> QED BY <1>4, <1>9, <1>13, <1>16, <3>1, <3>2, <3>3, <3>4, <3>5 DEF Deaf
  <2> QED BY <2>1, <2>5, <2>6 DEF Flight
<1> QED BY <1>1, <1>4, <1>14, <1>15, <1>17, FlightComposed

-----------------------------------------------------------------------------
(* The process, the sandbox, and the whole.                                        *)

\* Where no coroutine has a pump, an outcome or an execution in hand.
LEMMA BareComposed ==
    ASSUME Typed, Composed, Plain', Adopting',
           \A d \in Slots : ~Pump(d)' /\ ~Recording(d)' /\ ~Holds(d)' /\ ~At(d, "open")',
           UNCHANGED <<turns, box, status, result>>
    PROVE  Composed'
<1>1. Active' = Active /\ StatusKept /\ TurnsGrow
  BY DEF Active, StatusKept, TurnsGrow
<1>2. Held' /\ Piping'
  BY DEF Held, Piping
<1>3. Flight'
  <2>1. \A d \in Slots : Tame(d)
    BY DEF Tame
  <2> QED BY <1>1, <2>1, FlightKept DEF Composed
<1>4. Logged'
  <2>1. \A b \in Boxes : \A t \in DOMAIN turns : InWork(b, t)' => InWork(b, t)
    BY DEF InWork
  <2> QED BY <1>1, <2>1, LoggedKept DEF Composed
<1>5. Owned'
  BY <1>1, OwnedKept DEF Composed
<1> QED BY <1>2, <1>3, <1>4, <1>5 DEF Composed

\* A coroutine is of a process that is up.
LEMMA UpIs ==
    ASSUME Typed, NEW d \in Slots, co[d] # Free
    PROVE  co[d].proc \in Procs /\ proc[co[d].proc] = "up"
BY AtIs, GoodIs DEF Typed, Good, CoRecords

LEMMA StartProcessComposed ==
    ASSUME Typed, Calm, Composed, StartProcess
    PROVE  Composed'
<1>1. CoOK /\ proc \in [Procs -> {"up", "new", "dead"}]
  BY DEF Typed, WorldOK
<1>2. proc[1] = "dead" /\ proc[2] = "new" /\ proc' = [proc EXCEPT ![2] = "up"]
  BY CalmWorld DEF Guarded, StartProcess
<1>3. UNCHANGED <<turns, box, status, result>>
  BY DEF StartProcess, rows
<1>4. \A d \in Slots : co[d] = Free
  BY <1>2, UpIs DEF Procs
<1>5. PICK n \in Slots : /\ co'[n].kind = "adopt" /\ co'[n].pc = "list"
                         /\ \A d \in Slots \ {n} : co'[d] = Free
  BY ZenonT(60), <1>1, <1>4, StartProcessIs DEF Others, Still, Born, New
<1>6. Plain'
  BY <1>1, <1>2, <1>3, <1>5, Apart DEF Composed, Plain, Runs, Procs
<1>7. Adopting'
  BY <1>1, <1>2, <1>5, Apart DEF Adopting, Procs
<1>8. \A d \in Slots : ~Pump(d)' /\ ~Recording(d)' /\ ~Holds(d)' /\ ~At(d, "open")'
  BY <1>5, Apart DEF Pump, Recording, Holds, At
<1> QED BY <1>3, <1>6, <1>7, <1>8, BareComposed

LEMMA ProcessDiesComposed ==
    ASSUME Typed, Calm, Composed, ProcessDies
    PROVE  Composed'
<1>1. CoOK /\ proc \in [Procs -> {"up", "new", "dead"}]
  BY DEF Typed, WorldOK
<1>2. proc[1] = "up" /\ proc' = [proc EXCEPT ![1] = "dead"]
  BY DEF ProcessDies
<1>3. UNCHANGED <<turns, box, status, result>>
  BY DEF ProcessDies, rows
<1>4. proc[2] # "up"
  BY <1>2 DEF Composed, Plain
<1>5. \A d \in Slots : co'[d] = Free
  <2> SUFFICES ASSUME NEW d \in Slots, co'[d] # Free PROVE FALSE
    OBVIOUS
  <2>1. co'[d] = co[d] /\ co[d].proc # 1
    BY <1>1, ProcessDiesIs DEF Gone, Still
  <2>2. co[d].proc \in Procs /\ proc[co[d].proc] = "up"
    BY <2>1, UpIs
  <2> QED BY <1>4, <2>1, <2>2 DEF Procs
<1>6. Plain'
  BY <1>1, <1>2, <1>3, <1>5, Apart DEF Composed, Plain, Runs, Procs
<1>7. Adopting'
  BY <1>5, Apart DEF Adopting
<1>8. \A d \in Slots : ~Pump(d)' /\ ~Recording(d)' /\ ~Holds(d)' /\ ~At(d, "open")'
  BY <1>5, Apart DEF Pump, Recording, Holds, At
<1> QED BY <1>3, <1>6, <1>7, <1>8, BareComposed

LEMMA AdoptingHarness ==
    ASSUME Adopting, \A d \in Slots : Still(d) \/ (Pump(d) /\ Pump(d)'), proc' = proc, Active' = Active
    PROVE  Adopting'
<1> SUFFICES ASSUME NEW a \in Slots, co'[a].kind = "adopt"
             PROVE  /\ proc[2]' # "new"
                    /\ \A d \in Slots \ {a} : co'[d] = Free \/ (co'[a].pc = "piped" /\ Pump(d)')
                    /\ co'[a].pc \in {"adopt", "logs"} => (co[a].ex \in Active)'
  BY DEF Adopting
<1>1. co'[a] = co[a]
  BY DEF Still, Pump
<1>2. /\ proc[2] # "new"
      /\ \A d \in Slots \ {a} : co[d] = Free \/ (co[a].pc = "piped" /\ Pump(d))
      /\ co[a].pc \in {"adopt", "logs"} => co[a].ex \in Active
  BY <1>1 DEF Adopting
<1>3. \A d \in Slots \ {a} : co'[d] = Free \/ (co[a].pc = "piped" /\ Pump(d)')
  BY <1>2, Apart DEF Still, Pump
<1> QED BY <1>1, <1>2, <1>3

\* The harness says a line to the pumps.
LEMMA HarnessComposed ==
    ASSUME Typed, Composed, \A d \in Slots : Still(d) \/ \E L : Hears(d, L),
           \A d \in Slots : Before(d), Flight', Logged',
           UNCHANGED <<turns, proc, status, result, pipe>>,
           \A a \in Boxes : box'[a].state = box[a].state /\ box'[a].pod = box[a].pod
    PROVE  Composed'
<1>1. Active' = Active /\ TurnsGrow
  BY DEF Active, TurnsGrow
<1>2. \A d \in Slots : Still(d) \/ (Pump(d) /\ Pump(d)')
  BY DEF Hears, Pump
<1>3. \A d \in Slots : Kinded(d) /\ Steady(d)
  <2> TAKE d \in Slots
  <2>1. CASE Still(d)
    BY <2>1, CalmStill DEF Calmly, Composed
  <2>2. ASSUME NEW L, Hears(d, L) PROVE Kinded(d) /\ Steady(d)
    BY <2>2 DEF Hears, Kinded, Steady, Odd, Pump, Ended, At
  <2> QED BY <2>1, <2>2
<1>4. Plain'
  BY <1>3, PlainKept DEF Composed, Plain, Runs
<1>5. Adopting'
  BY <1>1, <1>2, AdoptingHarness DEF Composed
<1>6. Held'
  BY <1>1, HeldKept DEF Composed
<1>7. Piping'
  <2>1. \A a \in Boxes : Runs(a)' => Runs(a)
    BY DEF Runs
  <2> QED BY <1>3, <2>1, PlacedIs, PipingKept DEF Composed
<1>8. Owned'
  BY <1>1, OwnedKept DEF Composed
<1> QED BY <1>4, <1>5, <1>6, <1>7, <1>8 DEF Composed

\* What a pump has to read when it hears a line.
LEMMA Heard ==
    ASSUME NEW s \in Seq(Output), NEW x \in Output, NEW i \in DOMAIN (s \o <<x>>)
    PROVE  \/ i \in DOMAIN s /\ (s \o <<x>>)[i] = s[i]
           \/ i = Len(s \o <<x>>) /\ (s \o <<x>>)[i] = x
<1>1. PICK u \in Seq(Output) : u = <<x>> /\ Len(u) = 1 /\ u[1] = x
  BY Single
<1>2. i \in 1 .. Len(s) + 1 /\ Len(s \o u) = Len(s) + 1
  BY <1>1
<1>3. CASE i <= Len(s)
  BY <1>1, <1>2, <1>3
<1>4. CASE i = Len(s) + 1
  BY <1>1, <1>2, <1>4
<1> QED BY <1>2, <1>3, <1>4

\* One pump hears a sandbox that runs.
LEMMA OneHears ==
    ASSUME Typed, Composed, NEW b \in Boxes, NEW c \in Slots, NEW d \in Slots,
           Attached(c, b), Pump(d), co[d].box = b
    PROVE  c = d
BY DEF Attached, Is, Composed, Piping, Pump

LEMMA HarnessTakesLineComposed ==
    ASSUME Typed, Once, Calm, Composed, NEW b \in Boxes, HarnessTakesLine(b)
    PROVE  Composed'
<1>1. \A d \in Slots : Before(d)
  BY HeldByHarness
<1>2. CoOK /\ BoxOK
  BY DEF Typed
<1>3. UNCHANGED <<turns, proc, status, result, pipe>> /\ box[b].now = 0 /\ box[b].input # <<>>
  BY DEF HarnessTakesLine, rows
<1>4. PICK q \in BoxRecords : q = box[b] /\ q.input \in Seq(Nat)
  BY <1>2, BoxIs
<1>5. PICK t \in Nat, i \in Seq(Nat) : /\ t = Head(q.input) /\ i = Tail(q.input)
                                       /\ t = q.input[1] /\ 1 \in DOMAIN q.input
                                       /\ Len(i) = Len(q.input) - 1
  <2>1. q.input \in Seq(Nat) /\ q.input # <<>>
    BY <1>3, <1>4
  <2>2. PICK s \in Seq(Nat) : s = q.input /\ s # <<>>
    BY <2>1
  <2>3. /\ Head(s) \in Nat /\ Tail(s) \in Seq(Nat) /\ Head(s) = s[1] /\ 1 \in DOMAIN s
        /\ Len(Tail(s)) = Len(s) - 1
    BY <2>2, HeadTail
  <2> QED BY <2>2, <2>3
<1>6. i = <<>>
  <2>1. Len(q.input) = 1
    BY <1>3, <1>4, BusyIs DEF Composed
  <2> QED BY <1>5, <2>1
<1>7. PICK r : r = Taken(q, t, i)
  OBVIOUS
<1>8. box' = [box EXCEPT ![b] = r] /\ Emit(b, <<Lines(t, FALSE)>>)
  BY <1>2, <1>4, <1>5, <1>7 DEF HarnessTakesLine, BoxOK, Taken
<1>9. r.input = <<>> /\ r.now = t /\ r.log = q.log /\ r.state = q.state /\ r.pod = q.pod
  BY ZenonT(60), <1>6, <1>7, RecordTaken
<1>10. \A a \in Boxes : box'[a] = IF a = b THEN r ELSE box[a]
  BY <1>2, <1>8 DEF BoxOK
<1>11. t \in DOMAIN turns /\ InWork(b, t) /\ OfActive(t)
  <2>1. t \in DOMAIN turns /\ InWork(b, t)
    BY <1>4, <1>5, WorkIs
  <2> QED BY <2>1 DEF Composed, Flight
<1>12. ~Idle(b) /\ \A a \in Boxes \ {b} : Idle(a)
  BY <1>3 DEF Idle, Composed, Flight
<1>13. \A a \in Boxes : /\ a # b => Idle(a)'
                        /\ box'[a].input = <<>>
                        /\ box'[a].now # 0 => a = b
  BY <1>9, <1>10, <1>12 DEF Idle
<1>14. \A d \in Slots : ~Recording(d)
  BY <1>12 DEF Composed, Flight, Quiet
<1>15. \A d \in Slots : Pump(d) => co[d].buf = <<>>
  <2> SUFFICES ASSUME NEW d \in Slots, Pump(d), co[d].buf # <<>> PROVE FALSE
    OBVIOUS
  <2>1. PICK s \in Seq(Output) : s = co[d].buf
    BY <1>2, Apart, KindIs DEF Pump, Kinds, CoRecords
  <2>2. 1 \in DOMAIN s
    BY <2>1, HeadTail
  <2> QED BY <1>3, <2>1, <2>2 DEF Composed, Flight
<1>16. PICK x \in Output : x = Lines(t, FALSE) /\ x.turn = t /\ ~x.ends
  <2>1. Lines(t, FALSE) \in Output /\ Lines(t, FALSE).turn = t /\ ~Lines(t, FALSE).ends
    BY DEF Lines, Output
  <2> QED BY <2>1
<1>17. \A d \in Slots : IF Attached(d, b) THEN Hears(d, <<x>>) ELSE Still(d)
  <2>1. PICK L \in Seq(Output) : L = <<x>>
    BY Single
  <2> QED BY <1>2, <1>8, <1>16, <2>1, EmitIs
<1>18. \A d \in Slots : Recording(d)' => Recording(d)
  BY <1>17 DEF Recording, At, Hears, Still
<1>19. \A d \in Slots : ~Attached(d, b) => Deaf(d)'
  BY <1>15, <1>17 DEF Still, Deaf, Pump
<1>20. \A d \in Slots : Attached(d, b) => Pump(d)' /\ co'[d].buf = <<x>> /\ co'[d].box = b
  <2> SUFFICES ASSUME NEW d \in Slots, Attached(d, b)
               PROVE  Pump(d)' /\ co'[d].buf = <<x>> /\ co'[d].box = b
    OBVIOUS
  <2>1. Pump(d) /\ co[d].box = b
    BY DEF Attached, Is, Pump
  <2>2. Hears(d, <<x>>) /\ co[d].buf = <<>>
    BY <1>15, <1>17, <2>1
  <2>3. <<>> \o <<x>> = <<x>>
    OBVIOUS
  <2> QED BY <2>1, <2>2, <2>3 DEF Hears, Pump
<1>21. Flight'
  <2>1. \A a \in Boxes : \A u \in DOMAIN turns' : InWork(a, u)' => OfActive(u)'
    <3> SUFFICES ASSUME NEW a \in Boxes, NEW u \in DOMAIN turns, InWork(a, u)' PROVE OfActive(u)'
      BY <1>3
    <3>1. box'[a].now = u
      BY <1>13 DEF InWork
    <3>2. u # 0
      BY DEF Typed, TurnsOK
    <3>3. a = b
      BY <1>13, <3>1, <3>2
    <3>4. u = t
      BY <1>9, <1>10, <3>1, <3>3
    <3> QED BY <1>3, <1>11, <3>4 DEF OfActive, Active
  <2>2. ASSUME NEW d \in Slots, Pump(d)', NEW j \in DOMAIN co'[d].buf
        PROVE  /\ OfActive(co[d].buf[j].turn)'
               /\ co'[d].buf[j].ends => Quiet' /\ j = Len(co'[d].buf)
               /\ \A a \in Boxes : box'[a].input = <<>> /\ (box'[a].now # 0 => a = co'[d].box)
               /\ \A e \in Slots \ {d} : Deaf(e)'
    <3>1. Attached(d, b)
      BY <1>19, <2>2 DEF Deaf
    <3>2. co'[d].buf[j] = x
      BY <1>20, <2>2, <3>1, Single
    <3>3. \A e \in Slots \ {d} : ~Attached(e, b)
      BY <3>1, OneHears DEF Attached, Is, Pump
    <3>4. OfActive(co[d].buf[j].turn)'
      BY <1>3, <1>11, <1>16, <3>2 DEF OfActive, Active
    <3> QED BY <1>13, <1>16, <1>19, <1>20, <3>1, <3>2, <3>3, <3>4
  <2>3. \A d \in Slots : ~Recording(d)'
    BY <1>14, <1>18
  <2> QED BY <1>13, <2>1, <2>2, <2>3 DEF Flight
<1>22. Logged'
  <2>1. Active' = Active /\ StatusKept /\ TurnsGrow
    BY <1>3 DEF Active, StatusKept, TurnsGrow
  <2>2. \A a \in Boxes : box'[a].log = box[a].log
    BY <1>4, <1>9, <1>10
  <2>3. \A a \in Boxes : \A u \in DOMAIN turns : InWork(a, u)' => \E y \in Boxes : InWork(y, u)
    <3> SUFFICES ASSUME NEW a \in Boxes, NEW u \in DOMAIN turns, InWork(a, u)'
                 PROVE  \E y \in Boxes : InWork(y, u)
      OBVIOUS
    <3>1. box'[a].now = u /\ u # 0
      BY <1>13 DEF InWork, Typed, TurnsOK
    <3>2. u = t
      BY <1>9, <1>10, <1>13, <3>1
    <3> QED BY <1>11, <3>2
  <2> QED BY <2>1, <2>2, <2>3, LoggedKept DEF Composed
<1>23. \A a \in Boxes : box'[a].state = box[a].state /\ box'[a].pod = box[a].pod
  BY <1>4, <1>9, <1>10
<1> QED BY <1>1, <1>3, <1>17, <1>21, <1>22, <1>23, HarnessComposed

LEMMA HarnessEndsTurnComposed ==
    ASSUME Typed, Once, Calm, Composed, NEW b \in Boxes, HarnessEndsTurn(b)
    PROVE  Composed'
<1>1. \A d \in Slots : Before(d)
  BY HeldByHarness
<1>2. CoOK /\ BoxOK
  BY DEF Typed
<1>3. UNCHANGED <<turns, proc, status, result, pipe>> /\ box[b].now # 0 /\ Runs(b)
  BY DEF HarnessEndsTurn, rows
<1>4. PICK q \in BoxRecords : q = box[b] /\ q.log \in Seq(Line)
  BY <1>2, BoxIs
<1>5. PICK t \in DOMAIN turns : t = q.now /\ t # 0 /\ InWork(b, t)
  BY <1>3, <1>4, WorkIs
<1>6. PICK L \in Seq(Output) : EndsWith(b, L)
  BY <1>2, EndsTurnIs
<1>7. PICK x \in Output : L = <<x>> /\ x.turn = t
  <2>1. ~Hazard("fail")
    BY CalmWorld DEF Guarded
  <2>2. Len(L) = 1 /\ \A i \in DOMAIN L : L[i].turn = t
    BY <1>4, <1>5, <1>6, <2>1 DEF EndsWith
  <2>3. 1 \in DOMAIN L /\ L[1] \in Output /\ L = <<L[1]>>
    BY <2>2, Element
  <2> QED BY <2>2, <2>3
<1>8. PICK l \in Line : /\ l.turn = t /\ l.since = Started
                        /\ box' = [box EXCEPT ![b] = Done(q, 0, Append(q.log, l))]
  BY <1>4, <1>5, <1>6 DEF EndsWith
<1>9. PICK m \in Seq(Line) : m = Append(q.log, l)
  BY <1>4, Appended
<1>10. PICK r : r = Done(q, 0, m)
  OBVIOUS
<1>11. r.input = q.input /\ r.now = 0 /\ r.log = m /\ r.state = q.state /\ r.pod = q.pod
  BY <1>10, RecordDone
<1>12. \A a \in Boxes : box'[a] = IF a = b THEN r ELSE box[a]
  BY <1>2, <1>8, <1>9, <1>10 DEF BoxOK
<1>13. OfActive(t) /\ ~Quiet /\ q.input = <<>> /\ \A a \in Boxes \ {b} : Idle(a)
  <2>1. OfActive(t)
    BY <1>5 DEF Composed, Flight
  <2>2. ~Idle(b)
    BY <1>3 DEF Idle
  <2>3. q.input = <<>>
    BY <1>3, <1>4, BusyIs DEF Composed
  <2> QED BY <2>1, <2>2, <2>3 DEF Quiet, Composed, Flight
<1>14. Quiet'
  BY <1>11, <1>12, <1>13 DEF Quiet, Idle
<1>15. \A d \in Slots : ~Recording(d)
  BY <1>13 DEF Composed, Flight
<1>16. \A d \in Slots : IF Attached(d, b) THEN Hears(d, <<x>>) ELSE Still(d)
  BY <1>2, <1>6, <1>7, EmitIs DEF EndsWith
<1>17. \A d \in Slots : ~Recording(d)'
  BY <1>15, <1>16 DEF Recording, At, Hears, Still
<1>18. ASSUME NEW d \in Slots, Pump(d), NEW i \in DOMAIN co[d].buf
       PROVE  /\ OfActive(co[d].buf[i].turn) /\ ~co[d].buf[i].ends
              /\ co[d].box = b
              /\ \A e \in Slots \ {d} : Deaf(e)
  BY <1>3, <1>13, <1>18 DEF Composed, Flight
<1>19. \A d \in Slots : Pump(d) /\ co[d].box # b => co[d].buf = <<>>
  <2> SUFFICES ASSUME NEW d \in Slots, Pump(d), co[d].box # b, co[d].buf # <<>> PROVE FALSE
    OBVIOUS
  <2>1. PICK s \in Seq(Output) : s = co[d].buf
    BY <1>2, Apart, KindIs DEF Pump, Kinds, CoRecords
  <2>2. 1 \in DOMAIN s
    BY <2>1, HeadTail
  <2> QED BY <1>18, <2>1, <2>2
<1>20. \A d, e \in Slots : Pump(d) /\ Pump(e) /\ co[d].box = b /\ co[e].box = b => d = e
  BY DEF Composed, Piping
<1>21. \A d \in Slots : Pump(d)' => Pump(d) /\ co'[d].box = co[d].box
  BY <1>16 DEF Hears, Still, Pump
<1>22. \A d \in Slots : Pump(d) /\ co[d].box # b => Deaf(d)'
  <2> SUFFICES ASSUME NEW d \in Slots, Pump(d), co[d].box # b PROVE Deaf(d)'
    OBVIOUS
  <2>1. Still(d)
    BY <1>16 DEF Attached
  <2> QED BY <1>19, <2>1 DEF Still, Deaf
<1>23. Flight'
  <2>1. \A a \in Boxes : \A u \in DOMAIN turns' : ~InWork(a, u)'
    BY <1>3, <1>14 DEF Quiet, Idle, InWork, Typed, TurnsOK
  <2>2. ASSUME NEW d \in Slots, Pump(d)', NEW j \in DOMAIN co'[d].buf
        PROVE  /\ OfActive(co[d].buf[j].turn)'
               /\ co'[d].buf[j].ends => j = Len(co'[d].buf)
               /\ \A e \in Slots \ {d} : Deaf(e)'
    <3>1. Pump(d) /\ co[d].box = b
      BY <1>21, <1>22, <2>2 DEF Deaf
    <3>2. \A e \in Slots \ {d} : Deaf(e)'
      BY <1>20, <1>21, <1>22, <3>1 DEF Deaf
    <3>3. CASE Still(d)
      <4>1. j \in DOMAIN co[d].buf /\ co'[d].buf = co[d].buf
        BY <2>2, <3>3 DEF Still
      <4>2. OfActive(co[d].buf[j].turn) /\ ~co[d].buf[j].ends
        BY <1>18, <3>1, <4>1
      <4> QED BY <1>3, <3>2, <4>1, <4>2 DEF OfActive, Active
    <3>4. CASE Hears(d, <<x>>)
      <4>1. PICK s \in Seq(Output) : s = co[d].buf
        BY <1>2, AtIs, <3>4 DEF Hears, CoRecords
      <4>2. co'[d].buf = s \o <<x>>
        BY <3>4, <4>1 DEF Hears
      <4>3. \/ j \in DOMAIN s /\ co'[d].buf[j] = s[j]
            \/ j = Len(co'[d].buf) /\ co'[d].buf[j] = x
        BY <2>2, <4>2, Heard
      <4>4. \A i \in DOMAIN s : OfActive(s[i].turn) /\ ~s[i].ends
        BY <1>18, <3>1, <4>1
      <4>5. OfActive(co[d].buf[j].turn)'
        BY <1>3, <1>7, <1>13, <4>3, <4>4 DEF OfActive, Active
      <4> QED BY <3>2, <4>3, <4>4, <4>5
    <3> QED BY <1>16, <3>3, <3>4
  <2>3. \A a \in Boxes : box'[a].now = 0 /\ box'[a].input = <<>>
    BY <1>14 DEF Quiet, Idle
  <2> QED BY <1>14, <1>17, <2>1, <2>2, <2>3 DEF Flight, Quiet
<1>24. Logged'
  <2> SUFFICES ASSUME NEW a \in Boxes, NEW i \in DOMAIN box'[a].log
               PROVE  (/\ \A y \in Boxes : ~InWork(y, box[a].log[i].turn)
                       /\ \A e \in box[a].log[i].since :
                            /\ status[e] \notin Unwritten
                            /\ e \in Active => turns[box[a].log[i].turn].ex = e)'
    BY DEF Logged
  <2>1. PICK k : k = box'[a].log[i]
    OBVIOUS
  <2>2. \/ i \in DOMAIN box[a].log /\ k = box[a].log[i]
        \/ a = b /\ k = l
    <3>1. CASE a # b
      BY <1>12, <2>1, <3>1
    <3>2. CASE a = b
      <4>1. box'[a].log = m
        BY <1>11, <1>12, <3>2
      <4> QED BY <1>4, <1>9, <2>1, <3>2, <4>1, Appended
    <3> QED BY <3>1, <3>2
  <2>3. k.turn \in DOMAIN turns /\ \A e \in k.since : e \in Executions
                                        /\ status[e] \notin Unwritten
                                        /\ (e \in Active => turns[k.turn].ex = e)
    <3>1. CASE i \in DOMAIN box[a].log /\ k = box[a].log[i]
      <4>1. box[a].log \in Seq(Line) /\ InOrder(box[a])
        BY <1>2, BoxIs
      <4>2. k \in Line
        BY <3>1, <4>1, Element
      <4>3. k.turn \in DOMAIN turns
        BY <3>1, <4>1 DEF InOrder, TurnOK, Typed, TurnsOK
      <4> QED BY <3>1, <4>2, <4>3 DEF Composed, Logged, Line
    <3>2. CASE k = l
      BY <1>5, <1>8, <1>13, <3>2 DEF Started, OfActive, Typed, RowsOK
    <3> QED BY <2>2, <3>1, <3>2
  <2>4. \A y \in Boxes : ~InWork(y, k.turn)'
    BY <1>14, <2>3 DEF Quiet, Idle, InWork, Typed, TurnsOK
  <2>5. Active' = Active
    BY <1>3 DEF Active
  <2> QED BY <1>3, <2>1, <2>3, <2>4, <2>5
<1>25. \A a \in Boxes : box'[a].state = box[a].state /\ box'[a].pod = box[a].pod
  BY <1>4, <1>11, <1>12
<1> QED BY <1>1, <1>3, <1>16, <1>23, <1>24, <1>25, HarnessComposed

LEMMA SandboxDiesComposed ==
    ASSUME Typed, Calm, Composed, NEW b \in Boxes, SandboxDies(b)
    PROVE  Composed'
<1>1. \A d \in Slots : Before(d)
  BY HeldByHarness
<1>2. CoOK /\ BoxOK
  BY DEF Typed
<1>3. UNCHANGED <<turns, proc, status, result, pipe>> /\ Stop(b, "gone")
  BY DEF SandboxDies, rows
<1>4. \A d \in Slots : Still(d) \/ (Shut(d) /\ co[d].box = b)
  BY <1>2, SandboxDiesIs DEF Closes
<1>5. PICK r : r = [NoBox EXCEPT !.state = "gone", !.pod = box[b].pod]
  OBVIOUS
<1>6. r.now = 0 /\ r.input = <<>> /\ r.log = <<>> /\ r.state = "gone"
  BY <1>5 DEF NoBox
<1>7. \A a \in Boxes : box'[a] = IF a = b THEN r ELSE box[a]
  BY <1>2, <1>3, <1>5 DEF Stop, BoxOK
<1>8. Active' = Active /\ StatusKept /\ TurnsGrow
  BY <1>3 DEF Active, StatusKept, TurnsGrow
<1>9. \A d \in Slots : Kinded(d) /\ Tame(d)
  <2> TAKE d \in Slots
  <2>1. CASE Still(d)
    BY <2>1, CalmStill DEF Calmly, Composed
  <2>2. CASE Shut(d)
    BY <2>2 DEF Shut, Shuts, Kinded, Odd, Tame, Pump, Recording, At
  <2> QED BY <1>4, <2>1, <2>2
<1>10. Plain'
  BY <1>3, <1>6, <1>7, <1>9, PlainKept DEF Composed, Plain, Runs
<1>11. Adopting'
  <2>1. \A d \in Slots : Still(d) \/ (Pump(d) /\ Pump(d)')
    BY <1>4 DEF Shut, Shuts, Pump
  <2> QED BY <1>3, <1>8, <2>1, AdoptingHarness DEF Composed
<1>12. Held'
  BY <1>1, <1>8, HeldKept DEF Composed
<1>13. Piping'
  <2>1. \A a \in Boxes : Runs(a)' => Runs(a) /\ a # b
    BY <1>6, <1>7 DEF Runs
  <2>2. \A d \in Slots : Pump(d)' => /\ Pump(d) /\ co'[d].box = co[d].box
                                     /\ co'[d] = co[d] \/ (co[d].box = b /\ co'[d].eof)
    BY <1>4 DEF Still, Shut, Shuts, Pump
  <2>3. \A d \in Slots : At(d, "open")' => At(d, "open") /\ co'[d].box = co[d].box
    BY <1>4 DEF Still, Shut, Shuts, At
  <2>4. (\A c, d \in Slots : Pump(c) /\ Pump(d) /\ co[c].box = co[d].box => c = d)'
    BY <2>2 DEF Composed, Piping
  <2>5. (\A c \in Slots : Pump(c) /\ Runs(co[c].box) => pipe[co[c].proc][co[c].box] # 0 /\ ~co[c].eof)'
    <3> SUFFICES ASSUME NEW c \in Slots, (Pump(c) /\ Runs(co[c].box))'
                 PROVE  (pipe[co[c].proc][co[c].box] # 0 /\ ~co[c].eof)'
      OBVIOUS
    <3>1. Pump(c) /\ co'[c].box = co[c].box /\ co[c].box \in Boxes
      BY <2>2, PlacedIs
    <3>2. Runs(co[c].box) /\ co[c].box # b
      BY <2>1, <3>1 DEF Runs
    <3> QED BY <1>3, <2>2, <3>1, <3>2 DEF Composed, Piping
  <2>6. (\A c \in Slots : Pump(c) /\ Ended(c) => co[c].eof)'
    BY <2>2 DEF Composed, Piping, Ended
  <2>7. (\A c, d \in Slots : At(c, "open") /\ Runs(co[c].box) /\ Pump(d) => co[d].box # co[c].box)'
    <3> SUFFICES ASSUME NEW c \in Slots, NEW d \in Slots, (At(c, "open") /\ Runs(co[c].box) /\ Pump(d))'
                 PROVE  co'[d].box # co'[c].box
      OBVIOUS
    <3>1. /\ At(c, "open") /\ co'[c].box = co[c].box /\ co[c].box \in Boxes
          /\ Pump(d) /\ co'[d].box = co[d].box
      BY <2>2, <2>3, PlacedIs
    <3>2. Runs(co[c].box)
      BY <2>1, <3>1 DEF Runs
    <3> QED BY <3>1, <3>2 DEF Composed, Piping
  <2> QED BY <2>4, <2>5, <2>6, <2>7 DEF Piping
<1>14. \A a \in Boxes : \/ box'[a].now = box[a].now /\ box'[a].input = box[a].input
                        \/ Idle(a)'
  BY <1>6, <1>7 DEF Idle
<1>15. Flight'
  BY <1>3, <1>8, <1>9, <1>14, FlightKept DEF Composed
<1>16. Logged'
  <2>1. \A a \in Boxes : box'[a].log = box[a].log \/ box'[a].log = <<>>
    BY <1>6, <1>7
  <2>2. \A a \in Boxes : \A t \in DOMAIN turns : InWork(a, t)' => InWork(a, t)
    BY <1>14 DEF InWork, Idle, Typed, TurnsOK
  <2> QED BY <1>8, <2>1, <2>2, LoggedKept DEF Composed
<1>17. Owned'
  BY <1>3, <1>8, OwnedKept DEF Composed
<1> QED BY <1>10, <1>11, <1>12, <1>13, <1>15, <1>16, <1>17 DEF Composed

\* Steps of coroutines; those of hazards left out are impossible.
LEMMA StepComposed ==
    ASSUME Typed, Typed', Once, Calm, Calm', Composed, NEW c \in Slots, Step(c)
    PROVE  Composed'
<1>1. CASE SandboxStatus(c) \/ ResumeSandbox(c) \/ EnsureFails(c) \/ AppendFailure(c)
  BY <1>1, RequestsComposed
<1>2. CASE CreateExecution(c)
  BY <1>2, CreateExecutionComposed
<1>3. CASE MarkExecutionRunning(c)
  BY <1>3, MarkExecutionRunningComposed
<1>4. CASE ReplaceSandbox(c)
  BY <1>4, ReplaceSandboxComposed
<1>5. CASE LookForPipe(c)
  BY <1>5, LookForPipeComposed
<1>6. CASE OpenIo(c)
  BY <1>6, OpenIoComposed
<1>7. CASE WriteInput(c)
  BY <1>7, WriteInputComposed
<1>8. CASE FailExecution(c)
  BY <1>8, FailExecutionComposed
<1>9. CASE Record(c)
  BY <1>9, RecordComposed, RecordersComposed
<1>10. CASE Tell(c) \/ MaxDuration(c)
  BY <1>10, RecordersComposed
<1>11. CASE PumpLine(c)
  BY <1>11, PumpLineComposed
<1>12. CASE PumpEof(c) \/ PumpEnd(c)
  BY <1>12, PumpEndsComposed
<1>13. CASE ListActive(c) \/ AdoptSession(c) \/ RearmTimer(c)
  BY <1>13, AdoptersComposed
<1>14. CASE ReadLogs(c)
  BY <1>14, ReadLogsComposed
<1>15. CASE SteeringSession(c) \/ IdleCheck(c) \/ PauseSandbox(c)
  <2>1. co[c].kind \in {"steer", "idle"}
    BY <1>15, SteeringSessionIs, IdleCheckIs, PauseSandboxIs DEF Typed
  <2> QED BY <2>1 DEF Composed, Plain
<1> QED BY <1>1, <1>2, <1>3, <1>4, <1>5, <1>6, <1>7, <1>8, <1>9, <1>10, <1>11, <1>12, <1>13,
           <1>14, <1>15 DEF Step

LEMMA ComposedStutter == ASSUME Composed, UNCHANGED vars PROVE Composed'
<1>1. Plain' /\ Adopting' /\ Held'
  BY DEF vars, rows, Composed, Plain, Adopting, Held, Holds, Pump, Runs, Active
<1>2. Piping'
  BY DEF vars, rows, Composed, Piping, Pump, Runs, Ended, At
<1>3. Flight'
  BY DEF vars, rows, Composed, Flight, InWork, OfActive, Active, Idle, Quiet, Pump, Deaf, Recording, At
<1>4. Logged' /\ Owned'
  BY DEF vars, rows, Composed, Logged, Owned, Foreign, InWork, Active
<1> QED BY <1>1, <1>2, <1>3, <1>4 DEF Composed

CalmInv == Calm => Composed

LEMMA CalmStep ==
    ASSUME Typed, Typed', Once, CalmInv, [Next]_vars
    PROVE  CalmInv'
<1> SUFFICES ASSUME Calm' PROVE Composed'
  BY DEF CalmInv
<1>1. Calm /\ Composed
  BY CalmBefore DEF CalmInv
<1>2. ASSUME NEW p \in Procs, AppendMessages(p) \/ StreamEvents(p) PROVE FALSE
  BY <1>1, <1>2, CalmWorld DEF AppendMessages, StreamEvents, Guarded
<1>3. CASE \/ \E p \in Procs, r \in Requests : Execute(r, p)
           \/ \E c \in Slots : Disconnect(c)
  BY <1>1, <1>3, CallersComposed
<1>4. ASSUME NEW c \in Slots, Step(c) PROVE Composed'
  BY <1>1, <1>4, StepComposed
<1>5. ASSUME NEW b \in Boxes, HarnessTakesLine(b) \/ HarnessEndsTurn(b) \/ SandboxDies(b)
      PROVE  Composed'
  BY <1>1, <1>5, HarnessTakesLineComposed, HarnessEndsTurnComposed, SandboxDiesComposed
<1>6. CASE StartProcess
  BY <1>1, <1>6, StartProcessComposed
<1>7. CASE ProcessDies
  BY <1>1, <1>7, ProcessDiesComposed
<1>8. CASE UNCHANGED vars
  BY <1>1, <1>8, ComposedStutter
<1> QED BY <1>2, <1>3, <1>4, <1>5, <1>6, <1>7, <1>8 DEF Next

LEMMA CalmInit == ASSUME Init PROVE CalmInv
<1>1. /\ \A c \in Slots : co[c] = Free
      /\ \A b \in Boxes : box[b] = NoBox
      /\ turns = <<>> /\ proc[2] = "new"
      /\ \A e \in Executions : result[e] = None
  BY DEF Init, Procs
<1>2. /\ \A c \in Slots : ~Pump(c) /\ ~Recording(c) /\ ~Holds(c) /\ ~At(c, "open")
      /\ \A c \in Slots : co[c].kind \notin {"steer", "stream", "idle", "adopt"}
  BY <1>1, Apart DEF Pump, Recording, Holds, At
<1>3. /\ \A b \in Boxes : Idle(b) /\ box[b].state = "none" /\ box[b].log = <<>>
      /\ \A t \in DOMAIN turns : FALSE
  BY <1>1 DEF NoBox, Idle
<1>4. Plain
  BY <1>1, <1>2, <1>3 DEF Plain, Runs
<1>5. Adopting /\ Held /\ Piping
  BY <1>2 DEF Adopting, Held, Piping
<1>6. Flight
  BY <1>2, <1>3 DEF Flight
<1>7. Logged
  BY <1>3 DEF Logged
<1>8. Owned
  BY <1>1 DEF Owned, Foreign
<1> QED BY <1>4, <1>5, <1>6, <1>7, <1>8 DEF CalmInv, Composed

\* The answer of an execution comes from the turn that its own input started, in a
\* session that is without the guarded hazards and as long as nobody was cut off: through
\* disconnecting callers, sandboxes that die and the deployment of another process.
THEOREM OwnAnswerHolds == Spec => []OwnAnswer
<1>1. Init => Typed /\ Once /\ CalmInv
  BY TypedInit, OnceInit, CalmInit
<1>2. Typed /\ Once /\ CalmInv /\ [Next]_vars => (Typed /\ Once /\ CalmInv)'
  BY TypedStep, OnceStep, CalmStep
<1>3. Typed /\ Once /\ CalmInv => OwnAnswer
  BY DEF CalmInv, Calm, Composed, Owned, OwnAnswer
<1> QED BY <1>1, <1>2, <1>3, PTL DEF Spec
=============================================================================
