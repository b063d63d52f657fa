-------------------------- MODULE TurnAnswerProofs --------------------------
(***************************************************************************)
(* Proofs about TurnDelivery, for any number of messages, executions,      *)
(* workers and turns, and any worlds: that answers belong to their         *)
(* executions and no turn is passed over in silence, when crashes lose     *)
(* nothing.                                                                *)
(***************************************************************************)
EXTENDS TurnDeliveryProofs

-----------------------------------------------------------------------------
(* The inductive invariant. *)

Open(e) == status[e] \notin Terminal

\* Somebody has worked on it.
Begun(e) ==
    \/ status[e] \in {"running", "retry_wait"}
    \/ durable[e] # None
    \/ Own(e) # {}
    \/ \E w \in Workers : exec[w] = e

\* Executions are asked for and worked on one after the other.
Serial ==
    /\ \A e, f \in Executions : f < e /\ status[e] # "none" => status[f] # "none"
    /\ \A e, f \in Executions : f < e /\ Begun(e) => ~Open(f)

\* Where a worker may be attached.
Reading == {"advance", "record", "stream", "done"}

At(w) ==
    /\ pc[w] # "idle" => w \in world.workers
    /\ pc[w] \notin {"idle", "rewind"} => status[exec[w]] = "running"
    /\ pc[w] = "rewind" => "auth" \in world.hazards /\ status[exec[w]] = "queued"
    /\ pc[w] \in {"idle", "rewind"} => w \notin held
    /\ w \in attached \/ hears[w] # <<>> => pc[w] \in Reading

Solo == /\ \A w \in Workers : At(w)
        /\ \A v, w \in Workers : pc[v] # "idle" /\ pc[w] # "idle" => v = w

\* The turn at hand is one of the worker's execution.
Working(w) ==
    /\ pc[w] = "spawn" => session = None
    /\ pc[w] \notin {"idle", "acquire", "spawn"} => session # None
    /\ pc[w] \in {"prepare", "flush", "mark", "write"} => durable[exec[w]] = None /\ stdin = <<>>
    /\ pc[w] \in {"resume", "attach", "stream", "done"} => durable[exec[w]] # None
    /\ pc[w] \in {"write", "advance", "record", "done"} => turn[w] \in Own(exec[w])
    /\ pc[w] \in {"write", "advance", "record"} => session.inflight # None
    /\ hears[w] # <<>> \/ pc[w] = "done" => stdin = <<>>
    /\ \A i \in DOMAIN hears[w] : hears[w][i] \in Own(exec[w])

\* The row r has the turn of e in flight, or its result.
Keeps(r, e) == r # None /\ (r.inflight # None \/ r.result \in Own(e))

\* An execution whose turn is noted finds it.
Noted ==
    \A e \in Executions : durable[e] # None /\ Open(e) =>
        /\ (\A w \in Workers : pc[w] # "spawn") => Keeps(session, e)
        /\ \A w \in Workers : pc[w] = "spawn" => Keeps(carry[w], e)

\* The sandbox has one turn at most, one that is noted or about to be.
InWork ==
    stdin # <<>> =>
        /\ Tail(stdin) = <<>> /\ alive
        /\ session # None /\ session.inflight # None
        /\ \E e \in Executions :
              /\ Open(e) /\ Head(stdin) \in Own(e)
              /\ \/ durable[e] # None
                 \/ \E w \in Workers : pc[w] \in {"advance", "record"} /\ exec[w] = e

\* An execution with turns and none noted will flush everything again.
Rewound ==
    \A e \in Executions : Open(e) /\ durable[e] = None /\ Own(e) \cap written # {} =>
        \/ \E w \in Workers : exec[w] = e /\ pc[w] \in {"advance", "record", "rewind"}
        \/ /\ CursorOf(session) = None
           /\ \A w \in Workers : pc[w] = "spawn" => carry[w].cursor = None

Counted == /\ \A t \in Turns : t > turns => turnBy[t] = None
           /\ written # {} => visible # {}

ClosedOf(e) ==
    /\ how[e] # "open" => ~Open(e)
    /\ how[e] = "no_input" => Own(e) \cap written = {}
    /\ how[e] \in {"own", "persisted"} => answer[e] \in Own(e)

Tended ==
    /\ Serial /\ Solo /\ Noted /\ InWork /\ Rewound /\ Counted
    /\ \A w \in Workers : Working(w)
    /\ \A e \in Executions : ClosedOf(e)

-----------------------------------------------------------------------------
(* The invariant when only w may be at work, on x. *)

OthersOff(w) == \A v \in Workers \ {w} : pc[v] = "idle" /\ v \notin held /\ hears[v] = <<>>

Fresh(x) == \A e \in Executions \ {x} : Open(e) => durable[e] = None /\ Own(e) = {}

\* The row that the thread goes on with.
Row(w) == IF pc[w] = "spawn" THEN carry[w] ELSE session

ForX(w, x) ==
    /\ Open(x) /\ durable[x] # None => Keeps(Row(w), x)
    /\ Open(x) /\ durable[x] = None /\ Own(x) \cap written # {} =>
          CursorOf(Row(w)) = None \/ pc[w] \in {"advance", "record", "rewind"}
    /\ stdin # <<>> =>
          /\ Tail(stdin) = <<>> /\ alive
          /\ session # None /\ session.inflight # None
          /\ Open(x) /\ Head(stdin) \in Own(x)
          /\ durable[x] # None \/ pc[w] \in {"advance", "record"}

Local(w, x) ==
    /\ OthersOff(w) /\ At(w) /\ Working(w) /\ Fresh(x) /\ ForX(w, x)
    /\ Serial /\ Counted /\ \A e \in Executions : ClosedOf(e)

LEMMA CarryIs ==
    ASSUME WorkersOK, NEW w \in Workers
    PROVE  carry[w] # None /\ CursorOf(carry[w]) = carry[w].cursor
BY Rows DEF WorkersOK, CursorOf

\* What others have to say when only w is at work.
LEMMA Gathered ==
    ASSUME TypeOK, Placed, Tended, NEW w \in Workers, pc[w] # "idle"
    PROVE  Local(w, exec[w]) /\ exec[w] \in Executions /\ Open(exec[w])
<1>1. PICK x : x = exec[w]
  OBVIOUS
<1>2. x \in Executions /\ Open(x) /\ At(w)
  BY <1>1, Parts DEF Tended, Solo, At, WorkPlaced, StageOK, Open, Terminal
<1>3. OthersOff(w)
  BY DEF Tended, Solo, At, OthersOff, Reading
<1>4. Fresh(x)
  <2> SUFFICES ASSUME NEW e \in Executions \ {x}, Open(e), durable[e] # None \/ Own(e) # {}
               PROVE  FALSE
    BY DEF Fresh
  <2>1. Begun(e) /\ Begun(x)
    BY <1>1 DEF Begun
  <2>2. e < x \/ x < e
    BY <1>2, TurnAssumption DEF Executions
  <2> QED BY <1>2, <2>1, <2>2 DEF Tended, Serial
<1>5. carry[w] # None /\ CursorOf(carry[w]) = carry[w].cursor
  BY CarryIs, Types
<1>6. \A v \in Workers : pc[v] # "idle" => v = w
  BY <1>3 DEF OthersOff
<1>7. Open(x) /\ durable[x] # None => Keeps(Row(w), x)
  BY <1>2, <1>6 DEF Tended, Noted, Row
<1>8. Open(x) /\ durable[x] = None /\ Own(x) \cap written # {} =>
         CursorOf(Row(w)) = None \/ pc[w] \in {"advance", "record", "rewind"}
  BY <1>2, <1>5, <1>6 DEF Tended, Rewound, Row
<1>9. stdin # <<>> =>
         /\ Tail(stdin) = <<>> /\ alive
         /\ session # None /\ session.inflight # None
         /\ Open(x) /\ Head(stdin) \in Own(x)
         /\ durable[x] # None \/ pc[w] \in {"advance", "record"}
  <2> SUFFICES ASSUME stdin # <<>>
               PROVE  Head(stdin) \in Own(x) /\ (durable[x] # None \/ pc[w] \in {"advance", "record"})
    BY <1>2 DEF Tended, InWork
  <2>1. PICK e \in Executions :
           /\ Open(e) /\ Head(stdin) \in Own(e)
           /\ durable[e] # None \/ \E v \in Workers : pc[v] \in {"advance", "record"} /\ exec[v] = e
    BY DEF Tended, InWork
  <2>2. e = x
    BY <1>4, <2>1 DEF Fresh
  <2> QED BY <1>6, <2>1, <2>2
<1>10. ForX(w, x)
  BY <1>7, <1>8, <1>9 DEF ForX
<1>11. Serial /\ Counted /\ Working(w) /\ \A e \in Executions : ClosedOf(e)
  BY DEF Tended
<1> QED BY <1>1, <1>2, <1>3, <1>4, <1>10, <1>11 DEF Local

\* And the other way round, after a step.
LEMMA Spread ==
    ASSUME TypeOK', NEW w \in Workers, NEW x \in Executions, Local(w, x)',
           pc'[w] # "idle" => exec'[w] = x
    PROVE  Tended'
<1>1. \A v \in Workers : pc'[v] # "idle" => v = w
  BY DEF Local, OthersOff
<1>2. ASSUME NEW v \in Workers \ {w}
      PROVE  At(v)' /\ Working(v)'
  <2>1. pc'[v] = "idle" /\ v \notin held' /\ v \notin attached' /\ hears'[v] = <<>>
    BY TypesPrimed DEF Local, OthersOff, SandboxOK
  <2> QED BY <2>1 DEF At, Working
<1>3. Solo' /\ \A v \in Workers : Working(v)'
  BY <1>1, <1>2 DEF Solo, Local
<1>4. \A v \in Workers : carry'[v] # None
  BY TypesPrimed, Rows DEF WorkersOK
<1>5. \A e \in Executions : Open(e)' /\ (durable'[e] # None \/ Own(e)' # {}) => e = x
  BY DEF Local, Fresh
<1>6. Noted'
  BY <1>1, <1>5 DEF Noted, Local, ForX, Row
<1>7. InWork'
  BY <1>1 DEF InWork, Local, ForX
<1>8. Rewound'
  <2> SUFFICES ASSUME Open(x)', durable'[x] = None, Own(x)' \cap written' # {},
                      pc'[w] \notin {"advance", "record", "rewind"}
               PROVE  /\ CursorOf(session)' = None
                      /\ \A v \in Workers : pc'[v] = "spawn" => carry'[v].cursor = None
    BY <1>1, <1>5 DEF Rewound
  <2>1. CursorOf(Row(w))' = None
    BY DEF Local, ForX
  <2>2. pc'[w] = "spawn" => session' = None
    BY DEF Local, Working
  <2> QED BY <1>1, <1>4, <2>1, <2>2 DEF Row, CursorOf
<1> QED BY <1>3, <1>6, <1>7, <1>8 DEF Tended, Local

-----------------------------------------------------------------------------
(* A step of w, at work on x. *)

Tends(w, x) ==
    /\ \A v \in Workers \ {w} : Same(v) /\ hears'[v] = hears[v]
    /\ held' \subseteq held \cup {w} /\ exec'[w] \in {x, None}
    /\ pc'[w] # "idle" => exec'[w] = x
    /\ status'[x] # "none"
    /\ \A e \in Executions \ {x} : /\ status'[e] = status[e] /\ durable'[e] = durable[e]
                                   /\ how'[e] = how[e] /\ answer'[e] = answer[e]
    /\ turns <= turns' /\ visible \subseteq visible'
    /\ written \subseteq written' /\ written' \subseteq written \cup Own(x)
    /\ \A t \in Turns : turnBy'[t] = turnBy[t] \/ (t > turns /\ t <= turns' /\ turnBy'[t] = x)

LEMMA OwnKept ==
    ASSUME Counted, NEW w, NEW x, Tends(w, x)
    PROVE  /\ \A e \in Executions \ {x} :
                 Own(e)' = Own(e) /\ Own(e) \cap written' = Own(e) \cap written
           /\ Own(x) \subseteq Own(x)'
<1>1. ASSUME NEW e \in Executions \ {x}
      PROVE  Own(e)' = Own(e) /\ Own(e) \cap written' = Own(e) \cap written
  <2>1. e # None
    BY TurnAssumption DEF Executions
  <2>2. \A t \in Turns : turnBy'[t] = e <=> turnBy[t] = e
    BY <2>1 DEF Counted, Tends
  <2>3. Own(e) \cap Own(x) = {}
    BY DEF Own
  <2>4. Own(e)' = Own(e)
    BY <2>2 DEF Own
  <2> QED BY <2>3, <2>4 DEF Tends
<1> QED BY <1>1 DEF Own, Tends

LEMMA CountsKept ==
    ASSUME TypeOK, TypeOK', Counted, NEW w, NEW x, Tends(w, x), written' # {} => visible # {}
    PROVE  Counted'
<1>1. turns \in Nat /\ turns' \in Nat /\ Turns \subseteq Nat
  BY TurnsMade, Types, TypesPrimed, WorldBounds DEF CountsOK, Turns
<1> QED BY <1>1 DEF Counted, Tends

LEMMA Followed ==
    ASSUME TypeOK, TypeOK', Placed, Tended, NEW w \in Workers, pc[w] # "idle",
           NEW x, x = exec[w], Tends(w, x), written' # {} => visible # {},
           At(w)', Working(w)', ForX(w, x)', ClosedOf(x)'
    PROVE  Tended'
<1>1. Local(w, x) /\ x \in Executions /\ Open(x)
  BY Gathered
<1>2. Counted /\ Counted'
  BY <1>1, CountsKept DEF Local
<1>3. \A e \in Executions \ {x} :
         Own(e)' = Own(e) /\ Own(e) \cap written' = Own(e) \cap written
  BY <1>2, OwnKept
<1>4. OthersOff(w)'
  BY <1>1 DEF Local, OthersOff, Tends, Same
<1>5. Fresh(x)'
  BY <1>1, <1>3 DEF Local, Fresh, Tends, Open
<1>6. \A e \in Executions : ClosedOf(e)'
  BY <1>1, <1>3 DEF Local, ClosedOf, Tends, Open
<1>7. Serial'
  <2>1. Begun(x) /\ status[x] # "none"
    BY <1>1, Parts DEF Begun, WorkPlaced, StageOK
  <2>2. \A e \in Executions : Begun(e)' => Begun(e)
    <3> SUFFICES ASSUME NEW e \in Executions \ {x}, Begun(e)' PROVE Begun(e)
      BY <2>1
    <3>1. e # None
      BY TurnAssumption DEF Executions
    <3>2. \A v \in Workers : exec'[v] = e => exec[v] = e
      BY <3>1 DEF Tends, Same
    <3> QED BY <1>3, <3>2 DEF Begun, Tends
  <2>3. \A e \in Executions : ~Open(e) => ~Open(e)'
    BY <1>1 DEF Tends, Open
  <2>4. \A e \in Executions : status'[e] # "none" <=> status[e] # "none"
    BY <2>1 DEF Tends
  <2> QED BY <1>1, <2>2, <2>3, <2>4 DEF Local, Serial
<1>8. Local(w, x)'
  BY <1>2, <1>4, <1>5, <1>6, <1>7 DEF Local
<1> QED BY <1>1, <1>8, Spread DEF Tends

\* Steps that leave the executions, the turns and what the harness works on alone.
Goes(w, x) ==
    /\ Tends(w, x)
    /\ UNCHANGED <<execVars, turns, turnBy, written, stdin>>
    /\ stdin # <<>> => alive'

LEMMA Gone ==
    ASSUME TypeOK, TypeOK', Placed, Tended, NEW w \in Workers, pc[w] # "idle",
           NEW x, x = exec[w], Goes(w, x),
           At(w)', Working(w)',
           Keeps(Row(w), x) => Keeps(Row(w), x)',
           CursorOf(Row(w)) = None \/ pc[w] \in {"advance", "record", "rewind"} =>
              CursorOf(Row(w))' = None \/ pc'[w] \in {"advance", "record", "rewind"},
           stdin # <<>> =>
              /\ session' # None /\ session'.inflight # None
              /\ durable[x] = None => pc'[w] \in {"advance", "record"}
    PROVE  Tended'
<1>1. Local(w, x) /\ x \in Executions /\ Open(x)
  BY Gathered
<1>2. Own(x)' = Own(x)
  BY DEF Own, Goes
<1>3. ForX(w, x)'
  BY <1>1, <1>2 DEF Local, ForX, Goes, Open, execVars
<1>4. ClosedOf(x)' /\ (written' # {} => visible # {})
  BY <1>1, <1>2 DEF Local, ClosedOf, Counted, Goes, Open, execVars
<1> QED BY <1>3, <1>4, Followed DEF Goes

LEMMA GoesIs ==
    ASSUME TypeOK, Placed, Grows, NEW w \in Workers, pc[w] # "idle",
           \A v \in Workers \ {w} : Same(v) /\ hears'[v] = hears[v],
           exec'[w] = exec[w] \/ (exec'[w] = None /\ pc'[w] = "idle"),
           held' \subseteq held \cup {w},
           UNCHANGED <<execVars, turnVars, stdin>>, stdin # <<>> => alive'
    PROVE  Goes(w, exec[w])
<1>1. status[exec[w]] # "none"
  BY Parts DEF WorkPlaced, StageOK
<1>2. turns \in Nat
  BY TurnsMade
<1> QED BY <1>1, <1>2 DEF Goes, Tends, Grows, execVars, turnVars

LEMMA ReuseTended ==
    ASSUME TypeOK, Placed, Tended, NEW w \in Workers, ReuseSession(w)
    PROVE  Tended'
<1>1. /\ TypeOK' /\ Grows /\ \A v \in Workers \ {w} : Same(v)
      /\ exec'[w] = exec[w] /\ pc'[w] = IF durable[exec[w]] = None THEN "prepare" ELSE "resume"
  BY ReuseStep, Types DEF ReuseSession, WorkersOK
<1>2. /\ pc[w] = "acquire" /\ session # None /\ held' = held \cup {w}
      /\ UNCHANGED <<transcriptVars, session, alive, stdin, attached, hears, execVars, turnVars, exec,
                     batch, turn, carry, faultVars>>
  BY DEF ReuseSession
<1>3. PICK x : x = exec[w]
  OBVIOUS
<1>4. Local(w, x)
  BY <1>2, <1>3, Gathered
<1>5. Goes(w, x)
  BY <1>1, <1>2, <1>3, <1>4, GoesIs DEF Local, ForX
<1>6. stdin # <<>> => durable[x] # None /\ session.inflight # None
  BY <1>2, <1>4 DEF Local, ForX
<1>7. UNCHANGED <<durable, status, world>> /\ Own(x)' = Own(x)
  BY <1>2 DEF execVars, faultVars, turnVars, Own
<1>8. At(w)'
  BY <1>1, <1>2, <1>4, <1>7 DEF Local, At, Reading
<1>9. Working(w)'
  BY <1>1, <1>2, <1>3, <1>4, <1>6, <1>7 DEF Local, Working, At, Reading
<1>10. Row(w)' = Row(w)
  BY <1>1, <1>2 DEF Row
<1>11. (Keeps(Row(w), x) => Keeps(Row(w), x)') /\ CursorOf(Row(w))' = CursorOf(Row(w))
  BY <1>7, <1>10 DEF Keeps, CursorOf
<1> QED BY <1>1, <1>2, <1>3, <1>5, <1>6, <1>8, <1>9, <1>11, Gone

LEMMA DropTended ==
    ASSUME TypeOK, Placed, Tended, NEW w \in Workers, DropSession(w)
    PROVE  Tended'
<1>1. /\ TypeOK' /\ Grows /\ \A v \in Workers \ {w} : Same(v)
      /\ exec'[w] = exec[w] /\ pc'[w] = "spawn" /\ session' = None
      /\ carry'[w].cursor = CursorOf(session)
  BY DropStep
<1>2. /\ pc[w] = "acquire" /\ ~(session # None /\ alive)
      /\ carry' = [carry EXCEPT ![w] =
                     IF session = None THEN Blank
                     ELSE [session EXCEPT !.result = IF @ = None THEN 0 ELSE @]]
      /\ UNCHANGED <<transcriptVars, sandboxVars, execVars, turnVars, exec, batch, turn, faultVars>>
  BY DEF DropSession
<1>3. PICK x : x = exec[w]
  OBVIOUS
<1>4. Local(w, x)
  BY <1>2, <1>3, Gathered
<1>5. Goes(w, x)
  BY <1>1, <1>2, <1>3, <1>4, GoesIs DEF Local, ForX, sandboxVars
<1>6. stdin = <<>>
  BY <1>2, <1>4 DEF Local, ForX
<1>7. UNCHANGED <<durable, status, world, held, attached, hears, stdin>> /\ Own(x)' = Own(x)
  BY <1>2 DEF execVars, faultVars, turnVars, sandboxVars, Own
<1>8. At(w)'
  BY <1>1, <1>2, <1>4, <1>7 DEF Local, At, Reading
<1>9. Working(w)'
  BY <1>1, <1>2, <1>3, <1>4, <1>6, <1>7 DEF Local, Working, At, Reading
<1>10. Keeps(Row(w), x) => Keeps(Row(w), x)'
  <2> SUFFICES ASSUME Keeps(session, x) PROVE Keeps(carry[w], x)'
    BY <1>1, <1>2 DEF Row, Keeps
  <2>1. session \in Sessions /\ session # None
    BY Types DEF Keeps, RowOK
  <2>2. carry'[w] = [session EXCEPT !.result = IF @ = None THEN 0 ELSE @]
    BY <1>2, <2>1, Types DEF WorkersOK
  <2>3. /\ carry'[w].inflight = session.inflight
        /\ carry'[w].result = IF session.result = None THEN 0 ELSE session.result
    BY <2>1, <2>2 DEF Sessions
  <2>4. carry'[w] # None
    BY <1>1, TypesPrimed, Rows DEF WorkersOK
  <2>5. None \notin Own(x)
    BY TurnAssumption DEF Own, Turns
  <2> QED BY <1>7, <2>3, <2>4, <2>5 DEF Keeps
<1>11. CursorOf(Row(w))' = CursorOf(Row(w))
  <2>1. carry'[w] # None
    BY <1>1, TypesPrimed, Rows DEF WorkersOK
  <2> QED BY <1>1, <1>2, <2>1 DEF Row, CursorOf
<1> QED BY <1>1, <1>2, <1>3, <1>5, <1>6, <1>8, <1>9, <1>10, <1>11, Gone

LEMMA InsertTended ==
    ASSUME TypeOK, Placed, Tended, NEW w \in Workers, InsertSession(w)
    PROVE  Tended'
<1>1. /\ TypeOK' /\ Grows /\ \A v \in Workers \ {w} : Same(v)
      /\ exec'[w] = exec[w] /\ pc'[w] = IF durable[exec[w]] = None THEN "prepare" ELSE "resume"
  BY InsertStep, Types DEF InsertSession, WorkersOK
<1>2. PICK x : x = exec[w]
  OBVIOUS
<1>3. pc[w] = "spawn" /\ Local(w, x)
  BY <1>2, Gathered DEF InsertSession
<1>4. session = None /\ ~alive /\ stdin = <<>> /\ carry[w] # None
  BY <1>3, Parts, Types, CarryIs DEF Local, Working, RowPlaced, ForX
<1>5. /\ session' = carry[w] /\ stdin' = <<>> /\ held' = {w}
      /\ UNCHANGED <<transcriptVars, attached, hears, execVars, turnVars, exec, batch, turn, faultVars>>
  BY <1>4 DEF InsertSession
<1>6. Goes(w, x)
  BY <1>1, <1>2, <1>3, <1>4, <1>5, GoesIs
<1>7. UNCHANGED <<durable, status, world>> /\ Own(x)' = Own(x)
  BY <1>5 DEF execVars, faultVars, turnVars, Own
<1>8. At(w)'
  BY <1>1, <1>3, <1>5, <1>7 DEF Local, At, Reading
<1>9. Working(w)'
  BY <1>1, <1>2, <1>3, <1>4, <1>5, <1>7 DEF Local, Working, At, Reading
<1>10. Row(w)' = Row(w)
  BY <1>1, <1>3, <1>5 DEF Row
<1>11. (Keeps(Row(w), x) => Keeps(Row(w), x)') /\ CursorOf(Row(w))' = CursorOf(Row(w))
  BY <1>7, <1>10 DEF Keeps, CursorOf
<1> QED BY <1>1, <1>2, <1>3, <1>4, <1>6, <1>8, <1>9, <1>11, Gone

\* The context message, and the flush.
LEMMA FlushTended ==
    ASSUME TypeOK, Placed, Tended, NEW w \in Workers, InsertSystemMessage(w) \/ FlushPending(w)
    PROVE  Tended'
<1>1. /\ TypeOK' /\ Grows /\ \A v \in Workers \ {w} : Same(v)
      /\ exec'[w] = exec[w] /\ pc'[w] \in {"flush", "mark"}
  BY ContextStep, FlushStep
<1>2. /\ pc[w] \in {"prepare", "flush"}
      /\ UNCHANGED <<session, sandboxVars, execVars, turnVars, exec, turn, carry, faultVars>>
  BY DEF InsertSystemMessage, FlushPending
<1>3. PICK x : x = exec[w]
  OBVIOUS
<1>4. Local(w, x)
  BY <1>2, <1>3, Gathered
<1>5. Goes(w, x)
  BY <1>1, <1>2, <1>3, <1>4, GoesIs DEF Local, ForX, sandboxVars
<1>6. stdin = <<>>
  BY <1>2, <1>4 DEF Local, Working
<1>7. UNCHANGED <<durable, status, world, held, attached, hears, stdin>> /\ Own(x)' = Own(x)
  BY <1>2 DEF execVars, faultVars, turnVars, sandboxVars, Own
<1>8. At(w)'
  BY <1>1, <1>2, <1>4, <1>7 DEF Local, At, Reading
<1>9. Working(w)'
  BY <1>1, <1>2, <1>3, <1>4, <1>7 DEF Local, Working, At, Reading
<1>10. Row(w)' = Row(w)
  BY <1>1, <1>2 DEF Row
<1>11. (Keeps(Row(w), x) => Keeps(Row(w), x)') /\ CursorOf(Row(w))' = CursorOf(Row(w))
  BY <1>7, <1>10 DEF Keeps, CursorOf
<1> QED BY <1>1, <1>2, <1>3, <1>5, <1>6, <1>8, <1>9, <1>11, Gone

LEMMA MarkTended ==
    ASSUME TypeOK, Placed, Tended, NEW w \in Workers, SetInflightTurn(w)
    PROVE  Tended'
<1>1. /\ TypeOK' /\ Grows /\ \A v \in Workers \ {w} : Same(v)
      /\ exec'[w] = exec[w] /\ pc'[w] = "write"
      /\ (session' = None <=> session = None) /\ CursorOf(session)' = CursorOf(session)
  BY MarkStep
<1>2. PICK t : t = turns + 1
  OBVIOUS
<1>3. /\ pc[w] = "mark" /\ turns' = t /\ turnBy' = [turnBy EXCEPT ![t] = exec[w]]
      /\ turn' = [turn EXCEPT ![w] = t]
      /\ session' = IF session = None THEN None ELSE [session EXCEPT !.inflight = t, !.result = None]
      /\ UNCHANGED <<transcriptVars, sandboxVars, execVars, written, exec, batch, carry, faultVars>>
  BY <1>2 DEF SetInflightTurn
<1>4. t \in Turns /\ t \in Nat /\ turns \in Nat /\ t # None
  BY <1>2, TurnsMade, WorldBounds, Types, TurnAssumption DEF SetInflightTurn, Turns, CountsOK
<1>5. PICK x : x = exec[w]
  OBVIOUS
<1>6. Local(w, x) /\ x \in Executions /\ Open(x)
  BY <1>3, <1>5, Gathered
<1>7. stdin = <<>> /\ durable[x] = None /\ session # None
  BY <1>3, <1>5, <1>6 DEF Local, Working
<1>8. UNCHANGED <<status, durable, how, answer, world, held, attached, hears, stdin, visible>>
  BY <1>3 DEF execVars, faultVars, sandboxVars, transcriptVars
<1>9. turnBy'[t] = x /\ turn'[w] = t /\ \A u \in Turns \ {t} : turnBy'[u] = turnBy[u]
  BY <1>3, <1>4, <1>5, Types DEF TurnsOK, WorkersOK
<1>10. t \in Own(x)' /\ Own(x) \subseteq Own(x)' /\ Own(x)' \subseteq Own(x) \cup {t}
  BY <1>4, <1>6, <1>9, TurnAssumption DEF Own, Local, Counted, Executions
<1>11. session'.inflight # None /\ session' # None
  BY <1>1, <1>3, <1>4, <1>7, Types DEF RowOK, Sessions
<1>12. Tends(w, x)
  <2>1. status[x] # "none"
    BY <1>3, <1>5, Parts DEF WorkPlaced, StageOK
  <2> QED BY <1>1, <1>2, <1>3, <1>4, <1>5, <1>8, <1>9, <2>1 DEF Tends
<1>13. At(w)'
  BY <1>1, <1>3, <1>6, <1>8 DEF Local, At, Reading
<1>14. Working(w)'
  BY <1>1, <1>3, <1>5, <1>6, <1>7, <1>8, <1>9, <1>10, <1>11 DEF Local, Working, At, Reading
<1>15. t \notin written
  BY <1>2, <1>4, Parts DEF TurnsPlaced
<1>16. Own(x)' \cap written' = Own(x) \cap written
  BY <1>3, <1>10, <1>15
<1>17. ForX(w, x)'
  BY <1>1, <1>3, <1>6, <1>7, <1>8, <1>16 DEF Local, ForX, Row, Open
<1>18. ClosedOf(x)' /\ (written' # {} => visible # {})
  BY <1>3, <1>6, <1>8 DEF Local, ClosedOf, Open, Counted
<1> QED BY <1>1, <1>3, <1>5, <1>12, <1>13, <1>14, <1>17, <1>18, Followed

LEMMA WriteTended ==
    ASSUME TypeOK, Placed, Tended, NEW w \in Workers, WriteStdin(w)
    PROVE  Tended'
<1>1. /\ TypeOK' /\ Placed' /\ Grows /\ \A v \in Workers \ {w} : Same(v)
      /\ exec'[w] = exec[w] /\ pc'[w] = "advance" /\ written' = written \cup {turn[w]}
      /\ contents[turn[w]] = batch[w]
  BY WriteStep
<1>2. /\ pc[w] = "write" /\ w \in held
      /\ stdin' = Append(stdin, turn[w]) /\ attached' = attached \cup {w}
      /\ UNCHANGED <<transcriptVars, session, alive, held, hears, execVars, turns, contents, turnBy,
                     exec, batch, turn, carry, faultVars>>
  BY DEF WriteStdin
<1>3. PICK x, t : x = exec[w] /\ t = turn[w]
  OBVIOUS
<1>4. Local(w, x) /\ x \in Executions /\ Open(x)
  BY <1>2, <1>3, Gathered
<1>5. stdin = <<>> /\ durable[x] = None /\ t \in Own(x) /\ session # None /\ session.inflight # None
  BY <1>2, <1>3, <1>4 DEF Local, Working
<1>6. stdin' # <<>> /\ Head(stdin') = t /\ Tail(stdin') = <<>>
  <2>1. stdin' = <<t>>
    BY <1>2, <1>3, <1>5
  <2> QED BY <2>1
<1>7. hears[w] = <<>> /\ alive
  BY <1>2, <1>4, Parts DEF Local, At, Reading, RowPlaced
<1>8. UNCHANGED <<status, durable, how, answer, world, visible>> /\ Own(x)' = Own(x)
  BY <1>2 DEF execVars, faultVars, transcriptVars, Own
<1>9. Tends(w, x)
  <2>1. status[x] # "none" /\ turns \in Nat
    BY <1>2, <1>3, Parts, TurnsMade DEF WorkPlaced, StageOK
  <2> QED BY <1>1, <1>2, <1>3, <1>5, <1>8, <2>1 DEF Tends
<1>10. At(w)'
  BY <1>1, <1>2, <1>4, <1>8 DEF Local, At, Reading
<1>11. Working(w)'
  <2>1. turn'[w] = t /\ hears'[w] = <<>> /\ session' = session /\ exec'[w] = x /\ pc'[w] = "advance"
    BY <1>1, <1>2, <1>3, <1>7
  <2> QED BY <1>5, <1>8, <2>1 DEF Working
<1>12. ForX(w, x)'
  BY <1>1, <1>2, <1>4, <1>5, <1>6, <1>7, <1>8 DEF ForX, Row, Open
<1>13. ClosedOf(x)'
  BY <1>4, <1>8 DEF Local, ClosedOf, Open
<1>14. visible # {}
  BY <1>2, Parts DEF WorkPlaced, StageOK
<1> QED BY <1>1, <1>2, <1>3, <1>9, <1>10, <1>11, <1>12, <1>13, <1>14, Followed

LEMMA AdvanceTended ==
    ASSUME TypeOK, Placed, Tended, NEW w \in Workers, AdvanceCursor(w)
    PROVE  Tended'
<1>1. /\ TypeOK' /\ Grows /\ \A v \in Workers \ {w} : Same(v)
      /\ exec'[w] = exec[w] /\ pc'[w] = "record"
      /\ (session' = None <=> session = None)
  BY AdvanceStep
<1>2. /\ pc[w] = "advance" /\ SetCursor(Newest(batch[w]))
      /\ UNCHANGED <<transcriptVars, sandboxVars, execVars, turnVars, exec, batch, turn, carry,
                     faultVars>>
  BY DEF AdvanceCursor
<1>3. PICK x : x = exec[w]
  OBVIOUS
<1>4. Local(w, x)
  BY <1>2, <1>3, Gathered
<1>5. session # None /\ session.inflight # None
  BY <1>2, <1>4 DEF Local, Working
<1>6. session'.inflight = session.inflight /\ session'.result = session.result
  BY <1>2, <1>5, Types DEF SetCursor, RowOK, Sessions
<1>7. Goes(w, x)
  BY <1>1, <1>2, <1>3, <1>4, GoesIs DEF Local, ForX, sandboxVars
<1>8. UNCHANGED <<durable, status, world, held, attached, hears, stdin>> /\ Own(x)' = Own(x)
  BY <1>2 DEF execVars, faultVars, turnVars, sandboxVars, Own
<1>9. At(w)'
  BY <1>1, <1>2, <1>4, <1>8 DEF Local, At, Reading
<1>10. Working(w)'
  BY <1>1, <1>2, <1>3, <1>4, <1>5, <1>6, <1>8 DEF Local, Working
<1>11. Keeps(Row(w), x) => Keeps(Row(w), x)'
  BY <1>1, <1>2, <1>5, <1>6, <1>8 DEF Keeps, Row
<1> QED BY <1>1, <1>2, <1>3, <1>5, <1>6, <1>7, <1>9, <1>10, <1>11, Gone

LEMMA RecordTended ==
    ASSUME TypeOK, Placed, Tended, NEW w \in Workers, RecordTurn(w)
    PROVE  Tended'
<1>1. /\ TypeOK' /\ Grows /\ \A v \in Workers \ {w} : Same(v)
      /\ exec'[w] = exec[w] /\ pc'[w] = "stream" /\ exec[w] \in Executions
      /\ \A e \in Executions \ {exec[w]} : durable'[e] = durable[e]
  BY RecordTurnStep
<1>2. /\ pc[w] = "record" /\ durable' = [durable EXCEPT ![exec[w]] = turn[w]]
      /\ UNCHANGED <<transcriptVars, session, sandboxVars, status, tries, answer, how, asked,
                     turnVars, exec, batch, turn, carry, faultVars>>
  BY DEF RecordTurn
<1>3. PICK x, t : x = exec[w] /\ t = turn[w]
  OBVIOUS
<1>4. Local(w, x) /\ x \in Executions /\ Open(x)
  BY <1>2, <1>3, Gathered
<1>5. t \in Own(x) /\ session # None /\ session.inflight # None
  BY <1>2, <1>3, <1>4 DEF Local, Working
<1>6. durable'[x] = t /\ durable'[x] # None
  BY <1>1, <1>2, <1>3, <1>5, Types, TurnAssumption DEF ExecutionsOK, Own, Turns
<1>7. UNCHANGED <<world, held, alive, attached, hears, stdin, visible, turns, turnBy, written>>
      /\ Own(x)' = Own(x)
  BY <1>2 DEF faultVars, turnVars, sandboxVars, transcriptVars, Own
<1>8. Tends(w, x)
  <2>1. status[x] # "none" /\ turns \in Nat
    BY <1>2, <1>3, Parts, TurnsMade DEF WorkPlaced, StageOK
  <2> QED BY <1>1, <1>2, <1>3, <1>7, <2>1 DEF Tends
<1>9. At(w)'
  BY <1>1, <1>2, <1>4, <1>7 DEF Local, At, Reading
<1>10. Working(w)'
  BY <1>1, <1>2, <1>3, <1>4, <1>5, <1>6, <1>7 DEF Local, Working
<1>11. Keeps(Row(w), x)'
  BY <1>1, <1>2, <1>5 DEF Keeps, Row
<1>12. ForX(w, x)'
  BY <1>1, <1>2, <1>4, <1>6, <1>7, <1>11 DEF Local, ForX, Open
<1>13. ClosedOf(x)' /\ (written' # {} => visible # {})
  BY <1>2, <1>4, <1>7 DEF Local, ClosedOf, Open, Counted
<1> QED BY <1>1, <1>2, <1>3, <1>8, <1>9, <1>10, <1>12, <1>13, Followed

LEMMA ListenTended ==
    ASSUME TypeOK, Placed, Tended, NEW w \in Workers, ResumeTurn(w) \/ AttachStdout(w)
    PROVE  Tended'
<1>1. TypeOK' /\ Grows /\ Listens(w)
  BY ListenStep
<1>2. /\ pc[w] \in {"resume", "attach"} /\ pc'[w] \in {"attach", "stream"}
      /\ w \in attached' => w \in attached \/ pc'[w] = "stream"
      /\ attached' \subseteq attached \cup {w}
      /\ UNCHANGED <<transcriptVars, session, alive, stdin, held, hears, execVars, turnVars, exec,
                     batch, turn, carry, faultVars>>
  BY Types DEF ResumeTurn, AttachStdout, WorkersOK, sandboxVars
<1>3. PICK x : x = exec[w]
  OBVIOUS
<1>4. Local(w, x)
  BY <1>2, <1>3, Gathered
<1>5. Goes(w, x)
  BY <1>1, <1>2, <1>3, <1>4, GoesIs DEF Local, ForX, Listens
<1>6. UNCHANGED <<durable, status, world>> /\ Own(x)' = Own(x)
  BY <1>2 DEF execVars, faultVars, turnVars, Own
<1>7. At(w)'
  BY <1>2, <1>4, <1>6 DEF Local, At, Reading
<1>8. Working(w)'
  BY <1>2, <1>3, <1>4, <1>6 DEF Local, Working
<1>9. Row(w)' = Row(w)
  BY <1>2 DEF Row
<1>10. (Keeps(Row(w), x) => Keeps(Row(w), x)') /\ CursorOf(Row(w))' = CursorOf(Row(w))
  BY <1>6, <1>9 DEF Keeps, CursorOf
<1>11. stdin # <<>> => durable[x] # None /\ session # None /\ session.inflight # None
  BY <1>2, <1>4 DEF Local, ForX
<1> QED BY <1>1, <1>2, <1>3, <1>5, <1>7, <1>8, <1>10, <1>11, Gone

\* The result is the worker's own, as only its turn was worked on.
LEMMA CompleteTended ==
    ASSUME TypeOK, Placed, Tended, NEW w \in Workers, CompleteInflightTurn(w)
    PROVE  Tended'
<1>1. TypeOK' /\ Grows /\ Listens(w)
  BY ListenStep
<1>2. PICK x, t : x = exec[w] /\ t = Head(hears[w])
  OBVIOUS
<1>3. /\ pc[w] = "stream" /\ hears[w] # <<>> /\ hears' = [hears EXCEPT ![w] = Tail(@)]
      /\ session' = IF session = None THEN None ELSE [session EXCEPT !.inflight = None, !.result = t]
      /\ turn' = [turn EXCEPT ![w] = t] /\ pc' = [pc EXCEPT ![w] = "done"]
      /\ UNCHANGED <<transcriptVars, alive, stdin, held, attached, execVars, turnVars, exec, batch,
                     carry, faultVars>>
  BY <1>2 DEF CompleteInflightTurn
<1>4. Local(w, x) /\ Open(x)
  BY <1>2, <1>3, Gathered
<1>5. stdin = <<>> /\ durable[x] # None /\ session # None
  BY <1>2, <1>3, <1>4 DEF Local, Working
<1>6. /\ t \in Own(x) /\ hears'[w] = Tail(hears[w]) /\ turn'[w] = t /\ pc'[w] = "done"
      /\ \A i \in DOMAIN hears'[w] : hears'[w][i] \in Own(x)
  <2>1. hears[w] \in Seq(Turns) /\ \A i \in DOMAIN hears[w] : hears[w][i] \in Own(x)
    BY <1>2, <1>4, Types DEF SandboxOK, Local, Working
  <2>2. 1 \in DOMAIN hears[w] /\ t = hears[w][1]
    BY <1>2, <1>3, <2>1
  <2>3. hears'[w] = Tail(hears[w]) /\ turn'[w] = t /\ pc'[w] = "done"
    BY <1>3, Types DEF SandboxOK, WorkersOK
  <2>4. \A i \in DOMAIN Tail(hears[w]) :
           i + 1 \in DOMAIN hears[w] /\ Tail(hears[w])[i] = hears[w][i + 1]
    BY <1>3, <2>1
  <2> QED BY <2>1, <2>2, <2>3, <2>4
<1>7. \A v \in Workers \ {w} : hears'[v] = hears[v]
  BY <1>3, Types DEF SandboxOK
<1>8. Goes(w, x)
  BY <1>1, <1>2, <1>3, <1>5, <1>7, GoesIs DEF Listens
<1>9. UNCHANGED <<durable, status, world>> /\ Own(x)' = Own(x)
  BY <1>3 DEF execVars, faultVars, turnVars, Own
<1>10. At(w)'
  BY <1>3, <1>4, <1>6, <1>9 DEF Local, At, Reading
<1>11. session' # None
  BY <1>1, <1>5 DEF Listens
<1>12. Working(w)'
  BY <1>2, <1>3, <1>5, <1>6, <1>9, <1>11 DEF Working
<1>13. Keeps(Row(w), x)'
  <2>1. session'.result = t
    BY <1>3, <1>5, Types DEF RowOK, Sessions
  <2> QED BY <1>6, <1>9, <1>11, <2>1 DEF Keeps, Row
<1>14. CursorOf(Row(w))' = CursorOf(Row(w))
  BY <1>1, <1>3, <1>6 DEF Row, Listens, CursorOf
<1> QED BY <1>1, <1>2, <1>3, <1>5, <1>8, <1>10, <1>12, <1>13, <1>14, Gone

-----------------------------------------------------------------------------
(* A worker leaves its execution. *)

\* It lets go, or the sandbox is gone.
Quits(w) ==
    /\ Return(w)
    /\ UNCHANGED <<transcriptVars, session, turnVars, tries, asked, world>>
    /\ \A v \in Workers \ {w} : hears'[v] = hears[v]
    /\ hears'[w] = <<>> /\ w \notin held' /\ held' \subseteq held
    /\ \/ UNCHANGED <<alive, stdin>>
       \/ stdin' = <<>>

LEMMA LetGoQuits ==
    ASSUME TypeOK, NEW w \in Workers, Return(w), LetGo(w),
           UNCHANGED <<transcriptVars, session, turnVars, alive, stdin, tries, asked, world>>
    PROVE  Quits(w)
BY Types DEF Quits, LetGo, SandboxOK

LEMMA GoneQuits ==
    ASSUME TypeOK, NEW w \in Workers, Return(w), SandboxGone, hears' = [hears EXCEPT ![w] = <<>>],
           UNCHANGED <<transcriptVars, session, turnVars, tries, asked, world>>
    PROVE  Quits(w)
BY Types DEF Quits, SandboxGone, SandboxOK

\* Its execution goes on, with what it had: nobody quits in the middle of it.
LEMMA QuitOpen ==
    ASSUME TypeOK, TypeOK', Placed, Tended, NEW w \in Workers,
           pc[w] \notin {"idle", "spawn", "advance", "record", "rewind"},
           NEW x, x = exec[w], Quits(w), UNCHANGED <<durable, how, answer>>,
           status'[x] \in {"running", "retry_wait"},
           \A e \in Executions \ {x} : status'[e] = status[e]
    PROVE  Tended'
<1>1. Local(w, x) /\ x \in Executions /\ Open(x)
  BY Gathered
<1>2. /\ \A v \in Workers \ {w} : Same(v)
      /\ pc'[w] = "idle" /\ exec'[w] = None
  BY ReturnSame, Types DEF Quits, Return, WorkersOK
<1>3. UNCHANGED <<session, turns, turnBy, written, visible, world>> /\ Own(x)' = Own(x) /\ turns \in Nat
  BY TurnsMade DEF Quits, turnVars, transcriptVars, Own
<1>4. Tends(w, x) /\ (written' # {} => visible # {})
  BY <1>1, <1>2, <1>3 DEF Tends, Quits, Local, Counted
<1>5. At(w)' /\ Working(w)'
  <2>1. w \notin attached'
    BY TypesPrimed DEF Quits, SandboxOK
  <2> QED BY <1>2, <2>1 DEF At, Working, Quits
<1>6. Row(w) = session /\ Row(w)' = session
  BY <1>2, <1>3 DEF Row
<1>7. Open(x)'
  BY DEF Open, Terminal
<1>8. ForX(w, x)'
  <2>1. Keeps(session, x)' <=> Keeps(session, x)
    BY <1>3 DEF Keeps
  <2>2. Keeps(Row(w), x)' <=> Keeps(session, x)
    BY <1>6, <2>1, <1>3 DEF Keeps
  <2> QED BY <1>1, <1>2, <1>3, <1>6, <1>7, <2>2 DEF Local, ForX, Quits, CursorOf
<1>9. ClosedOf(x)'
  BY <1>1, <1>3 DEF Local, ClosedOf
<1> QED BY <1>4, <1>5, <1>8, <1>9, Followed

\* It is closed with the outcome h and the answer to turn t.
LEMMA QuitClosed ==
    ASSUME TypeOK, TypeOK', Placed, Tended, NEW w \in Workers, pc[w] # "idle",
           NEW x, x = exec[w], Quits(w), stdin' = <<>>,
           NEW st \in Terminal, NEW h \in {"own", "persisted", "no_input", "failed"}, NEW t,
           MarkTerminal(x, st, h, t),
           \A e \in Executions \ {x} : durable'[e] = durable[e],
           h = "no_input" => Own(x) \cap written = {},
           h \in {"own", "persisted"} => t \in Own(x)
    PROVE  Tended'
<1>1. Local(w, x) /\ x \in Executions /\ Open(x)
  BY Gathered
<1>2. /\ \A v \in Workers \ {w} : Same(v)
      /\ pc'[w] = "idle" /\ exec'[w] = None
  BY ReturnSame, Types DEF Quits, Return, WorkersOK
<1>3. UNCHANGED <<session, turns, turnBy, written, visible, world>> /\ Own(x)' = Own(x) /\ turns \in Nat
  BY TurnsMade DEF Quits, turnVars, transcriptVars, Own
<1>4. /\ status'[x] = st /\ how'[x] = h /\ answer'[x] = t
      /\ \A e \in Executions \ {x} :
            status'[e] = status[e] /\ how'[e] = how[e] /\ answer'[e] = answer[e]
  BY <1>1, Types DEF MarkTerminal, Open, ExecutionsOK
<1>5. ~Open(x)' /\ status'[x] # "none"
  BY <1>4 DEF Open, Terminal
<1>6. Tends(w, x) /\ (written' # {} => visible # {})
  BY <1>1, <1>2, <1>3, <1>4, <1>5 DEF Tends, Quits, Local, Counted
<1>7. At(w)' /\ Working(w)'
  <2>1. w \notin attached'
    BY TypesPrimed DEF Quits, SandboxOK
  <2> QED BY <1>2, <2>1 DEF At, Working, Quits
<1>8. ForX(w, x)'
  BY <1>5 DEF ForX
<1>9. ClosedOf(x)'
  BY <1>3, <1>4, <1>5 DEF ClosedOf
<1> QED BY <1>6, <1>7, <1>8, <1>9, Followed

LEMMA LeaveTended ==
    ASSUME TypeOK, Placed, Careful, Tended, NEW w \in Workers, LeaveAction(w)
    PROVE  Tended'
<1>1. TypeOK'
  BY LeaveStep
<1>2. PICK x : x = exec[w]
  OBVIOUS
<1>3. pc[w] \notin {"idle", "spawn", "advance", "record", "rewind"}
  <2>1. CASE Crash(w)
    <3>1. pc[w] \in world.crashAt /\ crashes < world.crashes /\ crashes \in 0 .. world.crashes
      BY <2>1, Types DEF Crash, CountsOK
    <3>2. "idle" \notin world.crashAt
      BY TurnAssumption, Types DEF CountsOK, WorldRecords
    <3> QED BY <3>1, <3>2 DEF Careful, LossyPlaces
  <2> QED BY <2>1 DEF LeaveAction, NoInput, SandboxExited, ResumeCompleted, TurnDone, TurnFailed,
             RequeueAfterAuthFailure, GiveUp, GiveUpAndLeave, StreamEnded
<1>4. Local(w, x) /\ x \in Executions /\ Open(x) /\ status[x] = "running"
  BY <1>2, <1>3, Gathered DEF Local, At
<1>5. HasResult(session) /\ pc[w] \in {"resume", "stream"} => stdin = <<>> /\ session.result \in Own(x)
  BY <1>2, <1>4 DEF HasResult, Local, Working, ForX, Keeps, Row
<1>6. ASSUME NEW st \in Terminal, NEW h \in {"own", "persisted", "no_input", "failed"}, NEW t,
             FinalizeAndLeave(w, st, h, t), UNCHANGED session, stdin = <<>>,
             \A e \in Executions \ {x} : durable'[e] = durable[e],
             h = "no_input" => Own(x) \cap written = {},
             h \in {"own", "persisted"} => t \in Own(x)
      PROVE  Tended'
  <2>1. /\ MarkTerminal(x, st, h, t) /\ Return(w) /\ LetGo(w)
        /\ UNCHANGED <<transcriptVars, session, turnVars, alive, stdin, tries, asked, world>>
    BY <1>2, <1>6 DEF FinalizeAndLeave, MarkTerminal, faultVars
  <2>2. Quits(w)
    BY <2>1, LetGoQuits
  <2> QED BY <1>1, <1>2, <1>3, <1>6, <2>1, <2>2, QuitClosed
<1>7. ASSUME FailAndStop(w)
      PROVE  Tended'
  <2>1. /\ MarkTerminal(x, "failed", "failed", None) /\ SandboxGone /\ Return(w)
        /\ hears' = [hears EXCEPT ![w] = <<>>]
        /\ UNCHANGED <<transcriptVars, session, durable, turnVars, tries, asked, world>>
    BY <1>2, <1>7 DEF FailAndStop, MarkTerminal, faultVars
  <2>2. Quits(w) /\ stdin' = <<>> /\ "failed" \in Terminal
    BY <2>1, GoneQuits DEF SandboxGone, Terminal
  <2> QED BY <1>1, <1>2, <1>3, <2>1, <2>2, QuitClosed
<1>8. "completed" \in Terminal /\ "failed" \in Terminal
  BY DEF Terminal
<1>9. CASE NoInput(w)
  <2>1. /\ FinalizeAndLeave(w, "completed", "no_input", None) /\ UNCHANGED session
        /\ pc[w] = "flush" /\ Pending(CursorOf(session)) = {}
        /\ durable' = [durable EXCEPT ![x] = None]
    BY <1>2, <1>9 DEF NoInput
  <2>2. stdin = <<>> /\ durable[x] = None
    BY <1>2, <1>4, <2>1 DEF Local, Working
  <2>3. Own(x) \cap written = {}
    <3> SUFFICES ASSUME Own(x) \cap written # {} PROVE FALSE
      OBVIOUS
    <3>1. CursorOf(session) = None /\ visible # {}
      BY <1>4, <2>1, <2>2 DEF Local, ForX, Row, Counted
    <3> QED BY <2>1, <3>1 DEF Pending
  <2>4. \A e \in Executions \ {x} : durable'[e] = durable[e]
    BY <2>1, Types DEF ExecutionsOK
  <2> QED BY <1>6, <1>8, <2>1, <2>2, <2>3, <2>4
<1>10. CASE ResumeCompleted(w) \/ (StreamEnded(w) /\ HasResult(session))
  <2>1. /\ Finalize(w, "completed", "persisted", session.result) /\ UNCHANGED session
        /\ HasResult(session) /\ pc[w] \in {"resume", "stream"}
    BY <1>10 DEF ResumeCompleted, StreamEnded
  <2> QED BY <1>5, <1>6, <1>8, <2>1 DEF Finalize
<1>11. CASE TurnDone(w)
  <2>1. /\ Finalize(w, "completed", "own", turn[w]) /\ UNCHANGED session /\ pc[w] = "done"
    BY <1>11 DEF TurnDone
  <2>2. stdin = <<>> /\ turn[w] \in Own(x)
    BY <1>2, <1>4, <2>1 DEF Local, Working
  <2> QED BY <1>6, <1>8, <2>1, <2>2 DEF Finalize
<1>12. CASE TurnFailed(w)
  <2>1. /\ Finalize(w, "failed", "failed", None) /\ UNCHANGED session /\ pc[w] = "done"
    BY <1>12 DEF TurnFailed
  <2>2. stdin = <<>>
    BY <1>4, <2>1 DEF Local, Working
  <2> QED BY <1>6, <1>8, <2>1, <2>2 DEF Finalize
<1>13. CASE GiveUp(w)
  BY <1>7, <1>13 DEF GiveUp
<1>14. CASE SandboxExited(w) \/ Crash(w)
  <2>1. /\ Return(w) /\ LetGo(w)
        /\ UNCHANGED <<transcriptVars, session, turnVars, alive, stdin, execVars, world>>
    BY <1>14 DEF SandboxExited, Crash, faultVars
  <2>2. Quits(w) /\ UNCHANGED <<durable, how, answer, status>>
    BY <2>1, LetGoQuits DEF execVars
  <2> QED BY <1>1, <1>2, <1>3, <1>4, <2>2, QuitOpen
<1>15. CASE StreamEnded(w) /\ ~HasResult(session) /\ (w \in held \/ status[exec[w]] \in Terminal)
  <2>1. /\ status' = [status EXCEPT ![x] = IF @ = "running" THEN "retry_wait" ELSE @]
        /\ Return(w) /\ LetGo(w)
        /\ UNCHANGED <<transcriptVars, session, turnVars, alive, stdin, durable, tries, answer,
                       how, asked, world>>
    BY <1>2, <1>15 DEF StreamEnded, faultVars
  <2>2. Quits(w) /\ status'[x] = "retry_wait" /\ \A e \in Executions \ {x} : status'[e] = status[e]
    BY <1>4, <2>1, LetGoQuits, Types DEF ExecutionsOK
  <2> QED BY <1>1, <1>2, <1>3, <2>1, <2>2, QuitOpen
<1>16. CASE StreamEnded(w) /\ ~HasResult(session) /\ ~(w \in held \/ status[exec[w]] \in Terminal)
  BY <1>7, <1>16 DEF StreamEnded
<1>17. ~GiveUpAndLeave(w) /\ status[exec[w]] = "running"
  BY <1>2, <1>4 DEF GiveUpAndLeave, Careful
<1> QED BY <1>9, <1>10, <1>11, <1>12, <1>13, <1>14, <1>15, <1>16, <1>17 DEF LeaveAction

LEMMA RequeueTended ==
    ASSUME TypeOK, Placed, Tended, NEW w \in Workers, RequeueAfterAuthFailure(w),
           status[exec[w]] = "running"
    PROVE  Tended'
<1>1. /\ TypeOK' /\ Grows /\ \A v \in Workers \ {w} : Same(v)
      /\ exec'[w] = exec[w] /\ pc'[w] = "rewind"
  BY RequeueStep
<1>2. PICK x : x = exec[w]
  OBVIOUS
<1>3. /\ pc[w] = "done" /\ "auth" \in world.hazards
      /\ SandboxGone /\ hears' = [hears EXCEPT ![w] = <<>>]
      /\ status' = [status EXCEPT ![x] = "queued"] /\ durable' = [durable EXCEPT ![x] = None]
      /\ UNCHANGED <<transcriptVars, session, answer, how, asked, turnVars, world>>
  BY <1>2 DEF RequeueAfterAuthFailure, faultVars
<1>4. Local(w, x) /\ x \in Executions /\ Open(x)
  BY <1>2, <1>3, Gathered
<1>5. /\ status'[x] = "queued" /\ durable'[x] = None
      /\ \A e \in Executions \ {x} : status'[e] = status[e] /\ durable'[e] = durable[e]
  BY <1>3, <1>4, Types DEF ExecutionsOK
<1>6. /\ hears'[w] = <<>> /\ \A v \in Workers \ {w} : hears'[v] = hears[v]
      /\ stdin' = <<>> /\ held' = {} /\ attached' = {}
  BY <1>3, Types DEF SandboxGone, SandboxOK
<1>7. UNCHANGED <<turns, turnBy, written, visible>> /\ Own(x)' = Own(x) /\ turns \in Nat
  BY <1>3, TurnsMade DEF turnVars, transcriptVars, Own
<1>8. Tends(w, x) /\ (written' # {} => visible # {})
  BY <1>1, <1>2, <1>3, <1>4, <1>5, <1>6, <1>7 DEF Tends, Local, Counted
<1>9. At(w)'
  BY <1>1, <1>2, <1>3, <1>4, <1>5, <1>6 DEF Local, At
<1>10. Working(w)'
  BY <1>1, <1>3, <1>4, <1>6 DEF Local, Working
<1>11. ForX(w, x)'
  BY <1>1, <1>5, <1>6 DEF ForX
<1>12. ClosedOf(x)'
  BY <1>3, <1>4, <1>7 DEF Local, ClosedOf
<1> QED BY <1>1, <1>2, <1>3, <1>8, <1>9, <1>10, <1>11, <1>12, Followed

\* The cursor is forgotten, and what the row keeps stays.
LEMMA ForgetTended ==
    ASSUME TypeOK, Placed, Tended, NEW w \in Workers, RewindCursor(w) \/ ThreadResumeFailed(w)
    PROVE  Tended'
<1>1. /\ TypeOK' /\ Grows /\ \A v \in Workers \ {w} : Same(v)
      /\ CursorOf(session)' = None /\ UNCHANGED <<transcriptVars, execVars, turnVars>>
  BY ForgetStep
<1>2. PICK x : x = exec[w]
  OBVIOUS
<1>3. /\ SetCursor(None) /\ pc[w] \in {"rewind", "stream"}
      /\ UNCHANGED <<sandboxVars, faultVars>>
      /\ (pc[w] = "rewind" /\ Return(w)) \/ UNCHANGED workerVars
  BY DEF RewindCursor, ThreadResumeFailed
<1>4. Local(w, x) /\ x \in Executions /\ Open(x)
  BY <1>2, <1>3, Gathered
<1>5. session # None
  BY <1>3, <1>4 DEF Local, Working
<1>6. session' # None /\ session'.inflight = session.inflight /\ session'.result = session.result
  <2>1. session \in Sessions /\ session' = [session EXCEPT !.cursor = None]
    BY <1>3, <1>5, Types DEF SetCursor, RowOK
  <2>2. session' # None
    BY <2>1, Rows
  <2> QED BY <2>1, <2>2 DEF Sessions
<1>7. UNCHANGED <<durable, status, world, held, alive, attached, hears, stdin>> /\ Own(x)' = Own(x)
  BY <1>1, <1>3 DEF execVars, faultVars, turnVars, sandboxVars, Own
<1>8. \/ pc[w] = "rewind" /\ pc'[w] = "idle" /\ exec'[w] = None
      \/ pc'[w] = pc[w] /\ exec'[w] = exec[w] /\ turn'[w] = turn[w]
  BY <1>3, Types DEF Return, WorkersOK, workerVars
<1>9. Goes(w, x)
  BY <1>1, <1>2, <1>3, <1>4, <1>7, <1>8, GoesIs DEF Local, ForX
<1>10. At(w)'
  BY <1>4, <1>7, <1>8 DEF Local, At, Reading
<1>11. Working(w)'
  <2>1. CASE pc[w] = "rewind" /\ pc'[w] = "idle"
    <3>1. hears'[w] = <<>>
      BY <1>4, <1>7, <2>1 DEF Local, At, Reading
    <3> QED BY <2>1, <3>1 DEF Working
  <2>2. CASE pc'[w] = pc[w] /\ exec'[w] = exec[w] /\ turn'[w] = turn[w]
    BY <1>2, <1>3, <1>4, <1>6, <1>7, <2>2 DEF Local, Working
  <2> QED BY <1>8, <2>1, <2>2
<1>12. (Keeps(Row(w), x) => Keeps(Row(w), x)') /\ CursorOf(Row(w))' = None
  BY <1>1, <1>3, <1>6, <1>7, <1>8 DEF Keeps, Row, CursorOf
<1>13. stdin # <<>> => session' # None /\ session'.inflight # None /\ durable[x] # None
  BY <1>3, <1>4, <1>6 DEF Local, ForX
<1> QED BY <1>1, <1>2, <1>3, <1>9, <1>10, <1>11, <1>12, <1>13, Gone

-----------------------------------------------------------------------------
(* Claims, and the steps of nobody. *)

\* Nobody else is at work when an execution is claimed: while the cursor is to be
\* rewound there is only one worker.
LEMMA ClaimTended ==
    ASSUME TypeOK, Placed, Careful, Tended, NEW w \in Workers, NEW x \in Executions,
           ClaimNextExecution(w, x)
    PROVE  Tended'
<1>1. /\ TypeOK' /\ Grows /\ \A v \in Workers \ {w} : Same(v)
      /\ pc'[w] = "acquire" /\ exec'[w] = x
  BY ClaimStep
<1>2. /\ w \in world.workers /\ pc[w] = "idle" /\ Candidate(x)
      /\ \A f \in Executions \ {x} : status[f] \notin {"running", "retry_wait"}
      /\ status' = [status EXCEPT ![x] = "running"]
      /\ UNCHANGED <<transcriptVars, session, sandboxVars, durable, tries, answer, how, asked,
                     turnVars, batch, turn, carry, faultVars>>
  BY DEF ClaimNextExecution
<1>3. /\ status[x] \in {"queued", "retry_wait"} /\ Open(x)
      /\ \A f \in Executions : f < x => status[f] \notin {"queued", "retry_wait"}
  BY <1>2 DEF Candidate, Open, Terminal
<1>4. \A v \in Workers : pc[v] = "idle"
  <2> SUFFICES ASSUME NEW v \in Workers \ {w}, pc[v] # "idle" PROVE FALSE
    BY <1>2
  <2>1. At(v) /\ exec[v] \in Executions
    BY Parts DEF Tended, Solo, WorkPlaced, StageOK
  <2>2. pc[v] = "rewind"
    BY <1>2, <1>3, <2>1 DEF At
  <2> QED BY <1>2, <2>1, <2>2 DEF At, Careful
<1>5. /\ UNCHANGED <<session, held, attached, hears, stdin, alive, durable, how, answer,
                     turns, turnBy, written, visible, world>>
      /\ \A e \in Executions : Own(e)' = Own(e)
  BY <1>2 DEF sandboxVars, turnVars, transcriptVars, faultVars, Own
<1>6. status'[x] = "running" /\ \A e \in Executions \ {x} : status'[e] = status[e]
  BY <1>2, Types DEF ExecutionsOK
<1>7. \A f \in Executions \ {x} : Open(f) => f > x /\ ~Begun(f)
  <2> SUFFICES ASSUME NEW f \in Executions \ {x}, Open(f) PROVE f > x /\ ~Begun(f)
    OBVIOUS
  <2>1. f < x \/ x < f
    BY TurnAssumption DEF Executions
  <2>2. ~(f < x)
    <3>1. status[f] \in Statuses
      BY Types DEF ExecutionsOK
    <3>2. f < x => status[f] # "none"
      BY <1>3 DEF Tended, Serial
    <3> QED BY <1>2, <1>3, <3>1, <3>2 DEF Open, Statuses, Terminal
  <2>3. x < f
    BY <2>1, <2>2
  <2> QED BY <1>3, <2>3 DEF Tended, Serial
<1>8. OthersOff(w)' /\ Fresh(x)'
  <2>1. OthersOff(w)
    BY <1>4 DEF OthersOff, Tended, Solo, At, Reading
  <2>2. OthersOff(w)'
    BY <1>1, <1>5, <2>1 DEF OthersOff, Same
  <2>3. Fresh(x)'
    BY <1>5, <1>6, <1>7 DEF Fresh, Begun, Open
  <2> QED BY <2>2, <2>3
<1>9. At(w)' /\ Working(w)'
  <2>1. hears'[w] = <<>> /\ w \notin attached'
    BY <1>2, <1>5 DEF Tended, Solo, At, Reading
  <2> QED BY <1>1, <1>2, <1>5, <1>6, <2>1 DEF At, Working
<1>10. ForX(w, x)'
  <2>1. Open(x)' /\ Row(w)' = session
    BY <1>1, <1>5, <1>6 DEF Open, Terminal, Row
  <2>2. durable[x] # None => Keeps(session, x)
    BY <1>3, <1>4 DEF Tended, Noted
  <2>3. durable[x] = None /\ Own(x) \cap written # {} => CursorOf(session) = None
    BY <1>3, <1>4 DEF Tended, Rewound
  <2>4. stdin # <<>> =>
          /\ Tail(stdin) = <<>> /\ alive /\ session # None /\ session.inflight # None
          /\ Head(stdin) \in Own(x) /\ durable[x] # None
    <3> SUFFICES ASSUME stdin # <<>>
                 PROVE  Head(stdin) \in Own(x) /\ durable[x] # None
      BY DEF Tended, InWork
    <3>1. PICK e \in Executions : Open(e) /\ Head(stdin) \in Own(e) /\ durable[e] # None
      BY <1>4 DEF Tended, InWork
    <3>2. e = x
      BY <1>7, <3>1 DEF Begun
    <3> QED BY <3>1, <3>2
  <2>5. Keeps(session, x) => Keeps(Row(w), x)'
    BY <1>5, <2>1 DEF Keeps
  <2>6. CursorOf(Row(w))' = CursorOf(session)
    BY <2>1 DEF CursorOf
  <2> QED BY <1>5, <2>1, <2>2, <2>3, <2>4, <2>5, <2>6 DEF ForX
<1>11. Serial'
  <2>1. \A f \in Executions : Begun(f)' => Begun(f) \/ f = x
    BY <1>1, <1>5, <1>6 DEF Begun, Same
  <2>2. \A f \in Executions : (Open(f)' <=> Open(f)) /\ (status'[f] # "none" <=> status[f] # "none")
    BY <1>3, <1>6 DEF Open, Terminal
  <2>3. \A f \in Executions : f < x => ~Open(f)
    BY <1>7, TurnAssumption DEF Executions
  <2> QED BY <2>1, <2>2, <2>3 DEF Tended, Serial
<1>12. Counted' /\ \A e \in Executions : ClosedOf(e)'
  BY <1>3, <1>5, <1>6 DEF Tended, Counted, ClosedOf, Open, Terminal
<1>13. Local(w, x)'
  BY <1>8, <1>9, <1>10, <1>11, <1>12 DEF Local
<1> QED BY <1>1, <1>13, Spread

\* Steps that leave the workers, the turns and the session row alone.
LEMMA TendedKept ==
    ASSUME TypeOK, TypeOK', Placed, Tended,
           UNCHANGED <<session, turnVars, workerVars, durable, how, answer, world>>,
           visible \subseteq visible', held' \subseteq held, attached' \subseteq attached,
           \A e \in Executions : Open(e)' <=> Open(e),
           \A e \in Executions :
              status'[e] \in {"running", "retry_wait"} => status[e] \in {"running", "retry_wait"},
           \A e, f \in Executions : f < e /\ status'[e] # "none" => status'[f] # "none",
           \A v \in Workers : pc[v] # "idle" => status'[exec[v]] = status[exec[v]],
           \/ stdin' = <<>> /\ hears' = hears
           \/ UNCHANGED <<stdin, hears, alive>>
           \/ /\ stdin' = <<>>
              /\ \A v \in Workers :
                    \/ hears'[v] = hears[v]
                    \/ v \in attached /\ stdin # <<>> /\ hears'[v] = Append(hears[v], Head(stdin))
    PROVE  Tended'
<1>1. /\ UNCHANGED <<turns, turnBy, written, pc, exec, turn, carry>>
      /\ \A e \in Executions : Own(e)' = Own(e)
  BY DEF turnVars, workerVars, Own
<1>2. Serial'
  BY <1>1 DEF Tended, Serial, Begun
<1>3. ASSUME NEW v \in Workers
      PROVE  At(v)' /\ Working(v)'
  <2>1. At(v) /\ Working(v)
    BY DEF Tended, Solo
  <2>2. CASE hears'[v] = hears[v]
    <3>1. At(v)'
      BY <1>1, <2>1, <2>2 DEF At
    <3>2. Own(exec[v])' = Own(exec[v])
      BY <1>1 DEF Own
    <3>3. Working(v)'
      BY <1>1, <2>1, <2>2, <3>2 DEF Working
    <3> QED BY <3>1, <3>3
  <2>3. CASE /\ v \in attached /\ stdin # <<>> /\ stdin' = <<>>
             /\ hears'[v] = Append(hears[v], Head(stdin))
    <3>1. pc[v] \in Reading /\ pc[v] # "idle"
      BY <2>1, <2>3 DEF At, Reading
    <3>2. PICK x, h : x = exec[v] /\ h = Head(stdin)
      OBVIOUS
    <3>3. h \in Own(x) /\ Local(v, x)
      BY <2>3, <3>1, <3>2, Gathered DEF Local, ForX
    <3>4. \A i \in DOMAIN hears'[v] : hears'[v][i] \in Own(x)
      <4>1. hears[v] \in Seq(Turns) /\ \A i \in DOMAIN hears[v] : hears[v][i] \in Own(x)
        BY <2>1, <3>2, Types DEF SandboxOK, Working
      <4>2. h \in Turns
        BY <3>3 DEF Own
      <4> QED BY <2>3, <3>2, <3>3, <4>1, <4>2
    <3>5. Own(x)' = Own(x)
      BY <1>1 DEF Own
    <3>6. At(v)'
      BY <1>1, <2>1, <3>1 DEF At, Reading
    <3>7. Working(v)'
      BY <1>1, <2>1, <2>3, <3>2, <3>4, <3>5 DEF Working
    <3> QED BY <3>6, <3>7
  <2> QED BY <2>2, <2>3
<1>4. Solo'
  BY <1>1, <1>3 DEF Tended, Solo
<1>5. Noted' /\ Rewound' /\ Counted'
  <2>1. Noted'
    BY <1>1 DEF Tended, Noted, Keeps
  <2>2. Rewound'
    BY <1>1 DEF Tended, Rewound, CursorOf
  <2>3. Counted'
    BY <1>1 DEF Tended, Counted
  <2> QED BY <2>1, <2>2, <2>3
<1>6. InWork'
  BY <1>1 DEF Tended, InWork
<1>7. \A e \in Executions : ClosedOf(e)'
  BY <1>1 DEF Tended, ClosedOf
<1> QED BY <1>2, <1>3, <1>4, <1>5, <1>6, <1>7 DEF Tended

\* The steps of others.
LEMMA AppendTended ==
    ASSUME TypeOK, Placed, Tended, NEW m \in Messages,
           AppendMessage(m) \/ BeginAppend(m) \/ CommitAppend(m)
    PROVE  Tended'
<1>1. TypeOK' /\ visible \subseteq visible'
  BY AppendStep DEF Grows
<1>2. UNCHANGED <<session, sandboxVars, execVars, turnVars, workerVars, faultVars>>
  BY DEF AppendMessage, BeginAppend, CommitAppend
<1>3. UNCHANGED <<session, turnVars, workerVars, durable, how, answer, world, status,
                  held, attached, stdin, hears, alive>>
  BY <1>2 DEF sandboxVars, execVars, faultVars
<1>4. /\ \A e \in Executions : Open(e)' <=> Open(e)
      /\ \A e, f \in Executions : f < e /\ status'[e] # "none" => status'[f] # "none"
  BY <1>3 DEF Open, Tended, Serial
<1> QED BY <1>1, <1>3, <1>4, TendedKept

LEMMA EnqueueTended ==
    ASSUME TypeOK, Placed, Tended, NEW e \in Executions, EnqueueExecution(e)
    PROVE  Tended'
<1>1. TypeOK'
  BY EnqueueStep
<1>2. /\ UNCHANGED <<session, turnVars, workerVars, durable, how, answer, world, visible,
                     held, attached, stdin, hears, alive>>
      /\ status[e] = "none" /\ \A f \in Executions : f < e => status[f] # "none"
      /\ status' = [status EXCEPT ![e] = "queued"]
  BY DEF EnqueueExecution, transcriptVars, sandboxVars, faultVars
<1>3. status'[e] = "queued" /\ \A f \in Executions \ {e} : status'[f] = status[f]
  BY <1>2, Types DEF ExecutionsOK
<1>4. \A f \in Executions :
         /\ Open(f)' <=> Open(f)
         /\ status'[f] \in {"running", "retry_wait"} => status[f] \in {"running", "retry_wait"}
  BY <1>2, <1>3 DEF Open, Terminal
<1>5. \A f, g \in Executions : g < f /\ status'[f] # "none" => status'[g] # "none"
  BY <1>2, <1>3 DEF Tended, Serial
<1>6. \A v \in Workers : pc[v] # "idle" => status'[exec[v]] = status[exec[v]]
  BY <1>2, <1>3, Parts DEF WorkPlaced, StageOK
<1> QED BY <1>1, <1>2, <1>4, <1>5, <1>6, TendedKept

LEMMA RecoverTended ==
    ASSUME TypeOK, Placed, Careful, Tended, NEW e \in Executions, RecoverStaleRunning(e)
    PROVE  Tended'
<1>1. TypeOK'
  BY RecoverStep
<1>2. /\ UNCHANGED <<session, turnVars, workerVars, durable, how, answer, world, visible,
                     held, attached, stdin, hears, alive>>
      /\ status[e] = "running" /\ \A v \in Workers : exec[v] # e
      /\ status' = [status EXCEPT ![e] = "queued"]
  BY DEF RecoverStaleRunning, Careful, transcriptVars, sandboxVars, faultVars
<1>3. status'[e] = "queued" /\ \A f \in Executions \ {e} : status'[f] = status[f]
  BY <1>2, Types DEF ExecutionsOK
<1>4. \A f \in Executions :
         /\ Open(f)' <=> Open(f)
         /\ status'[f] \in {"running", "retry_wait"} => status[f] \in {"running", "retry_wait"}
  BY <1>2, <1>3 DEF Open, Terminal
<1>5. \A f, g \in Executions : g < f /\ status'[f] # "none" => status'[g] # "none"
  BY <1>2, <1>3 DEF Tended, Serial
<1>6. \A v \in Workers : pc[v] # "idle" => status'[exec[v]] = status[exec[v]]
  BY <1>2, <1>3, Parts DEF WorkPlaced, StageOK
<1> QED BY <1>1, <1>2, <1>4, <1>5, <1>6, TendedKept

LEMMA SandboxTended ==
    ASSUME TypeOK, Placed, Tended, HarnessEndsTurn \/ SandboxDies
    PROVE  Tended'
<1>1. TypeOK' /\ UNCHANGED <<transcriptVars, session, execVars, turnVars, workerVars, world>>
  BY SandboxStep
<1>2. UNCHANGED <<session, turnVars, workerVars, durable, how, answer, world, visible, status>>
  BY <1>1 DEF transcriptVars, execVars
<1>3. /\ \A e \in Executions : Open(e)' <=> Open(e)
      /\ \A e, f \in Executions : f < e /\ status'[e] # "none" => status'[f] # "none"
  BY <1>2 DEF Open, Tended, Serial
<1>4. CASE HarnessEndsTurn
  <2>1. /\ stdin' = <<>> /\ UNCHANGED <<held, attached>>
        /\ \A v \in Workers :
              \/ hears'[v] = hears[v]
              \/ v \in attached /\ stdin # <<>> /\ hears'[v] = Append(hears[v], Head(stdin))
    BY <1>4 DEF HarnessEndsTurn, Tended, InWork
  <2> QED BY <1>1, <1>2, <1>3, <2>1, TendedKept
<1>5. CASE SandboxDies
  <2>1. stdin' = <<>> /\ hears' = hears /\ held' = {} /\ attached' = {}
    BY <1>5 DEF SandboxDies, SandboxGone
  <2> QED BY <1>1, <1>2, <1>3, <2>1, TendedKept
<1> QED BY <1>4, <1>5

LEMMA StutterTended ==
    ASSUME TypeOK, Placed, Tended, UNCHANGED vars
    PROVE  Tended'
<1>1. TypeOK'
  BY PlacedStep
<1>2. UNCHANGED <<session, sandboxVars, execVars, turnVars, workerVars, transcriptVars, faultVars>>
  BY DEF vars
<1>3. UNCHANGED <<session, turnVars, workerVars, durable, how, answer, world, status, visible,
                  held, attached, stdin, hears, alive>>
  BY <1>2 DEF sandboxVars, execVars, faultVars, transcriptVars
<1>4. /\ \A e \in Executions : Open(e)' <=> Open(e)
      /\ \A e, f \in Executions : f < e /\ status'[e] # "none" => status'[f] # "none"
  BY <1>3 DEF Open, Tended, Serial
<1> QED BY <1>1, <1>3, <1>4, TendedKept

LEMMA TendedStep ==
    ASSUME TypeOK, Placed, Careful, Tended, [Next]_vars
    PROVE  Tended'
<1>1. ASSUME NEW w \in Workers, WorkerStep(w)
      PROVE  Tended'
  <2>1. WorkerMove(w)
    BY <1>1, WorkerMoves
  <2> QED BY <2>1, ClaimTended, ReuseTended, DropTended, InsertTended, FlushTended, MarkTended,
             WriteTended, AdvanceTended, RecordTended, ListenTended, CompleteTended, RequeueTended,
             ForgetTended, LeaveTended
          DEF WorkerMove
<1>2. ASSUME NEW m \in Messages, AppendMessage(m) \/ BeginAppend(m) \/ CommitAppend(m)
      PROVE  Tended'
  BY <1>2, AppendTended
<1>3. ASSUME NEW e \in Executions, EnqueueExecution(e) \/ RecoverStaleRunning(e)
      PROVE  Tended'
  BY <1>3, EnqueueTended, RecoverTended
<1>4. CASE HarnessEndsTurn \/ SandboxDies
  BY <1>4, SandboxTended
<1>5. CASE UNCHANGED vars
  BY <1>5, StutterTended
<1> QED BY <1>1, <1>2, <1>3, <1>4, <1>5 DEF Next

-----------------------------------------------------------------------------
(* The theorems. *)

AnswerInv == TypeOK /\ Placed /\ (Careful => Tended)

LEMMA InitAnswer == Init => AnswerInv
<1> SUFFICES ASSUME Init PROVE AnswerInv
  OBVIOUS
<1>1. TypeOK /\ Placed
  BY InitPlaced
<1>2. \A e \in Executions : Own(e) = {}
  BY TurnAssumption DEF Init, Own, Executions
<1>3. Serial
  BY <1>2, TurnAssumption DEF Init, Serial, Begun, Executions
<1>4. Solo /\ \A w \in Workers : Working(w)
  BY DEF Init, Solo, At, Working
<1>5. Noted /\ InWork /\ Rewound /\ Counted
  BY <1>2 DEF Init, Noted, InWork, Rewound, Counted
<1>6. \A e \in Executions : ClosedOf(e)
  BY DEF Init, ClosedOf
<1> QED BY <1>1, <1>3, <1>4, <1>5, <1>6 DEF Tended, AnswerInv

LEMMA AnswerStep == AnswerInv /\ [Next]_vars => AnswerInv'
<1> SUFFICES ASSUME AnswerInv, [Next]_vars PROVE AnswerInv'
  OBVIOUS
<1>1. TypeOK' /\ Placed'
  BY PlacedStep DEF AnswerInv
<1>2. Careful' <=> Careful
  BY WorldKept DEF Careful
<1>3. Careful => Tended'
  BY TendedStep DEF AnswerInv
<1> QED BY <1>1, <1>2, <1>3 DEF AnswerInv

\* The invariant holds in every state, in every world.
THEOREM AnswerInductive == Spec => []AnswerInv
BY InitAnswer, AnswerStep, PTL DEF Spec

\* When crashes lose nothing, no lease lapses under a worker and no failed turn is
\* left in its sandbox, an execution completed by turn.done or by the persisted
\* result of its session has the result of a turn that was made for it: one
\* requester never gets the answer to another's message, whatever sandboxes die,
\* attachments break, and workers crash elsewhere and take executions up again.
THEOREM OwnAnswerHolds == Spec => []OwnAnswer
<1>1. AnswerInv => OwnAnswer
  BY DEF AnswerInv, OwnAnswer, Tended, ClosedOf
<1> QED BY <1>1, AnswerInductive, PTL

\* Then too, _flush_pending comes back empty for an execution only if no harness
\* got a turn of it: it is not completed as having nothing to inject after its
\* messages were delivered.
THEOREM NoSilentTurnHolds == Spec => []NoSilentTurn
<1>1. AnswerInv => NoSilentTurn
  BY DEF AnswerInv, NoSilentTurn, NeverSilenced, Tended, ClosedOf
<1> QED BY <1>1, AnswerInductive, PTL
=============================================================================
