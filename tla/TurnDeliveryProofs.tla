------------------------- MODULE TurnDeliveryProofs -------------------------
(***************************************************************************)
(* Proofs about TurnDelivery, for any number of messages, executions,      *)
(* workers and turns, and any worlds: that nothing is skipped and that     *)
(* what completes was heard while stamps are in order, and that a message  *)
(* goes into one turn while nobody forgets.                                *)
(***************************************************************************)
EXTENDS TurnDelivery, TLAPS, WellFoundedInduction

-----------------------------------------------------------------------------
(* The inductive invariant. *)

\* Where a worker is.
StageOK(w) ==
    /\ pc[w] # "idle" => exec[w] \in Executions /\ status[exec[w]] # "none"
    /\ pc[w] \in {"mark", "write", "advance"} => batch[w] # {} /\ batch[w] \subseteq visible
    /\ pc[w] \in {"write", "advance", "record"} => turn[w] \in 1 .. turns
    /\ pc[w] = "write" => contents[turn[w]] = batch[w]

\* What belongs together in any world.
Placed ==
    /\ alive => session # None
    /\ ~alive => held = {}
    /\ written \subseteq 1 .. turns
    /\ \A t \in Turns : contents[t] \subseteq visible
    /\ \A m \in Transcript : stamp[m] <= clock
    /\ \A m \in visible : stamp[m] # 0
    /\ CursorOf(session) \in visible \cup {None}
    /\ \A w \in Workers : carry[w].cursor \in visible \cup {None}
    /\ \A e \in Executions : durable[e] # None => status[e] # "none"
    /\ \A w \in Workers : StageOK(w)

\* Everything up to the cursor c was heard; up to the batch B, heard or in it.
Covers(c)  == c # None => \A m \in visible : stamp[m] <= stamp[c] => m \in Heard
GapFree(B) == \A n \in B : \A m \in visible : stamp[m] <= stamp[n] => m \in Heard \cup B

\* What the worker w has still to deliver of what its execution was asked.
DueOK(w) ==
    /\ pc[w] \in {"mark", "write", "advance"} => GapFree(batch[w])
    /\ pc[w] \in {"mark", "write"} => asked[exec[w]] \subseteq Heard \cup batch[w]
    /\ pc[w] = "advance" => batch[w] \subseteq Heard
    /\ pc[w] \in {"advance", "record", "stream", "done", "rewind", "resume", "attach"} =>
          asked[exec[w]] \subseteq Heard

\* While stamps are in order.
InOrder ==
    /\ \A m \in Transcript : m \in visible <=> stamp[m] # 0
    /\ Covers(CursorOf(session))
    /\ \A w \in Workers : Covers(carry[w].cursor)
    /\ \A e \in Executions :
          /\ asked[e] \subseteq visible
          /\ durable[e] # None => asked[e] \subseteq Heard
          /\ status[e] = "completed" => asked[e] \subseteq Heard
    /\ \A w \in Workers : DueOK(w)

\* The flush with cursor c leaves m out.
Behind(c, m) == c # None /\ stamp[m] <= stamp[c]

\* While nobody forgets: one worker, and the cursor is past what was heard.
Alone ==
    /\ \A w \in Workers : pc[w] # "idle" => status[exec[w]] = "running"
    /\ \A v, w \in Workers : pc[v] # "idle" /\ pc[w] # "idle" => v = w

PastHeard ==
    \A m \in Heard \cap Messages :
        \/ Behind(CursorOf(session), m)
        \/ \E w \in Workers : pc[w] = "spawn" /\ Behind(carry[w].cursor, m)
        \/ \E w \in Workers : pc[w] = "advance" /\ m \in batch[w]

Remembered ==
    /\ Alone
    /\ \A w \in Workers :
          /\ pc[w] # "rewind"
          /\ pc[w] = "spawn" => session = None
          /\ pc[w] \notin {"idle", "acquire", "spawn"} => session # None
          /\ pc[w] \in {"mark", "write", "advance"} =>
                \A n \in batch[w] : ~Behind(CursorOf(session), n)
    /\ PastHeard
    /\ \A t, u \in written : t # u => contents[t] \cap contents[u] \cap Messages = {}

IInv == /\ TypeOK
        /\ Placed
        /\ Orderly => InOrder
        /\ Unforgetting => Remembered

-----------------------------------------------------------------------------
(* What the proofs need of the operators. *)

\* The bounds of a world are within the constants.
LEMMA WorldBounds ==
    ASSUME world \in Worlds
    PROVE  /\ world.turns \in 0 .. MaxTurns /\ world.crashes \in Nat /\ world.deaths \in Nat
           /\ world.executions \in 0 .. MaxExecutions
BY TurnAssumption DEF WorldRecords

\* The row with another cursor, turn or result is a row; None is not.
LEMMA Rows ==
    ASSUME NEW s \in Sessions
    PROVE  /\ s # None
           /\ \A c \in Transcript \cup {None} :
                 /\ [s EXCEPT !.cursor = c] \in Sessions
                 /\ [s EXCEPT !.cursor = c].cursor = c
           /\ \A r \in 0 .. MaxTurns \cup {None} :
                 /\ [s EXCEPT !.result = r] \in Sessions
                 /\ [s EXCEPT !.result = r].cursor = s.cursor
           /\ s.cursor \in Transcript \cup {None} /\ s.result \in 0 .. MaxTurns \cup {None}
           /\ 0 \in 0 .. MaxTurns
<1> DEFINE C == Transcript \cup {None}
           I == Turns \cup {None}
           R == 0 .. MaxTurns \cup {None}
           S == [cursor : C, inflight : I, result : R]
<1>1. 0 \in 0 .. MaxTurns
  BY TurnAssumption
<1>2. s # None
  BY RowAssumption
<1>3. Sessions = S
  BY DEF Sessions
<1> HIDE DEF C, I, R
<1>4. /\ \A c \in C : [s EXCEPT !.cursor = c] \in S /\ [s EXCEPT !.cursor = c].cursor = c
      /\ \A r \in R : [s EXCEPT !.result = r] \in S /\ [s EXCEPT !.result = r].cursor = s.cursor
      /\ s.cursor \in C /\ s.result \in R
  BY <1>3
<1> QED BY <1>1, <1>2, <1>3, <1>4 DEF C, I, R

LEMMA RowInFlight ==
    ASSUME NEW s \in Sessions, NEW i \in Turns \cup {None}, NEW r \in 0 .. MaxTurns \cup {None}
    PROVE  /\ [s EXCEPT !.inflight = i, !.result = r] \in Sessions
           /\ [s EXCEPT !.inflight = i, !.result = r].cursor = s.cursor
BY DEF Sessions

LEMMA BlankRow == Blank \in Sessions /\ Blank.cursor = None
BY TurnAssumption DEF Blank, Sessions

\* A batch has a last message.
LEMMA NewestIs ==
    ASSUME stamp \in [Transcript -> 0 .. MaxClock],
           NEW S \in SUBSET Transcript, S # {}
    PROVE  Newest(S) \in S /\ \A n \in S : stamp[n] <= stamp[Newest(S)]
<1> DEFINE T == {MaxClock - stamp[m] : m \in S}
<1>1. MaxClock \in Nat
  BY TurnAssumption
<1>2. T \subseteq Nat /\ T # {}
  BY <1>1
<1>3. PICK x \in T : \A y \in T : <<y, x>> \notin OpToRel(<, Nat)
  BY <1>2, NatLessThanWellFounded, WFMin
<1>4. PICK m \in S : x = MaxClock - stamp[m]
  BY <1>3
<1>5. \A n \in S : stamp[n] <= stamp[m]
  <2> TAKE n \in S
  <2>1. ~(MaxClock - stamp[n] < x)
    BY <1>2, <1>3 DEF OpToRel
  <2> QED BY <1>1, <1>4, <2>1
<1>6. \E k \in S : \A n \in S : stamp[n] <= stamp[k]
  BY <1>5
<1> QED BY <1>6 DEF Newest

LEMMA PendingVisible == ASSUME NEW c PROVE Pending(c) \subseteq visible
BY DEF Pending

LEMMA InitPlaced == Init => TypeOK /\ Placed
<1> SUFFICES ASSUME Init PROVE TypeOK /\ Placed
  OBVIOUS
<1>1. MaxClock \in Nat /\ MaxTurns \in Nat
  BY TurnAssumption
<1>2. world \in Worlds /\ 0 \in 0 .. world.turns /\ 0 \in 0 .. world.crashes /\ 0 \in 0 .. world.deaths
  BY WorldBounds DEF Init
<1>3. <<>> \in Seq(Turns) /\ carry \in [Workers -> Sessions] /\ hears \in [Workers -> Seq(Turns)]
  BY BlankRow DEF Init
<1>4. /\ status \in [Executions -> Statuses] /\ pc \in [Workers -> Places]
      /\ stamp \in [Transcript -> 0 .. MaxClock]
  BY <1>1 DEF Init, Statuses, Places
<1>5. /\ how \in [Executions -> {"open", "own", "persisted", "no_input", "failed"}]
      /\ tries \in [Executions -> 0 .. 1]
      /\ asked \in [Executions -> SUBSET Transcript] /\ contents \in [Turns -> SUBSET Transcript]
      /\ batch \in [Workers -> SUBSET Transcript]
  BY DEF Init
<1>6. /\ durable \in [Executions -> Turns \cup {None}]
      /\ answer \in [Executions -> 0 .. MaxTurns \cup {None}]
      /\ turnBy \in [Turns -> Executions \cup {None}] /\ exec \in [Workers -> Executions \cup {None}]
      /\ turn \in [Workers -> Turns \cup {None}] /\ session \in Sessions \cup {None}
  BY DEF Init
<1>7. /\ clock \in 0 .. MaxClock /\ visible \subseteq Transcript /\ stdin \in Seq(Turns)
      /\ held \subseteq Workers /\ attached \subseteq held /\ written \subseteq Turns
      /\ turns \in 0 .. world.turns /\ crashes \in 0 .. world.crashes /\ deaths \in 0 .. world.deaths
  BY <1>1, <1>2, <1>3 DEF Init
<1>8. alive \in BOOLEAN
  BY DEF Init
<1>9. TypeOK
  BY <1>2, <1>3, <1>4, <1>5, <1>6, <1>7, <1>8 DEF TypeOK
<1>10. Placed
  BY BlankRow DEF Init, Placed, StageOK, CursorOf
<1> QED BY <1>9, <1>10

\* The turns that were made are turns.
LEMMA TurnsMade ==
    ASSUME TypeOK
    PROVE  turns \in Nat /\ turns <= MaxTurns /\ turns <= world.turns /\ 1 .. turns \subseteq Turns
<1>1. world.turns \in 0 .. MaxTurns /\ turns \in 0 .. world.turns /\ MaxTurns \in Nat
  BY WorldBounds, TurnAssumption DEF TypeOK
<1> QED BY <1>1 DEF Turns

-----------------------------------------------------------------------------
(* The type invariant by groups of variables, and what a step leaves of it. *)

TranscriptOK == /\ clock \in 0 .. MaxClock /\ stamp \in [Transcript -> 0 .. MaxClock]
                /\ visible \subseteq Transcript
RowOK        == session \in Sessions \cup {None}
SandboxOK    == /\ alive \in BOOLEAN /\ stdin \in Seq(Turns)
                /\ held \subseteq Workers /\ attached \subseteq held
                /\ hears \in [Workers -> Seq(Turns)]
ExecutionsOK == /\ status \in [Executions -> Statuses]
                /\ durable \in [Executions -> Turns \cup {None}]
                /\ tries \in [Executions -> 0 .. 1]
                /\ answer \in [Executions -> 0 .. MaxTurns \cup {None}]
                /\ how \in [Executions -> {"open", "own", "persisted", "no_input", "failed"}]
                /\ asked \in [Executions -> SUBSET Transcript]
TurnsOK      == /\ contents \in [Turns -> SUBSET Transcript]
                /\ turnBy \in [Turns -> Executions \cup {None}]
                /\ written \subseteq Turns
WorkersOK    == /\ pc \in [Workers -> Places]
                /\ exec \in [Workers -> Executions \cup {None}]
                /\ batch \in [Workers -> SUBSET Transcript]
                /\ turn \in [Workers -> Turns \cup {None}]
                /\ carry \in [Workers -> Sessions]
CountsOK     == /\ turns \in 0 .. world.turns /\ world \in Worlds
                /\ crashes \in 0 .. world.crashes /\ deaths \in 0 .. world.deaths

LEMMA Types ==
    TypeOK <=> /\ TranscriptOK /\ RowOK /\ SandboxOK /\ ExecutionsOK
               /\ TurnsOK /\ WorkersOK /\ CountsOK
BY DEF TypeOK, TranscriptOK, RowOK, SandboxOK, ExecutionsOK, TurnsOK, WorkersOK, CountsOK

LEMMA TypesPrimed ==
    TypeOK' <=> /\ TranscriptOK' /\ RowOK' /\ SandboxOK' /\ ExecutionsOK'
                /\ TurnsOK' /\ WorkersOK' /\ CountsOK'
BY DEF TypeOK, TranscriptOK, RowOK, SandboxOK, ExecutionsOK, TurnsOK, WorkersOK, CountsOK

\* A group that a step leaves alone.
LEMMA TypesKept ==
    /\ TranscriptOK /\ UNCHANGED transcriptVars => TranscriptOK'
    /\ RowOK /\ UNCHANGED session => RowOK'
    /\ SandboxOK /\ UNCHANGED sandboxVars => SandboxOK'
    /\ ExecutionsOK /\ UNCHANGED execVars => ExecutionsOK'
    /\ TurnsOK /\ UNCHANGED <<contents, turnBy, written>> => TurnsOK'
    /\ WorkersOK /\ UNCHANGED workerVars => WorkersOK'
    /\ CountsOK /\ UNCHANGED <<turns, faultVars>> => CountsOK'
BY DEF TranscriptOK, RowOK, SandboxOK, ExecutionsOK, TurnsOK, WorkersOK, CountsOK,
   transcriptVars, sandboxVars, execVars, turnVars, workerVars, faultVars

\* The sub-actions keep their group.
LEMMA ReturnTyped ==
    ASSUME WorkersOK, NEW w \in Workers, Return(w)
    PROVE  WorkersOK'
BY BlankRow DEF WorkersOK, Return, Places

LEMMA LetGoTyped ==
    ASSUME SandboxOK, NEW w \in Workers, LetGo(w), UNCHANGED <<alive, stdin>>
    PROVE  SandboxOK'
BY DEF SandboxOK, LetGo

LEMMA GoneTyped ==
    ASSUME SandboxOK, SandboxGone, hears' \in [Workers -> Seq(Turns)]
    PROVE  SandboxOK'
<1>1. <<>> \in Seq(Turns)
  OBVIOUS
<1>2. alive' \in BOOLEAN
  BY Zenon DEF SandboxGone
<1>3. stdin' = <<>> /\ held' = {} /\ attached' = {}
  BY DEF SandboxGone
<1> QED BY <1>1, <1>2, <1>3 DEF SandboxOK

LEMMA TerminalTyped ==
    ASSUME ExecutionsOK, NEW e \in Executions, NEW st \in Terminal,
           NEW h \in {"own", "persisted", "no_input", "failed"},
           NEW t \in 0 .. MaxTurns \cup {None},
           MarkTerminal(e, st, h, t), durable' \in [Executions -> Turns \cup {None}]
    PROVE  /\ ExecutionsOK' /\ asked' = asked
           /\ \A f \in Executions : /\ status'[f] = status[f] \/ (f = e /\ status'[f] = st)
                                    /\ status[f] # "none" => status'[f] # "none"
<1>1. /\ status' \in [Executions -> Statuses]
      /\ how' \in [Executions -> {"open", "own", "persisted", "no_input", "failed"}]
      /\ answer' \in [Executions -> 0 .. MaxTurns \cup {None}] /\ UNCHANGED <<tries, asked>>
  BY DEF ExecutionsOK, MarkTerminal, Statuses, Terminal
<1>2. \A f \in Executions : /\ status'[f] = status[f] \/ (f = e /\ status'[f] = st)
                            /\ status[f] # "none" => status'[f] # "none"
  BY DEF ExecutionsOK, MarkTerminal, Statuses, Terminal
<1> QED BY <1>1, <1>2 DEF ExecutionsOK

-----------------------------------------------------------------------------
(* What a step leaves of Placed. *)

\* What a step never takes back.
Grows ==
    /\ visible \subseteq visible' /\ turns <= turns'
    /\ \A t \in 1 .. turns : contents'[t] = contents[t]
    /\ \A e \in Executions : status[e] # "none" => status'[e] # "none"

Same(v) == /\ pc'[v] = pc[v] /\ exec'[v] = exec[v] /\ batch'[v] = batch[v]
           /\ turn'[v] = turn[v] /\ carry'[v] = carry[v]

LEMMA StageKept ==
    ASSUME TypeOK, NEW v \in Workers, StageOK(v), Grows, Same(v), turns' \in Nat
    PROVE  StageOK(v)'
BY TurnsMade DEF StageOK, Grows, Same

LEMMA AllSame ==
    ASSUME UNCHANGED workerVars
    PROVE  \A v \in Workers : Same(v)
BY DEF Same, workerVars

LEMMA ReturnSame ==
    ASSUME WorkersOK, NEW w \in Workers, Return(w)
    PROVE  /\ \A v \in Workers \ {w} : Same(v)
           /\ StageOK(w)' /\ pc'[w] = "idle" /\ carry'[w] = Blank
BY DEF WorkersOK, Return, Same, StageOK

\* The rest of Placed.
RowPlaced   == /\ alive => session # None
               /\ ~alive => held = {}
               /\ CursorOf(session) \in visible \cup {None}
TurnsPlaced == written \subseteq 1 .. turns /\ \A t \in Turns : contents[t] \subseteq visible
Stamps      == (\A m \in Transcript : stamp[m] <= clock) /\ \A m \in visible : stamp[m] # 0
RowsPlaced  == \A e \in Executions : durable[e] # None => status[e] # "none"
WorkPlaced  == \A w \in Workers : StageOK(w) /\ carry[w].cursor \in visible \cup {None}

LEMMA Parts == Placed <=> RowPlaced /\ TurnsPlaced /\ Stamps /\ RowsPlaced /\ WorkPlaced
BY DEF Placed, RowPlaced, TurnsPlaced, Stamps, RowsPlaced, WorkPlaced

LEMMA PartsPrimed ==
    Placed' <=> RowPlaced' /\ TurnsPlaced' /\ Stamps' /\ RowsPlaced' /\ WorkPlaced'
BY DEF Placed, RowPlaced, TurnsPlaced, Stamps, RowsPlaced, WorkPlaced

\* All workers stay; all but w do.
LEMMA WorkKept ==
    ASSUME TypeOK, WorkPlaced, Grows, turns' \in Nat, UNCHANGED workerVars
    PROVE  WorkPlaced'
<1> SUFFICES ASSUME NEW v \in Workers
             PROVE  StageOK(v)' /\ carry'[v].cursor \in visible' \cup {None}
  BY DEF WorkPlaced
<1>1. Same(v) /\ StageOK(v) /\ carry[v].cursor \in visible \cup {None}
  BY AllSame DEF WorkPlaced
<1> QED BY <1>1, StageKept DEF Same, Grows

LEMMA WorkMoved ==
    ASSUME TypeOK, WorkPlaced, Grows, turns' \in Nat, NEW w \in Workers,
           \A v \in Workers \ {w} : Same(v),
           StageOK(w)', carry'[w].cursor \in visible' \cup {None}
    PROVE  WorkPlaced'
<1> SUFFICES ASSUME NEW v \in Workers \ {w}
             PROVE  StageOK(v)' /\ carry'[v].cursor \in visible' \cup {None}
  BY DEF WorkPlaced
<1>1. Same(v) /\ StageOK(v) /\ carry[v].cursor \in visible \cup {None}
  BY DEF WorkPlaced
<1> QED BY <1>1, StageKept DEF Same, Grows

LEMMA PartsKept ==
    /\ RowPlaced /\ UNCHANGED <<alive, held, session>> /\ Grows => RowPlaced'
    /\ TurnsPlaced /\ UNCHANGED <<turns, contents, written>> /\ Grows => TurnsPlaced'
    /\ Stamps /\ UNCHANGED transcriptVars => Stamps'
    /\ RowsPlaced /\ UNCHANGED durable /\ Grows => RowsPlaced'
BY DEF RowPlaced, TurnsPlaced, Stamps, RowsPlaced, Grows, CursorOf, transcriptVars

-----------------------------------------------------------------------------
(* The steps, one by one. *)

\* Appends.
LEMMA AppendStep ==
    ASSUME TypeOK, Placed, NEW m \in Messages,
           AppendMessage(m) \/ BeginAppend(m) \/ CommitAppend(m)
    PROVE  TypeOK' /\ Placed' /\ Grows
<1>1. TranscriptOK'
  BY TurnAssumption, Types DEF TranscriptOK, AppendMessage, BeginAppend, CommitAppend, Stamped,
     Transcript
<1>2. UNCHANGED <<session, sandboxVars, execVars, turnVars, workerVars, faultVars>>
  BY DEF AppendMessage, BeginAppend, CommitAppend
<1>3. TypeOK'
  BY <1>1, <1>2, Types, TypesPrimed, TypesKept DEF turnVars
<1>4. turns' \in Nat /\ Grows
  BY <1>2, TurnsMade DEF Grows, AppendMessage, BeginAppend, CommitAppend, turnVars, execVars
<1>5. Stamps'
  BY TurnAssumption, Parts, Types DEF Stamps, TranscriptOK, AppendMessage, BeginAppend, CommitAppend,
     Stamped, Transcript
<1>6. WorkPlaced'
  BY <1>2, <1>4, Parts, WorkKept
<1> QED BY <1>2, <1>3, <1>4, <1>5, <1>6, Parts, PartsPrimed, PartsKept
        DEF sandboxVars, turnVars, execVars

LEMMA EnqueueStep ==
    ASSUME TypeOK, Placed, NEW e \in Executions, EnqueueExecution(e)
    PROVE  TypeOK' /\ Placed' /\ Grows
<1>1. ExecutionsOK'
  BY Types DEF ExecutionsOK, TranscriptOK, EnqueueExecution, Statuses
<1>2. UNCHANGED <<transcriptVars, session, sandboxVars, durable, turnVars, workerVars, faultVars>>
  BY DEF EnqueueExecution
<1>3. TypeOK'
  BY <1>1, <1>2, Types, TypesPrimed, TypesKept DEF turnVars
<1>4. turns' \in Nat /\ Grows
  BY <1>2, TurnsMade, Types DEF Grows, EnqueueExecution, turnVars, transcriptVars, ExecutionsOK
<1>5. WorkPlaced'
  BY <1>2, <1>4, Parts, WorkKept
<1> QED BY <1>2, <1>3, <1>4, <1>5, Parts, PartsPrimed, PartsKept DEF sandboxVars, turnVars

LEMMA RecoverStep ==
    ASSUME TypeOK, Placed, NEW e \in Executions, RecoverStaleRunning(e)
    PROVE  TypeOK' /\ Placed' /\ Grows
<1>1. ExecutionsOK'
  BY Types DEF ExecutionsOK, RecoverStaleRunning, Statuses
<1>2. UNCHANGED <<transcriptVars, session, sandboxVars, durable, turnVars, workerVars, faultVars>>
  BY DEF RecoverStaleRunning
<1>3. TypeOK'
  BY <1>1, <1>2, Types, TypesPrimed, TypesKept DEF turnVars
<1>4. turns' \in Nat /\ Grows
  BY <1>2, TurnsMade, Types DEF Grows, RecoverStaleRunning, turnVars, transcriptVars, ExecutionsOK
<1>5. WorkPlaced'
  BY <1>2, <1>4, Parts, WorkKept
<1> QED BY <1>2, <1>3, <1>4, <1>5, Parts, PartsPrimed, PartsKept DEF sandboxVars, turnVars

LEMMA ClaimStep ==
    ASSUME TypeOK, Placed, NEW w \in Workers, NEW e \in Executions, ClaimNextExecution(w, e)
    PROVE  /\ TypeOK' /\ Placed' /\ Grows
           /\ \A v \in Workers \ {w} : Same(v)
           /\ pc'[w] = "acquire" /\ exec'[w] = e /\ carry'[w] = carry[w]
<1>1. ExecutionsOK'
  BY Types DEF ExecutionsOK, ClaimNextExecution, Statuses
<1>2. WorkersOK'
  BY Types DEF WorkersOK, ClaimNextExecution, Places
<1>3. UNCHANGED <<transcriptVars, session, sandboxVars, durable, turnVars, faultVars>>
  BY DEF ClaimNextExecution
<1>4. TypeOK'
  BY <1>1, <1>2, <1>3, Types, TypesPrimed, TypesKept DEF turnVars
<1>5. turns' \in Nat /\ Grows /\ status'[e] # "none"
  BY <1>3, TurnsMade, Types DEF Grows, ClaimNextExecution, turnVars, transcriptVars, ExecutionsOK
<1>6. /\ \A v \in Workers \ {w} : Same(v)
      /\ pc'[w] = "acquire" /\ exec'[w] = e /\ carry'[w] = carry[w]
  BY Types DEF ClaimNextExecution, Same, WorkersOK
<1>7. StageOK(w)'
  BY <1>5, <1>6 DEF StageOK
<1>8. WorkPlaced'
  BY <1>3, <1>5, <1>6, <1>7, Parts, WorkMoved DEF WorkPlaced, transcriptVars
<1> QED BY <1>3, <1>4, <1>5, <1>6, <1>8, Parts, PartsPrimed, PartsKept DEF sandboxVars, turnVars

\* get_or_spawn.
LEMMA ReuseStep ==
    ASSUME TypeOK, Placed, NEW w \in Workers, ReuseSession(w)
    PROVE  /\ TypeOK' /\ Placed' /\ Grows
           /\ \A v \in Workers \ {w} : Same(v)
           /\ exec'[w] = exec[w] /\ carry'[w] = carry[w]
           /\ pc'[w] \in {"prepare", "resume"}
           /\ pc'[w] = "resume" => durable[exec[w]] # None
<1>1. SandboxOK'
  BY Types DEF SandboxOK, ReuseSession
<1>2. WorkersOK'
  BY Types DEF WorkersOK, ReuseSession, Places
<1>3. UNCHANGED <<transcriptVars, session, alive, execVars, turnVars, faultVars>>
  BY DEF ReuseSession
<1>4. TypeOK'
  BY <1>1, <1>2, <1>3, Types, TypesPrimed, TypesKept DEF turnVars
<1>5. turns' \in Nat /\ Grows
  BY <1>3, TurnsMade DEF Grows, turnVars, transcriptVars, execVars
<1>6. /\ \A v \in Workers \ {w} : Same(v)
      /\ exec'[w] = exec[w] /\ carry'[w] = carry[w]
      /\ pc'[w] \in {"prepare", "resume"}
      /\ pc'[w] = "resume" => durable[exec[w]] # None
  BY Types DEF ReuseSession, Same, WorkersOK
<1>7. StageOK(w) /\ pc[w] # "idle" /\ carry[w].cursor \in visible \cup {None}
  BY Parts DEF WorkPlaced, ReuseSession
<1>8. StageOK(w)'
  BY <1>5, <1>6, <1>7 DEF StageOK, Grows
<1>9. WorkPlaced'
  BY <1>5, <1>6, <1>7, <1>8, Parts, WorkMoved DEF Grows
<1>10. RowPlaced'
  BY <1>3, Parts DEF RowPlaced, ReuseSession, transcriptVars, CursorOf
<1> QED BY <1>3, <1>4, <1>5, <1>6, <1>9, <1>10, Parts, PartsPrimed, PartsKept DEF execVars, turnVars

LEMMA DropStep ==
    ASSUME TypeOK, Placed, NEW w \in Workers, DropSession(w)
    PROVE  /\ TypeOK' /\ Placed' /\ Grows
           /\ \A v \in Workers \ {w} : Same(v)
           /\ exec'[w] = exec[w] /\ pc'[w] = "spawn" /\ session' = None
           /\ carry'[w].cursor = CursorOf(session)
<1> DEFINE c == IF session = None THEN Blank
                ELSE [session EXCEPT !.result = IF @ = None THEN 0 ELSE @]
<1>1. c \in Sessions /\ c.cursor = CursorOf(session)
  <2>1. CASE session = None
    BY <2>1, BlankRow DEF CursorOf
  <2>2. CASE session # None
    <3>1. session \in Sessions
      BY <2>2, Types DEF RowOK
    <3> QED BY <2>2, <3>1, Rows DEF CursorOf
  <2> QED BY <2>1, <2>2
<1>2. /\ pc[w] = "acquire" /\ ~(session # None /\ alive)
      /\ carry' = [carry EXCEPT ![w] = c] /\ session' = None
      /\ pc' = [pc EXCEPT ![w] = "spawn"]
      /\ UNCHANGED <<transcriptVars, sandboxVars, execVars, turnVars, exec, batch, turn, faultVars>>
  BY DEF DropSession
<1> HIDE DEF c
<1>3. WorkersOK'
  BY <1>1, <1>2, Types DEF WorkersOK, Places
<1>4. TypeOK'
  BY <1>2, <1>3, Types, TypesPrimed, TypesKept DEF turnVars, RowOK
<1>5. turns' \in Nat /\ Grows
  BY <1>2, TurnsMade DEF Grows, turnVars, transcriptVars, execVars
<1>6. /\ \A v \in Workers \ {w} : Same(v)
      /\ exec'[w] = exec[w] /\ pc'[w] = "spawn" /\ carry'[w] = c
  BY <1>2, Types DEF Same, WorkersOK
<1>7. StageOK(w) /\ CursorOf(session) \in visible \cup {None}
  BY Parts DEF WorkPlaced, RowPlaced
<1>8. StageOK(w)'
  BY <1>2, <1>5, <1>6, <1>7 DEF StageOK, Grows
<1>9. WorkPlaced'
  BY <1>1, <1>5, <1>6, <1>7, <1>8, Parts, WorkMoved DEF Grows
<1>10. RowPlaced'
  BY <1>2, Parts DEF RowPlaced, sandboxVars, CursorOf
<1> QED BY <1>1, <1>2, <1>4, <1>5, <1>6, <1>9, <1>10, Parts, PartsPrimed, PartsKept
        DEF execVars, turnVars

LEMMA InsertStep ==
    ASSUME TypeOK, Placed, NEW w \in Workers, InsertSession(w)
    PROVE  /\ TypeOK' /\ Placed' /\ Grows
           /\ \A v \in Workers \ {w} : Same(v)
           /\ exec'[w] = exec[w] /\ carry'[w] = Blank
           /\ pc'[w] \in {"prepare", "resume"}
           /\ pc'[w] = "resume" => durable[exec[w]] # None
           /\ session' = IF session = None THEN carry[w] ELSE session
<1>1. /\ carry[w] \in Sessions /\ carry[w] # None
      /\ carry[w].cursor \in visible \cup {None}
      /\ StageOK(w) /\ pc[w] # "idle"
  BY Types, Parts, Rows DEF WorkersOK, WorkPlaced, InsertSession
<1>2. /\ session' = IF session = None THEN carry[w] ELSE session
      /\ alive' = IF session = None THEN TRUE ELSE alive
      /\ stdin' = IF session = None THEN <<>> ELSE stdin
      /\ held' = IF session = None THEN {w} ELSE IF alive THEN held \cup {w} ELSE held
      /\ UNCHANGED <<transcriptVars, attached, hears, execVars, turnVars, exec, batch, turn, faultVars>>
  BY DEF InsertSession
<1>3. session = None => held = {} /\ attached = {}
  BY Types, Parts DEF RowPlaced, SandboxOK
<1>4. SandboxOK'
  <2>1. CASE session = None
    <3>1. <<>> \in Seq(Turns) /\ alive' = TRUE
      BY <1>2, <2>1
    <3>2. alive' \in BOOLEAN
      BY <3>1, Zenon
    <3> QED BY <1>2, <1>3, <2>1, <3>1, <3>2, Types DEF SandboxOK
  <2>2. CASE session # None
    BY <1>2, <2>2, Types DEF SandboxOK
  <2> QED BY <2>1, <2>2
<1>5. WorkersOK'
  BY BlankRow, Types DEF WorkersOK, InsertSession, Places
<1>6. RowOK'
  BY <1>1, <1>2, Types DEF RowOK
<1>7. TypeOK'
  BY <1>2, <1>4, <1>5, <1>6, Types, TypesPrimed, TypesKept DEF turnVars
<1>8. turns' \in Nat /\ Grows
  BY <1>2, TurnsMade DEF Grows, turnVars, transcriptVars, execVars
<1>9. /\ \A v \in Workers \ {w} : Same(v)
      /\ exec'[w] = exec[w] /\ carry'[w] = Blank
      /\ pc'[w] \in {"prepare", "resume"}
      /\ pc'[w] = "resume" => durable[exec[w]] # None
  BY Types DEF InsertSession, Same, WorkersOK
<1>10. StageOK(w)'
  BY <1>1, <1>8, <1>9 DEF StageOK, Grows
<1>11. WorkPlaced'
  BY <1>8, <1>9, <1>10, BlankRow, Parts, WorkMoved
<1>12. RowPlaced'
  BY <1>1, <1>2, Parts DEF RowPlaced, CursorOf, transcriptVars
<1> QED BY <1>2, <1>7, <1>8, <1>9, <1>11, <1>12, Parts, PartsPrimed, PartsKept DEF execVars, turnVars

\* inject_stdin.
LEMMA ContextStep ==
    ASSUME TypeOK, Placed, NEW w \in Workers, InsertSystemMessage(w)
    PROVE  /\ TypeOK' /\ Placed' /\ Grows
           /\ \A v \in Workers \ {w} : Same(v)
           /\ exec'[w] = exec[w] /\ carry'[w] = carry[w] /\ pc'[w] = "flush"
<1>1. TranscriptOK'
  BY TurnAssumption, Types DEF TranscriptOK, InsertSystemMessage, Stamped, Transcript, transcriptVars
<1>2. WorkersOK'
  BY Types DEF WorkersOK, InsertSystemMessage, Places
<1>3. UNCHANGED <<session, sandboxVars, execVars, turnVars, faultVars>>
  BY DEF InsertSystemMessage
<1>4. TypeOK'
  BY <1>1, <1>2, <1>3, Types, TypesPrimed, TypesKept DEF turnVars
<1>5. turns' \in Nat /\ Grows
  BY <1>3, TurnsMade DEF Grows, InsertSystemMessage, turnVars, transcriptVars, execVars
<1>6. /\ \A v \in Workers \ {w} : Same(v)
      /\ exec'[w] = exec[w] /\ carry'[w] = carry[w] /\ pc'[w] = "flush"
  BY Types DEF InsertSystemMessage, Same, WorkersOK
<1>7. StageOK(w) /\ pc[w] # "idle" /\ carry[w].cursor \in visible \cup {None}
  BY Parts DEF WorkPlaced, InsertSystemMessage
<1>8. StageOK(w)'
  BY <1>5, <1>6, <1>7 DEF StageOK, Grows
<1>9. WorkPlaced'
  BY <1>5, <1>6, <1>7, <1>8, Parts, WorkMoved DEF Grows
<1>10. Stamps'
  BY TurnAssumption, Parts, Types DEF Stamps, TranscriptOK, InsertSystemMessage, Stamped, Transcript,
     transcriptVars
<1> QED BY <1>3, <1>4, <1>5, <1>6, <1>9, <1>10, Parts, PartsPrimed, PartsKept
        DEF sandboxVars, execVars, turnVars

LEMMA FlushStep ==
    ASSUME TypeOK, Placed, NEW w \in Workers, FlushPending(w)
    PROVE  /\ TypeOK' /\ Placed' /\ Grows
           /\ \A v \in Workers \ {w} : Same(v)
           /\ exec'[w] = exec[w] /\ carry'[w] = carry[w] /\ pc'[w] = "mark"
           /\ batch'[w] = Pending(CursorOf(session))
<1> DEFINE P == Pending(CursorOf(session))
<1>1. P \subseteq visible /\ P \subseteq Transcript
  BY PendingVisible, Types DEF TranscriptOK
<1>2. /\ pc[w] = "flush" /\ P # {} /\ batch' = [batch EXCEPT ![w] = P]
      /\ pc' = [pc EXCEPT ![w] = "mark"]
      /\ UNCHANGED <<transcriptVars, session, sandboxVars, execVars, turnVars, exec, turn, carry,
                     faultVars>>
  BY DEF FlushPending
<1> HIDE DEF P
<1>3. WorkersOK'
  BY <1>1, <1>2, Types DEF WorkersOK, Places
<1>4. TypeOK'
  BY <1>2, <1>3, Types, TypesPrimed, TypesKept DEF turnVars
<1>5. turns' \in Nat /\ Grows
  BY <1>2, TurnsMade DEF Grows, turnVars, transcriptVars, execVars
<1>6. /\ \A v \in Workers \ {w} : Same(v)
      /\ exec'[w] = exec[w] /\ carry'[w] = carry[w] /\ pc'[w] = "mark" /\ batch'[w] = P
  BY <1>2, Types DEF Same, WorkersOK
<1>7. StageOK(w) /\ carry[w].cursor \in visible \cup {None}
  BY Parts DEF WorkPlaced
<1>8. StageOK(w)'
  BY <1>1, <1>2, <1>5, <1>6, <1>7 DEF StageOK, Grows
<1>9. WorkPlaced'
  BY <1>5, <1>6, <1>7, <1>8, Parts, WorkMoved DEF Grows
<1> QED BY <1>2, <1>4, <1>5, <1>6, <1>9, Parts, PartsPrimed, PartsKept
        DEF sandboxVars, execVars, turnVars, P

LEMMA MarkStep ==
    ASSUME TypeOK, Placed, NEW w \in Workers, SetInflightTurn(w)
    PROVE  /\ TypeOK' /\ Placed' /\ Grows
           /\ \A v \in Workers \ {w} : Same(v)
           /\ exec'[w] = exec[w] /\ carry'[w] = carry[w] /\ batch'[w] = batch[w]
           /\ pc'[w] = "write"
           /\ (session' = None <=> session = None) /\ CursorOf(session)' = CursorOf(session)
           /\ \A u \in Turns : u <= turns => contents'[u] = contents[u]
<1> DEFINE t == turns + 1
<1>1. t \in Turns /\ t \in Nat /\ t <= world.turns /\ turns \in Nat /\ 1 .. t = 1 .. turns \cup {t}
      /\ t \notin 1 .. turns /\ t \in 1 .. t
  BY TurnsMade, WorldBounds, Types, TurnAssumption DEF SetInflightTurn, Turns, CountsOK
<1>2. /\ pc[w] = "mark" /\ turns' = t /\ contents' = [contents EXCEPT ![t] = batch[w]]
      /\ turnBy' = [turnBy EXCEPT ![t] = exec[w]] /\ turn' = [turn EXCEPT ![w] = t]
      /\ session' = IF session = None THEN None ELSE [session EXCEPT !.inflight = t, !.result = None]
      /\ pc' = [pc EXCEPT ![w] = "write"]
      /\ UNCHANGED <<transcriptVars, sandboxVars, execVars, written, exec, batch, carry, faultVars>>
  BY DEF SetInflightTurn
<1> HIDE DEF t
<1>3. StageOK(w) /\ carry[w].cursor \in visible \cup {None}
  BY Parts DEF WorkPlaced
<1>4. /\ exec[w] \in Executions
      /\ batch[w] \in SUBSET Transcript /\ batch[w] \subseteq visible /\ batch[w] # {}
  BY <1>2, <1>3, Types DEF StageOK, WorkersOK
<1>5. TurnsOK'
  BY <1>1, <1>2, <1>4, Types DEF TurnsOK
<1>6. WorkersOK'
  BY <1>1, <1>2, Types DEF WorkersOK, Places
<1>7. RowOK' /\ (session' = None <=> session = None) /\ CursorOf(session)' = CursorOf(session)
  <2>1. CASE session = None
    BY <1>2, <2>1 DEF RowOK, CursorOf
  <2>2. CASE session # None
    <3>1. session \in Sessions
      BY <2>2, Types DEF RowOK
    <3>2. session' = [session EXCEPT !.inflight = t, !.result = None]
      BY <1>2, <2>2
    <3>3. t \in Turns \cup {None} /\ None \in 0 .. MaxTurns \cup {None}
      BY <1>1
    <3>4. /\ [session EXCEPT !.inflight = t, !.result = None] \in Sessions
          /\ [session EXCEPT !.inflight = t, !.result = None].cursor = session.cursor
      BY <3>1, <3>3, RowInFlight
    <3>5. session' \in Sessions /\ session'.cursor = session.cursor /\ session' # None
      BY <3>2, <3>4, Rows
    <3> QED BY <2>2, <3>5 DEF RowOK, CursorOf
  <2> QED BY <2>1, <2>2
<1>8. CountsOK'
  BY <1>1, <1>2, WorldBounds, Types DEF CountsOK, faultVars
<1>9. TypeOK'
  BY <1>2, <1>5, <1>6, <1>7, <1>8, Types, TypesPrimed, TypesKept
<1>10. /\ turns' \in Nat /\ Grows
       /\ \A u \in Turns : u <= turns => contents'[u] = contents[u]
  BY <1>1, <1>2, Types DEF Grows, TurnsOK, Turns, transcriptVars, execVars
<1>11. /\ \A v \in Workers \ {w} : Same(v)
       /\ exec'[w] = exec[w] /\ carry'[w] = carry[w] /\ batch'[w] = batch[w]
       /\ pc'[w] = "write" /\ turn'[w] = t /\ contents'[t] = batch[w]
  BY <1>1, <1>2, Types DEF Same, WorkersOK, TurnsOK
<1>12. StageOK(w)'
  BY <1>1, <1>2, <1>3, <1>4, <1>10, <1>11 DEF StageOK, Grows
<1>13. WorkPlaced'
  BY <1>3, <1>10, <1>11, <1>12, Parts, WorkMoved DEF Grows
<1>14. TurnsPlaced'
  <2>1. written' \subseteq 1 .. turns'
    BY <1>1, <1>2, Parts DEF TurnsPlaced
  <2>2. \A u \in Turns : contents'[u] \subseteq visible'
    BY <1>1, <1>2, <1>4, Parts, Types DEF TurnsPlaced, TurnsOK, transcriptVars
  <2> QED BY <2>1, <2>2 DEF TurnsPlaced
<1>15. RowPlaced'
  BY <1>2, <1>7, Parts DEF RowPlaced, sandboxVars, transcriptVars
<1> QED BY <1>2, <1>7, <1>9, <1>10, <1>11, <1>13, <1>14, <1>15, Parts, PartsPrimed, PartsKept
        DEF execVars

LEMMA WriteStep ==
    ASSUME TypeOK, Placed, NEW w \in Workers, WriteStdin(w)
    PROVE  /\ TypeOK' /\ Placed' /\ Grows
           /\ \A v \in Workers \ {w} : Same(v)
           /\ exec'[w] = exec[w] /\ carry'[w] = carry[w] /\ batch'[w] = batch[w]
           /\ pc'[w] = "advance" /\ written' = written \cup {turn[w]}
           /\ turn[w] \in 1 .. turns /\ contents[turn[w]] = batch[w]
<1>1. /\ pc[w] = "write" /\ StageOK(w) /\ carry[w].cursor \in visible \cup {None}
      /\ turn[w] \in 1 .. turns /\ turn[w] \in Turns /\ contents[turn[w]] = batch[w]
  BY TurnsMade, Parts DEF WorkPlaced, StageOK, WriteStdin
<1>2. Append(stdin, turn[w]) \in Seq(Turns)
  BY <1>1, Types DEF SandboxOK
<1>3. SandboxOK'
  BY <1>2, Types DEF SandboxOK, WriteStdin
<1>4. TurnsOK' /\ written' = written \cup {turn[w]}
  BY <1>1, Types DEF TurnsOK, WriteStdin
<1>5. WorkersOK'
  BY Types DEF WorkersOK, WriteStdin, Places
<1>6. UNCHANGED <<transcriptVars, session, alive, held, execVars, turns, contents, turnBy, faultVars>>
  BY DEF WriteStdin
<1>7. TypeOK'
  BY <1>3, <1>4, <1>5, <1>6, Types, TypesPrimed, TypesKept
<1>8. turns' \in Nat /\ Grows
  BY <1>6, TurnsMade DEF Grows, transcriptVars, execVars
<1>9. /\ \A v \in Workers \ {w} : Same(v)
      /\ exec'[w] = exec[w] /\ carry'[w] = carry[w] /\ batch'[w] = batch[w] /\ turn'[w] = turn[w]
      /\ pc'[w] = "advance"
  BY Types DEF WriteStdin, Same, WorkersOK
<1>10. StageOK(w)'
  BY <1>1, <1>6, <1>8, <1>9 DEF StageOK, Grows
<1>11. WorkPlaced'
  BY <1>1, <1>8, <1>9, <1>10, Parts, WorkMoved DEF Grows
<1>12. TurnsPlaced'
  BY <1>1, <1>4, <1>6, Parts DEF TurnsPlaced, transcriptVars
<1> QED BY <1>1, <1>4, <1>6, <1>7, <1>8, <1>9, <1>11, <1>12, Parts, PartsPrimed, PartsKept DEF execVars

\* The cursor of the row that is there becomes c.
LEMMA CursorSet ==
    ASSUME RowOK, NEW c \in Transcript \cup {None}, SetCursor(c)
    PROVE  /\ RowOK' /\ (session' = None <=> session = None)
           /\ CursorOf(session)' = IF session = None THEN None ELSE c
<1>1. CASE session = None
  BY <1>1 DEF RowOK, CursorOf, SetCursor
<1>2. CASE session # None
  <2>1. session \in Sessions /\ session' = [session EXCEPT !.cursor = c]
    BY <1>2 DEF RowOK, SetCursor
  <2>2. session' \in Sessions /\ session'.cursor = c /\ session' # None
    BY <2>1, Rows
  <2> QED BY <1>2, <2>2 DEF RowOK, CursorOf
<1> QED BY <1>1, <1>2

LEMMA AdvanceStep ==
    ASSUME TypeOK, Placed, NEW w \in Workers, AdvanceCursor(w)
    PROVE  /\ TypeOK' /\ Placed' /\ Grows
           /\ \A v \in Workers \ {w} : Same(v)
           /\ exec'[w] = exec[w] /\ carry'[w] = carry[w] /\ pc'[w] = "record"
           /\ Newest(batch[w]) \in batch[w]
           /\ \A n \in batch[w] : stamp[n] <= stamp[Newest(batch[w])]
           /\ (session' = None <=> session = None)
           /\ CursorOf(session)' = IF session = None THEN None ELSE Newest(batch[w])
<1> DEFINE c == Newest(batch[w])
<1>1. /\ pc[w] = "advance" /\ StageOK(w) /\ carry[w].cursor \in visible \cup {None}
      /\ batch[w] # {} /\ batch[w] \subseteq visible /\ batch[w] \in SUBSET Transcript
  BY Parts, Types DEF WorkPlaced, StageOK, AdvanceCursor, WorkersOK
<1>2. c \in batch[w] /\ \A n \in batch[w] : stamp[n] <= stamp[c]
  BY <1>1, NewestIs, Types DEF TranscriptOK
<1>3. /\ SetCursor(c) /\ pc' = [pc EXCEPT ![w] = "record"]
      /\ UNCHANGED <<transcriptVars, sandboxVars, execVars, turnVars, exec, batch, turn, carry,
                     faultVars>>
  BY DEF AdvanceCursor
<1> HIDE DEF c
<1>4. /\ RowOK' /\ (session' = None <=> session = None)
      /\ CursorOf(session)' = IF session = None THEN None ELSE c
  BY <1>1, <1>2, <1>3, CursorSet, Types
<1>5. WorkersOK'
  BY <1>3, Types DEF WorkersOK, Places
<1>6. TypeOK'
  BY <1>3, <1>4, <1>5, Types, TypesPrimed, TypesKept DEF turnVars
<1>7. turns' \in Nat /\ Grows
  BY <1>3, TurnsMade DEF Grows, turnVars, transcriptVars, execVars
<1>8. /\ \A v \in Workers \ {w} : Same(v)
      /\ exec'[w] = exec[w] /\ carry'[w] = carry[w] /\ batch'[w] = batch[w] /\ turn'[w] = turn[w]
      /\ pc'[w] = "record"
  BY <1>3, Types DEF Same, WorkersOK
<1>9. StageOK(w)'
  BY <1>1, <1>7, <1>8, <1>3 DEF StageOK, Grows, turnVars
<1>10. WorkPlaced'
  BY <1>1, <1>7, <1>8, <1>9, Parts, WorkMoved DEF Grows
<1>11. RowPlaced'
  BY <1>1, <1>2, <1>3, <1>4, Parts DEF RowPlaced, sandboxVars, transcriptVars
<1> QED BY <1>2, <1>3, <1>4, <1>6, <1>7, <1>8, <1>10, <1>11, Parts, PartsPrimed, PartsKept
        DEF execVars, turnVars, c

LEMMA RecordTurnStep ==
    ASSUME TypeOK, Placed, NEW w \in Workers, RecordTurn(w)
    PROVE  /\ TypeOK' /\ Placed' /\ Grows
           /\ \A v \in Workers \ {w} : Same(v)
           /\ exec'[w] = exec[w] /\ carry'[w] = carry[w] /\ pc'[w] = "stream"
           /\ exec[w] \in Executions
           /\ \A e \in Executions \ {exec[w]} : durable'[e] = durable[e]
<1>1. /\ pc[w] = "record" /\ StageOK(w) /\ carry[w].cursor \in visible \cup {None}
      /\ exec[w] \in Executions /\ status[exec[w]] # "none" /\ turn[w] \in Turns
  BY TurnsMade, Parts DEF WorkPlaced, StageOK, RecordTurn
<1>2. ExecutionsOK'
  BY <1>1, Types DEF ExecutionsOK, RecordTurn
<1>3. WorkersOK'
  BY Types DEF WorkersOK, RecordTurn, Places
<1>4. UNCHANGED <<transcriptVars, session, sandboxVars, status, turnVars, faultVars>>
  BY DEF RecordTurn
<1>5. TypeOK'
  BY <1>2, <1>3, <1>4, Types, TypesPrimed, TypesKept DEF turnVars
<1>6. turns' \in Nat /\ Grows
  BY <1>4, TurnsMade DEF Grows, turnVars, transcriptVars
<1>7. /\ \A v \in Workers \ {w} : Same(v)
      /\ exec'[w] = exec[w] /\ carry'[w] = carry[w] /\ pc'[w] = "stream"
  BY Types DEF RecordTurn, Same, WorkersOK
<1>8. StageOK(w)'
  BY <1>1, <1>6, <1>7 DEF StageOK, Grows
<1>9. WorkPlaced'
  BY <1>1, <1>6, <1>7, <1>8, Parts, WorkMoved DEF Grows
<1>10. \A e \in Executions \ {exec[w]} : durable'[e] = durable[e]
  BY Types DEF RecordTurn, ExecutionsOK
<1>11. RowsPlaced'
  BY <1>1, <1>4, <1>10, Parts DEF RowsPlaced
<1> QED BY <1>1, <1>4, <1>5, <1>6, <1>7, <1>9, <1>10, <1>11, Parts, PartsPrimed, PartsKept
        DEF sandboxVars, turnVars

\* A worker that is listening goes on.
Listens(w) ==
    /\ \A v \in Workers \ {w} : Same(v)
    /\ exec'[w] = exec[w] /\ carry'[w] = carry[w]
    /\ pc[w] \in {"resume", "attach", "stream"} /\ pc'[w] \in {"attach", "stream", "done"}
    /\ (session' = None <=> session = None) /\ CursorOf(session)' = CursorOf(session)
    /\ UNCHANGED <<transcriptVars, execVars, turnVars, world>>

LEMMA ListenStep ==
    ASSUME TypeOK, Placed, NEW w \in Workers,
           ResumeTurn(w) \/ AttachStdout(w) \/ CompleteInflightTurn(w)
    PROVE  TypeOK' /\ Placed' /\ Grows /\ Listens(w)
<1> DEFINE t == Head(hears[w])
<1>1. CompleteInflightTurn(w) => t \in Turns /\ Tail(hears[w]) \in Seq(Turns)
  BY Types DEF SandboxOK, CompleteInflightTurn
<1>2. SandboxOK'
  BY <1>1, Types DEF SandboxOK, ResumeTurn, AttachStdout, CompleteInflightTurn, sandboxVars
<1>3. WorkersOK'
  BY <1>1, Types DEF WorkersOK, ResumeTurn, AttachStdout, CompleteInflightTurn, Places
<1>4. UNCHANGED <<transcriptVars, alive, held, execVars, turnVars, faultVars>>
  BY DEF ResumeTurn, AttachStdout, CompleteInflightTurn, sandboxVars
<1>5. RowOK' /\ (session' = None <=> session = None) /\ CursorOf(session)' = CursorOf(session)
  <2>1. CASE session' = session
    BY <2>1, Types DEF RowOK, CursorOf
  <2>2. CASE session # None /\ CompleteInflightTurn(w)
    <3>1. session \in Sessions /\ session' = [session EXCEPT !.inflight = None, !.result = t]
      BY <2>2, Types DEF RowOK, CompleteInflightTurn
    <3>2. t \in 0 .. MaxTurns \cup {None} /\ None \in Turns \cup {None}
      BY <1>1, <2>2, TurnAssumption DEF Turns
    <3> HIDE DEF t
    <3>3. /\ [session EXCEPT !.inflight = None, !.result = t] \in Sessions
          /\ [session EXCEPT !.inflight = None, !.result = t].cursor = session.cursor
      BY <3>1, <3>2, RowInFlight
    <3>4. session' \in Sessions /\ session'.cursor = session.cursor /\ session' # None
      BY <3>1, <3>3, Rows
    <3> QED BY <2>2, <3>4 DEF RowOK, CursorOf
  <2>3. session' = session \/ (session # None /\ CompleteInflightTurn(w))
    BY DEF ResumeTurn, AttachStdout, CompleteInflightTurn
  <2> QED BY <2>1, <2>2, <2>3
<1>6. TypeOK'
  BY <1>2, <1>3, <1>4, <1>5, Types, TypesPrimed, TypesKept DEF turnVars
<1>7. turns' \in Nat /\ Grows
  BY <1>4, TurnsMade DEF Grows, turnVars, transcriptVars, execVars
<1>8. /\ \A v \in Workers \ {w} : Same(v)
      /\ exec'[w] = exec[w] /\ carry'[w] = carry[w]
      /\ pc[w] \in {"resume", "attach", "stream"} /\ pc'[w] \in {"attach", "stream", "done"}
  BY Types DEF ResumeTurn, AttachStdout, CompleteInflightTurn, Same, WorkersOK
<1>9. StageOK(w) /\ carry[w].cursor \in visible \cup {None}
  BY Parts DEF WorkPlaced
<1>10. StageOK(w)'
  BY <1>7, <1>8, <1>9 DEF StageOK, Grows
<1>11. WorkPlaced'
  BY <1>7, <1>8, <1>9, <1>10, Parts, WorkMoved DEF Grows
<1>12. RowPlaced'
  BY <1>4, <1>5, Parts DEF RowPlaced, transcriptVars
<1> QED BY <1>4, <1>5, <1>6, <1>7, <1>8, <1>11, <1>12, Parts, PartsPrimed, PartsKept
        DEF execVars, turnVars, faultVars, Listens

\* A worker leaves its execution.
Finishes(w) == \/ pc[w] = "flush" /\ Pending(CursorOf(session)) = {}
               \/ pc[w] \in {"resume", "stream", "done"}

Leaves(w) ==
    /\ \A v \in Workers \ {w} : Same(v)
    /\ pc'[w] = "idle" /\ carry'[w] = Blank
    /\ UNCHANGED <<transcriptVars, session, turnVars, asked, world>>
    /\ \A e \in Executions :
          /\ durable'[e] \in {None, durable[e]}
          /\ status'[e] # status[e] => e = exec[w]
          /\ status'[e] = "completed" => status[e] = "completed" \/ (e = exec[w] /\ Finishes(w))

LEMMA Leaving ==
    ASSUME TypeOK, Placed, NEW w \in Workers, Return(w),
           SandboxOK', ExecutionsOK', CountsOK',
           UNCHANGED <<transcriptVars, session, turnVars, asked, world>>,
           (UNCHANGED alive /\ held' = held \ {w}) \/ (alive' = FALSE /\ held' = {}),
           \A e \in Executions :
              /\ durable'[e] \in {None, durable[e]}
              /\ status'[e] # status[e] => e = exec[w]
              /\ status'[e] = "completed" => status[e] = "completed" \/ (e = exec[w] /\ Finishes(w))
              /\ status[e] # "none" => status'[e] # "none"
    PROVE  TypeOK' /\ Placed' /\ Grows /\ Leaves(w)
<1>1. WorkersOK' /\ RowOK' /\ TranscriptOK' /\ TurnsOK'
  BY ReturnTyped, Types, TypesKept DEF turnVars
<1>2. TypeOK'
  BY <1>1, TypesPrimed
<1>3. turns' \in Nat /\ Grows
  BY TurnsMade DEF Grows, turnVars, transcriptVars
<1>4. /\ \A v \in Workers \ {w} : Same(v)
      /\ StageOK(w)' /\ pc'[w] = "idle" /\ carry'[w] = Blank
  BY ReturnSame, Types
<1>5. WorkPlaced'
  BY <1>3, <1>4, BlankRow, Parts, WorkMoved
<1>6. RowPlaced' /\ RowsPlaced'
  BY <1>3, Parts DEF RowPlaced, RowsPlaced, CursorOf, transcriptVars, Grows
<1>7. TurnsPlaced' /\ Stamps'
  BY <1>3, Parts, PartsKept DEF turnVars
<1> QED BY <1>2, <1>3, <1>4, <1>5, <1>6, <1>7, PartsPrimed DEF Leaves

\* It finalizes it and leaves the sandbox running; it fails it and stops the sandbox.
LEMMA FinalizeStep ==
    ASSUME TypeOK, Placed, NEW w \in Workers, pc[w] # "idle",
           NEW st \in Terminal, NEW h \in {"own", "persisted", "no_input", "failed"},
           NEW t \in 0 .. MaxTurns \cup {None},
           FinalizeAndLeave(w, st, h, t), UNCHANGED session,
           durable' = durable \/ durable' = [durable EXCEPT ![exec[w]] = None],
           st = "completed" => Finishes(w)
    PROVE  TypeOK' /\ Placed' /\ Grows /\ Leaves(w)
<1>1. exec[w] \in Executions
  BY Parts DEF WorkPlaced, StageOK
<1>2. durable' \in [Executions -> Turns \cup {None}]
  BY <1>1, Types DEF ExecutionsOK
<1>3. \A e \in Executions : durable'[e] \in {None, durable[e]}
  BY <1>1, Types DEF ExecutionsOK
<1>4. /\ MarkTerminal(exec[w], st, h, t) /\ Return(w) /\ LetGo(w)
      /\ UNCHANGED <<transcriptVars, turnVars, alive, stdin, faultVars>>
  BY DEF FinalizeAndLeave
<1>5. /\ ExecutionsOK' /\ asked' = asked
      /\ \A f \in Executions : /\ status'[f] = status[f] \/ (f = exec[w] /\ status'[f] = st)
                               /\ status[f] # "none" => status'[f] # "none"
  <2>1. ExecutionsOK
    BY Types
  <2>2. MarkTerminal(exec[w], st, h, t)
    BY <1>4
  <2> QED BY ONLY <1>1, <1>2, <2>1, <2>2, TerminalTyped
<1>6. SandboxOK' /\ CountsOK'
  BY <1>4, LetGoTyped, Types, TypesKept DEF turnVars
<1>7. held' = held \ {w} /\ UNCHANGED world
  BY <1>4 DEF LetGo, faultVars
<1>8. \A e \in Executions :
         /\ status'[e] # status[e] => e = exec[w]
         /\ status'[e] = "completed" => status[e] = "completed" \/ (e = exec[w] /\ Finishes(w))
  BY <1>5
<1> QED BY <1>3, <1>4, <1>5, <1>6, <1>7, <1>8, Leaving

LEMMA FailAndStopStep ==
    ASSUME TypeOK, Placed, NEW w \in Workers, pc[w] # "idle", FailAndStop(w)
    PROVE  TypeOK' /\ Placed' /\ Grows /\ Leaves(w)
<1>1. exec[w] \in Executions
  BY Parts DEF WorkPlaced, StageOK
<1>2. /\ MarkTerminal(exec[w], "failed", "failed", None) /\ SandboxGone
      /\ hears' = [hears EXCEPT ![w] = <<>>] /\ Return(w)
      /\ UNCHANGED <<transcriptVars, session, durable, turnVars, faultVars>>
  BY DEF FailAndStop
<1>3. durable' \in [Executions -> Turns \cup {None}] /\ "failed" \in Terminal
  BY <1>2, Types DEF ExecutionsOK, Terminal
<1>4. /\ ExecutionsOK' /\ asked' = asked
      /\ \A f \in Executions : /\ status'[f] = status[f] \/ (f = exec[w] /\ status'[f] = "failed")
                               /\ status[f] # "none" => status'[f] # "none"
  BY <1>1, <1>2, <1>3, TerminalTyped, Types
<1>5. SandboxOK' /\ CountsOK'
  <2>1. hears' \in [Workers -> Seq(Turns)]
    BY <1>2, Types DEF SandboxOK
  <2> QED BY <1>2, <2>1, GoneTyped, Types, TypesKept DEF turnVars
<1>6. alive' = FALSE /\ held' = {} /\ UNCHANGED world
  BY <1>2 DEF SandboxGone, faultVars
<1>7. \A e \in Executions :
         /\ durable'[e] \in {None, durable[e]}
         /\ status'[e] # status[e] => e = exec[w]
         /\ status'[e] = "completed" => status[e] = "completed" \/ (e = exec[w] /\ Finishes(w))
  BY <1>2, <1>4
<1> QED BY <1>2, <1>4, <1>5, <1>6, <1>7, Leaving

\* The steps with which a worker leaves its execution.
LeaveAction(w) ==
    \/ NoInput(w) \/ SandboxExited(w) \/ ResumeCompleted(w) \/ TurnDone(w) \/ TurnFailed(w)
    \/ RequeueAfterAuthFailure(w) /\ status[exec[w]] # "running"
    \/ GiveUp(w) \/ GiveUpAndLeave(w) \/ StreamEnded(w) \/ Crash(w)

LEMMA LeaveStep ==
    ASSUME TypeOK, Placed, NEW w \in Workers, LeaveAction(w)
    PROVE  TypeOK' /\ Placed' /\ Grows /\ Leaves(w)
<1>1. /\ "completed" \in Terminal /\ "failed" \in Terminal
      /\ None \in 0 .. MaxTurns \cup {None}
  BY DEF Terminal
<1>2. CASE NoInput(w)
  <2>1. /\ FinalizeAndLeave(w, "completed", "no_input", None) /\ UNCHANGED session
        /\ durable' = [durable EXCEPT ![exec[w]] = None] /\ Finishes(w)
    BY <1>2 DEF NoInput, Finishes
  <2>2. pc[w] # "idle"
    BY <1>2 DEF NoInput
  <2> QED BY <1>1, <2>1, <2>2, FinalizeStep
<1>3. CASE ResumeCompleted(w) \/ (StreamEnded(w) /\ HasResult(session))
  <2>1. /\ Finalize(w, "completed", "persisted", session.result) /\ UNCHANGED session
        /\ HasResult(session) /\ pc[w] \in {"resume", "stream"}
    BY <1>3 DEF ResumeCompleted, StreamEnded
  <2>2. session.result \in 0 .. MaxTurns \cup {None}
    <3>1. session \in Sessions
      BY <2>1, Types DEF RowOK, HasResult
    <3> QED BY <3>1, Rows
  <2>3. pc[w] # "idle" /\ Finishes(w)
    BY <2>1 DEF Finishes
  <2> QED BY <1>1, <2>1, <2>2, <2>3, FinalizeStep DEF Finalize
<1>4. CASE TurnDone(w)
  <2>1. /\ Finalize(w, "completed", "own", turn[w]) /\ UNCHANGED session /\ pc[w] = "done"
    BY <1>4 DEF TurnDone
  <2>2. turn[w] \in 0 .. MaxTurns \cup {None}
    BY Types, TurnAssumption DEF WorkersOK, Turns
  <2>3. pc[w] # "idle" /\ Finishes(w)
    BY <2>1 DEF Finishes
  <2> QED BY <1>1, <2>1, <2>2, <2>3, FinalizeStep DEF Finalize
<1>5. CASE TurnFailed(w) \/ GiveUpAndLeave(w)
  <2>1. Finalize(w, "failed", "failed", None) /\ UNCHANGED session /\ pc[w] # "idle"
    BY <1>5 DEF TurnFailed, GiveUpAndLeave
  <2> QED BY <1>1, <2>1, FinalizeStep DEF Finalize
<1>6. CASE GiveUp(w)
  <2>1. FailAndStop(w) /\ pc[w] # "idle"
    BY <1>6 DEF GiveUp
  <2> QED BY <2>1, FailAndStopStep
<1>7. CASE SandboxExited(w) \/ Crash(w)
  <2>1. /\ Return(w) /\ LetGo(w)
        /\ UNCHANGED <<transcriptVars, session, alive, stdin, execVars, turnVars, deaths, world>>
    BY <1>7 DEF SandboxExited, Crash, faultVars
  <2>2. SandboxOK' /\ ExecutionsOK'
    BY <2>1, LetGoTyped, Types, TypesKept
  <2>3. CountsOK'
    BY <1>7, <2>1, WorldBounds, Types DEF CountsOK, turnVars, SandboxExited, Crash, faultVars
  <2>4. held' = held \ {w} /\ UNCHANGED <<durable, status, asked>>
    BY <2>1 DEF LetGo, execVars
  <2> QED BY <2>1, <2>2, <2>3, <2>4, Leaving
<1>8. CASE RequeueAfterAuthFailure(w) /\ status[exec[w]] # "running"
  <2>1. /\ SandboxGone /\ hears' = [hears EXCEPT ![w] = <<>>] /\ Return(w)
        /\ UNCHANGED <<transcriptVars, session, status, durable, tries, answer, how, asked,
                       turnVars, faultVars>>
    BY <1>8 DEF RequeueAfterAuthFailure
  <2>2. hears' \in [Workers -> Seq(Turns)]
    BY <2>1, Types DEF SandboxOK
  <2>3. SandboxOK' /\ ExecutionsOK' /\ CountsOK'
    BY <2>1, <2>2, GoneTyped, Types, TypesKept DEF execVars, turnVars
  <2>4. alive' = FALSE /\ held' = {} /\ UNCHANGED <<durable, status, asked, world>>
    BY <2>1 DEF SandboxGone, faultVars
  <2> QED BY <2>1, <2>3, <2>4, Leaving
<1>9. CASE StreamEnded(w) /\ ~HasResult(session) /\ (w \in held \/ status[exec[w]] \in Terminal)
  <2>1. /\ status' = [status EXCEPT ![exec[w]] = IF @ = "running" THEN "retry_wait" ELSE @]
        /\ Return(w) /\ LetGo(w) /\ pc[w] = "stream"
        /\ UNCHANGED <<transcriptVars, session, turnVars, alive, stdin, durable, tries, answer,
                       how, asked, faultVars>>
    BY <1>9 DEF StreamEnded
  <2>2. ExecutionsOK'
    BY <2>1, Types DEF ExecutionsOK, Statuses
  <2>3. SandboxOK' /\ CountsOK'
    BY <2>1, LetGoTyped, Types, TypesKept DEF turnVars
  <2>4. \A e \in Executions :
           /\ durable'[e] \in {None, durable[e]}
           /\ status'[e] # status[e] => e = exec[w]
           /\ status'[e] = "completed" => status[e] = "completed" \/ (e = exec[w] /\ Finishes(w))
           /\ status[e] # "none" => status'[e] # "none"
    BY <2>1, Types DEF ExecutionsOK
  <2>5. held' = held \ {w} /\ UNCHANGED <<alive, asked, world>>
    BY <2>1 DEF LetGo, faultVars
  <2> QED BY <2>1, <2>2, <2>3, <2>4, <2>5, Leaving
<1>10. CASE StreamEnded(w) /\ ~HasResult(session) /\ ~(w \in held \/ status[exec[w]] \in Terminal)
  <2>1. FailAndStop(w) /\ pc[w] # "idle"
    BY <1>10 DEF StreamEnded
  <2> QED BY <2>1, FailAndStopStep
<1> QED BY <1>2, <1>3, <1>4, <1>5, <1>6, <1>7, <1>8, <1>9, <1>10 DEF LeaveAction

\* An execution is requeued; then the cursor is forgotten.
LEMMA RequeueStep ==
    ASSUME TypeOK, Placed, NEW w \in Workers, RequeueAfterAuthFailure(w), status[exec[w]] = "running"
    PROVE  /\ TypeOK' /\ Placed' /\ Grows
           /\ \A v \in Workers \ {w} : Same(v)
           /\ exec'[w] = exec[w] /\ carry'[w] = carry[w] /\ pc'[w] = "rewind"
           /\ \A e \in Executions : /\ durable'[e] \in {None, durable[e]}
                                    /\ status'[e] = "completed" => status[e] = "completed"
<1> DEFINE e == exec[w]
<1>1. /\ pc[w] = "done" /\ StageOK(w) /\ e \in Executions /\ carry[w].cursor \in visible \cup {None}
  BY Parts DEF WorkPlaced, StageOK, RequeueAfterAuthFailure
<1>2. /\ SandboxGone /\ hears' = [hears EXCEPT ![w] = <<>>]
      /\ status' = [status EXCEPT ![e] = "queued"] /\ durable' = [durable EXCEPT ![e] = None]
      /\ tries' = [tries EXCEPT ![e] = 1] /\ pc' = [pc EXCEPT ![w] = "rewind"]
      /\ UNCHANGED <<exec, batch, turn, carry, transcriptVars, session, answer, how, asked,
                     turnVars, faultVars>>
  BY DEF RequeueAfterAuthFailure
<1>3. SandboxOK'
  <2>1. hears' \in [Workers -> Seq(Turns)]
    BY <1>2, Types DEF SandboxOK
  <2> QED BY <1>2, <2>1, GoneTyped, Types
<1> HIDE DEF e
<1>4. ExecutionsOK'
  BY <1>1, <1>2, Types DEF ExecutionsOK, Statuses
<1>5. WorkersOK'
  BY <1>2, Types DEF WorkersOK, Places
<1>6. TypeOK'
  BY <1>2, <1>3, <1>4, <1>5, Types, TypesPrimed, TypesKept DEF turnVars
<1>7. turns' \in Nat /\ Grows
  BY <1>2, TurnsMade, Types DEF Grows, turnVars, transcriptVars, ExecutionsOK
<1>8. /\ \A v \in Workers \ {w} : Same(v)
      /\ exec'[w] = exec[w] /\ carry'[w] = carry[w] /\ pc'[w] = "rewind"
  BY <1>2, Types DEF Same, WorkersOK
<1>9. StageOK(w)'
  BY <1>1, <1>7, <1>8 DEF StageOK, Grows
<1>10. WorkPlaced'
  BY <1>1, <1>7, <1>8, <1>9, Parts, WorkMoved DEF Grows
<1>11. \A f \in Executions : /\ durable'[f] \in {None, durable[f]}
                             /\ status'[f] = "completed" => status[f] = "completed"
  BY <1>2, Types DEF ExecutionsOK
<1>12. RowPlaced' /\ RowsPlaced'
  BY <1>2, <1>7, <1>11, Parts DEF RowPlaced, RowsPlaced, SandboxGone, CursorOf, Grows
<1> QED BY <1>2, <1>6, <1>7, <1>8, <1>10, <1>11, <1>12, Parts, PartsPrimed, PartsKept DEF turnVars

\* A step that forgets the cursor.
LEMMA ForgetStep ==
    ASSUME TypeOK, Placed, NEW w \in Workers, RewindCursor(w) \/ ThreadResumeFailed(w)
    PROVE  /\ TypeOK' /\ Placed' /\ Grows
           /\ \A v \in Workers \ {w} : Same(v)
           /\ Same(w) \/ (pc'[w] = "idle" /\ carry'[w] = Blank)
           /\ CursorOf(session)' = None
           /\ UNCHANGED <<transcriptVars, execVars, turnVars>>
<1>1. /\ SetCursor(None)
      /\ UNCHANGED <<transcriptVars, sandboxVars, execVars, turnVars, faultVars>>
      /\ Return(w) \/ UNCHANGED workerVars
  BY DEF RewindCursor, ThreadResumeFailed
<1>2. RowOK' /\ (session' = None <=> session = None) /\ CursorOf(session)' = None
  <2>1. None \in Transcript \cup {None}
    OBVIOUS
  <2> QED BY <1>1, <2>1, CursorSet, Types
<1>3. WorkersOK'
  BY <1>1, ReturnTyped, Types, TypesKept
<1>4. TypeOK'
  BY <1>1, <1>2, <1>3, Types, TypesPrimed, TypesKept DEF turnVars
<1>5. turns' \in Nat /\ Grows
  BY <1>1, TurnsMade DEF Grows, turnVars, transcriptVars, execVars
<1>6. CASE Return(w)
  <2>1. /\ \A v \in Workers \ {w} : Same(v)
        /\ StageOK(w)' /\ pc'[w] = "idle" /\ carry'[w] = Blank
    BY <1>6, ReturnSame, Types
  <2>2. WorkPlaced'
    BY <1>5, <2>1, BlankRow, Parts, WorkMoved
  <2>3. RowPlaced'
    BY <1>1, <1>2, Parts DEF RowPlaced, sandboxVars
  <2> QED BY <1>1, <1>2, <1>4, <1>5, <2>1, <2>2, <2>3, Parts, PartsPrimed, PartsKept
          DEF execVars, turnVars
<1>7. CASE UNCHANGED workerVars
  <2>1. \A v \in Workers : Same(v)
    BY <1>7, AllSame
  <2>2. WorkPlaced'
    BY <1>5, <1>7, Parts, WorkKept
  <2>3. RowPlaced'
    BY <1>1, <1>2, Parts DEF RowPlaced, sandboxVars
  <2> QED BY <1>1, <1>2, <1>4, <1>5, <2>1, <2>2, <2>3, Parts, PartsPrimed, PartsKept
          DEF execVars, turnVars
<1> QED BY <1>1, <1>6, <1>7

\* The harness ends a turn; the sandbox dies.
LEMMA SandboxStep ==
    ASSUME TypeOK, Placed, HarnessEndsTurn \/ SandboxDies
    PROVE  /\ TypeOK' /\ Placed' /\ Grows
           /\ UNCHANGED <<transcriptVars, session, execVars, turnVars, workerVars, world>>
<1>1. UNCHANGED <<transcriptVars, session, execVars, turnVars, workerVars, world>>
  BY DEF HarnessEndsTurn, SandboxDies, faultVars
<1>2. SandboxOK' /\ ((UNCHANGED <<alive, held>>) \/ (alive' = FALSE /\ held' = {}))
  <2>1. CASE HarnessEndsTurn
    <3>1. Head(stdin) \in Turns /\ Tail(stdin) \in Seq(Turns)
      BY <2>1, Types DEF SandboxOK, HarnessEndsTurn
    <3>2. \A w \in Workers : Append(hears[w], Head(stdin)) \in Seq(Turns)
      BY <3>1, Types DEF SandboxOK
    <3>3. hears' \in [Workers -> Seq(Turns)]
      BY <2>1, <3>2, Types DEF SandboxOK, HarnessEndsTurn
    <3> QED BY <2>1, <3>1, <3>3, Types DEF SandboxOK, HarnessEndsTurn
  <2>2. CASE SandboxDies
    <3>1. SandboxGone /\ hears' \in [Workers -> Seq(Turns)]
      BY <2>2, Types DEF SandboxOK, SandboxDies
    <3> QED BY <3>1, GoneTyped, Types DEF SandboxGone
  <2> QED BY <2>1, <2>2
<1>3. CountsOK'
  BY <1>1, WorldBounds, Types DEF CountsOK, HarnessEndsTurn, SandboxDies, faultVars, turnVars
<1>4. TypeOK'
  BY <1>1, <1>2, <1>3, Types, TypesPrimed, TypesKept DEF turnVars
<1>5. turns' \in Nat /\ Grows
  BY <1>1, TurnsMade DEF Grows, turnVars, transcriptVars, execVars
<1>6. WorkPlaced'
  BY <1>1, <1>5, Parts, WorkKept
<1>7. RowPlaced'
  BY <1>1, <1>2, Parts DEF RowPlaced, CursorOf, transcriptVars
<1> QED BY <1>1, <1>4, <1>5, <1>6, <1>7, Parts, PartsPrimed, PartsKept DEF execVars, turnVars

-----------------------------------------------------------------------------
(* While stamps are in order. *)

LEMMA HeardIs == \A m : m \in Heard <=> \E t \in written : m \in contents[t]
BY DEF Heard

LEMMA HeardPrimed == \A m : m \in Heard' <=> \E t \in written' : m \in contents'[t]
BY DEF Heard

LEMMA HeardGrows ==
    ASSUME TurnsPlaced, Grows, written \subseteq written'
    PROVE  Heard \subseteq Heard'
BY HeardIs, HeardPrimed DEF TurnsPlaced, Grows

LEMMA HeardVisible ==
    ASSUME TurnsPlaced, TurnsOK
    PROVE  Heard \subseteq visible
BY HeardIs DEF TurnsPlaced, TurnsOK

\* Stamps stay, and what becomes visible is the latest.
OrderedStamps == \A m \in Transcript : m \in visible <=> stamp[m] # 0

LateComers ==
    /\ \A m \in visible : stamp'[m] = stamp[m]
    /\ \A m \in visible' \ visible : \A n \in visible : ~(stamp'[m] <= stamp[n])
    /\ OrderedStamps'

CursorsCover == Covers(CursorOf(session)) /\ \A w \in Workers : Covers(carry[w].cursor)

AskedHeard == \A e \in Executions :
                 /\ asked[e] \subseteq visible
                 /\ durable[e] # None => asked[e] \subseteq Heard
                 /\ status[e] = "completed" => asked[e] \subseteq Heard

LEMMA OrderParts ==
    InOrder <=> OrderedStamps /\ CursorsCover /\ AskedHeard /\ \A w \in Workers : DueOK(w)
BY DEF InOrder, OrderedStamps, CursorsCover, AskedHeard

LEMMA OrderPartsPrimed ==
    InOrder' <=> OrderedStamps' /\ CursorsCover' /\ AskedHeard' /\ \A w \in Workers : DueOK(w)'
BY DEF InOrder, OrderedStamps, CursorsCover, AskedHeard

LEMMA StillCovers ==
    ASSUME LateComers, Heard \subseteq Heard', NEW c \in visible \cup {None}, Covers(c)
    PROVE  Covers(c)'
BY DEF LateComers, Covers

LEMMA StillGapFree ==
    ASSUME LateComers, Heard \subseteq Heard', NEW B \in SUBSET visible, GapFree(B)
    PROVE  GapFree(B)'
BY DEF LateComers, GapFree

LEMMA LateComersNone ==
    ASSUME OrderedStamps, UNCHANGED transcriptVars
    PROVE  LateComers
BY DEF OrderedStamps, LateComers, transcriptVars

\* What was asked stays asked.
AskedKept == \A e \in Executions : status[e] # "none" => asked'[e] = asked[e]

LEMMA DueKept ==
    ASSUME TypeOK, Placed, LateComers, Heard \subseteq Heard', AskedKept,
           NEW v \in Workers, DueOK(v), Same(v)
    PROVE  DueOK(v)'
<1>1. StageOK(v)
  BY Parts DEF WorkPlaced
<1>2. /\ pc'[v] = pc[v] /\ exec'[v] = exec[v] /\ batch'[v] = batch[v]
      /\ pc[v] # "idle" => asked'[exec[v]] = asked[exec[v]]
      /\ pc[v] \in {"mark", "write", "advance"} => batch[v] \in SUBSET visible
  BY <1>1 DEF Same, StageOK, AskedKept
<1>3. PICK B : B = batch[v]
  OBVIOUS
<1>4. pc[v] \in {"mark", "write", "advance"} => GapFree(B)'
  BY <1>2, <1>3, StillGapFree DEF DueOK
<1>5. pc'[v] \in {"mark", "write", "advance"} => GapFree(batch[v])'
  BY <1>2, <1>3, <1>4 DEF GapFree
<1> QED BY <1>2, <1>5 DEF DueOK

\* The invariant after a step of worker w, and after a step of nobody.
LEMMA OrderMoved ==
    ASSUME TypeOK, Placed, InOrder, Grows, LateComers, Heard \subseteq Heard', AskedKept,
           NEW w \in Workers, \A v \in Workers \ {w} : Same(v),
           Covers(CursorOf(session))', Covers(carry[w].cursor)', DueOK(w)', AskedHeard'
    PROVE  InOrder'
<1>1. ASSUME NEW v \in Workers \ {w}
      PROVE  DueOK(v)' /\ Covers(carry[v].cursor)'
  <2>1. Same(v) /\ carry'[v] = carry[v]
    BY DEF Same
  <2>2. DueOK(v) /\ Covers(carry[v].cursor) /\ carry[v].cursor \in visible \cup {None}
    BY OrderParts, Parts DEF CursorsCover, WorkPlaced
  <2>3. DueOK(v)'
    BY <2>1, <2>2, DueKept
  <2>4. PICK c : c = carry[v].cursor
    OBVIOUS
  <2>5. Covers(c)'
    BY <2>2, <2>4, StillCovers
  <2> QED BY <2>1, <2>3, <2>4, <2>5 DEF Covers
<1>2. CursorsCover' /\ \A v \in Workers : DueOK(v)'
  BY <1>1 DEF CursorsCover
<1> QED BY <1>2, OrderPartsPrimed DEF LateComers

LEMMA OrderKept ==
    ASSUME TypeOK, Placed, InOrder, Grows, LateComers, Heard \subseteq Heard', AskedKept,
           UNCHANGED <<session, workerVars>>, AskedHeard'
    PROVE  InOrder'
<1>1. ASSUME NEW v \in Workers
      PROVE  DueOK(v)' /\ Covers(carry[v].cursor)'
  <2>1. Same(v) /\ carry'[v] = carry[v]
    BY AllSame DEF Same
  <2>2. DueOK(v) /\ Covers(carry[v].cursor) /\ carry[v].cursor \in visible \cup {None}
    BY OrderParts, Parts DEF CursorsCover, WorkPlaced
  <2>3. DueOK(v)'
    BY <2>1, <2>2, DueKept
  <2>4. PICK c : c = carry[v].cursor
    OBVIOUS
  <2>5. Covers(c)'
    BY <2>2, <2>4, StillCovers
  <2> QED BY <2>1, <2>3, <2>4, <2>5 DEF Covers
<1>2. Covers(CursorOf(session))'
  <2>1. PICK c : c = CursorOf(session)
    OBVIOUS
  <2>2. Covers(c)'
    BY <2>1, StillCovers, OrderParts, Parts DEF CursorsCover, RowPlaced
  <2> QED BY <2>1, <2>2 DEF Covers, CursorOf
<1>3. CursorsCover' /\ \A v \in Workers : DueOK(v)'
  BY <1>1, <1>2 DEF CursorsCover
<1> QED BY <1>3, OrderPartsPrimed DEF LateComers

\* The cursor that stays still covers; a cursor that is forgotten does.
LEMMA CursorStill ==
    ASSUME Placed, InOrder, LateComers, Heard \subseteq Heard',
           NEW s, CursorOf(s) \in visible \cup {None}, Covers(CursorOf(s)),
           CursorOf(session)' = CursorOf(s)
    PROVE  Covers(CursorOf(session))'
<1>1. PICK c : c = CursorOf(s)
  OBVIOUS
<1>2. Covers(c)'
  BY <1>1, StillCovers
<1> QED BY <1>1, <1>2 DEF Covers

LEMMA AskedStep ==
    ASSUME InOrder, visible \subseteq visible', Heard \subseteq Heard', UNCHANGED asked,
           \A e \in Executions :
              /\ durable'[e] # None => durable[e] # None \/ asked[e] \subseteq Heard
              /\ status'[e] = "completed" => status[e] = "completed" \/ asked[e] \subseteq Heard
    PROVE  AskedHeard' /\ AskedKept
<1>1. AskedHeard
  BY OrderParts
<1> QED BY <1>1 DEF AskedHeard, AskedKept

LEMMA AppendInOrder ==
    ASSUME TypeOK, Placed, Orderly, InOrder, NEW m \in Messages,
           AppendMessage(m) \/ BeginAppend(m) \/ CommitAppend(m)
    PROVE  InOrder'
<1>1. OrderedStamps /\ Grows /\ m \in Transcript
  BY AppendStep, OrderParts DEF Transcript
<1>2. AppendMessage(m)
  BY <1>1 DEF Orderly, BeginAppend, CommitAppend, OrderedStamps
<1>3. /\ clock' = clock + 1 /\ stamp' = [stamp EXCEPT ![m] = clock + 1] /\ stamp[m] = 0
      /\ visible' = visible \cup {m}
      /\ UNCHANGED <<session, sandboxVars, execVars, turnVars, workerVars, faultVars>>
  BY <1>2 DEF AppendMessage, Stamped
<1>4. LateComers
  BY <1>1, <1>3, Types, Parts DEF LateComers, OrderedStamps, TranscriptOK, Stamps
<1>5. Heard \subseteq Heard'
  BY <1>1, <1>3, Parts, HeardGrows DEF turnVars
<1>6. AskedHeard' /\ AskedKept
  BY <1>1, <1>3, <1>5, AskedStep DEF execVars, Grows
<1> QED BY <1>1, <1>3, <1>4, <1>5, <1>6, OrderKept

LEMMA ExecutionsInOrder ==
    ASSUME TypeOK, Placed, InOrder, NEW e \in Executions,
           EnqueueExecution(e) \/ RecoverStaleRunning(e)
    PROVE  InOrder'
<1>1. Grows /\ LateComers /\ UNCHANGED <<session, workerVars, turnVars, transcriptVars, durable>>
  <2>1. UNCHANGED <<session, workerVars, turnVars, transcriptVars, durable>>
    BY DEF EnqueueExecution, RecoverStaleRunning
  <2> QED BY <2>1, EnqueueStep, RecoverStep, LateComersNone, OrderParts
<1>2. Heard \subseteq Heard'
  BY <1>1, Parts, HeardGrows DEF turnVars
<1>3. AskedKept
  BY Types DEF AskedKept, EnqueueExecution, RecoverStaleRunning, ExecutionsOK
<1>4. AskedHeard'
  <2>1. AskedHeard /\ RowsPlaced
    BY OrderParts, Parts
  <2>2. CASE RecoverStaleRunning(e)
    BY <1>1, <1>2, <2>1, <2>2, Types DEF AskedHeard, RecoverStaleRunning, ExecutionsOK, transcriptVars
  <2>3. CASE EnqueueExecution(e)
    <3>1. /\ status[e] = "none" /\ status' = [status EXCEPT ![e] = "queued"]
          /\ asked' = [asked EXCEPT ![e] = visible] /\ durable[e] = None /\ durable' = durable
          /\ visible' = visible
      BY <1>1, <2>1, <2>3 DEF EnqueueExecution, RowsPlaced, transcriptVars
    <3> QED BY <1>2, <2>1, <3>1, Types DEF AskedHeard, ExecutionsOK
  <2> QED BY <2>2, <2>3
<1> QED BY <1>1, <1>2, <1>3, <1>4, OrderKept

LEMMA SandboxInOrder ==
    ASSUME TypeOK, Placed, InOrder, HarnessEndsTurn \/ SandboxDies
    PROVE  InOrder'
<1>1. Grows /\ LateComers /\ UNCHANGED <<session, workerVars, turnVars, transcriptVars, execVars>>
  BY SandboxStep, LateComersNone, OrderParts
<1>2. Heard \subseteq Heard'
  BY <1>1, Parts, HeardGrows DEF turnVars
<1>3. AskedHeard' /\ AskedKept
  BY <1>1, <1>2, AskedStep DEF execVars, Grows
<1> QED BY <1>1, <1>2, <1>3, OrderKept

\* A worker step that leaves the transcript and the turns alone, and what it asks of the rest.
LEMMA QuietStep ==
    ASSUME TypeOK, Placed, InOrder, Grows, NEW w \in Workers,
           \A v \in Workers \ {w} : Same(v),
           UNCHANGED <<transcriptVars, turnVars, asked>>,
           \A e \in Executions :
              /\ durable'[e] # None => durable[e] # None \/ asked[e] \subseteq Heard
              /\ status'[e] = "completed" => status[e] = "completed" \/ asked[e] \subseteq Heard,
           \/ CursorOf(session)' = CursorOf(session)
           \/ CursorOf(session)' = None
           \/ CursorOf(session)' = carry[w].cursor
           \/ Covers(CursorOf(session)'),
           \/ carry'[w].cursor = carry[w].cursor
           \/ carry'[w].cursor = None
           \/ carry'[w].cursor = CursorOf(session),
           DueOK(w)'
    PROVE  InOrder'
<1>1. LateComers /\ Heard \subseteq Heard'
  BY LateComersNone, OrderParts, Parts, HeardGrows DEF turnVars
<1>2. AskedHeard' /\ AskedKept
  BY <1>1, AskedStep DEF Grows
<1>3. /\ Covers(CursorOf(session)) /\ Covers(carry[w].cursor) /\ Covers(None)
      /\ CursorOf(session) \in visible \cup {None} /\ carry[w].cursor \in visible \cup {None}
  BY OrderParts, Parts DEF CursorsCover, RowPlaced, WorkPlaced, Covers
<1>4. PICK c, d : c = CursorOf(session)' /\ d = carry'[w].cursor
  OBVIOUS
<1>5. Covers(c) /\ Covers(d)
  BY <1>3, <1>4
<1>6. Heard' = Heard /\ visible' = visible /\ stamp' = stamp
  BY HeardIs, HeardPrimed DEF turnVars, transcriptVars, Heard
<1>7. Covers(c)' /\ Covers(d)'
  BY <1>5, <1>6 DEF Covers
<1>8. Covers(CursorOf(session))' /\ Covers(carry[w].cursor)'
  BY <1>4, <1>7 DEF Covers
<1> QED BY <1>1, <1>2, <1>8, OrderMoved

LEMMA HeardSame ==
    ASSUME UNCHANGED turnVars
    PROVE  Heard' = Heard
BY DEF Heard, turnVars

LEMMA ClaimInOrder ==
    ASSUME TypeOK, Placed, InOrder, NEW w \in Workers, NEW e \in Executions, ClaimNextExecution(w, e)
    PROVE  InOrder'
<1>1. /\ Grows /\ \A v \in Workers \ {w} : Same(v)
      /\ pc'[w] = "acquire" /\ carry'[w] = carry[w]
  BY ClaimStep
<1>2. UNCHANGED <<transcriptVars, session, turnVars, asked, durable>>
  BY DEF ClaimNextExecution
<1>3. \A f \in Executions : status'[f] = "completed" => status[f] = "completed"
  BY Types DEF ClaimNextExecution, ExecutionsOK
<1>4. DueOK(w)'
  BY <1>1 DEF DueOK
<1> QED BY <1>1, <1>2, <1>3, <1>4, QuietStep DEF CursorOf

LEMMA SpawnInOrder ==
    ASSUME TypeOK, Placed, InOrder, NEW w \in Workers,
           ReuseSession(w) \/ DropSession(w) \/ InsertSession(w)
    PROVE  InOrder'
<1>1. /\ Grows /\ \A v \in Workers \ {w} : Same(v)
      /\ exec'[w] = exec[w]
      /\ pc'[w] \in {"prepare", "resume", "spawn"}
      /\ pc'[w] = "resume" => durable[exec[w]] # None
  BY ReuseStep, DropStep, InsertStep
<1>2. UNCHANGED <<transcriptVars, turnVars, execVars>>
  BY DEF ReuseSession, DropSession, InsertSession
<1>3. /\ CursorOf(session)' \in {CursorOf(session), None, carry[w].cursor}
      /\ carry'[w].cursor \in {carry[w].cursor, None, CursorOf(session)}
  <2>1. CASE ReuseSession(w)
    BY <2>1, ReuseStep DEF ReuseSession, CursorOf
  <2>2. CASE DropSession(w)
    BY <2>2, DropStep DEF CursorOf
  <2>3. CASE InsertSession(w)
    <3>1. carry[w] # None
      BY Types, Rows DEF WorkersOK
    <3> QED BY <2>3, <3>1, InsertStep, BlankRow DEF CursorOf
  <2> QED BY <2>1, <2>2, <2>3
<1>4. StageOK(w) /\ pc[w] # "idle"
  BY Parts DEF WorkPlaced, ReuseSession, DropSession, InsertSession
<1>5. pc'[w] = "resume" => asked'[exec[w]] \subseteq Heard'
  BY <1>1, <1>2, <1>4, HeardSame, OrderParts DEF AskedHeard, StageOK, execVars
<1>6. DueOK(w)'
  BY <1>1, <1>5 DEF DueOK
<1> QED BY <1>1, <1>2, <1>3, <1>6, QuietStep DEF execVars

\* What a flush leaves out was heard.
LEMMA FlushCovers ==
    ASSUME TypeOK, Placed, InOrder, NEW P, P = Pending(CursorOf(session))
    PROVE  GapFree(P) /\ visible \subseteq Heard \cup P
<1>1. PICK c : c = CursorOf(session)
  OBVIOUS
<1>2. Covers(c) /\ c \in visible \cup {None}
  BY <1>1, OrderParts, Parts DEF CursorsCover, RowPlaced
<1>3. visible \subseteq Heard \cup P
  <2> SUFFICES ASSUME NEW m \in visible, m \notin P PROVE m \in Heard
    OBVIOUS
  <2>1. c # None /\ ~(stamp[m] > stamp[c])
    BY <1>1 DEF Pending
  <2>2. stamp[m] \in Nat /\ stamp[c] \in Nat
    BY <1>2, <2>1, Types DEF TranscriptOK
  <2> QED BY <1>2, <2>1, <2>2 DEF Covers
<1> QED BY <1>3 DEF GapFree

LEMMA FlushInOrder ==
    ASSUME TypeOK, Placed, InOrder, NEW w \in Workers, FlushPending(w)
    PROVE  InOrder'
<1>1. PICK P : P = Pending(CursorOf(session))
  OBVIOUS
<1>2. /\ Grows /\ \A v \in Workers \ {w} : Same(v)
      /\ exec'[w] = exec[w] /\ carry'[w] = carry[w] /\ pc'[w] = "mark" /\ batch'[w] = P
  BY <1>1, FlushStep
<1>3. UNCHANGED <<transcriptVars, session, turnVars, execVars>> /\ pc[w] = "flush"
  BY DEF FlushPending
<1>4. GapFree(P) /\ visible \subseteq Heard \cup P
  BY <1>1, FlushCovers
<1>5. exec[w] \in Executions /\ asked[exec[w]] \subseteq visible
  BY <1>3, OrderParts, Parts DEF WorkPlaced, StageOK, AskedHeard
<1>6. Heard' = Heard /\ visible' = visible /\ stamp' = stamp /\ asked' = asked
  BY <1>3, HeardSame DEF transcriptVars, execVars
<1>7. GapFree(batch[w])'
  BY <1>2, <1>4, <1>6 DEF GapFree
<1>8. DueOK(w)'
  BY <1>2, <1>4, <1>5, <1>6, <1>7 DEF DueOK
<1> QED BY <1>2, <1>3, <1>8, QuietStep DEF execVars, CursorOf

LEMMA AdvanceInOrder ==
    ASSUME TypeOK, Placed, InOrder, NEW w \in Workers, AdvanceCursor(w)
    PROVE  InOrder'
<1>1. PICK c, B : c = Newest(batch[w]) /\ B = batch[w]
  OBVIOUS
<1>2. /\ Grows /\ \A v \in Workers \ {w} : Same(v)
      /\ exec'[w] = exec[w] /\ carry'[w] = carry[w] /\ pc'[w] = "record"
      /\ c \in B /\ CursorOf(session)' = IF session = None THEN None ELSE c
  BY <1>1, AdvanceStep
<1>3. UNCHANGED <<transcriptVars, turnVars, execVars>> /\ pc[w] = "advance"
  BY DEF AdvanceCursor
<1>4. GapFree(B) /\ B \subseteq Heard /\ asked[exec[w]] \subseteq Heard
  BY <1>1, <1>3, OrderParts DEF DueOK
<1>5. Covers(c)
  BY <1>2, <1>4 DEF Covers, GapFree
<1>6. DueOK(w)'
  BY <1>2, <1>3, <1>4, HeardSame DEF DueOK, execVars
<1>7. CursorOf(session)' = None \/ Covers(CursorOf(session)')
  BY <1>2, <1>5
<1> QED BY <1>2, <1>3, <1>6, <1>7, QuietStep DEF execVars

LEMMA RecordInOrder ==
    ASSUME TypeOK, Placed, InOrder, NEW w \in Workers, RecordTurn(w)
    PROVE  InOrder'
<1>1. /\ Grows /\ \A v \in Workers \ {w} : Same(v)
      /\ exec'[w] = exec[w] /\ carry'[w] = carry[w] /\ pc'[w] = "stream"
      /\ \A e \in Executions \ {exec[w]} : durable'[e] = durable[e]
  BY RecordTurnStep
<1>2. UNCHANGED <<transcriptVars, session, status, asked, turnVars>> /\ pc[w] = "record"
  BY DEF RecordTurn
<1>3. asked[exec[w]] \subseteq Heard
  BY <1>2, OrderParts DEF DueOK
<1>4. DueOK(w)'
  BY <1>1, <1>2, <1>3, HeardSame DEF DueOK
<1>5. \A e \in Executions : durable'[e] # None => durable[e] # None \/ asked[e] \subseteq Heard
  BY <1>1, <1>3
<1> QED BY <1>1, <1>2, <1>4, <1>5, QuietStep DEF CursorOf

LEMMA ListenInOrder ==
    ASSUME TypeOK, Placed, InOrder, Grows, NEW w \in Workers, Listens(w)
    PROVE  InOrder'
<1>1. asked[exec[w]] \subseteq Heard
  BY OrderParts DEF DueOK, Listens
<1>2. DueOK(w)'
  BY <1>1, HeardSame DEF DueOK, Listens, execVars
<1> QED BY <1>2, QuietStep DEF Listens, execVars

LEMMA LeaveInOrder ==
    ASSUME TypeOK, Placed, InOrder, Grows, NEW w \in Workers, Leaves(w)
    PROVE  InOrder'
<1>1. Finishes(w) => exec[w] \in Executions /\ asked[exec[w]] \subseteq Heard
  <2>1. CASE pc[w] \in {"resume", "stream", "done"}
    BY <2>1, OrderParts, Parts DEF DueOK, WorkPlaced, StageOK
  <2>2. CASE pc[w] = "flush" /\ Pending(CursorOf(session)) = {}
    <3>1. exec[w] \in Executions /\ asked[exec[w]] \subseteq visible
      BY <2>2, OrderParts, Parts DEF AskedHeard, WorkPlaced, StageOK
    <3>2. visible \subseteq Heard
      BY <2>2, FlushCovers
    <3> QED BY <3>1, <3>2
  <2> QED BY <2>1, <2>2 DEF Finishes
<1>2. DueOK(w)'
  BY DEF DueOK, Leaves
<1>3. \A e \in Executions :
         /\ durable'[e] # None => durable[e] # None
         /\ status'[e] = "completed" => status[e] = "completed" \/ asked[e] \subseteq Heard
  BY <1>1 DEF Leaves
<1>4. CursorOf(session)' = CursorOf(session) /\ carry'[w].cursor = None
  BY BlankRow DEF Leaves, CursorOf
<1> QED BY <1>2, <1>3, <1>4, QuietStep DEF Leaves

LEMMA RequeueInOrder ==
    ASSUME TypeOK, Placed, InOrder, NEW w \in Workers, RequeueAfterAuthFailure(w),
           status[exec[w]] = "running"
    PROVE  InOrder'
<1>1. /\ Grows /\ \A v \in Workers \ {w} : Same(v)
      /\ exec'[w] = exec[w] /\ carry'[w] = carry[w] /\ pc'[w] = "rewind"
      /\ \A e \in Executions : /\ durable'[e] \in {None, durable[e]}
                               /\ status'[e] = "completed" => status[e] = "completed"
  BY RequeueStep
<1>2. UNCHANGED <<transcriptVars, session, asked, turnVars>> /\ pc[w] = "done"
  BY DEF RequeueAfterAuthFailure
<1>3. DueOK(w)'
  BY <1>1, <1>2, HeardSame, OrderParts DEF DueOK
<1> QED BY <1>1, <1>2, <1>3, QuietStep DEF CursorOf

LEMMA ForgetInOrder ==
    ASSUME TypeOK, Placed, InOrder, NEW w \in Workers, RewindCursor(w) \/ ThreadResumeFailed(w)
    PROVE  InOrder'
<1>1. /\ Grows /\ \A v \in Workers \ {w} : Same(v)
      /\ Same(w) \/ (pc'[w] = "idle" /\ carry'[w] = Blank)
      /\ CursorOf(session)' = None
      /\ UNCHANGED <<transcriptVars, execVars, turnVars>>
  BY ForgetStep
<1>2. DueOK(w)'
  <2>1. CASE Same(w)
    <3>1. LateComers /\ Heard \subseteq Heard' /\ AskedKept /\ DueOK(w)
      BY <1>1, LateComersNone, HeardSame, OrderParts DEF AskedKept, execVars
    <3> QED BY <2>1, <3>1, DueKept
  <2>2. CASE pc'[w] = "idle"
    BY <2>2 DEF DueOK
  <2> QED BY <1>1, <2>1, <2>2
<1>3. carry'[w].cursor \in {carry[w].cursor, None}
  BY <1>1, BlankRow DEF Same
<1> QED BY <1>1, <1>2, <1>3, QuietStep DEF execVars

LEMMA ContextInOrder ==
    ASSUME TypeOK, Placed, Orderly, InOrder, NEW w \in Workers, InsertSystemMessage(w)
    PROVE  InOrder'
<1>1. /\ Grows /\ \A v \in Workers \ {w} : Same(v)
      /\ exec'[w] = exec[w] /\ carry'[w] = carry[w] /\ pc'[w] = "flush"
  BY ContextStep
<1>2. UNCHANGED <<session, execVars, turnVars>>
  BY DEF InsertSystemMessage
<1>3. OrderedStamps /\ Sys \in Transcript
  BY OrderParts DEF Transcript
<1>4. LateComers
  <2>1. CASE UNCHANGED transcriptVars
    BY <1>3, <2>1, LateComersNone
  <2>2. CASE stamp[Sys] = 0 /\ Stamped(Sys) /\ visible' = visible \cup {Sys}
    BY <1>3, <2>2, Types, Parts DEF LateComers, OrderedStamps, TranscriptOK, Stamps, Stamped
  <2> QED BY <2>1, <2>2 DEF InsertSystemMessage, Orderly
<1>5. Heard \subseteq Heard'
  BY <1>2, HeardSame
<1>6. AskedHeard' /\ AskedKept
  BY <1>1, <1>2, <1>5, AskedStep DEF execVars, Grows
<1>7. PICK d : d = carry[w].cursor
  OBVIOUS
<1>8. Covers(d)' /\ Covers(CursorOf(session)) /\ CursorOf(session) \in visible \cup {None}
  BY <1>4, <1>5, <1>7, StillCovers, OrderParts, Parts DEF CursorsCover, WorkPlaced, RowPlaced
<1>9. Covers(carry[w].cursor)'
  BY <1>1, <1>7, <1>8 DEF Covers
<1>10. Covers(CursorOf(session))'
  BY <1>2, <1>4, <1>5, <1>8, CursorStill DEF CursorOf
<1>11. DueOK(w)'
  BY <1>1 DEF DueOK
<1> QED BY <1>1, <1>4, <1>5, <1>6, <1>9, <1>10, <1>11, OrderMoved

\* A turn is made; a turn is written.
LEMMA TurnInOrder ==
    ASSUME TypeOK, Placed, InOrder, NEW w \in Workers, SetInflightTurn(w) \/ WriteStdin(w)
    PROVE  InOrder'
<1>1. /\ Grows /\ \A v \in Workers \ {w} : Same(v)
      /\ exec'[w] = exec[w] /\ carry'[w] = carry[w] /\ batch'[w] = batch[w]
      /\ pc'[w] \in {"write", "advance"}
      /\ CursorOf(session)' = CursorOf(session)
  BY MarkStep, WriteStep DEF WriteStdin, CursorOf
<1>2. /\ UNCHANGED <<transcriptVars, execVars>>
      /\ written \subseteq written' /\ pc[w] \in {"mark", "write"}
  BY WriteStep DEF SetInflightTurn, WriteStdin
<1>3. LateComers /\ Heard \subseteq Heard'
  BY <1>1, <1>2, LateComersNone, OrderParts, Parts, HeardGrows
<1>4. AskedHeard' /\ AskedKept
  BY <1>2, <1>3, AskedStep DEF execVars, transcriptVars
<1>5. PICK B, d : B = batch[w] /\ d = carry[w].cursor
  OBVIOUS
<1>6. /\ GapFree(B) /\ B \in SUBSET visible /\ asked[exec[w]] \subseteq Heard \cup B
      /\ Covers(d) /\ d \in visible \cup {None}
      /\ Covers(CursorOf(session)) /\ CursorOf(session) \in visible \cup {None}
  BY <1>2, <1>5, OrderParts, Parts DEF DueOK, WorkPlaced, StageOK, CursorsCover, RowPlaced
<1>7. GapFree(B)' /\ Covers(d)'
  BY <1>3, <1>6, StillGapFree, StillCovers
<1>8. GapFree(batch[w])' /\ Covers(carry[w].cursor)'
  BY <1>1, <1>5, <1>7 DEF GapFree, Covers
<1>9. Covers(CursorOf(session))'
  BY <1>1, <1>3, <1>6, CursorStill
<1>10. pc'[w] = "advance" => B \subseteq Heard'
  <2> SUFFICES ASSUME pc'[w] = "advance" PROVE B \subseteq Heard'
    OBVIOUS
  <2>1. WriteStdin(w)
    BY MarkStep
  <2>2. turn[w] \in written' /\ contents'[turn[w]] = B
    BY <1>5, <2>1, WriteStep DEF WriteStdin
  <2> QED BY <2>2, HeardPrimed
<1>11. DueOK(w)'
  BY <1>1, <1>2, <1>3, <1>5, <1>6, <1>8, <1>10 DEF DueOK, execVars
<1> QED BY <1>1, <1>3, <1>4, <1>8, <1>9, <1>11, OrderMoved

-----------------------------------------------------------------------------
(* The steps together. *)

\* What the steps of a worker are, by what they do.
WorkerMove(w) ==
    \/ \E e \in Executions : ClaimNextExecution(w, e)
    \/ ReuseSession(w) \/ DropSession(w) \/ InsertSession(w)
    \/ InsertSystemMessage(w) \/ FlushPending(w) \/ SetInflightTurn(w) \/ WriteStdin(w)
    \/ AdvanceCursor(w) \/ RecordTurn(w)
    \/ ResumeTurn(w) \/ AttachStdout(w) \/ CompleteInflightTurn(w)
    \/ RequeueAfterAuthFailure(w) /\ status[exec[w]] = "running"
    \/ RewindCursor(w) \/ ThreadResumeFailed(w)
    \/ LeaveAction(w)

LEMMA WorkerMoves == ASSUME NEW w, WorkerStep(w) PROVE WorkerMove(w)
BY DEF WorkerStep, WorkerMove, LeaveAction

\* Types and places are kept by every step.
LEMMA PlacedStep ==
    ASSUME TypeOK, Placed, [Next]_vars
    PROVE  TypeOK' /\ Placed'
<1>1. ASSUME NEW m \in Messages, AppendMessage(m) \/ BeginAppend(m) \/ CommitAppend(m)
      PROVE  TypeOK' /\ Placed'
  BY <1>1, AppendStep
<1>2. ASSUME NEW e \in Executions, EnqueueExecution(e) \/ RecoverStaleRunning(e)
      PROVE  TypeOK' /\ Placed'
  BY <1>2, EnqueueStep, RecoverStep
<1>3. ASSUME NEW w \in Workers, WorkerStep(w)
      PROVE  TypeOK' /\ Placed'
  <2>1. WorkerMove(w)
    BY <1>3, WorkerMoves
  <2> QED BY <2>1, ClaimStep, ReuseStep, DropStep, InsertStep, ContextStep, FlushStep, MarkStep,
             WriteStep, AdvanceStep, RecordTurnStep, ListenStep, RequeueStep, ForgetStep, LeaveStep
          DEF WorkerMove
<1>4. CASE HarnessEndsTurn \/ SandboxDies
  BY <1>4, SandboxStep
<1>5. CASE UNCHANGED vars
  <2>1. UNCHANGED <<transcriptVars, session, sandboxVars, execVars, turnVars, workerVars, faultVars>>
    BY <1>5 DEF vars
  <2>2. TypeOK'
    BY <2>1, Types, TypesPrimed, TypesKept DEF turnVars
  <2>3. Placed'
    BY <2>1 DEF Placed, StageOK, CursorOf, transcriptVars, sandboxVars, execVars, turnVars, workerVars
  <2> QED BY <2>2, <2>3
<1> QED BY <1>1, <1>2, <1>3, <1>4, <1>5 DEF Next

LEMMA WorldKept == [Next]_vars => UNCHANGED world
BY DEF Next, vars, faultVars, AppendMessage, BeginAppend, CommitAppend, EnqueueExecution,
   RecoverStaleRunning, WorkerStep, ClaimNextExecution, ReuseSession, DropSession, InsertSession,
   InsertSystemMessage, FlushPending, NoInput, FinalizeAndLeave, SetInflightTurn, WriteStdin,
   SandboxExited, AdvanceCursor, RecordTurn, ResumeCompleted, Finalize, ResumeTurn, AttachStdout, CompleteInflightTurn, TurnDone,
   TurnFailed, RequeueAfterAuthFailure, RewindCursor, ThreadResumeFailed, GiveUp, FailAndStop,
   GiveUpAndLeave, StreamEnded, Crash, HarnessEndsTurn, SandboxDies

LEMMA InOrderStep ==
    ASSUME TypeOK, Placed, Orderly, InOrder, [Next]_vars
    PROVE  InOrder'
<1>1. ASSUME NEW m \in Messages, AppendMessage(m) \/ BeginAppend(m) \/ CommitAppend(m)
      PROVE  InOrder'
  BY <1>1, AppendInOrder
<1>2. ASSUME NEW e \in Executions, EnqueueExecution(e) \/ RecoverStaleRunning(e)
      PROVE  InOrder'
  BY <1>2, ExecutionsInOrder
<1>3. ASSUME NEW w \in Workers, WorkerStep(w)
      PROVE  InOrder'
  <2>1. WorkerMove(w)
    BY <1>3, WorkerMoves
  <2>2. CASE LeaveAction(w)
    BY <2>2, LeaveStep, LeaveInOrder
  <2>3. CASE ResumeTurn(w) \/ AttachStdout(w) \/ CompleteInflightTurn(w)
    BY <2>3, ListenStep, ListenInOrder
  <2> QED BY <2>1, <2>2, <2>3, ClaimInOrder, SpawnInOrder, ContextInOrder, FlushInOrder, TurnInOrder,
             AdvanceInOrder, RecordInOrder, RequeueInOrder, ForgetInOrder
          DEF WorkerMove
<1>4. CASE HarnessEndsTurn \/ SandboxDies
  BY <1>4, SandboxInOrder
<1>5. CASE UNCHANGED vars
  <2>1. UNCHANGED <<transcriptVars, session, execVars, turnVars, workerVars>>
    BY <1>5 DEF vars
  <2>2. Grows
    BY <2>1, TurnsMade DEF Grows, transcriptVars, execVars, turnVars
  <2>3. LateComers /\ Heard \subseteq Heard'
    BY <2>1, LateComersNone, HeardSame, OrderParts
  <2>4. AskedHeard' /\ AskedKept
    BY <2>1, <2>3, AskedStep DEF execVars, transcriptVars
  <2> QED BY <2>1, <2>2, <2>3, <2>4, OrderKept
<1> QED BY <1>1, <1>2, <1>3, <1>4, <1>5 DEF Next

-----------------------------------------------------------------------------
(* While nobody forgets. *)

Remembers(w) ==
    /\ pc[w] # "rewind"
    /\ pc[w] = "spawn" => session = None
    /\ pc[w] \notin {"idle", "acquire", "spawn"} => session # None
    /\ pc[w] \in {"mark", "write", "advance"} =>
          \A n \in batch[w] : ~Behind(CursorOf(session), n)

NoRepeats == \A t, u \in written : t # u => contents[t] \cap contents[u] \cap Messages = {}

\* PastHeard when nobody but w may be busy.
PastFor(w) ==
    \A m \in Heard \cap Messages :
        \/ Behind(CursorOf(session), m)
        \/ pc[w] = "spawn" /\ Behind(carry[w].cursor, m)
        \/ pc[w] = "advance" /\ m \in batch[w]

LEMMA RememberedParts ==
    Remembered <=> Alone /\ (\A w \in Workers : Remembers(w)) /\ PastHeard /\ NoRepeats
BY DEF Remembered, Remembers, NoRepeats

LEMMA RememberedPrimed ==
    Remembered' <=> Alone' /\ (\A w \in Workers : Remembers(w)') /\ PastHeard' /\ NoRepeats'
BY DEF Remembered, Remembers, NoRepeats

\* What is visible keeps its stamp, but the context message may get a later one.
StampsGrow ==
    /\ \A m \in visible \cap Messages : stamp'[m] = stamp[m]
    /\ \A c \in visible : stamp[c] <= stamp'[c]

LEMMA StillBehind ==
    ASSUME TranscriptOK, TranscriptOK', StampsGrow, NEW c \in visible \cup {None},
           NEW m \in visible \cap Messages, Behind(c, m)
    PROVE  Behind(c, m)'
BY DEF Behind, StampsGrow, TranscriptOK, Transcript

LEMMA StampsSame ==
    ASSUME TranscriptOK, UNCHANGED transcriptVars
    PROVE  StampsGrow
BY DEF StampsGrow, TranscriptOK, Transcript, transcriptVars

LEMMA RepeatsKept ==
    ASSUME NoRepeats, TurnsPlaced, Grows, UNCHANGED written
    PROVE  NoRepeats'
BY DEF NoRepeats, TurnsPlaced, Grows

LEMMA HeardKept ==
    ASSUME TurnsPlaced, Grows, UNCHANGED written
    PROVE  Heard' = Heard
<1>1. \A m : m \in Heard' <=> m \in Heard
  BY HeardIs, HeardPrimed DEF TurnsPlaced, Grows
<1> QED BY <1>1

\* The invariant after a step of nobody, and after a step of the one that is busy.
LEMMA RememberedKept ==
    ASSUME TypeOK, TypeOK', Placed, Remembered, Grows,
           UNCHANGED <<session, turnVars, workerVars>>,
           \A m \in visible : stamp'[m] = stamp[m],
           \A w \in Workers : pc[w] # "idle" => status'[exec[w]] = "running"
    PROVE  Remembered'
<1>1. Alone'
  BY RememberedParts DEF Alone, workerVars
<1>2. /\ CursorOf(session) \in visible \cup {None} /\ Heard \subseteq visible
      /\ \A w \in Workers : carry[w].cursor \in visible \cup {None}
  BY Parts, Types, HeardVisible DEF RowPlaced, WorkPlaced
<1>3. \A c \in visible \cup {None}, m \in visible : Behind(c, m)' <=> Behind(c, m)
  BY DEF Behind
<1>4. ASSUME NEW w \in Workers
      PROVE  Remembers(w)'
  <2>1. Remembers(w) /\ StageOK(w)
    BY RememberedParts, Parts DEF WorkPlaced
  <2>2. PICK c : c = CursorOf(session)
    OBVIOUS
  <2>3. CursorOf(session)' = c
    BY <2>2 DEF CursorOf
  <2>4. pc[w] \in {"mark", "write", "advance"} => \A n \in batch[w] : ~Behind(c, n)'
    BY <1>2, <1>3, <2>1, <2>2 DEF Remembers, StageOK
  <2>5. pc'[w] \in {"mark", "write", "advance"} => \A n \in batch'[w] : ~Behind(CursorOf(session), n)'
    BY <2>3, <2>4 DEF Behind, workerVars
  <2> QED BY <2>1, <2>5 DEF Remembers, workerVars
<1>5. PastHeard'
  <2> SUFFICES ASSUME NEW m \in Heard' \cap Messages
               PROVE  \/ Behind(CursorOf(session), m)'
                      \/ \E w \in Workers : pc'[w] = "spawn" /\ Behind(carry[w].cursor, m)'
                      \/ \E w \in Workers : pc'[w] = "advance" /\ m \in batch'[w]
    BY DEF PastHeard
  <2>1. m \in Heard \cap Messages /\ m \in visible
    BY <1>2, HeardSame
  <2>2. CASE Behind(CursorOf(session), m)
    <3>1. PICK c : c = CursorOf(session)
      OBVIOUS
    <3>2. Behind(c, m)'
      BY <1>2, <1>3, <2>1, <2>2, <3>1
    <3> QED BY <3>1, <3>2 DEF Behind, CursorOf
  <2>3. ASSUME NEW w \in Workers, pc[w] = "spawn", Behind(carry[w].cursor, m)
        PROVE  pc'[w] = "spawn" /\ Behind(carry[w].cursor, m)'
    <3>1. PICK c : c = carry[w].cursor
      OBVIOUS
    <3>2. Behind(c, m)'
      BY <1>2, <1>3, <2>1, <2>3, <3>1
    <3> QED BY <2>3, <3>1, <3>2 DEF Behind, workerVars
  <2>4. ASSUME NEW w \in Workers, pc[w] = "advance", m \in batch[w]
        PROVE  pc'[w] = "advance" /\ m \in batch'[w]
    BY <2>4 DEF workerVars
  <2> QED BY <2>1, <2>2, <2>3, <2>4, RememberedParts DEF PastHeard
<1>6. NoRepeats'
  BY RememberedParts, RepeatsKept, Parts DEF turnVars
<1> QED BY <1>1, <1>4, <1>5, <1>6, RememberedPrimed

LEMMA RememberedMoved ==
    ASSUME Remembered, NEW w \in Workers,
           \A v \in Workers \ {w} : Same(v) /\ pc[v] = "idle",
           pc'[w] = "idle" \/ status'[exec'[w]] = "running",
           Remembers(w)', PastFor(w)', NoRepeats'
    PROVE  Remembered'
<1>1. \A v \in Workers \ {w} : pc'[v] = "idle"
  BY DEF Same
<1>2. Alone'
  BY <1>1 DEF Alone
<1>3. \A v \in Workers : Remembers(v)'
  BY <1>1 DEF Remembers
<1>4. PastHeard'
  BY DEF PastFor, PastHeard
<1> QED BY <1>2, <1>3, <1>4, RememberedPrimed

LEMMA Busy ==
    ASSUME Remembered, NEW w \in Workers, \A v \in Workers \ {w} : pc[v] = "idle"
    PROVE  PastFor(w) /\ Remembers(w) /\ (pc[w] # "idle" => status[exec[w]] = "running")
BY RememberedParts DEF PastHeard, PastFor, Alone

LEMMA OthersIdle ==
    ASSUME Remembered, NEW w \in Workers, pc[w] # "idle"
    PROVE  \A v \in Workers \ {w} : pc[v] = "idle"
BY RememberedParts DEF Alone

\* The cursor stays, and no turn is written.
LEMMA PastKept ==
    ASSUME TypeOK, TypeOK', Placed, Grows, StampsGrow, UNCHANGED written,
           NEW w \in Workers, PastFor(w), pc[w] \notin {"spawn", "advance"},
           CursorOf(session)' = CursorOf(session)
    PROVE  PastFor(w)'
<1>1. PICK c : c = CursorOf(session)
  OBVIOUS
<1>2. c \in visible \cup {None} /\ Heard \subseteq visible /\ Heard' = Heard
  BY <1>1, Parts, Types, HeardVisible, HeardKept DEF RowPlaced
<1>3. \A m \in Heard \cap Messages : Behind(c, m)
  BY <1>1 DEF PastFor
<1>4. \A m \in Heard' \cap Messages : Behind(c, m)'
  BY <1>2, <1>3, StillBehind, Types, TypesPrimed
<1>5. \A m \in Heard' \cap Messages : Behind(CursorOf(session), m)'
  BY <1>1, <1>4 DEF Behind
<1> QED BY <1>5 DEF PastFor

\* Steps of a busy worker that leave the transcript, the turns and the cursor alone.
LEMMA QuietRemembers ==
    ASSUME TypeOK, TypeOK', Placed, Remembered, Grows, NEW w \in Workers,
           \A v \in Workers \ {w} : Same(v) /\ pc[v] = "idle",
           pc'[w] = "idle" \/ status'[exec'[w]] = "running",
           UNCHANGED <<transcriptVars, written>>, pc[w] \notin {"spawn", "advance"},
           CursorOf(session)' = CursorOf(session),
           Remembers(w)'
    PROVE  Remembered'
<1>1. PastFor(w)'
  BY Busy, PastKept, StampsSame, Types
<1>2. NoRepeats'
  BY RememberedParts, RepeatsKept, Parts
<1> QED BY <1>1, <1>2, RememberedMoved

LEMMA OthersRemembered ==
    ASSUME TypeOK, Placed, Unforgetting, Remembered,
           \/ \E m \in Messages : AppendMessage(m) \/ BeginAppend(m) \/ CommitAppend(m)
           \/ \E e \in Executions : EnqueueExecution(e) \/ RecoverStaleRunning(e)
           \/ HarnessEndsTurn \/ SandboxDies
           \/ UNCHANGED vars
    PROVE  Remembered'
<1>1. \A w \in Workers : pc[w] # "idle" => status[exec[w]] = "running" /\ exec[w] \in Executions
  BY RememberedParts, Parts DEF Alone, WorkPlaced, StageOK
<1>2. ASSUME NEW m \in Messages, AppendMessage(m) \/ BeginAppend(m) \/ CommitAppend(m)
      PROVE  Remembered'
  <2>1. TypeOK' /\ Grows
    BY <1>2, AppendStep
  <2>2. UNCHANGED <<session, turnVars, workerVars, execVars>>
    BY <1>2 DEF AppendMessage, BeginAppend, CommitAppend
  <2>3. \A n \in visible : stamp'[n] = stamp[n]
    BY <1>2, Parts, Types DEF Stamps, TranscriptOK, AppendMessage, BeginAppend, CommitAppend, Stamped
  <2> QED BY <1>1, <2>1, <2>2, <2>3, RememberedKept DEF execVars
<1>3. ASSUME NEW e \in Executions, EnqueueExecution(e) \/ RecoverStaleRunning(e)
      PROVE  Remembered'
  <2>1. TypeOK' /\ Grows
    BY <1>3, EnqueueStep, RecoverStep
  <2>2. UNCHANGED <<session, turnVars, workerVars, transcriptVars>>
    BY <1>3 DEF EnqueueExecution, RecoverStaleRunning
  <2>3. /\ status[e] = "none" \/ \A w \in Workers : exec[w] # e
        /\ \A f \in Executions \ {e} : status'[f] = status[f]
    BY <1>3, Types DEF EnqueueExecution, RecoverStaleRunning, Unforgetting, ExecutionsOK
  <2>4. \A w \in Workers : pc[w] # "idle" => status'[exec[w]] = "running"
    BY <1>1, <2>3
  <2> QED BY <2>1, <2>2, <2>4, RememberedKept DEF transcriptVars
<1>4. CASE HarnessEndsTurn \/ SandboxDies
  <2>1. /\ TypeOK' /\ Grows
        /\ UNCHANGED <<transcriptVars, session, execVars, turnVars, workerVars>>
    BY <1>4, SandboxStep
  <2> QED BY <1>1, <2>1, RememberedKept DEF transcriptVars, execVars
<1>5. CASE UNCHANGED vars
  <2>1. UNCHANGED <<transcriptVars, session, execVars, turnVars, workerVars>>
    BY <1>5 DEF vars
  <2>2. TypeOK' /\ Grows
    BY <1>5, <2>1, PlacedStep, TurnsMade DEF Grows, transcriptVars, execVars, turnVars
  <2> QED BY <1>1, <2>1, <2>2, RememberedKept DEF transcriptVars, execVars
<1> QED BY <1>2, <1>3, <1>4, <1>5

LEMMA ClaimRemembered ==
    ASSUME TypeOK, Placed, Remembered, NEW w \in Workers, NEW e \in Executions, ClaimNextExecution(w, e)
    PROVE  Remembered'
<1>1. /\ TypeOK' /\ Grows /\ \A v \in Workers \ {w} : Same(v)
      /\ pc'[w] = "acquire" /\ exec'[w] = e /\ pc[w] = "idle"
  BY ClaimStep DEF ClaimNextExecution
<1>2. \A v \in Workers \ {w} : pc[v] = "idle"
  <2> SUFFICES ASSUME NEW v \in Workers \ {w}, pc[v] # "idle" PROVE FALSE
    OBVIOUS
  <2>1. status[exec[v]] = "running" /\ exec[v] \in Executions
    BY RememberedParts, Parts DEF Alone, WorkPlaced, StageOK
  <2> QED BY <2>1 DEF ClaimNextExecution, Candidate
<1>3. status'[e] = "running" /\ UNCHANGED <<transcriptVars, session, written>>
  BY Types DEF ClaimNextExecution, ExecutionsOK, turnVars
<1>4. Remembers(w)'
  BY <1>1 DEF Remembers
<1> QED BY <1>1, <1>2, <1>3, <1>4, QuietRemembers DEF CursorOf

LEMMA ReuseRemembered ==
    ASSUME TypeOK, Placed, Remembered, NEW w \in Workers, ReuseSession(w)
    PROVE  Remembered'
<1>1. /\ TypeOK' /\ Grows /\ \A v \in Workers \ {w} : Same(v)
      /\ exec'[w] = exec[w] /\ pc'[w] \in {"prepare", "resume"}
  BY ReuseStep
<1>2. /\ pc[w] = "acquire" /\ session # None
      /\ UNCHANGED <<transcriptVars, session, execVars, written>>
  BY DEF ReuseSession, turnVars
<1>3. (\A v \in Workers \ {w} : pc[v] = "idle") /\ status[exec[w]] = "running"
  BY <1>2, OthersIdle, Busy
<1>4. Remembers(w)'
  BY <1>1, <1>2 DEF Remembers
<1> QED BY <1>1, <1>2, <1>3, <1>4, QuietRemembers DEF CursorOf, execVars

LEMMA DropRemembered ==
    ASSUME TypeOK, Placed, Remembered, NEW w \in Workers, DropSession(w)
    PROVE  Remembered'
<1>1. /\ TypeOK' /\ Grows /\ \A v \in Workers \ {w} : Same(v)
      /\ exec'[w] = exec[w] /\ pc'[w] = "spawn" /\ session' = None
      /\ carry'[w].cursor = CursorOf(session)
  BY DropStep
<1>2. pc[w] = "acquire" /\ UNCHANGED <<transcriptVars, execVars, turnVars>>
  BY DEF DropSession
<1>3. (\A v \in Workers \ {w} : pc[v] = "idle") /\ status[exec[w]] = "running" /\ PastFor(w)
  BY <1>2, OthersIdle, Busy
<1>4. PICK c : c = CursorOf(session)
  OBVIOUS
<1>5. \A m \in Heard \cap Messages : Behind(c, m)
  BY <1>2, <1>3, <1>4 DEF PastFor
<1>6. \A m \in Heard' \cap Messages : Behind(carry[w].cursor, m)'
  BY <1>1, <1>2, <1>4, <1>5, HeardSame DEF Behind, transcriptVars
<1>7. PastFor(w)'
  BY <1>1, <1>6 DEF PastFor
<1>8. NoRepeats'
  BY <1>1, <1>2, RememberedParts, RepeatsKept, Parts DEF turnVars
<1>9. Remembers(w)'
  BY <1>1 DEF Remembers
<1> QED BY <1>1, <1>2, <1>3, <1>7, <1>8, <1>9, RememberedMoved DEF execVars

LEMMA InsertRemembered ==
    ASSUME TypeOK, Placed, Remembered, NEW w \in Workers, InsertSession(w)
    PROVE  Remembered'
<1>1. /\ TypeOK' /\ Grows /\ \A v \in Workers \ {w} : Same(v)
      /\ exec'[w] = exec[w] /\ pc'[w] \in {"prepare", "resume"}
      /\ session' = IF session = None THEN carry[w] ELSE session
  BY InsertStep
<1>2. pc[w] = "spawn" /\ UNCHANGED <<transcriptVars, execVars, turnVars>>
  BY DEF InsertSession
<1>3. /\ \A v \in Workers \ {w} : pc[v] = "idle"
      /\ status[exec[w]] = "running" /\ PastFor(w) /\ Remembers(w)
  BY <1>2, OthersIdle, Busy
<1>4. PICK c : c = carry[w].cursor
  OBVIOUS
<1>5. session = None /\ carry[w] # None
  BY <1>2, <1>3, Types, Rows DEF Remembers, WorkersOK
<1>6. session' # None /\ CursorOf(session)' = c
  BY <1>1, <1>4, <1>5 DEF CursorOf
<1>7. \A m \in Heard \cap Messages : Behind(c, m)
  BY <1>2, <1>3, <1>4, <1>5 DEF PastFor, Behind, CursorOf
<1>8. \A m \in Heard' \cap Messages : Behind(CursorOf(session), m)'
  BY <1>2, <1>6, <1>7, HeardSame DEF Behind, transcriptVars
<1>9. PastFor(w)'
  BY <1>8 DEF PastFor
<1>10. NoRepeats'
  BY <1>1, <1>2, RememberedParts, RepeatsKept, Parts DEF turnVars
<1>11. Remembers(w)'
  BY <1>1, <1>6 DEF Remembers
<1> QED BY <1>1, <1>2, <1>3, <1>9, <1>10, <1>11, RememberedMoved DEF execVars

LEMMA ContextRemembered ==
    ASSUME TypeOK, Placed, Remembered, NEW w \in Workers, InsertSystemMessage(w)
    PROVE  Remembered'
<1>1. /\ TypeOK' /\ Grows /\ \A v \in Workers \ {w} : Same(v)
      /\ exec'[w] = exec[w] /\ pc'[w] = "flush"
  BY ContextStep
<1>2. pc[w] = "prepare" /\ UNCHANGED <<session, execVars, turnVars>>
  BY DEF InsertSystemMessage
<1>3. /\ \A v \in Workers \ {w} : pc[v] = "idle"
      /\ status[exec[w]] = "running" /\ PastFor(w) /\ Remembers(w)
  BY <1>2, OthersIdle, Busy
<1>4. StampsGrow
  <2>1. CASE UNCHANGED transcriptVars
    BY <2>1, StampsSame, Types
  <2>2. CASE Stamped(Sys)
    BY <2>2, TurnAssumption, Types, Parts DEF StampsGrow, TranscriptOK, Transcript, Stamps, Stamped
  <2> QED BY <2>1, <2>2 DEF InsertSystemMessage
<1>5. PastFor(w)'
  BY <1>1, <1>2, <1>3, <1>4, PastKept DEF CursorOf, turnVars
<1>6. NoRepeats'
  BY <1>1, <1>2, RememberedParts, RepeatsKept, Parts DEF turnVars
<1>7. Remembers(w)'
  BY <1>1, <1>2, <1>3 DEF Remembers
<1> QED BY <1>1, <1>2, <1>3, <1>5, <1>6, <1>7, RememberedMoved DEF execVars

LEMMA FlushRemembered ==
    ASSUME TypeOK, Placed, Remembered, NEW w \in Workers, FlushPending(w)
    PROVE  Remembered'
<1>1. PICK c, P : c = CursorOf(session) /\ P = Pending(c)
  OBVIOUS
<1>2. /\ TypeOK' /\ Grows /\ \A v \in Workers \ {w} : Same(v)
      /\ exec'[w] = exec[w] /\ pc'[w] = "mark" /\ batch'[w] = P
  BY <1>1, FlushStep
<1>3. pc[w] = "flush" /\ UNCHANGED <<transcriptVars, session, execVars, turnVars>>
  BY DEF FlushPending
<1>4. (\A v \in Workers \ {w} : pc[v] = "idle") /\ status[exec[w]] = "running" /\ Remembers(w)
  BY <1>3, OthersIdle, Busy
<1>5. \A n \in P : ~Behind(c, n)
  <2>1. c \in Transcript \cup {None} /\ visible \subseteq Transcript
    BY <1>1, Parts, Types DEF RowPlaced, TranscriptOK
  <2> QED BY <1>1, <2>1, Types DEF Pending, Behind, TranscriptOK
<1>6. \A n \in batch'[w] : ~Behind(CursorOf(session), n)'
  BY <1>1, <1>2, <1>3, <1>5 DEF Behind, CursorOf, transcriptVars
<1>7. Remembers(w)'
  BY <1>2, <1>3, <1>4, <1>6 DEF Remembers
<1> QED BY <1>2, <1>3, <1>4, <1>7, QuietRemembers DEF CursorOf, execVars, turnVars

LEMMA MarkRemembered ==
    ASSUME TypeOK, Placed, Remembered, NEW w \in Workers, SetInflightTurn(w)
    PROVE  Remembered'
<1>1. /\ TypeOK' /\ Grows /\ \A v \in Workers \ {w} : Same(v)
      /\ exec'[w] = exec[w] /\ pc'[w] = "write" /\ batch'[w] = batch[w]
      /\ (session' = None <=> session = None) /\ CursorOf(session)' = CursorOf(session)
  BY MarkStep
<1>2. pc[w] = "mark" /\ UNCHANGED <<transcriptVars, execVars, written>>
  BY DEF SetInflightTurn
<1>3. (\A v \in Workers \ {w} : pc[v] = "idle") /\ status[exec[w]] = "running" /\ Remembers(w)
  BY <1>2, OthersIdle, Busy
<1>4. PICK c : c = CursorOf(session)
  OBVIOUS
<1>5. \A n \in batch'[w] : ~Behind(CursorOf(session), n)'
  BY <1>1, <1>2, <1>3, <1>4 DEF Behind, Remembers, transcriptVars
<1>6. Remembers(w)'
  BY <1>1, <1>2, <1>3, <1>5 DEF Remembers
<1> QED BY <1>1, <1>2, <1>3, <1>6, QuietRemembers DEF execVars

\* What was heard is behind the cursor, so the batch repeats none of it.
LEMMA WriteRemembered ==
    ASSUME TypeOK, Placed, Remembered, NEW w \in Workers, WriteStdin(w)
    PROVE  Remembered'
<1>1. PICK c, B, t : c = CursorOf(session) /\ B = batch[w] /\ t = turn[w]
  OBVIOUS
<1>2. /\ TypeOK' /\ Grows /\ \A v \in Workers \ {w} : Same(v)
      /\ exec'[w] = exec[w] /\ pc'[w] = "advance" /\ batch'[w] = B
      /\ written' = written \cup {t} /\ contents[t] = B
  BY <1>1, WriteStep
<1>3. pc[w] = "write" /\ UNCHANGED <<transcriptVars, session, execVars, contents>>
  BY DEF WriteStdin
<1>4. /\ \A v \in Workers \ {w} : pc[v] = "idle"
      /\ status[exec[w]] = "running" /\ PastFor(w) /\ Remembers(w)
  BY <1>3, OthersIdle, Busy
<1>5. (\A n \in B : ~Behind(c, n)) /\ \A m \in Heard \cap Messages : Behind(c, m)
  BY <1>1, <1>3, <1>4 DEF Remembers, PastFor
<1>6. \A u \in written : contents[u] \cap B \cap Messages = {}
  BY <1>5, HeardIs
<1>7. NoRepeats'
  BY <1>2, <1>3, <1>6, RememberedParts DEF NoRepeats
<1>8. \A m \in Heard' : m \in Heard \/ m \in B
  BY <1>2, <1>3, HeardIs, HeardPrimed
<1>9. \A m \in Heard' \cap Messages : Behind(CursorOf(session), m)' \/ m \in batch'[w]
  BY <1>1, <1>2, <1>3, <1>5, <1>8 DEF Behind, CursorOf, transcriptVars
<1>10. PastFor(w)'
  BY <1>2, <1>9 DEF PastFor
<1>11. \A n \in batch'[w] : ~Behind(CursorOf(session), n)'
  BY <1>1, <1>2, <1>3, <1>5 DEF Behind, CursorOf, transcriptVars
<1>12. Remembers(w)'
  BY <1>2, <1>3, <1>4, <1>11 DEF Remembers
<1> QED BY <1>2, <1>3, <1>4, <1>7, <1>10, <1>12, RememberedMoved DEF execVars

\* The cursor moves up to the last message of the batch.
LEMMA AdvanceRemembered ==
    ASSUME TypeOK, Placed, Remembered, NEW w \in Workers, AdvanceCursor(w)
    PROVE  Remembered'
<1>1. PICK c, d, B : c = CursorOf(session) /\ d = Newest(batch[w]) /\ B = batch[w]
  OBVIOUS
<1>2. /\ TypeOK' /\ Grows /\ \A v \in Workers \ {w} : Same(v)
      /\ exec'[w] = exec[w] /\ pc'[w] = "record"
      /\ d \in B /\ (\A n \in B : stamp[n] <= stamp[d])
      /\ (session' = None <=> session = None)
      /\ CursorOf(session)' = IF session = None THEN None ELSE d
  BY <1>1, AdvanceStep
<1>3. pc[w] = "advance" /\ UNCHANGED <<transcriptVars, execVars, turnVars>>
  BY DEF AdvanceCursor
<1>4. /\ \A v \in Workers \ {w} : pc[v] = "idle"
      /\ status[exec[w]] = "running" /\ PastFor(w) /\ Remembers(w)
  BY <1>3, OthersIdle, Busy
<1>5. session # None /\ \A n \in B : ~Behind(c, n)
  BY <1>1, <1>3, <1>4 DEF Remembers
<1>6. /\ c \in Transcript \cup {None} /\ d \in Transcript /\ d # None
      /\ Heard \subseteq Transcript /\ TranscriptOK
  <2>1. c \in visible \cup {None} /\ B \subseteq visible /\ Heard \subseteq visible /\ TranscriptOK
    BY <1>1, <1>3, HeardVisible, Parts, Types DEF RowPlaced, WorkPlaced, StageOK
  <2> QED BY <1>2, <2>1, TurnAssumption DEF TranscriptOK
<1>7. \A m \in Heard \cap Messages : Behind(c, m) \/ m \in B
  BY <1>1, <1>3, <1>4 DEF PastFor
<1>8. \A m \in Heard \cap Messages : Behind(d, m)
  BY <1>2, <1>5, <1>6, <1>7 DEF Behind, TranscriptOK
<1>9. \A m \in Heard' \cap Messages : Behind(CursorOf(session), m)'
  BY <1>2, <1>3, <1>5, <1>8, HeardSame DEF Behind, transcriptVars
<1>10. PastFor(w)'
  BY <1>9 DEF PastFor
<1>11. NoRepeats'
  BY <1>2, <1>3, RememberedParts, RepeatsKept, Parts DEF turnVars
<1>12. Remembers(w)'
  BY <1>2, <1>5 DEF Remembers
<1> QED BY <1>2, <1>3, <1>4, <1>10, <1>11, <1>12, RememberedMoved DEF execVars

LEMMA RecordRemembered ==
    ASSUME TypeOK, Placed, Remembered, NEW w \in Workers, RecordTurn(w)
    PROVE  Remembered'
<1>1. /\ TypeOK' /\ Grows /\ \A v \in Workers \ {w} : Same(v)
      /\ exec'[w] = exec[w] /\ pc'[w] = "stream"
  BY RecordTurnStep
<1>2. pc[w] = "record" /\ UNCHANGED <<transcriptVars, session, status, turnVars>>
  BY DEF RecordTurn
<1>3. (\A v \in Workers \ {w} : pc[v] = "idle") /\ status[exec[w]] = "running" /\ Remembers(w)
  BY <1>2, OthersIdle, Busy
<1>4. Remembers(w)'
  BY <1>1, <1>2, <1>3 DEF Remembers
<1> QED BY <1>1, <1>2, <1>3, <1>4, QuietRemembers DEF CursorOf, turnVars

LEMMA ListenRemembered ==
    ASSUME TypeOK, TypeOK', Placed, Remembered, Grows, NEW w \in Workers, Listens(w)
    PROVE  Remembered'
<1>1. (\A v \in Workers \ {w} : pc[v] = "idle") /\ status[exec[w]] = "running" /\ Remembers(w)
  BY OthersIdle, Busy DEF Listens
<1>2. Remembers(w)'
  BY <1>1 DEF Remembers, Listens
<1> QED BY <1>1, <1>2, QuietRemembers DEF Listens, execVars, turnVars

\* Nobody leaves in the middle of a turn: nobody crashes, and a sandbox that is
\* gone is noticed before the turn is written.
LEMMA LeaveRemembered ==
    ASSUME TypeOK, TypeOK', Placed, Unforgetting, Remembered, Grows, NEW w \in Workers,
           LeaveAction(w), Leaves(w)
    PROVE  Remembered'
<1>1. pc[w] \notin {"idle", "spawn", "advance"}
  <2>1. ~Crash(w)
    BY Types DEF Crash, Unforgetting, CountsOK
  <2> QED BY <2>1 DEF LeaveAction, NoInput, SandboxExited, ResumeCompleted, TurnDone, TurnFailed,
             RequeueAfterAuthFailure, GiveUp, GiveUpAndLeave, StreamEnded
<1>2. \A v \in Workers \ {w} : pc[v] = "idle"
  BY <1>1, OthersIdle
<1>3. Remembers(w)'
  BY DEF Remembers, Leaves
<1> QED BY <1>1, <1>2, <1>3, QuietRemembers DEF Leaves, CursorOf, turnVars

LEMMA RememberedStep ==
    ASSUME TypeOK, Placed, Unforgetting, Remembered, [Next]_vars
    PROVE  Remembered'
<1>1. ASSUME NEW w \in Workers, WorkerStep(w)
      PROVE  Remembered'
  <2>1. WorkerMove(w)
    BY <1>1, WorkerMoves
  <2>2. pc[w] # "rewind"
    BY RememberedParts DEF Remembers
  <2>3. CASE LeaveAction(w)
    BY <2>3, LeaveStep, LeaveRemembered
  <2>4. CASE ResumeTurn(w) \/ AttachStdout(w) \/ CompleteInflightTurn(w)
    BY <2>4, ListenStep, ListenRemembered
  <2>5. ~RequeueAfterAuthFailure(w) /\ ~RewindCursor(w) /\ ~ThreadResumeFailed(w)
    BY <2>2 DEF RequeueAfterAuthFailure, RewindCursor, ThreadResumeFailed, Unforgetting
  <2> QED BY <2>1, <2>3, <2>4, <2>5, ClaimRemembered, ReuseRemembered, DropRemembered,
             InsertRemembered, ContextRemembered, FlushRemembered, MarkRemembered, WriteRemembered,
             AdvanceRemembered, RecordRemembered
          DEF WorkerMove
<1> QED BY <1>1, OthersRemembered DEF Next

-----------------------------------------------------------------------------
(* The theorems. *)

LEMMA InitIInv == Init => IInv
<1> SUFFICES ASSUME Init PROVE IInv
  OBVIOUS
<1>1. TypeOK /\ Placed
  BY InitPlaced
<1>2. Heard = {}
  BY HeardIs DEF Init
<1>3. InOrder
  BY <1>1, BlankRow, Types DEF Init, InOrder, Covers, CursorOf, DueOK, TranscriptOK
<1>4. Remembered
  BY <1>2, RememberedParts DEF Init, Alone, Remembers, PastHeard, NoRepeats
<1> QED BY <1>1, <1>3, <1>4 DEF IInv

LEMMA IInvStep == IInv /\ [Next]_vars => IInv'
<1> SUFFICES ASSUME IInv, [Next]_vars PROVE IInv'
  OBVIOUS
<1>1. TypeOK' /\ Placed'
  BY PlacedStep DEF IInv
<1>2. Orderly' => InOrder'
  <2>1. Orderly' <=> Orderly
    BY WorldKept DEF Orderly
  <2> QED BY <2>1, InOrderStep DEF IInv
<1>3. Unforgetting' => Remembered'
  <2>1. Unforgetting' <=> Unforgetting
    BY WorldKept DEF Unforgetting
  <2> QED BY <2>1, RememberedStep DEF IInv
<1> QED BY <1>1, <1>2, <1>3 DEF IInv

\* The invariant holds in every state, in every world.
THEOREM Inductive == Spec => []IInv
BY InitIInv, IInvStep, PTL DEF Spec

\* Rows, turns and workers have their types, and no more turns are made, workers
\* crash or sandboxes die than the world allows.
THEOREM TypeOKHolds == Spec => []TypeOK
<1>1. IInv => TypeOK
  BY DEF IInv
<1> QED BY <1>1, Inductive, PTL

\* While created_at is in the order of visibility, the cursor of the session row,
\* and the one that get_or_spawn carries from a deleted row to the next, is never
\* past a message that no harness got, whatever crashes, lapses, dies or is requeued.
THEOREM NothingSkippedHolds == Spec => []NothingSkipped
<1>1. IInv => NothingSkipped
  <2> SUFFICES ASSUME InOrder,
                      NEW s \in {session} \cup {carry[w] : w \in Workers}, CursorOf(s) # None,
                      NEW m \in visible, stamp[m] <= stamp[CursorOf(s)]
               PROVE  m \in Heard
    BY DEF IInv, NothingSkipped, NothingOvertaken
  <2>1. CASE s = session
    BY <2>1, OrderParts DEF CursorsCover, Covers
  <2>2. ASSUME NEW w \in Workers, s = carry[w] PROVE m \in Heard
    <3>1. CursorOf(s) = carry[w].cursor
      BY <2>2 DEF CursorOf
    <3> QED BY <3>1, OrderParts DEF CursorsCover, Covers
  <2> QED BY <2>1, <2>2
<1> QED BY <1>1, Inductive, PTL

\* Then too, whatever way an execution is completed (turn.done, a persisted result,
\* nothing to inject), what was in the transcript at enqueue_execution was written
\* to a harness.
THEOREM CompletedHeardHolds == Spec => []CompletedHeard
<1>1. IInv => CompletedHeard
  BY OrderParts DEF IInv, CompletedHeard, AskedHeard
<1> QED BY <1>1, Inductive, PTL

\* Without crashes, slow workers and turns to be repeated, _flush_pending puts a
\* message of a user into one turn, though sandboxes die, attachments break and
\* appends overlap.
THEOREM OneTurnPerMessageHolds == Spec => []OneTurnPerMessage
<1>1. IInv => OneTurnPerMessage
  BY DEF IInv, OneTurnPerMessage, Remembered
<1> QED BY <1>1, Inductive, PTL
=============================================================================
