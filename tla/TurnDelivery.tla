---------------------------- MODULE TurnDelivery ----------------------------
(***************************************************************************)
(* How the messages of one thread reach the harness and how its answers    *)
(* find their execution: the transcript (append_message, _flush_pending,   *)
(* the cursor), the session row that survives sandboxes (get_or_spawn),    *)
(* the injection of a turn (inject_stdin and what _process_execution_impl  *)
(* records after it), the stream of the harness's stdout, and the result   *)
(* a reclaimed execution finds (services/api/api/agent.py and              *)
(* runtime_control.py).                                                    *)
(*                                                                         *)
(* Executions are claimed, recovered and finalized as in                   *)
(* ExecutionLifecycle, here in one step each.  Every worker is a process   *)
(* of its own with its own attachment to the sandbox.  Messages carry the  *)
(* order of their created_at as a number, their stamp.                     *)
(***************************************************************************)
EXTENDS Naturals, Sequences, FiniteSets

CONSTANTS
    Messages,       \* what users say in the thread
    Sys,            \* the session-context message of the thread
    MaxExecutions,  \* executions 1 .. MaxExecutions, by age
    Workers,
    MaxTurns,       \* bound on turns
    MaxClock,       \* bound on stamps
    Worlds,         \* what a behaviour may contain, see below
    None

Executions == 1 .. MaxExecutions
Turns      == 1 .. MaxTurns
Transcript == Messages \cup {Sys}

Places == {"idle", "acquire", "spawn", "resume", "attach", "prepare", "flush", "mark",
           "write", "advance", "record", "stream", "done", "rewind"}

\* "overlap":   an append is stamped before it waits for the thread's lock
\* "requester": another user asks, and the context message is stamped anew
\* "lapse":     a lease lapses under a working worker
\* "break":     an attachment breaks while the sandbox runs
\* "left":      a failed turn stays in its sandbox: an exception in the
\*              stream, or a backend that cannot pause
\* "auth":      the harness is refused by its provider
\* "resume":    the harness loses the thread it should resume
HazardNames == {"overlap", "requester", "lapse", "break", "left", "auth", "resume"}

\* A world bounds what happens in a behaviour: who works, how many executions
\* are asked for, how many turns they take, how many workers crash and where,
\* how many sandboxes die by themselves, and the hazards there are.
WorldRecords == [workers    : SUBSET Workers,
                 executions : 0 .. MaxExecutions,
                 turns      : 0 .. MaxTurns,
                 crashes    : Nat,
                 crashAt    : SUBSET (Places \ {"idle"}),
                 deaths     : Nat,
                 hazards    : SUBSET HazardNames]

ASSUME TurnAssumption ==
    /\ Sys \notin Messages /\ None \notin Transcript /\ None \notin Nat
    /\ MaxExecutions \in Nat /\ MaxTurns \in Nat /\ MaxClock \in Nat
    /\ Worlds \subseteq WorldRecords

VARIABLES
    clock, stamp, visible,      \* the transcript
    session,                    \* the row of sandbox_sessions, None without one
    alive, stdin, held,         \* the sandbox: turns in work, workers that hold it
    attached, hears,            \* who is attached, and the ends of turns it has not read
    status, durable, tries,     \* the execution rows
    answer, how,                \* the result of an execution and where it came from
    asked,                      \* history: the transcript when it was enqueued
    turns, contents, turnBy,    \* history: the turns made
    written,                    \* history: the turns that a harness got
    pc, exec, batch, turn, carry,   \* the workers
    crashes, deaths,
    world                       \* chosen at first, and kept

transcriptVars == <<clock, stamp, visible>>
sandboxVars    == <<alive, stdin, held, attached, hears>>
execVars       == <<status, durable, tries, answer, how, asked>>
turnVars       == <<turns, contents, turnBy, written>>
workerVars     == <<pc, exec, batch, turn, carry>>
faultVars      == <<crashes, deaths, world>>
vars == <<transcriptVars, session, sandboxVars, execVars, turnVars, workerVars, faultVars>>

\* last_result is NULL, empty (turn 0), or the result of a turn.
Sessions == [cursor   : Transcript \cup {None},
             inflight : Turns \cup {None},
             result   : 0 .. MaxTurns \cup {None}]
Blank    == [cursor |-> None, inflight |-> None, result |-> 0]

ASSUME RowAssumption == None \notin Sessions

Statuses == {"none", "queued", "running", "retry_wait", "completed", "failed"}
Terminal == {"completed", "failed"}

TypeOK ==
    /\ clock \in 0 .. MaxClock /\ stamp \in [Transcript -> 0 .. MaxClock]
    /\ visible \subseteq Transcript
    /\ session \in Sessions \cup {None}
    /\ alive \in BOOLEAN /\ stdin \in Seq(Turns)
    /\ held \subseteq Workers /\ attached \subseteq held
    /\ hears \in [Workers -> Seq(Turns)]
    /\ status \in [Executions -> Statuses]
    /\ durable \in [Executions -> Turns \cup {None}]
    /\ tries \in [Executions -> 0 .. 1]
    /\ answer \in [Executions -> 0 .. MaxTurns \cup {None}]
    /\ how \in [Executions -> {"open", "own", "persisted", "no_input", "failed"}]
    /\ asked \in [Executions -> SUBSET Transcript]
    /\ turns \in 0 .. world.turns
    /\ contents \in [Turns -> SUBSET Transcript]
    /\ turnBy \in [Turns -> Executions \cup {None}]
    /\ written \subseteq Turns
    /\ pc \in [Workers -> Places]
    /\ exec \in [Workers -> Executions \cup {None}]
    /\ batch \in [Workers -> SUBSET Transcript]
    /\ turn \in [Workers -> Turns \cup {None}]
    /\ carry \in [Workers -> Sessions]
    /\ world \in Worlds
    /\ crashes \in 0 .. world.crashes /\ deaths \in 0 .. world.deaths

Init ==
    /\ clock = 0 /\ stamp = [m \in Transcript |-> 0] /\ visible = {}
    /\ session = None
    /\ alive = FALSE /\ stdin = <<>> /\ held = {} /\ attached = {}
    /\ hears = [w \in Workers |-> <<>>]
    /\ status = [e \in Executions |-> "none"]
    /\ durable = [e \in Executions |-> None]
    /\ tries = [e \in Executions |-> 0]
    /\ answer = [e \in Executions |-> None]
    /\ how = [e \in Executions |-> "open"]
    /\ asked = [e \in Executions |-> {}]
    /\ turns = 0
    /\ contents = [t \in Turns |-> {}]
    /\ turnBy = [t \in Turns |-> None]
    /\ written = {}
    /\ pc = [w \in Workers |-> "idle"]
    /\ exec = [w \in Workers |-> None]
    /\ batch = [w \in Workers |-> {}]
    /\ turn = [w \in Workers |-> None]
    /\ carry = [w \in Workers |-> Blank]
    /\ crashes = 0 /\ deaths = 0
    /\ world \in Worlds

-----------------------------------------------------------------------------
(* The transcript *)

Stamped(m) ==
    /\ clock < MaxClock
    /\ clock' = clock + 1
    /\ stamp' = [stamp EXCEPT ![m] = clock + 1]

\* append_message, the transaction in one step.
AppendMessage(m) ==
    /\ stamp[m] = 0
    /\ Stamped(m)
    /\ visible' = visible \cup {m}
    /\ UNCHANGED <<session, sandboxVars, execVars, turnVars, workerVars, faultVars>>

\* append_message in two: NOW() is the start of the transaction, which then
\* waits for the thread's advisory lock and stores the attachments.
BeginAppend(m) ==
    /\ "overlap" \in world.hazards
    /\ stamp[m] = 0
    /\ Stamped(m)
    /\ UNCHANGED <<visible, session, sandboxVars, execVars, turnVars, workerVars, faultVars>>

CommitAppend(m) ==
    /\ stamp[m] # 0
    /\ m \notin visible
    /\ visible' = visible \cup {m}
    /\ UNCHANGED <<clock, stamp, session, sandboxVars, execVars, turnVars, workerVars,
                   faultVars>>

\* Mutants: the cursor goes to the newest message there is; it stays.
NewestVisible(S) == CHOOSE m \in visible : \A n \in visible : stamp[n] <= stamp[m]
NoMessage(S)     == None

\* The last of the flushed messages.
Newest(S) == CHOOSE m \in S : \A n \in S : stamp[n] <= stamp[m]

\* Mutant: a flush takes one message at a time.
PendingOldest(cursor) ==
    LET P == {m \in visible : cursor = None \/ stamp[m] > stamp[cursor]}
    IN  {m \in P : \A n \in P : stamp[m] <= stamp[n]}

\* _flush_pending: the visible messages with a later stamp than the cursor's.
Pending(cursor) == {m \in visible : cursor = None \/ stamp[m] > stamp[cursor]}

CursorOf(s) == IF s = None THEN None ELSE s.cursor

\* An UPDATE of the session row; without the row it does nothing.
SetCursor(c) ==
    session' = IF session = None THEN None ELSE [session EXCEPT !.cursor = c]

-----------------------------------------------------------------------------
(* Executions *)

\* enqueue_execution.
EnqueueExecution(e) ==
    /\ e <= world.executions
    /\ status[e] = "none"
    /\ \A f \in Executions : f < e => status[f] # "none"
    /\ status' = [status EXCEPT ![e] = "queued"]
    /\ asked'  = [asked EXCEPT ![e] = visible]
    /\ UNCHANGED <<transcriptVars, session, sandboxVars, durable, tries, answer, how,
                   turnVars, workerVars, faultVars>>

\* Mutant: candidates in any order.
CandidateAny(e) == status[e] \in {"queued", "retry_wait"}

\* The oldest execution that waits.
Candidate(e) ==
    /\ status[e] \in {"queued", "retry_wait"}
    /\ \A f \in Executions : f < e => status[f] \notin {"queued", "retry_wait"}

\* _claim_next_execution.
ClaimNextExecution(w, e) ==
    /\ w \in world.workers
    /\ pc[w] = "idle"
    /\ Candidate(e)
    /\ \A f \in Executions \ {e} : status[f] \notin {"running", "retry_wait"}
    /\ status' = [status EXCEPT ![e] = "running"]
    /\ pc'     = [pc EXCEPT ![w] = "acquire"]
    /\ exec'   = [exec EXCEPT ![w] = e]
    /\ UNCHANGED <<transcriptVars, session, sandboxVars, durable, tries, answer, how, asked,
                   turnVars, batch, turn, carry, faultVars>>

\* _recover_stale_running: the lease ran out, as its worker is gone or slow.
RecoverStaleRunning(e) ==
    /\ status[e] = "running"
    /\ "lapse" \in world.hazards \/ \A w \in Workers : exec[w] # e
    /\ status' = [status EXCEPT ![e] = "queued"]
    /\ UNCHANGED <<transcriptVars, session, sandboxVars, durable, tries, answer, how, asked,
                   turnVars, workerVars, faultVars>>

\* The worker is done with its execution.
Return(w) ==
    /\ pc'       = [pc EXCEPT ![w] = "idle"]
    /\ exec'     = [exec EXCEPT ![w] = None]
    /\ batch'    = [batch EXCEPT ![w] = {}]
    /\ turn'     = [turn EXCEPT ![w] = None]
    /\ carry'    = [carry EXCEPT ![w] = Blank]

LetGo(w) ==
    /\ held'     = held \ {w}
    /\ attached' = attached \ {w}
    /\ hears'    = [hears EXCEPT ![w] = <<>>]

\* _mark_execution_terminal: the first outcome stands.
MarkTerminal(e, st, h, t) ==
    /\ IF status[e] \in Terminal
         THEN UNCHANGED <<status, answer, how>>
         ELSE /\ status' = [status EXCEPT ![e] = st]
              /\ how'    = [how EXCEPT ![e] = h]
              /\ answer' = [answer EXCEPT ![e] = t]
    /\ UNCHANGED <<tries, asked>>

\* A worker finalizes its execution and leaves the sandbox running.
FinalizeAndLeave(w, st, h, t) ==
    /\ MarkTerminal(exec[w], st, h, t)
    /\ Return(w)
    /\ LetGo(w)
    /\ UNCHANGED <<transcriptVars, turnVars, alive, stdin, faultVars>>

Finalize(w, st, h, t) == FinalizeAndLeave(w, st, h, t) /\ UNCHANGED durable

\* Mutant: its readers stay attached.
SandboxGoneUnnoticed ==
    /\ alive' = FALSE /\ stdin' = <<>> /\ held' = {}
    /\ UNCHANGED attached

\* The sandbox is gone, with what it worked on, for everybody who held it.
SandboxGone ==
    /\ alive'    = FALSE
    /\ stdin'    = <<>>
    /\ held'     = {}
    /\ attached' = {}

-----------------------------------------------------------------------------
(* Acquiring the sandbox: get_or_spawn *)

\* A live sandbox is reused.
ReuseSession(w) ==
    /\ pc[w] = "acquire"
    /\ session # None /\ alive
    /\ held' = held \cup {w}
    /\ pc'   = [pc EXCEPT ![w] = IF durable[exec[w]] = None THEN "prepare" ELSE "resume"]
    /\ UNCHANGED <<transcriptVars, session, alive, stdin, attached, hears, execVars, turnVars,
                   exec, batch, turn, carry, faultVars>>

\* A dead one's row is read and deleted; what it knew goes into the next.
DropSession(w) ==
    /\ pc[w] = "acquire"
    /\ ~(session # None /\ alive)
    /\ carry'   = [carry EXCEPT ![w] =
                     IF session = None THEN Blank
                     ELSE [session EXCEPT !.result = IF @ = None THEN 0 ELSE @]]
    /\ session' = None
    /\ pc'      = [pc EXCEPT ![w] = "spawn"]
    /\ UNCHANGED <<transcriptVars, sandboxVars, execVars, turnVars, exec, batch, turn, faultVars>>

\* The new sandbox is up and its row is inserted, unless another worker's was.
InsertSession(w) ==
    /\ pc[w] = "spawn"
    /\ IF session = None
         THEN /\ session' = carry[w]
              /\ alive' = TRUE
              /\ stdin' = <<>>
              /\ held'  = {w}
         ELSE /\ held'  = IF alive THEN held \cup {w} ELSE held
              /\ UNCHANGED <<session, alive, stdin>>
    /\ carry' = [carry EXCEPT ![w] = Blank]
    /\ pc'    = [pc EXCEPT ![w] = IF durable[exec[w]] = None THEN "prepare" ELSE "resume"]
    /\ UNCHANGED <<transcriptVars, attached, hears, execVars, turnVars, exec, batch, turn,
                   faultVars>>

-----------------------------------------------------------------------------
(* A turn: inject_stdin and what follows it *)

\* _insert_system_message: created once, stamped anew for another requester.
InsertSystemMessage(w) ==
    /\ pc[w] = "prepare"
    /\ \/ /\ stamp[Sys] = 0 \/ "requester" \in world.hazards
          /\ Stamped(Sys)
          /\ visible' = visible \cup {Sys}
       \/ /\ stamp[Sys] # 0
          /\ UNCHANGED transcriptVars
    /\ pc' = [pc EXCEPT ![w] = "flush"]
    /\ UNCHANGED <<session, sandboxVars, execVars, turnVars, exec, batch, turn, carry, faultVars>>

FlushPending(w) ==
    LET P == Pending(CursorOf(session)) IN
    /\ pc[w] = "flush"
    /\ P # {}
    /\ batch' = [batch EXCEPT ![w] = P]
    /\ pc'    = [pc EXCEPT ![w] = "mark"]
    /\ UNCHANGED <<transcriptVars, session, sandboxVars, execVars, turnVars, exec, turn, carry,
                   faultVars>>

\* Nothing to inject: no turn is noted, completed, and nobody is told.
NoInput(w) ==
    /\ pc[w] = "flush"
    /\ Pending(CursorOf(session)) = {}
    /\ durable' = [durable EXCEPT ![exec[w]] = None]
    /\ FinalizeAndLeave(w, "completed", "no_input", None)
    /\ UNCHANGED session

\* _db_set_inflight_turn.
SetInflightTurn(w) ==
    LET t == turns + 1 IN
    /\ pc[w] = "mark"
    /\ turns < world.turns
    /\ turns'    = t
    /\ contents' = [contents EXCEPT ![t] = batch[w]]
    /\ turnBy'   = [turnBy EXCEPT ![t] = exec[w]]
    /\ turn'     = [turn EXCEPT ![w] = t]
    /\ session'  = IF session = None THEN None
                   ELSE [session EXCEPT !.inflight = t, !.result = None]
    /\ pc'       = [pc EXCEPT ![w] = "write"]
    /\ UNCHANGED <<transcriptVars, sandboxVars, execVars, written, exec, batch, carry, faultVars>>

\* attach and write_stdin.
WriteStdin(w) ==
    /\ pc[w] = "write"
    /\ w \in held
    /\ stdin'    = Append(stdin, turn[w])
    /\ attached' = attached \cup {w}
    /\ written'  = written \cup {turn[w]}
    /\ pc'       = [pc EXCEPT ![w] = "advance"]
    /\ UNCHANGED <<transcriptVars, session, alive, held, hears, execVars, turns, contents, turnBy,
                   exec, batch, turn, carry, faultVars>>

\* The sandbox is gone: inject_stdin raises, or attaching does.  The worker
\* abandons the execution, which stays running until its lease lapses.
SandboxExited(w) ==
    /\ pc[w] \in {"write", "attach"}
    /\ w \notin held
    /\ Return(w)
    /\ LetGo(w)
    /\ UNCHANGED <<transcriptVars, session, alive, stdin, execVars, turnVars, faultVars>>

\* _advance_cursor.
AdvanceCursor(w) ==
    /\ pc[w] = "advance"
    /\ SetCursor(Newest(batch[w]))
    /\ pc' = [pc EXCEPT ![w] = "record"]
    /\ UNCHANGED <<transcriptVars, sandboxVars, execVars, turnVars, exec, batch, turn, carry,
                   faultVars>>

\* _process_execution_impl notes the turn on the execution.
RecordTurn(w) ==
    /\ pc[w] = "record"
    /\ durable' = [durable EXCEPT ![exec[w]] = turn[w]]
    /\ pc'      = [pc EXCEPT ![w] = "stream"]
    /\ UNCHANGED <<transcriptVars, session, sandboxVars, status, tries, answer, how, asked,
                   turnVars, exec, batch, turn, carry, faultVars>>

\* _completed_session_result_for_reclaimed_turn: nothing is in flight and a
\* result is there.
HasResult(s) == s # None /\ s.inflight = None /\ s.result # None

\* A reclaimed execution finds the result of its turn ...
ResumeCompleted(w) ==
    /\ pc[w] = "resume"
    /\ HasResult(session)
    /\ Finalize(w, "completed", "persisted", session.result)
    /\ UNCHANGED session

\* ... or goes on to listen for it.
ResumeTurn(w) ==
    /\ pc[w] = "resume"
    /\ ~HasResult(session)
    /\ pc' = [pc EXCEPT ![w] = "attach"]
    /\ UNCHANGED <<transcriptVars, session, sandboxVars, execVars, turnVars, exec, batch, turn,
                   carry, faultVars>>

AttachStdout(w) ==
    /\ pc[w] = "attach"
    /\ w \in held
    /\ attached' = attached \cup {w}
    /\ pc'       = [pc EXCEPT ![w] = "stream"]
    /\ UNCHANGED <<transcriptVars, session, alive, stdin, held, hears, execVars, turnVars, exec,
                   batch, turn, carry, faultVars>>

-----------------------------------------------------------------------------
(* The stream *)

\* The harness ends the first turn it has; who is not attached misses it.
HarnessEndsTurn ==
    /\ alive
    /\ stdin # <<>>
    /\ stdin' = Tail(stdin)
    /\ hears' = [w \in Workers |-> IF w \in attached THEN Append(hears[w], Head(stdin))
                                   ELSE hears[w]]
    /\ UNCHANGED <<transcriptVars, session, alive, held, attached, execVars, turnVars, workerVars,
                   faultVars>>

\* _stream_stdout persists the result (_db_complete_inflight_turn) and yields
\* turn.done, whichever turn it ends.
CompleteInflightTurn(w) ==
    /\ pc[w] = "stream"
    /\ hears[w] # <<>>
    /\ session' = IF session = None THEN None
                  ELSE [session EXCEPT !.inflight = None, !.result = Head(hears[w])]
    /\ turn'    = [turn EXCEPT ![w] = Head(hears[w])]
    /\ hears'   = [hears EXCEPT ![w] = Tail(@)]
    /\ pc'      = [pc EXCEPT ![w] = "done"]
    /\ UNCHANGED <<transcriptVars, alive, stdin, held, attached, execVars, turnVars, exec, batch,
                   carry, faultVars>>

TurnDone(w) ==
    /\ pc[w] = "done"
    /\ Finalize(w, "completed", "own", turn[w])
    /\ UNCHANGED session

\* The harness reports an error: failed, the sandbox stays.
TurnFailed(w) ==
    /\ pc[w] = "done"
    /\ Finalize(w, "failed", "failed", None)
    /\ UNCHANGED session

\* _requeue_execution_after_raw_harness_auth_failure, up to the row's UPDATE.
RequeueAfterAuthFailure(w) ==
    LET e == exec[w] IN
    /\ pc[w] = "done"
    /\ "auth" \in world.hazards
    /\ tries[e] = 0
    /\ SandboxGone
    /\ hears' = [hears EXCEPT ![w] = <<>>]
    /\ IF status[e] = "running"
         THEN /\ status'  = [status EXCEPT ![e] = "queued"]
              /\ durable' = [durable EXCEPT ![e] = None]
              /\ tries'   = [tries EXCEPT ![e] = 1]
              /\ pc'      = [pc EXCEPT ![w] = "rewind"]
              /\ UNCHANGED <<exec, batch, turn, carry>>
         ELSE Return(w) /\ UNCHANGED <<status, durable, tries>>
    /\ UNCHANGED <<transcriptVars, session, answer, how, asked, turnVars, faultVars>>

\* Mutant: the cursor is kept.
RewindNothing(w) ==
    /\ pc[w] = "rewind"
    /\ Return(w)
    /\ UNCHANGED <<transcriptVars, session, sandboxVars, execVars, turnVars, faultVars>>

\* Its last UPDATE forgets the cursor.
RewindCursor(w) ==
    /\ pc[w] = "rewind"
    /\ SetCursor(None)
    /\ Return(w)
    /\ UNCHANGED <<transcriptVars, sandboxVars, execVars, turnVars, faultVars>>

\* The harness could not resume its thread: the next flush sends it all.
ThreadResumeFailed(w) ==
    /\ "resume" \in world.hazards
    /\ pc[w] = "stream"
    /\ w \in attached
    /\ SetCursor(None)
    /\ UNCHANGED <<transcriptVars, sandboxVars, execVars, turnVars, workerVars, faultVars>>

\* Failed, and the sandbox the thread has by then is paused or stopped.
FailAndStop(w) ==
    /\ MarkTerminal(exec[w], "failed", "failed", None)
    /\ SandboxGone
    /\ hears' = [hears EXCEPT ![w] = <<>>]
    /\ Return(w)
    /\ UNCHANGED <<transcriptVars, session, durable, turnVars, faultVars>>

\* Silence or the hard deadline; or the harness was refused again.
GiveUp(w) ==
    /\ \/ pc[w] = "stream"
       \/ pc[w] = "done" /\ "auth" \in world.hazards /\ tries[exec[w]] = 1
    /\ FailAndStop(w)

\* Failed with the sandbox left to work on.
GiveUpAndLeave(w) ==
    /\ "left" \in world.hazards
    /\ pc[w] = "stream"
    /\ Finalize(w, "failed", "failed", None)
    /\ UNCHANGED session

\* The stream ends without turn.done: the result of the turn may be there all
\* the same; else the execution waits for a retry while its sandbox runs, and
\* fails when it does not, unless somebody finalized it.
StreamEnded(w) ==
    LET e == exec[w] IN
    /\ pc[w] = "stream"
    /\ w \in attached => "break" \in world.hazards
    /\ w \notin attached => hears[w] = <<>>
    /\ \/ /\ HasResult(session)
          /\ Finalize(w, "completed", "persisted", session.result)
          /\ UNCHANGED session
       \/ /\ ~HasResult(session)
          /\ w \in held \/ status[e] \in Terminal
          /\ status' = [status EXCEPT ![e] = IF @ = "running" THEN "retry_wait" ELSE @]
          /\ Return(w)
          /\ LetGo(w)
          /\ UNCHANGED <<transcriptVars, session, turnVars, alive, stdin, durable, tries,
                         answer, how, asked, faultVars>>
       \/ /\ ~HasResult(session)
          /\ w \notin held /\ status[e] \notin Terminal
          /\ FailAndStop(w)

-----------------------------------------------------------------------------
(* Faults *)

\* The process of a worker dies, or is restarted.
Crash(w) ==
    /\ pc[w] \in world.crashAt
    /\ crashes < world.crashes
    /\ crashes' = crashes + 1
    /\ Return(w)
    /\ LetGo(w)
    /\ UNCHANGED <<transcriptVars, session, alive, stdin, execVars, turnVars, deaths, world>>

\* The pod is evicted, or the reconciler stops it.
SandboxDies ==
    /\ alive
    /\ deaths < world.deaths
    /\ deaths' = deaths + 1
    /\ SandboxGone
    /\ UNCHANGED <<transcriptVars, session, hears, execVars, turnVars, workerVars, crashes, world>>

-----------------------------------------------------------------------------
WorkerStep(w) ==
    \/ \E e \in Executions : ClaimNextExecution(w, e)
    \/ ReuseSession(w) \/ DropSession(w) \/ InsertSession(w)
    \/ InsertSystemMessage(w) \/ FlushPending(w) \/ NoInput(w)
    \/ SetInflightTurn(w) \/ WriteStdin(w) \/ SandboxExited(w)
    \/ AdvanceCursor(w) \/ RecordTurn(w)
    \/ ResumeCompleted(w) \/ ResumeTurn(w) \/ AttachStdout(w)
    \/ CompleteInflightTurn(w) \/ TurnDone(w) \/ TurnFailed(w)
    \/ RequeueAfterAuthFailure(w) \/ RewindCursor(w) \/ ThreadResumeFailed(w)
    \/ GiveUp(w) \/ GiveUpAndLeave(w) \/ StreamEnded(w)
    \/ Crash(w)

Next ==
    \/ \E m \in Messages : AppendMessage(m) \/ BeginAppend(m) \/ CommitAppend(m)
    \/ \E e \in Executions : EnqueueExecution(e) \/ RecoverStaleRunning(e)
    \/ \E w \in Workers : WorkerStep(w)
    \/ HarnessEndsTurn
    \/ SandboxDies

Spec == Init /\ [][Next]_vars

-----------------------------------------------------------------------------
(* Properties *)

Heard == UNION {contents[t] : t \in written}

\* Stamps are given in the order in which messages become visible, and stay.
Orderly == world.hazards \cap {"overlap", "requester"} = {}

\* A crash at one of these places loses what was done: the session row is
\* deleted and the next not yet inserted, a turn is written and not yet noted
\* on its execution, an execution is requeued and its cursor not yet rewound.
LossyPlaces == {"spawn", "advance", "record", "rewind"}

\* Crashes lose nothing, no worker is slower than its lease, a failed turn
\* does not go on in its sandbox, and where a harness may be refused nobody
\* claims the requeued execution before its worker has rewound the cursor.
Careful == /\ world.crashes = 0 \/ world.crashAt \cap LossyPlaces = {}
           /\ world.hazards \cap {"lapse", "left"} = {}
           /\ "auth" \in world.hazards => \A v, w \in world.workers : v = w

\* Nobody forgets: no crash, no slow worker, no turn to be repeated.
Unforgetting == /\ world.crashes = 0
                /\ world.hazards \cap {"lapse", "auth", "resume"} = {}

\* The cursor never moves past a message that no harness got: what
\* _flush_pending leaves out was delivered.  It may fall back (a rewind, a
\* slow worker), which repeats messages and loses none.
NothingOvertaken ==
    \A s \in {session} \cup {carry[w] : w \in Workers} :
        CursorOf(s) # None =>
            \A m \in visible : stamp[m] <= stamp[CursorOf(s)] => m \in Heard

\* While stamps are in order, that is so, whatever crashes and lapses.
NothingSkipped == Orderly => NothingOvertaken

\* While stamps are in order, what was said before an execution was asked for
\* has reached a harness when it completes.
CompletedHeard ==
    Orderly =>
        \A e \in Executions : status[e] = "completed" => asked[e] \subseteq Heard

Own(e) == {t \in Turns : turnBy[t] = e}

\* The answer of an execution is the answer to one of its own turns, when
\* nothing is lost in a crash or left behind in the sandbox.
OwnAnswer ==
    Careful => \A e \in Executions : how[e] \in {"own", "persisted"} => answer[e] \in Own(e)

\* While nobody forgets, the cursor repeats nothing: no user's message goes
\* into two turns.
OneTurnPerMessage ==
    Unforgetting =>
        \A t, u \in written : t # u => contents[t] \cap contents[u] \cap Messages = {}

\* An execution is never closed as having nothing to say after a harness got
\* a turn of it.
NeverSilenced == \A e \in Executions : how[e] = "no_input" => Own(e) \cap written = {}

\* When crashes lose nothing, that is so.
NoSilentTurn == Careful => NeverSilenced
=============================================================================
