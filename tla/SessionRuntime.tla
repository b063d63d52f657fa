--------------------------- MODULE SessionRuntime ---------------------------
(***************************************************************************)
(* The session runtime of api-rs on one thread: execute_session, the       *)
(* sandbox and the pipe it needs, the pump that reads the sandbox's        *)
(* output, steering, event streams, the max-duration and idle timers, and  *)
(* the adoption of executions by the next process, over the statements of  *)
(* centaur-session-sqlx; and at the other end of the pipe the loop of      *)
(* harness-server, which takes one line of input after the other.          *)
(*                                                                         *)
(* Every tokio task is a coroutine of a process: a record with its place   *)
(* in the code, its awaits being the steps.  A process loses its           *)
(* coroutines and pipes when it dies; rows, sandboxes and their logs stay. *)
(***************************************************************************)
EXTENDS Naturals, Sequences, FiniteSets, SequencesExt

CONSTANTS
    Requests,   \* calls of execute_session
    Executions, \* by their idempotency keys
    Boxes,      \* sandboxes, 1 .. n
    MaxSlots,   \* bound on the coroutines there are at a time
    Worlds,     \* what a behaviour may contain, see below
    None

Slots == 1 .. MaxSlots
Procs == {1, 2}         \* the process before a deployment and the one after it

\* "steer":   a message is appended while an execution is active
\* "stream":  somebody opens an event stream
\* "timeout": executions run into max_duration
\* "fail":    turns fail
\* "idle":    idle timers fire
\* "gone":    sandboxes die
\* "drop":    a caller disconnects, which drops the handler
\* "restart": the first process dies and the second starts
\* "overlap": ... which does not wait for that
\* "busy":    callers do not wait for the adoption to be over
\* "clock":   the sandbox's log is dated by another clock, or in whole seconds
\* "error":   calls of the sandbox manager fail
HazardNames == {"steer", "stream", "timeout", "fail", "idle", "gone", "drop",
                "restart", "overlap", "busy", "clock", "error"}

\* The execution each request asks for, and the hazards.
WorldRecords == [key : [Requests -> Executions \cup {None}], hazards : SUBSET HazardNames]

\* Outcomes: of a turn, of a closed stdout, of an adoption, of a timeout, of a request.
Ends == [by : {"turn", "eof", "orphan", "timeout", "request"}, ok : BOOLEAN, turn : Nat]

ASSUME SessionAssumption == /\ Boxes = 1 .. Cardinality(Boxes) /\ MaxSlots \in Nat
                            /\ Worlds \subseteq WorldRecords
                            /\ None \notin Executions \cup Boxes /\ None \notin Ends

VARIABLES
    world,
    status,         \* column of session_executions
    result,         \* the first outcome recorded
    created,        \* the order of their created_at
    told,           \* terminal events in session_events, by execution
    assigned,       \* sessions.sandbox_id
    box,            \* the sandboxes
    turns,          \* what was written to them, in order: a turn is its index
    proc, pipe, co, \* processes, their sandbox_pipes, their coroutines
    asked           \* what callers have done

rows == <<status, result, created, told>>
vars == <<world, status, result, created, told, assigned, box, turns, proc, pipe, co, asked>>

---------------------------------------------------------------------------
Hazard(h) == h \in world.hazards
Unwritten == {"none", "queued"}
Terminal  == {"completed", "failed"}
Active    == {e \in Executions : status[e] \in {"queued", "running"}}
TheActive == IF Active = {} THEN None ELSE CHOOSE e \in Active : TRUE

Free == [kind |-> "free"]
Coroutine(kind, p, pc, e, b) ==
    [kind |-> kind, proc |-> p, pc |-> pc, ex |-> e, box |-> b,
     pod |-> 0,             \* of a request or pump: the pod its pipe is attached to
     out |-> None,          \* the outcome it is about to record
     buf |-> <<>>, eof |-> FALSE, known |-> {}] \* of a pump: output, and turns by execution

Is(c, kind)      == co[c].kind = kind
At(c, pc)        == co[c] # Free /\ co[c].pc = pc
Goto(c, pc)      == co' = [co EXCEPT ![c].pc = pc]
Return(c)        == co' = [co EXCEPT ![c] = Free]
HasSlot          == \E s \in Slots : co[s] = Free
NewSlot          == CHOOSE s \in Slots : co[s] = Free /\ \A r \in 1 .. s - 1 : co[r] # Free
Spawn(r)         == HasSlot /\ co' = [co EXCEPT ![NewSlot] = r]
\* c goes on as r, and spawns n.
GoOnAndSpawn(c, r, n) == HasSlot /\ co' = [co EXCEPT ![c] = r, ![NewSlot] = n]

Outcome(by, ok, t) == [by |-> by, ok |-> ok, turn |-> t]
Failure(by)        == Outcome(by, FALSE, 0)
End(e, out)        == /\ status' = [status EXCEPT ![e] = IF out.ok THEN "completed" ELSE "failed"]
                      /\ result' = [result EXCEPT ![e] = IF @ = None THEN out ELSE @]

NoBox == [state |-> "none", pod |-> 0, input |-> <<>>, now |-> 0, log |-> <<>>]
Fresh(b) == [NoBox EXCEPT !.state = "running", !.pod = box[b].pod + 1]

Runs(b)        == b # None /\ box[b].state = "running"
Attached(c, b) == Is(c, "pump") /\ co[c].box = b /\ co[c].pod = box[b].pod /\ ~co[c].eof
\* The pod of b ends, and with it every stream attached to it.
Stop(b, state) == box' = [box EXCEPT ![b] = [NoBox EXCEPT !.state = state, !.pod = box[b].pod]]
ClosedStreams(b) == [c \in Slots |-> IF Attached(c, b) THEN [co[c] EXCEPT !.eof = TRUE] ELSE co[c]]

Init ==
    /\ world \in Worlds
    /\ status = [e \in Executions |-> "none"]
    /\ result = [e \in Executions |-> None]
    /\ created = <<>>
    /\ told = [e \in Executions |-> {}]
    /\ assigned = None
    /\ box = [b \in Boxes |-> NoBox]
    /\ turns = <<>>
    /\ proc = [p \in Procs |-> IF p = 1 THEN "up" ELSE "new"]
    /\ pipe = [p \in Procs |-> [b \in Boxes |-> 0]]
    /\ co = [c \in Slots |-> Free]
    /\ asked = {}

(***************************************************************************)
(* Callers.                                                                *)
(***************************************************************************)
\* execute_session reads the session first ...
Execute(r, p) ==
    /\ proc[p] = "up" /\ r \notin asked /\ world.key[r] # None
    /\ Hazard("busy") \/ \A c \in Slots : ~Is(c, "adopt")
    /\ asked' = asked \cup {r}
    /\ Spawn(Coroutine("request", p, "create", world.key[r], assigned))
    /\ UNCHANGED <<world, rows, assigned, box, turns, proc, pipe>>

\* append_messages forwards a message to the execution that is active.
AppendMessages(p) ==
    /\ Hazard("steer") /\ proc[p] = "up" /\ "steer" \notin asked /\ Active # {}
    /\ asked' = asked \cup {"steer"}
    /\ Spawn(Coroutine("steer", p, "session", TheActive, None))
    /\ UNCHANGED <<world, rows, assigned, box, turns, proc, pipe>>

\* stream_events attaches to the sandbox if it is there.
StreamEvents(p) ==
    /\ Hazard("stream") /\ proc[p] = "up" /\ "stream" \notin asked /\ Runs(assigned)
    /\ asked' = asked \cup {"stream"}
    /\ Spawn(Coroutine("stream", p, "look", None, assigned))
    /\ UNCHANGED <<world, rows, assigned, box, turns, proc, pipe>>

\* The future of a handler is dropped.
Disconnect(c) ==
    /\ Hazard("drop") /\ Is(c, "request")
    /\ Return(c)
    /\ UNCHANGED <<world, rows, assigned, box, turns, proc, pipe, asked>>

(***************************************************************************)
(* execute_session.                                                        *)
(***************************************************************************)
\* Mutant: no unique index.
MayCreateAny(e) == status[e] = "none"

\* The unique indices: on the key, and on the session of active rows.
MayCreate(e) == status[e] = "none" /\ Active = {}

\* ... then inserts the row, or finds the one with this key.
CreateExecution(c) ==
    /\ Is(c, "request") /\ At(c, "create")
    /\ LET e == co[c].ex
       IN  IF MayCreate(e)
           THEN /\ status' = [status EXCEPT ![e] = "queued"]
                /\ created' = Append(created, e)
                /\ Goto(c, "claim")
           ELSE /\ IF status[e] = "queued" THEN Goto(c, "claim") ELSE Return(c)
                /\ UNCHANGED <<status, created>>
    /\ UNCHANGED <<world, result, told, assigned, box, turns, proc, pipe, asked>>

\* Mutant: whoever gets there.
MayClaimAny(e) == status[e] \notin Terminal

MayClaim(e) == status[e] = "queued"

\* mark_execution_running.
MarkExecutionRunning(c) ==
    /\ Is(c, "request") /\ At(c, "claim")
    /\ IF MayClaim(co[c].ex)
       THEN status' = [status EXCEPT ![co[c].ex] = "running"] /\ Goto(c, "status")
       ELSE Return(c) /\ UNCHANGED status
    /\ UNCHANGED <<world, result, created, told, assigned, box, turns, proc, pipe, asked>>

\* ensure_session_sandbox: reuse, resume or replace what the session had.
SandboxStatus(c) ==
    /\ Is(c, "request") /\ At(c, "status")
    /\ LET b == co[c].box
           suspended == b # None /\ box[b].state = "suspended"
       IN  /\ Goto(c, IF Runs(b) THEN "look" ELSE IF suspended THEN "resume" ELSE "replace")
           /\ pipe' = IF suspended THEN [pipe EXCEPT ![co[c].proc][b] = 0] ELSE pipe
    /\ UNCHANGED <<world, rows, assigned, box, turns, proc, asked>>

ResumeSandbox(c) ==
    /\ At(c, "resume")
    /\ LET b == co[c].box
       IN  /\ box' = IF box[b].state = "suspended" THEN [box EXCEPT ![b] = Fresh(b)] ELSE box
           /\ Goto(c, IF box[b].state = "gone" THEN "replace" ELSE "look")
    /\ UNCHANGED <<world, rows, assigned, turns, proc, pipe, asked>>

\* A warm sandbox, or a new one.
ReplaceSandbox(c) ==
    /\ At(c, "replace")
    /\ \E b \in Boxes :
         /\ box[b].state = "none" /\ \A a \in 1 .. b - 1 : box[a].state # "none"
         /\ box' = [box EXCEPT ![b] = Fresh(b)]
         /\ assigned' = b
         /\ co' = [co EXCEPT ![c].pc = "look", ![c].box = b]
    /\ UNCHANGED <<world, rows, turns, proc, pipe, asked>>

\* ... each of which may fail, and the execution with it.
EnsureFails(c) ==
    /\ Hazard("error") /\ Is(c, "request") /\ co[c].pc \in {"status", "resume", "replace"}
    /\ Goto(c, "refuse")
    /\ UNCHANGED <<world, rows, assigned, box, turns, proc, pipe, asked>>

\* ensure_session_pipe, for requests, steering, streams and adoptions: the pipe
\* there is, or a new attachment, with a pump of its own.
WithPipe(c, pod) ==
    IF Is(c, "stream") THEN Free ELSE [co[c] EXCEPT !.pc = "piped", !.pod = pod]

LookForPipe(c) ==
    /\ At(c, "look")
    /\ LET pod == pipe[co[c].proc][co[c].box]
       IN  IF pod # 0 THEN co' = [co EXCEPT ![c] = WithPipe(c, pod)] ELSE Goto(c, "open")
    /\ UNCHANGED <<world, rows, assigned, box, turns, proc, pipe, asked>>

OpenIo(c) ==
    /\ At(c, "open")
    /\ LET b == co[c].box
           p == co[c].proc
       IN  IF Runs(b)
           THEN /\ pipe' = [pipe EXCEPT ![p][b] = box[b].pod]
                /\ GoOnAndSpawn(c, WithPipe(c, box[b].pod),
                     [Coroutine("pump", p, "read", None, b) EXCEPT !.pod = box[b].pod])
           ELSE /\ CASE Is(c, "request") -> Goto(c, "refuse")
                     [] Is(c, "steer")   -> Goto(c, "session")
                     [] OTHER            -> Return(c)
                /\ UNCHANGED pipe
    /\ UNCHANGED <<world, rows, assigned, box, turns, proc, asked>>

\* write_input_lines: one turn, if the pipe still leads to a pod.  The request is
\* done then, and leaves its timer.
WriteInput(c) ==
    /\ At(c, "piped") /\ co[c].kind \in {"request", "steer"}
    /\ LET b == co[c].box
       IN  IF Runs(b) /\ box[b].pod = co[c].pod
           THEN /\ turns' = Append(turns, [ex |-> co[c].ex, steers |-> Is(c, "steer")])
                /\ box' = [box EXCEPT ![b].input = Append(@, Len(turns) + 1)]
                /\ IF Is(c, "request")
                   THEN co' = [co EXCEPT ![c] = Coroutine("timer", @.proc, "sleep", @.ex, None)]
                   ELSE Return(c)
           ELSE /\ IF Is(c, "request") THEN Goto(c, "refuse") ELSE Return(c)
                /\ UNCHANGED <<turns, box>>
    /\ UNCHANGED <<world, rows, assigned, proc, pipe, asked>>

\* record_execution_failure: the event ...
AppendFailure(c) ==
    /\ At(c, "refuse")
    /\ told' = [told EXCEPT ![co[c].ex] = @ \cup {"failed"}]
    /\ Goto(c, "failrow")
    /\ UNCHANGED <<world, status, result, created, assigned, box, turns, proc, pipe, asked>>

\* ... and fail_execution, which asks nothing.
FailExecution(c) ==
    /\ At(c, "failrow")
    /\ End(co[c].ex, Failure("request"))
    /\ Return(c)
    /\ UNCHANGED <<world, created, told, assigned, box, turns, proc, pipe, asked>>

\* wait_for_active_steering_pipe.
SteeringSession(c) ==
    /\ Is(c, "steer") /\ At(c, "session")
    /\ \/ assigned # None /\ co' = [co EXCEPT ![c].pc = "look", ![c].box = assigned]
       \/ co[c].ex \notin Active /\ Return(c)
    /\ UNCHANGED <<world, rows, assigned, box, turns, proc, pipe, asked>>

(***************************************************************************)
(* Terminal outcomes: record_terminal_output and                           *)
(* record_max_duration_failure.                                            *)
(***************************************************************************)
MayEnd(e) == e \in Active

\* forget: what the pump knew of the execution.
Forget(r, e) == [r EXCEPT !.known = {k \in @ : k.ex # e}]

\* What a coroutine is after the recording.
Afterwards(c) ==
    IF Is(c, "pump")
    THEN [Forget(co[c], co[c].ex) EXCEPT !.pc = IF co[c].out.by = "eof" THEN "eof" ELSE "read",
                                         !.ex = None, !.out = None]
    ELSE Free

\* Mutant: the event whether or not the row was active.
RecordTellsAnyway(c) ==
    /\ At(c, "record")
    /\ IF MayEnd(co[c].ex) THEN End(co[c].ex, co[c].out) ELSE UNCHANGED <<status, result>>
    /\ Goto(c, "tell")
    /\ UNCHANGED <<world, created, told, assigned, box, turns, proc, pipe, asked>>

\* Mutant: the timer forgets the event.
RecordSilently(c) ==
    /\ At(c, "record")
    /\ IF MayEnd(co[c].ex)
       THEN /\ End(co[c].ex, co[c].out)
            /\ IF Is(c, "timer") THEN Return(c) ELSE Goto(c, "tell")
       ELSE /\ co' = [co EXCEPT ![c] = Afterwards(c)]
            /\ UNCHANGED <<status, result>>
    /\ UNCHANGED <<world, created, told, assigned, box, turns, proc, pipe, asked>>

Record(c) ==
    /\ At(c, "record")
    /\ LET e == co[c].ex
       IN  IF MayEnd(e)
           THEN End(e, co[c].out) /\ Goto(c, "tell")
           ELSE /\ co' = [co EXCEPT ![c] = Afterwards(c)]
                /\ UNCHANGED <<status, result>>
    /\ UNCHANGED <<world, created, told, assigned, box, turns, proc, pipe, asked>>

\* The event, and a timer for the idle sandbox.
Tell(c) ==
    /\ At(c, "tell")
    /\ told' = [told EXCEPT ![co[c].ex] = @ \cup {IF co[c].out.ok THEN "completed" ELSE "failed"}]
    /\ LET b    == IF Is(c, "timer") THEN assigned ELSE co[c].box
           idle == Coroutine("idle", co[c].proc, "sleep", co[c].ex, b)
       IN  IF ~Hazard("idle") \/ b = None THEN co' = [co EXCEPT ![c] = Afterwards(c)]
           ELSE IF Is(c, "pump") THEN GoOnAndSpawn(c, Afterwards(c), idle)
           ELSE co' = [co EXCEPT ![c] = idle]
    /\ UNCHANGED <<world, status, result, created, assigned, box, turns, proc, pipe, asked>>

MaxDuration(c) ==
    /\ Is(c, "timer") /\ At(c, "sleep")
    /\ IF co[c].ex \in Active
       THEN Hazard("timeout") /\ co' = [co EXCEPT ![c].pc = "record", ![c].out = Failure("timeout")]
       ELSE Return(c)
    /\ UNCHANGED <<world, rows, assigned, box, turns, proc, pipe, asked>>

\* record_idle_pause: the check ...
ShouldPause(c) == /\ assigned = co[c].box /\ Runs(co[c].box)
                  /\ created # <<>> /\ Last(created) = co[c].ex
                  /\ status[co[c].ex] \in Terminal

IdleCheck(c) ==
    /\ Is(c, "idle") /\ At(c, "sleep")
    /\ IF ShouldPause(c) THEN Goto(c, "pause") ELSE Return(c)
    /\ UNCHANGED <<world, rows, assigned, box, turns, proc, pipe, asked>>

\* ... and the pause, some awaits later.
PauseSandbox(c) ==
    /\ At(c, "pause")
    /\ pipe' = [pipe EXCEPT ![co[c].proc][co[c].box] = 0]
    /\ IF Runs(co[c].box)
       THEN Stop(co[c].box, "suspended") /\ co' = [ClosedStreams(co[c].box) EXCEPT ![c] = Free]
       ELSE Return(c) /\ UNCHANGED box
    /\ UNCHANGED <<world, rows, assigned, turns, proc, asked>>

(***************************************************************************)
(* run_stdout_pump.                                                        *)
(***************************************************************************)
\* execution_for_line: a turn that was seen before belongs to the execution it
\* was seen with, a new one to the active execution.
ExecutionForLine(c, line) ==
    LET known == {k \in co[c].known : k.turn = line.turn}
    IN  IF known = {} THEN TheActive
        ELSE LET x == (CHOOSE k \in known : TRUE).ex IN IF x = TheActive THEN x ELSE None

PumpLine(c) ==
    /\ Is(c, "pump") /\ At(c, "read") /\ co[c].buf # <<>>
    /\ LET line  == Head(co[c].buf)
           known == {k \in co[c].known : k.turn = line.turn}
           e     == ExecutionForLine(c, line)
           r     == [co[c] EXCEPT !.buf = Tail(@)]
           noted == [r EXCEPT !.known = IF known = {} THEN @ \cup {[turn |-> line.turn, ex |-> e]} ELSE @]
       IN  co' = [co EXCEPT ![c] =
             IF e = None
             THEN IF line.ends /\ known # {} THEN Forget(r, (CHOOSE k \in known : TRUE).ex) ELSE r
             ELSE IF line.ends
             THEN [noted EXCEPT !.pc = "record", !.ex = e, !.out = Outcome("turn", line.ok, line.turn)]
             ELSE noted]
    /\ UNCHANGED <<world, rows, assigned, box, turns, proc, pipe, asked>>

\* The stream is closed: whatever is active now has failed.
PumpEof(c) ==
    /\ Is(c, "pump") /\ At(c, "read") /\ co[c].buf = <<>> /\ co[c].eof
    /\ IF Active # {}
       THEN co' = [co EXCEPT ![c].pc = "record", ![c].ex = TheActive, ![c].out = Failure("eof")]
       ELSE Goto(c, "eof")
    /\ UNCHANGED <<world, rows, assigned, box, turns, proc, pipe, asked>>

\* The pump removes the pipe of its sandbox, be it this one or the next.
PumpEnd(c) ==
    /\ At(c, "eof")
    /\ pipe' = [pipe EXCEPT ![co[c].proc][co[c].box] = 0]
    /\ Return(c)
    /\ UNCHANGED <<world, rows, assigned, box, turns, proc, asked>>

(***************************************************************************)
(* Adoption by the next process, which serves at the same time.            *)
(***************************************************************************)
StartProcess ==
    /\ Hazard("restart") /\ proc[2] = "new" /\ (proc[1] = "dead" \/ Hazard("overlap"))
    /\ proc' = [proc EXCEPT ![2] = "up"]
    /\ Spawn(Coroutine("adopt", 2, "list", None, None))
    /\ UNCHANGED <<world, rows, assigned, box, turns, pipe, asked>>

ProcessDies ==
    /\ Hazard("restart") /\ proc[1] = "up"
    /\ proc' = [proc EXCEPT ![1] = "dead"]
    /\ pipe' = [pipe EXCEPT ![1] = [b \in Boxes |-> 0]]
    /\ co' = [c \in Slots |-> IF co[c] # Free /\ co[c].proc = 1 THEN Free ELSE co[c]]
    /\ UNCHANGED <<world, rows, assigned, box, turns, asked>>

\* list_active_executions.
ListActive(c) ==
    /\ At(c, "list")
    /\ co' = [co EXCEPT ![c] =
         IF Active = {} THEN Free
         ELSE IF status[TheActive] = "queued"
         THEN [@ EXCEPT !.pc = "record", !.ex = TheActive, !.out = Failure("orphan")]
         ELSE [@ EXCEPT !.pc = "adopt", !.ex = TheActive]]
    /\ UNCHANGED <<world, rows, assigned, box, turns, proc, pipe, asked>>

AdoptSession(c) ==
    /\ At(c, "adopt")
    /\ co' = [co EXCEPT ![c].box = assigned,
                        ![c].pc  = IF Runs(assigned) THEN "logs" ELSE "record",
                        ![c].out = IF Runs(assigned) THEN None ELSE Failure("orphan")]
    /\ UNCHANGED <<world, rows, assigned, box, turns, proc, pipe, asked>>

\* Mutant: the whole log.
LogOf(b, e) == DOMAIN box[b].log

\* The places of the terminal lines after started_at ...
LogSince(b, e) == {i \in DOMAIN box[b].log : e \in box[b].log[i].since}

\* ... and what read_output_since returns: the database wrote started_at, in
\* microseconds, and the node dates the lines, which it is asked for by the second.
\* Where that matters, they are those from any place of the log on.
OutputsSince(b, e) ==
    IF Hazard("clock") THEN {{i \in DOMAIN box[b].log : i > n} : n \in 0 .. Len(box[b].log)}
    ELSE {LogSince(b, e)}

\* terminal_output_from_lines takes the first of them.
ReadLogs(c) ==
    /\ At(c, "logs")
    /\ \E lines \in IF Runs(co[c].box) THEN OutputsSince(co[c].box, co[c].ex) ELSE {{}} :
         LET line == box[co[c].box].log[Min(lines)]
         IN  co' = [co EXCEPT ![c] =
               IF lines = {} THEN [@ EXCEPT !.pc = "look"]
               ELSE [@ EXCEPT !.pc = "record", !.out = Outcome("turn", line.ok, line.turn)]]
    /\ UNCHANGED <<world, rows, assigned, box, turns, proc, pipe, asked>>

\* Mutant: adopted without a timer.
RearmNothing(c) ==
    /\ Is(c, "adopt") /\ At(c, "piped")
    /\ Return(c)
    /\ UNCHANGED <<world, rows, assigned, box, turns, proc, pipe, asked>>

\* Adopted alive: what is left of max_duration.
RearmTimer(c) ==
    /\ Is(c, "adopt") /\ At(c, "piped")
    /\ co' = [co EXCEPT ![c] = Coroutine("timer", @.proc, "sleep", @.ex, None)]
    /\ UNCHANGED <<world, rows, assigned, box, turns, proc, pipe, asked>>

(***************************************************************************)
(* The sandbox: harness-server reads a line, runs its turn, reads the next.*)
(* Its output goes to the log and to every stream attached.                *)
(***************************************************************************)
Lines(t, ends) == [turn |-> t, ends |-> ends, ok |-> TRUE]

Emit(b, lines) ==
    co' = [c \in Slots |-> IF Attached(c, b) THEN [co[c] EXCEPT !.buf = @ \o lines] ELSE co[c]]

Started == {e \in Executions : status[e] \notin Unwritten}

HarnessTakesLine(b) ==
    /\ Runs(b) /\ box[b].now = 0 /\ box[b].input # <<>>
    /\ box' = [box EXCEPT ![b].now = Head(box[b].input), ![b].input = Tail(@)]
    /\ Emit(b, <<Lines(Head(box[b].input), FALSE)>>)
    /\ UNCHANGED <<world, rows, assigned, turns, proc, pipe, asked>>

\* A turn that fails says so twice: error, and turn/completed.
HarnessEndsTurn(b) ==
    /\ Runs(b) /\ box[b].now # 0
    /\ LET t == box[b].now
           bad == [Lines(t, TRUE) EXCEPT !.ok = FALSE]
       IN  \E lines \in {<<Lines(t, TRUE)>>} \cup (IF Hazard("fail") THEN {<<bad, bad>>} ELSE {}) :
             /\ box' = [box EXCEPT ![b].now = 0,
                          ![b].log = Append(@, [turn |-> t, ok |-> lines[1].ok, since |-> Started])]
             /\ Emit(b, lines)
    /\ UNCHANGED <<world, rows, assigned, turns, proc, pipe, asked>>

SandboxDies(b) ==
    /\ Hazard("gone") /\ Runs(b)
    /\ Stop(b, "gone") /\ co' = ClosedStreams(b)
    /\ UNCHANGED <<world, rows, assigned, turns, proc, pipe, asked>>

---------------------------------------------------------------------------
Step(c) ==
    \/ CreateExecution(c) \/ MarkExecutionRunning(c) \/ SandboxStatus(c) \/ ResumeSandbox(c)
    \/ ReplaceSandbox(c) \/ EnsureFails(c) \/ LookForPipe(c) \/ OpenIo(c) \/ WriteInput(c) \/ AppendFailure(c)
    \/ FailExecution(c) \/ SteeringSession(c) \/ Record(c) \/ Tell(c) \/ MaxDuration(c)
    \/ IdleCheck(c) \/ PauseSandbox(c) \/ PumpLine(c) \/ PumpEof(c) \/ PumpEnd(c)
    \/ ListActive(c) \/ AdoptSession(c) \/ ReadLogs(c) \/ RearmTimer(c)

Next ==
    \/ \E p \in Procs : AppendMessages(p) \/ StreamEvents(p) \/ \E r \in Requests : Execute(r, p)
    \/ \E c \in Slots : Step(c) \/ Disconnect(c)
    \/ \E b \in Boxes : HarnessTakesLine(b) \/ HarnessEndsTurn(b) \/ SandboxDies(b)
    \/ StartProcess \/ ProcessDies

Spec == Init /\ [][Next]_vars

\* tokio runs what can run, and a process that died is started again.
FairSpec == Spec /\ (\A c \in Slots : WF_vars(Step(c))) /\ WF_vars(StartProcess)

---------------------------------------------------------------------------
(* Properties *)

Outcomes == {o \in Ends : o.turn \in 0 .. Len(turns)}

\* Types; and there is one active execution in a session (the unique index), a
\* session's sandbox exists, and what a sandbox has to do, does and did is, in this
\* order, what was written to it.
TypeOK ==
    /\ status \in [Executions -> {"none", "queued", "running"} \cup Terminal]
    /\ \A e \in Executions : /\ result[e] \in Outcomes \cup {None}
                             /\ result[e] # None <=> status[e] \in Terminal
                             /\ told[e] \subseteq Terminal
    /\ Cardinality(Active) <= 1
    /\ assigned # None => box[assigned].state # "none"
    /\ \A b \in Boxes :
         LET done   == [i \in DOMAIN box[b].log |-> box[b].log[i].turn]
             doing  == IF box[b].now = 0 THEN <<>> ELSE <<box[b].now>>
             passed == done \o doing \o box[b].input
         IN  \A i, j \in DOMAIN passed : passed[i] \in DOMAIN turns /\ (i < j => passed[i] < passed[j])
    /\ \A c \in Slots : co[c] = Free \/ (co[c].proc \in Procs /\ proc[co[c].proc] = "up")

\* The input of an execution is written to a sandbox at most once, however often and
\* by which process execute_session is called for it, whatever is adopted
\* or fails: what makes an idempotency key safe to retry with (mark_execution_running
\* decides, three awaits and a sandbox before the write).
InputOnce == \A e \in Executions :
    Cardinality({t \in DOMAIN turns : turns[t].ex = e /\ ~turns[t].steers}) <= 1

\* An execution whose result is the outcome of a turn that was not its own, but a
\* message's or an earlier execution's.
Foreign(e) == /\ result[e] # None /\ result[e].by = "turn"
              /\ LET t == turns[result[e].turn] IN t.ex # e \/ t.steers

\* The result of an execution comes from the turn that its own input started,
\* although the output of a sandbox names turns and not executions, the pumps of
\* one session come and go, and an adopted execution is looked up in a log by time.
\* This wants a session nobody writes a message to during an execution, whose turns
\* succeed, which a process owns alone and nobody pauses, and a log that is exact
\* about what came before started_at, which no two clocks promise: the hazards left
\* out each break it (see the README).  And it wants that nobody was cut off: whoever fails an
\* execution for another reason than its turn leaves that turn to the next one.
Guarded   == {"steer", "stream", "fail", "idle", "overlap", "busy", "clock"}
CutOff    == \E e \in Executions : result[e] # None /\ result[e].by \in {"eof", "orphan", "timeout"}
OwnAnswer == world.hazards \cap Guarded = {} /\ ~CutOff => \A e \in Executions : ~Foreign(e)

\* Clients are not told that an execution completed and that it failed: pump, timer,
\* adoption and the failing request may all come to end it, and the last of these
\* appends its event before the row is looked at.
OneStory == \A e \in Executions : told[e] = Terminal => Foreign(e)

\* While the process that records it stays, the end of an execution is told to
\* the clients that wait for it on the event stream.  (A process that dies between
\* the row and the event leaves them waiting: adoption looks at active rows only.)
EndedIsTold == \A e \in Executions : status[e] \in Terminal ~> told[e] # {} \/ Hazard("restart")

\* Every execution that is queued ends, through the death of the process at any point,
\* turns that hang and sandboxes that die: adoption fails it, finds its
\* output, or attaches again with a new timer; the timer covers what the pump missed.
EveryExecutionEnds == \A e \in Executions : status[e] = "queued" ~> status[e] \in Terminal
=============================================================================
