--------------------------- MODULE WorkflowEngine ---------------------------
(***************************************************************************)
(* The workflow engine of the Python API: runs in workflow_runs that       *)
(* workers claim for a lease, execute from the top, and suspend; the       *)
(* checkpoints that make a replay skip what was done; and the wake-ups     *)
(* that external events, ended executions and ended child runs send to     *)
(* the runs that wait for them.                                            *)
(*                                                                         *)
(* A handler is a program, a sequence of calls of the WorkflowContext; the *)
(* checkpoint of a call has its place in the program for a name.           *)
(***************************************************************************)
EXTENDS Naturals, Sequences, FiniteSets

CONSTANTS
    Runs,       \* workflow_runs.run_id
    Workers,    \* tasks of _workflow_worker_loop, of any process
    Events,     \* (event_type, correlation_id)
    MaxClaims,  \* bound on claims
    MaxFaulty,  \* the claims that a lapse or a crash may end, the first ones
    Worlds,     \* what a behaviour may contain: programs, roots and hazards
    None

\* A call: what it does, whom it is about, and whether it has a timeout.
Calls == [op : {"step", "sleep", "turn"}, of : {None}, timed : {FALSE}]
    \cup [op : {"event"}, of : Events, timed : BOOLEAN]
    \cup [op : {"start"}, of : Runs, timed : {FALSE}]
    \cup [op : {"child"}, of : Runs, timed : BOOLEAN]

\* "lapse":  a worker that lives loses its lease
\* "crash":  workers and notifiers die
\* "fail":   steps fail
\* "cancel": runs are cancelled
\* "twice":  events are sent twice
\* "unknown": processes come and go that do not have the handler
HazardNames == {"lapse", "crash", "fail", "cancel", "twice", "unknown"}

ASSUME EngineAssumption ==
    /\ MaxClaims \in Nat /\ MaxFaulty \in Nat
    /\ \A w \in Worlds : /\ w.program \in [Runs -> Seq(Calls)]
                         /\ w.roots \subseteq Runs
                         /\ w.hazards \subseteq HazardNames

VARIABLES
    world,
    run,        \* workflow_runs
    checkpoint, \* workflow_checkpoints, by run and place
    late,       \* calls whose wake time or deadline has passed
    event,      \* workflow_events: the payload
    turn,       \* the executions of agent turns, by run and place
    worker,     \* the workers
    notices,    \* the wake-ups under way
    claims,     \* number of claims, which makes worker_ids
    told,       \* runs whose failure is in the delivery outbox
    used        \* what workers went on with, by call

rows == <<run, checkpoint>>
vars == <<world, run, checkpoint, late, event, turn, worker, notices, claims, told, used>>

---------------------------------------------------------------------------
Hazard(h)  == h \in world.hazards
Program(r) == world.program[r]
Places     == UNION {UNION {DOMAIN w.program[r] : r \in Runs} : w \in Worlds}
Terminal   == {"completed", "failed", "cancelled"}
Suspended  == {"waiting", "sleeping"}
Ended(r)   == run[r].status \in Terminal

\* The ends of executions that are no cancels, and all of them.
Outcomes   == {"completed", "failed"}
Over(r, i) == turn[r][i] \in Outcomes \cup {"cancelled"}

\* A checkpoint is a result, a marker that the run waits, the wake time of a sleep,
\* or not there.
Nothing   == [kind |-> "none", v |-> None]
Marker    == [kind |-> "waiting", v |-> None]
WakeTime  == [kind |-> "wake", v |-> None]
Result(v) == [kind |-> "result", v |-> v]
IsResult(c) == c.kind = "result"

Now   == 0      \* values of available_at; a place stands for the time of its call
Never == None

NoRun == [status |-> "none", due |-> Now, owner |-> 0, leased |-> FALSE]

Init ==
    /\ world \in Worlds
    /\ run = [r \in Runs |-> IF r \in world.roots THEN [NoRun EXCEPT !.status = "queued"] ELSE NoRun]
    /\ checkpoint = [r \in Runs |-> [i \in Places |-> Nothing]]
    /\ late = {}
    /\ event = [e \in Events |-> None]
    /\ turn = [r \in Runs |-> [i \in Places |-> "none"]]
    /\ worker = [w \in Workers |-> None]
    /\ notices = {}
    /\ claims = 0
    /\ told = {}
    /\ used = [r \in Runs |-> [i \in Places |-> {}]]

(***************************************************************************)
(* Wake-ups: notify_execution_terminal, notify_workflow_run_terminal and   *)
(* the second half of send_workflow_event.  Each looks for the runs that   *)
(* wait, and then makes those claimable that still do.                     *)
(***************************************************************************)
\* What the call at i is about: <<"event", e>>, <<"run", r>> or <<"turn", r, i>>.
Topic(r, i) ==
    LET call == Program(r)[i]
    IN  CASE call.op = "event"            -> <<"event", call.of>>
          [] call.op \in {"start", "child"} -> <<"run", call.of>>
          [] call.op = "turn"             -> <<"turn", r, i>>
          [] OTHER                        -> <<None>>

Happened(t) == CASE t[1] = "event" -> event[t[2]] # None
                 [] t[1] = "run"   -> Ended(t[2])
                 [] t[1] = "turn"  -> Over(t[2], t[3])

Notice(t) == [topic |-> t, rows |-> None]

\* The runs a look for t finds: suspended, with a checkpoint that names t.
WaitingFor(t) ==
    {r \in Runs : /\ run[r].status \in Suspended
                  /\ \E i \in DOMAIN Program(r) :
                       /\ checkpoint[r][i] # Nothing /\ Topic(r, i) = t
                       /\ t[1] = "event" => checkpoint[r][i] = Marker}

FindWaiting(n) ==
    /\ n \in notices /\ n.rows = None
    /\ notices' = (notices \ {n}) \cup
         (IF WaitingFor(n.topic) = {} THEN {} ELSE {[n EXCEPT !.rows = WaitingFor(n.topic)]})
    /\ UNCHANGED <<world, rows, late, event, turn, worker, claims, told, used>>

Wake(n) ==
    /\ n \in notices /\ n.rows # None
    /\ run' = [r \in Runs |-> IF r \in n.rows /\ run[r].status \in Suspended
                              THEN [run[r] EXCEPT !.due = Now] ELSE run[r]]
    /\ notices' = notices \ {n}
    /\ UNCHANGED <<world, checkpoint, late, event, turn, worker, claims, told, used>>

\* send_workflow_event: the first payload wins.
SendEvent(e) ==
    /\ \A n \in notices : n.topic # <<"event", e>>
    /\ LET sent == event[e] # None
       IN  /\ sent => Hazard("twice") /\ event[e] = 1
           /\ \E v \in {1, 2} : event' = IF sent THEN event ELSE [event EXCEPT ![e] = v]
    /\ notices' = notices \cup {Notice(<<"event", e>>)}
    /\ UNCHANGED <<world, rows, late, turn, worker, claims, told, used>>

TurnEnds(r, i) ==
    /\ turn[r][i] \in {"running", "cancelling"}
    /\ \E s \in IF turn[r][i] = "running" THEN Outcomes ELSE {"cancelled"} :
         turn' = [turn EXCEPT ![r][i] = s]
    /\ notices' = notices \cup {Notice(<<"turn", r, i>>)}
    /\ UNCHANGED <<world, rows, late, event, worker, claims, told, used>>

\* cancel_execution writes over the end of an execution that ended since it looked.
CancelTurn(r, i) ==
    /\ Hazard("cancel") /\ turn[r][i] \in Outcomes
    /\ turn' = [turn EXCEPT ![r][i] = "cancelling"]
    /\ UNCHANGED <<world, rows, late, event, worker, notices, claims, told, used>>

\* cancel_workflow_run, with the executions its checkpoints name.
CancelRun(r) ==
    /\ Hazard("cancel") /\ run[r].status # "none" /\ ~Ended(r)
    /\ run' = [run EXCEPT ![r] = [@ EXCEPT !.status = "cancelled", !.owner = 0, !.leased = FALSE]]
    /\ turn' = [turn EXCEPT ![r] = [i \in Places |->
                  IF turn[r][i] = "running" /\ checkpoint[r][i] # Nothing THEN "cancelled" ELSE turn[r][i]]]
    /\ notices' = notices \cup {Notice(<<"run", r>>)}
    /\ UNCHANGED <<world, checkpoint, late, event, worker, claims, told, used>>

\* A wake time or a deadline passes.
TimePasses(r, i) ==
    /\ <<r, i>> \notin late /\ checkpoint[r][i] # Nothing
    /\ Program(r)[i].op = "sleep" \/ Program(r)[i].timed
    /\ late' = late \cup {<<r, i>>}
    /\ UNCHANGED <<world, rows, event, turn, worker, notices, claims, told, used>>

(***************************************************************************)
(* Claims and leases.                                                      *)
(***************************************************************************)
Due(r) == run[r].due = Now \/ <<r, run[r].due>> \in late

\* Mutant: what no worker owns.
ExpiredUnowned(r) == run[r].status = "running" /\ ~run[r].leased /\ run[r].owner = 0

Expired(r) == run[r].status = "running" /\ ~run[r].leased

\* Mutant: requeued with its worker_id.
RequeuedOwned(r) == IF Expired(r) THEN [run[r] EXCEPT !.status = "queued"] ELSE run[r]

\* _claim_run: every expired run is requeued, and one that is due is taken,
\* queued ones first and sleeping ones last.
Requeued(r) == IF Expired(r) THEN [NoRun EXCEPT !.status = "queued"] ELSE run[r]

Rank(r) == CASE Requeued(r).status = "queued"  -> 1
             [] run[r].status = "waiting" /\ Due(r)  -> 2
             [] run[r].status = "sleeping" /\ Due(r) -> 3
             [] OTHER -> 4

Claim(w) ==
    /\ worker[w] = None /\ claims < MaxClaims
    /\ \E r \in Runs :
         /\ Rank(r) < 4 /\ \A s \in Runs : Rank(r) <= Rank(s)
         /\ run' = [[s \in Runs |-> Requeued(s)] EXCEPT
                      ![r] = [status |-> "running", due |-> Now, owner |-> claims + 1, leased |-> TRUE]]
         /\ worker' = [worker EXCEPT ![w] =
              [id |-> claims + 1, run |-> r, pc |-> "load", at |-> 1, seen |-> <<>>,
               value |-> None, then |-> None, due |-> Never]]
    /\ claims' = claims + 1
    /\ UNCHANGED <<world, checkpoint, late, event, turn, notices, told, used>>

\* Heartbeats stop, with the worker's death or without.
LeaseLapses(r) ==
    /\ run[r].leased
    /\ \/ Hazard("lapse") /\ claims <= MaxFaulty
       \/ {w \in Workers : worker[w] # None /\ worker[w].id = run[r].owner} = {}
    /\ run' = [run EXCEPT ![r].leased = FALSE]
    /\ UNCHANGED <<world, checkpoint, late, event, turn, worker, notices, claims, told, used>>

Crash(w) ==
    /\ Hazard("crash") /\ worker[w] # None /\ claims <= MaxFaulty
    /\ worker' = [worker EXCEPT ![w] = None]
    /\ UNCHANGED <<world, rows, late, event, turn, notices, claims, told, used>>

LoseNotice(n) ==
    /\ Hazard("crash") /\ n \in notices
    /\ notices' = notices \ {n}
    /\ UNCHANGED <<world, rows, late, event, turn, worker, claims, told, used>>

(***************************************************************************)
(* A worker executes a handler.                                            *)
(***************************************************************************)
At(w, pc)     == worker[w] # None /\ worker[w].pc = pc
Place(w)      == worker[w].at
Run(w)        == worker[w].run
Call(w)       == Program(Run(w))[Place(w)]
Calling(w, op) == At(w, "call") /\ Place(w) \in DOMAIN Program(Run(w)) /\ Call(w).op \in op
Seen(w)       == worker[w].seen[Place(w)]
Owns(w)       == run[Run(w)].owner = worker[w].id

Goto(w, pc)     == worker' = [worker EXCEPT ![w].pc = pc]
Persist(w, v)   == worker' = [worker EXCEPT ![w].pc = "persist", ![w].value = v]
Finish(w, s)    == worker' = [worker EXCEPT ![w].pc = "finish", ![w].then = s]
Suspend(w, s, due) == worker' = [worker EXCEPT ![w].pc = IF s = "waiting" THEN "linked" ELSE "suspend",
                                               ![w].then = s, ![w].due = due]
\* The call returns v.
Use(w, v)  == used' = [used EXCEPT ![Run(w)][Place(w)] = @ \cup {v}]
GoOn(w, v) == Use(w, v) /\ worker' = [worker EXCEPT ![w].pc = "call", ![w].at = @ + 1]

LoadCheckpoints(w) ==
    /\ At(w, "load")
    /\ worker' = [worker EXCEPT ![w].seen = checkpoint[Run(w)], ![w].pc = "call"]
    /\ UNCHANGED <<world, rows, late, event, turn, notices, claims, told, used>>

\* Nobody registered a handler: the row is failed, whoever may have it now.
UnknownWorkflow(w) ==
    /\ At(w, "load") /\ Hazard("unknown")
    /\ run' = [run EXCEPT ![Run(w)] = [NoRun EXCEPT !.status = "failed"]]
    /\ Goto(w, "tell")
    /\ UNCHANGED <<world, checkpoint, late, event, turn, notices, claims, told, used>>

Return(w) ==
    /\ At(w, "call") /\ Place(w) \notin DOMAIN Program(Run(w))
    /\ Finish(w, "completed")
    /\ UNCHANGED <<world, rows, late, event, turn, notices, claims, told, used>>

\* What was done is not done again.
Replay(w) ==
    /\ Calling(w, {"step", "start", "event", "child"}) /\ IsResult(Seen(w))
    /\ GoOn(w, Seen(w).v)
    /\ UNCHANGED <<world, rows, late, event, turn, notices, claims, told>>

\* step: a side effect, with a result that differs from call to call.
Step(w) ==
    /\ Calling(w, {"step"}) /\ Seen(w) = Nothing
    /\ Persist(w, Result(worker[w].id)) \/ (Hazard("fail") /\ Finish(w, "failed"))
    /\ UNCHANGED <<world, rows, late, event, turn, notices, claims, told, used>>

\* do_agent_turn: the keys of what is enqueued are made from the run and the call.
DispatchTurn(w) ==
    /\ Calling(w, {"turn"}) /\ Seen(w) = Nothing
    /\ turn' = [turn EXCEPT ![Run(w)][Place(w)] = IF @ = "none" THEN "running" ELSE @]
    /\ Persist(w, Result("turn"))
    /\ UNCHANGED <<world, rows, late, event, notices, claims, told, used>>

AwaitTurn(w) ==
    /\ Calling(w, {"turn"}) /\ Seen(w) # Nothing
    /\ IF Over(Run(w), Place(w)) THEN GoOn(w, turn[Run(w)][Place(w)])
       ELSE Suspend(w, "waiting", Never) /\ UNCHANGED used
    /\ UNCHANGED <<world, rows, late, event, turn, notices, claims, told>>

\* start_workflow, with a trigger key: create_workflow_run.
StartChild(w) ==
    /\ Calling(w, {"start"}) /\ Seen(w) = Nothing
    /\ LET c == Call(w).of
       IN  run' = IF run[c].status = "none" THEN [run EXCEPT ![c].status = "queued"] ELSE run
    /\ Persist(w, Result("run"))
    /\ UNCHANGED <<world, checkpoint, late, event, turn, notices, claims, told, used>>

Sleep(w) ==
    /\ Calling(w, {"sleep"})
    /\ IF Seen(w) = Nothing THEN Persist(w, WakeTime) /\ UNCHANGED used
       ELSE IF <<Run(w), Place(w)>> \in late THEN GoOn(w, "slept")
       ELSE Suspend(w, "sleeping", Place(w)) /\ UNCHANGED used
    /\ UNCHANGED <<world, rows, late, event, turn, notices, claims, told>>

\* wait_for_event and wait_for_workflow: an answer, a timeout, or a marker.
Answer(w) == IF Call(w).op = "event" THEN event[Call(w).of] ELSE run[Call(w).of].status
Deadline(w) == IF Call(w).timed THEN Place(w) ELSE Never

LookForAnswer(w) ==
    /\ Calling(w, {"event", "child"}) /\ ~IsResult(Seen(w))
    /\ IF Happened(Topic(Run(w), Place(w))) THEN Persist(w, Result(Answer(w)))
       ELSE IF Seen(w) = Nothing THEN Persist(w, Marker)
       ELSE IF <<Run(w), Place(w)>> \in late THEN Finish(w, "failed")
       ELSE Suspend(w, "waiting", Deadline(w))
    /\ UNCHANGED <<world, rows, late, event, turn, notices, claims, told, used>>

\* Mutant: only a cancelled run is fenced off.
MayPersistAny(w) == run[Run(w)].status # "cancelled"

MayPersist(w) == run[Run(w)].status # "cancelled" /\ Owns(w)

\* _persist_checkpoint: the fence, the row and the lease, and back to the call.
PersistCheckpoint(w) ==
    /\ At(w, "persist")
    /\ LET v == worker[w].value
           seen == [worker EXCEPT ![w].seen[Place(w)] = v]
       IN  IF ~MayPersist(w)
           THEN Finish(w, "cancelled") /\ UNCHANGED <<rows, used>>
           ELSE /\ checkpoint' = [checkpoint EXCEPT ![Run(w)][Place(w)] = v]
                /\ run' = [run EXCEPT ![Run(w)].leased = @ \/ Owns(w)]
                /\ CASE v = Marker ->
                          worker' = [seen EXCEPT ![w].pc = "linked", ![w].then = "waiting",
                                                 ![w].due = Deadline(w)] /\ UNCHANGED used
                     [] v = WakeTime ->
                          worker' = [seen EXCEPT ![w].pc = "suspend", ![w].then = "sleeping",
                                                 ![w].due = Place(w)] /\ UNCHANGED used
                     [] Call(w).op = "turn" ->
                          worker' = [seen EXCEPT ![w].pc = "call"] /\ UNCHANGED used
                     [] OTHER ->
                          worker' = [seen EXCEPT ![w].pc = "call", ![w].at = @ + 1] /\ Use(w, v.v)
    /\ UNCHANGED <<world, late, event, turn, notices, claims, told>>

\* _linked_execution_is_terminal: of the last turn that the run has a checkpoint of.
CheckLinked(w) ==
    /\ At(w, "linked")
    /\ LET turns == {i \in DOMAIN Program(Run(w)) : /\ Program(Run(w))[i].op = "turn"
                                                    /\ checkpoint[Run(w)][i] # Nothing}
           over  == \E i \in turns : Over(Run(w), i) /\ \A j \in turns : j <= i
       IN  worker' = [worker EXCEPT ![w].pc = "suspend", ![w].due = IF over THEN Now ELSE @]
    /\ UNCHANGED <<world, rows, late, event, turn, notices, claims, told, used>>

\* Mutant: only a cancelled run is left alone.
MayUpdateAny(w) == run[Run(w)].status # "cancelled"

MayUpdate(w) == run[Run(w)].status = "running" /\ Owns(w)

\* SuspendWorkflow in _run_handler.
SuspendRun(w) ==
    /\ At(w, "suspend")
    /\ run' = IF MayUpdate(w)
              THEN [run EXCEPT ![Run(w)] = [status |-> worker[w].then, due |-> worker[w].due,
                                            owner |-> 0, leased |-> FALSE]]
              ELSE run
    /\ worker' = [worker EXCEPT ![w] = None]
    /\ UNCHANGED <<world, checkpoint, late, event, turn, notices, claims, told, used>>

\* The other ends of a handler that ran.
FinishRun(w) ==
    /\ At(w, "finish")
    /\ IF MayUpdate(w)
       THEN /\ run' = [run EXCEPT ![Run(w)] = [NoRun EXCEPT !.status = worker[w].then]]
            /\ Goto(w, IF worker[w].then = "failed" THEN "tell" ELSE "notify")
       ELSE worker' = [worker EXCEPT ![w] = None] /\ UNCHANGED run
    /\ UNCHANGED <<world, checkpoint, late, event, turn, notices, claims, told, used>>

\* _enqueue_workflow_failure_delivery.
TellFailure(w) ==
    /\ At(w, "tell")
    /\ told' = told \cup {Run(w)}
    /\ Goto(w, "notify")
    /\ UNCHANGED <<world, rows, late, event, turn, notices, claims, used>>

NotifyEnd(w) ==
    /\ At(w, "notify")
    /\ notices' = notices \cup {Notice(<<"run", Run(w)>>)}
    /\ worker' = [worker EXCEPT ![w] = None]
    /\ UNCHANGED <<world, rows, late, event, turn, claims, told, used>>

---------------------------------------------------------------------------
Work(w) ==
    \/ LoadCheckpoints(w) \/ UnknownWorkflow(w) \/ Return(w) \/ Replay(w) \/ Step(w)
    \/ DispatchTurn(w) \/ AwaitTurn(w) \/ StartChild(w) \/ Sleep(w) \/ LookForAnswer(w) \/ PersistCheckpoint(w) \/ CheckLinked(w)
    \/ SuspendRun(w) \/ FinishRun(w) \/ TellFailure(w) \/ NotifyEnd(w)

Next ==
    \/ \E w \in Workers : Claim(w) \/ Work(w) \/ Crash(w)
    \/ \E n \in notices : FindWaiting(n) \/ Wake(n) \/ LoseNotice(n)
    \/ \E e \in Events : SendEvent(e)
    \/ \E r \in Runs : CancelRun(r) \/ LeaseLapses(r)
    \/ \E r \in Runs, i \in Places : TurnEnds(r, i) \/ CancelTurn(r, i) \/ TimePasses(r, i)

Spec == Init /\ [][Next]_vars

\* Workers loop, and time passes.  Nobody has to send an event.
FairSpec == /\ Spec
            /\ \A w \in Workers : WF_vars(Work(w)) /\ WF_vars(Claim(w))
            /\ \A r \in Runs : WF_vars(LeaseLapses(r) /\ ~Hazard("lapse"))
            /\ \A r \in Runs, i \in Places : WF_vars(TimePasses(r, i))

---------------------------------------------------------------------------
(* Properties *)

\* Types; a run has an owner exactly while it runs, and an owner has one run.
TypeOK ==
    /\ \A r \in Runs :
         /\ run[r].status \in {"none", "queued", "running"} \cup Suspended \cup Terminal
         /\ run[r].due \in {Now, Never} \cup Places
         /\ run[r].owner # 0 <=> run[r].status = "running"
         /\ run[r].leased => run[r].status = "running"
         /\ \A i \in Places : IsResult(checkpoint[r][i]) \/ checkpoint[r][i] \in {Nothing, Marker, WakeTime}
    /\ \A r, s \in Runs : run[r].owner = run[s].owner => r = s \/ run[r].owner = 0

\* Whoever executes a handler, its calls return the same as the first time: a step's
\* result, an event's payload, a child's status, and the outcome of an agent turn,
\* which has no checkpoint but is read anew, are what they were, although
\* workers with lapsed leases go on, steps are done again after a crash, events
\* are sent twice and cancels come in between.  (Unless one comes over the turn.)
ReplayAgrees == \A r \in Runs : \A i \in Places :
    Cardinality(used[r][i]) <= 1 \/ turn[r][i] \in {"cancelling", "cancelled"}

\* A run that has ended keeps its checkpoints, and its status unless a process that
\* does not have its handler claimed it before, whatever workers that still execute
\* it, that find a step failed or that want to suspend it write.
EndedStaysEnded ==
    [][\A r \in Runs : Ended(r) =>
         /\ checkpoint'[r] = checkpoint[r]
         /\ \/ run'[r].status = run[r].status
            \/ \E w \in Workers : UnknownWorkflow(w) /\ Run(w) = r]_vars

\* A run that waits with a timeout or not at all ends, even if workers crash, lose
\* leases, and wake-ups are lost: the claim requeues what expired, and a
\* deadline makes the run claimable.  (Without a timeout it may hang, see WakesKept.)
Timed(r) == \A i \in DOMAIN Program(r) : Program(r)[i].op \in {"event", "child"} => Program(r)[i].timed
TurnFree(r) == \A i \in DOMAIN Program(r) : Program(r)[i].op # "turn"

TimedRunsEnd == \A r \in Runs : run[r].status = "queued" ~> Ended(r) \/ ~Timed(r) \/ ~TurnFree(r)

\* "Otherwise the run suspends and is woken when send_workflow_event() delivers the
\* matching event": a run that waits for ever waits for something that has not
\* happened, or somebody is about to wake it.
Waits(r) == {i \in DOMAIN Program(r) :
                /\ checkpoint[r][i] = Marker \/ (Program(r)[i].op = "turn" /\ checkpoint[r][i] # Nothing)
                /\ \A j \in DOMAIN Program(r) : j > i => checkpoint[r][j] = Nothing}

WakesKept ==
    \A r \in Runs : run[r].status = "waiting" /\ run[r].due = Never =>
        \A i \in Waits(r) :
            \/ ~Happened(Topic(r, i))
            \/ \E n \in notices : n.topic = Topic(r, i)
            \/ \E w \in Workers : worker[w] # None /\ <<"run", Run(w)>> = Topic(r, i)
=============================================================================
