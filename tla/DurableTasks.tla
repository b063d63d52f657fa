---------------------------- MODULE DurableTasks ----------------------------
(***************************************************************************)
(* Absurd, the durable task queue in Postgres that api-rs runs workflows   *)
(* on: the functions of migrations 0007 to 0009 (spawn_task, claim_task,   *)
(* complete_run, schedule_run, fail_run, retry_task, checkpoints, leases,  *)
(* await_event, emit_event, cancel_task), the worker of absurd-sdk that    *)
(* executes claimed runs, and the operations of a workflow's handler:      *)
(* steps, sleeps, events, agent turns and tool calls.                      *)
(*                                                                         *)
(* A task is a sequence of attempts, its runs; every run executes the      *)
(* handler from its beginning and finds the values of earlier steps in     *)
(* checkpoints.  Each function is one transaction that locks run, task and *)
(* event rows as it goes, and one action here, except the checkpoint       *)
(* function, whose SELECTs lock nothing.  Times are what is left of them:  *)
(* Tick makes them shorter.                                                *)
(***************************************************************************)
EXTENDS Naturals, Sequences, FiniteSets

CONSTANTS
    Tasks,      \* by their idempotency keys
    Workers,    \* execution slots of worker processes
    Events,
    Payloads,
    MaxRuns,    \* bound on the attempts of a task
    Lease,      \* claim_timeout, in ticks
    Worlds,     \* what a behaviour may contain, see below
    None, TimedOut

Runs  == 1 .. MaxRuns
Never == Lease + 2      \* longer than anything here lasts

(***************************************************************************)
(* What a handler does.  "step": compute and checkpoint.  "sleep": until a *)
(* time.  "event": wait for it, for ever or with a timeout of one tick,    *)
(* which the handler lets fail the run or ("try") handles.  "agent": an    *)
(* agent turn of a Python workflow, and "tool" its call_tool or            *)
(* post_to_slack outside of a step.  "turn": the agent turn of the         *)
(* built-in workflow agent_turn, within a step.                            *)
(***************************************************************************)
Ops == [kind : {"step", "sleep", "agent", "tool", "turn"}]
         \cup [kind : {"event"}, event : Events, timeout : {1, Never}, try : BOOLEAN]

\* "fail":    a step's computation fails
\* "crash":   a worker's process dies, once
\* "lapse":   leases lapse under working workers
\* "unknown": a worker claims a task it has not registered
\* "cancel", "retry": callers cancel tasks and retry failed ones
HazardNames == {"fail", "crash", "lapse", "unknown", "cancel", "retry"}

\* What steps and waits return, the rows of w_<queue> and those of c_<queue>.
Values      == Payloads \cup Nat \cup {TimedOut}
Waits       == [step : Nat, event : Events, timed : BOOLEAN]
Checkpoints == [val : Values, owner : Runs]

\* The workers and tasks there are, each task's handler, max_attempts, the delay of its
\* retry_strategy, cancellation's max_delay and max_duration, and the hazards.
WorldRecords == [workers  : SUBSET Workers,
                 tasks    : SUBSET Tasks,
                 program  : [Tasks -> Seq(Ops)],
                 attempts : Runs,
                 backoff  : 0 .. Never,
                 delay    : 0 .. Never,
                 duration : 0 .. Never,
                 hazards  : SUBSET HazardNames]

ASSUME DurableAssumption ==
    /\ MaxRuns \in Nat \ {0} /\ Lease \in Nat \ {0}
    /\ Worlds \subseteq WorldRecords
    /\ None \notin Payloads \cup Events \cup Nat \cup {TimedOut}
    /\ None \notin Waits \cup Checkpoints

VARIABLES
    world,
    task,       \* rows of t_<queue>
    run,        \* rows of r_<queue>, by task and attempt, with their row of w_<queue>
    checkpoint, \* rows of c_<queue>, by task and position of the step
    event,      \* payloads of e_<queue>
    agent,      \* executions of agent turns, by task
    exec,       \* what each worker executes
    torn,       \* history: tasks that lost a run within a call that writes a checkpoint
    crashed

vars == <<world, task, run, checkpoint, event, agent, exec, torn, crashed>>

---------------------------------------------------------------------------
Live     == {"pending", "running", "sleeping"}
Terminal == {"completed", "failed", "cancelled"}

NoTask == [state |-> "none", attempts |-> 0, max |-> 0, last |-> 0, started |-> FALSE, life |-> Never]
NoRun  == [state |-> "none", lease |-> Never, avail |-> 0, wake |-> None, wait |-> None]
Idle   == [pc |-> "idle"]

Hazard(h)    == h \in world.hazards
Op(t, i)     == world.program[t][i]
Positions(t) == 1 .. Len(world.program[t])
Larger(a, b) == IF a > b THEN a ELSE b
Unless(c, r) == IF c THEN None ELSE r

\* A new row of r_<queue>, due after d.
NewRun(d) == [NoRun EXCEPT !.state = IF d = 0 THEN "pending" ELSE "sleeping", !.avail = d]

\* Functions that call each other take the rows and return what they leave.
Tables    == [task |-> task, run |-> run]
Store(db) == task' = db.task /\ run' = db.run

\* Mutant: runs that sleep are left alone.
CancelsAwake(r) == r.state \in {"pending", "running"}

\* The runs a cancelled task takes along.
Cancels(r) == r.state \in Live

\* cancel_task, for a set of tasks.
CancelTasks(db, S) ==
    LET C == {t \in S : db.task[t].state \in Live}
    IN  IF C = {} THEN db
        ELSE
        [task |-> [t \in Tasks |-> IF t \in C THEN [db.task[t] EXCEPT !.state = "cancelled"]
                                              ELSE db.task[t]],
         run  |-> [t \in Tasks |-> [n \in Runs |->
                     IF t \in C /\ Cancels(db.run[t][n])
                     THEN [NoRun EXCEPT !.state = "cancelled"] ELSE db.run[t][n]]]]

\* Mutant: one attempt more.
MoreAttemptsOff(k, n) == n <= k.max

MoreAttempts(k, n) == n + 1 <= k.max

\* fail_run, on a run that is running or sleeping: the next attempt enters the
\* queue unless there are no more, or max_duration would be over by then.
FailRun(db, t, n) ==
    LET k      == db.task[t]
        more   == MoreAttempts(k, n)
        late   == k.started /\ k.life <= world.backoff
        next   == NewRun(world.backoff)
        failed == [db.run[t] EXCEPT ![n] = [NoRun EXCEPT !.state = "failed"]]
    IN  IF more /\ ~late
        THEN [task |-> [db.task EXCEPT ![t] = [k EXCEPT !.state = next.state, !.last = n + 1,
                                                        !.attempts = Larger(@, n + 1)]],
              run  |-> [db.run EXCEPT ![t] = [failed EXCEPT ![n + 1] = next]]]
        ELSE [task |-> [db.task EXCEPT ![t] = [k EXCEPT !.state = IF more THEN "cancelled" ELSE "failed",
                                                        !.last = n]],
              run  |-> [db.run EXCEPT ![t] = failed]]

\* The UPDATEs of claim_task, on a run that is due.
ClaimRun(db, t, n) ==
    LET k == db.task[t]
        r == db.run[t][n]
    IN  [task |-> [db.task EXCEPT ![t] = [k EXCEPT
                      !.state = "running", !.last = n, !.attempts = Larger(@, n),
                      !.started = TRUE, !.life = IF k.started THEN @ ELSE world.duration]],
         run  |-> [db.run EXCEPT ![t][n] = [r EXCEPT
                      !.state = "running", !.lease = Lease,
                      !.wait = Unless(r.wait # None /\ r.wait.timed, @)]]]

\* The run sleeps for d, for an event or not, and its worker is done with it.
Suspend(t, n, d, wake, wait) ==
    /\ task' = [task EXCEPT ![t].state = "sleeping"]
    /\ run'  = [run EXCEPT ![t][n] = [state |-> "sleeping", lease |-> Never, avail |-> d,
                                      wake |-> wake, wait |-> wait]]

\* Mutant: the sweep looks at runs that can be retried only.
ExpiredRetriable(db) == {x \in Tasks \X Runs : /\ db.run[x[1]][x[2]].state = "running"
                                               /\ db.run[x[1]][x[2]].lease = 0
                                               /\ x[2] < db.task[x[1]].max}

\* What a claim sweeps, and what it may take.
Expired(db) == {x \in Tasks \X Runs : /\ db.run[x[1]][x[2]].state = "running"
                                      /\ db.run[x[1]][x[2]].lease = 0}
Due(db)     == {x \in Tasks \X Runs : /\ db.run[x[1]][x[2]].state \in {"pending", "sleeping"}
                                      /\ db.task[x[1]].state \in Live
                                      /\ db.run[x[1]][x[2]].avail = 0}

---------------------------------------------------------------------------
Init ==
    /\ world \in Worlds
    /\ task = [t \in Tasks |-> NoTask]
    /\ run  = [t \in Tasks |-> [n \in Runs |-> NoRun]]
    /\ checkpoint = [t \in Tasks |-> [i \in Positions(t) |-> None]]
    /\ event = [e \in Events |-> None]
    /\ agent = [t \in Tasks |-> {}]
    /\ exec = [w \in Workers |-> Idle]
    /\ torn = {}
    /\ crashed = FALSE

(***************************************************************************)
(* Callers.                                                                *)
(***************************************************************************)
\* spawn_task.  A key that exists returns its task and changes nothing.
Spawn(t) ==
    /\ t \in world.tasks /\ task[t].state = "none"
    /\ Store([task |-> [task EXCEPT ![t] = [state |-> "pending", attempts |-> 1, last |-> 1,
                           max |-> world.attempts, started |-> FALSE, life |-> world.delay]],
              run  |-> [run EXCEPT ![t][1] = NewRun(0)]])
    /\ UNCHANGED <<world, checkpoint, event, agent, exec, torn, crashed>>

\* cancel_task.
Cancel(t) ==
    /\ Hazard("cancel") /\ task[t].state \in Live
    /\ Store(CancelTasks(Tables, {t}))
    /\ UNCHANGED <<world, checkpoint, event, agent, exec, torn, crashed>>

\* retry_task, in place and with the default of max_attempts.
Retry(t) ==
    /\ Hazard("retry") /\ task[t].state = "failed" /\ task[t].attempts < MaxRuns
    /\ LET n == task[t].attempts + 1
       IN  Store([task |-> [task EXCEPT ![t] = [task[t] EXCEPT !.state = "pending", !.attempts = n,
                                                               !.max = @ + 1, !.last = n]],
                  run  |-> [run EXCEPT ![t][n] = NewRun(0)]])
    /\ UNCHANGED <<world, checkpoint, event, agent, exec, torn, crashed>>

\* Mutant: every wait with a timeout is over.
WaitOverEarly(r) == r.wait.timed

\* The wait's timeout is past.
WaitOver(r) == r.wait.timed /\ r.avail = 0

\* emit_event.  The first payload stays; its waits are resolved.
Emit(e, p) ==
    /\ event[e] = None
    /\ event' = [event EXCEPT ![e] = p]
    /\ LET waits    == {x \in Tasks \X Runs : /\ run[x[1]][x[2]].wait # None
                                              /\ run[x[1]][x[2]].wait.event = e}
           expired  == {x \in waits : WaitOver(run[x[1]][x[2]])}
           resolved == {x \in waits \ expired : run[x[1]][x[2]].state = "sleeping"}
       IN  /\ run' = [t \in Tasks |-> [n \in Runs |->
                        IF <<t, n>> \in resolved THEN NewRun(0)
                        ELSE [run[t][n] EXCEPT !.wait = Unless(<<t, n>> \in expired, @)]]]
           /\ task' = [t \in Tasks |-> IF \E n \in Runs : <<t, n>> \in resolved
                                       THEN [task[t] EXCEPT !.state = "pending"] ELSE task[t]]
           /\ checkpoint' = [t \in Tasks |-> [i \in Positions(t) |->
                               IF \E n \in Runs : <<t, n>> \in resolved /\ run[t][n].wait.step = i
                               THEN [val |-> p, owner |-> CHOOSE n \in Runs :
                                        <<t, n>> \in resolved /\ run[t][n].wait.step = i]
                               ELSE checkpoint[t][i]]]
    /\ UNCHANGED <<world, agent, exec, torn, crashed>>

(***************************************************************************)
(* A worker's claim: overdue tasks are cancelled, one run whose lease is   *)
(* over is failed, and one that is due is claimed.                         *)
(***************************************************************************)
Execution(t, n) == [pc |-> "load", task |-> t, run |-> n, step |-> 1, requests |-> 0, key |-> 0,
                    value |-> None, seen |-> [i \in Positions(t) |-> None], fenced |-> 0]

\* A worker is in the middle of a call that writes a checkpoint of the run.
Writing(t, n) == \E w \in Workers : /\ exec[w] # Idle /\ exec[w].pc = "write"
                                    /\ exec[w].task = t /\ exec[w].run = n

\* The claim proper, on what the sweep left; nothing may be due.
Take(w, db) ==
    \/ /\ Due(db) = {}
       /\ Store(db)
       /\ UNCHANGED exec
    \/ \E x \in Due(db) :
         /\ Store(ClaimRun(db, x[1], x[2]))
         /\ exec' = [exec EXCEPT ![w] = Execution(x[1], x[2])]

Claim(w) ==
    /\ exec[w] = Idle
    /\ LET kept == CancelTasks(Tables, {t \in Tasks : task[t].life = 0})
       IN  \/ Expired(kept) = {} /\ Take(w, kept) /\ UNCHANGED torn
           \/ \E x \in Expired(kept) :
                /\ Take(w, FailRun(kept, x[1], x[2]))
                /\ torn' = IF Writing(x[1], x[2]) THEN torn \cup {x[1]} ELSE torn
    /\ UNCHANGED <<world, checkpoint, event, agent, crashed>>

(***************************************************************************)
(* execute_task.                                                           *)
(***************************************************************************)
At(w, pc)       == exec[w] # Idle /\ exec[w].pc = pc
Here(w)         == Op(exec[w].task, exec[w].step)
AtOp(w, kinds)  == /\ At(w, "next")
                   /\ exec[w].step \in Positions(exec[w].task)
                   /\ Here(w).kind \in kinds
RunOf(w)        == run[exec[w].task][exec[w].run]
TaskOf(w)       == task[exec[w].task]
Holds(w)        == RunOf(w).state = "running"
Saved(w)        == checkpoint[exec[w].task][exec[w].step]

Goto(w, pc)     == exec' = [exec EXCEPT ![w].pc = pc]
Leave(w)        == exec' = [exec EXCEPT ![w] = Idle]
\* The operation returns v and the handler goes on.
Return(w, v)    == exec' = [exec EXCEPT ![w] = [exec[w] EXCEPT !.pc = "next", !.step = @ + 1,
                                                         !.seen[exec[w].step] = v]]
\* Something is done in the world outside, maybe after the run was taken away.
Outside(w)      == exec[w].fenced + (IF Holds(w) THEN 0 ELSE 1)

\* A worker that has not registered the task puts it off.
Defer(w) ==
    /\ Hazard("unknown") /\ At(w, "load")
    /\ IF Holds(w) THEN Suspend(exec[w].task, exec[w].run, 1, None, RunOf(w).wait) /\ Leave(w)
                   ELSE Goto(w, "fail") /\ UNCHANGED <<task, run>>
    /\ UNCHANGED <<world, checkpoint, event, agent, torn, crashed>>

\* TaskContext::create: checkpoints of this attempt and earlier ones.
LoadCheckpoints(w) ==
    /\ At(w, "load")
    /\ LET t == exec[w].task
       IN  exec' = [exec EXCEPT ![w] = [exec[w] EXCEPT !.pc = "start",
               !.seen = [i \in Positions(t) |->
                   IF /\ checkpoint[t][i] # None /\ checkpoint[t][i].owner <= exec[w].run
                      /\ Op(t, i).kind # "sleep"
                   THEN checkpoint[t][i].val ELSE None]]]
    /\ UNCHANGED <<world, task, run, checkpoint, event, agent, torn, crashed>>

\* The heartbeat before the handler; its failure fails the run.
Start(w) ==
    /\ At(w, "start")
    /\ IF Holds(w)
       THEN run' = [run EXCEPT ![exec[w].task][exec[w].run].lease = Lease] /\ Goto(w, "next")
       ELSE Goto(w, "fail") /\ UNCHANGED run
    /\ UNCHANGED <<world, task, checkpoint, event, agent, torn, crashed>>

\* Later heartbeats, whose failures are logged only.
Heartbeat(w) ==
    /\ exec[w] # Idle /\ exec[w].pc \notin {"load", "start", "fail"}
    /\ Holds(w) /\ RunOf(w).lease # Lease
    /\ run' = [run EXCEPT ![exec[w].task][exec[w].run].lease = Lease]
    /\ UNCHANGED <<world, task, checkpoint, event, agent, exec, torn, crashed>>

\* begin_step: the value in the cache or in the table, or the step is to do.
BeginStep(w) ==
    /\ AtOp(w, {"step", "turn"})
    /\ LET cached == exec[w].seen[exec[w].step]
           known  == IF cached # None THEN cached ELSE IF Saved(w) # None THEN Saved(w).val ELSE None
       IN  exec' = [exec EXCEPT ![w] = [exec[w] EXCEPT
                      !.requests = @ + 1,
                      !.pc = IF known # None THEN "next" ELSE "effect",
                      !.step = IF known # None THEN @ + 1 ELSE @,
                      !.seen[exec[w].step] = known]]
    /\ UNCHANGED <<world, task, run, checkpoint, event, agent, torn, crashed>>

\* The computation of a step.  Its value tells the attempt it is from.
Effect(w) ==
    /\ At(w, "effect") /\ Here(w).kind = "step"
    /\ \/ exec' = [exec EXCEPT ![w] = [exec[w] EXCEPT !.pc = "put", !.value = exec[w].run,
                                                !.fenced = Outside(w)]]
       \/ Hazard("fail") /\ Goto(w, "fail")
    /\ UNCHANGED <<world, task, run, checkpoint, event, agent, torn, crashed>>

\* Mutants: only a cancelled task refuses checkpoints; or one that is over.
TakenAwayCancelled(w) == TaskOf(w).state = "cancelled"
TakenAwayTask(w)      == TaskOf(w).state \in {"cancelled", "failed"}

TakenAway(w) == TaskOf(w).state = "cancelled" \/ RunOf(w).state = "failed"

\* set_task_checkpoint_state: the states are read without a lock ...
CheckOwner(w) ==
    /\ At(w, "put")
    /\ IF TakenAway(w)
       THEN Leave(w)
       ELSE exec' = [exec EXCEPT ![w] = [exec[w] EXCEPT !.pc = "write", !.requests = @ + 1]]
    /\ UNCHANGED <<world, task, run, checkpoint, event, agent, torn, crashed>>

\* A later attempt's value stays.
MayWrite(w) == Saved(w) = None \/ Saved(w).owner <= exec[w].run

Put(w) == checkpoint' = [checkpoint EXCEPT ![exec[w].task][exec[w].step] =
                           [val |-> exec[w].value, owner |-> exec[w].run]]

\* The call returns; a sleep has its time then, and has yet to begin.
Persisted(w) == IF Here(w).kind = "sleep" THEN Goto(w, "next") ELSE Return(w, exec[w].value)

\* ... then the claim is extended, if it still is one.  Until the end of the
\* call that locks the run against a sweep, so that no later attempt is there
\* when the owner of the value is looked up and the value written.
WriteCheckpoint(w) ==
    /\ At(w, "write") /\ Holds(w)
    /\ run' = [run EXCEPT ![exec[w].task][exec[w].run].lease = Lease]
    /\ IF MayWrite(w) THEN Put(w) ELSE UNCHANGED checkpoint
    /\ Persisted(w)
    /\ UNCHANGED <<world, task, event, agent, torn, crashed>>

\* Of a run that is gone nothing is locked: the owner is looked up ...
LookUpOwner(w) ==
    /\ At(w, "write") /\ ~Holds(w)
    /\ IF MayWrite(w) THEN Goto(w, "overwrite") ELSE Persisted(w)
    /\ UNCHANGED <<world, task, run, checkpoint, event, agent, torn, crashed>>

\* ... and the value is written over whatever there is by then.
Overwrite(w) ==
    /\ At(w, "overwrite")
    /\ Put(w)
    /\ Persisted(w)
    /\ UNCHANGED <<world, task, run, event, agent, torn, crashed>>

\* sleep_until: the time is a checkpoint, and the run is scheduled for it.
SleepUntil(w) ==
    /\ AtOp(w, {"sleep"})
    /\ \/ /\ Saved(w) = None
          /\ exec' = [exec EXCEPT ![w] = [exec[w] EXCEPT !.pc = "put", !.value = 1]]
          /\ UNCHANGED <<task, run>>
       \/ /\ Saved(w) # None /\ Saved(w).val = 0
          /\ Return(w, 0)
          /\ UNCHANGED <<task, run>>
       \/ /\ Saved(w) # None /\ Saved(w).val > 0
          /\ IF Holds(w)
             THEN /\ Suspend(exec[w].task, exec[w].run, Saved(w).val, None, RunOf(w).wait)
                  /\ Leave(w)
             ELSE Goto(w, "fail") /\ UNCHANGED <<task, run>>
    /\ UNCHANGED <<world, checkpoint, event, agent, torn, crashed>>

\* call_tool and post_to_slack of a Python workflow: something happens outside,
\* and nothing of it is kept.
CallTool(w) ==
    /\ AtOp(w, {"tool"})
    /\ \/ exec' = [exec EXCEPT ![w] = [exec[w] EXCEPT
                      !.pc = "next", !.step = @ + 1, !.seen[exec[w].step] = exec[w].run,
                      !.requests = @ + 1, !.fenced = Outside(w)]]
       \/ Hazard("fail") /\ Goto(w, "fail")
    /\ UNCHANGED <<world, task, run, checkpoint, event, agent, torn, crashed>>

(***************************************************************************)
(* await_event.  (event_payload is not modelled: it is set only where      *)
(* wake_event is not, and then equals the payload of the event.)           *)
(***************************************************************************)
AwaitEvent(w) ==
    /\ AtOp(w, {"event"})
    /\ LET t == exec[w].task
           n == exec[w].run
           i == exec[w].step
           e == Here(w).event
           cached == exec[w].seen[i]
       IN  \/ \* The value is known, or the event has been emitted.
              /\ cached # None \/ Saved(w) # None \/ (Holds(w) /\ event[e] # None)
              /\ LET v == IF cached # None THEN cached
                          ELSE IF Saved(w) # None THEN Saved(w).val ELSE event[e]
                 IN  /\ Return(w, v)
                     /\ checkpoint' = IF cached # None \/ Saved(w) # None THEN checkpoint
                                      ELSE [checkpoint EXCEPT ![t][i] = [val |-> v, owner |-> n]]
              /\ UNCHANGED <<task, run>>
           \/ /\ cached = None /\ Saved(w) = None
              /\ UNCHANGED checkpoint
              /\ \/ /\ TaskOf(w).state = "cancelled" /\ Leave(w) /\ UNCHANGED <<task, run>>
                 \/ /\ TaskOf(w).state # "cancelled" /\ ~Holds(w)
                    /\ Goto(w, "fail") /\ UNCHANGED <<task, run>>
                 \/ \* Woken by the timeout.
                    /\ Holds(w) /\ event[e] = None /\ RunOf(w).wake = e
                    /\ run' = [run EXCEPT ![t][n].wake = None]
                    /\ IF Here(w).try THEN Return(w, TimedOut) ELSE Goto(w, "fail")
                    /\ UNCHANGED task
                 \/ /\ Holds(w) /\ event[e] = None /\ RunOf(w).wake # e
                    /\ Suspend(t, n, Here(w).timeout, e,
                               [step |-> i, event |-> e, timed |-> Here(w).timeout # Never])
                    /\ Leave(w)
    /\ UNCHANGED <<world, event, agent, torn, crashed>>

(***************************************************************************)
(* Agent turns: run_agent_session_turn starts the execution with this      *)
(* idempotency key or finds the one there is, and waits for its end.  The  *)
(* built-in workflow has one key; a Python workflow's is the number of the *)
(* request its host makes.                                                 *)
(***************************************************************************)
TurnKey(w) == IF Here(w).kind = "turn" THEN 0 ELSE exec[w].requests + 1

AskAgent(w) ==
    /\ AtOp(w, {"agent"}) \/ (At(w, "effect") /\ Here(w).kind = "turn")
    /\ LET t   == exec[w].task
           key == TurnKey(w)
           new == \A a \in agent[t] : a.key # key
       IN  /\ agent' = IF new THEN [agent EXCEPT ![t] = @ \cup
                                      {[key |-> key, call |-> exec[w].step, status |-> "running"]}]
                       ELSE agent
           /\ exec' = [exec EXCEPT ![w] = [exec[w] EXCEPT !.pc = "wait", !.key = key, !.requests = @ + 1,
                                     !.fenced = IF new THEN Outside(w) ELSE @]]
    /\ UNCHANGED <<world, task, run, checkpoint, event, torn, crashed>>

\* The session's execution ends, whoever waits for it.
AgentEnds(t) ==
    \E a \in agent[t], status \in {"completed", "failed"} :
        /\ a.status = "running"
        /\ status = "failed" => Hazard("fail")
        /\ agent' = [agent EXCEPT ![t] = (@ \ {a}) \cup {[a EXCEPT !.status = status]}]
        /\ UNCHANGED <<world, task, run, checkpoint, event, exec, torn, crashed>>

AgentAnswers(w) ==
    /\ At(w, "wait")
    /\ \E a \in agent[exec[w].task] :
        /\ a.key = exec[w].key /\ a.status # "running"
        /\ CASE a.status = "failed"     -> Goto(w, "fail")
             [] Here(w).kind = "agent"  -> Return(w, a.call)
             [] OTHER -> exec' = [exec EXCEPT ![w] = [exec[w] EXCEPT !.pc = "put", !.value = a.call]]
    /\ UNCHANGED <<world, task, run, checkpoint, event, agent, torn, crashed>>

\* complete_run, which only a running run allows.
Complete(w) ==
    /\ At(w, "next") /\ exec[w].step \notin Positions(exec[w].task)
    /\ Leave(w)
    /\ IF Holds(w)
       THEN Store([task |-> [task EXCEPT ![exec[w].task] = [@ EXCEPT !.state = "completed",
                                                                    !.last = exec[w].run]],
                   run  |-> [run EXCEPT ![exec[w].task][exec[w].run] =
                               [NoRun EXCEPT !.state = "completed"]]])
       ELSE UNCHANGED <<task, run>>
    /\ UNCHANGED <<world, checkpoint, event, agent, torn, crashed>>

\* fail_run by the worker.
Fail(w) ==
    /\ At(w, "fail")
    /\ Leave(w)
    /\ IF RunOf(w).state \in {"running", "sleeping"}
       THEN Store(FailRun(Tables, exec[w].task, exec[w].run))
       ELSE UNCHANGED <<task, run>>
    /\ UNCHANGED <<world, checkpoint, event, agent, torn, crashed>>

\* A call that is under way in Postgres goes through before its process dies.
Crash(w) ==
    /\ Hazard("crash") /\ ~crashed
    /\ exec[w] # Idle /\ exec[w].pc \notin {"write", "overwrite"}
    /\ crashed' = TRUE
    /\ Leave(w)
    /\ UNCHANGED <<world, task, run, checkpoint, event, agent, torn>>

(***************************************************************************)
(* Time.  A worker keeps its lease except in worlds with lapses.           *)
(***************************************************************************)
Less(d) == IF d \in {0, Never} THEN d ELSE d - 1

Tick ==
    /\ \A w \in Workers : exec[w] # Idle /\ Holds(w) /\ ~Hazard("lapse") => RunOf(w).lease > 1
    /\ task' = [t \in Tasks |-> [task[t] EXCEPT !.life = IF task[t].state \in Live THEN Less(@) ELSE @]]
    /\ run'  = [t \in Tasks |-> [n \in Runs |->
                  [run[t][n] EXCEPT !.lease = Less(@), !.avail = Less(@)]]]
    /\ checkpoint' = [t \in Tasks |-> [i \in Positions(t) |->
                        IF Op(t, i).kind = "sleep" /\ checkpoint[t][i] # None
                        THEN [checkpoint[t][i] EXCEPT !.val = Less(@)] ELSE checkpoint[t][i]]]
    /\ UNCHANGED <<world, event, agent, exec, torn, crashed>>

Execute(w) ==
    \/ Defer(w) \/ LoadCheckpoints(w) \/ Start(w) \/ BeginStep(w) \/ Effect(w)
    \/ CheckOwner(w) \/ WriteCheckpoint(w) \/ LookUpOwner(w) \/ Overwrite(w)
    \/ SleepUntil(w) \/ CallTool(w) \/ AwaitEvent(w) \/ AskAgent(w) \/ AgentAnswers(w)
    \/ Complete(w) \/ Fail(w)

Next ==
    \/ \E t \in Tasks : Spawn(t) \/ Cancel(t) \/ Retry(t) \/ AgentEnds(t)
    \/ \E e \in Events, p \in Payloads : Emit(e, p)
    \/ \E w \in world.workers : Claim(w) \/ Execute(w) \/ Heartbeat(w) \/ Crash(w)
    \/ Tick

Spec == Init /\ [][Next]_vars

\* Workers poll and execute, agent turns end and time passes.
Working == /\ \A w \in Workers : WF_vars(w \in world.workers /\ (Claim(w) \/ Execute(w)))
           /\ \A t \in Tasks : WF_vars(AgentEnds(t))
           /\ WF_vars(Tick)
FairSpec == Spec /\ Working

---------------------------------------------------------------------------
(* Properties *)

TypeOK ==
    /\ task \in [Tasks -> [state : Live \cup Terminal \cup {"none"}, attempts : 0 .. MaxRuns,
                           max : 0 .. MaxRuns, last : 0 .. MaxRuns, started : BOOLEAN,
                           life : 0 .. Never]]
    /\ \A t \in Tasks : task[t].attempts <= task[t].max
    /\ \A t \in Tasks, n \in Runs :
         /\ run[t][n].state \in Live \cup Terminal \cup {"none"}
         /\ run[t][n].lease \in 0 .. Never /\ run[t][n].avail \in 0 .. Never
         /\ run[t][n].wait # None => run[t][n].wait.step \in Positions(t)
    /\ torn \subseteq Tasks
    /\ \A w \in Workers : exec[w] = Idle \/ exec[w].step \in 1 .. Len(world.program[exec[w].task]) + 1

\* A task that is not over has exactly one run that is not over, its latest,
\* and agrees with it on the state; a task that is over has none.  Rows of both
\* tables are written by claims, sweeps, waits, emitters, retries and cancels.
OneLiveRun ==
    \A t \in Tasks :
        LET live == {n \in Runs : run[t][n].state \in Live}
        IN  IF task[t].state \in Live
            THEN live = {task[t].attempts} /\ run[t][task[t].attempts].state = task[t].state
            ELSE live = {}

Replayed(t, i) == Op(t, i).kind \in {"step", "turn", "event"}

\* A handler whose run still is the task's has gone on with the values that
\* any later attempt will find in its checkpoints, whatever the attempts
\* before still compute, report and write.  (The exception is a lease that was
\* over, and swept, within a call of set_task_checkpoint_state: such a call may
\* write over what a later attempt has written meanwhile.)
ReplayAgrees ==
    \A w \in Workers :
        exec[w] # Idle /\ Holds(w) /\ exec[w].task \notin torn =>
            \A i \in 1 .. exec[w].step - 1 :
                Replayed(exec[w].task, i) /\ exec[w].seen[i] # TimedOut =>
                    /\ checkpoint[exec[w].task][i] # None
                    /\ checkpoint[exec[w].task][i].val = exec[w].seen[i]

\* It does things outside of steps, for which no checkpoint is written.
Unfenced(t) == \E i \in Positions(t) : Op(t, i).kind \in {"agent", "tool"}

\* Where a handler does what it does outside within steps ("Any external write
\* should be wrapped in ctx.step(...)", docs/public/md/extend/workflows-v2.md:94),
\* a worker whose run was failed or cancelled under it computes at most one
\* step more before a checkpoint tells it.
FencedSoon ==
    \A w \in Workers : exec[w] # Idle /\ ~Unfenced(exec[w].task) => exec[w].fenced <= 1

\* A run that sleeps on an event that was emitted is due: the wait was
\* resolved, or its timeout had passed.
NoLostWakeup ==
    \A t \in Tasks, n \in Runs :
        LET r == run[t][n]
        IN  r.state = "sleeping" /\ r.avail > 0 =>
                /\ r.wake # None => event[r.wake] = None
                /\ r.wait # None => event[r.wait.event] = None

\* Each agent turn of a handler returns the answer to that turn.
AnswersOwnCall ==
    \A w \in Workers :
        exec[w] # Idle =>
            \A i \in 1 .. exec[w].step - 1 :
                Op(exec[w].task, i).kind = "agent" => exec[w].seen[i] = i

\* It waits for an event that was not emitted.
Waiting(t) == \E n \in Runs : /\ run[t][n].state = "sleeping" /\ run[t][n].wait # None
                              /\ ~run[t][n].wait.timed

\* Every task ends or waits for an event, through failures, crashes and leases that
\* lapse, unless no worker knows its handler: no run is left claimed by nobody.
EveryTaskEnds ==
    \A t \in Tasks :
        task[t].state \in Live ~> task[t].state \in Terminal \/ Waiting(t) \/ Hazard("unknown")
=============================================================================
