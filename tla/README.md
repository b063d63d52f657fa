# Centaur, verified

Centaur (this repository, internally *warrunner*) turns chat messages and API
calls into agent turns that run in sandboxes, and gets an answer back to the
person who asked. This directory holds TLA+ models of the parts of it that are
hard to test, the TLC runs that check them on small instances, and TLAPS proofs
of what matters most for instances of every size. `PROJECT.json` holds the same
in a form tools can read: components, runs, hazards, and the map from each
definition to the source lines it stands for.

## 1. Inventory

### Components

| Component | Source | State it keeps | Operations |
|---|---|---|---|
| Execution lifecycle | `services/api/api/runtime_control.py` | `agent_execution_requests` (status, worker lease, claimed_at, durable_turn_id, deadlines, metadata), `agent_runtime_assignments` | spawn, enqueue, claim, process, finalize, cancel, release, requeue, recover, reap |
| Final delivery | `routers/agent.py`, `final_delivery.py`, the bots' `final-delivery.ts` | `agent_final_delivery_outbox` (state, lease owner and expiry, attempts, next attempt) | publish, claim, heartbeat, delivered, failed; poll, post |
| Turn delivery | `api/agent.py`, `append_message` in `runtime_control.py` | `agent_message_requests`, `sandbox_sessions` (cursor, in-flight turn, last result, wire lease) | append, inject, replay, stream, complete, reconnect, supervise |
| Sessions and sandboxes | `api/agent.py`, `warm_pool.py`, `sandbox/kubernetes.py` | `sandbox_sessions.state`, backend pods, warm pool entries, the per-process runtime table | get_or_spawn, stop, pause, evict, reconcile, release stale assignments, replenish |
| Workflow engine | `workflow_engine.py`, `workflows/*.py` | `workflow_runs`, `workflow_checkpoints`, events, schedules | create, claim, execute, suspend, checkpoint, notify, cancel, requeue, schedule |
| Session runtime (Rust) | `services/api-rs/crates/centaur-session-runtime`, `-session-sqlx` | `session_executions`, `sessions`, `session_warm_sandboxes`, pipes and spans in memory | execute, steer, pump stdout, complete, fail, adopt orphans, idle pause, drain |
| Durable tasks (Rust, SQL) | `absurd-sdk`, migrations `0007`-`0009`, `centaur-workflows` | absurd task, run, checkpoint, wait and event tables | spawn, claim, complete, fail, schedule, await and emit events, cancel, retry |
| Sandbox manager (Rust) | `centaur-sandbox-*` | pods, warm pool | create, pause, resume, stop, claim |
| Harness server | `crates/harness-server` | one agent process per sandbox | turns, steering, interrupts |
| Discord bot | `services/discordbot` | pollers, typing | ingest, deliver |
| Slack bots | `services/slackbot`, `slackbotv2` | renderers of live turns, pollers | ingest, stream, deliver |
| API server (Rust) | `centaur-api-server` | none of its own | routes over the session runtime and the tasks |
| Tools, egress, secrets | `tool_manager.py`, `iron-proxy`, `proxy_config.py`, `broker_config.py`, `centaur_sdk`, `tools/` | plugin registry, proxy tokens | discover, call, inject credentials |
| Ingest and observability | `retention.py`, `observability.py`, `vm_metrics.py`, workflow ETL handlers | derived tables, metrics | sync, prune, export |
| Deployment, console, docs | `contrib`, `docs`, `.agents` | none | none |

### How they interact

A bot or client calls the API: *spawn* an assignment for the thread, *append*
the message, *enqueue* an execution. Everything that follows is driven by
coroutines that share nothing but Postgres: execution workers claim rows under a
lease; a worker acquires the thread's sandbox, injects the pending messages,
follows the stream, and finalizes the row; request handlers cancel and release
the same rows; the watchdog of each API replica recovers rows with stale leases,
reaps those past their hard deadline and those nobody claims. Finalizing
publishes to the outbox, which the bots' pollers claim, post and settle, and
wakes workflows that wait for the execution. Several replicas of the API run
side by side.

### What is hard about it

* **Statements are the atoms.** The lifecycle is written as sequences of awaited
  SQL statements, few of them in one transaction. A decision is often taken on a
  row read some awaits ago: `cancel_execution` reads the status and later
  overwrites it, the reapers select rows and later finalize them, a worker acts
  on the metadata its claim returned.
* **Leases lapse.** A worker that is slow rather than dead goes on with an
  execution that another one has reclaimed; its touch renews the lease of the
  row whoever holds it.
* **Everyone finalizes.** Workers, cancel handlers and the watchdog all write
  the end of an execution; the outbox row, the status and the workflow
  notification are separate writes with crashes in between.
* **One sandbox per thread, several executions over time.** Stopping "the
  session" from a handler stops whatever runs there by then.
* **Polling without overlap guards.** The pollers start a tick every two
  seconds whether or not the last one ended, under one consumer id.
* **Output without names.** What a sandbox prints tells turns apart and not
  executions; several pumps may read it, or none, and a process that starts looks
  into a log.
* **Replays.** A workflow is executed again from its first line after every
  suspension, crash or lapsed lease; that this is the same workflow rests on
  checkpoints that the previous worker may still be writing.
* **Sandboxes change hands.** A warm sandbox goes from the list of a process to a
  claim to a session row, a session row is deleted by thread and marked by
  thread, and callers, the tick, evictions and other processes hold names of
  sandboxes across their awaits.
* **Looking, then waiting.** A workflow looks for an event, writes that it waits,
  and suspends, while a sender stores the event and looks for those that wait.

### What makes each component correct

Executions: one at a time per thread; the first outcome written stands; a
recorded cancellation is not lost; workflows take no slots that are reserved for
users (claims under way do: section 7); replays are bounded; every execution ends;
every failure is answered. Delivery: delivered
only after a post; settled stays settled; one holder at a time while leases
hold; everything ready is settled in the end. Turn delivery: the cursor leaves
no message behind; no message goes into two turns without a reason; an
execution ends with the answer to its own turn, and never in silence after a
harness got its turn. Workflows of both engines: a call that is replayed
returns what it returned; a run has one worker that may write; a run that
waits is woken by what it waits for; what has ended stays as it is; everything
ends that waits for nobody. Session runtime: input reaches a sandbox once per
execution; the result is that of the execution's own turn; clients are told one
end, and are told it; executions end although processes die. Sandboxes: one
thread each, and none that a pool still offers.

## 2. Modules

| Module | Models | Role |
|---|---|---|
| `ExecutionLifecycle` | the execution rows and every coroutine that writes them | core specification and its properties |
| `ExecutionLifecycleProofs` | | TLAPS proofs about it |
| `MCExecutionLifecycle` | | instance values for TLC |
| `ClaimTransaction` | the statements of `_claim_next_execution`, with its locks, and the slots of workflows | opens one action of `ExecutionLifecycle` |
| `MCClaimTransaction` | | instance values for TLC |
| `DeliveryPromise` | what the outbox owes the person who asked | abstract specification |
| `FinalDelivery` | outbox rows, the four handlers, the Discord poller | implements `DeliveryPromise` |
| `FinalDeliveryProofs` | | TLAPS proofs about it, the refinement among them |
| `MCFinalDelivery` | | instance values for TLC |
| `TurnDelivery` | the transcript, the cursor, the session row, the injection of turns and their results | specification of one thread and its properties |
| `TurnDeliveryProofs` | | TLAPS proofs about what is delivered, and how often |
| `TurnAnswerProofs` | | TLAPS proofs about whose answers come back |
| `MCTurnDelivery` | | instance values for TLC |
| `SandboxCustody` | sandboxes, session rows, the calls of `get_or_spawn`, stops, `reconcile_tick`, and the warm pools of API processes | specification and its properties |
| `SandboxCustodyProofs` | | TLAPS proofs about it |
| `MCSandboxCustody` | | instance values for TLC |
| `SessionRuntime` | the coroutines of api-rs on one session, its rows, sandboxes, pipes, pumps, timers and adoption, and the loop of harness-server | specification and its properties |
| `SessionRuntimeProofs` | | TLAPS proofs about it |
| `MCSessionRuntime` | | instance values for TLC |
| `DurableTasks` | the SQL functions of the absurd queue, the worker that executes runs, the calls of a handler | specification and its properties |
| `DurableTasksProofs` | | TLAPS proofs about it |
| `MCDurableTasks` | | instance values for TLC |
| `WorkflowEngine` | `workflow_runs`, checkpoints, events and the workers of the Python engine | specification and its properties |
| `WorkflowEngineProofs` | | TLAPS proofs about it |
| `MCWorkflowEngine` | | instance values for TLC |

The Python API is `ExecutionLifecycle`, `ClaimTransaction`, `FinalDelivery`,
`TurnDelivery`, `SandboxCustody` and `WorkflowEngine`; `SessionRuntime` and
`DurableTasks` are its successor in Rust.
The modules meet in what they abstract. `ExecutionLifecycle` sees a turn as one
step and its answer as a row of the outbox; `TurnDelivery` opens the turn and
takes the claim, the recovery and the end of an execution in one step each;
`FinalDelivery` opens the outbox row that `Deliver` of `ExecutionLifecycle` settles
at once, and `ClaimTransaction` its `ClaimNextExecution`. `WorkflowEngine` sees the
execution of an agent turn as running, being cancelled, or ended with an outcome,
and its finalizer as a notice; `DurableTasks` sees the execution that
`SessionRuntime` is about as a record with a key and a status.

*Worlds.* The specifications except `FinalDelivery` choose a world in `Init` and
keep it: who takes part, which executions are asked for, how many crashes, whether
leases lapse under working workers, and so on. A world only bounds; every guard
and assignment of the code is the same in all of them. One run then explores
several corners at once, each as large as it can be where it is interesting,
and a property that holds in some of them says in its text in which
(`Undisturbed`, `Orderly`, `Careful`, ...). A world in which nothing is bounded
away is among the possible ones, and the theorems are about all of them.

### ExecutionLifecycle

*State.* The first block of variables is the row: `status`, `lease` (is
`worker_lease_expires_at` in the future), `claimed` (`claimed_at` is set),
`durable` (`durable_turn_id` is set), `hardPast` (`hard_deadline_at` is past),
`authTries` (the retry count in `metadata`), `outbox` (state of its outbox row).
The second is the thread's latest assignment. The third is the coroutines: `pc`
(between which awaits), `subject` (the row, or the thread of a release),
`local` (outcome decided on, and what the claim returned: the retry count in the
metadata, and whether there was a durable turn), `attached`
(workers whose sandbox is alive).

*Actors and places.* A worker goes `idle -> claimed -> ready -> streaming` (to
`broken` between the look at the status after a broken stream and the UPDATE that
follows), then through the finalizing pipeline that all actors share:
`stopFirst -> finalize -> publish -> stopLast`, with the stop before or after
the write as each path of the code has it. A replay ends in `rewind` instead: its
row is queued and claimable again while the worker still rewinds the session. A
request handler enters the
pipeline from `CancelRead` (through `cancelWrite` when the row was running) or
stops the runtime after `ReleaseAssignment`; the watchdog enters it from
`ReapOverdue` and `ReapQueued`. Each action is one statement or transaction with
the local work up to the next await, so every interleaving at awaits is there.
`_claim_next_execution` is one transaction and one action here, which knows nothing
of slots; `ClaimTransaction` opens it.

*Data left out.* Row ages and the lengths of silences: any queued row may be old
enough to be reaped, any stream may have been silent for too long. The order in
which claims take candidates (`created_at`): any candidate may be next.
Idempotent repeats and refusals of enqueue and release change nothing and are
stutters. `why` keeps the two terminal reasons that matter (`no_input`, which is
not delivered, and `queued_never_claimed`). `Channel` keeps what delivery does:
`post` goes through the outbox, `live` may have been covered by the stream or
not, `dev` is never delivered. Release of an assignment with a background stop
is the same step later; `steer_execution` only appears as the cancel it falls
back to.

### ClaimTransaction

*State.* The committed rows: `status`, `lease`, and `linked`, the executions that a
workflow's checkpoint refers to. For each worker its transaction: the place `pc`, the
`rows` its SELECT locked, the `locks` of threads it has, the candidates `left`, the
one it is `at`, and whether its count left a slot `free`.

*Actions.* The statements: `SelectCandidates` (FOR UPDATE SKIP LOCKED, so two
transactions have no row in common), `CountSlots`, and for each candidate
`TryThreadLock`, `CheckActive` and `CheckSlot`; then `TakeAndCommit`,
`NothingToClaim` or `RollBack`. Each sees what was committed when it begins. Meanwhile
others enqueue, link, end, break, replay, recover, cancel and touch rows; their
UPDATEs wait for locked rows (`Update`). They come whenever their WHERE allows:
who issues them is in `ExecutionLifecycle`.

*Left out.* Deadlines and `claimed_at`, which do not decide who is claimed; releases,
which are ends here.

### FinalDelivery and DeliveryPromise

*State.* The outbox row (`state`, `owner`, `leased`, `due`, `attempts`, which is
counted as far as the limit it is compared with), whether a message with the
answer as last published is in the channel (`posted`, external), and the ticks
of the pollers (`pc`, `batch`, `outdated`, `current`, `permanent`); `slipped` is
history, the answers whose lease a tick lost over its work, and `renewals` how
often an answer was published anew. `Publish` asks for no state, like the UPDATE
it models: after a cancellation written over a terminal status it comes again,
and then clears the lease of whoever is sending, opens what was settled, and
outdates what ticks have in hand. A tick claims a batch,
and for each row posts and reports, or fails and complains. Two ticks with one
consumer id are overlapping runs of one poller, or two replicas whose process id
is the same (`CONSUMER_ID` is made of the pid, which in containers is usually
equal). Faults are lost calls (the handler ran or not, the bot sees an error),
crashes, and ticks slower than their lease. `DeliveryPromise` reads `pending` and `sending` both as *offered*.
It promises that what is settled stays settled, and that `delivered` comes only
after a post, for answers published once; `Renew` is what a further publication
may do to it.

### TurnDelivery

*State.* The transcript: `stamp` is the order of `created_at` (the one thing the
cursor looks at), `visible` says which appends are committed; `Sys` is the
session-context message, which the code inserts itself. `session` is the row of
`sandbox_sessions` with the columns that matter (`cursor` for
`last_delivered_message_id`, `inflight`, `result` with NULL, empty and the result
of a turn apart). The sandbox: `alive`, the turns its harness still works on
(`stdin`), the workers that hold it and those attached to its output, and for
each the ends of turns that were sent and it has not read (`hears`). The
executions with `durable` (`durable_turn_id`) and `tries`; their `answer` and `how`
it was found are what the properties look at. `turns`, `contents`, `turnBy`,
`written` and `asked` are history.

*Actions.* A worker's walk through `_process_execution_impl`: `ClaimNextExecution`;
`get_or_spawn` as `ReuseSession`, or `DropSession` (read and delete the row of a dead
sandbox, carrying cursor and result in memory) and `InsertSession`; then
`InsertSystemMessage`, `FlushPending`, `SetInflightTurn`, `WriteStdin`,
`AdvanceCursor`, `RecordTurn`, each a statement or call of `inject_stdin` and its
caller with an await after it; or, for a reclaimed execution with a durable
turn, `ResumeCompleted` or `ResumeTurn` and `AttachStdout`. The stream: the harness
ends turns (`HarnessEndsTurn`), the stream persists the result whichever turn it
is of (`CompleteInflightTurn`), then the worker finalizes (`TurnDone`, `TurnFailed`), requeues
(`RequeueAfterAuthFailure`, `RewindCursor`), gives up, or finds the stream ended
(`StreamEnded`).

*Hazards* of a world: `overlap` (an append is stamped when its transaction begins
and visible when it commits), `requester` (the context message is stamped anew
for another user), `lapse` (a slow worker goes on), `break` (an attachment
breaks), `left` (a failed turn goes on in its sandbox, after an exception in the
loop or on a backend that cannot pause), `auth` and `resume` (the harness cannot
authenticate or resume its thread). `crashAt` names the places where a worker may
crash.

*Left out.* Cancels and releases (in `ExecutionLifecycle`), `steer_stdin`, the wire
lease of `stream_connect`, `delivered_execution_id`, the context message a workflow
inserts beforehand. `DropSession` reads the row of a dead sandbox and deletes it in
one step; a second call of `get_or_spawn` in between is in `SandboxCustody`, where the
two are apart. `MarkTerminal` is one step here; its statements are apart
in `ExecutionLifecycle`. Every worker has its own attachment, as in separate
replicas; within one process the attachment is shared, which only makes slow
workers hear less.

### SandboxCustody

*State.* `pod` has the sandboxes' states under the names the Kubernetes backends
give them, `warm` those with the label of a pool, which they keep for life. `row`
is `sandbox_sessions` (`old` says that the hour, the idle time or the retention
that the tick asks about has passed). `pool` and `loop` are `_pool` and
`start_replenish_loop` of each API process. `call` is where a caller is in
`get_or_spawn` or `stop_session`, with the sandbox it has in its hands and the state
of the row it read; `job` is what an eviction or the tick selected and has not yet
worked off. `TurnDelivery` has the session row of one thread and what is carried
over in it; this module has many threads, and whose sandbox is whose.

*Actions.* `get_or_spawn` is `ReadSession`, `Reuse`, `Discard` or `Missing` after the
status, `Resume`, `Resumed`, `StopOld`, `DeleteRow`; then `ClaimWarm` or `NoWarm`,
`CheckWarm`, `InsertWarm`; then `SelectForCapacity`, its items, `Evicted`, `Create`,
`InsertSession`, `StopLost` and `AdoptWinner`. `ReadToStop`, `StopSession` and
`MarkStopped` are `stop_session` and `_pause_execution_session`. `CleanRows`,
`StepOfTick`, `TakeItem`, `MarkItem` and `StepEnds` are the steps of `reconcile_tick`
over sessions. An exception (`Raise`) leaves what the caller had in its hands behind.
The pool's loop reads what is assigned, lists the warm sandboxes, stops
(`EvictWarm`) or adopts (`RecoverWarm`) them, and replenishes.

*Hazards* of a world: `backend` (a call of the backend or the database fails, with
its effect or without), `dies` (a sandbox), `repo` (the caller wants another
repository, or the token is stale), `stop`, `tick`, `old` (a warm sandbox is an hour
old), `exit` (a process ends), `overlap` (a deployment starts the next before),
`adopt` (`WARM_POOL_EVICT_ON_STARTUP` is off), `no pool`. `stateful` worlds have the
backend that can pause.

*Left out.* That creating a sandbox takes time; warm sandboxes that are still
pending when they are listed, which are stopped; a listing that fails; the order of the pool and of
evictions; the tick's limit of 50 rows, and ticks of several processes; wires and
the release of assignments; `gone` rows (as `stopped`) and who marks them.
A status that fails in the tick skips the row, as one that is running does. A
sandbox's name is never used twice: they carry a random suffix.

### SessionRuntime

*State.* Rows: `status` of the executions, `created` (the order of their
`created_at`), `told` (their terminal events in `session_events`), `assigned`
(`sessions.sandbox_id`). Sandboxes: `box`, with the number of its pod, the lines
of input not yet read, the turn it works on and its log; `turns` names what was
written. Processes: `proc`, the pipes each holds (`pipe`, the pod a pipe is
attached to), and `co`, every coroutine with its place in the code. `result` is
history, the first outcome recorded.

*Coroutines.* A *request* goes `create -> claim -> status -> (resume | replace) ->
look -> open -> piped`, or to `refuse -> failrow`, and becomes the *timer* of
`max_duration`. A *steer* forwards a message, a *stream* wants the pipe only. A
*pump* reads lines, and after the last one fails what is active (`PumpEof`). An
*idle* timer checks and pauses. *Adoption* after a start lists the active
executions once, reads logs, records outcomes, attaches and rearms timers.
`Record` and `Tell` are shared by all who end an execution: the row, then the event.

*Hazards.* `steer`, `stream`, `timeout`, `fail`, `idle`, `gone` (a sandbox dies),
`drop` (a caller disconnects and axum drops the handler), `restart` (a deployment
kills the process), `overlap` (the next one starts before), `busy` (callers do not
wait for the adoption to end), `error` (a call of the sandbox manager fails while a
sandbox is made ready, `EnsureFails`, and the execution with it), `clock`
(`read_output_since` is asked for the lines since `started_at`, a time of the
database; Kubernetes takes whole seconds and compares them with the node's clock:
`OutputsSince` then returns the lines from any place of the log on).

*Left out.* The session's own status row, a warm sandbox's claim (one step with
the assignment), event payloads and cursors of streams, `drain` (nothing calls it
on the signal that Kubernetes sends), sandbox backends. Lines that are too long or
that no UTF-8 decoder takes, after which the pump ends (`lib.rs:1645`): it fails what is
active, as at the end of the output, and goes. The idle pause removes the pipe and pauses
in one step, and a pause that fails is left out: the sandbox then runs on without a
pipe, and the next request attaches again.

### DurableTasks

*State.* `task`, `run` with its wait, `checkpoint` with the attempt that wrote it,
`event`: the rows of the five absurd tables. Times are what is left of them:
`lease`, `avail` and `life` shrink with `Tick`. `exec` is what each worker slot
executes: the place in `execute_task`, the cache of checkpoints (`seen`), the
number of requests its Python host has made, and `fenced`, the things done in the
world outside since the run was taken away. `agent` are the executions of agent
turns by key; `torn` is history, the tasks that lost a run in the middle of a call
that writes a checkpoint.

*Actions.* One per SQL function, each a transaction that locks its rows:
`Spawn`, `Claim` (with its sweep: overdue tasks are cancelled, one expired run is
failed), `Complete`, `Fail`, `Suspend`, `AwaitEvent`, `Emit`, `Cancel`, `Retry`,
`Heartbeat`. `set_task_checkpoint_state` locks less. It reads the states
(`CheckOwner`), extends the claim, looks up who wrote the checkpoint and upserts it.
If the run is still running, the extension locks it until the call is over, so that
no sweep and no later attempt comes in between: the rest is one action
(`WriteCheckpoint`). If it is not, nothing is locked: the look (`LookUpOwner`) and the
upsert, which asks nothing (`Overwrite`), are two. A handler is a program of steps,
sleeps, events, agent turns of Rust (`turn`) and Python (`agent`) workflows, and tool
calls (`CallTool` is `call_tool` and `post_to_slack`: something happens outside, no
checkpoint is written, nothing asks whose run it is).

*Left out.* `LeaseWatchdog` (exits a process whose heartbeats hang; a crash here),
cleanup and partitions, the schedules and webhooks of `centaur-workflows`, headers,
and retry strategies but for one delay. `sleep_until` compares the wake time in its
hands, not the one in the table, which `SleepUntil` reads again: they differ only when a
`torn` attempt wrote over it. What a tool returns is no more than which attempt
called it; `post_to_slack` sends the number of its request along, and whether Slack
recognizes a repetition by it is Slack's.

### WorkflowEngine

*State.* `run` (status, `due` for `available_at`, `owner` for `worker_id`, `leased`),
`checkpoint` by run and call (a result, the marker of a wait, a wake time), `event`,
`turn` (the executions of agent turns). `worker` is what each worker holds: the
worker_id its claim made, the run, the place in `_run_handler` and in the call, and
the checkpoints it loaded (`seen`). `notices` are wake-ups under way: a look for
rows that wait, then an update of those that still do. `late` are calls whose time
has passed. `told` and `used` are history: failures in the outbox, and what each
call returned to handlers.

*Actions.* `Claim` requeues what has expired and takes a run that is due, queued
before waiting before sleeping. A worker's calls are `Step`, `Sleep`, `StartChild`,
`LookForAnswer` (`wait_for_event` and `wait_for_workflow`), `DispatchTurn` and
`AwaitTurn`, or `Replay`; what they find goes through `PersistCheckpoint`, whose fence
asks for the owner. `CheckLinked`, `SuspendRun`, `FinishRun`, `TellFailure` and
`NotifyEnd` are the ends of `_run_handler`; in a process that does not have the
handler its end is `UnknownWorkflow`, whose UPDATE asks for nothing but the run_id.
`AwaitTurn` returns how the execution ended, read anew at each replay; `CancelTurn`
is `cancel_execution` writing over an execution that has ended since it looked. Three
senders make notices: `SendEvent`, `TurnEnds`, and a run's end or cancel.

*Left out.* Sandboxes per run and their failure path, schedules, `sleep_until`
(as `sleep`), retry policies of steps and backoff, the eager execution of new runs;
`created_at` (any run of the best rank may be next). Cancelling
the executions of a run is one step with cancelling the run, and the UPDATE per
waiting row is one for all rows. Of an agent turn's result its outcome is kept, which
is written together with the text.

## 3. Runs

Every property has a mutant: a plausible bug in a mapped definition under which
TLC finds the property violated in the same run.

| Run | Checks | Shows |
|---|---|---|
| `Lifecycle` | `TypeOK`, `OneActivePerThread`, `OneWorkerPerExecution`, `FirstFinalizerWins`, `CancelNeverForgotten`, `DeliveredStaysDelivered` | executions of a thread are never both running or waiting for a retry; an outcome once written changes only by the unguarded UPDATE of `cancel_execution`; a recorded cancellation leads to an end only; without cancels no second delivery, and with kept leases one worker per row, but for one that has given its row back and still rewinds the session; replays stay within `AuthRetryLimit` (the range of `authTries` in `TypeOK`) |
| `LifecycleEnds` | `EveryExecutionEnds`, `FailureAnswered` | the watchdog alone ends every execution, because a reclaim keeps the hard deadline; a failure reaches the outbox while nobody crashes mid-way |
| `Claims` | `TypeOK`, `OneActivePerThread`, `SlotsNearCap` | claims interleaved statement by statement, with others' updates between them and with rollbacks, leave one execution of a thread at work; they exceed the workflows' slots by no more than the claims under way, if links are written in time |
| `Delivery` | `TypeOK`, `OneHolder`, `KeepsPromise`, `EveryAnswerSettled` | the outbox implements its promise, which is about answers published once, with overlapping ticks, a second bot, lapsed leases, lost calls, crashes and second publications; an answer is in one pair of hands, although ticks share a consumer id, unless a lease lapsed over it or it was published anew; every answer ends delivered or in the dead letters |
| `Turn` | `TypeOK`, `NothingSkipped`, `CompletedHeard`, `OwnAnswer`, `NoSilentTurn`, `OneTurnPerMessage` | what the cursor passes was delivered, through crashes anywhere and slow workers; a completed execution's messages were heard; answers belong to their executions; nothing is repeated as long as nobody forgets |
| `Sessions` | `TypeOK`, `InputOnce`, `OwnAnswer`, `OneStory` | an idempotency key writes its input once, by whichever process and however often it is called; clients are not told both ends; results are the execution's own in the worlds the code guards, while nobody was cut off |
| `SessionsEnd` | `EndedIsTold`, `EveryExecutionEnds` | an end is told while its process stays; with `max_duration` executions end through dead sandboxes, hanging turns and a restart at any point |
| `Tasks` | `TypeOK`, `OneLiveRun`, `ReplayAgrees`, `FencedSoon`, `NoLostWakeup`, `EveryTaskEnds` | a task and its runs agree after any mixture of claims, sweeps, waits, emits, cancels and retries; a replay finds what the handler went on with, unless a run was lost in the middle of writing a checkpoint; a worker that lost its run does at most one more thing, where the handler acts within steps; an emitted event leaves nobody asleep; tasks end or wait for an event that was not emitted |
| `Engine` | `TypeOK`, `ReplayAgrees`, `EndedStaysEnded`, `TimedRunsEnd` | replays agree although workers with lapsed leases go on, the outcomes of agent turns included unless a cancel writes over one; what has ended stays, but for the status that a process without the handler writes; runs whose waits have timeouts end although wake-ups get lost |
| `Custody` | `TypeOK`, `Exclusive` | a sandbox serves one thread, and no pool offers it meanwhile, through insertion races, deleted rows, evictions, the tick, resumes, restarts and overlapping processes |
| `AnswerOfAnother`, `EventLost` | `AnswersOwnCall`, `WakesKept` | violated: the findings of section 6 |

*Bounds of `Lifecycle`.* Two executions are the least for everything that happens
between the executions of a thread; the properties relate at most two rows. Two
workers are the least for a slow worker and its successor; more differ only in
names, and safety runs are reduced by symmetry. Its worlds: two executions of a
thread with one worker, a handler and lapsing leases (or one execution and a release
with a second assignment); one execution that two workers and the handler finalize, or
two workers and the watchdog with a crash, or one worker and both with a crash; kept
leases with two crashes, or with two executions of a thread and one. One crash
suffices for a loss that nothing repairs, two for a loss of its repair. `AuthRetryLimit` is 1 as
in the code. `LifecycleEnds` has one execution and all three kinds of actors,
with a crash and without.

*Bounds of `Claims`.* Three executions, in three threads or with two in one; two
workers, the least for a race, of which the second exceeds the one slot; two candidates
of three, so that the LIMIT cuts one off. Updates, rollbacks and claims come as often
as they like: nothing else is bounded.

*Bounds of `Delivery`.* Three ticks are two overlapping ones and a replica; two
answers fill a batch; `MaxAttempts` is 2 so that the limit is met, and may be
passed, as the handler that compares may never run. The first answer may be
published a second time, at any moment. One fault of any kind.

*Bounds of `Turn`.* Two messages and the context message are the least for a
message behind and one ahead of the cursor. A turn more than executions is a
repeated one; three turns allow two repetitions of one execution, or a
repetition between two executions. Its worlds: one execution with slow workers
and a crash at any place, or a sandbox that dies; two executions with slow
workers; two executions with refusals, lost harness threads, broken
attachments and a dead sandbox or a crash outside `LossyPlaces`; two executions that
two workers hand to each other, with a crash, lost harness threads and broken
attachments; two executions with turns left behind and appends out of order.
`LossyPlaces` are the windows that section 7 is about: crashes there do lose turns
and answers. Crashes happen to workers at work, so a world's `crashAt` never
holds `"idle"`. `Careful` also asks for one worker where a harness may be refused:
a second one can claim the requeued execution before the first has rewound the cursor
(section 7).

*Bounds of `Sessions` and `SessionsEnd`.* Two requests, of one key or of two, are
the least for an execution that follows another in the sandbox. One world has three
executions, with a restart and disconnects: a turn left behind by the first, which was
failed, is in the way of a second, and what it does to answers shows in the second or
third. Clocks that differ, and calls that fail
while a sandbox is made ready, meet a restart. Two boxes are the least for a replacement. Two processes are the one before and the
one after a deployment. `MaxSlots` bounds the coroutines that live at one time; what
would spawn one more waits. The worlds take each hazard, and those pairs that meet in
the code; `SessionsEnd` leaves out disconnects, overlap and callers during adoption,
which do break its properties (section 7), and hazards that only repeat.

*Bounds of `Tasks`.* Two workers are a slow one and its successor; two attempts are
the least for a successor, and a `torn` task needs no more. One
task shows everything but a sweep of several, for which two worlds have two tasks.
Two payloads tell the first emit from the second. `Lease` is two ticks, so that
time passes within a lease; backoff, delays and timeouts are one tick, which is
shorter than a lease.

*Bounds of `Custody`.* Two threads and two processes are the least for a sandbox
in two hands, two callers the least for a race; a third sandbox is what a race
that was lost, or a pool that was filled again, leaves one of. The pool has one
place. Callers start again when they are done, as often as there are sandboxes;
nothing else is bounded. Its worlds: two callers of a thread, with stops, other
repositories, dying sandboxes and failing calls; a caller against the tick; two
threads under a limit of one; pools that restart, adopt, age or overlap.

*Bounds of `Engine`.* A run and its child; two workers; one event with two
payloads. The first claim may be ended by a lapse or a crash (`MaxFaulty`), and
`MaxClaims` leaves enough good ones to finish both runs. Its worlds take each call with
the hazards that meet it: agent turns with lapses, and with crashes and cancels; processes
without the handler with lapses, and with cancels. Programs have two or three calls so
that every kind of call is replayed behind and before another.

*Fairness.* `WatchdogFairness` assumes that time passes, that a watchdog goes on
with what it began, and that it takes up a row that stays overdue (every pass
walks all overdue rows); it assumes nothing of workers, as the docstring of
`reconcile_execution_health` demands. `FinalizeFairness` assumes that a coroutine
that began to finalize continues; `FairSpec` assumes it in worlds without a crash
only. `PollSpec` assumes that the interval keeps firing and running ticks go on,
that clocks advance, and that an answer that is claimable again and again is
claimed (claims go by age and batches are limited, so weak fairness would not
do). `FairSpec` of `SessionRuntime` assumes that tokio runs what can run and that
Kubernetes starts the next process; it assumes nothing of sandboxes, whose turns
may hang. `FairSpec` of `DurableTasks` assumes workers that poll and execute, agent
turns that end (they have a `max_duration`, see `EveryExecutionEnds` of
`SessionRuntime`) and time; nobody has to emit. `FairSpec` of `WorkflowEngine` assumes
the worker loops, leases that lapse when their worker is gone, and time; nobody
has to send an event, end a turn or wake a run.

*Deadlock* is not checked: executions, deliveries, tasks and runs are bounded, and
a system that has handled all of them stops.

## 4. Proofs

`ExecutionLifecycleProofs` proves for every set of executions, threads, workers,
requests and watchdogs, and every limit:

* `TypeCorrect`, `TypeOKHolds`: the types. They need `ReplayPlanned`: an actor
  that is going to requeue its row knows of fewer than `AuthRetryLimit` retries;
  without it `authTries` could leave its range.
* `Serialized` (`OneActivePerThread`). The only step into `running` is a claim,
  whose guard sees no occupying sibling; the lemma `OneActiveStep` goes through the
  steps that write a status.
* `FirstWins` (`FirstFinalizerWins`) and `CancelKept` (`CancelNeverForgotten`), from
  the lemma `StatusMoves`, which says what each step may do to a status.
* `OneWorker` (`OneWorkerPerExecution`). `WorkerInv` adds that the row of a worker in
  `WorkersOn` is leased and running, or has ended (`Covered`): so neither a claim nor
  the recovery takes it from a worker that lives. A worker that rewinds is not among
  them: its row is queued, and nothing is known of it.
* `DeliveredOnce` (`DeliveredStaysDelivered`). `AnswerInv` adds that at most one actor
  is about to publish a row, which has ended, and that its answer is not yet up.

The assumptions are those of `ConstantsAssumption`: the three kinds of actors and
the ids of executions and threads are disjoint, the limits are numbers, and the
worlds are records of bounds. All of them are about every world, the unbounded
ones included.

`FinalDeliveryProofs` proves `Refinement`: every behaviour of `FinalDelivery` is one
of `DeliveryPromise` under the refinement mapping, for all sets of answers, ticks
and bots. Its inductive invariant says that a row is owned exactly while it is
`sending`, and that what a tick is about to report was posted or has been
published anew; without the first half a late complaint of a former owner could
reopen a settled answer.

`OneHolderHolds` (`OneHolder`) needs to know why a claim cannot take what a tick
holds: `InHand` says that an answer in a tick's hands that has not slipped is leased, or
already delivered by a report whose response was lost. Neither is claimable, so a new
batch is disjoint from the others up to the answers in `slipped`: those whose lease
lapsed over the tick's work, and those published anew meanwhile. The owner is no help here:
overlapping ticks have the same one.

`WorkflowEngineProofs` proves `ReplayAgreesHolds` for all programs, numbers of
workers, events and claims, and every world, although `Engine` has a handful of
programs of two or three calls. `ReplayAgrees` by itself says nothing of what a stale
worker may still do. The invariant `IInv` adds:

* `RunsOK`: an owner is a claim that was made, has one run, and that run is
  running; so a worker_id that was requeued or finished never owns again.
* `WorkersOK`, with `Remembers`: the results a worker remembers are still in the
  table; and while it owns its run, its memory is the whole truth, because nobody
  else writes checkpoints. A worker that is `AboutToWrite` remembers no result
  there, so with the fence of `_persist_checkpoint` results are never overwritten.
* `UsedOK`: what a call returned is what its checkpoint holds, for a sleep that it is
  over, and for an agent turn the outcome its execution has, until a cancel is written
  over it (`TurnsKept`: outcomes change in no other way). A stale worker goes on only
  with results it remembers, which are still there.

`NextIInv` has one lemma per action; the moves of a worker that several actions
share (`Goto`, `Persist`, `Suspend`, `Finish`, `GoOn`) have lemmas of their own.
`EndedStays` follows from the same invariant: an ended run has no owner, so no
worker passes the fence or the guarded UPDATEs. `UnknownWorkflow` passes no guard and
is the exception in the property. It leaves the run without an owner like the other ends,
so the invariant survives it; and it writes no checkpoint, because it comes before the
checkpoints are loaded (`Loaded` says which workers remember any).

The assumption is `EngineAssumption`: the worlds' programs are sequences of calls
and the bounds are numbers.

`SandboxCustodyProofs` proves `ExclusiveHolds`: `Exclusive` for every number of
threads, callers, processes and sandboxes, with all hazards but `adopt`, and
`TypeOKHolds` with it. A thread gets a sandbox that it does not have in two ways
only: from its process's pool, which gives it up in the same step (`ClaimSound`),
or by creating one (`CreateSound`); a pool gets one by creating it (`SpawnSound`).
Every other step passes a sandbox on within a thread, from row to hands or back,
or loses it: `NoGain`, with one lemma per action or group of them. `Exclusive` alone is not
inductive: the invariant adds `Created` (what has not been created is nobody's)
and `Fresh` (what is on its way into a pool is not in it; without it a claim would
leave a second offer behind). `RecoverWarm` is the one action that takes what it
only believes to be free; under `adopt` the theorem says nothing, and the run checks
a world of it without suspended sessions. The assumption is `CustodyAssumption`: names are apart,
and the worlds' fields have their types.

`DurableTasksProofs` proves all invariants of the run `Tasks` for every handler,
number of workers and attempts, and every world: `TypeOKHolds`, `OneLiveRunHolds`,
`NoLostWakeupHolds`, `FencedSoonHolds` and `ReplayAgreesHolds`. One invariant, `IInv`,
implies them:

* `RowsOK`, per task. Only the row of the latest attempt may be live, and it is in the
  state of the task; a failed task has used all its attempts, so `retry_task` makes
  a new one. `RunOK`, per run: it has a row in `w_<queue>` only while it sleeps, at an
  event's operation, and while it is not due, what wakes it is what it waits for,
  and that was not emitted. This is more than `NoLostWakeup`: a claim that leaves the
  row of a wait without a timeout would be found by a later emit.
* `WorkerOK`. The run of a worker is running, or was failed or cancelled under it; it
  never is pending again, because a retry is a new row. With `WorkersOK`, no two
  workers have one run. `fenced` is one only between something done outside and the
  next statement that tells the worker, and the handler does nothing outside of steps
  (`Unfenced`).
* `Remembers`, of a worker whose run is live, for any number of attempts while its task is
  not `torn`: what the handler went on with, or has in its cache, is in the table.
  Others do not write there: who is about to write holds its run, or the run was cancelled
  with its task, or the task is torn. The checkpoints of steps of earlier attempts stay,
  and what is written again for a turn is the answer under its one key (`Made`).

The functions of the queue have lemmas about rows alone (`FailRows`, `ClaimRows`,
`CancelTables`, `EmitRows`, `TickRows`); then each action has one lemma, and `WorkerStays` says when
the steps of others leave a worker alone. The assumption is `DurableAssumption`:
the worlds have their types, and `None` is no value.

`TurnDeliveryProofs` and `TurnAnswerProofs` prove all invariants of the run `Turn` for
every number of messages, executions, workers, turns and stamps, and every world:
`TypeOKHolds`, `NothingSkippedHolds`, `CompletedHeardHolds`, `OneTurnPerMessageHolds`,
`OwnAnswerHolds` and `NoSilentTurnHolds`. The properties have different premises, so
the invariant has a part for each, over what holds in any world (`Placed`: where a
worker is, its execution, batch and turn are those of that place, and the cursor is a
message).

* `InOrder`, while stamps are in order. `Covers`: all up to a cursor was heard; this is
  said of the row and of what a worker carries to the next one. `GapFree`: all
  up to a batch was heard or is in the batch. A slow worker needs the second: it
  writes the cursor of an old batch over a newer one, and that is sound because what
  precedes a batch stays heard, and what appears later has a later stamp. `DueOK`
  follows what an execution was asked from the flush to its end.
* `Remembered`, while nobody forgets. One worker is at work, and each message that was
  heard is behind the cursor: of the row, or of what is carried to the next row, or it
  is in the batch whose cursor is written next (`PastHeard`). So the next flush
  leaves it out.
* `Tended`, when worlds are `Careful`. Executions are worked on one after the other
  (`Serial`, `Solo`), so all turns about are those of one execution. `Noted`: an
  execution whose turn is recorded finds it in flight, or its result, in the session
  row or on the way into the next. `InWork`: what the harness has is the one turn of
  the open execution. `Rewound`: an execution that had a turn and has none recorded
  will flush everything again. These three give `ClosedOf`: the answer is that of a turn
  of its own, and nothing to say means nothing was said.

For `Tended`, what is known when only the worker `w` is at work, on `x`, is stated once
(`Local`); `Gathered` and `Spread` lead there and back, so that the lemma of an action is about
its worker and its execution alone. `Followed`, `Gone`, `QuitOpen` and `QuitClosed` are the
shapes of such steps: it goes on, it only moves, it leaves its execution open, or it
closes it. Frame lemmas (`TendedKept`, `RememberedKept`, `OrderKept`) treat the steps of
others. The assumptions are `TurnAssumption` (names apart, bounds are numbers, worlds
are records of bounds) and `RowAssumption` (`None` is not a session row).

`SessionRuntimeProofs` proves all invariants of the run `Sessions` for every number of
requests, executions, sandboxes and coroutines, and every world: `TypeOKHolds`,
`InputOnceHolds`, `OneStoryHolds` and `OwnAnswerHolds`. The first three hold in all
worlds, with every hazard. Each action has a lemma that says what it does to
coroutines (they go on, return, are born, hear a line, have their stream closed); the
invariants are about these changes, so that the frame is proved once for all.

* `Typed`: which places and fields a coroutine of each kind has, and that what a
  sandbox did, does and has to do is in the order of `turns`.
* `Once`, for `InputOnce`. A request that got past `mark_execution_running` *holds* its
  execution: it is the only one that does, its status is past `queued`, and nothing was written
  for it yet. So a second call of the same key, or the adoption after a crash
  in these three awaits, never gets to write.
* `Story`, for `OneStory`. Who is about to tell an end tells what was recorded first.
  The exception is the failing request, which tells before it looks at the row: its
  execution is `Barren`, nothing was or will be written for it, so that only the turn
  of another can complete it.
* `CalmInv`, for `OwnAnswer`, in worlds without the hazards of `Guarded` and while nobody
  was cut off. `Piping`: a sandbox that runs has one pump, whose pipe is the one that is
  used, so no output is read twice. `Flight`: everything under way (lines of
  input, the turn a harness is at, output not read, an outcome about to be recorded) is of
  one turn, that of the active execution, and is in one of these places. `Logged`:
  what an adoption finds in the log since an execution started is its own, while the
  hazard `clock` is left out (with it the log is read from any line on). `Held`, `Adopting` and
  `Plain` say that a request still at work has the active execution, that an adoption is alone
  with the pump it made, and what the left-out hazards would bring is not there.

`Flight` is why the premise cannot be weaker: with `eof`, an orphan or a timeout an
execution ends while its turn is in flight, and the turn belongs to nobody. The
assumption is `SessionAssumption`: sandboxes and slots are numbered, worlds are
records of keys and hazards, `None` is no execution, sandbox or outcome.

Only model-checked: the liveness properties, which are out of reach of the provers
(they rest on fairness and on ENABLED): `EveryExecutionEnds`, `FailureAnswered`,
`EveryAnswerSettled`, `EndedIsTold`, `EveryTaskEnds` and `TimedRunsEnd`.

## 5. What the map covers, and what is left out

See `components` in `PROJECT.json`. No component is modelled whole; what is left
out of each is said in section 2 and in its note.

Most lines of the repository hold no protocol state that steps of several actors
share: the tools under `tools/` (clients of external APIs and their command
lines), prompts and personas, rendering of Slack and Discord messages, the
translation of each agent's output, the tool manager, credentials and proxy
configuration, observability, retention, ETL workflows (idempotent upserts over
external APIs), sandbox backends (calls of the cluster), the Helm chart, the
docs, and generated code. They are not modelled for good.

## 6. Findings

* **The answer of another call** (`AnswerOfAnother`). The key of a Python workflow's
  agent turn is made of a counter of the host's requests. A step makes two requests
  when it first runs and one when it is replayed, so after a crash a turn gets the
  key, and with it the answer, that another call of the workflow had before.
* **An event is lost** (`EventLost`). The Python engine looks for an event, writes the
  marker and suspends, in three transactions; an event sent in between is
  stored and wakes nobody. Without a timeout the run is never claimed again. The
  same holds for child workflows and agent turns.

## 7. Seen while modelling

What the code does in the corners that the properties leave out. TLC showed each
of these in an instance of the models, or they were met while reading the code
for one (those are marked *read*). They say why a property has the premise it has.

*Python API.*

* A crash loses the answer. The terminal status and the outbox are written by separate
  statements (`runtime_control.py:2108` and 2348); after a crash in between all later
  finalizers skip the row, and the requester hears nothing, although "every terminal
  failure must say *something*" (line 113). `FailureAnswered` is about worlds without a
  crash.
* The slots of workflows are exceeded. Workers count the slots that are taken and take
  one some statements later; what is locked meanwhile is their candidates and a thread, so
  that two workers count the same free slot (`runtime_control.py:2646`; the comment at 148
  says they cannot). `SlotsNearCap` says by how much.
* Users wait although their slots are free. A claim looks at the 32 oldest candidates. When
  these are workflows' executions and the workflows' slots are taken, it takes nothing, and
  the user's execution behind them is not looked at (`runtime_control.py:2641`).
* The reaper of queued rows selects, and later finalizes by an UPDATE that accepts
  any unfinished row, so it can fail an execution that a worker claimed meanwhile
  (`runtime_control.py:3956`; its docstring at 3917 speaks of executions never
  claimed).
* `cancel_execution` stops the session that the thread has when the stop runs, which
  may serve the next execution by then (`runtime_control.py:1759`). It can also
  overwrite a terminal status with `cancel_requested`; the row is then finalized
  and published a second time (the exception in `FirstFinalizerWins`).
* When another user asks, the context message is stamped anew. If it is the cursor,
  messages stamped between its old and its new stamp are behind the cursor and
  no flush finds them (`agent.py:823`). An append that commits after a flush which
  delivered a later stamp is overtaken in the same way.
* The cursor is advanced before the turn is noted on the execution; after a crash in
  between the reclaimed execution finds nothing to inject and completes in
  silence (`runtime_control.py:3091`).
* An execution is requeued before its cursor is rewound; a worker in between
  completes it in silence (`runtime_control.py:2591`), and then two work on it.
* A workflow's execution that waits for a retry counts among the slots taken. With all
  slots taken it counts against itself, and is not claimed before the watchdog has
  requeued it (`runtime_control.py:2681`). One that is claimed before its workflow has
  linked it is not counted.
* A second publication (see above) sets the outbox row to pending whatever it was:
  what was delivered or dead is sent again, and a row that a tick holds may be claimed by
  another while the first goes on (`runtime_control.py:2348`). The report of the first
  then finds the lease gone; the message it posted is of the earlier answer.
* A process that starts reads which sandboxes are assigned, lists the warm ones, and
  stops the rest. During a rolling update the old process may claim one in between
  and begin a turn in it, which is stopped in its midst (`warm_pool.py:461`; the
  docstring at 443 wants assigned sandboxes left alone). A suspended session's
  sandbox is not among the assigned at all (`warm_pool.py:480`): if it is resumed
  meanwhile it is stopped as well, and with `WARM_POOL_EVICT_ON_STARTUP=0` it is
  adopted into the pool and given to a second thread, as is one whose row was
  marked suspended although it runs. `Exclusive` is therefore proved without `adopt`.
* `_db_delete_session` deletes by thread: of two calls of `get_or_spawn` that read the
  same dead session, the second deletes the row that the first has inserted since.
  Both go on, in two sandboxes, although the INSERT is "race-safe" (`agent.py:1086`).
* A caller that claimed a warm sandbox and lost the insertion race goes on to spawn
  and leaves the claimed one running, in no pool and no row (`agent.py:1055`). So does
  a process that ends with its pool, until the next start, and `replenish` with entries
  whose status it cannot get. The tick's docstring promises to "clean orphans"
  (`agent.py:1976`), which no step of it does.
* The tick and evictions pause a sandbox in which a turn began since they
  looked, and `_mark_inactive` asks for the thread only, so it may mark the row of the
  next sandbox (`agent.py:1997`).
* The tick stops expired suspended sandboxes and then deletes expired rows by asking
  anew: a row that expired in between loses its sandbox's name, a row that was
  resumed in between keeps a stopped sandbox (`agent.py:2168`, *read*).
* A reclaimed execution takes the result in the session row for its own without
  comparing turns (`runtime_control.py:1340`). `get_or_spawn` deletes the row of a dead
  sandbox before it inserts the next; a crash in between leaves a row whose result
  is empty but not NULL, and a reclaimed execution completes with it.

*Session runtime.*

* The stdout of a sandbox that the idle pause stopped may end after the next request
  resumed it; the pump then fails whatever execution is active
  (`centaur-session-runtime/src/lib.rs:1715`; RFC 0001, line 267, wants a resumed
  session to go on). The turn of that execution goes on in the resumed sandbox, and its
  end is taken for that of the execution after it. With three executions in the model this
  broke an earlier form of `OwnAnswer`; with two it does not show.
* The same holds of everybody who ends an execution otherwise than by its turn: a timeout
  (`lib.rs:2461`), an adoption that finds no running sandbox, the end of a stream. Nobody
  interrupts the turn, and a pump that has not seen it yet gives it to the active
  execution (`lib.rs:1811`). Therefore `OwnAnswer` has the premise that nobody was cut
  off (`CutOff`).
* A pump that ends removes the pipe of its sandbox, be it a newer one (`lib.rs:1112`). The
  next request attaches again, and two pumps read one stream.
* A turn that fails prints `error` and `turn/completed`; if a new execution is active
  when the second is read, and the first made the pump forget the turn, it ends the
  new one. Steering, streams, overlapping processes and requests during the adoption
  break `OwnAnswer` as well (its `Guarded`).
* A process that dies between the row of an end and its event leaves clients
  waiting: adoption looks at active rows only.
* Adoption asks for the output since `started_at`, a time of the database; Kubernetes
  takes whole seconds of it and compares them with the node's clock. An execution that
  follows another within a second may be completed with the other's result, and one whose
  node is behind may miss its own (`lib.rs:1258`). This is the `clock` in `Guarded`.
* Adoption lists active executions once. With a rolling update (the strategy of
  `templates/apirs.yaml:85`) the old process serves on after that; what it leaves
  behind is adopted by the next start only. So is an execution whose attachment fails
  during adoption.
* A caller that disconnects during `execute_session` drops the handler, and with it
  the execution: it stays queued or running until the next start.
* Without `max_duration` a turn that ends between the look into the log and the
  attachment is never recorded.

*Durable tasks.*

* A checkpoint is overwritten by an attempt that was swept. `set_task_checkpoint_state`
  looks up whose the checkpoint is without locking it; if there is none, and its run is
  failed by a sweep in the same moment, it writes over what the next attempt has
  committed and gone on with (`0007_absurd_workflows.sql:1421`). Therefore `ReplayAgrees`
  has the premise that no run was lost in the middle of that call (`torn`).
* A timeout that a handler catches is not checkpointed: two such waits in a row
  alternate for ever.
* Agent turns and tool calls of Python workflows write no checkpoint, so nothing fences
  a worker that lost its run between two of them: it makes all that follow up to the next
  checkpoint; and a failed execution keeps its key, so a
  retried `agent_turn` finds the failure again.
* A cancel is noticed at the next checkpoint (*read*).

*Workflow engine.*

* A process that does not have the handler of the run it claimed writes `failed` and
  tells and notifies, asking for the run_id only: a cancel or a completion that came since
  the claim is overwritten (`workflow_engine.py:2647`). It is the exception in
  `EndedStaysEnded`.
* A cancel that is written over an agent turn that has ended makes the next replay return
  `cancelled` where the first returned a result (`runtime_control.py:1743`,
  `workflow_engine.py:1472`). It is the exception in `ReplayAgrees`.
* `ctx.step` promises to run exactly once; across a crash between the effect and
  its checkpoint it is at least once, as is `start_workflow` without a trigger key.
* A caught `TimeoutError` is not checkpointed; the event may arrive before a replay.
* After an agent turn that has ended, a wait for an event makes the run due at once,
  so it is claimed again and again until the event comes.
* No sweeper looks for runs whose wake-up was lost by a crash of the notifier.
* An agent turn that was dispatched and not yet checkpointed is not cancelled by
  `cancel_workflow_run`.

## 8. Plan

1. `ExecutionLifecycle`, `ClaimTransaction`, `FinalDelivery` with its promise, `TurnDelivery`,
   `SessionRuntime`, `DurableTasks`, `WorkflowEngine`, `SandboxCustody`, their runs, and
   proofs of the invariants of all of them but `ClaimTransaction`: done.
2. An abstract specification of a conversation (a request is accepted, gets one answer or
   one failure), with `ExecutionLifecycle` and `SessionRuntime` as refinements, and the proof
   of the steps of each.
3. The release of stale assignments with `delivered_execution_id`, over
   `ExecutionLifecycle` and `SandboxCustody`.
4. `WorkflowSchedules`: occurrences of schedules in both engines, each once.
