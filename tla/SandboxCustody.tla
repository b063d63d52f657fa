---------------------------- MODULE SandboxCustody ----------------------------
(***************************************************************************)
(* Who holds which sandbox: get_or_spawn with its claim of a warm sandbox, *)
(* its eviction of idle sessions and its insertion race, the sessions'     *)
(* stops and pauses, and reconcile_tick (services/api/api/agent.py); the   *)
(* warm pool of each API process (services/api/api/warm_pool.py); and the  *)
(* sandboxes, with the names the Kubernetes backends give their states.    *)
(*                                                                         *)
(* A caller is a request or an execution worker of one thread.  Every      *)
(* await of a caller, of the pool's loop and of the tick ends an action.   *)
(***************************************************************************)
EXTENDS Naturals, FiniteSets

CONSTANTS
    Threads,
    Callers,        \* calls of get_or_spawn and stop_session
    Replicas,       \* API processes
    Boxes,          \* sandboxes that can be created; no name is used twice
    PoolSize,       \* POOL_SIZE
    Worlds,         \* what each behaviour is about
    None

ASSUME CustodyAssumption ==
    /\ None \notin Threads \cup Boxes \cup Callers
    /\ PoolSize \in Nat
    /\ \A w \in Worlds : /\ w.thread \in [Callers -> Threads]
                         /\ w.on \in [Callers -> Replicas]
                         /\ w.workers \subseteq Callers
                         /\ w.maxActive \in Nat      \* MAX_ACTIVE_SANDBOX_SESSIONS; 0: no limit

VARIABLES
    world,
    pod,        \* the sandboxes' states; "none": not created
    warm,       \* those created for a pool (label centaur.ai/warm)
    row,        \* sandbox_sessions
    pool,       \* _pool of each process
    loop,       \* start_replenish_loop of each process
    call,       \* where a caller is, and the sandbox in its hands
    job         \* sessions a caller or the tick selected, and the one in work

vars == <<world, pod, warm, row, pool, loop, call, job>>

Hazard(h)   == h \in world.hazards
ThreadOf(c) == world.thread[c]

Active   == {"running", "idle"}     \* and 'delivering', 'error', which nothing sets
Reusable == Active \cup {"suspended"}
Row(b, s) == [box |-> b, state |-> s, old |-> FALSE]

Idle     == [pc |-> "idle", box |-> None, state |-> None]
At(c, pc)       == call' = [call EXCEPT ![c].pc = pc]
Hold(c, pc, b)  == call' = [call EXCEPT ![c].pc = pc, ![c].box = b]
Return(c)       == call' = [call EXCEPT ![c] = Idle]

Tick   == None                      \* the tick's place among the callers
NoJob  == [kind |-> "none", left |-> {}, now |-> None]
Item(t) == [thread |-> t, box |-> row[t].box]

Down == [pc |-> "down", boxes |-> {}, new |-> None]

Rows  == [box : Boxes, state : Reusable \cup {"stopped"}, old : BOOLEAN]
Items == [thread : Threads, box : Boxes]

\* Places of a caller without a sandbox in its hands, and with one.
EmptyHanded == {"idle", "queued", "warm", "cold", "evict", "create", "adopt"}
Holding     == {"status", "resume", "resumed", "stop old", "delete", "check", "insert warm", "insert",
                "lost", "use", "turn", "stop", "pause", "stopped", "suspended"}

PodsOK == pod \in [Boxes -> {"none", "running", "suspended", "gone"}] /\ warm \in SUBSET Boxes
RowsOK == row \in [Threads -> Rows \cup {None}]

\* Pools hold what was created for them.
PoolsOK ==
    /\ pool \in [Replicas -> SUBSET warm]
    /\ loop \in [Replicas -> [pc : {"down", "off", "assigned", "list", "recover", "spawn", "append", "sleep"},
                              boxes : SUBSET Boxes, new : warm \cup {None}]]
    /\ \A r \in Replicas : /\ loop[r].pc = "append" <=> loop[r].new # None
                           /\ loop[r].pc = "recover" => loop[r].boxes \subseteq warm

\* A caller has a sandbox in its hands exactly where it should.
CallsOK ==
    /\ call \in [Callers -> [pc : EmptyHanded \cup Holding, box : Boxes \cup {None},
                             state : Reusable \cup {"stopped", None}]]
    /\ \A c \in Callers : /\ call[c].box = None <=> call[c].pc \in EmptyHanded
                          /\ call[c].pc \in {"check", "insert warm"} => call[c].box \in warm

JobsOK ==
    job \in [Callers \cup {Tick} -> [kind : {"none", "evict", "check", "expire", "reap"},
                                   left : SUBSET Items, now : Items \cup {None}]]

TypeOK == world \in Worlds /\ PodsOK /\ RowsOK /\ PoolsOK /\ CallsOK /\ JobsOK

Init ==
    /\ world \in Worlds
    /\ pod  = [b \in Boxes |-> "none"]
    /\ warm = {}
    /\ row  = [t \in Threads |-> None]
    /\ pool = [r \in Replicas |-> {}]
    /\ loop = [r \in Replicas |-> Down]
    /\ call = [c \in Callers |-> Idle]
    /\ job  = [a \in Callers \cup {Tick} |-> NoJob]

Up(r) == loop[r].pc # "down"

-----------------------------------------------------------------------------
(* The backend *)

\* stop_by_id, and where the caller suppresses its failure
Stopped(b) == pod' = [pod EXCEPT ![b] = "gone"]
StopBox(b) == Stopped(b) \/ (Hazard("backend") /\ UNCHANGED pod)

\* pause_by_id: the plain backend has no pause and stops the sandbox.
PauseBox(b) ==
    IF world.stateful /\ pod[b] \in {"running", "suspended"}
    THEN pod' = [pod EXCEPT ![b] = "suspended"] \/ (Hazard("backend") /\ UNCHANGED pod)
    ELSE StopBox(b)

\* A node takes a sandbox with it.
PodDies(b) ==
    /\ Hazard("dies") /\ pod[b] = "running"
    /\ pod' = [pod EXCEPT ![b] = "gone"]
    /\ UNCHANGED <<world, warm, row, pool, loop, call, job>>

-----------------------------------------------------------------------------
(* get_or_spawn: the thread's session *)

\* An execution is queued before a worker gets its session.
Enqueue(c) ==
    /\ c \in world.workers /\ call[c].pc = "idle" /\ Up(world.on[c])
    /\ At(c, "queued")
    /\ UNCHANGED <<world, pod, warm, row, pool, loop, job>>

ReadSession(c) ==
    /\ call[c].pc = IF c \in world.workers THEN "queued" ELSE "idle"
    /\ Up(world.on[c])
    /\ LET s == row[ThreadOf(c)]
       IN  IF s = None THEN At(c, "warm")
           ELSE call' = [call EXCEPT ![c] = [pc    |-> IF s.state \in Reusable THEN "status" ELSE "delete",
                                             box   |-> s.box,
                                             state |-> s.state]]
    /\ UNCHANGED <<world, pod, warm, row, pool, loop, job>>

\* A suspended session is resumed, unless the caller wants another repository.
AfterStatus(c) == IF call[c].state # "suspended" THEN {"delete"}
                  ELSE {"resume"} \cup (IF Hazard("repo") THEN {"stop old"} ELSE {})

\* The session is used as it is.
Reuse(c) ==
    /\ call[c].pc = "status" /\ pod[call[c].box] = "running"
    /\ At(c, "use")
    /\ UNCHANGED <<world, pod, warm, row, pool, loop, job>>

\* It serves another repository, or its token is too old.
Discard(c) ==
    /\ Hazard("repo") /\ call[c].pc = "status" /\ pod[call[c].box] = "running"
    /\ Stopped(call[c].box)
    /\ \E pc \in AfterStatus(c) : At(c, pc)
    /\ UNCHANGED <<world, warm, row, pool, loop, job>>

\* It does not run.
Missing(c) ==
    /\ call[c].pc = "status" /\ pod[call[c].box] # "running"
    /\ \E pc \in AfterStatus(c) : At(c, pc)
    /\ UNCHANGED <<world, pod, warm, row, pool, loop, job>>

\* resume_by_id and the status after it; a resume that failed may have started it.
Resume(c) ==
    /\ call[c].pc = "resume"
    /\ \/ /\ pod[call[c].box] \in {"running", "suspended"}
          /\ pod' = [pod EXCEPT ![call[c].box] = "running"]
          /\ At(c, "resumed") \/ (Hazard("backend") /\ At(c, "stop old"))
       \/ /\ pod[call[c].box] # "running"
          /\ UNCHANGED pod
          /\ At(c, "stop old")
    /\ UNCHANGED <<world, warm, row, pool, loop, job>>

Resumed(c) ==
    /\ call[c].pc = "resumed"
    /\ LET t == ThreadOf(c)
       IN  row' = IF row[t] # None /\ row[t].box = call[c].box
                  THEN [row EXCEPT ![t] = Row(call[c].box, "idle")] ELSE row
    /\ At(c, "use")
    /\ UNCHANGED <<world, pod, warm, pool, loop, job>>

StopOld(c) ==
    /\ call[c].pc = "stop old"
    /\ StopBox(call[c].box)
    /\ At(c, "delete")
    /\ UNCHANGED <<world, warm, row, pool, loop, job>>

\* The DELETE names the thread only: the row may be another caller's by now.
DeleteRow(c) ==
    /\ call[c].pc = "delete"
    /\ row' = [row EXCEPT ![ThreadOf(c)] = None]
    /\ Hold(c, "warm", None)
    /\ UNCHANGED <<world, pod, warm, pool, loop, job>>

-----------------------------------------------------------------------------
(* get_or_spawn: a sandbox of the warm pool, or a new one *)

\* Mutant: the sandbox leaves the pool when it has been checked.
PopLater(r, b) == pool' = pool

\* The pool's head is taken under its lock (which one that is, is left open).
Pop(r, b) == pool' = [pool EXCEPT ![r] = @ \ {b}]

ClaimWarm(c) ==
    /\ call[c].pc = "warm"
    /\ \E b \in pool[world.on[c]] : Pop(world.on[c], b) /\ Hold(c, "check", b)
    /\ UNCHANGED <<world, pod, warm, row, loop, job>>

\* The pool is empty, off, or not for this harness, or the thread has a turn to resume.
NoWarm(c) ==
    /\ call[c].pc = "warm"
    /\ At(c, "cold")
    /\ UNCHANGED <<world, pod, warm, row, pool, loop, job>>

CheckWarm(c) ==
    /\ call[c].pc = "check"
    /\ \/ /\ pod[call[c].box] = "running" /\ At(c, "insert warm") /\ UNCHANGED pod
       \/ /\ pod[call[c].box] # "running" \/ Hazard("backend")
          /\ StopBox(call[c].box) /\ Hold(c, "cold", None)
    /\ UNCHANGED <<world, warm, row, pool, loop, job>>

\* INSERT ... ON CONFLICT DO NOTHING.
Insert(c, state) == row' = [row EXCEPT ![ThreadOf(c)] = Row(call[c].box, state)]

\* Mutant: the loser goes on with the claimed sandbox in its hands.
InsertWarmHolds(c) ==
    /\ call[c].pc = "insert warm"
    /\ IF row[ThreadOf(c)] = None
       THEN Insert(c, "idle") /\ At(c, "use")
       ELSE At(c, "cold") /\ UNCHANGED row
    /\ UNCHANGED <<world, pod, warm, pool, loop, job>>

\* A loser goes on to spawn and leaves the claimed sandbox running.
InsertWarm(c) ==
    /\ call[c].pc = "insert warm"
    /\ IF row[ThreadOf(c)] = None
       THEN Insert(c, "idle") /\ At(c, "use")
       ELSE Hold(c, "cold", None) /\ UNCHANGED row
    /\ UNCHANGED <<world, pod, warm, pool, loop, job>>

Live(t) == \E c \in world.workers : ThreadOf(c) = t /\ call[c].pc # "idle"
IdleThreads == {t \in Threads : row[t] # None /\ row[t].state = "idle" /\ ~Live(t)}

\* How many idle sessions must go before another sandbox starts.
Overage == LET n == Cardinality({t \in Threads : row[t] # None /\ row[t].state \in Active}) + 1
           IN  IF world.maxActive = 0 \/ n <= world.maxActive THEN 0 ELSE n - world.maxActive

\* _evict_idle_sessions_for_capacity selects (which are the oldest, is left open).
SelectForCapacity(c) ==
    /\ call[c].pc = "cold"
    /\ \E S \in SUBSET IdleThreads :
         /\ Cardinality(S) = Overage \/ (S = IdleThreads /\ Cardinality(S) < Overage)
         /\ job' = [job EXCEPT ![c] = [kind |-> "evict", left |-> {Item(t) : t \in S}, now |-> None]]
    /\ At(c, "evict")
    /\ UNCHANGED <<world, pod, warm, row, pool, loop>>

Evicted(c) ==
    /\ call[c].pc = "evict" /\ job[c].left = {} /\ job[c].now = None
    /\ job' = [job EXCEPT ![c] = NoJob]
    /\ At(c, "create")
    /\ UNCHANGED <<world, pod, warm, row, pool, loop>>

Create(c) ==
    /\ call[c].pc = "create"
    /\ \E b \in Boxes : /\ pod[b] = "none"
                        /\ pod' = [pod EXCEPT ![b] = "running"]
                        /\ Hold(c, "insert", b)
    /\ UNCHANGED <<world, warm, row, pool, loop, job>>

\* The insertion race.  A turn to replay makes the row a running one.
InsertSession(c) ==
    /\ call[c].pc = "insert"
    /\ IF row[ThreadOf(c)] = None
       THEN (\E s \in Active : Insert(c, s)) /\ At(c, "use")
       ELSE At(c, "lost") /\ UNCHANGED row
    /\ UNCHANGED <<world, pod, warm, pool, loop, job>>

StopLost(c) ==
    /\ call[c].pc = "lost"
    /\ Stopped(call[c].box)
    /\ Hold(c, "adopt", None)
    /\ UNCHANGED <<world, warm, row, pool, loop, job>>

\* The winner's session, unless its row has vanished.
AdoptWinner(c) ==
    /\ call[c].pc = "adopt"
    /\ IF row[ThreadOf(c)] = None THEN Return(c) ELSE Hold(c, "use", row[ThreadOf(c)].box)
    /\ UNCHANGED <<world, pod, warm, row, pool, loop, job>>

\* A call of the backend or of the database raises.  What the caller had created or
\* claimed by then is left as it is, in no row.
Raise(c) ==
    /\ Hazard("backend")
    /\ call[c].pc \in {"status", "check", "insert warm", "create", "insert", "lost"}
    /\ Return(c)
    /\ UNCHANGED <<world, pod, warm, row, pool, loop, job>>

SetState(t, s) == row' = IF row[t] = None THEN row
                         ELSE [row EXCEPT ![t].state = s, ![t].old = FALSE]

\* A worker runs its turn; a spawn request is over with the session.
BeginTurn(c) ==
    /\ call[c].pc = "use" /\ c \in world.workers
    /\ SetState(ThreadOf(c), "running")
    /\ At(c, "turn")
    /\ UNCHANGED <<world, pod, warm, pool, loop, job>>

EndTurn(c) ==
    /\ call[c].pc = "turn"
    /\ SetState(ThreadOf(c), "idle")
    /\ Return(c)
    /\ UNCHANGED <<world, pod, warm, pool, loop, job>>

Spawned(c) ==
    /\ call[c].pc = "use" /\ c \notin world.workers
    /\ Return(c)
    /\ UNCHANGED <<world, pod, warm, row, pool, loop, job>>

-----------------------------------------------------------------------------
(* stop_session and _pause_execution_session *)

ReadToStop(c) ==
    /\ Hazard("stop") /\ call[c].pc = "idle" /\ c \notin world.workers /\ Up(world.on[c])
    /\ row[ThreadOf(c)] # None
    /\ \E pc \in {"stop"} \cup (IF world.stateful THEN {"pause"} ELSE {}) :
         Hold(c, pc, row[ThreadOf(c)].box)
    /\ UNCHANGED <<world, pod, warm, row, pool, loop, job>>

StopSession(c) ==
    /\ call[c].pc \in {"stop", "pause"}
    /\ IF call[c].pc = "stop" THEN StopBox(call[c].box) ELSE PauseBox(call[c].box)
    /\ \/ At(c, IF call[c].pc = "stop" THEN "stopped" ELSE "suspended")
       \/ Hazard("backend") /\ Return(c)
    /\ UNCHANGED <<world, warm, row, pool, loop, job>>

\* The UPDATE names the sandbox.
MarkStopped(c) ==
    /\ call[c].pc \in {"stopped", "suspended"}
    /\ row' = [t \in Threads |-> IF row[t] # None /\ row[t].box = call[c].box
                                 THEN Row(row[t].box, call[c].pc) ELSE row[t]]
    /\ Return(c)
    /\ UNCHANGED <<world, pod, warm, pool, loop, job>>

-----------------------------------------------------------------------------
(* reconcile_tick, and the end of an eviction *)

\* An hour, the idle time or the retention of a suspended session passes.
Age(t) ==
    /\ Hazard("tick") /\ row[t] # None
    /\ row' = [row EXCEPT ![t].old = TRUE]
    /\ UNCHANGED <<world, pod, warm, pool, loop, call, job>>

Selected(kind) ==
    CASE kind = "check"  -> {t \in Threads : row[t] # None /\ row[t].state \in Active}
      [] kind = "expire" -> {t \in Threads : row[t] # None /\ row[t].state \in Active
                                               /\ row[t].old /\ ~Live(t)}
      [] kind = "reap"   -> {t \in Threads : row[t] # None /\ row[t].state = "suspended" /\ row[t].old}

\* A step of the tick selects rows.
StepOfTick(kind) ==
    /\ Hazard("tick") /\ job[Tick] = NoJob /\ \E r \in Replicas : Up(r)
    /\ job' = [job EXCEPT ![Tick] = [kind |-> kind, now |-> None,
                                     left |-> {Item(t) : t \in Selected(kind)}]]
    /\ UNCHANGED <<world, pod, warm, row, pool, loop, call>>

WithoutOld(state) == [t \in Threads |-> IF row[t] # None /\ row[t].state = state /\ row[t].old
                                        THEN None ELSE row[t]]

\* Rows that ended long ago are deleted.
CleanRows ==
    /\ Hazard("tick") /\ job[Tick] = NoJob /\ \E r \in Replicas : Up(r)
    /\ row' = WithoutOld("stopped")
    /\ UNCHANGED <<world, pod, warm, pool, loop, call, job>>

\* It takes the next: a session whose sandbox is gone is marked, one that has been
\* idle for too long is paused and marked, a suspended one is stopped.
TakeItem(a, i) ==
    /\ i \in job[a].left /\ job[a].now = None
    /\ job' = [job EXCEPT ![a].left = @ \ {i},
                          ![a].now = IF \/ job[a].kind \in {"evict", "expire"}
                                        \/ job[a].kind = "check" /\ pod[i.box] # "running"
                                     THEN i ELSE None]
    /\ CASE job[a].kind = "check" -> UNCHANGED pod
         [] job[a].kind = "reap"  -> StopBox(i.box)
         [] OTHER                 -> PauseBox(i.box)
    /\ UNCHANGED <<world, warm, row, pool, loop, call>>

\* _mark_inactive asks for the thread only, an eviction for an idle session.
MarkItem(a) ==
    /\ job[a].now # None
    /\ LET t == job[a].now.thread
       IN  IF job[a].kind = "evict" /\ row[t] # None /\ row[t].state # "idle"
           THEN UNCHANGED row ELSE SetState(t, "suspended")
    /\ job' = [job EXCEPT ![a].now = None]
    /\ UNCHANGED <<world, pod, warm, pool, loop, call>>

\* The step ends.  Suspended rows that are old by now are deleted.
StepEnds ==
    /\ job[Tick] # NoJob /\ job[Tick].left = {} /\ job[Tick].now = None
    /\ job' = [job EXCEPT ![Tick] = NoJob]
    /\ row' = IF job[Tick].kind = "reap" THEN WithoutOld("suspended") ELSE row
    /\ UNCHANGED <<world, pod, warm, pool, loop, call>>

-----------------------------------------------------------------------------
(* The warm pool's loop, and processes *)

\* One process at a time, or a deployment that starts one before the other ends.
Start(r) ==
    /\ loop[r].pc = "down" /\ \/ Hazard("overlap")
                              \/ \A q \in Replicas : ~Up(q)
    /\ loop' = [loop EXCEPT ![r].pc = IF Hazard("no pool") THEN "off" ELSE "assigned"]
    /\ UNCHANGED <<world, pod, warm, row, pool, call, job>>

\* _get_assigned_sandbox_ids
ReadAssigned(r) ==
    /\ loop[r].pc = "assigned"
    /\ loop' = [loop EXCEPT ![r].pc = "list",
                  ![r].boxes = {row[t].box : t \in {t \in Threads : row[t] # None /\ row[t].state \in Active}}]
    /\ UNCHANGED <<world, pod, warm, row, pool, call, job>>

\* recover_warm lists the running sandboxes of pools.
ListWarm(r) ==
    /\ loop[r].pc = "list"
    /\ loop' = [loop EXCEPT ![r].pc = "recover",
                            ![r].boxes = {b \in warm : pod[b] = "running"} \ @]
    /\ UNCHANGED <<world, pod, warm, row, pool, call, job>>

\* _evict_existing_warm
EvictWarm(r, b) ==
    /\ ~Hazard("adopt") /\ loop[r].pc = "recover" /\ b \in loop[r].boxes
    /\ StopBox(b)
    /\ loop' = [loop EXCEPT ![r].boxes = @ \ {b}]
    /\ UNCHANGED <<world, warm, row, pool, call, job>>

\* _recover_warm, the other setting
RecoverWarm(r) ==
    /\ Hazard("adopt") /\ loop[r].pc = "recover"
    /\ \E S \in SUBSET loop[r].boxes :
         /\ Cardinality(S) = PoolSize \/ (S = loop[r].boxes /\ Cardinality(S) < PoolSize)
         /\ pool' = [pool EXCEPT ![r] = S]
    /\ loop' = [loop EXCEPT ![r].boxes = {}]
    /\ UNCHANGED <<world, pod, warm, row, call, job>>

\* replenish looks at the pool, under its lock: what does not run or is too old is
\* stopped, unless its status cannot be had.
CheckPool(r) ==
    /\ loop[r].pc \in {"recover", "sleep"} /\ loop[r].boxes = {}
    /\ \E old \in SUBSET pool[r] :
         /\ old # {} => Hazard("old")
         /\ LET drop == old \cup {b \in pool[r] : pod[b] # "running"}
            IN  /\ pool' = [pool EXCEPT ![r] = @ \ drop]
                /\ \/ pod' = [b \in Boxes |-> IF b \in drop THEN "gone" ELSE pod[b]]
                   \/ Hazard("backend") /\ UNCHANGED pod
    /\ loop' = [loop EXCEPT ![r].pc = "spawn"]
    /\ UNCHANGED <<world, warm, row, call, job>>

SpawnWarm(r) ==
    /\ loop[r].pc = "spawn" /\ Cardinality(pool[r]) < PoolSize
    /\ \E b \in Boxes : /\ pod[b] = "none"
                        /\ pod' = [pod EXCEPT ![b] = "running"]
                        /\ warm' = warm \cup {b}
                        /\ loop' = [loop EXCEPT ![r].pc = "append", ![r].new = b]
    /\ UNCHANGED <<world, row, pool, call, job>>

AppendWarm(r) ==
    /\ loop[r].pc = "append"
    /\ pool' = [pool EXCEPT ![r] = @ \cup {loop[r].new}]
    /\ loop' = [loop EXCEPT ![r].pc = "spawn", ![r].new = None]
    /\ UNCHANGED <<world, pod, warm, row, call, job>>

\* The pool is full, or a sandbox could not be created.
Replenished(r) ==
    /\ loop[r].pc = "spawn"
    /\ loop' = [loop EXCEPT ![r].pc = "sleep"]
    /\ UNCHANGED <<world, pod, warm, row, pool, call, job>>

\* A process ends.  Nobody empties its pool.
Exit(r) ==
    /\ Hazard("exit") /\ Up(r)
    /\ loop' = [loop EXCEPT ![r] = Down]
    /\ pool' = [pool EXCEPT ![r] = {}]
    /\ call' = [c \in Callers |-> IF world.on[c] = r THEN Idle ELSE call[c]]
    /\ job'  = [a \in Callers \cup {Tick} |->
                  IF a # Tick => world.on[a] = r THEN NoJob ELSE job[a]]
    /\ UNCHANGED <<world, pod, warm, row>>

GetOrSpawn(c) ==
    \/ Enqueue(c) \/ ReadSession(c) \/ Reuse(c) \/ Discard(c) \/ Missing(c) \/ Resume(c)
    \/ Resumed(c) \/ StopOld(c) \/ DeleteRow(c) \/ ClaimWarm(c) \/ NoWarm(c) \/ CheckWarm(c)
    \/ InsertWarm(c) \/ SelectForCapacity(c) \/ Evicted(c) \/ Create(c) \/ InsertSession(c)
    \/ StopLost(c) \/ AdoptWinner(c) \/ Raise(c) \/ BeginTurn(c) \/ EndTurn(c) \/ Spawned(c)

Reconcile ==
    \/ \E t \in Threads : Age(t)
    \/ \E kind \in {"check", "expire", "reap"} : StepOfTick(kind)
    \/ CleanRows
    \/ StepEnds
    \/ \E a \in Callers \cup {Tick} : MarkItem(a) \/ \E i \in job[a].left : TakeItem(a, i)

PoolLoop(r) ==
    \/ Start(r) \/ ReadAssigned(r) \/ ListWarm(r) \/ RecoverWarm(r) \/ CheckPool(r)
    \/ SpawnWarm(r) \/ AppendWarm(r) \/ Replenished(r) \/ Exit(r)
    \/ \E b \in Boxes : EvictWarm(r, b)

Next ==
    \/ \E c \in Callers : GetOrSpawn(c) \/ ReadToStop(c) \/ StopSession(c) \/ MarkStopped(c)
    \/ Reconcile
    \/ \E r \in Replicas : PoolLoop(r)
    \/ \E b \in Boxes : PodDies(b)

Spec == Init /\ [][Next]_vars

-----------------------------------------------------------------------------
(* Properties *)

\* A thread has a sandbox by its row or in the hands of a caller of it, and a process
\* offers those in its pool and the one on its way there.
Has(t, b)    == \/ row[t] # None /\ row[t].box = b
                \/ \E c \in Callers : ThreadOf(c) = t /\ call[c].box = b
Offers(r, b) == b \in pool[r] \/ loop[r].new = b

\* No sandbox serves two threads, or one while a pool still offers it, or is in the
\* pools of two processes (get_or_spawn, claim_container, replenish): through claims that await between the pool and the row,
\* insertion races, deletes that hit another's row, stops, pauses and restarts.
Exclusive ==
    \A b \in Boxes :
        /\ \A t, u \in Threads : Has(t, b) /\ Has(u, b) => t = u
        /\ \A t \in Threads, r \in Replicas : ~(Has(t, b) /\ Offers(r, b))
        /\ \A r, q \in Replicas : Offers(r, b) /\ Offers(q, b) => r = q
=============================================================================
