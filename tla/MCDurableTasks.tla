--------------------------- MODULE MCDurableTasks ---------------------------
(* Instance values for model checking DurableTasks. *)
EXTENDS DurableTasks, TLC

CONSTANTS t1, t2, e1

Step  == [kind |-> "step"]
Sleep == [kind |-> "sleep"]
Agent == [kind |-> "agent"]
Tool  == [kind |-> "tool"]
Turn  == [kind |-> "turn"]
Wait(timeout, try) == [kind |-> "event", event |-> e1, timeout |-> timeout, try |-> try]

Sym == Permutations(Workers) \cup Permutations(Payloads)

\* Every task has the same handler.
World(W, T, program, attempts, backoff, delay, duration, H) ==
    [workers |-> W, tasks |-> T, program |-> [t \in Tasks |-> program], attempts |-> attempts,
     backoff |-> backoff, delay |-> delay, duration |-> duration, hazards |-> H]

All(program, attempts, H) == World(Workers, {t1}, program, attempts, 0, Never, Never, H)

\* Two executors of one task: lapses, a crash, failures, cancels and retries.
Contended == {All(<<Step, Step>>, 2, {"lapse", "cancel", "retry"}),
              All(<<Step, Step>>, 2, {"lapse", "crash", "fail"}),
              All(<<Step, Sleep, Step>>, 2, {"lapse", "crash"}),
              All(<<Turn, Step>>, 2, {"lapse", "fail"})}

\* Waits with and without timeouts, raced by emitters, cancels and lapses.
Awaiting == {All(<<Wait(Never, FALSE), Step>>, 2, {"lapse", "cancel", "unknown"}),
             All(<<Wait(1, FALSE), Step>>, 2, {"lapse", "retry"}),
             All(<<Wait(1, TRUE), Step>>, 2, {"lapse", "unknown"}),
             All(<<Step, Wait(1, TRUE)>>, 2, {"lapse", "cancel"})}

\* Backoff and cancellation policies.
Timed == {World(Workers, {t1}, <<Step, Sleep>>, 2, 1, 1, 2, {"fail", "crash"}),
          World(Workers, {t1}, <<Step, Wait(1, FALSE)>>, 2, 1, Never, 2, {"fail"})}

\* Two tasks that wait for one event, and a sweep that takes one run at a time.
Several == {World(Workers, Tasks, <<Wait(Never, FALSE)>>, 2, 0, Never, Never, {"lapse"}),
            World(Workers, Tasks, <<Wait(1, FALSE)>>, 1, 0, Never, Never, {"crash"})}

\* Agent turns and tool calls of Python workflows.
Python == {All(<<Agent, Agent>>, 2, {"lapse", "fail", "retry"}),
           All(<<Tool, Step>>, 2, {"lapse", "fail"})}

TaskWorlds == Contended \cup Awaiting \cup Timed \cup Several \cup Python

KeyWorlds == {All(<<Step, Agent, Agent>>, 2, {"crash"})}
=============================================================================
