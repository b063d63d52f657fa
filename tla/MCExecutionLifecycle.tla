----------------------- MODULE MCExecutionLifecycle -----------------------
(* Instance values for model checking ExecutionLifecycle. *)
EXTENDS ExecutionLifecycle, TLC

CONSTANTS e1, e2, e3, t1, t2, w1, w2, r1, d1

\* Two executions of one thread and one of another, which owes a posted answer.
ThreadsOf == (e1 :> t1 @@ e2 :> t1 @@ e3 :> t2)
Channels  == (e1 :> "dev" @@ e2 :> "dev" @@ e3 :> "post")

\* One execution alone.
SoleThread  == (e3 :> t2)
SoleChannel == (e3 :> "post")

\* Workers run the same loop: permuting them changes nothing (safety runs).
WorkerSymmetry == Permutations(Workers)

World(A, E, lapse, c, g) ==
    [actors |-> A, executions |-> E, lapse |-> lapse, crashes |-> c, generations |-> g]

\* A thread, a worker slower than its lease, and a handler that cancels and
\* releases: two executions, or one with a second assignment.
Alternating == {World({w, r1}, {e1, e2}, TRUE, 0, 1) : w \in Workers}
                 \cup {World({w, r1}, {e1}, TRUE, 0, 2) : w \in Workers}

\* One execution that everybody finalizes: two workers and the handler or the
\* watchdog, or one worker and both.
Racing == {World({w1, w2, r1}, {e3}, TRUE, 0, 1), World({w1, w2, d1}, {e3}, TRUE, 1, 1)}
            \cup {World({w, r1, d1}, {e3}, TRUE, 1, 1) : w \in Workers}

\* Kept leases and no handler, with crashes; or two executions of a thread.
Kept == {World({w1, w2, d1}, {e3}, FALSE, 2, 1),
         World({w1, w2}, {e1, e2}, FALSE, 1, 1)}

SafetyWorlds == Alternating \cup Racing \cup Kept

\* One execution, with a crash and without.
FairWorlds == {World({w1, r1, d1}, {e3}, TRUE, c, 1) : c \in 0 .. 1}
===========================================================================
