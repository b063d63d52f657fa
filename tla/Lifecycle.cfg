SPECIFICATION Spec
CONSTANTS
    e1 = e1
    e2 = e2
    e3 = e3
    t1 = t1
    t2 = t2
    w1 = w1
    w2 = w2
    r1 = r1
    d1 = d1
    Executions = {e1, e2, e3}
    Threads = {t1, t2}
    ThreadOf <- ThreadsOf
    Channel <- Channels
    Workers = {w1, w2}
    Requests = {r1}
    Watchdogs = {d1}
    AuthRetryLimit = 1
    Worlds <- SafetyWorlds
    None = None
CHECK_DEADLOCK FALSE
SYMMETRY WorkerSymmetry
INVARIANTS TypeOK OneActivePerThread OneWorkerPerExecution
PROPERTIES FirstFinalizerWins CancelNeverForgotten DeliveredStaysDelivered
