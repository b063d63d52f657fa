SPECIFICATION FairSpec
CONSTANTS
    e1 = e1
    e2 = e2
    e3 = e3
    t1 = t1
    t2 = t2
    w1 = w1
    w2 = w2
    r1 = r1
    d1 = d1
    Executions = {e3}
    Threads = {t2}
    ThreadOf <- SoleThread
    Channel <- SoleChannel
    Workers = {w1}
    Requests = {r1}
    Watchdogs = {d1}
    AuthRetryLimit = 1
    Worlds <- FairWorlds
    None = None
CHECK_DEADLOCK FALSE
PROPERTIES EveryExecutionEnds FailureAnswered
