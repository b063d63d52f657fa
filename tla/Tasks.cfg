SPECIFICATION FairSpec
CONSTANTS
    t1 = t1
    t2 = t2
    e1 = e1
    Tasks = {t1, t2}
    Workers = {w1, w2}
    Events = {e1}
    Payloads = {p1, p2}
    MaxRuns = 3
    Lease = 2
    Worlds <- TaskWorlds
    None = None
    TimedOut = TimedOut
CHECK_DEADLOCK FALSE
INVARIANTS TypeOK OneLiveRun ReplayAgrees FencedSoon NoLostWakeup
PROPERTIES EveryTaskEnds
