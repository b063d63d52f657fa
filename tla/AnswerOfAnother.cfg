SPECIFICATION Spec
CONSTANTS
    t1 = t1
    t2 = t2
    e1 = e1
    Tasks = {t1, t2}
    Workers = {w1}
    Events = {e1}
    Payloads = {p1, p2}
    MaxRuns = 2
    Lease = 2
    Worlds <- KeyWorlds
    None = None
    TimedOut = TimedOut
CHECK_DEADLOCK FALSE
INVARIANTS AnswersOwnCall
