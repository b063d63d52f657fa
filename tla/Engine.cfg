SPECIFICATION FairSpec
CONSTANTS
    parent = parent
    child = child
    ev = ev
    Runs = {parent, child}
    Workers = {w1, w2}
    Events = {ev}
    MaxClaims = 6
    MaxFaulty = 1
    Worlds <- EngineWorlds
    None = None
CHECK_DEADLOCK FALSE
INVARIANTS
    TypeOK
    ReplayAgrees
PROPERTIES
    EndedStaysEnded
    TimedRunsEnd
