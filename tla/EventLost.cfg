SPECIFICATION Spec
CONSTANTS
    parent = parent
    child = child
    ev = ev
    Runs = {parent, child}
    Workers = {w1, w2}
    Events = {ev}
    MaxClaims = 6
    MaxFaulty = 1
    Worlds <- EventWorlds
    None = None
CHECK_DEADLOCK FALSE
INVARIANTS
    WakesKept
