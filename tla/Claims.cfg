SPECIFICATION Spec
CONSTANTS
    t1 = t1
    t2 = t2
    t3 = t3
    c1 = c1
    c2 = c2
    Executions = {1, 2, 3}
    Threads = {t1, t2, t3}
    Claimers = {c1, c2}
    SlotCap = 1
    Window = 2
    Worlds <- SafetyWorlds
    None = None
CHECK_DEADLOCK FALSE
SYMMETRY ClaimerSymmetry
INVARIANTS TypeOK OneActivePerThread SlotsNearCap
