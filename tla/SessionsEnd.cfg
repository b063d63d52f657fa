SPECIFICATION FairSpec
CONSTANTS
    r1 = r1
    r2 = r2
    r3 = r3
    k1 = k1
    k2 = k2
    k3 = k3
    Requests = {r1, r2, r3}
    Executions = {k1, k2, k3}
    Boxes = {1, 2}
    MaxSlots = 6
    Worlds <- LivenessWorlds
    None = None
PROPERTIES
    EndedIsTold
    EveryExecutionEnds
CHECK_DEADLOCK FALSE
