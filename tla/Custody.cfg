SPECIFICATION Spec
CONSTANTS
    t1 = t1
    t2 = t2
    c1 = c1
    c2 = c2
    r1 = r1
    r2 = r2
    Threads = {t1, t2}
    Callers = {c1, c2}
    Replicas = {r1, r2}
    Boxes = {b1, b2, b3}
    PoolSize = 1
    Worlds <- CustodyWorlds
    None = None
CHECK_DEADLOCK FALSE
SYMMETRY Sym
INVARIANTS TypeOK Exclusive
