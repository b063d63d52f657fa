SPECIFICATION Spec
CONSTANTS
    Messages = {m1, m2}
    Sys = Sys
    MaxExecutions = 2
    Workers = {w1, w2}
    MaxTurns = 3
    MaxClock = 4
    Worlds <- TurnWorlds
    None = None
CHECK_DEADLOCK FALSE
SYMMETRY Sym
INVARIANTS TypeOK NothingSkipped CompletedHeard OwnAnswer NoSilentTurn OneTurnPerMessage
