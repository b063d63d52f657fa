SPECIFICATION PollSpec
CONSTANTS
    k1 = k1
    k2 = k2
    k3 = k3
    bot1 = bot1
    bot2 = bot2
    d1 = d1
    d2 = d2
    Deliveries = {d1, d2}
    Ticks = {k1, k2, k3}
    Consumers = {bot1, bot2}
    ConsumerOf <- OverlapAndReplica
    BatchLimit = 2
    MaxAttempts = 2
    MaxRenewals <- FirstRenewed
    MaxFaults = 1
    None = None
CHECK_DEADLOCK FALSE
INVARIANTS TypeOK OneHolder
PROPERTIES KeepsPromise EveryAnswerSettled
