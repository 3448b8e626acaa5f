\* Handlers finish within their lease; faults still leave orphans behind.
SPECIFICATION FairSpec
CONSTANTS
    w1 = w1
    w2 = w2
    c1 = c1
    Null = Null
    Workers = {w1, w2}
    Chains = {c1}
    ChainLen = 2
    MaxTries = 2
    RetryAfter = 1
    BackoffCap = 2
    ReclaimBatch = 1
    ReuseIds = FALSE
    Prompt = TRUE
    MaxId = 3
    MaxTime = 14
    MaxFaults = 1
    MaxClears = 0
CHECK_DEADLOCK FALSE
INVARIANTS
    LeaseExclusive
    ChainStepPushedOnce
PROPERTIES
    EventuallySettled
    ShutdownDrains
