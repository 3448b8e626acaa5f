\* Handlers may outlive their lease; one fault and one clear anywhere.
SPECIFICATION Spec
CONSTANTS
    w1 = w1
    w2 = w2
    c1 = c1
    Null = Null
    Workers = {w1, w2}
    Chains = {c1}
    ChainLen = 2
    MaxTries = 2
    RetryAfter = 1
    BackoffCap = 2
    ReclaimBatch = 1
    ReuseIds = FALSE
    Prompt = FALSE
    MaxId = 3
    MaxTime = 4
    MaxFaults = 1
    MaxClears = 1
SYMMETRY Symmetry
CHECK_DEADLOCK FALSE
INVARIANTS
    AttemptHandedOutOnce
    NoJobLost
    ChainNeverStalls
PROPERTY KeepsContract
