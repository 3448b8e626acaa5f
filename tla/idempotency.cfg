SPECIFICATION Spec
CONSTANTS
    r1 = r1 r2 = r2 r3 = r3 r4 = r4
    Requests = {r1, r2, r3, r4}
    Fingerprint <- OneOther
    Ttl = 2
    Drivers = {"local", "redis"}
    Prompt = TRUE
    MaxFaults = 1
    MaxPanics = 1
    MaxClock = 4
    Never = Never
    Nobody = Nobody
INVARIANTS RunsOncePerWindow ConflictMeansRunning ReplayIsFaithful
SYMMETRY Symmetry
CHECK_DEADLOCK FALSE
