SPECIFICATION Spec
CONSTANTS
    Calls = {c1, c2, c3}
    Probes = 2
    MinimumCalls = 2
    RateNum = 1
    RateDen = 2
    Buckets = 2
    ResetAfter = 1
    MaxInWindow = 3
    MaxOutages = 2
    MaxDrops = 1
    MaxResets = 1
    Null = Null

INVARIANTS NeverWedged TripsOnEvidence
PROPERTY Recovers
