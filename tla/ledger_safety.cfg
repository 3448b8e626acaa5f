SPECIFICATION Spec
CONSTANTS
    Callers = {c1, c2}
    Sweepers = {s1}
    Owners = {o1}
    o1 = o1 r1 = r1 r2 = r2 r3 = r3 r4 = r4
    Requests <- Mixed
    Engines = {"postgres", "sqlite"}
    MaxTime = 1
    MaxCalls = 5
    MaxFaults = 1
    Null = Null
INVARIANTS BookBalances NeverOverdrawn HeldIsReserved CapturedIffCharged LotsCoveredSerially
