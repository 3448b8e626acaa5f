SPECIFICATION Spec
CONSTANTS
    Callers = {c1}
    Sweepers = {s1, s2}
    Owners = {o1}
    o1 = o1 r1 = r1 r2 = r2 r3 = r3 r4 = r4
    Requests <- Batches
    Engines = {"postgres"}
    MaxTime = 1
    MaxCalls = 4
    MaxFaults = 1
    Null = Null
PROPERTIES StaleHoldsReleased DeadLotsEmptied
