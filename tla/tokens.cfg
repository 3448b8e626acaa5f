SPECIFICATION Spec
CONSTANTS
    Codes = {k1}
    Requests = {q1, q2, q3}
    None = None
    CodeTtl = 1
    AccessTtl = 1
    RefreshTtl = 2
    MaxTokens = 3
    MaxClock = 2
    MaxFaults = 1
SYMMETRY Symmetry
INVARIANTS OneLivePair RevocationIsFinal
