SPECIFICATION Spec
CONSTANTS
    Calls = {c1, c2}
    Rows = {r1}
    x1 = x1
    x2 = x2
    x3 = x3
    byName = byName
    byAge = byAge
    Queries = {x1, x2, x3}
    Texts = {byName, byAge}
    Text <- SqlText
    Keys = {k1}
    Fingerprint <- Collide
    Strategies = {"ReadWrite", "ReadOnly"}
    None = None
    MaxVersion = 2
    MaxGeneration = 2
    MaxFlushes = 1
    MaxFaults = 1
SYMMETRY Symmetry
INVARIANTS CacheIsCurrent AnswersAreCurrent
