CONSTANTS
    a = a
    b = b
    c = c
    d = d
    e = e
    Keys = {a, b}
    NoKey = NoKey
    Weights = {0, 2}
    Prefixes <- NoPrefixes
    CounterModulus = 1
    MaxSize = 2
    RetentionNum = 1
    RetentionDen = 2
    MinPeakSlackEntries = 1
    MinChurnCompactDeletes = 2
    DeletedCap = 2
SPECIFICATION Spec
INVARIANTS
    ShedIdempotent
