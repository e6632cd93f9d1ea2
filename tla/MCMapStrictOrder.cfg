CONSTANTS
    a = a
    b = b
    c = c
    d = d
    e = e
    Keys = {a, b, c}
    NoKey = NoKey
    Weights = {1, 3}
    Prefixes <- NoPrefixes
    CounterModulus = 1
    MaxSize = 3
    RetentionNum = 1
    RetentionDen = 2
    MinPeakSlackEntries = 1
    MinChurnCompactDeletes = 2
    DeletedCap = 3
SPECIFICATION Spec
INVARIANTS
    StrictQueueOrder
