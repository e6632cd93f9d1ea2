CONSTANTS
    a = a
    b = b
    c = c
    d = d
    e = e
    Keys = {a, b, c}
    NoKey = NoKey
    Weights = {0, 1, 2}
    Prefixes <- NoPrefixes
    CounterModulus = 2
    MaxSize = 1
    RetentionNum = 0
    RetentionDen = 2
    MinPeakSlackEntries = 1
    MinChurnCompactDeletes = 2
    DeletedCap = 3
SPECIFICATION Spec
SYMMETRY KeySymmetry
INVARIANTS
    EntryCountBound
    CountersBalance
