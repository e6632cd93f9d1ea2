CONSTANTS
    a = a
    b = b
    c = c
    Keys = {a, b, c}
    NoKey = NoKey
    Weights = {0, 1, 2}
    Prefixes <- TwoPrefixes
    CounterModulus = 1
    MaxSize = 2
    RetentionNum = 1
    RetentionDen = 2
    MinPeakSlackEntries = 1
    MinChurnCompactDeletes = 2
    DeletedCap = 3
SPECIFICATION Spec
PROPERTIES
    ImplementsLRU
    OperationCompletes
