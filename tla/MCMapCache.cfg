CONSTANTS
    a = a
    b = b
    c = c
    d = d
    e = e
    Keys = {a, b, c}
    NoKey = NoKey
    Weights = {0, 1, 2, 3, 4}
    Prefixes <- TwoPrefixes
    CounterModulus = 1
    MaxSize = 3
    RetentionNum = 1
    RetentionDen = 2
    MinPeakSlackEntries = 1
    MinChurnCompactDeletes = 2
    DeletedCap = 3
SPECIFICATION Spec
INVARIANTS
    TypeOK
    ListMatchesIndex
    SizeParity
    CapacityBound
    WatermarksCover
    DeparturesNotified
    QueueOrder
    ReplaceGrowthFits
    ReplaceFitsBesideNewer
    ShedReachesTarget
    ReclaimsOnce
