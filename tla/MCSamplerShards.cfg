CONSTANTS
    t1 = t1
    t2 = t2
    Nobody = Nobody
    Threads = {t1, t2}
    Shards = {1, 2}
    Coord = 0
    Custom = FALSE
    Readings = {0, 2}
    Kinds = {"write", "prefix", "evaluate"}
    Window = 2
    MaxSameShardRetries = 1
    MaxCrossShardRetries = 1
    MaxOps = 2
SPECIFICATION Spec
SYMMETRY ThreadSymmetry
PROPERTIES
    ElevatedIsCurrent
    SamplesAdvance
    OperationsEnd
