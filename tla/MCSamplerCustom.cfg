CONSTANTS
    t1 = t1
    t2 = t2
    Nobody = Nobody
    Threads = {t1, t2}
    Shards = {1, 2}
    Coord = 0
    Custom = TRUE
    Readings = {0, 2}
    Kinds = {"write"}
    Window = 2
    MaxSameShardRetries = 0
    MaxCrossShardRetries = 1
    MaxOps = 3
SPECIFICATION Spec
SYMMETRY ThreadSymmetry
INVARIANTS
    RetriesBounded
PROPERTIES
    ElevatedIsCurrent
    RecoveryNotUndone
