CONSTANTS
    MaxSize = 2
    RetentionNum = 1
    RetentionDen = 2
    MinPeakSlackEntries = 1
    MinChurnCompactDeletes = 2
    DeletedCap = 3
    MaxNodes = 6
    KeyStrings <- BranchingKeys
    PrefixArgs <- CutInside
    Weights = {0, 1, 2}
SPECIFICATION Spec
VIEW StateView
INVARIANTS
    TrieWellFormed
    EntriesAgree
PROPERTIES
    DeparturesNamed
    CallsTakeEffect
    ImplementsLRU
