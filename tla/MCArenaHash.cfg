CONSTANTS
    k1 = k1
    k2 = k2
    k3 = k3
    k4 = k4
    NoKey = NoKey
    Key <- FourKeys
    NodeCount = 5
    Hash <- HashOfKey
    Tag <- TagOfHash
    MinCap = 2
    ShortModulus = 2
    Subtrees <- SomeSubtrees
    EntryCallback = FALSE
    MaxVictims = 1
SPECIFICATION Spec
INVARIANTS
    LookupsExact
    IndexIsPartition
