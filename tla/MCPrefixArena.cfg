CONSTANTS
    KeyStrings <- MixedKeys
    PrefixArgs <- Cuts
    LargePrefix = 3
    CopyLimit = 2
    MinArena = 4
    MaxSpans = 2
    MaxEntries = 3
    MaxVictims = 1
    MaxHeld = 1
    MaxBytes = 6
SPECIFICATION Spec
VIEW StateView
INVARIANTS
    KeysIntact
    HandedStringsIntact
    SpansDisjoint
