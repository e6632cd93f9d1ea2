CONSTANTS
    r1 = r1
    Readers = {r1}
    Counts = {0, 1}
    MaxEpoch = 1
    MaxSeq = 4
    NoSample = NoSample
SPECIFICATION Spec
PROPERTIES
    ImplementsFreshSample
    ReadersReturn
