SPECIFICATION FairSpec
CONSTANTS
    NoItem = NoItem
    Items = {s1, s2}
    Requests = {r1, r2}
    BatchLimit = 2
    MaxFaults = 2
INVARIANTS
    TypeOK
    HandedOverAsTold
PROPERTIES
    WithdrawnStays
    DueIsDecided
