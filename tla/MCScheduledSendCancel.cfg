SPECIFICATION Spec
CONSTANTS
    NoItem = NoItem
    Items = {s1}
    Requests = {r1}
    BatchLimit = 1
    MaxFaults = 0
INVARIANTS
    CancelledMeansUnsent
