SPECIFICATION FairSpec
CONSTANTS
    None = None
    LastVersion = 2
    MaxTags = 3
    MaxFaults = 1
    Good = {1}
INVARIANTS
    TypeOK
PROPERTIES
    UpdateFailureRestores
    PointIsKept
    OperationEnds
