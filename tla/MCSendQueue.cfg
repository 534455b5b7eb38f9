SPECIFICATION FairSpec
CONSTANTS
    Items = {i1, i2}
    Requests = {r1}
    MaxAttempts = 2
    BatchLimit = 2
    Concurrency = 1
    MaxFaults = 1
INVARIANTS
    TypeOK
    AttemptsDoNotCollide
    DuplicateNeedsLostProof
    NoSilentLoss
PROPERTIES
    ImplementsLifecycle
    QueueDrains
