SPECIFICATION FairSpec
CONSTANTS
    Items = {i1}
    Requests = {r1}
    MaxAttempts = 2
    BatchLimit = 1
    Concurrency = 1
    MaxFaults = 1
PROPERTIES
    SendingEnds
