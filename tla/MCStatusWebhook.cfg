SPECIFICATION FairSpec
CONSTANTS
    a1 = a1
    c1 = c1
    c2 = c2
    s1 = s1
    s2 = s2
    Audits = {a1}
    Callbacks = {c1, c2}
    Sends = {s1, s2}
    SendOf <- MCSendOf
    MaxAttempts = 2
    BatchLimit = 1
    NoEvent = NoEvent
    MaxFaults = 1
INVARIANTS
    TypeOK
    HeardOnce
PROPERTY EveryNoteSettled
