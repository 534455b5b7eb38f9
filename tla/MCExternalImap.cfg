SPECIFICATION Spec
CONSTANTS
    Mails = {m1, m2}
    Unnamed = {m2}
    Runs = {r1, r2}
    Worker = Worker
    NoMail = NoMail
    Nobody = Nobody
    Limit = 1
    MaxUid = 2
    MaxValidity = 2
    MaxAccounts = 2
    MaxEvents = 2
SYMMETRY Symmetry
INVARIANTS
    TypeOK
    NothingSkipped
PROPERTIES
    FiledOnce
