SPECIFICATION FairSpec
CONSTANTS
    Names = {n1, n2, n3}
    Rows = {r1, r2}
    Requests = {q1}
    Worker = Worker
    NoRow = NoRow
    NoPath = NoPath
    NoFolder = NoFolder
    MaxOps = 2
    MaxCrashes = 1
INVARIANTS
    TypeOK
    MailSurvives
PROPERTY IndexConverges
