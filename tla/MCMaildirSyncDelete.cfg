SPECIFICATION Spec
CONSTANTS
    Names = {n1}
    Rows = {r1, r2}
    Requests = {q1}
    Worker = Worker
    NoRow = NoRow
    NoPath = NoPath
    NoFolder = NoFolder
    MaxOps = 4
    MaxCrashes = 0
PROPERTY DeletedIsGone
