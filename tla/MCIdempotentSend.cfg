SPECIFICATION Spec
CONSTANTS
    Keys = {k1}
    Bodies = {b1, b2}
    Requests = {r1, r2}
    SmtpConfigured = TRUE
    MaxMails = 3
    MaxFaults = 1
INVARIANTS
    TypeOK
    OneMailPerKey
    AnswersAgree
SYMMETRY Symmetry
