SPECIFICATION FairSpec
CONSTANTS
    Mails = {m1}
    Unnamed = {}
    Runs = {}
    Worker = Worker
    NoMail = NoMail
    Nobody = Nobody
    Limit = 1
    MaxUid = 1
    MaxValidity = 1
    MaxAccounts = 1
    MaxEvents = 0
PROPERTIES
    BackgroundImports
