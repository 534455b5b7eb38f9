SPECIFICATION WebSpec
CONSTANTS
    m1 = m1
    m2 = m2
    f1 = f1
    f2 = f2
    u1 = u1
    u2 = u2
    t1 = t1
    t2 = t2
    a1 = a1
    a2 = a2
    MaxDocs = 2
    MaxEdits = 2
    MaxSaves = 1
    Mails = {m1}
    MaxHappens = 2
    CustomFolders = {f1, f2}
    ByLabel <- MCByLabel
    FixedItems = {"Inbox", "Spam"}
    MaxArranged = 2
    MaxGrants = 1
    MaxChanges = 2
    BodyMails = {m1, m2}
    BodyLanguages = {"en", "zh"}
    WrittenIn <- MCWrittenIn
    MaxAsked = 2
    Users = {u1, u2}
    Nobody = Nobody
    Admins = {u1}
    TwoFactor = {u2}
    MaxLogins = 2
    MaxTrouble = 2
    UiTexts = {"save", "close"}
    OwnTexts = {"name"}
    Languages = {"zh-CN", "en"}
    Original = "zh-CN"
    Unset = Unset
    MaxRenders = 4
    Tabs = {t1, t2}
    Addresses = {a1, a2}
    MaxLinks = 2
INVARIANTS
    WebTypeOK
    DraftKeepsItsMail
    ListTellsTruth
    DropIsKept
    NoOfferRefused
    CacheKnows
    OneUsersData
    TextSettles
    ForwardsAsConfirmed
PROPERTIES
    DraftDeletedWhenSent
    TypedIsSaved
    ListCatchesUp
    LateAnswersFit
    RedirectsEnd
CHECK_DEADLOCK FALSE
