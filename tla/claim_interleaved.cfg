\* One claim, two concurrent requests, a promotion of its owner, a category switched off.
SPECIFICATION Spec
CONSTANTS
    emp = emp  mgr = mgr  fin = fin  adm = adm
    Users = {emp, mgr, fin}
    c1 = c1  c2 = c2
    Claims = {c1}
    s1 = s1  s2 = s2
    Slots = {s1, s2}
    NoUser = NoUser  NoClaim = NoClaim
    MayHold <- PromotedEmployee
    Categories = {"travel"}
    MayDeactivate = {"travel"}
    Dates = {1}
    Amounts = {1, 2}
    Uploads = 0
    MaxSubmits = 2
    Losses = 1
    T1 = 1  T2 = 2  ReceiptThreshold = 3
    CategoryLimit <- NoCategoryLimit
    NoLimit = NoLimit
    MonthOf <- OneMonth
    DuplicateWindow = 7
SYMMETRY SlotSymmetry
CHECK_DEADLOCK FALSE
INVARIANTS
    StatusMatchesSteps
    NoSelfApproval
    AuditExplainsClaim
    MailOnlyAfterCommit
PROPERTIES
    FinalIsFinal
    DecisionsStand
    ImplementsLifecycle
