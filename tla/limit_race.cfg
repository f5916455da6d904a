\* Two claims of one employee submitted at the same time, in one category.
SPECIFICATION Spec
CONSTANTS
    emp = emp  mgr = mgr  fin = fin  adm = adm
    Users = {emp, mgr}
    c1 = c1  c2 = c2
    Claims = {c1, c2}
    s1 = s1  s2 = s2
    Slots = {s1, s2}
    NoUser = NoUser  NoClaim = NoClaim
    MayHold <- FixedRoles
    Categories = {"travel"}
    MayDeactivate = {}
    Dates = {1, 9}
    Amounts = {199}
    Uploads = 0
    MaxSubmits = 1
    Losses = 0
    T1 = 199  T2 = 199  ReceiptThreshold = 300
    CategoryLimit <- OneLimit
    NoLimit = NoLimit
    MonthOf <- OneMonth
    DuplicateWindow = 7
CHECK_DEADLOCK FALSE
INVARIANTS
    MonthlyLimitHolds
