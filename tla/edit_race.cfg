\* An Update or a Delete racing a Submit of the same claim.
SPECIFICATION Spec
CONSTANTS
    emp = emp  mgr = mgr  fin = fin  adm = adm
    Users = {emp, mgr}
    c1 = c1  c2 = c2
    Claims = {c1}
    s1 = s1  s2 = s2
    Slots = {s1, s2}
    NoUser = NoUser  NoClaim = NoClaim
    MayHold <- FixedRoles
    Categories = {"travel"}
    MayDeactivate = {}
    Dates = {1}
    Amounts = {1, 2}
    Uploads = 0
    MaxSubmits = 1
    Losses = 0
    T1 = 1  T2 = 2  ReceiptThreshold = 3
    CategoryLimit <- NoCategoryLimit
    NoLimit = NoLimit
    MonthOf <- OneMonth
    DuplicateWindow = 7
CHECK_DEADLOCK FALSE
PROPERTIES
    EditWindow
