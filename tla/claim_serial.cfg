\* Two claims, of the lowest and the highest tier, one request at a time: the business rules of docs/02.
SPECIFICATION Spec
CONSTANTS
    emp = emp  mgr = mgr  fin = fin  adm = adm
    Users = {emp, mgr, fin, adm}
    c1 = c1  c2 = c2
    Claims = {c1, c2}
    s1 = s1  s2 = s2
    Slots = {s1}
    NoUser = NoUser  NoClaim = NoClaim
    MayHold <- FixedRoles
    Categories = {"travel"}
    MayDeactivate = {}
    Dates = {1, 8}
    Amounts = {101, 199}
    Uploads = 1
    MaxSubmits = 2
    Losses = 0
    T1 = 101  T2 = 198  ReceiptThreshold = 101
    CategoryLimit <- OneLimit
    NoLimit = NoLimit
    MonthOf <- OneMonth
    DuplicateWindow = 7
SYMMETRY ClaimSymmetry
CHECK_DEADLOCK FALSE
INVARIANTS
    TypeOK
    ChainCoversAmount
    MonthlyLimitHolds
    LargeClaimsHaveReceipt
    NoLiveDuplicates
    ReceiptsAreStored
PROPERTIES
    EditWindow
