SPECIFICATION Spec
CONSTANTS
    root = root
    mia = mia
    Users = {root, mia}
    Root = root
    MayHold <- Roles2
    Categories = {meals}
    Claims = {c1}
    Slots = {p1, p2}
    None = None
    Gone = Gone
    Bodies = {{"role"}, {"active"}, {"role", "active"}}
    MaxResets <- OneReset
INVARIANTS
    TypeOK
    NoOrphans
PROPERTIES
    DeletedStaysDeleted
    ResetSticks
    AccessFollowsTheAccount
CHECK_DEADLOCK FALSE
