\* Three addresses, a map that forgets from its second one on.
SPECIFICATION Spec
CONSTANTS
    IPs = {a, b, c}
    Client = a
    Burst = 2
    Period = 2
    Stale = 4
    MaxVisitors = 1
    MaxTime = 7
    None = None
CHECK_DEADLOCK FALSE
INVARIANTS
    WithinRate
    OnlyFreshBeyondLimit
PROPERTIES
    ImplementsBucket
