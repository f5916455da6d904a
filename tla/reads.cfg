SPECIFICATION Spec
CONSTANTS
    Claims = {"c1"}
    Paths <- MCPaths
    Owner <- MCOwner
    Users <- MCUsers
    Requests <- MCRequests
    Slots = {s1, s2}
INVARIANTS TypeOK OwnClaimsOnly DecidedOnce DetailAgrees
PROPERTIES Converges
