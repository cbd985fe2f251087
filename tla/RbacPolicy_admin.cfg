SPECIFICATION PolicyFairSpec
CONSTANTS
    NoTx = NoTx
    Unread = Unread
    a1 = a1
    a2 = a2
    i1 = i1
    i2 = i2
    Role = {r1, r2}
    Perm = {p1, p2}
    Critical = {p1}
    Instance = {i1, i2}
    Admin = {a1}
    HomeOf <- Homes
    MaxMutations = 2
    MaxLoadFailures = 1
CHECK_DEADLOCK FALSE
INVARIANTS
    CriticalCovered
    RoleIsAsSet
PROPERTIES
    RevisionCatchesUp
