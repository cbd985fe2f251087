SPECIFICATION Spec
CONSTANTS
    Idle = Idle
    None = None
    a1 = a1
    i1 = i1
    i2 = i2
    admin = admin
    write = write
    operate = operate
    x1 = x1
    v1 = v1
    SystemRole = {admin}
    CustomRole = {r1}
    SystemPerm = {write}
    CustomPerm = {p1}
    SystemCap = {operate}
    CustomCap = {c1}
    Critical = {write}
    DefaultGrants <- Grants
    DefaultRequired <- Required
    DefaultRoute <- Routes
    DefaultView <- Views
    Admin = {a1, a2}
    Instance = {i1, i2}
    HomeOf <- Homes
    SeedsWhileServing = FALSE
    Resets = FALSE
    MaxRequests = 2
    MaxFaults = 1
CHECK_DEADLOCK FALSE
INVARIANTS
    RoutesAreAsSet
    RealmMirrorsRoles
