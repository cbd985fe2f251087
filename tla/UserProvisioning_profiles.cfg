SPECIFICATION Spec
CONSTANTS
    Idle = Idle
    None = None
    e1 = e1
    e2 = e2
    u1 = u1
    a1 = a1
    Email = {e1, e2}
    User = {u1, u2, u3}
    Account = {a1, a2}
    NovaRole = {r1, r2}
    Intrinsic = {offline}
    Req = {q1, q2}
    SeedUsers <- Seeds
    Imported <- Accounts
    MaxAdmin = 2
    MaxFailures = 1
CHECK_DEADLOCK FALSE
INVARIANTS
    OneProfileEach
    SyncedIsExact
