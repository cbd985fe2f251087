SPECIFICATION Spec
CONSTANTS
    Idle = Idle
    None = None
    x1 = x1
    x2 = x2
    n1 = n1
    n2 = n2
    q1 = q1
    Run = {r1}
    Person = {p1, p2}
    Caller = {c1, c2}
    Sop = {x1, x2}
    Name = {n1, n2}
    Issue = {x1, x2}
    Action = {x1, x2}
    Sale = {x1, x2}
    Product = {q1}
    Seeded = {x1}
    SeedName <- SeedNames
    SeedOwner = p1
    Price <- Prices
    RoleOf <- RolesOf
    Payments <- NotPaid
    p1 = p1
    p2 = p2
    c1 = c1
    c2 = c2
    Discounts <- SomeDiscounts
    Offered <- ReadsAndWrites
    MaxRequests = 2
    MaxEvents = 1
SYMMETRY Callers
CHECK_DEADLOCK FALSE
INVARIANTS
    NoMoreThanRest
    AuditIsTrue
    ReceiptIsRight
PROPERTIES
    VersionsAppendOnly
