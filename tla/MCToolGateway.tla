--------------------------- MODULE MCToolGateway ---------------------------
(***************************************************************************)
(* Small instances of ToolGateway for TLC.                                 *)
(***************************************************************************)
EXTENDS ToolGateway

CONSTANTS x1, x2, n1, n2, q1, p1, p2, c1, c2

\* The first row of every table but sales is seeded.
SeedNames == [x \in Sop |-> n1]

\* A price whose half is a fraction of a cent.
Prices == [q \in Product |-> 333]

\* One who may do everything and one who may not.
RolesOf == [p \in Person |-> IF p = p1 THEN "admin" ELSE "support-operations-user"]

\* Not paid; and paid with no date, which the schema of a capability lets pass.
NotPaid  == [paid : {FALSE}, dated : {FALSE}]
PaidOnce == [paid : {TRUE}, dated : {FALSE}]

\* A discount that leaves half a cent, and one over 100 percent.
SomeDiscounts == {50000, 120000}

\* With a third decimal, which the schema of a capability lets pass.
ThirdDecimal == {33336}

\* Of a hundred and more: a hundredth of a percent is a cent.
HighPrices == [q \in Product |-> 20000]

\* A read of every domain and every write.
ReadsAndWrites ==
    {"sales.report.customer", "customers.get", "products.get", "sales.get", "issues.get",
     "actions.get", "sop.read", "sales.create", "issues.create", "issues.update",
     "actions.create"} \cup ActionWrites \cup SopWrites

Callers == Permutations(Caller)

-----------------------------------------------------------------------------
(* The shipped policy, over every route, role and capability *)

Surface == INSTANCE ApiSurface

ASSUME SurfaceHolds ==
    /\ Surface!DeclaredIsSeeded
    /\ Surface!BindingNeverAdmitsNobody
    /\ \A roles \in SUBSET Role, c \in Capability :
          LET permissions == PermissionsForRoles(roles)
          IN  /\ Surface!CapabilityIsWithinRoutes(c, permissions)
              /\ Surface!RolesAgree(roles, c)
              /\ Surface!WritableIsBacked(permissions)

=============================================================================
