--------------------------- MODULE MCRbacCatalog ---------------------------
(***************************************************************************)
(* A small instance of RbacCatalog for TLC: one seeded role, permission,   *)
(* capability, route and view, and one of each that administrators make.   *)
(***************************************************************************)
EXTENDS RbacCatalog, TLC

CONSTANTS a1, i1, i2, admin, write, operate, x1, v1

Grants   == {<<admin, write>>}
Required == {<<operate, write>>}
Routes   == x1 :> [kind |-> "permission", perm |-> write]
Views    == v1 :> write
Homes    == [a \in Admin |-> IF a = a1 THEN i1 ELSE i2]

-----------------------------------------------------------------------------
(* The business rows that a deployment seeds, over tables as the seed leaves *)
(* them and as its users do: a sale that was paid, an action that went on,   *)
(* rows of their own.                                                        *)

Rows == INSTANCE SeedData

Seeded == Rows!SeedBusiness(Rows!Empty)

InUse ==
    [Seeded EXCEPT !.sales["sale-3"].paid = TRUE,
                   !.actions["arrange"].status = "completed",
                   !.sales = ("sale-5" :> @["sale-1"]) @@ @]

ASSUME SeedHolds ==
    /\ Rows!TotalsAgree(Seeded)
    /\ \A t \in {Seeded, InUse} :
          /\ Rows!SeedBusiness(Rows!SeedBusiness(t)) = Rows!SeedBusiness(t)
          /\ Rows!References(Rows!SeedBusiness(t))
          /\ Rows!DependenciesAreLocal(Rows!SeedBusiness(t))

=============================================================================
