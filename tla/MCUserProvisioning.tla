------------------------- MODULE MCUserProvisioning -------------------------
(***************************************************************************)
(* Small instances of UserProvisioning for TLC.                            *)
(***************************************************************************)
EXTENDS UserProvisioning

CONSTANTS e1, e2, u1, a1

\* One profile that was seeded; one account of another person that was imported.
Seeds    == [u \in {u1} |-> e1]
Accounts == [a \in {a1} |-> e2]

=============================================================================
