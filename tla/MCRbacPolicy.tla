---------------------------- MODULE MCRbacPolicy ----------------------------
(***************************************************************************)
(* Small instances of RbacPolicy for TLC.                                  *)
(***************************************************************************)
EXTENDS RbacPolicy, TLC

CONSTANTS a1, a2, i1, i2

\* The first instance handles the first request, the second one the second.
Homes == [a \in Admin |-> IF a = a1 THEN i1 ELSE i2]

=============================================================================
