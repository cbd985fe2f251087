---------------------------- MODULE MCEventLedger ---------------------------
(***************************************************************************)
(* Small instances of EventLedger for TLC.                                 *)
(***************************************************************************)
EXTENDS AgentTrace

=============================================================================
