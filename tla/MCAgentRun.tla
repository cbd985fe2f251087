----------------------------- MODULE MCAgentRun -----------------------------
(***************************************************************************)
(* Small instances of AgentRun for TLC.                                    *)
(***************************************************************************)
EXTENDS AgentRun, TLC

\* Workers are interchangeable (safety runs only).
WorkerSymmetry == Permutations(Worker)

=============================================================================
