------------------------------- MODULE RunLog -------------------------------
(***************************************************************************)
(* What a reader of one run's event ledger may rely on: rows only ever     *)
(* appear at its end, in the order of their sequence numbers and without   *)
(* gaps, and the run ends once.  A reader that remembers the last sequence *)
(* number it saw needs nothing else to resume.                             *)
(***************************************************************************)
EXTENDS Naturals, Sequences

CONSTANT Batches   \* the batches of rows a transaction may commit

VARIABLES
    log,           \* kinds of the rows, by sequence number
    ended          \* the run has a terminal status

logVars == <<log, ended>>

\* A user-visible row, one kept from the browser, the terminal row.
Kind == {"user", "hidden", "end"}

LogInit == log = <<>> /\ ended = FALSE

Append1(batch) == log' = log \o batch

\* A transaction commits its rows; they follow every row committed before.
Write == \E batch \in Batches : Append1(batch) /\ UNCHANGED ended

\* A run completes or is canceled with a terminal row.
End == ~ended /\ ended' = TRUE /\ Append1(<<"end">>)

\* A run that fails closed leaves no row its owner can see.
FailClosed == ~ended /\ ended' = TRUE /\ Append1(<<"hidden">>)

LogNext == Write \/ End \/ FailClosed

LogSpec == LogInit /\ [][LogNext]_logVars

=============================================================================
