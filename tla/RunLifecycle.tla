---------------------------- MODULE RunLifecycle ----------------------------
(***************************************************************************)
(* What Nova promises about an agent run, independent of brokers, workers  *)
(* and crashes: a run is submitted once, is started any number of times    *)
(* while it is live, reaches at most one terminal status and keeps it;     *)
(* only a completed run enters the conversation's history; and each        *)
(* delegated hop (run, capability, ordinal) is begun at most once, only    *)
(* while the run is running and nobody asked to cancel it, is sent to an   *)
(* agent at most once and settles at most once.                            *)
(***************************************************************************)
EXTENDS Naturals

CONSTANTS Run,     \* runs the control plane may create
          Key      \* hop identities within one run (capability and ordinal)

VARIABLES status,  \* agent_runs.status, "none" before the row exists
          wanted,  \* cancellation was requested
          hop,     \* fate of every hop
          turns    \* conversation turns recorded for the run

vars == <<status, wanted, hop, turns>>

\* TERMINAL_STATUSES also names "expired", which no run is given.
Terminal == {"completed", "failed", "canceled"}
Live     == {"queued", "running"}
HopState == {"none", "begun", "sent", "settled"}

Init ==
    /\ status = [r \in Run |-> "none"]
    /\ wanted = [r \in Run |-> FALSE]
    /\ hop    = [r \in Run |-> [k \in Key |-> "none"]]
    /\ turns  = [r \in Run |-> 0]

\* The row is inserted once, as queued.
Submit(r) ==
    /\ status[r] = "none"
    /\ status' = [status EXCEPT ![r] = "queued"]
    /\ UNCHANGED <<wanted, hop, turns>>

\* Cancellation is a request; the flag is never withdrawn.
RequestCancel(r) ==
    /\ status[r] # "none"
    /\ wanted' = [wanted EXCEPT ![r] = TRUE]
    /\ UNCHANGED <<status, hop, turns>>

Start(r) ==
    /\ status[r] \in Live
    /\ status' = [status EXCEPT ![r] = "running"]
    /\ UNCHANGED <<wanted, hop, turns>>

\* Only a live run ends: failed closed, canceled on request, or completed.
End(r, s) ==
    /\ status[r] \in Live
    /\ s = "canceled"  => wanted[r]
    /\ s = "completed" => status[r] = "running"
    /\ status' = [status EXCEPT ![r] = s]
    /\ UNCHANGED <<wanted, hop, turns>>

Advance(r, k, from, to) ==
    /\ hop[r][k] = from
    /\ hop' = [hop EXCEPT ![r][k] = to]
    /\ UNCHANGED <<status, wanted, turns>>

BeginHop(r, k)  == status[r] = "running" /\ ~wanted[r] /\ Advance(r, k, "none", "begun")
SendHop(r, k)   == Advance(r, k, "begun", "sent")
SettleHop(r, k) == Advance(r, k, "sent", "settled")

\* Only a completed run enters its conversation's history.
RecordTurn(r) ==
    /\ status[r] = "completed"
    /\ turns' = [turns EXCEPT ![r] = @ + 1]
    /\ UNCHANGED <<status, wanted, hop>>

Next ==
    \E r \in Run :
        \/ Submit(r)
        \/ RequestCancel(r)
        \/ Start(r)
        \/ \E s \in Terminal : End(r, s)
        \/ \E k \in Key : BeginHop(r, k) \/ SendHop(r, k) \/ SettleHop(r, k)
        \/ RecordTurn(r)

Spec == Init /\ [][Next]_vars

=============================================================================
