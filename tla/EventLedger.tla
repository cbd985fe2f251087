---------------------------- MODULE EventLedger ----------------------------
(***************************************************************************)
(* How the rows of agent_run_events get their sequence numbers.            *)
(*                                                                         *)
(* A worker appends rows in short transactions.  Lifecycle transactions    *)
(* hold the run's advisory lock; the sink that persists an agent's streamed *)
(* sub-events (graph.py, stream_sink) does not.  Each row takes the largest *)
(* committed sequence number plus one, and the unique index on             *)
(* (run_id, sequence) decides between two transactions that took the same: *)
(* the second waits for the first and fails if that one commits.           *)
(*                                                                         *)
(* Every worker here runs one hop of one run; several workers hold the run *)
(* when its message was delivered again.                                   *)
(***************************************************************************)
EXTENDS Naturals, Sequences, FiniteSets, SequencesExt

CONSTANTS
    Worker,      \* workers that hold the run
    Frames,      \* sub-events the agent of each hop produces
    MaxLosses,   \* bound: workers lost
    NoTx, NoWorker

ASSUME LedgerAssumption == Frames \in Nat /\ MaxLosses \in Nat /\ NoWorker \notin Worker

VARIABLES
    rows,        \* committed rows: {[seq, ev]}
    ended,       \* the run's status is terminal
    lock,        \* the holder of the run's advisory lock
    tx,          \* [Worker -> Tx \cup {NoTx}]: open transactions
    pc,          \* where each worker stands
    frame,       \* the next sub-event each worker's agent pushes
    outcome,     \* what send_task returned
    losses

vars == <<rows, ended, lock, tx, pc, frame, outcome, losses>>

Event == [type : {"authz", "started", "called", "sub", "answered", "failed", "ended"},
          by : Worker, n : 0..Frames]
Row   == [seq : Nat \ {0}, ev : Event]
PC    == {"start", "call", "stream", "record", "complete", "done"}
Tx    == [base : Nat, batch : Seq(Event), inserted : BOOLEAN]

Ev(type, w) == [type |-> type, by |-> w, n |-> 0]
Sub(w, n)   == [type |-> "sub", by |-> w, n |-> n]

LastSeq   == Cardinality(rows)
Persisted == {row.ev : row \in rows}
Locks(w)  == pc[w] # "stream"

Init ==
    /\ rows = {}
    /\ ended = FALSE
    /\ lock = NoWorker
    /\ tx = [w \in Worker |-> NoTx]
    /\ pc = [w \in Worker |-> "start"]
    /\ frame = [w \in Worker |-> 1]
    /\ outcome = [w \in Worker |-> "none"]
    /\ losses = MaxLosses

\* The sub-events in the terminal artifact of a task that returned, completed or
\* not: those its agent produced.  A call that raised has no artifact, and a task
\* that failed without one, in the agent's server, leaves the same rows.
Artifact(w) == IF outcome[w] = "error" THEN {} ELSE 1..(frame[w] - 1)

\* Mutant of Missing: the terminal artifact's events are all written again.
Missing_All(w) == [n \in Artifact(w) |-> Sub(w, n)]

\* The number at place i of a set of numbers in their order.
Nth(S, i) == CHOOSE n \in S : Cardinality({m \in S : m <= n}) = i

\* The sub-events of the terminal artifact that no frame persisted, in their order:
\* an insert with a known dedupe key does nothing.
Missing(w) ==
    LET absent == {n \in Artifact(w) : Sub(w, n) \notin Persisted}
    IN  [i \in 1..Cardinality(absent) |-> Sub(w, Nth(absent, i))]

Report(w) == Ev(IF outcome[w] = "ok" THEN "answered" ELSE "failed", w)

\* Mutant of Batch: a completed call does not backfill what streaming dropped.
Batch_NoBackfill(w) ==
    CASE pc[w] = "start"    -> <<Ev("authz", w), Ev("started", w)>>
      [] pc[w] = "call"     -> <<Ev("authz", w), Ev("called", w)>>
      [] pc[w] = "stream"   -> <<Sub(w, frame[w])>>
      [] pc[w] = "record"   -> <<Report(w)>>
      [] pc[w] = "complete" -> <<Ev("ended", w)>>

\* The rows of the worker's next transaction.
Batch(w) ==
    CASE pc[w] = "start"    -> <<Ev("authz", w), Ev("started", w)>>
      [] pc[w] = "call"     -> <<Ev("authz", w), Ev("called", w)>>
      [] pc[w] = "stream"   -> <<Sub(w, frame[w])>>
      [] pc[w] = "record"   -> Append(Missing(w), Report(w))
      [] pc[w] = "complete" -> <<Ev("ended", w)>>

\* The transaction is over and so is its hold of the advisory lock.
Release(w) ==
    /\ tx' = [tx EXCEPT ![w] = NoTx]
    /\ lock' = IF lock = w THEN NoWorker ELSE lock

-----------------------------------------------------------------------------
\* Lock (or not), read the run, read the largest committed sequence number.
\* Only the transaction that records an outcome does not look at the status.
Begin(w) ==
    /\ tx[w] = NoTx
    /\ pc[w] # "done"
    /\ pc[w] = "stream" => frame[w] <= Frames
    /\ Locks(w) => lock = NoWorker
    /\ ended => pc[w] = "record"
    /\ lock' = IF Locks(w) THEN w ELSE lock
    /\ tx' = [tx EXCEPT ![w] = [base |-> LastSeq, batch |-> Batch(w), inserted |-> FALSE]]
    /\ UNCHANGED <<rows, ended, pc, frame, outcome, losses>>

\* The run has ended: the sink drops the frame, the worker stops.
SeesEnd(w) ==
    /\ tx[w] = NoTx
    /\ ended
    /\ Locks(w) => lock = NoWorker
    /\ \/ /\ pc[w] = "stream" /\ frame[w] <= Frames
          /\ frame' = [frame EXCEPT ![w] = @ + 1]
          /\ UNCHANGED pc
       \/ /\ pc[w] \in {"start", "call", "complete"}
          /\ pc' = [pc EXCEPT ![w] = "done"]
          /\ UNCHANGED frame
    /\ UNCHANGED <<rows, ended, lock, tx, outcome, losses>>

Waiting(w)  == tx[w] # NoTx /\ ~tx[w].inserted
Inserted(w) == tx[w] # NoTx /\ tx[w].inserted

\* Mutant of Insert: no unique index on (run_id, sequence).
Insert_NoUniqueIndex(w) ==
    /\ Waiting(w)
    /\ tx' = [tx EXCEPT ![w].inserted = TRUE]
    /\ UNCHANGED <<rows, ended, lock, pc, frame, outcome, losses>>

\* The number is free: neither committed nor held by an open transaction.
Insert(w) ==
    /\ Waiting(w)
    /\ tx[w].base = LastSeq
    /\ \A v \in Worker : ~Inserted(v)
    /\ tx' = [tx EXCEPT ![w].inserted = TRUE]
    /\ UNCHANGED <<rows, ended, lock, pc, frame, outcome, losses>>

\* An error in the transaction of the sink fails the A2A call, one in a
\* lifecycle transaction fails the task.
Raise(w) ==
    /\ Release(w)
    /\ pc' = [pc EXCEPT ![w] = IF @ = "stream" THEN "record" ELSE "done"]
    /\ outcome' = [outcome EXCEPT ![w] = IF pc[w] = "stream" THEN "error" ELSE @]

\* Mutant of Conflict: the sink skips the error and keeps its transaction.
Conflict_Waits(w) ==
    /\ Waiting(w)
    /\ tx[w].base < LastSeq
    /\ Locks(w)
    /\ Raise(w)
    /\ UNCHANGED <<rows, ended, frame, losses>>

\* The number was committed by another transaction: IntegrityError.
Conflict(w) ==
    /\ Waiting(w)
    /\ tx[w].base < LastSeq
    /\ Raise(w)
    /\ UNCHANGED <<rows, ended, frame, losses>>

Commit(w) ==
    /\ Inserted(w)
    /\ rows' = rows \cup {[seq |-> tx[w].base + i, ev |-> tx[w].batch[i]] :
                              i \in DOMAIN tx[w].batch}
    /\ Release(w)
    /\ ended' = (ended \/ pc[w] = "complete")
    /\ pc' = [pc EXCEPT ![w] =
                CASE @ = "start"  -> "call"
                  [] @ = "call"   -> "stream"
                  [] @ = "stream" -> "stream"
                  [] @ = "record" -> "complete"
                  [] OTHER        -> "done"]
    /\ frame' = [frame EXCEPT ![w] = IF pc[w] = "stream" THEN @ + 1 ELSE @]
    /\ UNCHANGED <<outcome, losses>>

\* The agent does not stream this sub-event, or its frame is dropped.
DropFrame(w) ==
    /\ pc[w] = "stream"
    /\ tx[w] = NoTx
    /\ frame[w] <= Frames
    /\ frame' = [frame EXCEPT ![w] = @ + 1]
    /\ UNCHANGED <<rows, ended, lock, tx, pc, outcome, losses>>

\* send_task returns the task, completed or not (failed, denied, to be approved),
\* or raises.
ReturnTask(w) ==
    /\ pc[w] = "stream"
    /\ tx[w] = NoTx
    /\ \/ frame[w] > Frames /\ outcome' = [outcome EXCEPT ![w] = "ok"]
       \/ \E o \in {"failed", "error"} : outcome' = [outcome EXCEPT ![w] = o]
    /\ pc' = [pc EXCEPT ![w] = "record"]
    /\ UNCHANGED <<rows, ended, lock, tx, frame, losses>>

\* The worker is lost: nothing of its open transaction remains.
Lose(w) ==
    /\ losses > 0
    /\ pc[w] # "done"
    /\ losses' = losses - 1
    /\ Release(w)
    /\ pc' = [pc EXCEPT ![w] = "done"]
    /\ UNCHANGED <<rows, ended, frame, outcome>>

\* The database aborts the transaction: the sink and a lifecycle transaction
\* deadlock on the run's row and the index, or the connection breaks.
Abort(w) ==
    /\ losses > 0
    /\ tx[w] # NoTx
    /\ losses' = losses - 1
    /\ Raise(w)
    /\ UNCHANGED <<rows, ended, frame>>

Progress(w) ==
    \/ Begin(w) \/ SeesEnd(w) \/ Insert(w) \/ Conflict(w) \/ Commit(w)
    \/ DropFrame(w) \/ ReturnTask(w)

Next == \E w \in Worker : Progress(w) \/ Lose(w) \/ Abort(w)

Spec == Init /\ [][Next]_vars

\* A worker that is not blocked goes on: its statements have timeouts.
FairSpec == Spec /\ \A w \in Worker : WF_vars(Progress(w))

-----------------------------------------------------------------------------
(* Properties *)

\* Every variable has its type.
TypeOK ==
    /\ rows \in SUBSET Row
    /\ ended \in BOOLEAN
    /\ lock \in Worker \cup {NoWorker}
    /\ \A w \in Worker : tx[w] = NoTx \/ tx[w] \in Tx
    /\ pc \in [Worker -> PC]
    /\ frame \in [Worker -> 1..(Frames + 1)]
    /\ outcome \in [Worker -> {"none", "ok", "failed", "error"}]
    /\ losses \in Nat

\* An agent's sub-event is in the ledger once, though it arrives as a streamed
\* frame and again in the terminal artifact.
SubEventOnce ==
    \A x, y \in rows : x.ev.type = "sub" /\ x.ev = y.ev => x.seq = y.seq

\* A call reported completed has all its agent's sub-events in the ledger, and one
\* whose task returned without completing those that its agent produced, each
\* before the report, whatever was streamed, dropped or written meanwhile.
NothingMissing ==
    \A x \in rows : x.ev.type \in {"answered", "failed"} =>
        \A n \in 1..Frames : x.ev.type = "answered" \/ n \in Artifact(x.ev.by) =>
            \E y \in rows : y.ev = Sub(x.ev.by, n) /\ y.seq < x.seq

\* No transaction waits for ever, on the lock or on the unique index.
TransactionsEnd == \A w \in Worker : tx[w] # NoTx ~> tx[w] = NoTx

KindOf(e) ==
    CASE e.type = "authz" -> "hidden"
      [] e.type = "ended" -> "end"
      [] OTHER            -> "user"

\* The ledger by sequence number, as its readers see it.
Ledger ==
    [i \in 1..Cardinality(rows) |->
        IF \E row \in rows : row.seq = i
        THEN KindOf((CHOOSE row \in rows : row.seq = i).ev)
        ELSE "gap"]

\* Readers can rely on an append-only log: the writers' transactions, some
\* locked and some not, commit in the order of their sequence numbers.
ReaderView ==
    INSTANCE RunLog WITH
        log <- Ledger,
        Batches <- {<<"hidden", "user">>} \cup {[i \in 1..n |-> "user"] : n \in 1..(Frames + 1)}
ImplementsRunLog == ReaderView!LogSpec

=============================================================================
