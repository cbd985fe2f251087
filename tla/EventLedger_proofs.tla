------------------------- MODULE EventLedger_proofs -------------------------
(***************************************************************************)
(* TLAPS proofs about EventLedger, for any number of workers, of streamed  *)
(* sub-events and of losses, and about the trace that AgentTrace folds     *)
(* from the ledger.                                                        *)
(***************************************************************************)
EXTENDS AgentTrace, FiniteSetTheorems, WellFoundedInduction, TLAPS

-----------------------------------------------------------------------------
(* The inductive invariant *)

Open(w) == tx[w] # NoTx

\* The rows are numbered from one without a gap, and no number is taken twice.
Dense ==
    /\ IsFiniteSet(rows)
    /\ \A x \in rows : x.seq \in 1..LastSeq
    /\ \A i \in 1..LastSeq : \E x \in rows : x.seq = i
    /\ \A x, y \in rows : x.seq = y.seq => x = y

\* An open transaction holds the rows that its worker would still write now, though
\* the ledger has grown since it began: only the worker itself writes its events.
TxInv(w) ==
    Open(w) =>
        /\ tx[w] = [base |-> tx[w].base, batch |-> Batch(w), inserted |-> tx[w].inserted]
        /\ tx[w].base \in 0..LastSeq
        /\ tx[w].inserted \in BOOLEAN
        /\ tx[w].inserted => tx[w].base = LastSeq
        /\ pc[w] # "done"
        /\ pc[w] = "stream" => frame[w] <= Frames
        /\ Locks(w) => lock = w
        /\ pc[w] = "complete" => ~ended

\* One transaction at a time has inserted its rows.
OneInserts == \A v, w \in Worker : Inserted(v) /\ Inserted(w) => v = w

Reports == {"answered", "failed"}

\* While its agent works, a worker has written only sub-events before the next one,
\* and no report; its task completes when the agent has produced them all.
Ahead(w) ==
    /\ \A x \in rows : x.ev.by = w =>
          /\ x.ev.type = "sub" => /\ pc[w] \notin {"start", "call"}
                                  /\ pc[w] = "stream" => x.ev.n < frame[w]
          /\ x.ev.type \in Reports => pc[w] \in {"complete", "done"}
    /\ outcome[w] = "ok" => frame[w] = Frames + 1

IInv ==
    /\ TypeOK
    /\ DOMAIN tx = Worker
    /\ Dense
    /\ OneInserts
    /\ \A w \in Worker : TxInv(w) /\ Ahead(w)
    /\ SubEventOnce
    /\ NothingMissing

-----------------------------------------------------------------------------
(* Finite sets of numbers in their order *)

\* Every place up to the size of the set has its number, and every number its place.
LEMMA NthCounts ==
    ASSUME NEW S \in SUBSET Int, IsFiniteSet(S)
    PROVE  /\ Cardinality(S) \in Nat
           /\ \A i \in 1..Cardinality(S) :
                 Nth(S, i) \in S /\ Cardinality({m \in S : m <= Nth(S, i)}) = i
           /\ \A i, j \in 1..Cardinality(S) : Nth(S, i) = Nth(S, j) => i = j
           /\ \A n \in S : \E i \in 1..Cardinality(S) : Nth(S, i) = n
<1> DEFINE upTo(n) == {m \in S : m <= n}
           rank == [n \in S |-> Cardinality(upTo(n))]
           places == 1..Cardinality(S)
<1>1. Cardinality(S) \in Nat /\ IsFiniteSet(places) /\ Cardinality(places) = Cardinality(S)
  BY FS_CardinalityType, FS_Interval
<1>2. \A n \in S : IsFiniteSet(upTo(n)) /\ rank[n] \in places
  <2> TAKE n \in S
  <2>1. upTo(n) \in SUBSET S /\ n \in upTo(n)
    OBVIOUS
  <2>2. IsFiniteSet(upTo(n)) /\ Cardinality(upTo(n)) <= Cardinality(S)
    BY <2>1, FS_Subset
  <2>3. Cardinality(upTo(n)) \in Nat /\ Cardinality(upTo(n)) # 0
    BY <2>1, <2>2, FS_CardinalityType, FS_EmptySet
  <2> QED  BY <1>1, <2>2, <2>3
<1>3. \A m, n \in S : rank[m] = rank[n] => m = n
  <2> SUFFICES ASSUME NEW m \in S, NEW n \in S, rank[m] = rank[n], m < n  PROVE FALSE
    OBVIOUS
  <2>1. upTo(m) \in SUBSET upTo(n)
    <3> SUFFICES ASSUME NEW x \in S, x <= m  PROVE x <= n
      OBVIOUS
    <3>1. x \in Int /\ m \in Int /\ n \in Int
      OBVIOUS
    <3> QED  BY <3>1
  <2>2. n \in upTo(n) /\ n \notin upTo(m)
    <3>1. m \in Int /\ n \in Int
      OBVIOUS
    <3> QED  BY <3>1
  <2>3. upTo(n) = upTo(m)
    BY <1>2, <2>1, FS_Subset
  <2> QED  BY <2>2, <2>3
<1>4. rank \in Injection(S, places)
  BY <1>2, <1>3 DEF Injection, IsInjective
<1>5. rank \in Surjection(S, places)
  BY <1>1, <1>4, FS_Injection
<1>6. \A i \in places : \E n \in S : Cardinality(upTo(n)) = i
  BY <1>5 DEF Surjection
<1>7. \A i \in places : Nth(S, i) \in S /\ Cardinality(upTo(Nth(S, i))) = i
  BY <1>6 DEF Nth
<1>8. \A n \in S : Nth(S, rank[n]) = n
  BY <1>2, <1>3, <1>7
<1>9. \A i, j \in places : Nth(S, i) = Nth(S, j) => i = j
  BY <1>7
<1> QED  BY <1>1, <1>2, <1>7, <1>8, <1>9

-----------------------------------------------------------------------------
(* The rows of a transaction *)

Places(s) == 1..Len(s)

\* What the terminal artifact adds: each sub-event that is not in the ledger, once.
LEMMA MissingIs ==
    ASSUME TypeOK, NEW w \in Worker
    PROVE  /\ Missing(w) \in Seq(Event)
           /\ Len(Missing(w)) \in 0..Frames
           /\ \A i \in Places(Missing(w)) :
                 /\ Missing(w)[i] \notin Persisted
                 /\ \E n \in 1..Frames : Missing(w)[i] = Sub(w, n)
           /\ \A i, j \in Places(Missing(w)) : Missing(w)[i] = Missing(w)[j] => i = j
           /\ \A n \in Artifact(w) : Sub(w, n) \in Persisted
                                     \/ \E i \in Places(Missing(w)) : Missing(w)[i] = Sub(w, n)
<1> DEFINE absent == {n \in Artifact(w) : Sub(w, n) \notin Persisted}
           size == Cardinality(absent)
<1>1. Frames \in Nat /\ absent \in SUBSET (1..Frames) /\ absent \in SUBSET Int
  BY LedgerAssumption DEF TypeOK, Artifact
<1>2. IsFiniteSet(absent) /\ size \in 0..Frames
  <2>1. IsFiniteSet(1..Frames) /\ Cardinality(1..Frames) = Frames
    BY <1>1, FS_Interval
  <2>2. IsFiniteSet(absent) /\ size <= Frames
    BY <1>1, <2>1, FS_Subset
  <2> QED  BY <1>1, <2>2, FS_CardinalityType
<1>3. Missing(w) = [i \in 1..size |-> Sub(w, Nth(absent, i))]
  BY DEF Missing
<1>4. \A i \in 1..size : Nth(absent, i) \in absent
  BY <1>1, <1>2, NthCounts
<1>5. \A i, j \in 1..size : Nth(absent, i) = Nth(absent, j) => i = j
  BY <1>1, <1>2, NthCounts
<1>6. \A n \in absent : \E i \in 1..size : Nth(absent, i) = n
  BY <1>1, <1>2, NthCounts
<1>7. \A n \in 1..Frames : Sub(w, n) \in Event
  BY DEF Sub, Event
<1>8. Missing(w) \in Seq(Event) /\ Len(Missing(w)) = size
  BY <1>1, <1>2, <1>3, <1>4, <1>7
<1>9. \A i \in 1..size : Missing(w)[i] = Sub(w, Nth(absent, i))
  BY <1>3
<1>10. \A m, n : Sub(w, m) = Sub(w, n) => m = n
  BY DEF Sub
<1> HIDE DEF size
<1>11. \A i \in 1..size :
         /\ Missing(w)[i] \notin Persisted
         /\ \E n \in 1..Frames : Missing(w)[i] = Sub(w, n)
  BY <1>1, <1>4, <1>9
<1>12. \A i, j \in 1..size : Missing(w)[i] = Missing(w)[j] => i = j
  BY <1>5, <1>9, <1>10
<1>13. \A n \in Artifact(w) : Sub(w, n) \in Persisted \/ \E i \in 1..size : Missing(w)[i] = Sub(w, n)
  BY <1>6, <1>9
<1> QED  BY <1>2, <1>8, <1>11, <1>12, <1>13 DEF Places

\* A transaction may begin for the worker.
Writes(w) == pc[w] # "done" /\ (pc[w] = "stream" => frame[w] <= Frames)

\* What a transaction writes is the worker's own, new, and complete when it reports
\* a call.
LEMMA BatchIs ==
    ASSUME TypeOK, NEW w \in Worker, Ahead(w), Writes(w)
    PROVE  /\ Batch(w) \in Seq(Event) /\ Len(Batch(w)) \in 1..(Frames + 2)
           /\ \A i \in Places(Batch(w)) :
                 /\ Batch(w)[i].by = w
                 /\ Batch(w)[i].type = "sub" =>
                       /\ Batch(w)[i] \notin Persisted
                       /\ pc[w] = "record" \/ (pc[w] = "stream" /\ Batch(w)[i].n = frame[w])
                       /\ \A j \in Places(Batch(w)) : Batch(w)[i] = Batch(w)[j] => i = j
                 /\ Batch(w)[i].type = "answered" => Artifact(w) = 1..Frames
                 /\ Batch(w)[i].type \in Reports =>
                       \A n \in Artifact(w) :
                          \/ Sub(w, n) \in Persisted
                          \/ \E j \in Places(Batch(w)) : j < i /\ Batch(w)[j] = Sub(w, n)
<1> USE DEF Places
<1>0. Frames \in Nat /\ frame[w] \in 1..(Frames + 1) /\ pc[w] \in PC
  BY LedgerAssumption DEF TypeOK
<1>1. /\ \A type \in {"authz", "started", "called", "answered", "failed", "ended"} :
            Ev(type, w) \in Event /\ Ev(type, w).by = w /\ Ev(type, w).type = type
      /\ \A n \in 1..Frames : /\ Sub(w, n) \in Event /\ Sub(w, n).by = w
                              /\ Sub(w, n).type = "sub" /\ Sub(w, n).n = n
  BY <1>0 DEF Ev, Sub, Event
<1>2. CASE pc[w] \in {"start", "call", "complete"}
  BY <1>0, <1>1, <1>2 DEF Batch, Reports
<1>3. CASE pc[w] = "stream"
  <2>1. frame[w] \in 1..Frames /\ Batch(w) = <<Sub(w, frame[w])>>
    BY <1>0, <1>3 DEF Batch, Writes
  <2>2. Sub(w, frame[w]) \notin Persisted
    <3> SUFFICES ASSUME NEW x \in rows, x.ev = Sub(w, frame[w])  PROVE FALSE
      BY DEF Persisted
    <3>1. x.ev.n < frame[w] /\ x.ev.n = frame[w]
      BY <1>1, <1>3, <2>1 DEF Ahead
    <3> QED  BY <1>0, <3>1
  <2> QED  BY <1>0, <1>1, <1>3, <2>1, <2>2 DEF Reports
<1>4. CASE pc[w] = "record"
  <2> DEFINE m == Missing(w)
             b == Append(m, Report(w))
  <2>1. Batch(w) = b
    BY <1>4 DEF Batch
  <2>2. /\ m \in Seq(Event) /\ Len(m) \in 0..Frames
        /\ \A i \in 1..Len(m) : m[i] \notin Persisted /\ \E n \in 1..Frames : m[i] = Sub(w, n)
        /\ \A i, j \in 1..Len(m) : m[i] = m[j] => i = j
        /\ \A n \in Artifact(w) : Sub(w, n) \in Persisted \/ \E i \in 1..Len(m) : m[i] = Sub(w, n)
    BY MissingIs
  <2>0. /\ Report(w) \in Event /\ Report(w).by = w /\ Report(w).type \in Reports
        /\ Report(w).type = "answered" => Artifact(w) = 1..Frames
    <3>1. outcome[w] = "ok" => Artifact(w) = 1..Frames
      BY <1>0 DEF Ahead, Artifact
    <3> QED  BY <1>1, <3>1 DEF Report, Reports
  <2> HIDE DEF m
  <2>3. /\ b \in Seq(Event) /\ Len(b) = Len(m) + 1 /\ Len(b) \in 1..(Frames + 2)
        /\ \A i \in 1..Len(m) : b[i] = m[i]
        /\ b[Len(m) + 1] = Report(w)
    BY <1>0, <2>0, <2>2
  <2>4. \A i \in 1..Len(m) : b[i].by = w /\ b[i].type = "sub"
    BY <1>1, <2>2, <2>3
  <2>5. /\ b[Len(m) + 1].by = w /\ b[Len(m) + 1].type \in Reports
        /\ b[Len(m) + 1].type = "answered" => Artifact(w) = 1..Frames
    BY <2>0, <2>3
  <2> HIDE DEF b
  <2>6. \A i \in 1..Len(b) : i \in 1..Len(m) \/ i = Len(m) + 1
    BY <2>2, <2>3
  <2>7. \A i \in 1..Len(b) : b[i].type = "sub" => i \in 1..Len(m)
    BY <2>5, <2>6 DEF Reports
  <2>8. \A i \in 1..Len(b) : b[i].type \in Reports => i = Len(m) + 1
    BY <2>4, <2>6 DEF Reports
  <2>13. \A i \in 1..Len(b) : b[i].type = "answered" => Artifact(w) = 1..Frames
    BY <2>5, <2>8 DEF Reports
  <2>9. \A i \in 1..Len(b) : b[i].by = w
    BY <2>4, <2>5, <2>6
  <2>10. \A i, j \in 1..Len(b) : b[i].type = "sub" /\ b[i] = b[j] => i = j
    BY <2>2, <2>3, <2>7
  <2>11. \A i \in 1..Len(b) : b[i].type = "sub" => b[i] \notin Persisted
    BY <2>2, <2>3, <2>7
  <2>12. ASSUME NEW i \in 1..Len(b), b[i].type \in Reports, NEW n \in Artifact(w)
         PROVE  Sub(w, n) \in Persisted \/ \E j \in 1..Len(b) : j < i /\ b[j] = Sub(w, n)
    <3>1. i = Len(m) + 1
      BY <2>8, <2>12
    <3>2. \A j \in 1..Len(m) : j \in 1..Len(b) /\ j < i
      BY <2>2, <2>3, <3>1
    <3> QED  BY <2>2, <2>3, <3>2
  <2> QED  BY <1>4, <2>1, <2>3, <2>9, <2>10, <2>11, <2>12, <2>13
<1> QED  BY <1>0, <1>2, <1>3, <1>4 DEF PC, Writes

\* A call is reported in one place only.
LEMMA BatchStage ==
    ASSUME TypeOK, NEW w \in Worker, Writes(w), NEW i \in Places(Batch(w)),
           Batch(w)[i].type \in Reports
    PROVE  pc[w] = "record"
<1>1. pc[w] \in PC
  BY DEF TypeOK
<1> QED  BY <1>1 DEF PC, Writes, Batch, Places, Ev, Sub, Reports

\* The rows that a worker would write depend on nobody else's.
LEMMA BatchStays ==
    ASSUME NEW w \in Worker,
           pc'[w] = pc[w], frame'[w] = frame[w], outcome'[w] = outcome[w],
           \A n : Sub(w, n) \in Persisted' <=> Sub(w, n) \in Persisted
    PROVE  Batch(w)' = Batch(w)
<1>1. Missing(w)' = Missing(w) /\ Report(w)' = Report(w)
  BY DEF Missing, Artifact, Report
<1> QED  BY <1>1 DEF Batch

-----------------------------------------------------------------------------
(* The steps keep the invariant *)

LEMMA InitIInv == Init => IInv
<1> SUFFICES ASSUME Init  PROVE IInv
  OBVIOUS
<1>1. IsFiniteSet(rows) /\ LastSeq = 0
  BY FS_EmptySet DEF Init, LastSeq
<1>2. TypeOK
  <2>1. Frames \in Nat /\ MaxLosses \in Nat
    BY LedgerAssumption
  <2>2. frame \in [Worker -> 1..(Frames + 1)]
    BY <2>1 DEF Init
  <2>3. pc \in [Worker -> PC] /\ outcome \in [Worker -> {"none", "ok", "failed", "error"}]
    BY DEF Init, PC
  <2>4. \A w \in Worker : tx[w] = NoTx
    BY DEF Init
  <2> QED  BY <2>1, <2>2, <2>3, <2>4 DEF Init, TypeOK
<1>3. Dense
  BY <1>1 DEF Init, Dense
<1>4. SubEventOnce /\ NothingMissing
  BY DEF Init, SubEventOnce, NothingMissing
<1>5. OneInserts /\ \A w \in Worker : TxInv(w) /\ Ahead(w)
  BY DEF Init, OneInserts, Inserted, TxInv, Open, Ahead
<1> QED  BY <1>2, <1>3, <1>4, <1>5 DEF IInv, Init

\* What a worker does leaves alone what another one holds.
Apart(v) ==
    /\ tx'[v] = tx[v] /\ pc'[v] = pc[v] /\ frame'[v] = frame[v] /\ outcome'[v] = outcome[v]
    /\ lock = v => lock' = v

LEMMA OthersKeep ==
    ASSUME IInv, NEW w \in Worker, NEW v \in Worker, v # w, Apart(v),
           rows \subseteq rows', \A x \in rows' \ rows : x.ev.by = w,
           LastSeq \in Nat, LastSeq' \in Nat, LastSeq <= LastSeq',
           Inserted(v) => LastSeq' = LastSeq,
           Open(v) /\ pc[v] = "complete" => ended' = ended
    PROVE  TxInv(v)' /\ Ahead(v)'
<1>1. \A n : Sub(v, n) \in Persisted' <=> Sub(v, n) \in Persisted
  BY DEF Persisted, Sub
<1>2. Batch(v)' = Batch(v)
  BY <1>1, BatchStays DEF Apart
<1>3. TxInv(v) /\ Ahead(v)
  BY DEF IInv
<1>4. TxInv(v)'
  <2> SUFFICES ASSUME Open(v)
               PROVE  TxInv(v)'
    BY DEF TxInv, Open, Apart
  <2>1. tx[v] = [base |-> tx[v].base, batch |-> Batch(v)', inserted |-> tx[v].inserted]
    BY <1>2, <1>3 DEF TxInv
  <2>2. tx[v].base \in 0..LastSeq'
    BY <1>3 DEF TxInv
  <2>3. tx[v].inserted => tx[v].base = LastSeq'
    BY <1>3 DEF TxInv, Inserted, Open
  <2>4. /\ tx[v].inserted \in BOOLEAN
        /\ pc[v] # "done"
        /\ pc[v] = "stream" => frame[v] <= Frames
        /\ Locks(v) => lock' = v
        /\ pc[v] = "complete" => ~ended'
    BY <1>3 DEF TxInv, Apart
  <2>5. Locks(v)' = Locks(v)
    BY DEF Locks, Apart
  <2>6. tx'[v] = tx[v] /\ pc'[v] = pc[v] /\ frame'[v] = frame[v]
    BY DEF Apart
  <2>7. /\ tx'[v] = [base |-> tx'[v].base, batch |-> Batch(v)', inserted |-> tx'[v].inserted]
        /\ tx'[v].base \in 0..LastSeq' /\ (tx'[v].inserted => tx'[v].base = LastSeq')
        /\ tx'[v].inserted \in BOOLEAN
    BY <2>1, <2>2, <2>3, <2>4, <2>6
  <2>8. /\ pc'[v] # "done" /\ (pc'[v] = "stream" => frame'[v] <= Frames)
        /\ (Locks(v)' => lock' = v) /\ (pc'[v] = "complete" => ~ended')
    BY <2>4, <2>5, <2>6
  <2> QED  BY <2>7, <2>8 DEF TxInv
<1>5. Ahead(v)'
  BY <1>3 DEF Ahead, Apart
<1> QED  BY <1>4, <1>5

\* The ledger does not change.
LEMMA SameLedger ==
    ASSUME IInv, rows' = rows,
           \A v \in Worker : pc[v] \in {"complete", "done"} =>
              frame'[v] = frame[v] /\ outcome'[v] = outcome[v]
    PROVE  Dense' /\ SubEventOnce' /\ NothingMissing' /\ LastSeq' = LastSeq /\ LastSeq \in Nat
<1>1. LastSeq' = LastSeq
  BY DEF LastSeq
<1>2. LastSeq \in Nat
  BY FS_CardinalityType DEF LastSeq, IInv, Dense
<1>3. ASSUME NEW x \in rows, x.ev.type \in Reports
      PROVE  Artifact(x.ev.by)' = Artifact(x.ev.by)
  <2>1. x.ev.by \in Worker
    BY DEF IInv, TypeOK, Row, Event
  <2>2. pc[x.ev.by] \in {"complete", "done"}
    BY <1>3, <2>1 DEF IInv, Ahead
  <2> QED  BY <2>1, <2>2 DEF Artifact
<1>4. NothingMissing'
  BY <1>3 DEF IInv, NothingMissing, Reports
<1> QED  BY <1>1, <1>2, <1>4 DEF IInv, Dense, SubEventOnce

\* A worker does something outside of a transaction, or its transaction is over.
LEMMA RestKeeps ==
    ASSUME IInv, NEW w \in Worker, UNCHANGED <<rows, ended>>, DOMAIN tx' = Worker,
           ~Open(w)', \A v \in Worker \ {w} : Apart(v), TypeOK', Ahead(w)',
           pc[w] \in {"complete", "done"} => frame'[w] = frame[w] /\ outcome'[w] = outcome[w]
    PROVE  IInv'
<1>1. Dense' /\ SubEventOnce' /\ NothingMissing' /\ LastSeq' = LastSeq /\ LastSeq \in Nat
  BY SameLedger DEF Apart
<1>2. \A v \in Worker \ {w} : TxInv(v)' /\ Ahead(v)'
  BY <1>1, OthersKeep
<1>3. TxInv(w)'
  BY DEF TxInv
<1>4. OneInserts'
  BY DEF IInv, OneInserts, Inserted, Open, Apart
<1> QED  BY <1>1, <1>2, <1>3, <1>4 DEF IInv

\* A transaction begins with the rows its worker would write now.
LEMMA BeginKeeps ==
    ASSUME IInv, NEW w \in Worker, Begin(w)
    PROVE  IInv'
<1> DEFINE t == [base |-> LastSeq, batch |-> Batch(w), inserted |-> FALSE]
<1>1. /\ tx[w] = NoTx /\ Writes(w)
      /\ ended => pc[w] = "record"
      /\ lock' = IF Locks(w) THEN w ELSE lock
      /\ Locks(w) => lock = NoWorker
      /\ tx' = [tx EXCEPT ![w] = t]
      /\ UNCHANGED <<rows, ended, pc, frame, outcome, losses>>
  BY DEF Begin, Writes
<1>2. DOMAIN tx' = Worker /\ tx'[w] = t /\ \A v \in Worker \ {w} : tx'[v] = tx[v]
  BY <1>1 DEF IInv
<1>3. Dense' /\ SubEventOnce' /\ NothingMissing' /\ LastSeq' = LastSeq /\ LastSeq \in Nat
  BY <1>1, SameLedger
<1>4. Batch(w)' = Batch(w) /\ Batch(w) \in Seq(Event)
  BY <1>1, BatchIs, BatchStays DEF IInv, Persisted
<1>5. TypeOK'
  <2>1. t \in Tx
    BY <1>3, <1>4 DEF Tx
  <2>2. \A v \in Worker : tx'[v] = NoTx \/ tx'[v] \in Tx
    BY <1>2, <2>1 DEF IInv, TypeOK
  <2>3. lock' \in Worker \cup {NoWorker}
    BY <1>1 DEF IInv, TypeOK
  <2> QED  BY <1>1, <2>2, <2>3 DEF IInv, TypeOK
<1>6. \A v \in Worker \ {w} : TxInv(v)' /\ Ahead(v)'
  <2> SUFFICES ASSUME NEW v \in Worker \ {w}  PROVE TxInv(v)' /\ Ahead(v)'
    OBVIOUS
  <2>1. Apart(v)
    BY <1>1, <1>2, LedgerAssumption DEF Apart
  <2> QED  BY <1>1, <1>3, <2>1, OthersKeep
<1>7. TxInv(w)'
  <2>1. Locks(w)' = Locks(w)
    BY <1>1 DEF Locks
  <2> QED  BY <1>1, <1>2, <1>3, <1>4, <2>1 DEF TxInv, Writes
<1>8. Ahead(w)'
  BY <1>1 DEF IInv, Ahead
<1>9. OneInserts'
  BY <1>2 DEF IInv, OneInserts, Inserted
<1> QED  BY <1>2, <1>3, <1>5, <1>6, <1>7, <1>8, <1>9 DEF IInv

\* The next number is free and only this transaction takes it.
LEMMA InsertKeeps ==
    ASSUME IInv, NEW w \in Worker, Insert(w)
    PROVE  IInv'
<1> DEFINE t == [base |-> tx[w].base, batch |-> tx[w].batch, inserted |-> TRUE]
<1>1. /\ tx[w] # NoTx /\ tx[w].base = LastSeq
      /\ \A v \in Worker : ~Inserted(v)
      /\ tx' = [tx EXCEPT ![w].inserted = TRUE]
      /\ UNCHANGED <<rows, ended, lock, pc, frame, outcome, losses>>
  BY DEF Insert, Waiting
<1>2. DOMAIN tx' = Worker /\ tx'[w] = t /\ \A v \in Worker \ {w} : tx'[v] = tx[v]
  BY <1>1 DEF IInv, TypeOK, Tx
<1>3. Dense' /\ SubEventOnce' /\ NothingMissing' /\ LastSeq' = LastSeq /\ LastSeq \in Nat
  BY <1>1, SameLedger
<1>4. TypeOK'
  <2>1. t \in Tx
    BY <1>1 DEF IInv, TypeOK, Tx
  <2>2. \A v \in Worker : tx'[v] = NoTx \/ tx'[v] \in Tx
    BY <1>2, <2>1 DEF IInv, TypeOK
  <2> QED  BY <1>1, <2>2 DEF IInv, TypeOK
<1>5. \A v \in Worker \ {w} : TxInv(v)' /\ Ahead(v)'
  <2> SUFFICES ASSUME NEW v \in Worker \ {w}  PROVE TxInv(v)' /\ Ahead(v)'
    OBVIOUS
  <2>1. Apart(v)
    BY <1>1, <1>2 DEF Apart
  <2> QED  BY <1>1, <1>3, <2>1, OthersKeep
<1>6. TxInv(w)'
  <2>1. Batch(w)' = Batch(w) /\ Locks(w)' = Locks(w)
    BY <1>1, BatchStays DEF Persisted, Locks
  <2>2. tx[w].batch = Batch(w) /\ TxInv(w)
    BY <1>1 DEF IInv, TxInv, Open
  <2> QED  BY <1>1, <1>2, <1>3, <2>1, <2>2 DEF TxInv, Open
<1>7. Ahead(w)'
  BY <1>1 DEF IInv, Ahead
<1>8. OneInserts'
  BY <1>1, <1>2 DEF OneInserts, Inserted
<1> QED  BY <1>2, <1>3, <1>4, <1>5, <1>6, <1>7, <1>8 DEF IInv

\* The end of a transaction.
LEMMA ReleaseIs ==
    ASSUME IInv, NEW w \in Worker, Release(w)
    PROVE  /\ DOMAIN tx' = Worker /\ tx'[w] = NoTx
           /\ \A v \in Worker \ {w} : tx'[v] = tx[v] /\ (lock = v => lock' = v)
           /\ lock' \in Worker \cup {NoWorker}
           /\ \A v \in Worker : tx'[v] = NoTx \/ tx'[v] \in Tx
BY DEF Release, IInv, TypeOK

\* A transaction is rolled back, for whatever reason.
LEMMA RaiseKeeps ==
    ASSUME IInv, NEW w \in Worker, Open(w), Raise(w), UNCHANGED <<rows, ended, frame>>,
           losses' \in Nat
    PROVE  IInv'
<1>1. /\ pc' = [pc EXCEPT ![w] = IF @ = "stream" THEN "record" ELSE "done"]
      /\ outcome' = [outcome EXCEPT ![w] = IF pc[w] = "stream" THEN "error" ELSE @]
  BY DEF Raise
<1>2. /\ pc \in [Worker -> PC] /\ outcome \in [Worker -> {"none", "ok", "failed", "error"}]
      /\ DOMAIN tx = Worker
  BY DEF IInv, TypeOK
<1>3. TypeOK'
  <2>1. pc' \in [Worker -> PC] /\ outcome' \in [Worker -> {"none", "ok", "failed", "error"}]
    BY <1>1, <1>2 DEF PC
  <2> QED  BY <2>1, ReleaseIs DEF Raise, IInv, TypeOK
<1>4. ~Open(w)' /\ DOMAIN tx' = Worker /\ \A v \in Worker \ {w} : Apart(v)
  BY <1>1, <1>2, ReleaseIs DEF Raise, Apart, Open
<1>5. Ahead(w)'
  BY <1>1, <1>2 DEF IInv, Ahead
<1> QED  BY <1>1, <1>2, <1>3, <1>4, <1>5, RestKeeps

\* A worker is lost or stops.
LEMMA LoseKeeps ==
    ASSUME IInv, NEW w \in Worker, Lose(w)
    PROVE  IInv'
<1>1. /\ Release(w) /\ pc' = [pc EXCEPT ![w] = "done"]
      /\ losses' \in Nat
      /\ UNCHANGED <<rows, ended, frame, outcome>>
  BY DEF Lose, IInv, TypeOK
<1>2. pc \in [Worker -> PC] /\ DOMAIN tx = Worker
  BY DEF IInv, TypeOK
<1>3. TypeOK'
  <2>1. pc' \in [Worker -> PC]
    BY <1>1, <1>2 DEF PC
  <2> QED  BY <1>1, <2>1, ReleaseIs DEF IInv, TypeOK
<1>4. ~Open(w)' /\ DOMAIN tx' = Worker /\ \A v \in Worker \ {w} : Apart(v)
  BY <1>1, <1>2, ReleaseIs DEF Apart, Open
<1>5. Ahead(w)'
  BY <1>1, <1>2 DEF IInv, Ahead
<1> QED  BY <1>1, <1>3, <1>4, <1>5, RestKeeps

\* A frame is skipped, the call returns, or a worker sees that the run has ended.
LEMMA BetweenKeeps ==
    ASSUME IInv, NEW w \in Worker, SeesEnd(w) \/ DropFrame(w) \/ ReturnTask(w)
    PROVE  IInv'
<1>1. /\ tx[w] = NoTx
      /\ UNCHANGED <<rows, ended, lock, tx, losses>>
  BY DEF SeesEnd, DropFrame, ReturnTask
<1>2. /\ pc \in [Worker -> PC] /\ frame \in [Worker -> 1..(Frames + 1)] /\ Frames \in Nat
      /\ outcome \in [Worker -> {"none", "ok", "failed", "error"}]
      /\ DOMAIN tx = Worker
  BY LedgerAssumption DEF IInv, TypeOK
<1>3. CASE /\ pc[w] = "stream" /\ frame[w] <= Frames
           /\ frame' = [frame EXCEPT ![w] = @ + 1]
           /\ UNCHANGED <<pc, outcome>>
  <2>1. TypeOK'
    <3>1. frame' \in [Worker -> 1..(Frames + 1)]
      BY <1>2, <1>3
    <3> QED  BY <1>1, <1>3, <3>1 DEF IInv, TypeOK
  <2>2. ~Open(w)' /\ \A v \in Worker \ {w} : Apart(v)
    BY <1>1, <1>2, <1>3 DEF Apart, Open
  <2>3. Ahead(w)'
    <3>0. Ahead(w) /\ outcome[w] # "ok"
      BY <1>2, <1>3 DEF IInv, Ahead
    <3> SUFFICES ASSUME NEW x \in rows, x.ev.type = "sub", x.ev.by = w
                 PROVE  x.ev.n < frame[w] + 1
      BY <1>1, <1>2, <1>3, <3>0 DEF Ahead
    <3>1. x.ev.n < frame[w] /\ x.ev.n \in 0..Frames
      BY <1>3 DEF IInv, Ahead, TypeOK, Row, Event
    <3> QED  BY <1>2, <3>1
  <2> QED  BY <1>1, <1>2, <1>3, <2>1, <2>2, <2>3, RestKeeps
<1>4. CASE \E p \in {"record", "done"} :
             /\ pc' = [pc EXCEPT ![w] = p]
             /\ \E o \in {"ok", "failed", "error", outcome[w]} :
                   /\ outcome' = [outcome EXCEPT ![w] = o]
                   /\ o = "ok" => outcome[w] = "ok" \/ frame[w] > Frames
                   /\ pc[w] \in {"complete", "done"} => o = outcome[w] /\ p = "done"
             /\ UNCHANGED frame
  <2>1. TypeOK'
    <3>1. pc' \in [Worker -> PC] /\ outcome' \in [Worker -> {"none", "ok", "failed", "error"}]
      BY <1>2, <1>4 DEF PC
    <3> QED  BY <1>1, <1>4, <3>1 DEF IInv, TypeOK
  <2>2. ~Open(w)' /\ \A v \in Worker \ {w} : Apart(v)
    BY <1>1, <1>2, <1>4 DEF Apart, Open
  <2>4. /\ pc'[w] \in {"record", "done"} /\ rows' = rows /\ frame'[w] = frame[w]
        /\ outcome'[w] = "ok" => outcome[w] = "ok" \/ frame[w] > Frames
        /\ pc[w] \in {"complete", "done"} => outcome'[w] = outcome[w] /\ pc'[w] = "done"
    BY <1>1, <1>2, <1>4
  <2>3. Ahead(w)'
    BY <1>2, <2>4 DEF IInv, Ahead
  <2> QED  BY <1>1, <1>2, <2>1, <2>2, <2>3, <2>4, RestKeeps
<1>5. CASE SeesEnd(w)
  <2>1. outcome' = [outcome EXCEPT ![w] = outcome[w]]
    BY <1>2, <1>5 DEF SeesEnd
  <2> QED  BY <1>3, <1>4, <1>5, <2>1 DEF SeesEnd
<1>6. CASE DropFrame(w)
  BY <1>3, <1>6 DEF DropFrame
<1>7. CASE ReturnTask(w)
  BY <1>4, <1>7 DEF ReturnTask
<1> QED  BY <1>5, <1>6, <1>7

\* The rows of a worker's transaction, after those that are committed.
NewRow(w, i) == [seq |-> LastSeq + i, ev |-> Batch(w)[i]]
NewRows(w)   == {NewRow(w, i) : i \in Places(Batch(w))}

\* A committing transaction has the number of the last row and what to write.
LEMMA CommitIs ==
    ASSUME IInv, NEW w \in Worker, Commit(w)
    PROVE  /\ Open(w) /\ Inserted(w) /\ Writes(w)
           /\ rows' = rows \cup NewRows(w)
           /\ Batch(w) \in Seq(Event) /\ Len(Batch(w)) \in 1..(Frames + 2)
           /\ LastSeq \in Nat
<1>1. tx[w] # NoTx /\ tx[w].inserted
  BY DEF Commit, Inserted
<1>2. tx[w].batch = Batch(w) /\ tx[w].base = LastSeq /\ Writes(w)
  BY <1>1 DEF IInv, TxInv, Open, Writes
<1>3. Batch(w) \in Seq(Event) /\ Len(Batch(w)) \in 1..(Frames + 2)
  BY <1>2, BatchIs DEF IInv
<1>4. DOMAIN tx[w].batch = Places(Batch(w))
  BY <1>2, <1>3 DEF Places
<1>5. rows' = rows \cup NewRows(w)
  BY <1>2, <1>4 DEF Commit, NewRows, NewRow
<1>6. LastSeq \in Nat
  BY FS_CardinalityType DEF LastSeq, IInv, Dense
<1> QED  BY <1>1, <1>2, <1>3, <1>5, <1>6 DEF Open, Inserted

\* The ledger stays dense: it grows by the rows of the transaction.
LEMMA CommitDense ==
    ASSUME IInv, NEW w \in Worker, Commit(w)
    PROVE  LastSeq' = LastSeq + Len(Batch(w)) /\ Dense'
<1> DEFINE k == Len(Batch(w))
           f == [i \in 1..k |-> NewRow(w, i)]
<1>1. /\ rows' = rows \cup NewRows(w) /\ NewRows(w) = {NewRow(w, i) : i \in 1..k}
      /\ LastSeq \in Nat /\ k \in Nat
  BY CommitIs, LedgerAssumption DEF NewRows, Places
<1>2. \A i \in 1..k : NewRow(w, i).seq = LastSeq + i
  BY DEF NewRow
<1>3. IsFiniteSet(NewRows(w)) /\ Cardinality(NewRows(w)) = k
  <2>1. f \in [1..k -> NewRows(w)] /\ \A i \in 1..k : f[i] = NewRow(w, i)
    BY <1>1
  <2>2. \A i, j \in 1..k : f[i] = f[j] => i = j
    <3> SUFFICES ASSUME NEW i \in 1..k, NEW j \in 1..k, f[i] = f[j]  PROVE i = j
      OBVIOUS
    <3>1. f[i].seq = LastSeq + i /\ f[j].seq = LastSeq + j
      BY <1>2
    <3>2. i \in Nat /\ j \in Nat /\ LastSeq + i = LastSeq + j
      BY <1>1, <3>1
    <3> QED  BY <1>1, <3>2
  <2>3. \A x \in NewRows(w) : \E i \in 1..k : f[i] = x
    BY <1>1
  <2> HIDE DEF f
  <2>4. f \in Bijection(1..k, NewRows(w))
    BY <2>1, <2>2, <2>3 DEF Bijection, Injection, Surjection, IsInjective
  <2>5. ExistsBijection(1..k, NewRows(w))
    BY <2>4 DEF ExistsBijection
  <2>6. IsFiniteSet(1..k) /\ Cardinality(1..k) = k
    <3>1. 1 \in Int /\ k \in Int /\ (1 > k => k = 0) /\ k - 1 + 1 = k
      BY <1>1
    <3> HIDE DEF k
    <3> QED  BY <3>1, FS_Interval
  <2> QED  BY <2>5, <2>6, FS_Bijection
<1>4. rows \cap NewRows(w) = {}
  <2> SUFFICES ASSUME NEW i \in 1..k, NewRow(w, i) \in rows  PROVE FALSE
    BY <1>1
  <2>1. LastSeq + i \in 1..LastSeq
    BY <1>2 DEF IInv, Dense
  <2> QED  BY <1>1, <2>1
<1>5. IsFiniteSet(rows') /\ LastSeq' = LastSeq + k
  <2>1. IsFiniteSet(rows) /\ Cardinality({}) = 0 /\ Cardinality(rows) = LastSeq
    BY FS_EmptySet DEF IInv, Dense, LastSeq
  <2>2. /\ IsFiniteSet(rows \cup NewRows(w))
        /\ Cardinality(rows \cup NewRows(w)) = Cardinality(rows) + k - Cardinality(rows \cap NewRows(w))
    BY <1>3, <2>1, FS_Union
  <2>3. LastSeq' = Cardinality(rows \cup NewRows(w)) /\ IsFiniteSet(rows')
    BY <1>1, <2>2 DEF LastSeq
  <2>4. LastSeq' = LastSeq + k - 0
    BY <1>4, <2>1, <2>2, <2>3
  <2> HIDE DEF k
  <2> QED  BY <1>1, <2>3, <2>4
<1>6. \A x \in rows' : x.seq \in 1..LastSeq'
  <2> SUFFICES ASSUME NEW x \in rows'  PROVE x.seq \in 1..(LastSeq + k)
    BY <1>5
  <2>1. CASE x \in rows
    BY <1>1, <2>1 DEF IInv, Dense
  <2>2. CASE x \in NewRows(w)
    BY <1>1, <1>2, <2>2
  <2> QED  BY <1>1, <2>1, <2>2
<1>7. \A i \in 1..LastSeq' : \E x \in rows' : x.seq = i
  <2> SUFFICES ASSUME NEW i \in 1..(LastSeq + k)  PROVE \E x \in rows' : x.seq = i
    BY <1>5
  <2>1. CASE i \in 1..LastSeq
    BY <1>1, <2>1 DEF IInv, Dense
  <2>2. CASE i \notin 1..LastSeq
    <3>1. i - LastSeq \in 1..k /\ LastSeq + (i - LastSeq) = i
      BY <1>1, <2>2
    <3> QED  BY <1>1, <1>2, <3>1
  <2> QED  BY <2>1, <2>2
<1>8. \A x, y \in rows' : x.seq = y.seq => x = y
  <2>1. \A x \in rows : x.seq \in 1..LastSeq
    BY DEF IInv, Dense
  <2>2. ASSUME NEW x \in rows, NEW i \in 1..k  PROVE x.seq # NewRow(w, i).seq
    BY <1>1, <1>2, <2>1
  <2>3. ASSUME NEW i \in 1..k, NEW j \in 1..k, NewRow(w, i).seq = NewRow(w, j).seq  PROVE i = j
    BY <1>1, <1>2, <2>3
  <2>4. \A x, y \in rows : x.seq = y.seq => x = y
    BY DEF IInv, Dense
  <2> QED  BY <1>1, <2>2, <2>3, <2>4
<1> QED  BY <1>5, <1>6, <1>7, <1>8 DEF Dense

\* No sub-event is written again, and a completed call is reported with all of its.
LEMMA CommitKeepsOnce ==
    ASSUME IInv, NEW w \in Worker, Commit(w)
    PROVE  SubEventOnce' /\ NothingMissing'
<1>1. /\ rows' = rows \cup NewRows(w) /\ Writes(w) /\ LastSeq \in Nat
      /\ Batch(w) \in Seq(Event) /\ Len(Batch(w)) \in Nat
  BY CommitIs, LedgerAssumption
<1>2. \A i \in Places(Batch(w)) :
         /\ i \in Nat \ {0}
         /\ NewRow(w, i).seq = LastSeq + i
         /\ NewRow(w, i).ev = Batch(w)[i] /\ Batch(w)[i].by = w
         /\ Batch(w)[i].type = "sub" =>
               /\ Batch(w)[i] \notin Persisted
               /\ \A j \in Places(Batch(w)) : Batch(w)[i] = Batch(w)[j] => i = j
  BY <1>1, BatchIs DEF IInv, NewRow, Places
<1>3. \A x \in rows : x.seq \in 1..LastSeq /\ x.ev \in Persisted
  BY DEF IInv, Dense, Persisted
<1>4. SubEventOnce'
  <2> SUFFICES ASSUME NEW x \in rows', NEW y \in rows', x.ev.type = "sub", x.ev = y.ev
               PROVE  x.seq = y.seq
    BY DEF SubEventOnce
  <2>1. CASE x \in rows /\ y \in rows
    BY <2>1 DEF IInv, SubEventOnce
  <2>2. ASSUME NEW z \in rows, NEW i \in Places(Batch(w)), z.ev = NewRow(w, i).ev,
               z.ev.type = "sub"
        PROVE  FALSE
    BY <1>2, <1>3, <2>2
  <2>3. CASE x \in NewRows(w) /\ y \in NewRows(w)
    BY <1>2, <2>3 DEF NewRows
  <2> QED  BY <1>1, <2>1, <2>2, <2>3 DEF NewRows
<1>5. NothingMissing'
  <2>0. ASSUME NEW x \in rows, x.ev.type \in Reports
        PROVE  Artifact(x.ev.by)' = Artifact(x.ev.by)
    <3>1. x.ev.by \in Worker /\ pc[x.ev.by] \in {"complete", "done"}
      BY <2>0 DEF IInv, TypeOK, Row, Event, Ahead
    <3>2. frame'[x.ev.by] = frame[x.ev.by] /\ outcome' = outcome
      BY <3>1 DEF Commit, IInv, TypeOK
    <3> QED  BY <3>2 DEF Artifact
  <2> SUFFICES ASSUME NEW x \in rows', x.ev.type \in Reports, NEW n \in 1..Frames,
                      x.ev.type = "answered" \/ n \in Artifact(x.ev.by)'
               PROVE  \E y \in rows' : y.ev = Sub(x.ev.by, n) /\ y.seq < x.seq
    BY DEF NothingMissing, Reports
  <2>1. CASE x \in rows
    BY <1>1, <2>0, <2>1 DEF IInv, NothingMissing, Reports
  <2>2. CASE x \in NewRows(w)
    <3>1. PICK i \in Places(Batch(w)) : x = NewRow(w, i)
      BY <2>2 DEF NewRows
    <3>2. /\ x.seq = LastSeq + i /\ i \in Nat \ {0}
          /\ x.ev.by = w /\ Batch(w)[i] = x.ev
      BY <1>2, <3>1
    <3>6. pc[w] = "record"
      BY <1>1, <3>2, BatchStage DEF IInv
    <3>7. Artifact(w)' = Artifact(w)
      BY <3>6 DEF Artifact, Commit, IInv, TypeOK
    <3>3. \/ Sub(w, n) \in Persisted
          \/ \E j \in Places(Batch(w)) : j < i /\ Batch(w)[j] = Sub(w, n)
      <4>1. /\ Batch(w)[i].type = "answered" => Artifact(w) = 1..Frames
            /\ \A k \in Artifact(w) :
                  \/ Sub(w, k) \in Persisted
                  \/ \E j \in Places(Batch(w)) : j < i /\ Batch(w)[j] = Sub(w, k)
        BY <1>1, <3>2, BatchIs DEF IInv
      <4>2. n \in Artifact(w)
        BY <3>2, <3>7, <4>1
      <4> QED  BY <4>1, <4>2
    <3>4. CASE Sub(w, n) \in Persisted
      <4>1. PICK y \in rows : y.ev = Sub(w, n)
        BY <3>4 DEF Persisted
      <4>2. y.seq \in 1..LastSeq
        BY <1>3
      <4> QED  BY <1>1, <3>2, <4>1, <4>2
    <3>5. ASSUME NEW j \in Places(Batch(w)), j < i, Batch(w)[j] = Sub(w, n)
          PROVE  \E y \in rows' : y.ev = Sub(w, n) /\ y.seq < x.seq
      <4>1. /\ NewRow(w, j) \in rows' /\ NewRow(w, j).ev = Sub(w, n)
            /\ NewRow(w, j).seq = LastSeq + j /\ j \in Nat
        BY <1>1, <1>2, <3>5 DEF NewRows
      <4>2. NewRow(w, j).seq < x.seq
        BY <1>1, <3>2, <3>5, <4>1
      <4> QED  BY <4>1, <4>2
    <3> QED  BY <3>2, <3>3, <3>4, <3>5
  <2> QED  BY <1>1, <2>1, <2>2
<1> QED  BY <1>4, <1>5

\* Where the worker stands once its rows are in the ledger.
LEMMA CommitAhead ==
    ASSUME IInv, NEW w \in Worker, Commit(w)
    PROVE  Ahead(w)'
<1>1. /\ rows' = rows \cup NewRows(w) /\ Writes(w) /\ Frames \in Nat
      /\ pc[w] \in PC /\ frame[w] \in 1..(Frames + 1)
      /\ Ahead(w) /\ \A x \in rows : x.ev.n \in 0..Frames
      /\ pc[w] = "stream" => frame[w] <= Frames
  BY CommitIs, LedgerAssumption DEF IInv, TypeOK, Row, Event, Writes
<1>2. pc'[w] = CASE pc[w] = "start"  -> "call"
                 [] pc[w] = "call"   -> "stream"
                 [] pc[w] = "stream" -> "stream"
                 [] pc[w] = "record" -> "complete"
                 [] OTHER            -> "done"
  BY DEF Commit, IInv, TypeOK
<1>3. frame'[w] = IF pc[w] = "stream" THEN frame[w] + 1 ELSE frame[w]
  BY DEF Commit, IInv, TypeOK
<1>4. \A i \in Places(Batch(w)) :
         /\ Batch(w)[i].type = "sub" =>
               pc[w] = "record" \/ (pc[w] = "stream" /\ Batch(w)[i].n = frame[w])
         /\ Batch(w)[i].type \in Reports => pc[w] = "record"
  BY <1>1, BatchIs, BatchStage DEF IInv
<1>7. outcome'[w] = "ok" => frame'[w] = Frames + 1
  <2>1. outcome' = outcome
    BY DEF Commit
  <2> QED  BY <1>1, <1>3, <2>1 DEF Ahead
<1> SUFFICES ASSUME NEW x \in rows', x.ev.by = w
             PROVE  /\ x.ev.type = "sub" => /\ pc'[w] \notin {"start", "call"}
                                            /\ pc'[w] = "stream" => x.ev.n < frame'[w]
                    /\ x.ev.type \in Reports => pc'[w] \in {"complete", "done"}
  BY <1>7 DEF Ahead
<1>5. CASE x \in rows
  <2>1. \A y \in rows : y.ev.by = w /\ y.ev.type = "sub" =>
           pc[w] # "start" /\ pc[w] # "call"
    BY <1>1 DEF Ahead
  <2>2. \A y \in rows : y.ev.by = w /\ y.ev.type = "sub" /\ pc[w] = "stream" =>
           y.ev.n < frame[w]
    BY <1>1 DEF Ahead
  <2>3. \A y \in rows : y.ev.by = w /\ y.ev.type \in Reports => pc[w] \in {"complete", "done"}
    BY <1>1 DEF Ahead
  <2> QED  BY <1>1, <1>2, <1>3, <1>5, <2>1, <2>2, <2>3
<1>6. CASE x \in NewRows(w)
  <2>1. /\ x.ev.type = "sub" => pc[w] = "record" \/ (pc[w] = "stream" /\ x.ev.n = frame[w])
        /\ x.ev.type \in Reports => pc[w] = "record"
    BY <1>4, <1>6 DEF NewRows, NewRow
  <2> QED  BY <1>1, <1>2, <1>3, <2>1
<1> QED  BY <1>1, <1>5, <1>6

LEMMA CommitTyped ==
    ASSUME IInv, NEW w \in Worker, Commit(w)
    PROVE  TypeOK'
<1>1. /\ rows' = rows \cup NewRows(w) /\ LastSeq \in Nat /\ Writes(w)
      /\ Batch(w) \in Seq(Event) /\ Len(Batch(w)) \in Nat /\ Frames \in Nat
  BY CommitIs, LedgerAssumption
<1>2. rows' \in SUBSET Row
  <2>1. \A i \in Places(Batch(w)) : NewRow(w, i) \in Row
    BY <1>1 DEF Places, NewRow, Row
  <2> QED  BY <1>1, <2>1 DEF NewRows, IInv, TypeOK
<1>3. /\ pc \in [Worker -> PC] /\ frame \in [Worker -> 1..(Frames + 1)]
      /\ ended \in BOOLEAN
  BY DEF IInv, TypeOK
<1>4. pc' \in [Worker -> PC]
  BY <1>3 DEF Commit, PC
<1>5. frame' \in [Worker -> 1..(Frames + 1)]
  <2>1. frame' = [frame EXCEPT ![w] = IF pc[w] = "stream" THEN @ + 1 ELSE @]
    BY DEF Commit
  <2>2. pc[w] = "stream" => frame[w] <= Frames
    BY <1>1 DEF Writes
  <2> QED  BY <1>1, <1>3, <2>1, <2>2
<1>6. ended' \in BOOLEAN
  BY <1>3 DEF Commit
<1>7. Release(w) /\ UNCHANGED <<outcome, losses>>
  BY DEF Commit
<1> QED  BY <1>2, <1>4, <1>5, <1>6, <1>7, ReleaseIs DEF IInv, TypeOK

\* A transaction commits: its rows follow all others, and nobody else's rows change.
LEMMA CommitKeeps ==
    ASSUME IInv, NEW w \in Worker, Commit(w)
    PROVE  IInv'
<1>1. /\ rows' = rows \cup NewRows(w) /\ LastSeq \in Nat /\ Open(w) /\ Inserted(w) /\ Writes(w)
      /\ Batch(w) \in Seq(Event) /\ Len(Batch(w)) \in Nat
      /\ LastSeq' = LastSeq + Len(Batch(w)) /\ Dense'
  BY CommitIs, CommitDense, LedgerAssumption
<1>2. /\ DOMAIN tx' = Worker /\ tx'[w] = NoTx
      /\ \A v \in Worker \ {w} : tx'[v] = tx[v] /\ (lock = v => lock' = v)
  BY ReleaseIs DEF Commit
<1>3. \A v \in Worker \ {w} : TxInv(v)' /\ Ahead(v)'
  <2> SUFFICES ASSUME NEW v \in Worker \ {w}  PROVE TxInv(v)' /\ Ahead(v)'
    OBVIOUS
  <2>1. Apart(v)
    BY <1>2 DEF Apart, Commit, IInv, TypeOK
  <2>2. \A x \in rows' \ rows : x.ev.by = w
    <3>1. \A i \in Places(Batch(w)) : Batch(w)[i].by = w
      BY <1>1, BatchIs DEF IInv
    <3> QED  BY <1>1, <3>1 DEF NewRows, NewRow
  <2>3. ~Inserted(v)
    BY <1>1 DEF IInv, OneInserts
  <2>4. Open(v) /\ pc[v] = "complete" => ended' = ended
    <3>1. Open(v) /\ pc[v] = "complete" => pc[w] # "complete"
      BY <1>1 DEF IInv, TxInv, Locks
    <3> QED  BY <3>1 DEF Commit, IInv, TypeOK
  <2>5. rows \subseteq rows' /\ LastSeq' \in Nat /\ LastSeq <= LastSeq'
    BY <1>1
  <2> QED  BY <1>1, <2>1, <2>2, <2>3, <2>4, <2>5, OthersKeep
<1>4. TxInv(w)'
  BY <1>2 DEF TxInv, Open
<1>5. OneInserts'
  BY <1>1, <1>2 DEF IInv, OneInserts, Inserted
<1> QED  BY <1>1, <1>2, <1>3, <1>4, <1>5, CommitTyped, CommitAhead, CommitKeepsOnce DEF IInv

\* Every step keeps the invariant.
LEMMA StepKeeps == IInv /\ [Next]_vars => IInv'
<1> SUFFICES ASSUME IInv, [Next]_vars  PROVE IInv'
  OBVIOUS
<1>1. ASSUME NEW w \in Worker, Begin(w)  PROVE IInv'
  BY <1>1, BeginKeeps
<1>2. ASSUME NEW w \in Worker, SeesEnd(w) \/ DropFrame(w) \/ ReturnTask(w)  PROVE IInv'
  BY <1>2, BetweenKeeps
<1>3. ASSUME NEW w \in Worker, Insert(w)  PROVE IInv'
  BY <1>3, InsertKeeps
<1>4. ASSUME NEW w \in Worker, Conflict(w)  PROVE IInv'
  <2>1. Open(w) /\ Raise(w) /\ UNCHANGED <<rows, ended, frame>> /\ losses' \in Nat
    BY <1>4 DEF Conflict, Waiting, Open, IInv, TypeOK
  <2> QED  BY <2>1, RaiseKeeps
<1>5. ASSUME NEW w \in Worker, Commit(w)  PROVE IInv'
  BY <1>5, CommitKeeps
<1>6. ASSUME NEW w \in Worker, Lose(w)  PROVE IInv'
  BY <1>6, LoseKeeps
<1>7. ASSUME NEW w \in Worker, Abort(w)  PROVE IInv'
  <2>1. Open(w) /\ Raise(w) /\ UNCHANGED <<rows, ended, frame>> /\ losses' \in Nat
    BY <1>7 DEF Abort, Open, IInv, TypeOK
  <2> QED  BY <2>1, RaiseKeeps
<1>8. CASE UNCHANGED vars
  <2>1. UNCHANGED <<rows, ended, lock, tx, pc, frame, outcome, losses>>
    BY <1>8 DEF vars
  <2>2. Dense' /\ SubEventOnce' /\ NothingMissing' /\ LastSeq' = LastSeq /\ LastSeq \in Nat
    BY <2>1, SameLedger
  <2>3. \A w \in Worker : Batch(w)' = Batch(w) /\ Locks(w)' = Locks(w)
    BY <2>1, BatchStays DEF Persisted, Locks
  <2>4. \A w \in Worker : TxInv(w)' /\ Ahead(w)'
    BY <2>1, <2>2, <2>3 DEF IInv, TxInv, Open, Ahead
  <2> QED  BY <2>1, <2>2, <2>4 DEF IInv, TypeOK, OneInserts, Inserted
<1> QED  BY <1>1, <1>2, <1>3, <1>4, <1>5, <1>6, <1>7, <1>8 DEF Next, Progress

-----------------------------------------------------------------------------
(* Theorems *)

\* The invariant holds in every reachable state.
THEOREM Invariance == Spec => []IInv
BY InitIInv, StepKeeps, PTL DEF Spec

\* Every variable of the event ledger has its type.
THEOREM TypeCorrect == Spec => []TypeOK
BY Invariance, PTL DEF IInv

\* However many workers hold the run, a sub-event that is streamed and comes again
\* in the terminal artifact has one row.
THEOREM WrittenOnce == Spec => []SubEventOnce
BY Invariance, PTL DEF IInv

\* A completed call is reported after all its sub-events, whatever streaming lost.
THEOREM ReportedInFull == Spec => []NothingMissing
BY Invariance, PTL DEF IInv

-----------------------------------------------------------------------------
(* The ledger implements the append-only log of its readers *)

\* A set of rows by sequence number, as its readers see it.
LedgerOf(R) ==
    [i \in 1..Cardinality(R) |->
        IF \E row \in R : row.seq = i
        THEN KindOf((CHOOSE row \in R : row.seq = i).ev)
        ELSE "gap"]

\* Each row is at the place of its number, and each place has its row.
LEMMA RowsInPlace ==
    ASSUME NEW R, NEW n \in Nat, Cardinality(R) = n,
           \A x \in R : x.seq \in 1..n,
           \A x, y \in R : x.seq = y.seq => x = y
    PROVE  /\ DOMAIN LedgerOf(R) = 1..n
           /\ LedgerOf(R) = [i \in 1..n |-> LedgerOf(R)[i]]
           /\ \A x \in R : LedgerOf(R)[x.seq] = KindOf(x.ev)
<1>1. LedgerOf(R) = [i \in 1..n |-> IF \E row \in R : row.seq = i
                                   THEN KindOf((CHOOSE row \in R : row.seq = i).ev)
                                   ELSE "gap"]
  BY DEF LedgerOf
<1>2. ASSUME NEW x \in R  PROVE LedgerOf(R)[x.seq] = KindOf(x.ev)
  <2>1. (CHOOSE row \in R : row.seq = x.seq) = x
    OBVIOUS
  <2>2. x.seq \in 1..n /\ \E row \in R : row.seq = x.seq
    OBVIOUS
  <2> QED  BY <1>1, <2>1, <2>2
<1> QED  BY <1>1, <1>2

Kinds(w) == [i \in Places(Batch(w)) |-> KindOf(Batch(w)[i])]

\* A transaction is one of the batches of the log, or it ends the run.
LEMMA KindsAreBatches ==
    ASSUME TypeOK, NEW w \in Worker, Ahead(w), Writes(w)
    PROVE  IF pc[w] = "complete" THEN Kinds(w) = <<"end">>
           ELSE \/ Kinds(w) = <<"hidden", "user">>
                \/ \E n \in 1..(Frames + 1) : Kinds(w) = [i \in 1..n |-> "user"]
<1>0. Frames \in Nat /\ pc[w] \in PC
  BY LedgerAssumption DEF TypeOK
<1>1. /\ KindOf(Ev("authz", w)) = "hidden" /\ KindOf(Ev("ended", w)) = "end"
      /\ \A type \in {"started", "called", "answered", "failed"} : KindOf(Ev(type, w)) = "user"
      /\ \A n : KindOf(Sub(w, n)) = "user"
  BY DEF KindOf, Ev, Sub
<1>2. CASE pc[w] = "complete"
  <2>1. Batch(w) = <<Ev("ended", w)>>
    BY <1>2 DEF Batch
  <2> QED  BY <1>1, <1>2, <2>1 DEF Kinds, Places
<1>3. CASE pc[w] \in {"start", "call"}
  <2>1. \E type \in {"started", "called"} : Batch(w) = <<Ev("authz", w), Ev(type, w)>>
    BY <1>3 DEF Batch
  <2> QED  BY <1>1, <1>3, <2>1 DEF Kinds, Places
<1>4. CASE pc[w] = "stream"
  <2>1. \E e : Batch(w) = <<e>> /\ KindOf(e) = "user"
    BY <1>1, <1>4 DEF Batch
  <2>2. Kinds(w) = [i \in 1..1 |-> "user"]
    BY <2>1 DEF Kinds, Places
  <2> QED  BY <1>0, <1>4, <2>2
<1>5. CASE pc[w] = "record"
  <2> DEFINE m == Missing(w)
             n == Len(m) + 1
  <2>1. Batch(w) = Append(m, Report(w))
    BY <1>5 DEF Batch
  <2>2. /\ m \in Seq(Event) /\ Len(m) \in 0..Frames
        /\ \A i \in 1..Len(m) : \E k \in 1..Frames : m[i] = Sub(w, k)
    BY MissingIs DEF Places
  <2>6. Report(w) \in Event /\ KindOf(Report(w)) = "user"
    BY <1>0, <1>1 DEF Report, Ev, Event
  <2> HIDE DEF m
  <2>3. /\ Len(Batch(w)) = n /\ n \in 1..(Frames + 1)
        /\ \A i \in 1..Len(m) : Batch(w)[i] = m[i]
        /\ Batch(w)[n] = Report(w)
    BY <1>0, <2>1, <2>2, <2>6
  <2>4. \A i \in 1..n : KindOf(Batch(w)[i]) = "user"
    <3> TAKE i \in 1..n
    <3>1. i \in 1..Len(m) \/ i = n
      BY <2>2
    <3> QED  BY <1>1, <2>2, <2>3, <2>6, <3>1
  <2>5. Kinds(w) = [i \in 1..n |-> "user"]
    BY <2>3, <2>4 DEF Kinds, Places
  <2> QED  BY <1>5, <2>3, <2>5
<1> QED  BY <1>0, <1>2, <1>3, <1>4, <1>5 DEF PC, Writes

\* A commit appends the transaction's batch to what the readers see.
LEMMA CommitAppends ==
    ASSUME IInv, NEW w \in Worker, Commit(w)
    PROVE  Ledger' = Ledger \o Kinds(w)
<1> DEFINE b == Batch(w)
           k == Len(b)
           n == LastSeq
<1>1. /\ rows' = rows \cup NewRows(w) /\ n \in Nat /\ k \in Nat
      /\ LastSeq' = n + k /\ Dense' /\ Dense
  BY CommitIs, CommitDense, LedgerAssumption DEF IInv
<1>2. Ledger = LedgerOf(rows) /\ Ledger' = LedgerOf(rows')
  BY DEF Ledger, LedgerOf
<1>3. /\ DOMAIN Ledger = 1..n /\ Ledger = [i \in 1..n |-> Ledger[i]]
      /\ \A x \in rows : Ledger[x.seq] = KindOf(x.ev)
  BY <1>1, <1>2, RowsInPlace DEF Dense, LastSeq
<1>4. /\ DOMAIN Ledger' = 1..(n + k) /\ Ledger' = [i \in 1..(n + k) |-> Ledger'[i]]
      /\ \A x \in rows' : Ledger'[x.seq] = KindOf(x.ev)
  <2>1. /\ Cardinality(rows') = LastSeq'
        /\ \A x \in rows' : x.seq \in 1..LastSeq'
        /\ \A x, y \in rows' : x.seq = y.seq => x = y
    BY <1>1 DEF Dense, LastSeq
  <2>2. LastSeq' = n + k /\ n + k \in Nat
    BY <1>1
  <2> QED  BY <1>2, <2>1, <2>2, RowsInPlace
<1>5. /\ Kinds(w) = [i \in 1..k |-> KindOf(b[i])]
      /\ \A i \in 1..k : NewRow(w, i) \in rows' /\ NewRow(w, i).seq = n + i /\ NewRow(w, i).ev = b[i]
  BY <1>1 DEF Kinds, Places, NewRows, NewRow
<1> HIDE DEF b, k, n
<1>6. \A i \in 1..n : Ledger'[i] = Ledger[i]
  <2> TAKE i \in 1..n
  <2>1. PICK x \in rows : x.seq = i
    BY <1>1 DEF Dense, n
  <2> QED  BY <1>1, <1>3, <1>4, <2>1
<1>7. \A i \in 1..k : Ledger'[n + i] = KindOf(b[i])
  BY <1>4, <1>5
<1>8. DOMAIN (Ledger \o Kinds(w)) = 1..(n + k)
  BY <1>1, <1>3, <1>5
<1> DEFINE joined == [i \in 1..(n + k) |-> IF i <= n THEN Ledger[i] ELSE KindOf(b[i - n])]
<1>9. Ledger \o Kinds(w) = joined
  BY <1>1, <1>3, <1>5
<1>10. \A i \in 1..(n + k) : Ledger'[i] = joined[i]
  <2> TAKE i \in 1..(n + k)
  <2>1. CASE i <= n
    BY <1>1, <1>6, <2>1
  <2>2. CASE ~(i <= n)
    <3>1. i - n \in 1..k /\ n + (i - n) = i
      BY <1>1, <2>2
    <3> QED  BY <1>7, <2>2, <3>1
  <2> QED  BY <2>1, <2>2
<1> QED  BY <1>4, <1>9, <1>10

LEMMA InitMaps == Init => ReaderView!LogInit
<1> SUFFICES ASSUME Init  PROVE ReaderView!LogInit
  OBVIOUS
<1>1. Cardinality(rows) = 0
  BY FS_EmptySet DEF Init
<1>2. Ledger = <<>>
  BY <1>1 DEF Ledger
<1> QED  BY <1>2 DEF Init, ReaderView!LogInit

\* A commit is a step of the log; any other step changes nothing for its readers.
LEMMA StepMaps ==
    ASSUME IInv, [Next]_vars
    PROVE  [ReaderView!LogNext]_(ReaderView!logVars)
<1>1. ASSUME NEW w \in Worker, Commit(w)
      PROVE  ReaderView!LogNext
  <2>1. Ledger' = Ledger \o Kinds(w)
    BY <1>1, CommitAppends
  <2>2. Open(w) /\ Writes(w) /\ ended' = (ended \/ pc[w] = "complete")
    BY <1>1, CommitIs DEF Commit
  <2>3. CASE pc[w] = "complete"
    <3>1. Kinds(w) = <<"end">> /\ ~ended /\ ended'
      BY <2>2, <2>3, KindsAreBatches DEF IInv, TxInv
    <3>2. ended' = TRUE
      BY <2>2, <2>3
    <3> QED  BY <2>1, <3>1, <3>2 DEF ReaderView!LogNext, ReaderView!End, ReaderView!Append1
  <2>4. CASE pc[w] # "complete"
    <3>1. \/ Kinds(w) = <<"hidden", "user">>
          \/ \E n \in 1..(Frames + 1) : Kinds(w) = [i \in 1..n |-> "user"]
      BY <2>2, <2>4, KindsAreBatches DEF IInv
    <3>2. ended' = ended
      BY <2>2, <2>4 DEF IInv, TypeOK
    <3>3. ReaderView!Append1(Kinds(w))
      BY <2>1 DEF ReaderView!Append1
    <3> QED  BY <3>1, <3>2, <3>3 DEF ReaderView!LogNext, ReaderView!Write
  <2> QED  BY <2>3, <2>4
<1>2. ASSUME UNCHANGED <<rows, ended>>
      PROVE  UNCHANGED ReaderView!logVars
  BY <1>2 DEF ReaderView!logVars, Ledger
<1>3. CASE \E w \in Worker : Progress(w) /\ ~Commit(w)
  BY <1>2, <1>3 DEF Progress, Begin, SeesEnd, Insert, Conflict, DropFrame, ReturnTask
<1>4. CASE \E w \in Worker : Lose(w) \/ Abort(w)
  BY <1>2, <1>4 DEF Lose, Abort
<1>5. CASE UNCHANGED vars
  BY <1>2, <1>5 DEF vars
<1> QED  BY <1>1, <1>3, <1>4, <1>5 DEF Next, Progress

\* Readers that remember only the last sequence number miss nothing: locked or not,
\* the transactions of all workers only append, and the run ends once.
THEOREM Refinement == Spec => ImplementsRunLog
<1>1. IInv /\ [Next]_vars => [ReaderView!LogNext]_(ReaderView!logVars)
  BY StepMaps
<1> QED  BY InitMaps, Invariance, <1>1, PTL DEF Spec, ImplementsRunLog, ReaderView!LogSpec

-----------------------------------------------------------------------------
(* The calls in the ledger *)

OfCall  == {"called", "sub"} \cup Reports

\* What a worker has written of its call, by where it stands.
CallStands(w) ==
    /\ \A x \in rows : x.ev.by = w =>
          /\ x.ev.type \in OfCall => pc[w] \notin {"start", "call"}
          /\ x.ev.type \in Reports => pc[w] \in {"complete", "done"}
    /\ pc[w] \notin {"start", "call", "done"} =>
          \E x \in rows : x.ev.by = w /\ x.ev.type = "called"

\* A call is begun once and reported once, with its sub-events between.
CallInOrder(w) ==
    \A x, y \in rows : x.ev.by = w /\ y.ev.by = w =>
        /\ x.ev.type = "called" /\ y.ev.type = "called" => x = y
        /\ x.ev.type \in Reports /\ y.ev.type \in Reports => x = y
        /\ x.ev.type = "sub" /\ y.ev.type \in Reports => x.seq < y.seq

CallBegun(w) ==
    \A y \in rows : y.ev.by = w /\ y.ev.type \in {"sub"} \cup Reports =>
        \E x \in rows : x.ev.by = w /\ x.ev.type = "called" /\ x.seq < y.seq

\* Only a sub-event has a number.
CallTold(w) ==
    \A x \in rows : x.ev.by = w =>
        IF x.ev.type = "sub" THEN \E n \in 1..Frames : x.ev = Sub(w, n)
                             ELSE x.ev = Ev(x.ev.type, w)

CallInv(w) == CallStands(w) /\ CallInOrder(w) /\ CallBegun(w) /\ CallTold(w)

\* The types of what a worker writes, by where it stands.
LEMMA BatchTypes ==
    ASSUME IInv, NEW w \in Worker, Writes(w)
    PROVE  \A i \in Places(Batch(w)) :
              /\ Batch(w)[i].type = "called" => pc[w] = "call" /\ i = Len(Batch(w))
              /\ Batch(w)[i].type = "sub" => pc[w] \in {"stream", "record"}
              /\ Batch(w)[i].type \in Reports => pc[w] = "record" /\ i = Len(Batch(w))
              /\ IF Batch(w)[i].type = "sub" THEN \E n \in 1..Frames : Batch(w)[i] = Sub(w, n)
                                             ELSE Batch(w)[i] = Ev(Batch(w)[i].type, w)
<1> USE DEF Places, Reports
<1>1. Frames \in Nat /\ pc[w] \in PC
  BY LedgerAssumption DEF IInv, TypeOK
<1>2. pc[w] = "stream" => frame[w] \in 1..Frames
  BY <1>1 DEF IInv, TypeOK, Writes
<1>3. /\ \A type \in {"authz", "started", "called", "answered", "failed", "ended"} :
            Ev(type, w).type = type
      /\ \A n : Sub(w, n).type = "sub"
  BY DEF Ev, Sub
<1>4. CASE pc[w] = "start"
  <2>1. Batch(w) = <<Ev("authz", w), Ev("started", w)>>
    BY <1>4 DEF Batch
  <2> QED  BY <1>3, <2>1
<1>5. CASE pc[w] = "call"
  <2>1. Batch(w) = <<Ev("authz", w), Ev("called", w)>>
    BY <1>5 DEF Batch
  <2> QED  BY <1>3, <1>5, <2>1
<1>6. CASE pc[w] = "stream"
  <2>1. Batch(w) = <<Sub(w, frame[w])>>
    BY <1>6 DEF Batch
  <2> QED  BY <1>3, <1>6, <1>2, <2>1
<1>7. CASE pc[w] = "complete"
  <2>1. Batch(w) = <<Ev("ended", w)>>
    BY <1>7 DEF Batch
  <2> QED  BY <1>3, <2>1
<1>9. CASE pc[w] = "record"
  <2> DEFINE m == Missing(w)
  <2>1. Batch(w) = Append(m, Report(w))
    BY <1>9 DEF Batch
  <2>2. /\ m \in Seq(Event) /\ Len(m) \in Nat
        /\ \A i \in 1..Len(m) : \E n \in 1..Frames : m[i] = Sub(w, n)
    BY <1>1, MissingIs DEF IInv
  <2>3. /\ Report(w) \in Event /\ Report(w).type \in Reports
        /\ Report(w) = Ev(Report(w).type, w)
    BY <1>1, <1>3 DEF Report, Ev, Event
  <2> HIDE DEF m
  <2>4. Len(Batch(w)) = Len(m) + 1
    BY <2>1, <2>2, <2>3
  <2>5. \A i \in 1..Len(m) : Batch(w)[i] = m[i]
    BY <2>1, <2>2, <2>3
  <2>6. \A i \in 1..Len(m) : /\ Batch(w)[i].type = "sub"
                             /\ \E n \in 1..Frames : Batch(w)[i] = Sub(w, n)
    BY <1>3, <2>2, <2>5
  <2>7. Batch(w)[Len(m) + 1] = Report(w)
    BY <2>1, <2>2, <2>3
  <2>8. \A i \in 1..Len(Batch(w)) : i \in 1..Len(m) \/ i = Len(m) + 1
    BY <2>2, <2>4
  <2> QED  BY <1>9, <2>3, <2>4, <2>6, <2>7, <2>8
<1>10. pc[w] \in {"start", "call", "stream", "record", "complete"}
  BY <1>1 DEF PC, Writes
<1> QED  BY <1>4, <1>5, <1>6, <1>7, <1>9, <1>10

\* A committing worker's rows are its own, and none are of the other workers.
LEMMA CommitRows ==
    ASSUME IInv, NEW w \in Worker, Commit(w)
    PROVE  /\ rows \subseteq rows'
           /\ \A x \in rows : x.seq \in 1..LastSeq
           /\ \A x \in rows' : x \in rows \/ \E i \in Places(Batch(w)) :
                 /\ i \in Nat /\ LastSeq \in Nat
                 /\ x = NewRow(w, i) /\ x.seq = LastSeq + i /\ x.ev = Batch(w)[i]
                 /\ x.ev.by = w
<1>1. rows' = rows \cup NewRows(w) /\ Writes(w) /\ Len(Batch(w)) \in Nat /\ LastSeq \in Nat
  BY CommitIs, LedgerAssumption
<1>2. \A i \in Places(Batch(w)) : Batch(w)[i].by = w /\ i \in Nat
  BY <1>1, BatchIs DEF IInv, Places
<1>3. \A i \in Places(Batch(w)) : NewRow(w, i).seq = LastSeq + i /\ NewRow(w, i).ev = Batch(w)[i]
  BY DEF NewRow
<1>4. \A x \in rows : x.seq \in 1..LastSeq
  BY DEF IInv, Dense
<1> QED  BY <1>1, <1>2, <1>3, <1>4 DEF NewRows

\* What a worker writes of its call, it writes once and in its place.
LEMMA CommitCall ==
    ASSUME IInv, NEW w \in Worker, Commit(w), CallInv(w)
    PROVE  CallInv(w)'
<1>1. /\ rows \subseteq rows'
      /\ \A x \in rows : x.seq \in 1..LastSeq
      /\ \A x \in rows' : x \in rows \/ \E i \in Places(Batch(w)) :
            /\ i \in Nat /\ LastSeq \in Nat
            /\ x = NewRow(w, i) /\ x.seq = LastSeq + i /\ x.ev = Batch(w)[i]
            /\ x.ev.by = w
  BY CommitRows
<1>2. Writes(w) /\ LastSeq \in Nat /\ Len(Batch(w)) \in Nat /\ rows' = rows \cup NewRows(w)
  BY CommitIs, LedgerAssumption
<1>3. pc'[w] = CASE pc[w] = "start"  -> "call"
                 [] pc[w] = "call"   -> "stream"
                 [] pc[w] = "stream" -> "stream"
                 [] pc[w] = "record" -> "complete"
                 [] OTHER            -> "done"
  BY DEF Commit, IInv, TypeOK
<1>4. pc[w] \in {"start", "call", "stream", "record", "complete"}
  BY <1>2 DEF IInv, TypeOK, PC, Writes
<1>5. \A x \in rows' : x \notin rows /\ x.ev.by = w =>
         /\ x.seq > LastSeq
         /\ x.ev.type = "called" => pc[w] = "call" /\ x = NewRow(w, Len(Batch(w)))
         /\ x.ev.type = "sub" =>
               pc[w] \in {"stream", "record"} /\ x.seq <= LastSeq + Len(Batch(w))
         /\ x.ev.type \in Reports => pc[w] = "record" /\ x = NewRow(w, Len(Batch(w)))
  <2> SUFFICES ASSUME NEW x \in rows', x \notin rows
               PROVE  /\ x.seq > LastSeq
                      /\ x.ev.type = "called" => pc[w] = "call" /\ x = NewRow(w, Len(Batch(w)))
                      /\ x.ev.type = "sub" =>
                            pc[w] \in {"stream", "record"} /\ x.seq <= LastSeq + Len(Batch(w))
                      /\ x.ev.type \in Reports => pc[w] = "record" /\ x = NewRow(w, Len(Batch(w)))
    OBVIOUS
  <2>1. PICK i \in Places(Batch(w)) : x = NewRow(w, i) /\ x.seq = LastSeq + i /\ x.ev = Batch(w)[i]
    BY <1>1
  <2>2. i \in Nat /\ i > 0 /\ i <= Len(Batch(w))
    BY <1>2 DEF Places
  <2> QED  BY <1>2, <2>1, <2>2, BatchTypes
<1>6. CallStands(w)'
  <2>1. \A x \in rows' : x.ev.by = w =>
           /\ x.ev.type \in OfCall => pc'[w] \notin {"start", "call"}
           /\ x.ev.type \in Reports => pc'[w] \in {"complete", "done"}
    <3> SUFFICES ASSUME NEW x \in rows', x.ev.by = w, x.ev.type \in OfCall
                 PROVE  /\ pc'[w] \notin {"start", "call"}
                        /\ x.ev.type \in Reports => pc'[w] \in {"complete", "done"}
      BY DEF OfCall
    <3>1. CASE x \in rows
      BY <1>3, <1>4, <3>1 DEF CallInv, CallStands
    <3>2. CASE x \notin rows
      BY <1>3, <1>5, <3>2 DEF OfCall, Reports
    <3> QED  BY <3>1, <3>2
  <2>2. ASSUME pc'[w] \notin {"start", "call", "done"}
        PROVE  \E x \in rows' : x.ev.by = w /\ x.ev.type = "called"
    <3>1. CASE pc[w] \in {"stream", "record"}
      BY <1>1, <3>1 DEF CallInv, CallStands
    <3>2. CASE pc[w] = "call"
      <4>1. Batch(w) = <<Ev("authz", w), Ev("called", w)>>
        BY <3>2 DEF Batch
      <4>2. NewRow(w, 2) \in rows' /\ NewRow(w, 2).ev = Ev("called", w)
        BY <1>2, <4>1 DEF NewRows, NewRow, Places
      <4> QED  BY <4>2 DEF Ev
    <3> QED  BY <1>3, <1>4, <2>2, <3>1, <3>2
  <2> QED  BY <2>1, <2>2 DEF CallStands
<1>7. CallInOrder(w)'
  <2> SUFFICES ASSUME NEW x \in rows', NEW y \in rows', x.ev.by = w, y.ev.by = w
               PROVE  /\ x.ev.type = "called" /\ y.ev.type = "called" => x = y
                      /\ x.ev.type \in Reports /\ y.ev.type \in Reports => x = y
                      /\ x.ev.type = "sub" /\ y.ev.type \in Reports => x.seq < y.seq
    BY DEF CallInOrder
  <2>1. \A z \in rows : z.ev.by = w =>
           /\ z.ev.type = "called" => pc[w] # "call"
           /\ z.ev.type \in Reports => pc[w] # "record" /\ pc[w] # "stream"
    BY DEF CallInv, CallStands, OfCall
  <2>2. ASSUME x.ev.type = "called", y.ev.type = "called"  PROVE x = y
    BY <1>5, <2>1, <2>2 DEF CallInv, CallInOrder
  <2>3. ASSUME x.ev.type \in Reports, y.ev.type \in Reports  PROVE x = y
    BY <1>5, <2>1, <2>3 DEF CallInv, CallInOrder
  <2>4. ASSUME x.ev.type = "sub", y.ev.type \in Reports  PROVE x.seq < y.seq
    <3>1. CASE x \in rows /\ y \in rows
      BY <2>4, <3>1 DEF CallInv, CallInOrder
    <3>2. CASE x \in rows /\ y \notin rows
      <4>1. x.seq \in 1..LastSeq /\ y.seq > LastSeq
        BY <1>1, <1>5, <3>2
      <4>2. \E i \in Nat : y.seq = LastSeq + i
        BY <1>1, <3>2
      <4> QED  BY <1>2, <4>1, <4>2
    <3>3. CASE x \notin rows /\ y \in rows
      BY <1>5, <2>1, <2>4, <3>3
    <3>4. CASE x \notin rows /\ y \notin rows
      <4>1. y.seq = LastSeq + Len(Batch(w)) /\ x # y
        BY <1>5, <2>4, <3>4 DEF NewRow, Reports
      <4>2. x.seq <= LastSeq + Len(Batch(w))
        BY <1>5, <2>4, <3>4
      <4>3. x.seq # y.seq
        BY <4>1, CommitDense DEF Dense
      <4>4. \E i \in Nat : x.seq = LastSeq + i
        BY <1>1, <3>4
      <4> QED  BY <1>2, <4>1, <4>2, <4>3, <4>4
    <3> QED  BY <3>1, <3>2, <3>3, <3>4
  <2> QED  BY <2>2, <2>3, <2>4
<1>8. CallBegun(w)'
  <2> SUFFICES ASSUME NEW y \in rows', y.ev.by = w, y.ev.type \in {"sub"} \cup Reports
               PROVE  \E x \in rows' : x.ev.by = w /\ x.ev.type = "called" /\ x.seq < y.seq
    BY DEF CallBegun
  <2>1. CASE y \in rows
    BY <1>1, <2>1 DEF CallInv, CallBegun
  <2>2. CASE y \notin rows
    <3>1. pc[w] \in {"stream", "record"} /\ \E i \in Nat : y.seq = LastSeq + i /\ y.seq > LastSeq
      BY <1>1, <1>5, <2>2 DEF Reports
    <3>2. PICK x \in rows : x.ev.by = w /\ x.ev.type = "called"
      BY <3>1 DEF CallInv, CallStands
    <3>3. x.seq \in 1..LastSeq
      BY <1>1
    <3> QED  BY <1>1, <1>2, <3>1, <3>2, <3>3
  <2> QED  BY <2>1, <2>2
<1>9. CallTold(w)'
  <2> SUFFICES ASSUME NEW x \in rows', x.ev.by = w
               PROVE  IF x.ev.type = "sub" THEN \E n \in 1..Frames : x.ev = Sub(w, n)
                                           ELSE x.ev = Ev(x.ev.type, w)
    BY DEF CallTold, Sub, Ev
  <2>1. CASE x \in rows
    BY <2>1 DEF CallInv, CallTold
  <2>2. CASE x \notin rows
    BY <1>1, <1>2, <2>2, BatchTypes
  <2> QED  BY <2>1, <2>2
<1> QED  BY <1>6, <1>7, <1>8, <1>9 DEF CallInv

CallsInv == \A w \in Worker : CallInv(w)

\* Every step keeps the calls in their order, whoever takes it.
LEMMA CallsKept == IInv /\ CallsInv /\ [Next]_vars => CallsInv'
<1> SUFFICES ASSUME IInv, CallsInv, [Next]_vars, NEW v \in Worker  PROVE CallInv(v)'
  BY DEF CallsInv
<1>1. CallInv(v)
  BY DEF CallsInv
<1>2. ASSUME rows' = rows,
             pc'[v] = pc[v] \/ pc'[v] = "done" \/ (pc[v] = "stream" /\ pc'[v] = "record")
      PROVE  CallInv(v)'
  BY <1>1, <1>2 DEF CallInv, CallStands, CallInOrder, CallBegun, CallTold, OfCall, Reports, Ev, Sub
<1>3. ASSUME NEW w \in Worker, Commit(w)  PROVE CallInv(v)'
  <2>1. CASE w = v
    BY <1>1, <1>3, <2>1, CommitCall
  <2>2. CASE w # v
    <3>1. pc'[v] = pc[v] /\ rows \subseteq rows' /\ \A x \in rows' : x.ev.by = v => x \in rows
      BY <1>3, <2>2, CommitRows DEF Commit, IInv, TypeOK
    <3> QED  BY <1>1, <3>1 DEF CallInv, CallStands, CallInOrder, CallBegun, CallTold, Ev, Sub
  <2> QED  BY <2>1, <2>2
<1>4. ASSUME NEW w \in Worker, Progress(w) \/ Lose(w) \/ Abort(w), ~Commit(w)  PROVE CallInv(v)'
  <2>1. rows' = rows
    BY <1>4 DEF Progress, Begin, SeesEnd, Insert, Conflict, DropFrame, ReturnTask, Lose, Abort
  <2>2. pc'[v] = pc[v] \/ pc'[v] = "done" \/ (pc[v] = "stream" /\ pc'[v] = "record")
    BY <1>4 DEF IInv, TypeOK, Progress, Begin, SeesEnd, Insert, Conflict, DropFrame, ReturnTask,
                Lose, Abort, Raise
  <2> QED  BY <1>2, <2>1, <2>2
<1>5. CASE UNCHANGED vars
  BY <1>2, <1>5 DEF vars
<1> QED  BY <1>3, <1>4, <1>5 DEF Next

\* An empty ledger holds no call.
LEMMA InitCalls == Init => CallsInv
BY DEF Init, CallsInv, CallInv, CallStands, CallInOrder, CallBegun, CallTold

\* However the transactions of the workers interleave, a worker's call is begun once,
\* reported at most once, and its sub-events lie between (graph.py).
THEOREM CallsInvariance == Spec => []CallsInv
<1>1. IInv /\ CallsInv /\ [Next]_vars => CallsInv'
  BY CallsKept
<1> QED  BY <1>1, InitCalls, Invariance, PTL DEF Spec

-----------------------------------------------------------------------------
(* What the browser makes of a row *)

ShownCall == [by : Worker, status : {"running", "completed", "failed"},
              steps : Seq({"running", "completed"})]

\* A view that the rows may give: a call that is open is there.
View == {v \in [lifecycle : Seq(Event), calls : Seq(ShownCall), open : BOOLEAN, running : Nat] :
            v.open => Len(v.calls) > 0}

\* All that is shown of calls stays.
SameCalls(v, u) == u.calls = v.calls /\ u.open = v.open /\ u.running = v.running

\* One call more is shown, and those that were are as they were.
Added(v, u, call) ==
    /\ Len(u.calls) = Len(v.calls) + 1
    /\ \A i \in 1..Len(v.calls) : u.calls[i] = v.calls[i]
    /\ u.calls[Len(v.calls) + 1] = call

\* The last call is another now.
Changed(v, u, call) ==
    /\ Len(u.calls) = Len(v.calls)
    /\ \A i \in 1..Len(v.calls) : i # Len(v.calls) => u.calls[i] = v.calls[i]
    /\ u.calls[Len(v.calls)] = call

\* A lifecycle line leaves what is shown of calls alone.
LEMMA PushIs ==
    ASSUME NEW v \in View, NEW e \in Event, NEW d \in BOOLEAN
    PROVE  PushLifecycle(v, e, d) \in View /\ SameCalls(v, PushLifecycle(v, e, d))
<1>1. Append(v.lifecycle, e) \in Seq(Event)
  BY DEF View
<1> QED  BY <1>1 DEF PushLifecycle, View, SameCalls

\* A start is a call more, and it is open.
LEMMA StartIs ==
    ASSUME NEW v \in View, NEW e \in Event
    PROVE  LET u == CallStarted(v, e) IN
           /\ u \in View /\ u.open /\ u.running = 0
           /\ Added(v, u, [by |-> e.by, status |-> "running", steps |-> <<>>])
<1> DEFINE u == CallStarted(v, e)
           call == [by |-> e.by, status |-> "running", steps |-> <<>>]
<1>1. v.calls \in Seq(ShownCall) /\ v.lifecycle \in Seq(Event)
  BY DEF View
<1>2. call \in ShownCall
  BY DEF ShownCall, Event
<1>3. u = [v EXCEPT !.calls = Append(v.calls, call), !.open = TRUE, !.running = 0]
  BY DEF CallStarted
<1> HIDE DEF call, u
<1>4. u = [lifecycle |-> v.lifecycle, calls |-> Append(v.calls, call), open |-> TRUE, running |-> 0]
  BY <1>3 DEF View
<1>5. /\ Append(v.calls, call) \in Seq(ShownCall)
      /\ Len(Append(v.calls, call)) = Len(v.calls) + 1 /\ Len(v.calls) \in Nat
  BY <1>1, <1>2
<1>6. u \in View
  BY <1>1, <1>5, <1>4 DEF View
<1>7. Added(v, u, call)
  BY <1>1, <1>2, <1>4 DEF Added
<1> QED  BY <1>6, <1>7, <1>4 DEF u, call

\* The last call of a view, with another in its place.
LEMMA PutLast ==
    ASSUME NEW v \in View, v.open, NEW call \in ShownCall,
           NEW u, u.calls = [v.calls EXCEPT ![Len(v.calls)] = call]
    PROVE  /\ Len(v.calls) \in 1..Len(v.calls) /\ v.calls[Len(v.calls)] \in ShownCall
           /\ u.calls \in Seq(ShownCall) /\ Len(u.calls) > 0
           /\ Changed(v, u, call)
<1>1. v.calls \in Seq(ShownCall) /\ Len(v.calls) \in Nat /\ Len(v.calls) > 0
  BY DEF View
<1> QED  BY <1>1 DEF Changed

\* A report ends the open call; with none open it is a call of its own.
LEMMA EndIs ==
    ASSUME NEW v \in View, NEW e \in Event
    PROVE  LET u == CallEnded(v, e)
               last == v.calls[Len(v.calls)]
           IN  /\ u \in View /\ ~u.open
               /\ v.open =>
                     Changed(v, u, [by |-> last.by, status |-> TerminalStatus(e), steps |-> last.steps])
               /\ ~v.open =>
                     Added(v, u, [by |-> e.by, status |-> TerminalStatus(e), steps |-> <<>>])
<1> DEFINE u == CallEnded(v, e)
           n == Len(v.calls)
           last == v.calls[n]
           told == [by |-> last.by, status |-> TerminalStatus(e), steps |-> last.steps]
           call == [by |-> e.by, status |-> TerminalStatus(e), steps |-> <<>>]
<1>1. v.calls \in Seq(ShownCall) /\ v.lifecycle \in Seq(Event) /\ v.running \in Nat /\ n \in Nat
  BY DEF View
<1>2. TerminalStatus(e) \in {"completed", "failed"}
  BY DEF TerminalStatus
<1>3. CASE v.open
  <2>1. last \in ShownCall
    BY <1>1, <1>3 DEF View
  <2>2. told \in ShownCall /\ [last EXCEPT !.status = TerminalStatus(e)] = told
    BY <1>2, <2>1 DEF ShownCall
  <2>3. u = [v EXCEPT !.calls = [v.calls EXCEPT ![n] = [last EXCEPT !.status = TerminalStatus(e)]], !.open = FALSE]
    BY <1>3 DEF CallEnded, LastCall
  <2> HIDE DEF told, u, last
  <2>4. u = [lifecycle |-> v.lifecycle, calls |-> [v.calls EXCEPT ![n] = told], open |-> FALSE, running |-> v.running]
    BY <2>2, <2>3 DEF View
  <2>5. u.calls \in Seq(ShownCall) /\ Changed(v, u, told)
    BY <1>3, <2>2, <2>4, PutLast
  <2>6. u \in View
    BY <1>1, <2>4, <2>5 DEF View
  <2> QED  BY <1>3, <2>4, <2>5, <2>6 DEF told, u, last
<1>4. CASE ~v.open
  <2>1. call \in ShownCall
    BY <1>2 DEF ShownCall, Event
  <2>2. u = [v EXCEPT !.calls = Append(v.calls, call)]
    BY <1>4 DEF CallEnded
  <2> HIDE DEF call, u
  <2>3. u = [lifecycle |-> v.lifecycle, calls |-> Append(v.calls, call), open |-> FALSE, running |-> v.running]
    BY <1>4, <2>2 DEF View
  <2>4. u \in View
    BY <1>1, <2>1, <2>3 DEF View
  <2>5. Added(v, u, call)
    BY <1>1, <2>1, <2>3 DEF Added
  <2> QED  BY <1>4, <2>3, <2>4, <2>5 DEF call, u
<1> QED  BY <1>3, <1>4

\* A sub-event changes the steps of the open call and nothing else of it.
SubstepsOf(v, e) ==
    LET steps == v.calls[Len(v.calls)].steps
    IN  IF SubstepStatus(e) = "completed" /\ v.running # 0
        THEN [steps EXCEPT ![v.running] = "completed"]
        ELSE Append(steps, SubstepStatus(e))

\* A sub-event is a step of the open call, which stays open.
LEMMA SubstepIs ==
    ASSUME NEW v \in View, v.open, NEW e \in Event
    PROVE  LET u == AddSubstep(v, e)
               last == v.calls[Len(v.calls)]
           IN  /\ u \in View /\ u.open
               /\ Changed(v, u, [by |-> last.by, status |-> last.status, steps |-> SubstepsOf(v, e)])
               /\ u.running = IF SubstepStatus(e) = "running" THEN Len(last.steps) + 1 ELSE 0
<1> DEFINE u == AddSubstep(v, e)
           n == Len(v.calls)
           last == v.calls[n]
           call == [by |-> last.by, status |-> last.status, steps |-> SubstepsOf(v, e)]
           run == IF SubstepStatus(e) = "running" THEN Len(last.steps) + 1 ELSE 0
<1>1. /\ v.calls \in Seq(ShownCall) /\ v.lifecycle \in Seq(Event) /\ v.running \in Nat /\ n \in Nat
      /\ last \in ShownCall
  BY DEF View
<1>2. /\ last.steps \in Seq({"running", "completed"}) /\ Len(last.steps) \in Nat
      /\ last.by \in Worker /\ last.status \in {"running", "completed", "failed"}
      /\ \A s : [last EXCEPT !.steps = s] = [by |-> last.by, status |-> last.status, steps |-> s]
  BY <1>1 DEF ShownCall
<1>3. SubstepStatus(e) \in {"running", "completed"}
  BY DEF SubstepStatus
<1>4. SubstepsOf(v, e) \in Seq({"running", "completed"})
  BY <1>1, <1>2, <1>3 DEF SubstepsOf
<1>5. call \in ShownCall
  BY <1>2, <1>4 DEF ShownCall
<1>6. u = [v EXCEPT !.calls = [v.calls EXCEPT ![n] = [last EXCEPT !.steps = SubstepsOf(v, e)]], !.running = run]
  <2>1. CASE SubstepStatus(e) = "running"
    BY <2>1 DEF AddSubstep, LastCall, SubstepsOf
  <2>2. CASE SubstepStatus(e) = "completed" /\ v.running # 0
    BY <2>2 DEF AddSubstep, LastCall, SubstepsOf
  <2>3. CASE SubstepStatus(e) = "completed" /\ v.running = 0
    BY <2>3 DEF AddSubstep, LastCall, SubstepsOf, View
  <2> QED  BY <1>3, <2>1, <2>2, <2>3
<1>7. run \in Nat
  BY <1>2
<1> HIDE DEF u, run, last
<1>8. [last EXCEPT !.steps = SubstepsOf(v, e)] = call
  BY <1>2
<1> HIDE DEF call
<1>9. u = [lifecycle |-> v.lifecycle, calls |-> [v.calls EXCEPT ![n] = call], open |-> v.open, running |-> run]
  BY <1>6, <1>8 DEF View
<1>10. u.calls \in Seq(ShownCall) /\ Len(u.calls) > 0 /\ Changed(v, u, call)
  BY <1>5, <1>9, PutLast
<1>11. u \in View
  BY <1>1, <1>7, <1>9, <1>10 DEF View
<1> QED  BY <1>9, <1>10, <1>11 DEF u, run, last, call

\* What a row does to the view. The rows that are not given would not have changed
\* its calls.
LEMMA AddRowIs ==
    ASSUME NEW v \in View, NEW n, EventAt(n) \in Event, NEW d \in BOOLEAN
    PROVE  LET e    == EventAt(n)
               u    == AddRow(v, n, d)
               last == v.calls[Len(v.calls)]
           IN  /\ u \in View
               /\ e.type \in {"authz", "started", "ended"} => SameCalls(v, u)
               /\ e.type = "sub" /\ ~v.open => SameCalls(v, u)
               /\ e.type = "sub" /\ v.open =>
                     /\ u.open
                     /\ Changed(v, u, [by |-> last.by, status |-> last.status, steps |-> SubstepsOf(v, e)])
                     /\ u.running = IF SubstepStatus(e) = "running" THEN Len(last.steps) + 1 ELSE 0
               /\ e.type = "called" =>
                     /\ u.open /\ u.running = 0
                     /\ Added(v, u, [by |-> e.by, status |-> "running", steps |-> <<>>])
               /\ e.type \in Reports =>
                     /\ ~u.open
                     /\ v.open =>
                           Changed(v, u, [by |-> last.by, status |-> TerminalStatus(e), steps |-> last.steps])
                     /\ ~v.open =>
                           Added(v, u, [by |-> e.by, status |-> TerminalStatus(e), steps |-> <<>>])
<1> DEFINE e == EventAt(n)
           u == AddRow(v, n, d)
<1>1. e.type \in {"authz", "started", "called", "sub", "answered", "failed", "ended"}
  BY DEF Event
<1>2. u = IF d \/ KindOf(e) # "hidden" THEN ViewEvent(v, e, d) ELSE v
  BY DEF AddRow, TraceRow
<1>3. e \in Event
  OBVIOUS
<1> HIDE DEF e, u
<1>4. CASE e.type \in {"authz", "started", "ended"}
  <2>1. u = PushLifecycle(v, e, d) \/ u = v
    BY <1>2, <1>4 DEF ViewEvent, IsAgentInternal
  <2>2. u \in View /\ SameCalls(v, u)
    BY <1>3, <2>1, PushIs DEF SameCalls
  <2> QED  BY <1>4, <2>2 DEF e, u, Reports
<1>5. ASSUME e.type \notin {"authz", "started", "ended"}  PROVE u = ViewEvent(v, e, d)
  BY <1>1, <1>2, <1>5 DEF KindOf
<1>6. CASE e.type = "sub" /\ ~v.open
  <2>1. u = PushLifecycle(v, e, d)
    BY <1>5, <1>6 DEF ViewEvent, IsAgentInternal
  <2> QED  BY <1>3, <1>6, <2>1, PushIs DEF e, u, Reports
<1>7. CASE e.type = "sub" /\ v.open
  <2>1. u = AddSubstep(v, e)
    BY <1>5, <1>7 DEF ViewEvent, IsAgentInternal
  <2> QED  BY <1>3, <1>7, <2>1, SubstepIs DEF e, u, Reports
<1>8. CASE e.type = "called"
  <2>1. u = CallStarted(v, e)
    BY <1>5, <1>8 DEF ViewEvent, IsAgentInternal
  <2> QED  BY <1>3, <1>8, <2>1, StartIs DEF e, u, Reports
<1>9. CASE e.type \in Reports
  <2>1. u = CallEnded(v, e)
    BY <1>5, <1>9 DEF ViewEvent, IsAgentInternal, Reports
  <2> QED  BY <1>3, <1>9, <2>1, EndIs DEF e, u, Reports
<1> QED  BY <1>1, <1>4, <1>6, <1>7, <1>8, <1>9 DEF Reports

-----------------------------------------------------------------------------
(* The view of the rows up to a number *)

\* Numbers up to a bound have a least one.
LEMMA LeastNumber ==
    ASSUME NEW n \in Nat, NEW B \in SUBSET (0..n), B # {}
    PROVE  \E m \in B : \A k \in B : m <= k
<1> DEFINE Below(k) == 0..k
           T == {Below(k) : k \in B}
           S == 0..n
<1>1. IsFiniteSet(S)
  BY FS_Interval
<1>2. T \subseteq FiniteSubsetsOf(S) /\ T # {}
  <2>1. ASSUME NEW k \in B  PROVE Below(k) \in FiniteSubsetsOf(S)
    <3>1. Below(k) \subseteq S
      OBVIOUS
    <3>2. IsFiniteSet(Below(k))
      BY <1>1, <3>1, FS_Subset
    <3> QED  BY <3>1, <3>2 DEF FiniteSubsetsOf
  <2> QED  BY <2>1
<1>3. IsWellFoundedOn(StrictSubsetOrdering(S), FiniteSubsetsOf(S))
  BY FS_StrictSubsetOrderingWellFounded
<1>4. PICK x \in T : \A y \in T : ~ (<<y, x>> \in StrictSubsetOrdering(S))
  <2> HIDE DEF T, S
  <2> QED  BY <1>2, <1>3, WFMin
<1>5. PICK m \in B : x = Below(m)
  BY <1>4
<1>6. ASSUME NEW k \in B, k < m  PROVE FALSE
  <2>1. Below(k) \in T /\ Below(k) \subseteq Below(m) /\ m \in Below(m) /\ m \notin Below(k)
    BY <1>6
  <2>2. Below(k) # Below(m)
    BY <2>1
  <2>3. <<Below(k), Below(m)>> \in StrictSubsetOrdering(S)
    BY <2>1, <2>2 DEF StrictSubsetOrdering
  <2> QED  BY <1>4, <1>5, <2>1, <2>3
<1> QED  BY <1>6

\* A set of numbers that holds the first one and each next one holds them all.
LEMMA Upwards ==
    ASSUME NEW n \in Nat, NEW S, 0 \in S, \A k \in 0..n : k \in S /\ k < n => k + 1 \in S
    PROVE  \A k \in 0..n : k \in S
<1> DEFINE B == {k \in 0..n : k \notin S}
<1> SUFFICES ASSUME B # {}  PROVE FALSE
  OBVIOUS
<1>1. PICK m \in B : \A k \in B : m <= k
  <2>1. B \in SUBSET (0..n)
    OBVIOUS
  <2> HIDE DEF B
  <2> QED  BY <2>1, LeastNumber
<1>2. m # 0 /\ m \in 0..n /\ m \notin S
  BY <1>1
<1>3. m - 1 \in 0..n /\ m - 1 < n /\ m - 1 < m
  BY <1>2
<1>4. m - 1 \in S
  BY <1>1, <1>2, <1>3
<1> QED  BY <1>2, <1>3, <1>4

\* The fold over the rows has a solution.
LEMMA ViewExists ==
    ASSUME NEW n \in Nat, NEW d
    PROVE  \E f : f = [k \in 0..n |-> IF k = 0 THEN NoView ELSE AddRow(f[k - 1], k, d)]
<1> DEFINE Solves(f, m) == f = [k \in 0..m |-> IF k = 0 THEN NoView ELSE AddRow(f[k - 1], k, d)]
           S == {m \in 0..n : \E f : Solves(f, m)}
<1>1. 0 \in S
  <2>1. Solves([k \in 0..0 |-> NoView], 0) /\ 0 \in 0..n
    OBVIOUS
  <2> HIDE DEF Solves
  <2> QED  BY <2>1
<1>2. ASSUME NEW m \in 0..n, m \in S, m < n  PROVE m + 1 \in S
  <2>1. PICK g : Solves(g, m)
    BY <1>2
  <2> DEFINE f == [k \in 0..(m + 1) |-> IF k = m + 1 THEN AddRow(g[m], m + 1, d) ELSE g[k]]
  <2>2. m \in Nat /\ m + 1 \in 0..n /\ m + 1 # 0 /\ m + 1 - 1 = m
    BY <1>2
  <2>3. \A k \in 0..m : g[k] = IF k = 0 THEN NoView ELSE AddRow(g[k - 1], k, d)
    BY <2>1
  <2>4. \A k \in 0..m : f[k] = g[k] /\ k \in 0..(m + 1) /\ k # m + 1
    BY <2>2
  <2>5. f[m + 1] = AddRow(g[m], m + 1, d)
    BY <2>2
  <2>6. f = [k \in 0..(m + 1) |-> f[k]]
    OBVIOUS
  <2> HIDE DEF f
  <2>7. \A k \in 0..(m + 1) : f[k] = IF k = 0 THEN NoView ELSE AddRow(f[k - 1], k, d)
    <3> TAKE k \in 0..(m + 1)
    <3>1. CASE k = m + 1
      <4>1. m \in 0..m
        BY <2>2
      <4>2. f[m] = g[m]
        BY <2>4, <4>1
      <4> QED  BY <2>2, <2>5, <3>1, <4>2
    <3>2. CASE k = 0
      <4>1. 0 \in 0..m
        BY <2>2
      <4> QED  BY <2>3, <2>4, <3>2, <4>1
    <3>3. CASE k # 0 /\ k # m + 1
      <4>1. k \in 0..m /\ k - 1 \in 0..m
        BY <2>2, <3>3
      <4>2. f[k] = g[k] /\ f[k - 1] = g[k - 1]
        BY <2>4, <4>1
      <4> QED  BY <2>3, <3>3, <4>1, <4>2
    <3> QED  BY <3>1, <3>2, <3>3
  <2>8. Solves(f, m + 1)
    BY <2>6, <2>7
  <2> QED  BY <2>2, <2>8
<1>3. n \in S
  <2> HIDE DEF S
  <2>1. \A k \in 0..n : k \in S
    BY <1>1, <1>2, Upwards
  <2> QED  BY <2>1
<1> QED  BY <1>3

\* Each view is made of the one before, and all are views.
LEMMA ViewsAre ==
    ASSUME LastSeq \in Nat, \A n \in 1..LastSeq : EventAt(n) \in Event, NEW d \in BOOLEAN
    PROVE  LET V == ViewUpTo(d) IN
           /\ V[0] = NoView
           /\ \A n \in 1..LastSeq : V[n] = AddRow(V[n - 1], n, d)
           /\ \A n \in 0..LastSeq : V[n] \in View
<1> DEFINE V == ViewUpTo(d)
           Solves(f) == f = [k \in 0..LastSeq |-> IF k = 0 THEN NoView ELSE AddRow(f[k - 1], k, d)]
<1>1. \E f : Solves(f)
  BY ViewExists
<1>2. V = CHOOSE f : Solves(f)
  BY DEF ViewUpTo
<1>3. V = [k \in 0..LastSeq |-> IF k = 0 THEN NoView ELSE AddRow(V[k - 1], k, d)]
  <2>1. Solves(V)
    <3> HIDE DEF Solves, V
    <3> QED  BY <1>1, <1>2
  <2> QED  BY <2>1
<1> HIDE DEF V
<1>4. V[0] = NoView
  <2>1. 0 \in 0..LastSeq
    OBVIOUS
  <2> QED  BY <1>3, <2>1
<1>5. \A n \in 1..LastSeq : V[n] = AddRow(V[n - 1], n, d)
  <2> TAKE n \in 1..LastSeq
  <2>1. n \in 0..LastSeq /\ n # 0
    OBVIOUS
  <2> QED  BY <1>3, <2>1
<1>6. \A n \in 0..LastSeq : V[n] \in View
  <2> DEFINE S == {n \in 0..LastSeq : V[n] \in View}
  <2>1. 0 \in S
    <3>1. NoView \in View
      BY DEF NoView, View
    <3> QED  BY <1>4, <3>1
  <2>2. ASSUME NEW n \in 0..LastSeq, n \in S, n < LastSeq  PROVE n + 1 \in S
    <3>1. n + 1 \in 1..LastSeq /\ n + 1 \in 0..LastSeq /\ n + 1 - 1 = n
      BY <2>2
    <3>2. V[n] \in View
      BY <2>2
    <3>3. V[n + 1] = AddRow(V[n], n + 1, d)
      BY <1>5, <3>1
    <3>4. EventAt(n + 1) \in Event
      BY <3>1
    <3> QED  BY <3>1, <3>2, <3>3, <3>4, AddRowIs
  <2>3. \A n \in 0..LastSeq : n \in S
    <3> HIDE DEF S
    <3> QED  BY <2>1, <2>2, Upwards
  <2> QED  BY <2>3
<1> QED  BY <1>4, <1>5, <1>6 DEF V

-----------------------------------------------------------------------------
(* Where a call is in the ledger *)

\* The event at each number is that of the one row with it.
LEMMA EventsAre ==
    ASSUME IInv
    PROVE  /\ LastSeq \in Nat
           /\ \A x \in rows : x.seq \in 1..LastSeq /\ EventAt(x.seq) = x.ev
           /\ \A n \in 1..LastSeq : EventAt(n) \in Event /\ \E x \in rows : x.seq = n /\ x.ev = EventAt(n)
<1>1. LastSeq \in Nat
  BY FS_CardinalityType DEF LastSeq, IInv, Dense
<1>2. ASSUME NEW x \in rows  PROVE x.seq \in 1..LastSeq /\ EventAt(x.seq) = x.ev /\ x.ev \in Event
  <2>1. \A y \in rows : y.seq = x.seq => y = x
    BY DEF IInv, Dense
  <2>2. (CHOOSE row \in rows : row.seq = x.seq) = x
    BY <2>1
  <2> QED  BY <2>2 DEF EventAt, IInv, Dense, TypeOK, Row
<1>3. \A n \in 1..LastSeq : \E x \in rows : x.seq = n
  BY DEF IInv, Dense
<1> QED  BY <1>1, <1>2, <1>3

\* A reported call has its start at a and its report at z, its own sub-events between
\* and nobody else's.
CallAt(w, a, z) ==
    /\ a \in 1..LastSeq /\ z \in 1..LastSeq /\ a < z
    /\ EventAt(a) = Ev("called", w)
    /\ EventAt(z).by = w /\ EventAt(z).type \in Reports
    /\ TerminalStatus(EventAt(z)) = OutcomeOf(w)
    /\ \A n \in 1..LastSeq :
          /\ EventAt(n).by = w =>
                /\ EventAt(n).type = "called" => n = a
                /\ EventAt(n).type \in Reports => n = z
                /\ EventAt(n).type = "sub" => a < n /\ n < z
          /\ EventAt(n).by # w /\ a <= n /\ n <= z => EventAt(n).type \in {"authz", "started", "ended"}

\* A call that no other falls into has its start, its sub-events and its report.
LEMMA AloneIsAt ==
    ASSUME IInv, CallsInv, NEW w \in Worker, Alone(w)
    PROVE  \E a, z \in 1..LastSeq : CallAt(w, a, z)
<1>1. CallInOrder(w) /\ CallBegun(w) /\ CallTold(w)
  BY DEF CallsInv, CallInv
<1>2. PICK x \in rows, y \in rows :
         /\ x.ev = Ev("called", w)
         /\ y.ev = Ev("answered", w) \/ y.ev = Ev("failed", w)
         /\ \A row \in rows : row.seq \in x.seq..y.seq /\ row.ev.by # w
               => row.ev.type \in {"authz", "started", "ended"}
  BY DEF Alone, NumbersOf
<1> DEFINE a == x.seq
           z == y.seq
<1>3. /\ a \in 1..LastSeq /\ z \in 1..LastSeq /\ EventAt(a) = x.ev /\ EventAt(z) = y.ev
      /\ x.ev.by = w /\ x.ev.type = "called"
      /\ y.ev.by = w /\ y.ev.type \in Reports
  BY <1>2, EventsAre DEF Ev, Reports
<1>4. a < z
  BY <1>1, <1>3 DEF CallBegun, CallInOrder
<1>5. ASSUME NEW n \in 1..LastSeq
      PROVE  /\ EventAt(n).by = w =>
                  /\ EventAt(n).type = "called" => n = a
                  /\ EventAt(n).type \in Reports => n = z
                  /\ EventAt(n).type = "sub" => a < n /\ n < z
             /\ EventAt(n).by # w /\ a <= n /\ n <= z => EventAt(n).type \in {"authz", "started", "ended"}
  <2>1. PICK t \in rows : t.seq = n /\ t.ev = EventAt(n)
    BY EventsAre
  <2>2. t.ev.by = w /\ t.ev.type = "called" => t = x
    BY <1>1, <1>3 DEF CallInOrder
  <2>3. t.ev.by = w /\ t.ev.type \in Reports => t = y
    BY <1>1, <1>3 DEF CallInOrder
  <2>4. t.ev.by = w /\ t.ev.type = "sub" => t.seq < y.seq
    BY <1>1, <1>3 DEF CallInOrder
  <2>5. t.ev.by = w /\ t.ev.type = "sub" => x.seq < t.seq
    BY <1>1, <1>3 DEF CallInOrder, CallBegun
  <2>6. t.ev.by # w /\ a <= n /\ n <= z => t.ev.type \in {"authz", "started", "ended"}
    BY <1>2, <1>3, <2>1, EventsAre
  <2> QED  BY <2>1, <2>2, <2>3, <2>4, <2>5, <2>6
<1>6. TerminalStatus(EventAt(z)) = OutcomeOf(w)
  <2>1. CASE y.ev = Ev("answered", w)
    BY <1>3, <2>1 DEF TerminalStatus, OutcomeOf, NumbersOf, Ev
  <2>2. CASE y.ev = Ev("failed", w)
    <3>1. \A t \in rows : t.ev # Ev("answered", w)
      <4> SUFFICES ASSUME NEW t \in rows, t.ev = Ev("answered", w)  PROVE FALSE
        OBVIOUS
      <4>1. t.ev.by = w /\ t.ev.type = "answered"
        BY DEF Ev
      <4>2. t = y
        BY <1>1, <1>3, <4>1 DEF CallInOrder, Reports
      <4> QED  BY <2>2, <4>1, <4>2 DEF Ev
    <3> QED  BY <1>3, <2>2, <3>1 DEF TerminalStatus, OutcomeOf, NumbersOf, Ev
  <2> QED  BY <1>2, <2>1, <2>2
<1> HIDE DEF a, z
<1> QED  BY <1>2, <1>3, <1>4, <1>5, <1>6 DEF CallAt

-----------------------------------------------------------------------------
(* What is shown of such a call, row by row *)

LastOf(v) == v.calls[Len(v.calls)]
OwnIn(v, w) == {i \in 1..Len(v.calls) : v.calls[i].by = w}

\* Before the call nothing is shown of it; while it goes on it is the last call that
\* is shown, and open; then it is shown as reported with the steps it had.
Shows(w, a, z, V, n) ==
    /\ n < a => OwnIn(V[n], w) = {}
    /\ a <= n /\ n < z => V[n].open /\ OwnIn(V[n], w) = {Len(V[n].calls)}
    /\ z <= n =>
          \E i \in 1..Len(V[n].calls) :
             /\ OwnIn(V[n], w) = {i}
             /\ V[n].calls[i].status = OutcomeOf(w)
             /\ V[n].calls[i].steps = LastOf(V[z - 1]).steps
             /\ V[n].open => i # Len(V[n].calls)

\* A call more is of its worker and of nobody else.
LEMMA OwnAdded ==
    ASSUME NEW v, v.calls \in Seq(ShownCall), NEW u, NEW call, NEW w, Added(v, u, call)
    PROVE  OwnIn(u, w) = OwnIn(v, w) \cup (IF call.by = w THEN {Len(u.calls)} ELSE {})
<1>1. /\ Len(v.calls) \in Nat /\ Len(u.calls) = Len(v.calls) + 1
      /\ \A i \in 1..Len(v.calls) : u.calls[i] = v.calls[i]
      /\ u.calls[Len(u.calls)] = call
  BY DEF Added
<1>2. 1..Len(u.calls) = (1..Len(v.calls)) \cup {Len(u.calls)}
  BY <1>1
<1>3. \A i \in 1..Len(u.calls) : i \in OwnIn(u, w) <=>
         i \in OwnIn(v, w) \/ (i = Len(u.calls) /\ call.by = w)
  BY <1>1, <1>2 DEF OwnIn
<1>4. OwnIn(u, w) \subseteq 1..Len(u.calls) /\ OwnIn(v, w) \subseteq 1..Len(u.calls)
  BY <1>2 DEF OwnIn
<1>5. Len(u.calls) \in 1..Len(u.calls)
  BY <1>2
<1> QED  BY <1>3, <1>4, <1>5

\* A change of the last call leaves it with its worker.
LEMMA OwnChanged ==
    ASSUME NEW v, v.calls \in Seq(ShownCall), NEW u, NEW call, NEW w, Changed(v, u, call),
           call.by = LastOf(v).by
    PROVE  OwnIn(u, w) = OwnIn(v, w)
BY DEF Changed, OwnIn, LastOf

\* The call is followed through the view, whatever stands before and after it.
LEMMA ShownSoFar ==
    ASSUME IInv, NEW w \in Worker, NEW a, NEW z, CallAt(w, a, z), NEW d \in BOOLEAN
    PROVE  \A n \in 0..LastSeq : Shows(w, a, z, ViewUpTo(d), n)
<1> DEFINE V == ViewUpTo(d)
           S == {n \in 0..LastSeq : Shows(w, a, z, V, n)}
<1>1. LastSeq \in Nat /\ \A n \in 1..LastSeq : EventAt(n) \in Event
  BY EventsAre
<1>2. /\ V[0] = NoView
      /\ \A n \in 1..LastSeq : V[n] = AddRow(V[n - 1], n, d)
      /\ \A n \in 0..LastSeq : V[n] \in View
  BY <1>1, ViewsAre
<1>3. /\ a \in 1..LastSeq /\ z \in 1..LastSeq /\ a < z
      /\ EventAt(a) = Ev("called", w)
      /\ EventAt(z).by = w /\ EventAt(z).type \in Reports
      /\ TerminalStatus(EventAt(z)) = OutcomeOf(w)
  BY DEF CallAt
<1> HIDE DEF V
<1>4. 0 \in S
  BY <1>1, <1>2, <1>3 DEF Shows, OwnIn, NoView
<1>5. ASSUME NEW n \in 0..LastSeq, n \in S, n < LastSeq  PROVE n + 1 \in S
  <2> DEFINE v == V[n]
             u == V[n + 1]
             e == EventAt(n + 1)
  <2>1. n \in Nat /\ n + 1 \in 1..LastSeq /\ n + 1 \in 0..LastSeq /\ n + 1 - 1 = n
    BY <1>1, <1>5
  <2>2. v \in View /\ u = AddRow(v, n + 1, d) /\ e \in Event
    BY <1>1, <1>2, <2>1
  <2>3. v.calls \in Seq(ShownCall) /\ Len(v.calls) \in Nat /\ v.open \in BOOLEAN
        /\ (v.open => Len(v.calls) > 0)
    BY <2>2 DEF View
  <2>4. Shows(w, a, z, V, n)
    BY <1>5
  <2>5. /\ e.by = w =>
              /\ e.type = "called" => n + 1 = a
              /\ e.type \in Reports => n + 1 = z
              /\ e.type = "sub" => a < n + 1 /\ n + 1 < z
        /\ e.by # w /\ a <= n + 1 /\ n + 1 <= z => e.type \in {"authz", "started", "ended"}
    BY <2>1 DEF CallAt
  <2>6. e.type \in {"authz", "started", "ended", "sub", "called"} \cup Reports
    BY <2>2 DEF Event, Reports
  <2>7. Shows(w, a, z, V, n + 1)
    <3> HIDE DEF e, v, u
    <3> HIDE DEF S
    <3>1. (n + 1 = a => e = Ev("called", w)) /\ (n + 1 = z => e.by = w /\ e.type \in Reports)
      BY <1>3 DEF e
    <3>2. V[n] = v /\ V[n + 1] = u /\ a \in Nat /\ z \in Nat
      BY <1>1, <1>3 DEF v, u
    <3>3. CASE e.type \in {"authz", "started", "ended"} \/ (e.type = "sub" /\ ~v.open)
      <4>1. SameCalls(v, u)
        BY <2>2, <3>3, AddRowIs DEF e
      <4>2. n + 1 # a /\ n + 1 # z
        BY <3>1, <3>3 DEF Ev, Reports
      <4>3. OwnIn(u, w) = OwnIn(v, w)
        BY <4>1 DEF SameCalls, OwnIn
      <4> QED  BY <1>3, <2>1, <2>4, <3>2, <4>1, <4>2, <4>3 DEF Shows, SameCalls
    <3>4. CASE e.type = "sub" /\ v.open
      <4>1. /\ u.open
            /\ Changed(v, u, [by |-> LastOf(v).by, status |-> LastOf(v).status, steps |-> SubstepsOf(v, e)])
        BY <2>2, <3>4, AddRowIs DEF e, LastOf
      <4>2. n + 1 # a /\ n + 1 # z
        BY <3>1, <3>4 DEF Ev, Reports
      <4>3. OwnIn(u, w) = OwnIn(v, w)
        BY <2>3, <3>4, <4>1, OwnChanged
      <4>4. Len(u.calls) = Len(v.calls) /\ \A i \in 1..Len(v.calls) : i # Len(v.calls) => u.calls[i] = v.calls[i]
        BY <4>1 DEF Changed
      <4> QED  BY <1>3, <2>1, <2>3, <2>4, <3>2, <3>4, <4>1, <4>2, <4>3, <4>4 DEF Shows
    <3>5. CASE e.type = "called"
      <4> DEFINE call == [by |-> e.by, status |-> "running", steps |-> <<>>]
      <4>1. u.open /\ Added(v, u, call)
        BY <2>2, <3>5, AddRowIs DEF e
      <4>2. OwnIn(u, w) = OwnIn(v, w) \cup (IF e.by = w THEN {Len(u.calls)} ELSE {})
        BY <2>3, <4>1, OwnAdded
      <4>3. Len(u.calls) = Len(v.calls) + 1 /\ \A i \in 1..Len(v.calls) : u.calls[i] = v.calls[i]
        BY <4>1 DEF Added
      <4>4. CASE n + 1 < a
        <5>1. e.by # w /\ n < a
          BY <1>3, <2>1, <2>5, <3>2, <3>5, <4>4
        <5> QED  BY <1>3, <2>1, <2>4, <3>2, <4>2, <4>4, <5>1 DEF Shows
      <4>5. CASE n + 1 = a
        <5>1. OwnIn(v, w) = {} /\ e.by = w
          BY <2>1, <2>4, <3>1, <3>2, <4>5 DEF Shows, Ev
        <5> QED  BY <1>3, <3>2, <4>1, <4>2, <4>5, <5>1 DEF Shows
      <4>6. CASE z < n + 1
        <5>1. e.by # w /\ z <= n
          BY <1>3, <2>1, <2>5, <3>2, <3>5, <4>6
        <5>2. OwnIn(u, w) = OwnIn(v, w)
          BY <4>2, <5>1
        <5>3. PICK i \in 1..Len(v.calls) :
                /\ OwnIn(v, w) = {i}
                /\ v.calls[i].status = OutcomeOf(w)
                /\ v.calls[i].steps = LastOf(V[z - 1]).steps
          BY <2>4, <3>2, <5>1 DEF Shows
        <5>4. i \in 1..Len(u.calls) /\ i # Len(u.calls)
          BY <2>3, <4>3
        <5>5. u.calls[i] = v.calls[i]
          BY <4>3
        <5> QED  BY <1>3, <2>1, <3>2, <4>6, <5>2, <5>3, <5>4, <5>5 DEF Shows
      <4>7. a < n + 1 /\ n + 1 <= z => FALSE
        BY <1>3, <2>5, <3>2, <3>5
      <4> QED  BY <2>1, <3>2, <4>4, <4>5, <4>6, <4>7
    <3>6. CASE e.type \in Reports
      <4> DEFINE told == [by |-> LastOf(v).by, status |-> TerminalStatus(e), steps |-> LastOf(v).steps]
                 call == [by |-> e.by, status |-> TerminalStatus(e), steps |-> <<>>]
      <4>1. ~u.open /\ (v.open => Changed(v, u, told)) /\ (~v.open => Added(v, u, call))
        BY <2>2, <3>6, AddRowIs DEF e, LastOf
      <4>2. v.open => OwnIn(u, w) = OwnIn(v, w)
        BY <2>3, <4>1, OwnChanged
      <4>3. ~v.open /\ e.by # w => OwnIn(u, w) = OwnIn(v, w)
        <5>1. call.by = e.by
          OBVIOUS
        <5> HIDE DEF call
        <5>2. ASSUME ~v.open, e.by # w  PROVE OwnIn(u, w) = OwnIn(v, w)
          <6>1. Added(v, u, call)
            BY <4>1, <5>2
          <6>2. OwnIn(u, w) = OwnIn(v, w) \cup (IF call.by = w THEN {Len(u.calls)} ELSE {})
            BY <2>3, <6>1, OwnAdded
          <6> QED  BY <5>1, <5>2, <6>2
        <5> QED  BY <5>2
      <4>4. CASE n + 1 < a
        <5>1. e.by # w
          BY <1>3, <2>5, <3>2, <3>6, <4>4
        <5> QED  BY <1>3, <2>1, <2>4, <3>2, <4>2, <4>3, <4>4, <5>1 DEF Shows
      <4>5. CASE n + 1 = z
        <5>1. n = z - 1 /\ a <= n /\ n < z /\ v.open /\ OwnIn(v, w) = {Len(v.calls)}
          BY <1>3, <2>1, <2>4, <3>2, <4>5 DEF Shows
        <5>2. /\ Len(u.calls) = Len(v.calls) /\ u.calls[Len(v.calls)] = told
              /\ Len(u.calls) \in 1..Len(u.calls)
          BY <2>3, <4>1, <5>1 DEF Changed
        <5>3. TerminalStatus(e) = OutcomeOf(w) /\ LastOf(v) = LastOf(V[z - 1])
          BY <1>3, <4>5, <5>1 DEF e, v
        <5> QED  BY <1>3, <3>2, <4>1, <4>2, <4>5, <5>1, <5>2, <5>3 DEF Shows
      <4>6. CASE z < n + 1
        <5>1. e.by # w /\ z <= n
          BY <1>3, <2>1, <2>5, <3>2, <3>6, <4>6
        <5>2. OwnIn(u, w) = OwnIn(v, w)
          BY <4>2, <4>3, <5>1
        <5>3. PICK i \in 1..Len(v.calls) :
                /\ OwnIn(v, w) = {i}
                /\ v.calls[i].status = OutcomeOf(w)
                /\ v.calls[i].steps = LastOf(V[z - 1]).steps
                /\ v.open => i # Len(v.calls)
          BY <2>4, <3>2, <5>1 DEF Shows
        <5>4. i \in 1..Len(u.calls) /\ u.calls[i] = v.calls[i]
          BY <2>3, <4>1, <5>3 DEF Changed, Added
        <5> QED  BY <1>3, <2>1, <3>2, <4>1, <4>6, <5>2, <5>3, <5>4 DEF Shows
      <4>7. a <= n + 1 /\ n + 1 < z => FALSE
        BY <1>3, <2>5, <3>2, <3>6, <3>1 DEF Ev, Reports
      <4> QED  BY <2>1, <3>2, <4>4, <4>5, <4>6, <4>7
    <3> QED  BY <2>3, <2>6, <3>3, <3>4, <3>5, <3>6
  <2> QED  BY <2>1, <2>7
<1>6. \A n \in 0..LastSeq : n \in S
  <2> HIDE DEF S
  <2> QED  BY <1>1, <1>4, <1>5, Upwards
<1> QED  BY <1>6 DEF V

-----------------------------------------------------------------------------
(* The steps of a call whose sub-events come in their order *)

\* The steps after k sub-events: one for each start, ended if its end is among them.
StepsOf(k) == [i \in 1..((k + 1) \div 2) |-> IF 2 * i <= k THEN "completed" ELSE "running"]
RunningAt(k) == IF k % 2 = 1 THEN (k + 1) \div 2 ELSE 0

\* One sub-event more starts a step or ends the one that runs.
LEMMA NextStep ==
    ASSUME NEW k \in Nat
    PROVE  /\ k % 2 = 0 => /\ (k + 1) % 2 = 1
                           /\ StepsOf(k + 1) = Append(StepsOf(k), "running")
                           /\ RunningAt(k + 1) = Len(StepsOf(k)) + 1
           /\ k % 2 = 1 => /\ (k + 1) % 2 = 0 /\ RunningAt(k) # 0 /\ RunningAt(k + 1) = 0
                           /\ StepsOf(k + 1) = [StepsOf(k) EXCEPT ![RunningAt(k)] = "completed"]
           /\ k % 2 \in {0, 1}
           /\ k % 2 = 0 => StepsOf(k) = [i \in 1..(k \div 2) |-> "completed"]
<1> DEFINE q == k \div 2
<1>1. q \in Nat /\ (k = 2 * q \/ k = 2 * q + 1)
  OBVIOUS
<1> HIDE DEF q
<1>2. CASE k = 2 * q
  <2>1. /\ k % 2 = 0 /\ (k + 1) % 2 = 1 /\ (k + 1) \div 2 = q /\ (k + 1 + 1) \div 2 = q + 1
        /\ k \div 2 = q
    BY <1>1, <1>2
  <2>2. StepsOf(k) = [i \in 1..q |-> "completed"]
    BY <1>1, <1>2, <2>1 DEF StepsOf
  <2>3. StepsOf(k) \in Seq({"running", "completed"}) /\ Len(StepsOf(k)) = q
    BY <1>1, <2>2
  <2>4. StepsOf(k + 1) = [i \in 1..(q + 1) |-> IF i <= q THEN "completed" ELSE "running"]
    BY <1>1, <1>2, <2>1 DEF StepsOf
  <2>5. Append(StepsOf(k), "running") = [i \in 1..(q + 1) |-> IF i <= q THEN "completed" ELSE "running"]
    BY <1>1, <2>2, <2>3
  <2> QED  BY <1>1, <2>1, <2>2, <2>3, <2>4, <2>5 DEF RunningAt
<1>3. CASE k = 2 * q + 1
  <2>1. k % 2 = 1 /\ (k + 1) % 2 = 0 /\ (k + 1) \div 2 = q + 1 /\ (k + 1 + 1) \div 2 = q + 1
    BY <1>1, <1>3
  <2>2. StepsOf(k) = [i \in 1..(q + 1) |-> IF i <= q THEN "completed" ELSE "running"]
    BY <1>1, <1>3, <2>1 DEF StepsOf
  <2>3. StepsOf(k + 1) = [i \in 1..(q + 1) |-> "completed"]
    BY <1>1, <1>3, <2>1 DEF StepsOf
  <2>4. [StepsOf(k) EXCEPT ![q + 1] = "completed"] = [i \in 1..(q + 1) |-> "completed"]
    BY <1>1, <2>2
  <2>5. RunningAt(k) = q + 1 /\ RunningAt(k + 1) = 0 /\ q + 1 # 0
    BY <1>1, <2>1 DEF RunningAt
  <2> HIDE DEF StepsOf, RunningAt
  <2>6. [StepsOf(k) EXCEPT ![RunningAt(k)] = "completed"] = StepsOf(k + 1)
    BY <2>3, <2>4, <2>5
  <2> QED  BY <2>1, <2>5, <2>6
<1> QED  BY <1>1, <1>2, <1>3

\* The first k sub-events of a worker are among the first n rows, and no others.
Upto(w, n, k) ==
    \A m \in 1..Frames : \A i \in 1..LastSeq : EventAt(i) = Sub(w, m) => (m <= k <=> i <= n)

StepsAre(w, a, z, V, n) ==
    a <= n /\ n < z =>
        \E k \in 0..Frames :
            /\ Upto(w, n, k)
            /\ V[n].running = RunningAt(k)
            /\ LastOf(V[n]).steps = StepsOf(k)

\* Every sub-event of a completed call is in the ledger, once.
LEMMA SubEventsAre ==
    ASSUME IInv, CallsInv, NEW w \in Worker, NEW a, NEW z, CallAt(w, a, z), InOrder(w),
           OutcomeOf(w) = "completed"
    PROVE  /\ \A m \in 1..Frames : \E i \in 1..LastSeq : EventAt(i) = Sub(w, m) /\ a < i /\ i < z
           /\ \A m, l \in 1..Frames : \A i, j \in 1..LastSeq :
                 EventAt(i) = Sub(w, m) /\ EventAt(j) = Sub(w, l) => /\ m = l => i = j
                                                                     /\ m < l => i < j
           /\ \A i \in 1..LastSeq : EventAt(i).by = w /\ EventAt(i).type = "sub" =>
                 \E m \in 1..Frames : EventAt(i) = Sub(w, m)
           /\ \A m : Sub(w, m).by = w /\ Sub(w, m).type = "sub" /\ Sub(w, m).n = m
<1>1. \A m : Sub(w, m).by = w /\ Sub(w, m).type = "sub" /\ Sub(w, m).n = m
  BY DEF Sub
<1>2. \A i \in 1..LastSeq : \E x \in rows : x.seq = i /\ x.ev = EventAt(i)
  BY EventsAre
<1>3. ASSUME NEW m \in 1..Frames
      PROVE  \E i \in 1..LastSeq : EventAt(i) = Sub(w, m) /\ a < i /\ i < z
  <2>1. z \in 1..LastSeq /\ EventAt(z).by = w /\ EventAt(z).type = "answered"
    BY DEF CallAt, TerminalStatus
  <2>2. PICK y \in rows : y.ev = Sub(w, m)
    BY <1>2, <2>1 DEF IInv, NothingMissing
  <2>3. y.seq \in 1..LastSeq /\ EventAt(y.seq) = Sub(w, m)
    BY <2>2, EventsAre
  <2> QED  BY <1>1, <2>3 DEF CallAt
<1>4. ASSUME NEW m \in 1..Frames, NEW l \in 1..Frames, NEW i \in 1..LastSeq, NEW j \in 1..LastSeq,
             EventAt(i) = Sub(w, m), EventAt(j) = Sub(w, l)
      PROVE  (m = l => i = j) /\ (m < l => i < j)
  <2>1. PICK x \in rows, y \in rows : /\ x.seq = i /\ x.ev = Sub(w, m)
                                      /\ y.seq = j /\ y.ev = Sub(w, l)
    BY <1>2, <1>4
  <2>2. m = l => i = j
    BY <1>1, <2>1 DEF IInv, SubEventOnce
  <2>3. i \in NumbersOf(Sub(w, m)) /\ j \in NumbersOf(Sub(w, l))
    BY <2>1 DEF NumbersOf
  <2> QED  BY <2>2, <2>3 DEF InOrder
<1>5. ASSUME NEW i \in 1..LastSeq, EventAt(i).by = w, EventAt(i).type = "sub"
      PROVE  \E m \in 1..Frames : EventAt(i) = Sub(w, m)
  BY <1>2, <1>5 DEF CallsInv, CallInv, CallTold
<1> QED  BY <1>1, <1>3, <1>4, <1>5

\* While the call is open, its steps are those of the sub-events so far.
LEMMA StepsSoFar ==
    ASSUME IInv, CallsInv, NEW w \in Worker, NEW a, NEW z, CallAt(w, a, z), NEW d \in BOOLEAN,
           InOrder(w), OutcomeOf(w) = "completed"
    PROVE  \A n \in 0..LastSeq : StepsAre(w, a, z, ViewUpTo(d), n)
<1> DEFINE V == ViewUpTo(d)
           S == {n \in 0..LastSeq : StepsAre(w, a, z, V, n)}
<1>1. LastSeq \in Nat /\ Frames \in Nat /\ \A n \in 1..LastSeq : EventAt(n) \in Event
  BY EventsAre, LedgerAssumption
<1>2. /\ V[0] = NoView
      /\ \A n \in 1..LastSeq : V[n] = AddRow(V[n - 1], n, d)
      /\ \A n \in 0..LastSeq : V[n] \in View
  BY <1>1, ViewsAre
<1>3. \A n \in 0..LastSeq : Shows(w, a, z, V, n)
  BY ShownSoFar
<1>4. /\ a \in 1..LastSeq /\ z \in 1..LastSeq /\ a < z /\ a \in Nat /\ z \in Nat
      /\ EventAt(a).type = "called" /\ EventAt(a).by = w
      /\ \A n \in 1..LastSeq :
            /\ EventAt(n).by # w /\ a <= n /\ n <= z => EventAt(n).type \in {"authz", "started", "ended"}
            /\ EventAt(n).by = w /\ a < n /\ n < z =>
                  EventAt(n).type # "called" /\ EventAt(n).type \notin Reports
  <2>1. EventAt(a) = Ev("called", w)
    BY DEF CallAt
  <2> QED  BY <1>1, <2>1 DEF CallAt, Ev
<1>5. /\ \A m \in 1..Frames : \E i \in 1..LastSeq : EventAt(i) = Sub(w, m)
      /\ \A m, l \in 1..Frames : \A i, j \in 1..LastSeq :
            EventAt(i) = Sub(w, m) /\ EventAt(j) = Sub(w, l) => /\ m = l => i = j
                                                                /\ m < l => i < j
      /\ \A m \in 1..Frames : \A i \in 1..LastSeq : EventAt(i) = Sub(w, m) => a < i
      /\ \A i \in 1..LastSeq : EventAt(i).by = w /\ EventAt(i).type = "sub" =>
            \E m \in 1..Frames : EventAt(i) = Sub(w, m)
      /\ \A m : Sub(w, m).by = w /\ Sub(w, m).type = "sub" /\ Sub(w, m).n = m
  <2>1. \A m \in 1..Frames : \E i \in 1..LastSeq : EventAt(i) = Sub(w, m) /\ a < i
    BY SubEventsAre
  <2>2. \A m, l \in 1..Frames : \A i, j \in 1..LastSeq :
            EventAt(i) = Sub(w, m) /\ EventAt(j) = Sub(w, l) => /\ m = l => i = j
                                                                /\ m < l => i < j
    BY SubEventsAre
  <2>3. \A i \in 1..LastSeq : EventAt(i).by = w /\ EventAt(i).type = "sub" =>
            \E m \in 1..Frames : EventAt(i) = Sub(w, m)
    BY SubEventsAre
  <2>4. \A m : Sub(w, m).by = w /\ Sub(w, m).type = "sub" /\ Sub(w, m).n = m
    BY DEF Sub
  <2>5. \A m \in 1..Frames : \A i \in 1..LastSeq : EventAt(i) = Sub(w, m) => a < i
    BY <2>1, <2>2
  <2> QED  BY <2>1, <2>2, <2>3, <2>4, <2>5
<1> HIDE DEF V
<1>6. 0 \in S
  BY <1>1, <1>4 DEF StepsAre
<1>7. ASSUME NEW n \in 0..LastSeq, n \in S, n < LastSeq  PROVE n + 1 \in S
  <2> DEFINE v == V[n]
             u == V[n + 1]
             e == EventAt(n + 1)
  <2>1. n \in Nat /\ n + 1 \in 1..LastSeq /\ n + 1 \in 0..LastSeq /\ n + 1 - 1 = n
    BY <1>1, <1>7
  <2>2. v \in View /\ u = AddRow(v, n + 1, d) /\ e \in Event
    BY <1>1, <1>2, <2>1
  <2>3. v.calls \in Seq(ShownCall) /\ Len(v.calls) \in Nat
    BY <2>2 DEF View
  <2>4. StepsAre(w, a, z, V, n) /\ Shows(w, a, z, V, n)
    BY <1>3, <1>7
  <2>5. StepsAre(w, a, z, V, n + 1)
    <3> HIDE DEF S, e, v, u
    <3>1. V[n] = v /\ V[n + 1] = u /\ EventAt(n + 1) = e
      BY DEF v, u, e
    <3>2. CASE n + 1 = a
      <4>1. e.type = "called" /\ e.by = w
        BY <1>4, <3>1, <3>2
      <4>2. u.running = 0 /\ Added(v, u, [by |-> e.by, status |-> "running", steps |-> <<>>])
        BY <2>2, <4>1, AddRowIs DEF e
      <4>3. LastOf(u).steps = <<>>
        BY <2>3, <4>2 DEF Added, LastOf
      <4>4. StepsOf(0) = <<>> /\ RunningAt(0) = 0
        BY DEF StepsOf, RunningAt
      <4>5. Upto(w, n + 1, 0)
        BY <1>1, <1>4, <1>5, <3>2 DEF Upto
      <4> QED  BY <1>1, <3>1, <4>2, <4>3, <4>4, <4>5 DEF StepsAre
    <3>3. CASE a < n + 1 /\ n + 1 < z
      <4>1. a <= n /\ n < z
        BY <1>4, <2>1, <3>3
      <4>2. v.open /\ OwnIn(v, w) = {Len(v.calls)}
        BY <2>4, <3>1, <4>1 DEF Shows
      <4>3. PICK k \in 0..Frames : /\ Upto(w, n, k)
                                   /\ v.running = RunningAt(k)
                                   /\ LastOf(v).steps = StepsOf(k)
        BY <2>4, <3>1, <4>1 DEF StepsAre
      <4>4. \/ e.type \in {"authz", "started", "ended"}
            \/ e.type = "sub" /\ e.by = w
        <5>1. e.by # w => e.type \in {"authz", "started", "ended"}
          BY <1>4, <2>1, <3>1, <3>3
        <5>2. e.by = w => e.type # "called" /\ e.type \notin Reports
          BY <1>4, <2>1, <3>1, <3>3
        <5>3. e.type \in {"authz", "started", "called", "sub", "answered", "failed", "ended"}
          BY <2>2 DEF Event
        <5> QED  BY <5>1, <5>2, <5>3 DEF Reports
      <4>5. CASE e.type \in {"authz", "started", "ended"}
        <5>1. SameCalls(v, u)
          BY <2>2, <4>5, AddRowIs DEF e
        <5>2. Upto(w, n + 1, k)
          <6> SUFFICES ASSUME NEW m \in 1..Frames, NEW i \in 1..LastSeq, EventAt(i) = Sub(w, m)
                       PROVE  m <= k <=> i <= n + 1
            BY DEF Upto
          <6>1. i # n + 1
            BY <1>5, <3>1, <4>5
          <6>2. m <= k <=> i <= n
            BY <4>3 DEF Upto
          <6> QED  BY <1>1, <2>1, <6>1, <6>2
        <5>3. u.running = RunningAt(k) /\ LastOf(u).steps = StepsOf(k)
          BY <4>3, <5>1 DEF SameCalls, LastOf
        <5> QED  BY <3>1, <5>2, <5>3 DEF StepsAre
      <4>6. CASE e.type = "sub" /\ e.by = w
        <5>1. PICK m \in 1..Frames : e = Sub(w, m)
          BY <1>5, <2>1, <3>1, <4>6
        <5>2. m = k + 1
          <6>1. ~(m <= k)
            <7>1. m <= k <=> n + 1 <= n
              BY <2>1, <3>1, <4>3, <5>1 DEF Upto
            <7> QED  BY <2>1, <7>1
          <6>2. ASSUME k + 1 < m  PROVE FALSE
            <7>1. k + 1 \in 1..Frames
              BY <1>1, <6>2
            <7>2. PICK i \in 1..LastSeq : EventAt(i) = Sub(w, k + 1)
              BY <1>5, <7>1
            <7>3. i < n + 1
              BY <1>5, <2>1, <3>1, <5>1, <6>2, <7>1, <7>2
            <7>4. k + 1 <= k
              BY <1>1, <2>1, <4>3, <7>1, <7>2, <7>3 DEF Upto
            <7> QED  BY <7>4
          <6> QED  BY <1>1, <6>1, <6>2
        <5>3. Upto(w, n + 1, k + 1)
          <6> SUFFICES ASSUME NEW l \in 1..Frames, NEW i \in 1..LastSeq, EventAt(i) = Sub(w, l)
                       PROVE  l <= k + 1 <=> i <= n + 1
            BY DEF Upto
          <6>1. l <= k <=> i <= n
            BY <4>3 DEF Upto
          <6>2. l = k + 1 => i = n + 1
            BY <1>5, <2>1, <3>1, <5>1, <5>2
          <6>3. i = n + 1 => l = k + 1
            BY <1>5, <3>1, <5>1, <5>2
          <6> QED  BY <1>1, <2>1, <6>1, <6>2, <6>3
        <5>4. /\ Changed(v, u, [by |-> LastOf(v).by, status |-> LastOf(v).status, steps |-> SubstepsOf(v, e)])
              /\ u.running = IF SubstepStatus(e) = "running" THEN Len(LastOf(v).steps) + 1 ELSE 0
          BY <2>2, <4>2, <4>6, AddRowIs DEF e, LastOf
        <5>5. LastOf(u).steps = SubstepsOf(v, e)
          BY <5>4 DEF Changed, LastOf
        <5>6. e.n = k + 1 /\ k \in Nat /\ k + 1 \in 0..Frames
          BY <1>1, <1>5, <5>1, <5>2
        <5>7. SubstepsOf(v, e) = StepsOf(k + 1) /\ u.running = RunningAt(k + 1)
          <6>1. SubstepsOf(v, e) = IF SubstepStatus(e) = "completed" /\ RunningAt(k) # 0
                                   THEN [StepsOf(k) EXCEPT ![RunningAt(k)] = "completed"]
                                   ELSE Append(StepsOf(k), SubstepStatus(e))
            BY <4>3 DEF SubstepsOf, LastOf
          <6>2. CASE k % 2 = 0
            <7>1. SubstepStatus(e) = "running"
              BY <5>6, <6>2, NextStep DEF SubstepStatus
            <7> QED  BY <4>3, <5>4, <5>6, <6>1, <6>2, <7>1, NextStep
          <6>3. CASE k % 2 = 1
            <7>1. SubstepStatus(e) = "completed"
              BY <5>6, <6>3, NextStep DEF SubstepStatus
            <7> QED  BY <5>4, <5>6, <6>1, <6>3, <7>1, NextStep
          <6> QED  BY <5>6, <6>2, <6>3, NextStep
        <5> QED  BY <3>1, <5>3, <5>5, <5>6, <5>7 DEF StepsAre
      <4> QED  BY <4>4, <4>5, <4>6
    <3>4. n + 1 = a \/ (a < n + 1 /\ n + 1 < z) \/ ~(a <= n + 1 /\ n + 1 < z)
      BY <1>4, <2>1
    <3> QED  BY <3>2, <3>3, <3>4 DEF StepsAre
  <2> QED  BY <2>1, <2>5
<1>8. \A n \in 0..LastSeq : n \in S
  <2> HIDE DEF S
  <2> QED  BY <1>1, <1>6, <1>7, Upwards
<1> QED  BY <1>8 DEF V

-----------------------------------------------------------------------------
(* How many calls are shown *)

\* The workers whose call is among the first n rows.
CalledBy(n) == {w \in Worker : \E i \in 1..LastSeq : i <= n /\ EventAt(i) = Ev("called", w)}

CountIs(V, n) == IsFiniteSet(CalledBy(n)) /\ Len(V[n].calls) = Cardinality(CalledBy(n))

\* A report that is not of the open call would be shown as a call of its own; when no
\* calls overlap there is none.
LEMMA CallsShown ==
    ASSUME IInv, CallsInv, NEW d \in BOOLEAN,
           \A w \in Worker : NumbersOf(Ev("called", w)) # {} => Alone(w)
    PROVE  \A n \in 0..LastSeq : CountIs(ViewUpTo(d), n)
<1> DEFINE V == ViewUpTo(d)
           S == {n \in 0..LastSeq : CountIs(V, n)}
<1>1. LastSeq \in Nat /\ \A n \in 1..LastSeq : EventAt(n) \in Event
  BY EventsAre
<1>2. /\ V[0] = NoView
      /\ \A n \in 1..LastSeq : V[n] = AddRow(V[n - 1], n, d)
      /\ \A n \in 0..LastSeq : V[n] \in View
  BY <1>1, ViewsAre
<1>3. ASSUME NEW w \in Worker, NEW i \in 1..LastSeq, EventAt(i).by = w,
             EventAt(i).type \in {"called"} \cup Reports
      PROVE  \E a, z \in 1..LastSeq :
                CallAt(w, a, z) /\ \A n \in 0..LastSeq : Shows(w, a, z, V, n)
  <2>1. PICK x \in rows : x.seq = i /\ x.ev = EventAt(i)
    BY EventsAre
  <2>2. PICK y \in rows : y.ev.by = w /\ y.ev.type = "called"
    BY <1>3, <2>1 DEF CallsInv, CallInv, CallBegun
  <2>3. y.ev = Ev("called", w)
    BY <2>2 DEF CallsInv, CallInv, CallTold
  <2>4. y.seq \in NumbersOf(Ev("called", w))
    BY <2>3 DEF NumbersOf
  <2>5. Alone(w)
    BY <2>4
  <2>6. PICK a \in 1..LastSeq, z \in 1..LastSeq : CallAt(w, a, z)
    BY <2>5, AloneIsAt
  <2>7. \A n \in 0..LastSeq : Shows(w, a, z, V, n)
    BY <2>6, ShownSoFar
  <2> QED  BY <2>6, <2>7
<1> HIDE DEF V
<1>4. 0 \in S
  <2>1. CalledBy(0) = {} /\ Len(V[0].calls) = 0
    BY <1>1, <1>2 DEF CalledBy, NoView
  <2>2. IsFiniteSet(CalledBy(0)) /\ Cardinality(CalledBy(0)) = 0 /\ 0 \in 0..LastSeq
    <3>1. IsFiniteSet({}) /\ Cardinality({}) = 0
      BY FS_EmptySet
    <3>2. 0 \in 0..LastSeq
      BY <1>1
    <3> QED  BY <2>1, <3>1, <3>2
  <2> QED  BY <2>1, <2>2 DEF CountIs
<1>5. ASSUME NEW n \in 0..LastSeq, n \in S, n < LastSeq  PROVE n + 1 \in S
  <2> DEFINE v == V[n]
             u == V[n + 1]
             e == EventAt(n + 1)
  <2>1. n \in Nat /\ n + 1 \in 1..LastSeq /\ n + 1 \in 0..LastSeq /\ n + 1 - 1 = n
    BY <1>1, <1>5
  <2>2. v \in View /\ u = AddRow(v, n + 1, d) /\ e \in Event
    BY <1>1, <1>2, <2>1
  <2>3. /\ CountIs(V, n) /\ V[n] = v /\ V[n + 1] = u /\ EventAt(n + 1) = e
        /\ e.by \in Worker
        /\ e.type \in {"authz", "started", "ended", "sub", "called"} \cup Reports
    BY <1>5, <2>2 DEF Event, Reports
  <2> HIDE DEF v, u, e, S
  <2>4. CASE e.type = "called"
    <3> DEFINE w == e.by
    <3>1. PICK a \in 1..LastSeq, z \in 1..LastSeq : CallAt(w, a, z)
      BY <1>3, <2>1, <2>3, <2>4
    <3>2. n + 1 = a /\ e = Ev("called", w)
      BY <2>1, <2>3, <2>4, <3>1 DEF CallAt
    <3>3. \A i \in 1..LastSeq : EventAt(i) = Ev("called", w) => i = n + 1
      BY <3>1, <3>2 DEF CallAt, Ev
    <3>4. w \notin CalledBy(n)
      BY <2>1, <3>3 DEF CalledBy
    <3>5. \A x \in Worker : e = Ev("called", x) => x = w
      BY DEF Ev
    <3>6. CalledBy(n + 1) = CalledBy(n) \cup {w}
      BY <1>1, <2>1, <2>3, <3>2, <3>5 DEF CalledBy
    <3>7. Len(u.calls) = Len(v.calls) + 1
      BY <2>2, <2>4, AddRowIs DEF e, Added
    <3> HIDE DEF w
    <3>8. IsFiniteSet(CalledBy(n + 1)) /\ Cardinality(CalledBy(n + 1)) = Cardinality(CalledBy(n)) + 1
      BY <2>3, <3>4, <3>6, FS_AddElement DEF CountIs
    <3>9. CountIs(V, n + 1)
      BY <2>3, <3>7, <3>8 DEF CountIs
    <3> QED  BY <2>1, <3>9 DEF S
  <2>5. CASE e.type # "called"
    <3>1. CalledBy(n + 1) = CalledBy(n)
      <4>1. \A x \in Worker : e # Ev("called", x)
        BY <2>5 DEF Ev
      <4> QED  BY <1>1, <2>1, <2>3, <4>1 DEF CalledBy
    <3>2. e.type \in Reports => v.open
      <4> SUFFICES ASSUME e.type \in Reports  PROVE v.open
        OBVIOUS
      <4>1. PICK a \in 1..LastSeq, z \in 1..LastSeq :
               CallAt(e.by, a, z) /\ \A m \in 0..LastSeq : Shows(e.by, a, z, V, m)
        BY <1>3, <2>1, <2>3
      <4>2. n + 1 = z /\ a < z /\ a \in Nat /\ z \in Nat
        BY <1>1, <2>1, <2>3, <4>1 DEF CallAt
      <4>3. a <= n /\ n < z
        BY <2>1, <4>2
      <4> QED  BY <2>3, <4>1, <4>3 DEF Shows
    <3>3. Len(u.calls) = Len(v.calls)
      <4>1. CASE e.type \in {"authz", "started", "ended"} \/ (e.type = "sub" /\ ~v.open)
        <5>1. SameCalls(v, u)
          BY <2>2, <4>1, AddRowIs DEF e
        <5> QED  BY <5>1 DEF SameCalls
      <4>2. CASE e.type = "sub" /\ v.open
        BY <2>2, <4>2, AddRowIs DEF e, Changed
      <4>3. CASE e.type \in Reports
        BY <2>2, <3>2, <4>3, AddRowIs DEF e, Changed
      <4>4. v.open \in BOOLEAN
        BY <2>2 DEF View
      <4> QED  BY <2>3, <2>5, <4>1, <4>2, <4>3, <4>4
    <3>4. CountIs(V, n + 1)
      BY <2>3, <3>1, <3>3 DEF CountIs
    <3> QED  BY <2>1, <3>4 DEF S
  <2> QED  BY <2>4, <2>5
<1>6. \A n \in 0..LastSeq : n \in S
  <2> HIDE DEF S
  <2> QED  BY <1>1, <1>4, <1>5, Upwards
<1> QED  BY <1>6 DEF V

-----------------------------------------------------------------------------
(* What the browser shows *)

\* The badge reads the number of calls from the view.
LEMMA BadgeCounts ==
    ASSUME NEW d  PROVE Summary(d).agents = Len(TraceView(d).calls)
BY DEF Summary

\* A call that no other falls into is shown once, as it ended; and its operations are
\* all over, if they have a start and an end each and were written in their order.
LEMMA CallIsShown ==
    ASSUME IInv, CallsInv, Frames % 2 = 0, NEW w \in Worker, Alone(w)
    PROVE  LET calls == TraceView(FALSE).calls
           IN  \E i \in DOMAIN calls :
                  /\ \A j \in DOMAIN calls : calls[j].by = w <=> j = i
                  /\ calls[i].status = OutcomeOf(w)
                  /\ calls[i].status = "completed" /\ InOrder(w) =>
                        calls[i].steps = [k \in 1..(Frames \div 2) |-> "completed"]
<1> DEFINE V == ViewUpTo(FALSE)
           calls == TraceView(FALSE).calls
<1>1. LastSeq \in Nat /\ Frames \in Nat /\ LastSeq \in 0..LastSeq
      /\ \A n \in 1..LastSeq : EventAt(n) \in Event
  BY EventsAre, LedgerAssumption
<1>2. PICK a \in 1..LastSeq, z \in 1..LastSeq : CallAt(w, a, z)
  BY AloneIsAt
<1>3. a \in Nat /\ z \in Nat /\ a <= z - 1 /\ z - 1 < z /\ z <= LastSeq /\ z - 1 \in 0..LastSeq
      /\ EventAt(z).type \in Reports /\ TerminalStatus(EventAt(z)) = OutcomeOf(w)
  BY <1>1, <1>2 DEF CallAt
<1>4. calls = V[LastSeq].calls /\ V[LastSeq] \in View
  BY <1>1, ViewsAre DEF TraceView
<1>5. DOMAIN calls = 1..Len(calls)
  <2>1. V[LastSeq].calls \in Seq(ShownCall)
    BY <1>4 DEF View
  <2> HIDE DEF V, calls
  <2> QED  BY <1>4, <2>1
<1>6. Shows(w, a, z, V, LastSeq)
  BY <1>1, <1>2, ShownSoFar
<1> HIDE DEF V, calls
<1>7. PICK i \in 1..Len(calls) :
         /\ OwnIn(V[LastSeq], w) = {i}
         /\ calls[i].status = OutcomeOf(w)
         /\ calls[i].steps = LastOf(V[z - 1]).steps
  BY <1>3, <1>4, <1>6 DEF Shows
<1>8. \A j \in DOMAIN calls : calls[j].by = w <=> j = i
  BY <1>4, <1>5, <1>7 DEF OwnIn
<1>9. ASSUME OutcomeOf(w) = "completed", InOrder(w)
      PROVE  calls[i].steps = [k \in 1..(Frames \div 2) |-> "completed"]
  <2>1. StepsAre(w, a, z, V, z - 1)
    BY <1>2, <1>3, <1>9, StepsSoFar DEF V
  <2>2. PICK k \in 0..Frames : Upto(w, z - 1, k) /\ LastOf(V[z - 1]).steps = StepsOf(k)
    BY <1>3, <2>1 DEF StepsAre
  <2>3. k = Frames
    <3> SUFFICES ASSUME k < Frames  PROVE FALSE
      BY <1>1
    <3>1. Frames \in 1..Frames
      BY <1>1
    <3>2. PICK j \in 1..LastSeq : EventAt(j) = Sub(w, Frames) /\ j < z
      BY <1>2, <1>9, <3>1, SubEventsAre
    <3>3. j <= z - 1
      BY <1>3, <3>2
    <3> QED  BY <1>1, <2>2, <3>1, <3>2, <3>3 DEF Upto
  <2> QED  BY <1>1, <1>7, <2>2, <2>3, NextStep
<1>10. i \in DOMAIN calls
  BY <1>5
<1>11. calls[i].status = "completed" /\ InOrder(w) =>
          calls[i].steps = [k \in 1..(Frames \div 2) |-> "completed"]
  BY <1>7, <1>9
<1> QED  BY <1>7, <1>8, <1>10, <1>11 DEF calls

\* The badge counts the calls, when no two of them overlap.
LEMMA CallsAreCounted ==
    ASSUME IInv, CallsInv, NEW d \in BOOLEAN,
           \A w \in Worker : NumbersOf(Ev("called", w)) # {} => Alone(w)
    PROVE  Summary(d).agents = Cardinality({w \in Worker : NumbersOf(Ev("called", w)) # {}})
<1>1. CalledBy(LastSeq) = {w \in Worker : NumbersOf(Ev("called", w)) # {}}
  <2>1. ASSUME NEW w \in Worker
        PROVE  (\E i \in 1..LastSeq : i <= LastSeq /\ EventAt(i) = Ev("called", w))
                  <=> NumbersOf(Ev("called", w)) # {}
    <3>1. ASSUME NEW i \in 1..LastSeq, EventAt(i) = Ev("called", w)
          PROVE  NumbersOf(Ev("called", w)) # {}
      <4>1. PICK x \in rows : x.seq = i /\ x.ev = Ev("called", w)
        BY <3>1, EventsAre
      <4> QED  BY <4>1 DEF NumbersOf
    <3>2. ASSUME NEW x \in rows, x.ev = Ev("called", w)
          PROVE  x.seq \in 1..LastSeq /\ x.seq <= LastSeq /\ EventAt(x.seq) = Ev("called", w)
      BY <3>2, EventsAre
    <3> QED  BY <3>1, <3>2 DEF NumbersOf
  <2> QED  BY <2>1 DEF CalledBy
<1>2. LastSeq \in 0..LastSeq
  BY EventsAre
<1>3. CountIs(ViewUpTo(d), LastSeq)
  BY <1>2, CallsShown
<1> QED  BY <1>1, <1>3, BadgeCounts DEF CountIs, TraceView

\* What the invariants say of the ledger is enough for its trace.
LEMMA TraceIs == ASSUME IInv, CallsInv, Frames % 2 = 0  PROVE TraceIsFaithful
BY CallIsShown, CallsAreCounted DEF TraceIsFaithful

\* Whatever workers wrote to the ledger, the trace the browser folds from it shows each
\* call that stands alone once and as it ended, and counts the calls (traceModel.ts).
\* Each operation of an agent has a start and an end: its sub-events are even in number.
THEOREM TraceIsTold == ASSUME Frames % 2 = 0  PROVE Spec => []TraceIsFaithful
<1>1. IInv /\ CallsInv => TraceIsFaithful
  BY TraceIs
<1> QED  BY <1>1, Invariance, CallsInvariance, PTL
=============================================================================
