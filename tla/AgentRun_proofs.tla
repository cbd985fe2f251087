--------------------------- MODULE AgentRun_proofs --------------------------
(***************************************************************************)
(* TLAPS proofs about AgentRun, for every value of the constants.          *)
(***************************************************************************)
EXTENDS AgentRun, FiniteSetTheorems, SequenceTheorems, TLAPS

(***************************************************************************)
(* The inductive invariant.  TypeOK alone does not say that a worker in a  *)
(* hop holds a call, nor that a run a worker holds has been submitted.     *)
(***************************************************************************)

\* A worker that dispatches, or waits for an agent, holds a call at an ordinal
\* within the step budget, hence a key of the step ledger.
CallInv ==
    \A w \in Worker : pc[w] \in {"dispatch", "hop", "await"} =>
        call[w] \in Call /\ iter[w] \in 1..MaxSteps

\* What is enqueued or held was created, and what is past its first
\* transaction is running or has ended.
StatusInv ==
    /\ \A r \in Run : api[r] = "new" <=> status[r] = "none"
    /\ \A r \in Run : canceling[r] \/ queue[r] > 0 => status[r] # "none"
    /\ \A w \in Worker :
          /\ pc[w] # "idle" => status[job[w]] # "none"
          /\ pc[w] \notin {"idle", "start"} =>
                status[job[w]] \in {"running"} \cup Terminal
          /\ pc[w] = "history" => status[job[w]] = "completed"

\* The hop ledger: a task is out only under a running row, once.
HopInv ==
    /\ \A r \in Run, k \in Key :
          /\ sent[r][k] \in {0, 1}
          /\ step[r][k] = "none" => sent[r][k] = 0
    /\ \A w \in Worker :
          /\ pc[w] = "hop"   => step[job[w]][KeyOf(w)] = "running" /\ sent[job[w]][KeyOf(w)] = 0
          /\ pc[w] = "await" => step[job[w]][KeyOf(w)] = "running" /\ sent[job[w]][KeyOf(w)] = 1
    /\ \A v, w \in Worker :
          /\ pc[v] \in {"hop", "await"} /\ pc[w] \in {"hop", "await"}
          /\ job[v] = job[w] /\ KeyOf(v) = KeyOf(w)
          => v = w

IInv == TypeOK /\ CallInv /\ StatusInv /\ HopInv /\ TurnOnlyIfCompleted

-----------------------------------------------------------------------------
(* Type correctness *)

\* Initially every variable has its type.
LEMMA InitTypeOK == Init => TypeOK
BY ConstantsAssumption DEF Init, FullBudget, TypeOK, Status, Terminal, StepStatus, ApiState,
   PC, FaultKind

\* Leaving the task is well typed and frees the worker.
LEMMA LeaveType ==
    ASSUME TypeOK, NEW w \in Worker, Leave(w)
    PROVE  /\ pc' \in [Worker -> PC]
           /\ job' \in [Worker -> Run \cup {NoRun}]
           /\ iter' \in [Worker -> 0..MaxSteps]
           /\ call' \in [Worker -> Call \cup {NoCall}]
           /\ attempts' \in [Worker -> SUBSET Call]
           /\ \A v \in Worker : pc'[v] = "idle" <=> job'[v] = NoRun
BY ConstantsAssumption DEF TypeOK, Leave, Goto, PC

\* The batches of events the transactions append.
LEMMA EventBatches ==
    /\ <<"run.canceled">> \in Seq(EventType)
    /\ <<"run.completed">> \in Seq(EventType)
    /\ <<"planner.started">> \in Seq(EventType)
    /\ <<"agent.call.started">> \in Seq(EventType)
    /\ <<"agent.call.completed">> \in Seq(EventType)
    /\ <<"agent.call.failed">> \in Seq(EventType)
    /\ <<"run.accepted", "run.started">> \in Seq(EventType)
BY DEF EventType

\* A worker in a hop names a key of the ledger and a run.
LEMMA HopKey ==
    ASSUME TypeOK, CallInv, NEW w \in Worker, pc[w] \in {"dispatch", "hop", "await"}
    PROVE  job[w] \in Run /\ KeyOf(w) \in Key
<1>1. call[w] \in Capability \X Input /\ iter[w] \in 1..MaxSteps
  BY DEF CallInv, Call
<1>2. call[w][1] \in Capability
  BY <1>1
<1> QED
  BY <1>1, <1>2 DEF TypeOK, KeyOf, Key

\* No step breaks a type.
LEMMA NextTypeOK == IInv /\ [Next]_vars => TypeOK'
<1> SUFFICES ASSUME IInv, [Next]_vars PROVE TypeOK'
  OBVIOUS
<1> USE ConstantsAssumption
<1>t. TypeOK
  BY DEF IInv
<1>b. \A kind \in FaultKind : Spend(kind) => budget' \in [FaultKind -> Nat]
  BY <1>t DEF TypeOK, Spend
<1>j. \A w \in Worker : pc[w] # "idle" => job[w] \in Run
  BY <1>t DEF TypeOK
<1>k. \A w \in Worker : pc[w] \in {"hop", "await"} => job[w] \in Run /\ KeyOf(w) \in Key
  BY <1>t, HopKey DEF IInv
<1>1. ASSUME NEW r \in Run, CreateRun(r) PROVE TypeOK'
  <2>1. status' \in [Run -> Status]
    BY <1>t, <1>1 DEF TypeOK, CreateRun, SetStatus, Status
  <2> QED
    BY <1>t, <1>1, <2>1 DEF TypeOK, CreateRun, ApiState, effects, local
<1>2. ASSUME NEW r \in Run, Enqueue(r) PROVE TypeOK'
  BY <1>t, <1>2 DEF TypeOK, Enqueue, ApiState, db, effects, local
<1>3. ASSUME NEW r \in Run, LoseEnqueue(r) PROVE TypeOK'
  BY <1>t, <1>3, <1>b DEF TypeOK, LoseEnqueue, ApiState, db, effects, local, FaultKind
<1>4. ASSUME NEW r \in Run, ReadForCancel(r) PROVE TypeOK'
  BY <1>t, <1>4 DEF TypeOK, ReadForCancel, db, effects, local
<1>5. ASSUME NEW r \in Run, WriteCancel(r) PROVE TypeOK'
  BY <1>t, <1>5 DEF TypeOK, WriteCancel, effects, local
<1>6. ASSUME NEW r \in Run, Expire(r) PROVE TypeOK'
  BY <1>t, <1>6 DEF TypeOK, Expire, effects, control, local
<1>7. ASSUME NEW w \in Worker, NEW r \in Run, Receive(w, r) PROVE TypeOK'
  <2>1. queue' \in [Run -> Nat]
    <3>1. queue' = [queue EXCEPT ![r] = @ - 1] /\ queue[r] > 0
      BY <1>7 DEF Receive
    <3>2. queue \in [Run -> Nat]
      BY <1>t DEF TypeOK
    <3> QED  BY <3>1, <3>2
  <2>2. job' \in [Worker -> Run \cup {NoRun}] /\ pc' \in [Worker -> PC]
    BY <1>t, <1>7 DEF TypeOK, Receive, Goto, PC
  <2>3. \A v \in Worker : pc'[v] = "idle" <=> job'[v] = NoRun
    BY <1>t, <1>7, ConstantsAssumption DEF TypeOK, Receive, Goto
  <2> QED
    BY <1>t, <1>7, <2>1, <2>2, <2>3 DEF TypeOK, Receive, Goto, db, effects, control
<1>8. ASSUME NEW w \in Worker, Crash(w) PROVE TypeOK'
  <2>1. queue' \in [Run -> Nat]
    BY <1>t, <1>8 DEF TypeOK, Crash
  <2> QED
    BY <1>t, <1>8, <1>b, <2>1, LeaveType DEF TypeOK, Crash, db, effects, control, FaultKind
<1>9. ASSUME NEW w \in Worker, Redeliver(w) PROVE TypeOK'
  <2>1. queue' \in [Run -> Nat]
    BY <1>t, <1>9, <1>j DEF TypeOK, Redeliver
  <2>2. budget' \in [FaultKind -> Nat]
    BY <1>9, <1>b DEF Redeliver, FaultKind
  <2> QED
    BY <1>t, <1>9, <2>1, <2>2 DEF TypeOK, Redeliver, db, effects, control, local
<1>10. ASSUME NEW w \in Worker, TaskError(w) PROVE TypeOK'
  BY <1>t, <1>10, <1>b, LeaveType DEF TypeOK, TaskError, db, effects, control, FaultKind
<1>l. \A r \in Run, e \in Seq(EventType) : Emit(r, e) => log' \in [Run -> Seq(EventType)]
  BY <1>t DEF TypeOK, Emit
<1>s. \A r \in Run, x \in Status : SetStatus(r, x) => status' \in [Run -> Status]
  BY <1>t DEF TypeOK, SetStatus
<1>11. ASSUME NEW w \in Worker, ProcessRun(w) PROVE TypeOK'
  BY <1>t, <1>11, <1>l, EventBatches, <1>s, <1>j, LeaveType
     DEF TypeOK, ProcessRun, Goto, PC, Status, Terminal, effects, control, local
<1>12. ASSUME NEW w \in Worker, LoadContext(w) PROVE TypeOK'
  BY <1>t, <1>12, <1>l, EventBatches, <1>j, LeaveType
     DEF TypeOK, LoadContext, Goto, PC, effects, control, local
<1>13. ASSUME NEW w \in Worker, Reason(w) PROVE TypeOK'
  <2>1. CASE Goto(w, "compose") /\ UNCHANGED <<iter, call, attempts>>
    BY <1>t, <1>13, <2>1 DEF TypeOK, Reason, Goto, PC, db, effects, control
  <2>2. ASSUME iter[w] < MaxSteps, NEW c \in Call \ attempts[w],
               call' = [call EXCEPT ![w] = c],
               attempts' = [attempts EXCEPT ![w] = @ \cup {c}],
               iter' = [iter EXCEPT ![w] = @ + 1],
               Goto(w, "dispatch")
        PROVE  TypeOK'
    <3>1. iter[w] + 1 \in 0..MaxSteps
      BY <1>t, <2>2 DEF TypeOK
    <3>2. iter' \in [Worker -> 0..MaxSteps]
      BY <1>t, <2>2, <3>1 DEF TypeOK
    <3>3. call' \in [Worker -> Call \cup {NoCall}] /\ attempts' \in [Worker -> SUBSET Call]
      BY <1>t, <2>2 DEF TypeOK
    <3>4. pc' \in [Worker -> PC] /\ \A v \in Worker : pc'[v] = "idle" <=> job[v] = NoRun
      BY <1>t, <1>13, <2>2 DEF TypeOK, Reason, Goto, PC
    <3> QED
      BY <1>t, <1>13, <3>2, <3>3, <3>4 DEF TypeOK, Reason, db, effects, control
  <2> QED
    BY <1>13, <2>1, <2>2 DEF Reason
<1>14. ASSUME NEW w \in Worker, Dispatch(w) PROVE TypeOK'
  <2>1. CASE StopDispatch(w)
    BY <1>t, <1>14, <2>1, <1>l, EventBatches, <1>s, <1>j, LeaveType
       DEF TypeOK, Dispatch, StopDispatch, Status, Terminal, effects, control
  <2>2. CASE SkipDispatch(w)
    BY <1>t, <1>14, <2>2, <1>l, EventBatches, <1>j
       DEF TypeOK, Dispatch, SkipDispatch, Goto, PC, effects, control, local
  <2>3. CASE RefuseDispatch(w)
    BY <1>t, <1>14, <2>3, <1>j, LeaveType DEF TypeOK, Dispatch, RefuseDispatch, effects, control
  <2>4. CASE BeginStep(w)
    <3>1. step' \in [Run -> [Key -> StepStatus]]
      BY <1>t, <2>4 DEF TypeOK, BeginStep, StepStatus
    <3> QED
      BY <1>t, <1>14, <2>4, <3>1, <1>l, EventBatches, <1>j
         DEF TypeOK, Dispatch, BeginStep, Goto, PC, effects, control, local
  <2> QED
    BY <1>14, <2>1, <2>2, <2>3, <2>4 DEF Dispatch
<1>15. ASSUME NEW w \in Worker, SendTask(w) PROVE TypeOK'
  <2>1. sent' \in [Run -> [Key -> Nat]]
    BY <1>t, <1>15, <1>k DEF TypeOK, SendTask
  <2> QED
    BY <1>t, <1>15, <2>1 DEF TypeOK, SendTask, Goto, PC, db, control, local
<1>16. ASSUME NEW w \in Worker, NEW outcome \in {"completed", "failed"}, RecordStep(w, outcome)
       PROVE TypeOK'
  <2>1. step' \in [Run -> [Key -> StepStatus]]
    BY <1>t, <1>16 DEF TypeOK, RecordStep, StepStatus
  <2> QED
    BY <1>t, <1>16, <2>1, <1>l, EventBatches, <1>j
       DEF TypeOK, RecordStep, Goto, PC, effects, control, local
<1>17. ASSUME NEW w \in Worker, Critique(w) PROVE TypeOK'
  BY <1>t, <1>17 DEF TypeOK, Critique, Goto, PC, db, effects, control, local
<1>18. ASSUME NEW w \in Worker, PostAnswer(w) PROVE TypeOK'
  <2>1. answers' \in [Run -> Nat]
    <3>1. \/ answers' = [answers EXCEPT ![job[w]] = @ + 1]
          \/ answers' = answers
      BY <1>18 DEF PostAnswer
    <3>2. job[w] \in Run
      BY <1>18, <1>j DEF PostAnswer
    <3>3. answers \in [Run -> Nat]
      BY <1>t DEF TypeOK
    <3> QED  BY <3>1, <3>2, <3>3
  <2> QED
    BY <1>t, <1>18, <2>1 DEF TypeOK, PostAnswer, Goto, PC, db, control, local
<1>19. ASSUME NEW w \in Worker, Complete(w) PROVE TypeOK'
  BY <1>t, <1>19, <1>l, EventBatches, <1>s, <1>j, LeaveType
     DEF TypeOK, Complete, Goto, PC, Status, Terminal, effects, control, local
<1>20. ASSUME NEW w \in Worker, RecordTurn(w) PROVE TypeOK'
  <2>1. turns' \in [Run -> Nat]
    <3>1. turns' = [turns EXCEPT ![job[w]] = @ + 1] \/ turns' = turns
      BY <1>20 DEF RecordTurn
    <3>2. job[w] \in Run
      BY <1>20, <1>j DEF RecordTurn
    <3>3. turns \in [Run -> Nat]
      BY <1>t DEF TypeOK
    <3>4. CASE turns' = turns
      BY <3>3, <3>4
    <3>5. CASE turns' = [turns EXCEPT ![job[w]] = @ + 1]
      BY <3>2, <3>3, <3>5
    <3> QED
      BY <3>1, <3>4, <3>5
  <2> QED
    BY <1>t, <1>20, <2>1 DEF TypeOK, RecordTurn, Goto, PC, db, control, local
<1>22. ASSUME NEW w \in Worker, Ack(w) PROVE TypeOK'
  BY <1>t, <1>22, LeaveType DEF TypeOK, Ack, db, effects, control
<1>21. CASE UNCHANGED vars
  BY <1>t, <1>21 DEF TypeOK, vars, db, effects, control, local
<1> QED
  BY <1>1, <1>2, <1>3, <1>4, <1>5, <1>6, <1>7, <1>8, <1>9, <1>10, <1>11, <1>12, <1>13,
     <1>14, <1>15, <1>16, <1>17, <1>18, <1>19, <1>20, <1>21, <1>22 DEF Next, WorkerStep

-----------------------------------------------------------------------------
(* What a step does to the status of a run *)

\* No step moves a run out of a terminal status, deletes its row, or puts a run
\* that has started back into the queue.
StatusMove(r) ==
    /\ IsTerminal(r) => status'[r] = status[r]
    /\ status[r] # "none" => status'[r] # "none"
    /\ status[r] = "running" => status'[r] \in {"running"} \cup Terminal

\* Every step of the protocol moves every run's status that way.
LEMMA StatusMoves ==
    ASSUME IInv, [Next]_vars
    PROVE  \A r \in Run : StatusMove(r)
<1> USE DEF IsTerminal, Terminal, StatusMove
<1>t. /\ status \in [Run -> Status]
      /\ \A q \in Run : api[q] = "new" <=> status[q] = "none"
  BY DEF IInv, TypeOK, StatusInv
<1>w. \A w \in Worker : pc[w] \notin {"idle", "start"} => status[job[w]] \in {"running"} \cup Terminal
  BY DEF IInv, StatusInv
<1>n. \A w \in Worker : pc[w] # "idle" => status[job[w]] # "none"
  BY DEF IInv, StatusInv
<1>0. ASSUME status' = status PROVE \A r \in Run : StatusMove(r)
  BY <1>0
<1>1. ASSUME NEW q \in Run, CreateRun(q) PROVE \A r \in Run : StatusMove(r)
  BY <1>t, <1>1 DEF CreateRun, SetStatus
<1>2. ASSUME NEW w \in Worker, ProcessRun(w) PROVE \A r \in Run : StatusMove(r)
  BY <1>t, <1>n, <1>2 DEF ProcessRun, SetStatus
<1>3. ASSUME NEW w \in Worker, Dispatch(w) PROVE \A r \in Run : StatusMove(r)
  BY <1>t, <1>n, <1>w, <1>3 DEF Dispatch, StopDispatch, SkipDispatch, RefuseDispatch, BeginStep, SetStatus
<1>4. ASSUME NEW w \in Worker, Complete(w) PROVE \A r \in Run : StatusMove(r)
  BY <1>t, <1>n, <1>4 DEF Complete, SetStatus
<1>5. ASSUME NEW q \in Run,
             \/ Enqueue(q) \/ LoseEnqueue(q) \/ ReadForCancel(q) \/ WriteCancel(q) \/ Expire(q)
             \/ \E w \in Worker : Receive(w, q)
      PROVE  status' = status
  BY <1>5 DEF Enqueue, LoseEnqueue, ReadForCancel, WriteCancel, Expire, Receive, db
<1>6. ASSUME NEW w \in Worker, Crash(w) \/ Redeliver(w) \/ TaskError(w) PROVE status' = status
  BY <1>6 DEF Crash, Redeliver, TaskError, db
<1>7. ASSUME NEW w \in Worker,
             \/ LoadContext(w) \/ Reason(w) \/ SendTask(w) \/ Critique(w) \/ PostAnswer(w)
             \/ RecordTurn(w) \/ Ack(w) \/ \E o \in {"completed", "failed"} : RecordStep(w, o)
      PROVE  status' = status
  BY <1>7 DEF LoadContext, Reason, SendTask, Critique, PostAnswer, RecordTurn, Ack, RecordStep, db
<1>8. ASSUME UNCHANGED vars PROVE status' = status
  BY <1>8 DEF vars, db
<1> QED
  BY <1>0, <1>1, <1>2, <1>3, <1>4, <1>5, <1>6, <1>7, <1>8 DEF Next, WorkerStep

-----------------------------------------------------------------------------
(* The steps preserve the other parts of the invariant *)

\* What a worker holds in memory, read as functions.
LEMMA Locals ==
    ASSUME TypeOK
    PROVE  /\ pc \in [Worker -> PC] /\ job \in [Worker -> Run \cup {NoRun}]
           /\ iter \in [Worker -> 0..MaxSteps] /\ call \in [Worker -> Call \cup {NoCall}]
           /\ \A w \in Worker : pc[w] # "idle" => job[w] \in Run
BY DEF TypeOK

\* A worker enters the dispatch with a call its reasoning just named, within the
\* step budget, and keeps it until the hop is recorded.
LEMMA CallInvStep == ASSUME IInv, [Next]_vars PROVE CallInv'
<1> USE ConstantsAssumption
<1>c. CallInv
  BY DEF IInv
<1>t. /\ pc \in [Worker -> PC]
      /\ iter \in [Worker -> 0..MaxSteps] /\ call \in [Worker -> Call \cup {NoCall}]
  BY Locals DEF IInv
<1>0. ASSUME UNCHANGED <<pc, iter, call>> PROVE CallInv'
  BY <1>0, <1>c DEF CallInv
<1>l. ASSUME NEW w \in Worker, Leave(w) PROVE CallInv'
  BY <1>l, <1>c, <1>t DEF CallInv, Leave, Goto
<1>g. ASSUME NEW w \in Worker, UNCHANGED <<iter, call>>,
             NEW p \in PC, Goto(w, p), p \notin {"dispatch", "hop", "await"}
      PROVE  CallInv'
  BY <1>g, <1>c, <1>t DEF CallInv, Goto
<1>h. ASSUME NEW w \in Worker, UNCHANGED <<iter, call>>, pc[w] \in {"dispatch", "hop"},
             NEW p \in {"hop", "await"}, Goto(w, p)
      PROVE  CallInv'
  BY <1>h, <1>c, <1>t DEF CallInv, Goto
<1>1. ASSUME NEW r \in Run,
             \/ CreateRun(r) \/ Enqueue(r) \/ LoseEnqueue(r) \/ ReadForCancel(r)
             \/ WriteCancel(r) \/ Expire(r)
      PROVE  CallInv'
  BY <1>0, <1>1 DEF CreateRun, Enqueue, LoseEnqueue, ReadForCancel, WriteCancel, Expire, local
<1>2. ASSUME NEW r \in Run, NEW w \in Worker, Receive(w, r) PROVE CallInv'
  BY <1>g, <1>2 DEF Receive, PC
<1>3. ASSUME NEW w \in Worker, Crash(w) \/ Redeliver(w) \/ TaskError(w) PROVE CallInv'
  BY <1>0, <1>l, <1>3 DEF Crash, Redeliver, TaskError, local
<1>4. ASSUME NEW w \in Worker, Reason(w) PROVE CallInv'
  <2>1. CASE Goto(w, "compose") /\ UNCHANGED <<iter, call, attempts>>
    BY <1>g, <2>1 DEF PC
  <2>2. ASSUME iter[w] < MaxSteps, NEW c \in Call, call' = [call EXCEPT ![w] = c],
               iter' = [iter EXCEPT ![w] = @ + 1], Goto(w, "dispatch")
        PROVE  CallInv'
    <3>1. iter[w] + 1 \in 1..MaxSteps
      BY <1>t, <2>2
    <3> QED
      BY <1>c, <1>t, <2>2, <3>1 DEF CallInv, Goto
  <2> QED
    BY <1>4, <2>1, <2>2 DEF Reason
<1>5. ASSUME NEW w \in Worker, Dispatch(w) PROVE CallInv'
  <2>1. CASE StopDispatch(w) \/ RefuseDispatch(w)
    BY <1>l, <2>1 DEF StopDispatch, RefuseDispatch
  <2>2. CASE SkipDispatch(w)
    BY <1>g, <2>2 DEF SkipDispatch, PC, local
  <2>3. CASE BeginStep(w)
    BY <1>h, <1>5, <2>3 DEF Dispatch, BeginStep, local
  <2> QED
    BY <1>5, <2>1, <2>2, <2>3 DEF Dispatch
<1>6. ASSUME NEW w \in Worker, SendTask(w) PROVE CallInv'
  BY <1>h, <1>6 DEF SendTask, local
<1>7. ASSUME NEW w \in Worker,
             \/ ProcessRun(w) \/ LoadContext(w) \/ Critique(w) \/ PostAnswer(w) \/ Complete(w)
             \/ RecordTurn(w) \/ Ack(w) \/ \E o \in {"completed", "failed"} : RecordStep(w, o)
      PROVE  CallInv'
  BY <1>g, <1>l, <1>7
     DEF ProcessRun, LoadContext, Critique, PostAnswer, Complete, RecordTurn, Ack, RecordStep, PC, local
<1>8. ASSUME UNCHANGED vars PROVE CallInv'
  BY <1>0, <1>8 DEF vars, local
<1> QED
  BY <1>1, <1>2, <1>3, <1>4, <1>5, <1>6, <1>7, <1>8 DEF Next, WorkerStep

\* A run with a message in the broker or in a worker's hands has been created,
\* and a worker past its first transaction holds a run that started or ended.
LEMMA StatusInvStep == ASSUME IInv, [Next]_vars PROVE StatusInv'
<1> USE DEF Terminal
<1>i. StatusInv
  BY DEF IInv
<1>m. \A r \in Run : StatusMove(r)
  BY StatusMoves
<1>t. /\ pc \in [Worker -> PC] /\ job \in [Worker -> Run \cup {NoRun}]
      /\ \A w \in Worker : pc[w] # "idle" => job[w] \in Run
  BY Locals DEF IInv
<1>v. /\ status \in [Run -> Status] /\ api \in [Run -> ApiState]
      /\ canceling \in [Run -> BOOLEAN] /\ queue \in [Run -> Nat]
  BY DEF IInv, TypeOK
\* a step that changes no worker's run keeps what the workers know
<1>0. ASSUME UNCHANGED <<pc, job>>
      PROVE  \A w \in Worker :
               /\ pc'[w] # "idle" => status'[job'[w]] # "none"
               /\ pc'[w] \notin {"idle", "start"} => status'[job'[w]] \in {"running"} \cup Terminal
               /\ pc'[w] = "history" => status'[job'[w]] = "completed"
  BY <1>0, <1>i, <1>m, <1>t DEF StatusInv, StatusMove, IsTerminal
\* a worker that leaves knows nothing; the others know what they knew
<1>l. ASSUME NEW w \in Worker, Leave(w)
      PROVE  \A v \in Worker :
               /\ pc'[v] # "idle" => status'[job'[v]] # "none"
               /\ pc'[v] \notin {"idle", "start"} => status'[job'[v]] \in {"running"} \cup Terminal
               /\ pc'[v] = "history" => status'[job'[v]] = "completed"
  BY <1>l, <1>i, <1>m, <1>t DEF StatusInv, StatusMove, IsTerminal, Leave, Goto
\* a worker that moves on knows what it has just read or written
<1>g. ASSUME NEW w \in Worker, job' = job, NEW p \in PC, Goto(w, p), pc[w] # "idle",
             status'[job[w]] \in {"running"} \cup Terminal,
             p = "history" => status'[job[w]] = "completed"
      PROVE  \A v \in Worker :
               /\ pc'[v] # "idle" => status'[job'[v]] # "none"
               /\ pc'[v] \notin {"idle", "start"} => status'[job'[v]] \in {"running"} \cup Terminal
               /\ pc'[v] = "history" => status'[job'[v]] = "completed"
  BY <1>g, <1>i, <1>m, <1>t DEF StatusInv, StatusMove, IsTerminal, Goto
\* the runs, when the broker and the control plane are left alone
<1>r. ASSUME UNCHANGED <<control, queue>>, NEW q \in Run, status[q] # "none",
             \A r \in Run \ {q} : status'[r] = status[r]
      PROVE  /\ \A r \in Run : api'[r] = "new" <=> status'[r] = "none"
             /\ \A r \in Run : canceling'[r] \/ queue'[r] > 0 => status'[r] # "none"
  BY <1>r, <1>i, <1>m DEF StatusInv, StatusMove, control
<1>1. ASSUME NEW r \in Run, CreateRun(r) PROVE StatusInv'
  <2>1. /\ \A q \in Run : api'[q] = "new" <=> status'[q] = "none"
        /\ \A q \in Run : canceling'[q] \/ queue'[q] > 0 => status'[q] # "none"
    BY <1>1, <1>i, <1>v DEF StatusInv, CreateRun, SetStatus, ApiState
  <2> QED
    BY <1>0, <1>1, <2>1 DEF StatusInv, CreateRun, local
<1>2. ASSUME NEW r \in Run, Enqueue(r) \/ LoseEnqueue(r) PROVE StatusInv'
  <2>1. /\ \A q \in Run : api'[q] = "new" <=> status'[q] = "none"
        /\ \A q \in Run : canceling'[q] \/ queue'[q] > 0 => status'[q] # "none"
    BY <1>2, <1>i, <1>v DEF StatusInv, Enqueue, LoseEnqueue, db, ApiState
  <2> QED
    BY <1>0, <1>2, <2>1 DEF StatusInv, Enqueue, LoseEnqueue, local
<1>3. ASSUME NEW r \in Run, ReadForCancel(r) \/ WriteCancel(r) \/ Expire(r) PROVE StatusInv'
  <2>1. /\ \A q \in Run : api'[q] = "new" <=> status'[q] = "none"
        /\ \A q \in Run : canceling'[q] \/ queue'[q] > 0 => status'[q] # "none"
    BY <1>3, <1>i, <1>v DEF StatusInv, ReadForCancel, WriteCancel, Expire, db, control
  <2> QED
    BY <1>0, <1>3, <2>1 DEF StatusInv, ReadForCancel, WriteCancel, Expire, local
<1>4. ASSUME NEW w \in Worker, NEW r \in Run, Receive(w, r) PROVE StatusInv'
  <2>1. status' = status /\ status[r] # "none"
    BY <1>4, <1>i DEF StatusInv, Receive, db
  <2>2. /\ \A q \in Run : api'[q] = "new" <=> status'[q] = "none"
        /\ \A q \in Run : canceling'[q] \/ queue'[q] > 0 => status'[q] # "none"
    BY <1>4, <1>i, <1>v, <2>1 DEF StatusInv, Receive, control
  <2>3. \A v \in Worker :
          /\ pc'[v] # "idle" => status'[job'[v]] # "none"
          /\ pc'[v] \notin {"idle", "start"} => status'[job'[v]] \in {"running"} \cup Terminal
          /\ pc'[v] = "history" => status'[job'[v]] = "completed"
    BY <1>4, <1>i, <1>t, <2>1 DEF StatusInv, Receive, Goto
  <2> QED
    BY <2>2, <2>3 DEF StatusInv
<1>5. ASSUME NEW w \in Worker, Crash(w) \/ Redeliver(w) PROVE StatusInv'
  <2>1. status' = status /\ api' = api /\ canceling' = canceling
    BY <1>5 DEF Crash, Redeliver, db, control
  <2>2. pc[w] # "idle" /\ queue' = [queue EXCEPT ![job[w]] = @ + 1]
    BY <1>5 DEF Crash, Redeliver
  <2>3. /\ \A q \in Run : api'[q] = "new" <=> status'[q] = "none"
        /\ \A q \in Run : canceling'[q] \/ queue'[q] > 0 => status'[q] # "none"
    BY <1>i, <1>t, <1>v, <2>1, <2>2 DEF StatusInv
  <2> QED
    BY <1>0, <1>l, <1>5, <2>3 DEF StatusInv, Crash, Redeliver, local
\* every step of a worker touches the status of its own run at most
<1>s. \A w \in Worker : WorkerStep(w) \/ TaskError(w) =>
         /\ pc[w] # "idle"
         /\ UNCHANGED <<control, queue>>
         /\ \A r \in Run \ {job[w]} : status'[r] = status[r]
  <2>1. \A w \in Worker : WorkerStep(w) \/ TaskError(w) => pc[w] # "idle" /\ UNCHANGED <<control, queue>>
    BY DEF WorkerStep, TaskError, ProcessRun, LoadContext, Reason, Dispatch, SendTask, RecordStep,
           Critique, PostAnswer, Complete, RecordTurn, Ack
  <2>2. \A w \in Worker : WorkerStep(w) \/ TaskError(w) =>
           status' = status \/ \E x \in Status : SetStatus(job[w], x)
    BY DEF WorkerStep, TaskError, ProcessRun, LoadContext, Reason, Dispatch, StopDispatch,
           SkipDispatch, RefuseDispatch, BeginStep, SendTask, RecordStep, Critique, PostAnswer,
           Complete, RecordTurn, Ack, db, Status
  <2> QED
    BY <1>v, <2>1, <2>2 DEF SetStatus
<1>6. ASSUME NEW w \in Worker, WorkerStep(w) \/ TaskError(w)
      PROVE  /\ \A r \in Run : api'[r] = "new" <=> status'[r] = "none"
             /\ \A r \in Run : canceling'[r] \/ queue'[r] > 0 => status'[r] # "none"
  <2>1. status[job[w]] # "none" /\ job[w] \in Run
    BY <1>6, <1>s, <1>i, <1>t DEF StatusInv
  <2> QED
    BY <1>6, <1>s, <1>r, <2>1
<1>7. ASSUME NEW w \in Worker, TaskError(w) PROVE StatusInv'
  BY <1>6, <1>7, <1>l DEF TaskError, StatusInv
<1>8. ASSUME NEW w \in Worker, ProcessRun(w) PROVE StatusInv'
  <2>1. WorkerStep(w) /\ pc[w] # "idle" /\ job[w] \in Run
    BY <1>8, <1>t DEF WorkerStep, ProcessRun
  <2>2. CASE Leave(w)
    BY <1>6, <1>l, <2>1, <2>2 DEF StatusInv
  <2>3. CASE SetStatus(job[w], "running") /\ Goto(w, "load") /\ UNCHANGED local
    <3>1. status'[job[w]] = "running"
      BY <1>v, <2>1, <2>3 DEF SetStatus
    <3> QED
      BY <1>6, <1>g, <2>1, <2>3, <3>1 DEF StatusInv, PC, local
  <2> QED
    BY <1>8, <2>2, <2>3 DEF ProcessRun
<1>9. ASSUME NEW w \in Worker, Complete(w) PROVE StatusInv'
  <2>1. WorkerStep(w) /\ pc[w] # "idle" /\ job[w] \in Run
    BY <1>9, <1>t DEF WorkerStep, Complete
  <2>2. CASE Leave(w)
    BY <1>6, <1>l, <2>1, <2>2 DEF StatusInv
  <2>3. CASE status'[job[w]] = "completed" /\ Goto(w, "history") /\ UNCHANGED local
    BY <1>6, <1>g, <2>1, <2>3 DEF StatusInv, PC, local
  <2> QED
    BY <1>9, <1>v, <2>1, <2>2, <2>3 DEF Complete, SetStatus
\* the other steps go on under a status that has started or ended
<1>o. ASSUME NEW w \in Worker, WorkerStep(w), pc[w] \notin {"idle", "start"}, job' = job,
             NEW p \in PC \ {"history"}, Goto(w, p)
      PROVE  StatusInv'
  <2>1. status'[job[w]] \in {"running"} \cup Terminal
    BY <1>o, <1>i, <1>m, <1>t DEF StatusInv, StatusMove, IsTerminal
  <2> QED
    BY <1>6, <1>g, <1>o, <2>1 DEF StatusInv
<1>10. ASSUME NEW w \in Worker, Dispatch(w) PROVE StatusInv'
  <2>1. WorkerStep(w) /\ pc[w] = "dispatch"
    BY <1>10 DEF WorkerStep, Dispatch
  <2>2. CASE Leave(w)
    BY <1>6, <1>l, <2>1, <2>2 DEF StatusInv
  <2>3. CASE job' = job /\ (Goto(w, "critique") \/ Goto(w, "hop"))
    BY <1>o, <2>1, <2>3 DEF PC
  <2> QED
    BY <1>10, <2>2, <2>3
       DEF Dispatch, StopDispatch, SkipDispatch, RefuseDispatch, BeginStep, local
<1>11. ASSUME NEW w \in Worker, LoadContext(w) \/ Ack(w) PROVE StatusInv'
  <2>1. WorkerStep(w)
    BY <1>11 DEF WorkerStep
  <2>2. CASE Leave(w)
    BY <1>6, <1>l, <2>1, <2>2 DEF StatusInv
  <2>3. CASE pc[w] = "load" /\ job' = job /\ Goto(w, "reason")
    BY <1>o, <2>1, <2>3 DEF PC
  <2> QED
    BY <1>11, <2>2, <2>3 DEF LoadContext, Ack, local
<1>12. ASSUME NEW w \in Worker,
              \/ Reason(w) \/ SendTask(w) \/ Critique(w) \/ PostAnswer(w) \/ RecordTurn(w)
              \/ \E o \in {"completed", "failed"} : RecordStep(w, o)
       PROVE  StatusInv'
  <2>1. WorkerStep(w) /\ pc[w] \notin {"idle", "start"} /\ job' = job
    BY <1>12 DEF WorkerStep, Reason, SendTask, Critique, PostAnswer, RecordTurn, RecordStep, local
  <2>2. \E p \in PC \ {"history"} : Goto(w, p)
    BY <1>12 DEF Reason, SendTask, Critique, PostAnswer, RecordTurn, RecordStep, PC
  <2> QED
    BY <1>o, <2>1, <2>2
<1>13. ASSUME UNCHANGED vars PROVE StatusInv'
  BY <1>i, <1>13 DEF StatusInv, vars, db, control, local
<1> QED
  BY <1>1, <1>2, <1>3, <1>4, <1>5, <1>7, <1>8, <1>9, <1>10, <1>11, <1>12, <1>13
     DEF Next, WorkerStep

\* The holder of a hop's row is unique and sends at most one task under it: a
\* second row for the key is never admitted, and a recorded row is not reopened.
LEMMA HopInvStep == ASSUME IInv, [Next]_vars PROVE HopInv'
<1>i. HopInv
  BY DEF IInv
<1>t. /\ pc \in [Worker -> PC] /\ job \in [Worker -> Run \cup {NoRun}]
      /\ iter \in [Worker -> 0..MaxSteps] /\ call \in [Worker -> Call \cup {NoCall}]
  BY Locals DEF IInv
<1>l. /\ step \in [Run -> [Key -> StepStatus]] /\ sent \in [Run -> [Key -> Nat]]
  BY DEF IInv, TypeOK
<1>k. \A w \in Worker : pc[w] \in {"dispatch", "hop", "await"} => job[w] \in Run /\ KeyOf(w) \in Key
  BY HopKey DEF IInv
\* a step that leaves the ledger alone and lets no worker into a hop
<1>0. ASSUME UNCHANGED <<step, sent>>,
             \A v \in Worker : pc'[v] \in {"hop", "await"} =>
                pc'[v] = pc[v] /\ job'[v] = job[v] /\ KeyOf(v)' = KeyOf(v)
      PROVE  HopInv'
  BY <1>0, <1>i DEF HopInv
<1>u. ASSUME UNCHANGED <<step, sent, pc, job, iter, call>> PROVE HopInv'
  BY <1>u, <1>0 DEF KeyOf
<1>v. ASSUME UNCHANGED <<step, sent>>, NEW w \in Worker, Leave(w) PROVE HopInv'
  BY <1>v, <1>t, <1>0 DEF KeyOf, Leave, Goto
<1>g. ASSUME UNCHANGED <<step, sent, job, iter, call>>, NEW w \in Worker,
             NEW p \in PC \ {"hop", "await"}, Goto(w, p)
      PROVE  HopInv'
  BY <1>g, <1>t, <1>0 DEF KeyOf, Goto
<1>1. ASSUME NEW r \in Run,
             \/ CreateRun(r) \/ Enqueue(r) \/ LoseEnqueue(r) \/ ReadForCancel(r)
             \/ WriteCancel(r) \/ Expire(r)
      PROVE  HopInv'
  BY <1>1, <1>u
     DEF CreateRun, Enqueue, LoseEnqueue, ReadForCancel, WriteCancel, Expire, local, db, effects
<1>2. ASSUME NEW r \in Run, NEW w \in Worker, Receive(w, r) PROVE HopInv'
  BY <1>2, <1>t, <1>0 DEF Receive, Goto, KeyOf, db, effects
<1>3. ASSUME NEW w \in Worker, Crash(w) \/ Redeliver(w) \/ TaskError(w) PROVE HopInv'
  BY <1>3, <1>u, <1>v DEF Crash, Redeliver, TaskError, db, effects, local
<1>4. ASSUME NEW w \in Worker, Reason(w) PROVE HopInv'
  <2>1. \E p \in {"compose", "dispatch"} : Goto(w, p)
    BY <1>4 DEF Reason
  <2>2. \A v \in Worker \ {w} : KeyOf(v)' = KeyOf(v)
    BY <1>4, <1>t DEF Reason, KeyOf
  <2> QED
    BY <1>4, <1>t, <1>0, <2>1, <2>2 DEF Reason, Goto, db, effects
<1>5. ASSUME NEW w \in Worker, Dispatch(w) PROVE HopInv'
  <2>1. CASE StopDispatch(w) \/ RefuseDispatch(w)
    BY <1>5, <2>1, <1>v DEF Dispatch, StopDispatch, RefuseDispatch, effects
  <2>2. CASE SkipDispatch(w)
    BY <1>5, <2>2, <1>g DEF Dispatch, SkipDispatch, PC, effects, local
  <2>3. CASE BeginStep(w)
    <3>1. /\ step[job[w]][KeyOf(w)] = "none" /\ sent' = sent
          /\ step' = [step EXCEPT ![job[w]][KeyOf(w)] = "running"]
          /\ pc' = [pc EXCEPT ![w] = "hop"]
          /\ job' = job /\ \A v \in Worker : KeyOf(v)' = KeyOf(v)
      BY <1>5, <2>3 DEF Dispatch, BeginStep, Goto, effects, local, KeyOf
    <3>2. job[w] \in Run /\ KeyOf(w) \in Key
      BY <1>5, <1>k DEF Dispatch
    <3>3. sent[job[w]][KeyOf(w)] = 0
      BY <1>i, <3>1, <3>2 DEF HopInv
    <3>4. \A r \in Run, k \in Key :
             step'[r][k] = IF r = job[w] /\ k = KeyOf(w) THEN "running" ELSE step[r][k]
      BY <1>l, <3>1, <3>2
    <3>5. \A v \in Worker : pc[v] \in {"hop", "await"} => ~(job[v] = job[w] /\ KeyOf(v) = KeyOf(w))
      BY <1>i, <3>1 DEF HopInv
    <3>6. \A v \in Worker : pc'[v] \in {"hop", "await"} => job[v] \in Run /\ KeyOf(v) \in Key
      BY <1>t, <1>k, <3>1, <3>2
    <3>7. \A v \in Worker : pc'[v] = IF v = w THEN "hop" ELSE pc[v]
      BY <1>t, <3>1
    <3>8. (\A r \in Run, k \in Key :
              /\ sent[r][k] \in {0, 1}
              /\ step[r][k] = "none" => sent[r][k] = 0)'
      BY <1>i, <3>1, <3>4 DEF HopInv
    <3>9. (\A v \in Worker :
              /\ pc[v] = "hop"   => step[job[v]][KeyOf(v)] = "running" /\ sent[job[v]][KeyOf(v)] = 0
              /\ pc[v] = "await" => step[job[v]][KeyOf(v)] = "running" /\ sent[job[v]][KeyOf(v)] = 1)'
      BY <1>i, <3>1, <3>3, <3>4, <3>6, <3>7 DEF HopInv
    <3>10. (\A v, x \in Worker :
              /\ pc[v] \in {"hop", "await"} /\ pc[x] \in {"hop", "await"}
              /\ job[v] = job[x] /\ KeyOf(v) = KeyOf(x)
              => v = x)'
      BY <1>i, <3>1, <3>5, <3>7 DEF HopInv
    <3> QED
      BY <3>8, <3>9, <3>10 DEF HopInv
  <2> QED
    BY <1>5, <2>1, <2>2, <2>3 DEF Dispatch
<1>6. ASSUME NEW w \in Worker, SendTask(w) PROVE HopInv'
  <2>1. /\ pc[w] = "hop" /\ step' = step
        /\ sent' = [sent EXCEPT ![job[w]][KeyOf(w)] = @ + 1]
        /\ pc' = [pc EXCEPT ![w] = "await"]
        /\ job' = job /\ \A v \in Worker : KeyOf(v)' = KeyOf(v)
    BY <1>6 DEF SendTask, Goto, db, local, KeyOf
  <2>2. job[w] \in Run /\ KeyOf(w) \in Key
    BY <2>1, <1>k
  <2>3. step[job[w]][KeyOf(w)] = "running" /\ sent[job[w]][KeyOf(w)] = 0
    BY <1>i, <2>1 DEF HopInv
  <2>4. \A r \in Run, k \in Key :
           sent'[r][k] = IF r = job[w] /\ k = KeyOf(w) THEN 1 ELSE sent[r][k]
    BY <1>l, <2>1, <2>2, <2>3
  <2>5. \A v \in Worker : pc'[v] = IF v = w THEN "await" ELSE pc[v]
    BY <1>t, <2>1
  <2>6. \A v \in Worker \ {w} : pc[v] \in {"hop", "await"} =>
           /\ job[v] \in Run /\ KeyOf(v) \in Key
           /\ ~(job[v] = job[w] /\ KeyOf(v) = KeyOf(w))
    BY <1>i, <1>k, <2>1 DEF HopInv
  <2>7. (\A r \in Run, k \in Key :
            /\ sent[r][k] \in {0, 1}
            /\ step[r][k] = "none" => sent[r][k] = 0)'
    BY <1>i, <2>1, <2>3, <2>4 DEF HopInv
  <2>8. (\A v \in Worker :
            /\ pc[v] = "hop"   => step[job[v]][KeyOf(v)] = "running" /\ sent[job[v]][KeyOf(v)] = 0
            /\ pc[v] = "await" => step[job[v]][KeyOf(v)] = "running" /\ sent[job[v]][KeyOf(v)] = 1)'
    BY <1>i, <2>1, <2>2, <2>3, <2>4, <2>5, <2>6 DEF HopInv
  <2>9. (\A v, x \in Worker :
            /\ pc[v] \in {"hop", "await"} /\ pc[x] \in {"hop", "await"}
            /\ job[v] = job[x] /\ KeyOf(v) = KeyOf(x)
            => v = x)'
    BY <1>i, <2>1, <2>5, <2>6 DEF HopInv
  <2> QED
    BY <2>7, <2>8, <2>9 DEF HopInv
<1>7. ASSUME NEW w \in Worker, NEW o \in {"completed", "failed"}, RecordStep(w, o) PROVE HopInv'
  <2>1. /\ pc[w] = "await" /\ sent' = sent
        /\ step' = [step EXCEPT ![job[w]][KeyOf(w)] = o]
        /\ pc' = [pc EXCEPT ![w] = "critique"]
        /\ job' = job /\ \A v \in Worker : KeyOf(v)' = KeyOf(v)
    BY <1>7 DEF RecordStep, Goto, effects, local, KeyOf
  <2>2. job[w] \in Run /\ KeyOf(w) \in Key
    BY <2>1, <1>k
  <2>4. \A r \in Run, k \in Key :
           step'[r][k] = IF r = job[w] /\ k = KeyOf(w) THEN o ELSE step[r][k]
    BY <1>l, <2>1, <2>2
  <2>5. \A v \in Worker : pc'[v] = IF v = w THEN "critique" ELSE pc[v]
    BY <1>t, <2>1
  <2>6. \A v \in Worker \ {w} : pc[v] \in {"hop", "await"} =>
           /\ job[v] \in Run /\ KeyOf(v) \in Key
           /\ ~(job[v] = job[w] /\ KeyOf(v) = KeyOf(w))
    BY <1>i, <1>k, <2>1 DEF HopInv
  <2>7. (\A r \in Run, k \in Key :
            /\ sent[r][k] \in {0, 1}
            /\ step[r][k] = "none" => sent[r][k] = 0)'
    BY <1>i, <2>1, <2>4 DEF HopInv
  <2>8. (\A v \in Worker :
            /\ pc[v] = "hop"   => step[job[v]][KeyOf(v)] = "running" /\ sent[job[v]][KeyOf(v)] = 0
            /\ pc[v] = "await" => step[job[v]][KeyOf(v)] = "running" /\ sent[job[v]][KeyOf(v)] = 1)'
    BY <1>i, <2>1, <2>4, <2>5, <2>6 DEF HopInv
  <2>9. (\A v, x \in Worker :
            /\ pc[v] \in {"hop", "await"} /\ pc[x] \in {"hop", "await"}
            /\ job[v] = job[x] /\ KeyOf(v) = KeyOf(x)
            => v = x)'
    BY <1>i, <2>1, <2>5 DEF HopInv
  <2> QED
    BY <2>7, <2>8, <2>9 DEF HopInv
<1>8. ASSUME NEW w \in Worker,
             \/ ProcessRun(w) \/ LoadContext(w) \/ Critique(w) \/ PostAnswer(w) \/ Complete(w)
             \/ RecordTurn(w) \/ Ack(w)
      PROVE  HopInv'
  BY <1>8, <1>g, <1>v
     DEF ProcessRun, LoadContext, Critique, PostAnswer, Complete, RecordTurn, Ack, PC, db, effects,
         local
<1>9. ASSUME UNCHANGED vars PROVE HopInv'
  BY <1>9, <1>u DEF vars, db, effects, local
<1> QED
  BY <1>1, <1>2, <1>3, <1>4, <1>5, <1>6, <1>7, <1>8, <1>9 DEF Next, WorkerStep

\* Only a worker that saw its run completed appends the turn, and a completed
\* run stays completed.
LEMMA TurnStep == ASSUME IInv, [Next]_vars PROVE TurnOnlyIfCompleted'
<1>i. TurnOnlyIfCompleted /\ turns \in [Run -> Nat]
  BY DEF IInv, TypeOK
<1>m. \A r \in Run : StatusMove(r)
  BY StatusMoves
<1>0. ASSUME turns' = turns PROVE TurnOnlyIfCompleted'
  BY <1>0, <1>i, <1>m DEF TurnOnlyIfCompleted, StatusMove, IsTerminal, Terminal
<1>1. ASSUME NEW w \in Worker, RecordTurn(w) PROVE TurnOnlyIfCompleted'
  <2>1. status[job[w]] = "completed" /\ status' = status
    BY <1>1 DEF RecordTurn, IInv, StatusInv, db
  <2>2. CASE turns' = turns
    BY <1>0, <2>2
  <2>3. CASE turns' = [turns EXCEPT ![job[w]] = @ + 1]
    BY <1>i, <2>1, <2>3 DEF TurnOnlyIfCompleted
  <2> QED
    BY <1>1, <2>2, <2>3 DEF RecordTurn
<1>2. ASSUME NEW w \in Worker, WorkerStep(w), ~RecordTurn(w) PROVE turns' = turns
  BY <1>2 DEF WorkerStep, ProcessRun, LoadContext, Reason, Dispatch, SendTask, RecordStep, Critique,
     PostAnswer, Complete, Ack, effects
<1>3. ASSUME NEW w \in Worker, Crash(w) \/ Redeliver(w) \/ TaskError(w) PROVE turns' = turns
  BY <1>3 DEF Crash, Redeliver, TaskError, effects
<1>4. ASSUME NEW r \in Run,
             \/ CreateRun(r) \/ Enqueue(r) \/ LoseEnqueue(r) \/ ReadForCancel(r)
             \/ WriteCancel(r) \/ Expire(r) \/ \E w \in Worker : Receive(w, r)
      PROVE  turns' = turns
  BY <1>4
     DEF CreateRun, Enqueue, LoseEnqueue, ReadForCancel, WriteCancel, Expire, Receive, effects
<1>5. ASSUME UNCHANGED vars PROVE turns' = turns
  BY <1>5 DEF vars, effects
<1> QED
  BY <1>0, <1>1, <1>2, <1>3, <1>4, <1>5 DEF Next

\* The invariant holds initially.
LEMMA InitIInv == Init => IInv
<1> SUFFICES ASSUME Init PROVE IInv
  OBVIOUS
<1>1. CallInv
  BY DEF Init, CallInv
<1>2. StatusInv
  BY DEF Init, StatusInv
<1>3. HopInv
  BY DEF Init, HopInv
<1>4. TurnOnlyIfCompleted
  BY DEF Init, TurnOnlyIfCompleted
<1> QED
  BY InitTypeOK, <1>1, <1>2, <1>3, <1>4 DEF IInv

\* The inductive invariant of the protocol.
THEOREM Invariance == Spec => []IInv
<1>1. IInv /\ [Next]_vars => IInv'
  BY NextTypeOK, CallInvStep, StatusInvStep, HopInvStep, TurnStep DEF IInv
<1> QED
  BY InitIInv, <1>1, PTL DEF Spec

-----------------------------------------------------------------------------
(* The properties of AgentRun that follow *)

\* Type correctness, for every number of runs, workers, steps and faults.
THEOREM TypeCorrect == Spec => []TypeOK
<1>1. IInv => TypeOK
  BY DEF IInv
<1> QED
  BY Invariance, <1>1, PTL

\* No hop's task is sent twice, however often the run's message is delivered.
THEOREM SendsOnce == Spec => []HopSentOnce
<1>1. IInv => HopSentOnce
  BY DEF IInv, HopInv, HopSentOnce
<1> QED
  BY Invariance, <1>1, PTL

\* A hop that is out belongs to exactly one worker and its row says running.
THEOREM OneOwner == Spec => []SoleOwner
<1>1. IInv => SoleOwner
  BY DEF IInv, HopInv, SoleOwner, Owns
<1> QED
  BY Invariance, <1>1, PTL

\* Only a completed run enters the conversation's history.
THEOREM TurnsAreOfCompletedRuns == Spec => []TurnOnlyIfCompleted
<1>1. IInv => TurnOnlyIfCompleted
  BY DEF IInv
<1> QED
  BY Invariance, <1>1, PTL

\* A terminal status is final, whichever workers and users act on the run.
THEOREM TerminalStays == Spec => TerminalIsFinal
<1>1. IInv /\ [Next]_vars => [\A r \in Run : IsTerminal(r) => status'[r] = status[r]]_vars
  BY StatusMoves DEF StatusMove
<1> QED
  BY Invariance, <1>1, PTL DEF Spec, TerminalIsFinal

-----------------------------------------------------------------------------
(* The event log *)

Final == {"run.canceled", "run.completed"}

EndsIn(s) == {i \in DOMAIN s : s[i] \in Final}

\* Batches without a terminal event.
Quiet == {<<"run.accepted", "run.started">>, <<"planner.started">>, <<"agent.call.started">>,
          <<"agent.call.completed">>, <<"agent.call.failed">>}

LEMMA QuietBatches ==
    ASSUME NEW s \in Seq(EventType), NEW t \in Quiet
    PROVE  /\ EndsIn(s \o t) = EndsIn(s)
           /\ \A i \in EndsIn(s) : (s \o t)[i] = s[i]
<1>1. t \in Seq(EventType) /\ EndsIn(t) = {}
  <2>1. t \in Seq(EventType)
    BY EventBatches DEF Quiet
  <2>2. CASE t = <<"run.accepted", "run.started">>
    <3>1. \A i \in DOMAIN t : i = 1 \/ i = 2
      BY <2>2
    <3>2. t[1] \notin Final /\ t[2] \notin Final
      BY <2>2 DEF Final
    <3>3. \A i \in DOMAIN t : t[i] \notin Final
      BY <3>1, <3>2
    <3> QED  BY <2>1, <3>3 DEF EndsIn
  <2>3. ASSUME NEW e \in EventType \ Final, t = <<e>>  PROVE EndsIn(t) = {}
    BY <2>3 DEF EndsIn, Final
  <2> QED  BY <2>1, <2>2, <2>3 DEF Quiet, EventType, Final
<1>2. /\ DOMAIN (s \o t) = 1 .. Len(s) + Len(t)
      /\ \A i \in 1 .. Len(s) : (s \o t)[i] = s[i]
      /\ \A i \in (Len(s) + 1) .. (Len(s) + Len(t)) : (s \o t)[i] = t[i - Len(s)]
  <2>1. /\ DOMAIN (s \o t) = 1 .. Len(s \o t)
        /\ Len(s \o t) = Len(s) + Len(t)
    BY <1>1
  <2> QED  BY <1>1, <2>1, ConcatProperties
<1>3. \A i \in (Len(s) + 1) .. (Len(s) + Len(t)) : (s \o t)[i] \notin Final
  <2> TAKE i \in (Len(s) + 1) .. (Len(s) + Len(t))
  <2>1. i - Len(s) \in DOMAIN t
    BY <1>1
  <2>2. t[i - Len(s)] \notin Final
    BY <1>1, <2>1 DEF EndsIn
  <2> QED  BY <1>2, <2>2
<1>4. DOMAIN s = 1 .. Len(s) /\ Len(s) \in Nat /\ Len(t) \in Nat
  BY <1>1
<1> QED  BY <1>2, <1>3, <1>4 DEF EndsIn

LEMMA FinalEvent ==
    ASSUME NEW s \in Seq(EventType), EndsIn(s) = {}, NEW e \in Final
    PROVE  EndsIn(s \o <<e>>) = {Len(s) + 1} /\ (s \o <<e>>)[Len(s) + 1] = e
<1>1. <<e>> \in Seq(EventType) /\ Len(<<e>>) = 1 /\ <<e>>[1] = e
  BY DEF Final, EventType
<1>2. /\ DOMAIN (s \o <<e>>) = 1 .. Len(s) + 1 /\ Len(s) \in Nat
      /\ \A i \in 1 .. Len(s) : (s \o <<e>>)[i] = s[i]
      /\ (s \o <<e>>)[Len(s) + 1] = e
  BY <1>1
<1>3. \A i \in 1 .. Len(s) : s[i] \notin Final
  BY DEF EndsIn
<1> QED  BY <1>2, <1>3 DEF EndsIn

Ended(s) == s \in {"canceled", "completed"}

LogOf(r) ==
    IF Ended(status[r]) THEN \E i : Ends(r) = {i} /\ log[r][i] = EndEvent(status[r])
    ELSE Ends(r) = {}

\* What a step does to a run's status and log: it ends the run with its event, or
\* writes no such event and ends nothing.
LogStep(r) ==
    \/ /\ status'[r] = status[r] \/ (~Ended(status[r]) /\ ~Ended(status'[r]))
       /\ log'[r] = log[r] \/ \E t \in Quiet : log'[r] = log[r] \o t
    \/ /\ ~Ended(status[r]) /\ Ended(status'[r])
       /\ log'[r] = log[r] \o <<EndEvent(status'[r])>>

LEMMA LogKept ==
    ASSUME NEW r \in Run, log[r] \in Seq(EventType), LogOf(r), LogStep(r)
    PROVE  LogOf(r)'
<1>1. Ends(r) = EndsIn(log[r]) /\ Ends(r)' = EndsIn(log'[r])
  BY DEF Ends, EndsIn, Final
<1>2. CASE /\ status'[r] = status[r] \/ (~Ended(status[r]) /\ ~Ended(status'[r]))
           /\ log'[r] = log[r] \/ \E t \in Quiet : log'[r] = log[r] \o t
  <2>1. EndsIn(log'[r]) = EndsIn(log[r]) /\ \A i \in EndsIn(log[r]) : log'[r][i] = log[r][i]
    BY <1>2, QuietBatches
  <2> QED  BY <1>1, <1>2, <2>1 DEF LogOf
<1>3. CASE /\ ~Ended(status[r]) /\ Ended(status'[r])
           /\ log'[r] = log[r] \o <<EndEvent(status'[r])>>
  <2>1. EndsIn(log[r]) = {}
    BY <1>1, <1>3 DEF LogOf
  <2>2. EndEvent(status'[r]) \in Final
    BY DEF EndEvent, Final
  <2>3. /\ EndsIn(log'[r]) = {Len(log[r]) + 1}
        /\ log'[r][Len(log[r]) + 1] = EndEvent(status'[r])
    BY <1>3, <2>1, <2>2, FinalEvent
  <2> QED  BY <1>1, <1>3, <2>3 DEF LogOf
<1> QED  BY <1>2, <1>3 DEF LogStep

\* One run is written at a time.
LEMMA OneLogStep ==
    ASSUME TypeOK, NEW q \in Run, NEW s, NEW t,
           status' = [status EXCEPT ![q] = s] \/ (status' = status /\ s = status[q]),
           log' = [log EXCEPT ![q] = @ \o t] \/ (log' = log /\ t = <<>>),
           \/ (s = status[q] \/ (~Ended(status[q]) /\ ~Ended(s))) /\ t \in Quiet \cup {<<>>}
           \/ ~Ended(status[q]) /\ Ended(s) /\ t = <<EndEvent(s)>>
    PROVE  \A r \in Run : LogStep(r)
<1>1. /\ status'[q] = s
      /\ \A r \in Run \ {q} : status'[r] = status[r] /\ log'[r] = log[r]
  BY DEF TypeOK
<1>2. log[q] \in Seq(EventType)
  BY DEF TypeOK
<1>3. log'[q] = log[q] \o t \/ (log'[q] = log[q] /\ t = <<>>)
  BY DEF TypeOK
<1>4. log[q] \o <<>> = log[q]
  BY <1>2
<1>5. LogStep(q)
  BY <1>1, <1>3, <1>4 DEF LogStep
<1> QED  BY <1>1, <1>5 DEF LogStep

LEMMA LogSteps ==
    ASSUME IInv, [Next]_vars
    PROVE  \A r \in Run : LogStep(r)
<1> USE DEF SetStatus, Emit, IsTerminal, Terminal
<1>t. /\ TypeOK
      /\ \A w \in Worker : pc[w] # "idle" => job[w] \in Run /\ status[job[w]] # "none"
  BY DEF IInv, TypeOK, StatusInv
<1>0. ASSUME UNCHANGED <<status, log>>  PROVE \A r \in Run : LogStep(r)
  BY <1>0 DEF LogStep
<1>1. ASSUME NEW q \in Run, CreateRun(q)  PROVE \A r \in Run : LogStep(r)
  <2>1. status[q] = "none" /\ status' = [status EXCEPT ![q] = "queued"] /\ log' = log
    BY <1>1 DEF CreateRun, IInv, StatusInv
  <2> QED  BY <1>t, <2>1, OneLogStep DEF Ended
<1>2. ASSUME NEW w \in Worker, ProcessRun(w)  PROVE \A r \in Run : LogStep(r)
  <2>1. job[w] \in Run
    BY <1>t, <1>2 DEF ProcessRun
  <2>2. CASE UNCHANGED <<status, log>>
    BY <1>0, <2>2
  <2>3. CASE ~IsTerminal(job[w]) /\ SetStatus(job[w], "failed") /\ UNCHANGED log
    BY <1>t, <2>1, <2>3, OneLogStep DEF Ended
  <2>4. CASE ~IsTerminal(job[w]) /\ SetStatus(job[w], "canceled") /\ Emit(job[w], <<"run.canceled">>)
    BY <1>t, <2>1, <2>4, OneLogStep DEF Ended, EndEvent
  <2>5. CASE /\ ~IsTerminal(job[w]) /\ SetStatus(job[w], "running")
             /\ Emit(job[w], <<"run.accepted", "run.started">>)
    BY <1>t, <2>1, <2>5, OneLogStep DEF Ended, Quiet
  <2> QED  BY <1>2, <2>2, <2>3, <2>4, <2>5 DEF ProcessRun
<1>3. ASSUME NEW w \in Worker, LoadContext(w)  PROVE \A r \in Run : LogStep(r)
  <2>1. job[w] \in Run /\ status' = status
    BY <1>t, <1>3 DEF LoadContext
  <2>2. CASE log' = log
    BY <1>0, <2>1, <2>2
  <2>3. CASE Emit(job[w], <<"planner.started">>)
    BY <1>t, <2>1, <2>3, OneLogStep DEF Quiet
  <2> QED  BY <1>3, <2>2, <2>3 DEF LoadContext
<1>4. ASSUME NEW w \in Worker, Dispatch(w)  PROVE \A r \in Run : LogStep(r)
  <2>1. job[w] \in Run
    BY <1>t, <1>4 DEF Dispatch
  <2>2. CASE UNCHANGED <<status, log>>
    BY <1>0, <2>2
  <2>3. CASE ~IsTerminal(job[w]) /\ SetStatus(job[w], "canceled") /\ Emit(job[w], <<"run.canceled">>)
    BY <1>t, <2>1, <2>3, OneLogStep DEF Ended, EndEvent
  <2>4. CASE status' = status /\ Emit(job[w], <<"agent.call.failed">>)
    BY <1>t, <2>1, <2>4, OneLogStep DEF Quiet
  <2>5. CASE status' = status /\ Emit(job[w], <<"agent.call.started">>)
    BY <1>t, <2>1, <2>5, OneLogStep DEF Quiet
  <2> QED  BY <1>4, <2>2, <2>3, <2>4, <2>5
           DEF Dispatch, StopDispatch, SkipDispatch, RefuseDispatch, BeginStep
<1>5. ASSUME NEW w \in Worker, NEW o \in {"completed", "failed"}, RecordStep(w, o)
      PROVE  \A r \in Run : LogStep(r)
  <2>1. job[w] \in Run /\ status' = status
    BY <1>t, <1>5 DEF RecordStep
  <2>2. PICK t \in {<<"agent.call.completed">>, <<"agent.call.failed">>} : Emit(job[w], t)
    BY <1>5 DEF RecordStep
  <2>3. t \in Quiet
    BY <2>2 DEF Quiet
  <2> QED  BY <1>t, <2>1, <2>2, <2>3, OneLogStep
<1>6. ASSUME NEW w \in Worker, Complete(w)  PROVE \A r \in Run : LogStep(r)
  <2>1. job[w] \in Run
    BY <1>t, <1>6 DEF Complete
  <2>2. CASE UNCHANGED <<status, log>>
    BY <1>0, <2>2
  <2>3. CASE /\ ~IsTerminal(job[w]) /\ SetStatus(job[w], "completed")
             /\ Emit(job[w], <<"run.completed">>)
    BY <1>t, <2>1, <2>3, OneLogStep DEF Ended, EndEvent
  <2> QED  BY <1>6, <2>2, <2>3 DEF Complete
<1>7. ASSUME NEW q \in Run,
             \/ Enqueue(q) \/ LoseEnqueue(q) \/ ReadForCancel(q) \/ WriteCancel(q) \/ Expire(q)
             \/ \E w \in Worker : Receive(w, q)
      PROVE  UNCHANGED <<status, log>>
  BY <1>7 DEF Enqueue, LoseEnqueue, ReadForCancel, WriteCancel, Expire, Receive, db
<1>8. ASSUME NEW w \in Worker,
             \/ Crash(w) \/ Redeliver(w) \/ TaskError(w) \/ Reason(w) \/ SendTask(w)
             \/ Critique(w) \/ PostAnswer(w) \/ RecordTurn(w) \/ Ack(w)
      PROVE  UNCHANGED <<status, log>>
  BY <1>8 DEF Crash, Redeliver, TaskError, Reason, SendTask, Critique, PostAnswer, RecordTurn,
     Ack, db
<1>9. ASSUME UNCHANGED vars  PROVE UNCHANGED <<status, log>>
  BY <1>9 DEF vars, db
<1> QED
  BY <1>0, <1>1, <1>2, <1>3, <1>4, <1>5, <1>6, <1>7, <1>8, <1>9 DEF Next, WorkerStep

LogInv == \A r \in Run : LogOf(r)

\* A run's log holds one terminal event once the run has ended by one, and it names
\* the status, whichever workers and users wrote them.
THEOREM LogAndStatusAgree == Spec => []StatusMatchesLog
<1>1. Init => LogInv
  BY DEF Init, LogInv, LogOf, Ends, Ended
<1>2. IInv /\ LogInv /\ [Next]_vars => LogInv'
  <2> SUFFICES ASSUME IInv, LogInv, [Next]_vars, NEW r \in Run  PROVE LogOf(r)'
    BY DEF LogInv
  <2>1. log[r] \in Seq(EventType)
    BY DEF IInv, TypeOK
  <2> QED  BY <2>1, LogSteps, LogKept DEF LogInv
<1>3. LogInv => StatusMatchesLog
  <2> SUFFICES ASSUME LogInv, NEW r \in Run
               PROVE  /\ Cardinality(Ends(r)) = IF Ended(status[r]) THEN 1 ELSE 0
                      /\ \A i \in Ends(r) : log[r][i] = EndEvent(status[r])
    BY DEF StatusMatchesLog, Ended
  <2> QED  BY FS_EmptySet, FS_Singleton DEF LogInv, LogOf
<1> QED
  BY <1>1, <1>2, <1>3, Invariance, PTL DEF Spec

-----------------------------------------------------------------------------
(* The protocol implements the lifecycle *)

\* The initial state is the lifecycle's.
LEMMA InitRefines == Init => Lifecycle!Init
BY DEF Init, Lifecycle!Init, HopFate

\* A step that touches neither the runs' rows nor the ledger is a stutter.
LEMMA Stutters ==
    ASSUME UNCHANGED <<status, cancelRequested, step, sent, turns>>
    PROVE  UNCHANGED Lifecycle!vars
BY DEF Lifecycle!vars, HopFate

\* A function of functions that differs from another in one place is that
\* function with the place overwritten.
LEMMA NestedExcept ==
    ASSUME NEW S, NEW T, NEW V, NEW f \in [S -> [T -> V]], NEW g \in [S -> [T -> V]],
           NEW s \in S, NEW t \in T, NEW v,
           \A r \in S, k \in T : g[r][k] = IF r = s /\ k = t THEN v ELSE f[r][k]
    PROVE  g = [f EXCEPT ![s][t] = v]
<1>1. ASSUME NEW r \in S, r # s PROVE g[r] = f[r]
  BY <1>1
<1>2. g[s] = [f[s] EXCEPT ![t] = v]
  OBVIOUS
<1>3. g = [f EXCEPT ![s] = [f[s] EXCEPT ![t] = v]]
  BY <1>1, <1>2
<1> QED
  BY <1>3

\* The fates of hops are functions of functions.
LEMMA HopFateType ==
    /\ HopFate \in [Run -> [Key -> {"none", "begun", "sent", "settled"}]]
    /\ HopFate' \in [Run -> [Key -> {"none", "begun", "sent", "settled"}]]
BY DEF HopFate

\* Every step of the protocol is a step of the lifecycle or a stutter.
LEMMA StepRefines ==
    ASSUME IInv, [Next]_vars
    PROVE  Lifecycle!Next \/ UNCHANGED Lifecycle!vars
<1> USE DEF Terminal
<1>h. HopInv
  BY DEF IInv
<1>n. \A w \in Worker : pc[w] # "idle" => job[w] \in Run /\ status[job[w]] # "none"
  BY DEF IInv, StatusInv, TypeOK
<1>k. \A w \in Worker : pc[w] \in {"dispatch", "hop", "await"} => job[w] \in Run /\ KeyOf(w) \in Key
  BY HopKey DEF IInv
<1>w. \A w \in Worker : pc[w] \notin {"idle", "start"} => status[job[w]] \in {"running"} \cup Terminal
  BY DEF IInv, StatusInv
<1>v. \A r \in Run : status[r] \in {"none", "queued", "running"} \cup Terminal
  BY DEF IInv, TypeOK, Status
<1>l. step \in [Run -> [Key -> StepStatus]] /\ sent \in [Run -> [Key -> Nat]]
  BY DEF IInv, TypeOK
<1>f. UNCHANGED <<step, sent>> => UNCHANGED HopFate
  BY DEF HopFate
<1>0. ASSUME UNCHANGED <<status, cancelRequested, step, sent, turns>>
      PROVE  UNCHANGED Lifecycle!vars
  BY <1>0, Stutters
\* a run that is neither missing nor ended may end, or be started
<1>e. ASSUME NEW r \in Run, NEW s \in {"completed", "failed", "canceled"}, SetStatus(r, s),
             status[r] # "none", ~IsTerminal(r),
             s = "canceled" => cancelRequested[r], s = "completed" => status[r] = "running",
             UNCHANGED <<cancelRequested, step, sent, turns>>
      PROVE  Lifecycle!Next
  <2>1. Lifecycle!End(r, s)
    BY <1>e, <1>v, <1>f DEF Lifecycle!End, Lifecycle!Live, SetStatus, IsTerminal
  <2> QED
    BY <2>1 DEF Lifecycle!Next, Lifecycle!Terminal
<1>1. ASSUME NEW r \in Run, CreateRun(r) PROVE Lifecycle!Next
  <2>1. status[r] = "none"
    BY <1>1 DEF CreateRun, IInv, StatusInv
  <2>2. Lifecycle!Submit(r)
    BY <1>1, <2>1, <1>f DEF Lifecycle!Submit, CreateRun, SetStatus, effects
  <2> QED
    BY <2>2 DEF Lifecycle!Next
<1>2. ASSUME NEW r \in Run, WriteCancel(r) PROVE Lifecycle!Next
  <2>1. status[r] # "none"
    BY <1>2 DEF WriteCancel, IInv, StatusInv
  <2>2. Lifecycle!RequestCancel(r)
    BY <1>2, <2>1, <1>f DEF Lifecycle!RequestCancel, WriteCancel, effects
  <2> QED
    BY <2>2 DEF Lifecycle!Next
<1>3. ASSUME NEW r \in Run,
             \/ Enqueue(r) \/ LoseEnqueue(r) \/ ReadForCancel(r) \/ Expire(r)
             \/ \E w \in Worker : Receive(w, r)
      PROVE  UNCHANGED Lifecycle!vars
  BY <1>0, <1>3 DEF Enqueue, LoseEnqueue, ReadForCancel, Expire, Receive, db, effects
<1>4. ASSUME NEW w \in Worker, Crash(w) \/ Redeliver(w) \/ TaskError(w)
      PROVE  UNCHANGED Lifecycle!vars
  BY <1>0, <1>4 DEF Crash, Redeliver, TaskError, db, effects
<1>5. ASSUME NEW w \in Worker,
             LoadContext(w) \/ Reason(w) \/ Critique(w) \/ PostAnswer(w) \/ Ack(w)
      PROVE  UNCHANGED Lifecycle!vars
  BY <1>0, <1>5 DEF LoadContext, Reason, Critique, PostAnswer, Ack, db, effects
<1>6. ASSUME NEW w \in Worker, ProcessRun(w) PROVE Lifecycle!Next \/ UNCHANGED Lifecycle!vars
  <2>1. /\ job[w] \in Run /\ status[job[w]] # "none"
        /\ UNCHANGED <<cancelRequested, step, sent, turns>>
    BY <1>6, <1>n DEF ProcessRun, effects
  <2>2. CASE status' = status
    BY <1>0, <2>1, <2>2
  <2>3. CASE ~IsTerminal(job[w]) /\ SetStatus(job[w], "failed")
    BY <1>e, <2>1, <2>3
  <2>4. CASE ~IsTerminal(job[w]) /\ cancelRequested[job[w]] /\ SetStatus(job[w], "canceled")
    BY <1>e, <2>1, <2>4
  <2>5. CASE ~IsTerminal(job[w]) /\ SetStatus(job[w], "running")
    <3>1. Lifecycle!Start(job[w])
      BY <1>v, <1>f, <2>1, <2>5 DEF Lifecycle!Start, Lifecycle!Live, SetStatus, IsTerminal
    <3> QED
      BY <2>1, <3>1 DEF Lifecycle!Next
  <2> QED
    BY <1>6, <2>2, <2>3, <2>4, <2>5 DEF ProcessRun
<1>7. ASSUME NEW w \in Worker, Complete(w) PROVE Lifecycle!Next \/ UNCHANGED Lifecycle!vars
  <2>1. /\ job[w] \in Run /\ status[job[w]] # "none"
        /\ UNCHANGED <<cancelRequested, step, sent, turns>>
        /\ ~IsTerminal(job[w]) => status[job[w]] = "running"
    BY <1>7, <1>n, <1>w DEF Complete, effects, IsTerminal
  <2>2. CASE status' = status
    BY <1>0, <2>1, <2>2
  <2>3. CASE ~IsTerminal(job[w]) /\ SetStatus(job[w], "completed")
    BY <1>e, <2>1, <2>3
  <2> QED
    BY <1>7, <2>2, <2>3 DEF Complete
<1>8. ASSUME NEW w \in Worker, Dispatch(w) PROVE Lifecycle!Next \/ UNCHANGED Lifecycle!vars
  <2>1. /\ job[w] \in Run /\ KeyOf(w) \in Key /\ status[job[w]] # "none"
        /\ UNCHANGED <<cancelRequested, sent, turns>>
        /\ ~IsTerminal(job[w]) => status[job[w]] = "running"
    BY <1>8, <1>n, <1>k, <1>w DEF Dispatch, effects, IsTerminal
  <2>2. CASE UNCHANGED <<status, step>>
    BY <1>0, <2>1, <2>2
  <2>3. CASE /\ ~IsTerminal(job[w]) /\ cancelRequested[job[w]] /\ step' = step
             /\ SetStatus(job[w], "canceled")
    BY <1>e, <2>1, <2>3
  <2>4. CASE BeginStep(w)
    <3>1. /\ status[job[w]] = "running" /\ ~cancelRequested[job[w]] /\ status' = status
          /\ step[job[w]][KeyOf(w)] = "none"
          /\ step' = [step EXCEPT ![job[w]][KeyOf(w)] = "running"]
      BY <2>1, <2>4 DEF BeginStep, Admitted
    <3>2. sent[job[w]][KeyOf(w)] = 0
      BY <1>h, <2>1, <3>1 DEF HopInv
    <3>3. HopFate[job[w]][KeyOf(w)] = "none"
      BY <2>1, <3>1 DEF HopFate
    <3>s. \A r \in Run, k \in Key :
             /\ sent'[r][k] = sent[r][k]
             /\ step'[r][k] = IF r = job[w] /\ k = KeyOf(w) THEN "running" ELSE step[r][k]
      BY <1>l, <2>1, <3>1
    <3>f. \A r \in Run, k \in Key :
             HopFate'[r][k] = IF r = job[w] /\ k = KeyOf(w) THEN "begun" ELSE HopFate[r][k]
      BY <3>2, <3>s DEF HopFate
    <3>4. HopFate' = [HopFate EXCEPT ![job[w]][KeyOf(w)] = "begun"]
      <4>1. job[w] \in Run /\ KeyOf(w) \in Key
        BY <2>1
      <4> QED
        BY <3>f, <4>1, HopFateType, NestedExcept
    <3>5. Lifecycle!BeginHop(job[w], KeyOf(w))
      BY <2>1, <3>1, <3>3, <3>4 DEF Lifecycle!BeginHop, Lifecycle!Advance
    <3> QED
      BY <2>1, <3>5 DEF Lifecycle!Next
  <2> QED
    BY <1>8, <2>2, <2>3, <2>4 DEF Dispatch, StopDispatch, SkipDispatch, RefuseDispatch
<1>9. ASSUME NEW w \in Worker, SendTask(w) PROVE Lifecycle!Next
  <2>1. /\ job[w] \in Run /\ KeyOf(w) \in Key
        /\ step[job[w]][KeyOf(w)] = "running" /\ sent[job[w]][KeyOf(w)] = 0
        /\ UNCHANGED <<status, cancelRequested, step, turns>>
        /\ sent' = [sent EXCEPT ![job[w]][KeyOf(w)] = @ + 1]
    BY <1>9, <1>h, <1>k DEF SendTask, HopInv, db
  <2>2. HopFate[job[w]][KeyOf(w)] = "begun"
    BY <2>1 DEF HopFate
  <2>s. \A r \in Run, k \in Key :
           sent'[r][k] = IF r = job[w] /\ k = KeyOf(w) THEN 1 ELSE sent[r][k]
    BY <1>l, <2>1
  <2>f. \A r \in Run, k \in Key :
           HopFate'[r][k] = IF r = job[w] /\ k = KeyOf(w) THEN "sent" ELSE HopFate[r][k]
    BY <2>1, <2>s DEF HopFate
  <2>3. HopFate' = [HopFate EXCEPT ![job[w]][KeyOf(w)] = "sent"]
    <3>1. job[w] \in Run /\ KeyOf(w) \in Key
      BY <2>1
    <3> QED
      BY <2>f, <3>1, HopFateType, NestedExcept
  <2>4. Lifecycle!SendHop(job[w], KeyOf(w))
    BY <2>1, <2>2, <2>3 DEF Lifecycle!SendHop, Lifecycle!Advance
  <2> QED
    BY <2>1, <2>4 DEF Lifecycle!Next
<1>10. ASSUME NEW w \in Worker, NEW o \in {"completed", "failed"}, RecordStep(w, o)
       PROVE  Lifecycle!Next
  <2>1. /\ job[w] \in Run /\ KeyOf(w) \in Key
        /\ step[job[w]][KeyOf(w)] = "running" /\ sent[job[w]][KeyOf(w)] = 1
        /\ UNCHANGED <<status, cancelRequested, sent, turns>>
        /\ step' = [step EXCEPT ![job[w]][KeyOf(w)] = o]
    BY <1>10, <1>h, <1>k DEF RecordStep, HopInv, effects
  <2>2. HopFate[job[w]][KeyOf(w)] = "sent"
    BY <2>1 DEF HopFate
  <2>s. \A r \in Run, k \in Key :
           /\ sent'[r][k] = sent[r][k]
           /\ step'[r][k] = IF r = job[w] /\ k = KeyOf(w) THEN o ELSE step[r][k]
    BY <1>l, <2>1
  <2>f. \A r \in Run, k \in Key :
           HopFate'[r][k] = IF r = job[w] /\ k = KeyOf(w) THEN "settled" ELSE HopFate[r][k]
    BY <2>1, <2>s DEF HopFate
  <2>3. HopFate' = [HopFate EXCEPT ![job[w]][KeyOf(w)] = "settled"]
    <3>1. job[w] \in Run /\ KeyOf(w) \in Key
      BY <2>1
    <3> QED
      BY <2>f, <3>1, HopFateType, NestedExcept
  <2>4. Lifecycle!SettleHop(job[w], KeyOf(w))
    BY <2>1, <2>2, <2>3 DEF Lifecycle!SettleHop, Lifecycle!Advance
  <2> QED
    BY <2>1, <2>4 DEF Lifecycle!Next
<1>11. ASSUME NEW w \in Worker, RecordTurn(w) PROVE Lifecycle!Next \/ UNCHANGED Lifecycle!vars
  <2>1. /\ job[w] \in Run /\ status[job[w]] = "completed"
        /\ UNCHANGED <<status, cancelRequested, step, sent>>
    BY <1>11, <1>n DEF RecordTurn, IInv, StatusInv, db
  <2>2. CASE turns' = turns
    BY <1>0, <2>1, <2>2
  <2>3. CASE turns' = [turns EXCEPT ![job[w]] = @ + 1]
    <3>1. Lifecycle!RecordTurn(job[w])
      BY <1>f, <2>1, <2>3 DEF Lifecycle!RecordTurn
    <3> QED
      BY <2>1, <3>1 DEF Lifecycle!Next
  <2> QED
    BY <1>11, <2>2, <2>3 DEF RecordTurn
<1>12. ASSUME UNCHANGED vars PROVE UNCHANGED Lifecycle!vars
  BY <1>0, <1>12 DEF vars, db, effects
<1> QED
  BY <1>1, <1>2, <1>3, <1>4, <1>5, <1>6, <1>7, <1>8, <1>9, <1>10, <1>11, <1>12
     DEF Next, WorkerStep

\* For every number of runs, workers, steps and faults, the protocol of queue,
\* workers and advisory locks implements the lifecycle its users rely on.
THEOREM Refinement == Spec => RefinesLifecycle
<1>1. IInv /\ [Next]_vars => [Lifecycle!Next]_(Lifecycle!vars)
  BY StepRefines
<1> QED
  BY InitRefines, Invariance, <1>1, PTL DEF Spec, RefinesLifecycle, Lifecycle!Spec

=============================================================================
