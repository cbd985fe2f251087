------------------------------ MODULE AgentRun ------------------------------
(***************************************************************************)
(* The life of an agent run across the control plane and the execution     *)
(* plane.                                                                  *)
(*                                                                         *)
(* The API (agent-run.service.ts) inserts the run as queued, then enqueues *)
(* its id; a user may ask for cancellation at any time.  The broker hands  *)
(* the message to Celery workers and delivers it again after a worker is   *)
(* lost or the message's visibility expires, so two workers may hold the   *)
(* same run.  A worker (tasks.py, graph.py) runs a sequence of short       *)
(* transactions, each under the run's advisory lock, and makes its A2A     *)
(* calls and its model calls between them, holding no lock.                *)
(*                                                                         *)
(* One action is one transaction, or one external call with its effect.    *)
(***************************************************************************)
EXTENDS Naturals, Sequences, FiniteSets

CONSTANTS
    Run,              \* runs
    Worker,           \* Celery worker processes
    Capability,       \* capability ids a model decision may name
    Input,            \* tool inputs a decision may carry
    Entitled,         \* capabilities evaluate_capability allows for the snapshot
    Routed,           \* capabilities the agent registry routes to an agent
    MaxSteps,         \* deps.max_steps
    MaxCrashes,       \* bound: workers lost with a task in hand
    MaxRedeliveries,  \* bound: messages redelivered while a worker still runs
    MaxErrors,        \* bound: exceptions that leave the task body
    MaxEnqueueLosses, \* bound: enqueue calls that never reach the broker
    NoRun, NoCall

ASSUME ConstantsAssumption ==
    /\ MaxSteps \in Nat
    /\ Entitled \subseteq Capability
    /\ Routed \subseteq Capability
    /\ NoRun \notin Run
    /\ NoCall \notin Capability \X Input
    /\ {MaxCrashes, MaxRedeliveries, MaxErrors, MaxEnqueueLosses} \subseteq Nat

VARIABLES
    status,           \* [Run -> Status]: agent_runs.status
    cancelRequested,  \* [Run -> BOOLEAN]: agent_runs.cancel_requested
    expired,          \* [Run -> BOOLEAN]: the snapshot's expires_at has passed
    step,             \* [Run -> [Key -> StepStatus]]: agent_steps by idempotency key
    log,              \* [Run -> Seq(EventType)]: agent_run_events, user visibility
    answers,          \* [Run -> Nat]: assistant messages posted for the run
    turns,            \* [Run -> Nat]: turns appended to the shared history
    sent,             \* [Run -> [Key -> Nat]]: A2A tasks sent for each hop
    api,              \* [Run -> ApiState]: where createRun stands
    canceling,        \* [Run -> BOOLEAN]: a cancelRun has read a live run
    queue,            \* [Run -> Nat]: broker messages ready for delivery
    pc, job, iter, call, attempts, \* the workers
    budget            \* faults still allowed, by kind

db      == <<status, cancelRequested, expired, step, log>>
effects == <<answers, turns, sent>>
control == <<api, canceling>>
local   == <<job, iter, call, attempts>>
vars    == <<db, effects, control, queue, pc, local, budget>>

Call       == Capability \X Input
Key        == Capability \X (1..MaxSteps)
\* "expired" is terminal to whoever reads it, but nobody writes it: a run whose
\* snapshot has expired fails.
Terminal   == {"completed", "failed", "canceled", "expired"}
Status     == Terminal \cup {"none", "queued", "running"}
StepStatus == {"none", "running", "completed", "failed"}
ApiState   == {"new", "created", "done"}
EventType  == {"run.accepted", "run.started", "planner.started", "run.canceled",
               "run.completed", "agent.call.started", "agent.call.completed",
               "agent.call.failed"}
PC         == {"idle", "start", "load", "reason", "dispatch", "hop", "await",
               "critique", "compose", "complete", "history", "ack"}
FaultKind  == {"crash", "redeliver", "error", "enqueue"}

IsTerminal(r) == status[r] \in Terminal
KeyOf(w)      == <<call[w][1], iter[w]>>

FullBudget == [crash |-> MaxCrashes, redeliver |-> MaxRedeliveries,
               error |-> MaxErrors, enqueue |-> MaxEnqueueLosses]

Init ==
    /\ status = [r \in Run |-> "none"]
    /\ cancelRequested = [r \in Run |-> FALSE]
    /\ expired = [r \in Run |-> FALSE]
    /\ step = [r \in Run |-> [k \in Key |-> "none"]]
    /\ log = [r \in Run |-> <<>>]
    /\ answers = [r \in Run |-> 0]
    /\ turns = [r \in Run |-> 0]
    /\ sent = [r \in Run |-> [k \in Key |-> 0]]
    /\ api = [r \in Run |-> "new"]
    /\ canceling = [r \in Run |-> FALSE]
    /\ queue = [r \in Run |-> 0]
    /\ pc = [w \in Worker |-> "idle"]
    /\ job = [w \in Worker |-> NoRun]
    /\ iter = [w \in Worker |-> 0]
    /\ call = [w \in Worker |-> NoCall]
    /\ attempts = [w \in Worker |-> {}]
    /\ budget = FullBudget

Spend(kind) ==
    /\ budget[kind] > 0
    /\ budget' = [budget EXCEPT ![kind] = @ - 1]

Emit(r, events)   == log' = [log EXCEPT ![r] = @ \o events]
SetStatus(r, s)   == status' = [status EXCEPT ![r] = s]
Goto(w, label)    == pc' = [pc EXCEPT ![w] = label]

\* The task returns or raises: the worker drops everything it held in memory.
Leave(w) ==
    /\ Goto(w, "idle")
    /\ job' = [job EXCEPT ![w] = NoRun]
    /\ iter' = [iter EXCEPT ![w] = 0]
    /\ call' = [call EXCEPT ![w] = NoCall]
    /\ attempts' = [attempts EXCEPT ![w] = {}]

-----------------------------------------------------------------------------
(* Control plane *)

\* The run and its entitlement snapshot are inserted in one transaction.
CreateRun(r) ==
    /\ api[r] = "new"
    /\ api' = [api EXCEPT ![r] = "created"]
    /\ SetStatus(r, "queued")
    /\ UNCHANGED <<cancelRequested, expired, step, log, effects, canceling,
                   queue, pc, local, budget>>

\* enqueueRun reaches the gateway, which publishes one message.
Enqueue(r) ==
    /\ api[r] = "created"
    /\ api' = [api EXCEPT ![r] = "done"]
    /\ queue' = [queue EXCEPT ![r] = @ + 1]
    /\ UNCHANGED <<db, effects, canceling, pc, local, budget>>

\* No orchestrator, or the call fails before it is accepted: logged, swallowed.
LoseEnqueue(r) ==
    /\ api[r] = "created"
    /\ api' = [api EXCEPT ![r] = "done"]
    /\ Spend("enqueue")
    /\ UNCHANGED <<db, effects, canceling, queue, pc, local>>

\* cancelRun loads the run; requestCancel decides on that copy ...
ReadForCancel(r) ==
    /\ status[r] # "none"
    /\ ~IsTerminal(r)
    /\ ~cancelRequested[r]
    /\ ~canceling[r]
    /\ canceling' = [canceling EXCEPT ![r] = TRUE]
    /\ UNCHANGED <<db, effects, api, queue, pc, local, budget>>

\* ... and updates the row by id, whatever its status has become.
WriteCancel(r) ==
    /\ canceling[r]
    /\ canceling' = [canceling EXCEPT ![r] = FALSE]
    /\ cancelRequested' = [cancelRequested EXCEPT ![r] = TRUE]
    /\ UNCHANGED <<status, expired, step, log, effects, api, queue, pc, local,
                   budget>>

\* The snapshot's TTL passes.
Expire(r) ==
    /\ status[r] # "none"
    /\ ~expired[r]
    /\ expired' = [expired EXCEPT ![r] = TRUE]
    /\ UNCHANGED <<status, cancelRequested, step, log, effects, control, queue,
                   pc, local, budget>>

-----------------------------------------------------------------------------
(* Broker *)

Receive(w, r) ==
    /\ pc[w] = "idle"
    /\ queue[r] > 0
    /\ queue' = [queue EXCEPT ![r] = @ - 1]
    /\ Goto(w, "start")
    /\ job' = [job EXCEPT ![w] = r]
    /\ UNCHANGED <<db, effects, control, iter, call, attempts, budget>>

\* A lost worker's message was not acknowledged yet and is delivered again.
Crash(w) ==
    /\ pc[w] # "idle"
    /\ Spend("crash")
    /\ queue' = [queue EXCEPT ![job[w]] = @ + 1]
    /\ Leave(w)
    /\ UNCHANGED <<db, effects, control>>

\* The broker's visibility timeout passes while the worker still runs.
Redeliver(w) ==
    /\ pc[w] # "idle"
    /\ Spend("redeliver")
    /\ queue' = [queue EXCEPT ![job[w]] = @ + 1]
    /\ UNCHANGED <<db, effects, control, pc, local>>

-----------------------------------------------------------------------------
(* Worker: tasks.process_run, then the graph's nodes *)

\* The first transaction: terminal check, snapshot gate, cancellation, start.
ProcessRun(w) ==
    LET r == job[w] IN
    /\ pc[w] = "start"
    /\ UNCHANGED <<cancelRequested, expired, step, effects, control, queue, budget>>
    /\ \/ /\ IsTerminal(r)
          /\ Leave(w)
          /\ UNCHANGED <<status, log>>
       \/ /\ ~IsTerminal(r) /\ expired[r]
          /\ SetStatus(r, "failed")
          /\ Leave(w)
          /\ UNCHANGED log
       \/ /\ ~IsTerminal(r) /\ ~expired[r] /\ cancelRequested[r]
          /\ SetStatus(r, "canceled")
          /\ Emit(r, <<"run.canceled">>)
          /\ Leave(w)
       \/ /\ ~IsTerminal(r) /\ ~expired[r] /\ ~cancelRequested[r]
          /\ SetStatus(r, "running")
          /\ Emit(r, <<"run.accepted", "run.started">>)
          /\ Goto(w, "load")
          /\ UNCHANGED local

LoadContext(w) ==
    LET r == job[w] IN
    /\ pc[w] = "load"
    /\ UNCHANGED <<status, cancelRequested, expired, step, effects, control, queue,
                   budget>>
    /\ \/ /\ IsTerminal(r)
          /\ Leave(w)
          /\ UNCHANGED log
       \/ /\ ~IsTerminal(r)
          /\ Emit(r, <<"planner.started">>)
          /\ Goto(w, "reason")
          /\ UNCHANGED local

\* The model finishes or names a call; a repeated call or a spent step budget
\* ends the loop instead.
Reason(w) ==
    /\ pc[w] = "reason"
    /\ UNCHANGED <<db, effects, control, queue, job, budget>>
    /\ \/ /\ Goto(w, "compose")
          /\ UNCHANGED <<iter, call, attempts>>
       \/ /\ iter[w] < MaxSteps
          /\ \E c \in Call \ attempts[w] :
                /\ call' = [call EXCEPT ![w] = c]
                /\ attempts' = [attempts EXCEPT ![w] = @ \cup {c}]
          /\ iter' = [iter EXCEPT ![w] = @ + 1]
          /\ Goto(w, "dispatch")

\* Mutant of StopDispatch: cancellation is looked at before the status.
StopDispatch_CancelFirst(w) ==
    /\ Leave(w)
    /\ UNCHANGED step
    /\ cancelRequested[job[w]]
    /\ SetStatus(job[w], "canceled")
    /\ Emit(job[w], <<"run.canceled">>)

\* The outcomes of _run_agent_step's first transaction.
StopDispatch(w) ==
    LET r == job[w] IN
    /\ Leave(w)
    /\ UNCHANGED step
    /\ \/ IsTerminal(r) /\ UNCHANGED <<status, log>>
       \/ /\ ~IsTerminal(r) /\ cancelRequested[r]
          /\ SetStatus(r, "canceled")
          /\ Emit(r, <<"run.canceled">>)

\* A completed step is observed; a denied or unroutable one is reported.
SkipDispatch(w) ==
    LET r == job[w]
        done == step[r][KeyOf(w)] = "completed"
        cap == call[w][1]
    IN
    /\ ~IsTerminal(r) /\ ~cancelRequested[r]
    /\ Goto(w, "critique")
    /\ UNCHANGED <<status, step, local>>
    /\ \/ (done \/ cap \notin Entitled) /\ UNCHANGED log
       \/ /\ ~done /\ cap \in Entitled \ Routed
          /\ Emit(r, <<"agent.call.failed">>)

Admitted(w) ==
    /\ ~IsTerminal(job[w]) /\ ~cancelRequested[job[w]]
    /\ step[job[w]][KeyOf(w)] # "completed"
    /\ call[w][1] \in Entitled \cap Routed

\* Mutant of RefuseDispatch: a conflicting row is adopted instead of refused.
RefuseDispatch_Adopts(w) ==
    /\ Admitted(w)
    /\ step[job[w]][KeyOf(w)] # "none"
    /\ Goto(w, "hop")
    /\ UNCHANGED <<status, step, log, local>>

\* The unique index on (run_id, idempotency_key) refuses a second row: the
\* transaction rolls back and the exception leaves the task.
RefuseDispatch(w) ==
    /\ Admitted(w)
    /\ step[job[w]][KeyOf(w)] # "none"
    /\ Leave(w)
    /\ UNCHANGED <<status, step, log>>

\* Mutant of BeginStep: no unique index, the step is recorded again.
BeginStep_NoUniqueIndex(w) ==
    /\ Admitted(w)
    /\ step' = [step EXCEPT ![job[w]][KeyOf(w)] = "running"]
    /\ Emit(job[w], <<"agent.call.started">>)
    /\ Goto(w, "hop")
    /\ UNCHANGED <<status, local>>

BeginStep(w) ==
    /\ Admitted(w)
    /\ step[job[w]][KeyOf(w)] = "none"
    /\ step' = [step EXCEPT ![job[w]][KeyOf(w)] = "running"]
    /\ Emit(job[w], <<"agent.call.started">>)
    /\ Goto(w, "hop")
    /\ UNCHANGED <<status, local>>

Dispatch(w) ==
    /\ pc[w] = "dispatch"
    /\ StopDispatch(w) \/ SkipDispatch(w) \/ RefuseDispatch(w) \/ BeginStep(w)
    /\ UNCHANGED <<cancelRequested, expired, effects, control, queue, budget>>

\* The A2A task leaves the worker; no lock is held.
SendTask(w) ==
    /\ pc[w] = "hop"
    /\ sent' = [sent EXCEPT ![job[w]][KeyOf(w)] = @ + 1]
    /\ Goto(w, "await")
    /\ UNCHANGED <<db, answers, turns, control, queue, local, budget>>

\* Mutant of RecordStep: a failed step's row is removed so it can be retried.
RecordStep_ForgetsFailure(w, outcome) ==
    /\ pc[w] = "await"
    /\ step' = [step EXCEPT ![job[w]][KeyOf(w)] =
                   IF outcome = "completed" THEN "completed" ELSE "none"]
    /\ Emit(job[w], <<"agent.call.failed">>)
    /\ Goto(w, "critique")
    /\ UNCHANGED <<status, cancelRequested, expired, effects, control, queue,
                   local, budget>>

\* The second transaction records the outcome.  It does not look at the
\* run's status.
RecordStep(w, outcome) ==
    /\ pc[w] = "await"
    /\ step' = [step EXCEPT ![job[w]][KeyOf(w)] = outcome]
    /\ Emit(job[w], IF outcome = "completed" THEN <<"agent.call.completed">>
                                             ELSE <<"agent.call.failed">>)
    /\ Goto(w, "critique")
    /\ UNCHANGED <<status, cancelRequested, expired, effects, control, queue,
                   local, budget>>

Critique(w) ==
    /\ pc[w] = "critique"
    /\ \/ Goto(w, "compose")
       \/ iter[w] < MaxSteps /\ Goto(w, "reason")
    /\ UNCHANGED <<db, effects, control, queue, local, budget>>

\* compose, then gateway.finalize: the API appends an assistant message and
\* replies, or the answer is lost (an expired snapshot is refused with 403, the
\* transport fails); the worker goes on either way.
PostAnswer(w) ==
    /\ pc[w] = "compose"
    /\ \/ /\ ~expired[job[w]]
          /\ answers' = [answers EXCEPT ![job[w]] = @ + 1]
       \/ UNCHANGED answers
    /\ Goto(w, "complete")
    /\ UNCHANGED <<db, turns, sent, control, queue, local, budget>>

\* Mutant of Complete: the run is completed without looking at its status.
Complete_NoRecheck(w) ==
    /\ pc[w] = "complete"
    /\ SetStatus(job[w], "completed")
    /\ Emit(job[w], <<"run.completed">>)
    /\ Goto(w, "history")
    /\ UNCHANGED <<cancelRequested, expired, step, effects, control, queue, local,
                   budget>>

\* Mutant of Complete: the turn is recorded whatever the run ended as.
Complete_RecordsAnyEnd(w) ==
    /\ pc[w] = "complete"
    /\ UNCHANGED <<cancelRequested, expired, step, effects, control, queue, local,
                   budget>>
    /\ Goto(w, "history")
    /\ \/ IsTerminal(job[w]) /\ UNCHANGED <<status, log>>
       \/ /\ ~IsTerminal(job[w])
          /\ SetStatus(job[w], "completed")
          /\ Emit(job[w], <<"run.completed">>)

\* Mutant of Complete: a run somebody wants canceled is left as it is.
Complete_LeavesCanceling(w) ==
    /\ pc[w] = "complete"
    /\ UNCHANGED <<cancelRequested, expired, step, effects, control, queue, budget>>
    /\ \/ /\ IsTerminal(job[w]) \/ cancelRequested[job[w]]
          /\ Leave(w)
          /\ UNCHANGED <<status, log>>
       \/ /\ ~IsTerminal(job[w]) /\ ~cancelRequested[job[w]]
          /\ SetStatus(job[w], "completed")
          /\ Emit(job[w], <<"run.completed">>)
          /\ Goto(w, "history")
          /\ UNCHANGED local

\* The last transaction.  It does not look at cancel_requested.  A run that
\* another worker completed is reported completed, so its turn is recorded.
Complete(w) ==
    LET r == job[w] IN
    /\ pc[w] = "complete"
    /\ UNCHANGED <<cancelRequested, expired, step, effects, control, queue, budget>>
    /\ \/ /\ status[r] \in {"failed", "canceled"}
          /\ Leave(w)
          /\ UNCHANGED <<status, log>>
       \/ /\ status[r] = "completed"
          /\ Goto(w, "history")
          /\ UNCHANGED <<status, log, local>>
       \/ /\ ~IsTerminal(r)
          /\ SetStatus(r, "completed")
          /\ Emit(r, <<"run.completed">>)
          /\ Goto(w, "history")
          /\ UNCHANGED local

\* The turn is appended to the conversation's history; Redis may refuse.
RecordTurn(w) ==
    /\ pc[w] = "history"
    /\ turns' = [turns EXCEPT ![job[w]] = @ + 1] \/ UNCHANGED turns
    /\ Goto(w, "ack")
    /\ UNCHANGED <<db, answers, sent, control, queue, local, budget>>

\* The task returns and its message is acknowledged; a worker lost before that
\* leaves the message to be delivered again.
Ack(w) ==
    /\ pc[w] = "ack"
    /\ Leave(w)
    /\ UNCHANGED <<db, effects, control, queue, budget>>

\* An exception nothing catches (a model call, a service token, a database
\* error, the task's time limit): the failed task is acknowledged.
TaskError(w) ==
    /\ pc[w] \notin {"idle"}
    /\ Spend("error")
    /\ Leave(w)
    /\ UNCHANGED <<db, effects, control, queue>>

-----------------------------------------------------------------------------
WorkerStep(w) ==
    \/ ProcessRun(w) \/ LoadContext(w) \/ Reason(w) \/ Dispatch(w) \/ SendTask(w)
    \/ \E outcome \in {"completed", "failed"} : RecordStep(w, outcome)
    \/ Critique(w) \/ PostAnswer(w) \/ Complete(w) \/ RecordTurn(w)
    \/ Ack(w)

Next ==
    \/ \E r \in Run :
          \/ CreateRun(r) \/ Enqueue(r) \/ LoseEnqueue(r)
          \/ ReadForCancel(r) \/ WriteCancel(r) \/ Expire(r)
          \/ \E w \in Worker : Receive(w, r)
    \/ \E w \in Worker : WorkerStep(w) \/ Crash(w) \/ Redeliver(w) \/ TaskError(w)

Spec == Init /\ [][Next]_vars

\* A started createRun goes on to its enqueue; a worker process takes messages
\* and, until it is lost, runs its task: every external call has a timeout.
Fairness ==
    /\ \A r \in Run : WF_vars(Enqueue(r) \/ LoseEnqueue(r))
    /\ \A w \in Worker : WF_vars(WorkerStep(w))
    /\ \A w \in Worker : WF_vars(\E r \in Run : Receive(w, r))

FairSpec == Spec /\ Fairness

-----------------------------------------------------------------------------
(* Properties *)

\* Every variable has its type, and a worker holds a run exactly while busy.
TypeOK ==
    /\ status \in [Run -> Status]
    /\ cancelRequested \in [Run -> BOOLEAN]
    /\ expired \in [Run -> BOOLEAN]
    /\ step \in [Run -> [Key -> StepStatus]]
    /\ log \in [Run -> Seq(EventType)]
    /\ answers \in [Run -> Nat]
    /\ turns \in [Run -> Nat]
    /\ sent \in [Run -> [Key -> Nat]]
    /\ api \in [Run -> ApiState]
    /\ canceling \in [Run -> BOOLEAN]
    /\ queue \in [Run -> Nat]
    /\ pc \in [Worker -> PC]
    /\ job \in [Worker -> Run \cup {NoRun}]
    /\ iter \in [Worker -> 0..MaxSteps]
    /\ call \in [Worker -> Call \cup {NoCall}]
    /\ attempts \in [Worker -> SUBSET Call]
    /\ budget \in [FaultKind -> Nat]
    /\ \A w \in Worker : pc[w] = "idle" <=> job[w] = NoRun

\* A run that reached a terminal status keeps it: every worker's transaction
\* re-reads the status under the lock before it writes one, whatever it
\* believed when it began its external call.
TerminalIsFinal ==
    [][\A r \in Run : IsTerminal(r) => status'[r] = status[r]]_vars

\* No hop's A2A task is sent twice, though the run's message may be delivered
\* to several workers: the step row and its unique index admit one sender.
HopSentOnce == \A r \in Run, k \in Key : sent[r][k] <= 1

Owns(w, r, k) == pc[w] \in {"hop", "await"} /\ job[w] = r /\ KeyOf(w) = k

\* While a hop is out, exactly the worker that inserted its row holds it, and
\* the row still says running: nobody else settles or repeats it.
SoleOwner ==
    \A w \in Worker : pc[w] \in {"hop", "await"} =>
        /\ step[job[w]][KeyOf(w)] = "running"
        /\ \A v \in Worker : Owns(v, job[w], KeyOf(w)) => v = w

\* The status column and the event log agree, though several workers write
\* them: one terminal event at most, and it names the status.
Ends(r) == {i \in DOMAIN log[r] : log[r][i] \in {"run.canceled", "run.completed"}}
EndEvent(s) == IF s = "completed" THEN "run.completed" ELSE "run.canceled"
StatusMatchesLog ==
    \A r \in Run :
        /\ Cardinality(Ends(r)) = IF status[r] \in {"canceled", "completed"} THEN 1 ELSE 0
        /\ \A i \in Ends(r) : log[r][i] = EndEvent(status[r])

\* A run's turn enters the shared conversation history only when the run
\* completed, not when it was canceled or failed under the worker.
TurnOnlyIfCompleted == \A r \in Run : turns[r] > 0 => status[r] = "completed"

\* None of these faults has happened so far.
Spared(kinds) == \A kind \in kinds : budget[kind] = FullBudget[kind]

\* Unless a worker is lost or an exception leaves the task, an enqueued run
\* ends, even when its message is delivered twice and the second worker dies on
\* the unique index.
EnqueuedRunEnds ==
    \A r \in Run : queue[r] > 0 ~> IsTerminal(r) \/ ~Spared({"crash", "error"})

\* A hop as its owner sees it: begun with the row, sent with the A2A task,
\* settled with the row's outcome.
HopFate ==
    [r \in Run |-> [k \in Key |->
        IF step[r][k] = "none" THEN "none"
        ELSE IF step[r][k] # "running" THEN "settled"
        ELSE IF sent[r][k] = 0 THEN "begun" ELSE "sent"]]

\* The run's life as its owner sees it: every step of this protocol is a step
\* of the lifecycle or changes nothing in it.
Lifecycle == INSTANCE RunLifecycle WITH wanted <- cancelRequested, hop <- HopFate
RefinesLifecycle == Lifecycle!Spec

-----------------------------------------------------------------------------
(* What the repository says of the program, and crashes or races refute *)

\* tasks.py:70 "Process a run to a terminal status and return that status",
\* celery_app.py:5 "Tasks are idempotent and resumable": after a worker is
\* lost, the redelivered task brings the run to an end.
RedeliveredRunEnds == \A r \in Run : status[r] = "running" ~> IsTerminal(r)

\* agent-run.service.ts:200 "the run is durably `queued` and can be dispatched
\* by the gateway": a run whose enqueue failed is still processed.
QueuedRunIsDispatched == \A r \in Run : status[r] = "queued" ~> status[r] # "queued"

\* celery_app.py:5 "Tasks are idempotent": a run's turn enters the history once.
TurnOnce == \A r \in Run : turns[r] <= 1

\* celery_app.py:5 "Tasks are idempotent": the run's answer is posted to the
\* user's conversation once.
AnswerOnce == \A r \in Run : answers[r] <= 1

\* events.py:158-159 "Lifecycle events ... (emitted exactly once by the worker)".
LifecycleEventOnce ==
    \A r \in Run : Cardinality({i \in DOMAIN log[r] : log[r][i] = "run.started"}) <= 1

\* agent-run.repository.ts:221 "No-op ... when the run is already terminal".
CancelIsNoOpOnTerminal ==
    [][\A r \in Run : IsTerminal(r) => cancelRequested'[r] = cancelRequested[r]]_vars

\* graph.py:847-848, of a finalize that failed: "the run still completes; the
\* message can be re-derived from events".  The composed answer is in no event;
\* at best the output of a hop is.
CompletedRunIsAnswered ==
    \A r \in Run : status[r] = "completed" =>
        answers[r] > 0 \/ \E i \in DOMAIN log[r] : log[r][i] = "agent.call.completed"

=============================================================================
