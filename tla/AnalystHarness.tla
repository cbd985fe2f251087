--------------------------- MODULE AnalystHarness ---------------------------
(***************************************************************************)
(* One agent's bounded loop (at_sql_analyser/harness/graph.py), the server *)
(* around it (server.py) and the capability gateway it acts through.       *)
(*                                                                         *)
(* A task reads or writes.  A model decides every step and may decide      *)
(* anything; the harness bounds the loop, keeps it to what the snapshot    *)
(* entitles its owner to, and forces a write task on when the model stalls. *)
(* The gateway executes every request it admits; its answer may be lost.   *)
(* The orchestrator may send several tasks for one run.  The policy both   *)
(* layers read is one object of the process: a concurrent task clears it   *)
(* when its own refresh fails, and restores it with the next one.          *)
(***************************************************************************)
EXTENDS Naturals, Sequences, FiniteSets, SequencesExt

CONSTANTS
    Reads, Writes,   \* capabilities of the catalog
    Tools,           \* MCP tools the data server advertises
    Input,           \* tool inputs the model may choose
    EmptyInput,      \* the one of a read the harness forces
    Entitled,        \* capabilities and skills the owner's snapshot allows
    MaxIterations, MaxQueries,
    MaxTasks,        \* bound: tasks of one run, one after the other
    MaxOutages       \* bound: times a concurrent task clears the policy

ASSUME HarnessAssumption ==
    /\ {MaxIterations, MaxQueries} \subseteq Nat \ {0}
    /\ {MaxTasks, MaxOutages} \subseteq Nat
    /\ EmptyInput \in Input

VARIABLES
    task,         \* tasks received so far
    intent,       \* of the current task
    node,         \* the graph node to run next
    steps,        \* nodes run
    iteration,
    attempts,     \* read steps done: [what, input, error]
    tools,        \* MCP tools discovered
    late,         \* the time budget is used up
    pending,      \* the read or tool call to dispatch
    calls,        \* write calls to dispatch: [cap, index]
    outcomes,     \* what the task knows of its writes
    executed,     \* capabilities the task sent to the gateway
    applied,      \* [Key -> Nat]: times the gateway executed a proposed call
    done,         \* those it executed for the current task
    result,       \* status of the last task
    entitled,     \* plan_write saw a write it may do
    policy,       \* the process has an active registry
    outages       \* times it was cleared

authz == <<entitled, policy, outages>>
env   == <<task, intent, executed, applied, done, authz>>
vars  == <<task, intent, node, steps, iteration, attempts, tools, late, pending,
           calls, outcomes, executed, applied, done, result, entitled, policy, outages>>

NoCall  == [what |-> "none"]
Attempt == [what : Reads \cup Tools, input : Input, error : BOOLEAN]
Outcome == {"completed", "denied", "failed"}
Node    == {"start", "discover", "schema", "plan_read", "dispatch_mcp", "dispatch_read",
            "critique", "compose", "plan_write", "resolve_read", "dispatch_writes",
            "compose_writes", "end"}
Key     == (Reads \cup Writes) \X (1..MaxQueries)   \* agent-write:{run}:{capability}:{index}

\* Layer A: what the planners are shown.
AuthorizedReads  == IF policy THEN Reads \cap Entitled ELSE {}
AuthorizedWrites == IF policy THEN Writes \cap Entitled ELSE {}
RecursionLimit   == (IF MaxIterations > MaxQueries THEN MaxIterations ELSE MaxQueries) * 4 + 8

Init ==
    /\ task = 0 /\ intent = "read" /\ node = "end" /\ steps = 0 /\ iteration = 0
    /\ attempts = <<>> /\ tools = {} /\ late = FALSE /\ pending = NoCall
    /\ calls = <<>> /\ outcomes = <<>> /\ executed = {}
    /\ applied = [k \in Key |-> 0] /\ done = {}
    /\ result = "none"
    /\ entitled = FALSE /\ policy = FALSE /\ outages = 0

\* The last two steps are the same, or both failed.
NoProgress ==
    /\ Len(attempts) >= 2
    /\ LET last == Last(attempts)
           prev == attempts[Len(attempts) - 1]
       IN  \/ last.what = prev.what /\ last.input = prev.input
           \/ last.error /\ prev.error

Stop ==
    late \/ iteration >= MaxIterations \/ Len(attempts) >= MaxQueries \/ NoProgress

\* The node returns; the next one runs.
Go(next) == node' = next /\ steps' = steps + 1

-----------------------------------------------------------------------------
(* The server *)

\* A task arrives.  It starts with a verified snapshot, a current policy and a
\* skill its owner may use, or is answered at once.
Receive(i, answer) ==
    /\ node = "end"
    /\ task < MaxTasks
    /\ task' = task + 1
    /\ intent' = i
    /\ answer \in {"none", "failed", "denied", "needs_approval"}
    /\ answer = "none" => i \in Entitled
    /\ node' = IF answer = "none" THEN "start" ELSE "end"
    /\ result' = answer
    /\ policy' = (answer = "none")
    /\ steps' = 0 /\ iteration' = 0 /\ attempts' = <<>> /\ tools' = {}
    /\ late' = FALSE /\ pending' = NoCall /\ calls' = <<>> /\ outcomes' = <<>>
    /\ executed' = {} /\ done' = {} /\ entitled' = FALSE
    /\ UNCHANGED <<applied, outages>>

\* A concurrent task cannot refresh the policy and clears it.
Outage ==
    /\ policy
    /\ outages < MaxOutages
    /\ policy' = FALSE
    /\ outages' = outages + 1
    /\ UNCHANGED <<task, intent, node, steps, iteration, attempts, tools, late, pending,
                   calls, outcomes, executed, applied, done, result, entitled>>

\* Another one refreshes it.
Restore ==
    /\ ~policy
    /\ node # "end"
    /\ policy' = TRUE
    /\ UNCHANGED <<task, intent, node, steps, iteration, attempts, tools, late, pending,
                   calls, outcomes, executed, applied, done, result, entitled, outages>>

\* The time budget runs out.
TimeIsUp ==
    /\ node # "end"
    /\ ~late
    /\ late' = TRUE
    /\ UNCHANGED <<env, node, steps, iteration, attempts, tools, pending, calls, outcomes, result>>

\* A model call or a token fails: the exception leaves the graph.
Fail ==
    /\ node \in {"plan_read", "critique", "compose", "plan_write", "dispatch_read",
                 "resolve_read", "dispatch_writes", "compose_writes"}
    /\ node' = "end"
    /\ result' = "failed"
    /\ UNCHANGED <<env, steps, iteration, attempts, tools, late, pending, calls, outcomes>>

-----------------------------------------------------------------------------
(* Reading *)

Start ==
    /\ node = "start"
    /\ Go(IF intent = "write" THEN "plan_write" ELSE "discover")
    /\ UNCHANGED <<env, iteration, attempts, tools, late, pending, calls, outcomes, result>>

\* tools/list answers, or fails and leaves no tools.
Discover ==
    /\ node = "discover"
    /\ tools' \in {{}, Tools}
    /\ Go("schema")
    /\ UNCHANGED <<env, iteration, attempts, late, pending, calls, outcomes, result>>

LoadSchema ==
    /\ node = "schema"
    /\ Go("plan_read")
    /\ UNCHANGED <<env, iteration, attempts, tools, late, pending, calls, outcomes, result>>

\* The model asks for an entitled read or a discovered tool, or the loop ends.
PlanRead ==
    /\ node = "plan_read"
    /\ \/ /\ ~Stop
          /\ \E what \in AuthorizedReads \cup tools : \E in \in Input :
                /\ pending' = [what |-> what, input |-> in]
                /\ Go(IF what \in Reads THEN "dispatch_read" ELSE "dispatch_mcp")
          /\ iteration' = iteration + 1
       \/ /\ pending' = NoCall
          /\ Go("compose")
          /\ UNCHANGED iteration
    /\ UNCHANGED <<env, attempts, tools, late, calls, outcomes, result>>

\* A tool call answers, fails, or is refused before it is sent.
DispatchMcp ==
    /\ node = "dispatch_mcp"
    /\ \E e \in BOOLEAN :
          attempts' = Append(attempts, [what |-> pending.what, input |-> pending.input, error |-> e])
    /\ pending' = NoCall
    /\ Go("critique")
    /\ UNCHANGED <<env, iteration, tools, late, calls, outcomes, result>>

\* Mutant of Permitted: the planner's choice is trusted.
Permitted_Trusted(cap) == TRUE

\* Layer B: the capability is checked again when it is dispatched.
Permitted(cap) == policy /\ cap \in Entitled

\* One read through the gateway; a refused one counts as a failed attempt.
ReadOnce(next) ==
    /\ \E e \in BOOLEAN :
          /\ ~Permitted(pending.what) => e
          /\ attempts' = Append(attempts,
                            [what |-> pending.what, input |-> pending.input, error |-> e])
    /\ executed' = IF Permitted(pending.what) THEN executed \cup {pending.what} ELSE executed
    /\ pending' = NoCall
    /\ Go(next)
    /\ UNCHANGED <<task, intent, applied, done, authz, iteration, tools, late, calls, outcomes,
                   result>>

DispatchRead == node = "dispatch_read" /\ ReadOnce("critique")
ResolveRead  == node = "resolve_read" /\ ReadOnce("plan_write")

\* Satisfied, or out of budget, or once more.
Critique ==
    /\ node = "critique"
    /\ \E next \in {"compose", "plan_read"} : (Stop => next = "compose") /\ Go(next)
    /\ UNCHANGED <<env, iteration, attempts, tools, late, pending, calls, outcomes, result>>

\* The model answers, or has nothing to say.
Compose ==
    /\ node = "compose"
    /\ result' \in {"completed", "failed"}
    /\ Go("end")
    /\ UNCHANGED <<env, iteration, attempts, tools, late, pending, calls, outcomes>>

-----------------------------------------------------------------------------
(* Writing *)

\* The entitled reads not used yet; the harness has an order among them.
Unused == AuthorizedReads \ {attempts[i].what : i \in DOMAIN attempts}

\* The model does not advance although it may write: a read is forced, or it is
\* asked again.
Stall ==
    /\ AuthorizedWrites # {}
    /\ \/ \E r \in Unused :
             pending' = [what |-> r, input |-> EmptyInput] /\ Go("resolve_read")
       \/ Unused = {} /\ pending' = NoCall /\ Go("plan_write")
    /\ iteration' = iteration + 1
    /\ UNCHANGED calls

\* The model proposes writes; at most max_queries of them are kept.  It may name
\* any capability, a read too; one the catalog does not have is refused like one
\* its owner may not use.
ProposeWrites ==
    \E n \in 1..MaxQueries : \E caps \in [1..n -> Reads \cup Writes] :
        /\ calls' = [i \in 1..n |-> [cap |-> caps[i], index |-> i]]
        /\ pending' = NoCall
        /\ Go("dispatch_writes")
        /\ UNCHANGED iteration

\* The model asks for an entitled read first.
ProposeRead ==
    \E r \in AuthorizedReads : \E in \in Input :
        /\ pending' = [what |-> r, input |-> in]
        /\ Go("resolve_read")
        /\ iteration' = iteration + 1
        /\ UNCHANGED calls

\* Out of budget, or no write is allowed anyway.
GiveUp ==
    /\ Stop \/ AuthorizedWrites = {}
    /\ pending' = NoCall
    /\ Go("compose_writes")
    /\ UNCHANGED <<calls, iteration>>

PlanWrite ==
    /\ node = "plan_write"
    /\ GiveUp \/ (~Stop /\ (ProposeWrites \/ ProposeRead \/ Stall))
    /\ entitled' = (AuthorizedWrites # {})
    /\ UNCHANGED <<task, intent, executed, applied, done, policy, outages, attempts, tools, late,
                   outcomes, result>>

\* The next proposed call: refused by Layer B, or sent to the gateway, which
\* refuses it, or executes it and answers, or executes it and is not heard.
DispatchWrite ==
    LET call == Head(calls)
        key  == <<call.cap, call.index>>
    IN
    /\ node = "dispatch_writes"
    /\ calls # <<>>
    /\ calls' = Tail(calls)
    /\ IF Permitted(call.cap)
       THEN /\ executed' = executed \cup {call.cap}
            /\ \/ UNCHANGED <<applied, done>> /\ outcomes' = Append(outcomes, "failed")
               \/ /\ applied' = [applied EXCEPT ![key] = @ + 1]
                  /\ done' = done \cup {key}
                  /\ \E o \in {"completed", "failed"} : outcomes' = Append(outcomes, o)
       ELSE outcomes' = Append(outcomes, "denied") /\ UNCHANGED <<executed, applied, done>>
    /\ UNCHANGED <<task, intent, node, steps, iteration, attempts, tools, late, pending, result,
                   authz>>

WritesDone ==
    /\ node = "dispatch_writes"
    /\ calls = <<>>
    /\ Go("compose_writes")
    /\ UNCHANGED <<env, iteration, attempts, tools, late, pending, calls, outcomes, result>>

\* Mutant of WriteStatus: a task without a write is done.
WriteStatus_Optimistic ==
    IF outcomes = <<>> \/ "completed" \in ToSet(outcomes) THEN "completed" ELSE "failed"

\* What a write task reports.
WriteStatus ==
    IF outcomes = <<>>
    THEN IF entitled THEN "failed" ELSE "completed"
    ELSE IF "completed" \in ToSet(outcomes) THEN "completed" ELSE "failed"

ComposeWrites ==
    /\ node = "compose_writes"
    /\ result' = WriteStatus
    /\ Go("end")
    /\ UNCHANGED <<env, iteration, attempts, tools, late, pending, calls, outcomes>>

-----------------------------------------------------------------------------
RunNode ==
    \/ Start \/ Discover \/ LoadSchema \/ PlanRead \/ DispatchMcp \/ DispatchRead
    \/ Critique \/ Compose
    \/ PlanWrite \/ ResolveRead \/ DispatchWrite \/ WritesDone \/ ComposeWrites

Next ==
    \/ \E i \in {"read", "write"}, answer \in {"none", "failed", "denied", "needs_approval"} :
          Receive(i, answer)
    \/ Outage
    \/ Restore
    \/ TimeIsUp
    \/ Fail
    \/ RunNode

Spec == Init /\ [][Next]_vars

-----------------------------------------------------------------------------
(* Properties *)

\* Every variable has its type.
TypeOK ==
    /\ task \in 0..MaxTasks
    /\ intent \in {"read", "write"}
    /\ node \in Node
    /\ steps \in Nat /\ iteration \in 0..MaxIterations
    /\ attempts \in Seq(Attempt)
    /\ tools \subseteq Tools
    /\ late \in BOOLEAN
    /\ pending \in {NoCall} \cup [what : Reads \cup Tools, input : Input]
    /\ \A i \in DOMAIN calls : <<calls[i].cap, calls[i].index>> \in Key
    /\ outcomes \in Seq(Outcome)
    /\ executed \subseteq Reads \cup Writes
    /\ applied \in [Key -> Nat] /\ done \subseteq Key
    /\ result \in {"none", "completed", "failed", "denied", "needs_approval"}
    /\ {entitled, policy} \subseteq BOOLEAN
    /\ outages \in 0..MaxOutages

\* Whatever the model chooses, only what the snapshot entitles the owner to
\* reaches the gateway: the write planner is not bound to the menu it is shown.
NothingUnauthorized == executed \subseteq Entitled

\* Whatever the model chooses, the loop ends by its own budgets with the answer
\* it has: it never runs into LangGraph's recursion limit, which would lose it.
StepsWithinLimit == node # "end" => steps < RecursionLimit

\* A write task whose owner may write, and that says it completed, had one of the
\* calls it proposed executed by the gateway.
CompletedTaskActed ==
    node = "end" /\ intent = "write" /\ result = "completed" =>
        Writes \cap Entitled = {} \/ done # {}

\* As long as the policy stays loaded, there is no silent no-op: a write task
\* whose owner may write says that it completed only if the gateway executed a
\* call this task proposed, whatever the model says and whichever calls fail, are
\* refused or are not heard.  The call may be a read: see CompletedTaskWrote.
NoSilentNoOp == outages = 0 => CompletedTaskActed

-----------------------------------------------------------------------------
(* What the repository says of the program, and the code refutes *)

\* graph.py:320-321 "a guard budget stops the run (then fail closed - no silent
\* no-op)": the same, also when a concurrent task clears the policy.
NeverSilentNoOp == CompletedTaskActed

\* The same of a write: what a completed write task had executed is a write.  The
\* harness executes any capability the model lists as a write, and the gateway
\* executes a read it is entitled to.
CompletedTaskWrote ==
    outages = 0 /\ node = "end" /\ intent = "write" /\ result = "completed" =>
        Writes \cap Entitled = {} \/ \E k \in done : k[1] \in Writes

\* capability_client.py says that a replayed mutation is safe because it carries
\* an idempotency key: the gateway executes a key once.
KeyAppliedOnce == \A k \in Key : applied[k] <= 1

=============================================================================
