--------------------------- MODULE Analyst_proofs ---------------------------
(***************************************************************************)
(* TLAPS proofs about an analyst agent: its bounded loop (AnalystHarness), *)
(* for any capabilities, tools, inputs, entitlements and limits, whatever  *)
(* the model chooses; and the data server it asks (DbMcp), for any runs,   *)
(* sessions, queries, rows and connections.                                *)
(***************************************************************************)
EXTENDS AnalystHarness, DbMcp, FiniteSetTheorems, WellFoundedInduction, TLAPS

-----------------------------------------------------------------------------
(* The loop: the inductive invariant *)

Reading == {"discover", "schema", "plan_read", "dispatch_mcp", "dispatch_read", "critique",
            "compose"}
Writing == {"plan_write", "resolve_read", "dispatch_writes", "compose_writes"}

Call == [cap : Reads \cup Writes, index : 1 .. MaxQueries]

Typed ==
    /\ node \in Node
    /\ intent \in {"read", "write"}
    /\ steps \in Nat /\ iteration \in 0 .. MaxIterations
    /\ outcomes \in Seq(Outcome)
    /\ calls \in Seq(Call)
    /\ applied \in [Key -> Nat]
    /\ entitled \in BOOLEAN /\ policy \in BOOLEAN
    /\ outages \in Nat

\* What a task has run of the graph, by its node and its iterations.
StepsAt ==
    CASE node = "start"           -> steps = 0 /\ iteration = 0
      [] node = "discover"        -> steps = 1 /\ iteration = 0
      [] node = "schema"          -> steps = 2 /\ iteration = 0
      [] node = "plan_read"       -> steps <= 3 * iteration + 3
      [] node = "dispatch_mcp"    -> steps <= 3 * iteration + 1
      [] node = "dispatch_read"   -> steps <= 3 * iteration + 1
      [] node = "critique"        -> steps <= 3 * iteration + 2
      [] node = "compose"         -> steps <= 3 * iteration + 4
      [] node = "plan_write"      -> steps <= 2 * iteration + 1
      [] node = "resolve_read"    -> steps <= 2 * iteration
      [] node = "dispatch_writes" -> steps <= 2 * iteration + 2
      [] node = "compose_writes"  -> steps <= 2 * iteration + 3
      [] OTHER                    -> TRUE

\* A task stays on the side of the graph its intent sent it to.
Sides ==
    /\ node \in Reading => intent = "read"
    /\ node \in Writing => intent = "write"

\* While the policy was never cleared, a task that runs has it, and one that has
\* planned its writes knows whether its owner may write.
PolicyKnown ==
    outages = 0 =>
        /\ node # "end" => policy
        /\ node \in {"dispatch_writes", "compose_writes"} => (entitled <=> Writes \cap Entitled # {})

\* A call that is reported completed was executed for this task.
OutcomesAreTrue == (\E i \in DOMAIN outcomes : outcomes[i] = "completed") => done # {}

IInv ==
    /\ Typed /\ StepsAt /\ Sides /\ PolicyKnown /\ OutcomesAreTrue
    /\ NothingUnauthorized
    /\ NoSilentNoOp

-----------------------------------------------------------------------------
(* The steps keep the invariant, conjunct by conjunct *)

LEMMA Limits ==
    /\ MaxIterations \in Nat \ {0} /\ MaxQueries \in Nat \ {0}
    /\ MaxTasks \in Nat /\ MaxOutages \in Nat
BY HarnessAssumption

LEMMA InitIInv == Init => IInv
<1> SUFFICES ASSUME Init  PROVE IInv
  OBVIOUS
<1>1. Typed
  <2>1. calls \in Seq(Call) /\ outcomes \in Seq(Outcome)
    BY DEF Init
  <2>2. applied \in [Key -> Nat]
    BY DEF Init
  <2>3. iteration \in 0 .. MaxIterations /\ steps \in Nat /\ outages \in Nat
    BY Limits DEF Init
  <2> QED  BY <2>1, <2>2, <2>3 DEF Init, Typed, Node
<1>2. StepsAt /\ Sides /\ PolicyKnown /\ OutcomesAreTrue
  BY DEF Init, StepsAt, Sides, PolicyKnown, OutcomesAreTrue, Reading, Writing
<1>3. NothingUnauthorized /\ NoSilentNoOp
  BY DEF Init, NothingUnauthorized, NoSilentNoOp, CompletedTaskActed
<1> QED  BY <1>1, <1>2, <1>3 DEF IInv

\* The types.
LEMMA TypedStep ==
    ASSUME Typed, Next
    PROVE  Typed'
<1> USE Limits DEF Typed, Node
<1>1. ASSUME NEW i \in {"read", "write"},
             NEW reply \in {"none", "failed", "denied", "needs_approval"}, Receive(i, reply)
      PROVE  Typed'
  <2>1. calls' \in Seq(Call) /\ outcomes' \in Seq(Outcome)
    BY <1>1 DEF Receive
  <2>2. applied' \in [Key -> Nat] /\ outages' \in Nat
    BY <1>1 DEF Receive
  <2>3. node' \in Node /\ intent' = i /\ policy' \in BOOLEAN /\ entitled' = FALSE
    BY <1>1 DEF Receive
  <2>4. steps' \in Nat /\ iteration' \in 0 .. MaxIterations
    BY <1>1 DEF Receive
  <2> QED  BY <2>1, <2>2, <2>3, <2>4
<1>2. CASE Outage \/ Restore \/ TimeIsUp \/ Fail
  <2>1. CASE Outage
    <3>1. outages' \in Nat /\ policy' = FALSE
      BY <2>1 DEF Outage
    <3> QED  BY <2>1, <3>1 DEF Outage
  <2>2. CASE Restore
    BY <2>2 DEF Restore
  <2>3. CASE TimeIsUp
    BY <2>3 DEF TimeIsUp, env, authz
  <2>4. CASE Fail
    BY <2>4 DEF Fail, env, authz
  <2> QED  BY <1>2, <2>1, <2>2, <2>3, <2>4
<1>3. CASE Start \/ Discover \/ LoadSchema \/ DispatchMcp \/ Critique \/ Compose
  BY <1>3 DEF Start, Discover, LoadSchema, DispatchMcp, Critique, Compose, Go, env, authz
<1>4. CASE DispatchRead \/ ResolveRead
  BY <1>4 DEF DispatchRead, ResolveRead, ReadOnce, Go, authz
<1>5. CASE PlanRead
  BY <1>5 DEF PlanRead, Go, Stop, env, authz
<1>6. CASE PlanWrite
  <2>1. /\ UNCHANGED <<intent, applied, policy, outages, outcomes>>
        /\ entitled' \in BOOLEAN
        /\ steps' = steps + 1
    BY <1>6 DEF PlanWrite, GiveUp, ProposeWrites, ProposeRead, Stall, Go
  <2>2. node' \in Node /\ iteration' \in 0 .. MaxIterations
    BY <1>6 DEF PlanWrite, GiveUp, ProposeWrites, ProposeRead, Stall, Go, Stop
  <2>3. calls' \in Seq(Call)
    <3>1. CASE ProposeWrites
      <4>0. PICK n \in 1 .. MaxQueries : \E caps \in [1 .. n -> Reads \cup Writes] :
              calls' = [i \in 1 .. n |-> [cap |-> caps[i], index |-> i]]
        BY <3>1 DEF ProposeWrites
      <4>1. PICK caps \in [1 .. n -> Reads \cup Writes] :
              calls' = [i \in 1 .. n |-> [cap |-> caps[i], index |-> i]]
        BY <4>0
      <4>2. n \in Nat /\ \A i \in 1 .. n : calls'[i] \in Call
        BY <4>1 DEF Call
      <4> QED  BY <4>1, <4>2
    <3>2. CASE UNCHANGED calls
      BY <3>2
    <3> QED  BY <1>6, <3>1, <3>2 DEF PlanWrite, GiveUp, ProposeRead, Stall
  <2> QED  BY <2>1, <2>2, <2>3
<1>7. CASE DispatchWrite
  <2> DEFINE key == <<Head(calls).cap, Head(calls).index>>
  <2>1. /\ UNCHANGED <<node, intent, steps, iteration, entitled, policy, outages>>
        /\ calls # <<>> /\ calls' = Tail(calls)
        /\ \E o \in Outcome : outcomes' = Append(outcomes, o)
        /\ applied' = applied \/ applied' = [applied EXCEPT ![key] = @ + 1]
    BY <1>7 DEF DispatchWrite, Outcome, authz
  <2>2. applied' \in [Key -> Nat]
    <3>1. \A k \in Key : applied[k] + 1 \in Nat
      OBVIOUS
    <3> QED  BY <2>1, <3>1
  <2>3. calls' \in Seq(Call)
    BY <2>1
  <2>4. outcomes' \in Seq(Outcome)
    BY <2>1
  <2> QED  BY <2>1, <2>2, <2>3, <2>4
<1>8. CASE WritesDone \/ ComposeWrites
  BY <1>8 DEF WritesDone, ComposeWrites, Go, env, authz
<1> QED  BY <1>1, <1>2, <1>3, <1>4, <1>5, <1>6, <1>7, <1>8 DEF Next, RunNode

\* The loop's budgets bound the steps.
LEMMA StepsStep ==
    ASSUME Typed, StepsAt, Next
    PROVE  StepsAt'
<1> USE DEF Typed, StepsAt, Go
<1>1. ASSUME NEW i \in {"read", "write"},
             NEW reply \in {"none", "failed", "denied", "needs_approval"}, Receive(i, reply)
      PROVE  StepsAt'
  BY <1>1 DEF Receive
<1>2. CASE Outage \/ Restore \/ TimeIsUp \/ Fail
  BY <1>2 DEF Outage, Restore, TimeIsUp, Fail, env
<1>3. CASE Start \/ Discover \/ LoadSchema
  BY <1>3 DEF Start, Discover, LoadSchema
<1>4. CASE DispatchMcp \/ Critique \/ Compose
  <2>1. CASE DispatchMcp
    BY <2>1 DEF DispatchMcp, env
  <2>2. CASE Critique
    BY <2>2 DEF Critique, env
  <2>3. CASE Compose
    BY <2>3 DEF Compose, env
  <2> QED  BY <1>4, <2>1, <2>2, <2>3
<1>5. CASE DispatchRead \/ ResolveRead
  BY <1>5 DEF DispatchRead, ResolveRead, ReadOnce
<1>6. CASE PlanRead
  <2>1. CASE node' = "compose" /\ UNCHANGED iteration
    BY <1>6, <2>1 DEF PlanRead
  <2>2. CASE node' \in {"dispatch_read", "dispatch_mcp"} /\ iteration' = iteration + 1
    BY <1>6, <2>2 DEF PlanRead
  <2> QED  BY <1>6, <2>1, <2>2 DEF PlanRead
<1>7. CASE PlanWrite
  <2>1. node = "plan_write" /\ steps' = steps + 1
    BY <1>7 DEF PlanWrite, GiveUp, ProposeWrites, ProposeRead, Stall
  <2>2. CASE GiveUp
    BY <2>1, <2>2 DEF GiveUp
  <2>3. CASE ProposeWrites
    BY <2>1, <2>3 DEF ProposeWrites
  <2>4. CASE ProposeRead
    BY <2>1, <2>4 DEF ProposeRead
  <2>5. CASE Stall
    BY <2>1, <2>5 DEF Stall
  <2> QED  BY <1>7, <2>2, <2>3, <2>4, <2>5 DEF PlanWrite
<1>8. CASE DispatchWrite \/ WritesDone \/ ComposeWrites
  BY <1>8 DEF DispatchWrite, WritesDone, ComposeWrites, env
<1> QED  BY <1>1, <1>2, <1>3, <1>4, <1>5, <1>6, <1>7, <1>8 DEF Next, RunNode

\* The graph's edges stay on one side.
LEMMA SidesStep ==
    ASSUME Typed, Sides, Next
    PROVE  Sides'
<1> USE DEF Typed, Sides, Go, Reading, Writing
<1>1. ASSUME NEW i \in {"read", "write"},
             NEW reply \in {"none", "failed", "denied", "needs_approval"}, Receive(i, reply)
      PROVE  Sides'
  BY <1>1 DEF Receive
<1>2. CASE Outage \/ Restore \/ TimeIsUp \/ Fail
  BY <1>2 DEF Outage, Restore, TimeIsUp, Fail, env
<1>3. CASE Start \/ Discover \/ LoadSchema \/ PlanRead
  BY <1>3 DEF Start, Discover, LoadSchema, PlanRead, env
<1>4. CASE DispatchMcp \/ Critique \/ Compose
  BY <1>4 DEF DispatchMcp, Critique, Compose, env
<1>5. CASE DispatchRead \/ ResolveRead
  BY <1>5 DEF DispatchRead, ResolveRead, ReadOnce
<1>6. CASE PlanWrite
  BY <1>6 DEF PlanWrite, GiveUp, ProposeWrites, ProposeRead, Stall
<1>7. CASE DispatchWrite \/ WritesDone \/ ComposeWrites
  BY <1>7 DEF DispatchWrite, WritesDone, ComposeWrites, env
<1> QED  BY <1>1, <1>2, <1>3, <1>4, <1>5, <1>6, <1>7 DEF Next, RunNode

\* The policy is lost by an outage only.
LEMMA PolicyStep ==
    ASSUME Typed, PolicyKnown, Next
    PROVE  PolicyKnown'
<1> USE DEF Typed, PolicyKnown, Go
<1>1. ASSUME NEW i \in {"read", "write"},
             NEW reply \in {"none", "failed", "denied", "needs_approval"}, Receive(i, reply)
      PROVE  PolicyKnown'
  BY <1>1 DEF Receive
<1>2. CASE Outage \/ Restore \/ TimeIsUp \/ Fail
  BY <1>2 DEF Outage, Restore, TimeIsUp, Fail, env, authz
<1>3. CASE Start \/ Discover \/ LoadSchema \/ PlanRead
  BY <1>3 DEF Start, Discover, LoadSchema, PlanRead, env, authz
<1>4. CASE DispatchMcp \/ Critique \/ Compose
  BY <1>4 DEF DispatchMcp, Critique, Compose, env, authz
<1>5. CASE DispatchRead \/ ResolveRead
  BY <1>5 DEF DispatchRead, ResolveRead, ReadOnce, authz
<1>6. CASE PlanWrite
  <2>1. /\ node = "plan_write" /\ UNCHANGED <<policy, outages>>
        /\ entitled' = (AuthorizedWrites # {})
    BY <1>6 DEF PlanWrite
  <2>2. outages = 0 => (entitled' <=> Writes \cap Entitled # {})
    BY <2>1 DEF AuthorizedWrites
  <2> QED  BY <2>1, <2>2
<1>7. CASE DispatchWrite \/ WritesDone \/ ComposeWrites
  BY <1>7 DEF DispatchWrite, WritesDone, ComposeWrites, env, authz
<1> QED  BY <1>1, <1>2, <1>3, <1>4, <1>5, <1>6, <1>7 DEF Next, RunNode

\* A call is executed before it is reported completed.
LEMMA OutcomesStep ==
    ASSUME Typed, OutcomesAreTrue, Next
    PROVE  OutcomesAreTrue'
<1>1. CASE UNCHANGED <<outcomes, done>>
  BY <1>1 DEF OutcomesAreTrue
<1>2. ASSUME NEW i \in {"read", "write"},
             NEW reply \in {"none", "failed", "denied", "needs_approval"}, Receive(i, reply)
      PROVE  OutcomesAreTrue'
  BY <1>2 DEF Receive, OutcomesAreTrue
<1>3. CASE DispatchWrite
  <2> DEFINE key == <<Head(calls).cap, Head(calls).index>>
  <2>1. CASE done' = done \cup {key}
    BY <2>1 DEF OutcomesAreTrue
  <2>2. CASE UNCHANGED done /\ \E o \in {"failed", "denied"} : outcomes' = Append(outcomes, o)
    <3>1. PICK o \in {"failed", "denied"} : outcomes' = Append(outcomes, o)
      BY <2>2
    <3>2. (\E i \in DOMAIN outcomes' : outcomes'[i] = "completed")
          => \E i \in DOMAIN outcomes : outcomes[i] = "completed"
      BY <3>1 DEF Typed
    <3> QED  BY <2>2, <3>2 DEF OutcomesAreTrue
  <2> QED  BY <1>3, <2>1, <2>2 DEF DispatchWrite
<1>4. CASE Outage \/ Restore \/ TimeIsUp \/ Fail \/ Start \/ Discover \/ LoadSchema \/ PlanRead
           \/ DispatchMcp \/ Critique \/ Compose
  BY <1>1, <1>4 DEF Outage, Restore, TimeIsUp, Fail, Start, Discover, LoadSchema, PlanRead,
     DispatchMcp, Critique, Compose, env
<1>5. CASE DispatchRead \/ ResolveRead \/ PlanWrite \/ WritesDone \/ ComposeWrites
  BY <1>1, <1>5 DEF DispatchRead, ResolveRead, ReadOnce, PlanWrite, WritesDone, ComposeWrites, env
<1> QED  BY <1>2, <1>3, <1>4, <1>5 DEF Next, RunNode

\* Nothing is sent to the gateway that the second layer does not permit.
LEMMA AuthorizedStep ==
    ASSUME NothingUnauthorized, Next
    PROVE  NothingUnauthorized'
<1> USE DEF NothingUnauthorized
<1>1. CASE UNCHANGED executed
  BY <1>1
<1>2. ASSUME NEW i \in {"read", "write"},
             NEW reply \in {"none", "failed", "denied", "needs_approval"}, Receive(i, reply)
      PROVE  NothingUnauthorized'
  BY <1>2 DEF Receive
<1>3. CASE DispatchRead \/ ResolveRead
  BY <1>3 DEF DispatchRead, ResolveRead, ReadOnce, Permitted
<1>4. CASE DispatchWrite
  BY <1>4 DEF DispatchWrite, Permitted
<1>5. CASE Outage \/ Restore \/ TimeIsUp \/ Fail \/ Start \/ Discover \/ LoadSchema \/ PlanRead
           \/ DispatchMcp \/ Critique \/ Compose
  BY <1>1, <1>5 DEF Outage, Restore, TimeIsUp, Fail, Start, Discover, LoadSchema, PlanRead,
     DispatchMcp, Critique, Compose, env
<1>6. CASE PlanWrite \/ WritesDone \/ ComposeWrites
  BY <1>1, <1>6 DEF PlanWrite, WritesDone, ComposeWrites, env
<1> QED  BY <1>2, <1>3, <1>4, <1>5, <1>6 DEF Next, RunNode

\* A task that ends says that it completed only if a call of its own was executed, or
\* its owner may write nothing.
LEMMA NoOpStep ==
    ASSUME IInv, Next
    PROVE  NoSilentNoOp'
<1> USE DEF IInv, NoSilentNoOp, CompletedTaskActed
<1>2. CASE node' # "end"
  BY <1>2
<1>3. ASSUME NEW i \in {"read", "write"},
             NEW reply \in {"none", "failed", "denied", "needs_approval"}, Receive(i, reply)
      PROVE  NoSilentNoOp'
  BY <1>3 DEF Receive
<1>4. CASE node = "end" /\ node' = "end" /\ UNCHANGED <<intent, result, done>> /\ outages' >= outages
  BY <1>4 DEF Typed
<1>5. CASE Outage \/ Restore \/ TimeIsUp
  BY <1>2, <1>4, <1>5 DEF Outage, Restore, TimeIsUp, env, Typed, authz
<1>6. CASE Fail
  BY <1>6 DEF Fail
<1>7. CASE Compose
  BY <1>7 DEF Compose, Sides, Reading, env
<1>8. CASE ComposeWrites
  <2>1. /\ node = "compose_writes" /\ result' = WriteStatus
        /\ UNCHANGED <<intent, done, outages, entitled, outcomes>>
    BY <1>8 DEF ComposeWrites, env, authz
  <2>2. SUFFICES ASSUME outages = 0, WriteStatus = "completed"
                 PROVE  Writes \cap Entitled = {} \/ done # {}
    BY <2>1
  <2>3. CASE outcomes = <<>>
    <3>1. ~entitled
      BY <2>2, <2>3 DEF WriteStatus
    <3>2. entitled <=> Writes \cap Entitled # {}
      BY <2>1, <2>2 DEF PolicyKnown
    <3> QED  BY <3>1, <3>2
  <2>4. CASE outcomes # <<>>
    <3>1. "completed" \in ToSet(outcomes)
      BY <2>2, <2>4 DEF WriteStatus
    <3> QED  BY <3>1 DEF ToSet, OutcomesAreTrue
  <2> QED  BY <2>3, <2>4
<1>9. CASE Start \/ Discover \/ LoadSchema \/ PlanRead \/ DispatchMcp \/ DispatchRead \/ Critique
           \/ PlanWrite \/ ResolveRead \/ DispatchWrite \/ WritesDone
  <2>1. node' # "end"
    BY <1>9 DEF Start, Discover, LoadSchema, PlanRead, DispatchMcp, DispatchRead, Critique,
       PlanWrite, GiveUp, ProposeWrites, ProposeRead, Stall, ResolveRead, ReadOnce, DispatchWrite,
       WritesDone, Go
  <2> QED  BY <1>2, <2>1
<1> QED  BY <1>3, <1>5, <1>6, <1>7, <1>8, <1>9 DEF Next, RunNode

LEMMA StepKeeps == IInv /\ [Next]_vars => IInv'
<1> SUFFICES ASSUME IInv, [Next]_vars  PROVE IInv'
  OBVIOUS
<1>1. CASE Next
  BY <1>1, TypedStep, StepsStep, SidesStep, PolicyStep, OutcomesStep, AuthorizedStep, NoOpStep
     DEF IInv
<1>2. CASE UNCHANGED vars
  BY <1>2 DEF vars, IInv, Typed, StepsAt, Sides, PolicyKnown, OutcomesAreTrue,
     NothingUnauthorized, NoSilentNoOp, CompletedTaskActed
<1> QED  BY <1>1, <1>2

-----------------------------------------------------------------------------
(* Theorems *)

\* The invariant holds in every reachable state.
THEOREM Invariance == Spec => []IInv
BY InitIInv, StepKeeps, PTL DEF Spec

\* Whatever the model proposes, only what the snapshot entitles the owner to reaches
\* the gateway.
THEOREM OnlyEntitled == Spec => []NothingUnauthorized
BY Invariance, PTL DEF IInv

\* The loop's own budgets end it before LangGraph's recursion limit would, for every
\* setting of the two limits.
THEOREM BudgetsEndTheLoop == Spec => []StepsWithinLimit
<1>1. IInv => StepsWithinLimit
  <2> SUFFICES ASSUME IInv, node # "end"  PROVE steps < RecursionLimit
    BY DEF StepsWithinLimit
  <2>1. iteration <= MaxIterations /\ iteration \in Nat /\ steps \in Nat
        /\ MaxIterations \in Nat /\ MaxQueries \in Nat
    BY HarnessAssumption DEF IInv, Typed
  <2>2. RecursionLimit >= 4 * MaxIterations + 8
    BY <2>1 DEF RecursionLimit
  <2>3. steps <= 3 * iteration + 4
    <3>1. StepsAt /\ node \in Node \ {"end"}
      BY DEF IInv, Typed
    <3>2. CASE node \in {"start", "discover", "schema", "plan_read"}
      BY <2>1, <3>1, <3>2 DEF StepsAt
    <3>3. CASE node \in {"dispatch_mcp", "dispatch_read", "critique", "compose"}
      BY <2>1, <3>1, <3>3 DEF StepsAt
    <3>4. CASE node \in {"plan_write", "resolve_read", "dispatch_writes", "compose_writes"}
      BY <2>1, <3>1, <3>4 DEF StepsAt
    <3> QED  BY <3>1, <3>2, <3>3, <3>4 DEF Node
  <2>4. RecursionLimit \in Nat
    BY <2>1 DEF RecursionLimit
  <2>5. steps <= 3 * MaxIterations + 4
    BY <2>1, <2>3
  <2> QED  BY <2>1, <2>2, <2>4, <2>5
<1> QED  BY <1>1, Invariance, PTL

\* While the policy is not cleared, a write task whose owner may write reports
\* completion only if the gateway executed one of the calls the task proposed.
THEOREM CompletionIsEarned == Spec => []NoSilentNoOp
BY Invariance, PTL DEF IInv

-----------------------------------------------------------------------------
(* The data server: what a result is cut to *)

\* Every set of naturals up to a bound that is not empty has a least element.
LEMMA LeastNumber ==
    ASSUME NEW n \in Nat, NEW B \in SUBSET (0 .. n), B # {}
    PROVE  \E m \in B : \A k \in B : m <= k
<1> DEFINE Below(k) == 0 .. k
           T == {Below(k) : k \in B}
           S == 0 .. n
<1>1. IsFiniteSet(S)
  BY FS_Interval
<1>2. T \subseteq FiniteSubsetsOf(S) /\ T # {}
  <2>1. ASSUME NEW k \in B  PROVE Below(k) \in FiniteSubsetsOf(S)
    <3>1. Below(k) \subseteq S
      OBVIOUS
    <3>2. IsFiniteSet(Below(k))
      BY <1>1, <3>1, FS_Subset
    <3> QED  BY <3>1, <3>2 DEF FiniteSubsetsOf
  <2> QED  BY <2>1
<1>3. IsWellFoundedOn(StrictSubsetOrdering(S), FiniteSubsetsOf(S))
  BY FS_StrictSubsetOrderingWellFounded
<1>4. PICK x \in T : \A y \in T : ~ (<<y, x>> \in StrictSubsetOrdering(S))
  <2> HIDE DEF T, S
  <2> QED  BY <1>2, <1>3, WFMin
<1>5. PICK m \in B : x = Below(m)
  BY <1>4
<1>6. ASSUME NEW k \in B, k < m  PROVE FALSE
  <2>1. Below(k) \in T /\ Below(k) \subseteq Below(m) /\ m \in Below(m) /\ m \notin Below(k)
    BY <1>6
  <2>2. Below(k) # Below(m)
    BY <2>1
  <2>3. <<Below(k), Below(m)>> \in StrictSubsetOrdering(S)
    BY <2>1, <2>2 DEF StrictSubsetOrdering
  <2> QED  BY <1>4, <1>5, <2>1, <2>3
<1> QED  BY <1>6

\* The recursion of capResultBytes, over any test P that nothing and one row pass, has a
\* solution, and every solution keeps a part of what there is.
LEMMA HalvingExists ==
    ASSUME NEW n \in Nat, NEW P, \A k \in 0 .. n : k <= 1 => P[k]
    PROVE  \E f : f = [k \in 0 .. n |-> IF P[k] THEN k ELSE f[(k + 1) \div 2]]
<1> DEFINE IsHalving(f, m) == f = [k \in 0 .. m |-> IF P[k] THEN k ELSE f[(k + 1) \div 2]]
           B == {m \in 0 .. n : ~ \E f : IsHalving(f, m)}
<1>1. SUFFICES ASSUME B # {}  PROVE FALSE
  BY DEF IsHalving
<1>2. PICK m \in B : \A k \in B : m <= k
  <2>1. B \in SUBSET (0 .. n)
    OBVIOUS
  <2> HIDE DEF B
  <2> QED  BY <1>1, <2>1, LeastNumber
<1>3. CASE m <= 1
  <2>1. IsHalving([k \in 0 .. m |-> k], m)
    BY <1>2, <1>3
  <2> QED  BY <1>2, <2>1
<1>4. CASE m > 1
  <2>1. m - 1 \in 0 .. n /\ m - 1 \notin B
    BY <1>2, <1>4
  <2>2. PICK g : IsHalving(g, m - 1)
    BY <2>1
  <2> DEFINE f == [k \in 0 .. m |-> IF k = m THEN IF P[m] THEN m ELSE g[(m + 1) \div 2] ELSE g[k]]
  <2>3. \A k \in 0 .. m : ~ P[k] => /\ k > 1
                                    /\ (k + 1) \div 2 \in 0 .. (m - 1)
                                    /\ (k + 1) \div 2 # m
    BY <1>2
  <2>4. \A k \in 0 .. (m - 1) : g[k] = IF P[k] THEN k ELSE g[(k + 1) \div 2]
    BY <2>2
  <2>5. \A k \in 0 .. (m - 1) : f[k] = g[k]
    BY <1>2, <1>4
  <2>6. \A k \in 0 .. m : f[k] = IF P[k] THEN k ELSE f[(k + 1) \div 2]
    <3>1. ASSUME NEW k \in 0 .. m, k # m  PROVE f[k] = IF P[k] THEN k ELSE f[(k + 1) \div 2]
      <4>1. k \in 0 .. (m - 1)
        BY <1>2, <3>1
      <4> HIDE DEF f
      <4> QED  BY <2>3, <2>4, <2>5, <4>1
    <3>2. f[m] = IF P[m] THEN m ELSE f[(m + 1) \div 2]
      <4>1. f[m] = IF P[m] THEN m ELSE g[(m + 1) \div 2]
        BY <1>2
      <4> HIDE DEF f
      <4> QED  BY <1>2, <2>3, <2>5, <4>1
    <3> QED  BY <3>1, <3>2
  <2>7. IsHalving(f, m)
    <3>1. f = [k \in 0 .. m |-> f[k]]
      OBVIOUS
    <3> HIDE DEF f
    <3> QED  BY <2>6, <3>1
  <2> QED  BY <1>2, <2>7
<1> QED  BY <1>2, <1>3, <1>4

LEMMA HalvingBounds ==
    ASSUME NEW n \in Nat, NEW P, \A k \in 0 .. n : k <= 1 => P[k],
           NEW f, f = [k \in 0 .. n |-> IF P[k] THEN k ELSE f[(k + 1) \div 2]]
    PROVE  f[n] \in 0 .. n
<1> DEFINE B == {k \in 0 .. n : f[k] \notin 0 .. k}
<1>1. SUFFICES ASSUME B # {}  PROVE FALSE
  OBVIOUS
<1>2. PICK m \in B : \A k \in B : m <= k
  <2>1. B \in SUBSET (0 .. n)
    OBVIOUS
  <2> HIDE DEF B
  <2> QED  BY <1>1, <2>1, LeastNumber
<1>3. f[m] = IF P[m] THEN m ELSE f[(m + 1) \div 2]
  BY <1>2
<1>4. ~ P[m] /\ m > 1
  BY <1>2, <1>3
<1>5. (m + 1) \div 2 \in 0 .. n /\ (m + 1) \div 2 < m
  BY <1>2, <1>4
<1>6. (m + 1) \div 2 \notin B
  BY <1>2, <1>5
<1>7. f[(m + 1) \div 2] \in 0 .. ((m + 1) \div 2)
  BY <1>5, <1>6
<1> QED  BY <1>2, <1>3, <1>4, <1>5, <1>7

LEMMA KeptIsPrefix ==
    ASSUME NEW R, NEW s \in Seq(R)
    PROVE  \E k \in 0 .. Len(s) : Kept(s) = SubSeq(s, 1, k)
<1> DEFINE P == [k \in 0 .. Len(s) |-> Fits(SubSeq(s, 1, k)) \/ k <= 1]
           Solves(f) == f = [k \in 0 .. Len(s) |->
                               IF Fits(SubSeq(s, 1, k)) \/ k <= 1 THEN k ELSE f[(k + 1) \div 2]]
           keep == CHOOSE f : Solves(f)
<1>1. Len(s) \in Nat
  OBVIOUS
<1>2. \A f : Solves(f) <=> f = [k \in 0 .. Len(s) |-> IF P[k] THEN k ELSE f[(k + 1) \div 2]]
  OBVIOUS
<1>3. \A k \in 0 .. Len(s) : k <= 1 => P[k]
  OBVIOUS
<1>4. \E f : Solves(f)
  <2> HIDE DEF P, Solves
  <2> QED  BY <1>1, <1>2, <1>3, HalvingExists
<1>5. Solves(keep)
  <2> HIDE DEF Solves
  <2> QED  BY <1>4
<1>6. keep[Len(s)] \in 0 .. Len(s)
  <2> HIDE DEF P, Solves, keep
  <2> QED  BY <1>1, <1>2, <1>3, <1>5, HalvingBounds
<1>7. Kept(s) = SubSeq(s, 1, keep[Len(s)])
  BY DEF Kept
<1> QED  BY <1>6, <1>7

-----------------------------------------------------------------------------
(* The data server: the inductive invariant *)

McpPhase == {"idle", "waiting", "connected", "begun", "read", "capping"}

\* Whose rows a session may see.
OwnerOf(s) == SnapshotOf[session[s]].owner

McpTypes ==
    /\ closed \subseteq Session
    /\ session \in [Session -> Run \cup {None}]
    /\ phase \in [Session -> McpPhase]
    /\ query \in [Session -> Query \cup {None}]
    /\ waiting \in Seq(Session)
    /\ conn \in [Connection -> [user : Session \cup {None},
                                owner : {SnapshotOf[r].owner : r \in Run} \cup {None}]]
    /\ DOMAIN rows = Session /\ DOMAIN answer = Session
    /\ stuck \in BOOLEAN /\ restarts \in 0 .. MaxRestarts
    /\ token \in {"none", "good", "revoked"} /\ expired \subseteq Run

\* A session waits once, and is not served meanwhile.
Queued ==
    /\ \A i \in 1 .. Len(waiting) : phase[waiting[i]] = "waiting"
    /\ \A i, j \in 1 .. Len(waiting) : waiting[i] = waiting[j] => i = j

\* A session that is served has one connection, and the setting is its owner when it reads.
Served ==
    \A c \in Connection : conn[c].user # None =>
        /\ phase[conn[c].user] \in {"connected", "begun", "read"}
        /\ phase[conn[c].user] = "begun" => conn[c].owner = OwnerOf(conn[c].user)
        /\ \A d \in Connection : conn[d].user = conn[c].user => d = c

\* A query under way was admitted, and has read what its owner may see.
UnderWay ==
    \A s \in Session : phase[s] \in {"waiting", "connected", "begun", "read"} =>
        /\ session[s] \in Run /\ query[s] \in Query
        /\ Admitted(session[s], query[s])
        /\ phase[s] = "read" => rows[s] \in Clamped(Visible(query[s].relations, OwnerOf(s)))

\* An answer is one to an admitted query of its session, from what its owner may see.
IsAnswer(s, a) ==
    \/ a = NoAnswer
    \/ a = Refused
    \/ session[s] \in Run /\ a = [kind |-> "views", views |-> DescribeSchema(session[s])]
    \/ /\ session[s] \in Run
       /\ \E q \in Query : \E r \in Clamped(Visible(q.relations, OwnerOf(s))) :
             Admitted(session[s], q) /\ a = Answer(q, r)

McpInv ==
    /\ McpTypes /\ Queued /\ Served /\ UnderWay
    /\ \A s \in Session : IsAnswer(s, answer[s])

-----------------------------------------------------------------------------
(* The data server: every step keeps the invariant *)

LEMMA NoneIsNoSession ==
    /\ None \notin Run /\ None \notin Session /\ None \notin Query
    /\ MaxSessions \in Nat /\ MaxRestarts \in Nat
BY DbMcpAssumption DEF Session

LEMMA InitMcp == McpInit => McpInv
<1> SUFFICES ASSUME McpInit  PROVE McpInv
  OBVIOUS
<1>1. McpTypes
  <2>1. conn \in [Connection -> [user : Session \cup {None},
                                owner : {SnapshotOf[r].owner : r \in Run} \cup {None}]]
    BY DEF McpInit, Free
  <2>2. 0 \in 0 .. MaxRestarts
    BY NoneIsNoSession
  <2>3. waiting \in Seq(Session) /\ phase \in [Session -> McpPhase]
        /\ session \in [Session -> Run \cup {None}] /\ query \in [Session -> Query \cup {None}]
    BY DEF McpInit, McpPhase
  <2>4. DOMAIN rows = Session /\ DOMAIN answer = Session
    BY DEF McpInit
  <2> QED  BY <2>1, <2>2, <2>3, <2>4 DEF McpInit, McpTypes
<1>2. Queued /\ Served /\ UnderWay
  BY NoneIsNoSession DEF McpInit, Queued, Served, UnderWay, Free
<1>3. \A s \in Session : IsAnswer(s, answer[s])
  BY DEF McpInit, IsAnswer
<1> QED  BY <1>1, <1>2, <1>3 DEF McpInv

\* A step that changes neither sessions nor their queries.
LEMMA OtherSteps ==
    ASSUME McpInv, closed' \subseteq Session, restarts' = restarts, expired' \subseteq Run,
           token' \in {"none", "good", "revoked"},
           UNCHANGED <<session, phase, query, waiting, conn, rows, answer, stuck>>
    PROVE  McpInv'
<1>1. McpTypes' /\ Queued'
  BY DEF McpInv, McpTypes, Queued
<1>2. Served' /\ UnderWay'
  BY DEF McpInv, Served, UnderWay, OwnerOf
<1>3. \A s \in Session : IsAnswer(s, answer[s])'
  BY DEF McpInv, IsAnswer, OwnerOf
<1> QED  BY <1>1, <1>2, <1>3 DEF McpInv

\* A session that is new has no query and no answer with rows.
LEMMA InitializeKeeps ==
    ASSUME McpInv, NEW run \in Run, Initialize(run)
    PROVE  McpInv'
<1>1. token' \in {"none", "good", "revoked"}
  BY DEF Initialize, UseToken
<1>2. CASE UNCHANGED session
  BY <1>1, <1>2, OtherSteps DEF Initialize, McpInv, McpTypes
<1>3. CASE \E s \in Session : session[s] = None /\ session' = [session EXCEPT ![s] = run]
  <2>1. PICK s \in Session : session[s] = None /\ session' = [session EXCEPT ![s] = run]
    BY <1>3
  <2>2. UNCHANGED <<closed, phase, query, waiting, conn, rows, answer, stuck, restarts, expired>>
    BY DEF Initialize
  <2>3. session' \in [Session -> Run \cup {None}] /\ session'[s] = run
        /\ \A t \in Session : session[t] # None => session'[t] = session[t]
    BY <2>1 DEF McpInv, McpTypes
  <2>4. McpTypes' /\ Queued'
    BY <1>1, <2>2, <2>3 DEF McpInv, McpTypes, Queued
  <2>5. Served'
    <3> SUFFICES ASSUME NEW c \in Connection, conn[c].user # None
                 PROVE  /\ phase[conn[c].user] \in {"connected", "begun", "read"}
                        /\ phase[conn[c].user] = "begun" => conn[c].owner = OwnerOf(conn[c].user)'
                        /\ \A d \in Connection : conn[d].user = conn[c].user => d = c
      BY <2>2 DEF Served
    <3>1. conn[c].user \in Session
      BY DEF McpInv, McpTypes
    <3>2. /\ phase[conn[c].user] \in {"connected", "begun", "read"}
          /\ phase[conn[c].user] = "begun" => conn[c].owner = OwnerOf(conn[c].user)
          /\ \A d \in Connection : conn[d].user = conn[c].user => d = c
      BY DEF McpInv, Served
    <3>3. session[conn[c].user] # None
      BY <3>1, <3>2, NoneIsNoSession DEF McpInv, UnderWay
    <3> QED  BY <2>2, <2>3, <3>1, <3>2, <3>3 DEF OwnerOf
  <2>6. UnderWay'
    BY <2>2, <2>3, NoneIsNoSession DEF McpInv, UnderWay, OwnerOf
  <2>7. \A t \in Session : IsAnswer(t, answer[t])'
    BY <2>2, <2>3, NoneIsNoSession DEF McpInv, IsAnswer, OwnerOf
  <2> QED  BY <2>4, <2>5, <2>6, <2>7 DEF McpInv
<1> QED  BY <1>2, <1>3 DEF Initialize

LEMMA DescribeKeeps ==
    ASSUME McpInv, NEW s \in Session, Describe(s)
    PROVE  McpInv'
<1>1. UNCHANGED <<session, closed, phase, query, waiting, conn, rows, stuck, restarts, token, expired>>
  BY DEF Describe
<1>2. DOMAIN answer' = Session
      /\ answer'[s] = [kind |-> "views", views |-> DescribeSchema(session[s])]
      /\ \A t \in Session : t # s => answer'[t] = answer[t]
  BY DEF Describe, McpInv, McpTypes
<1>3. session[s] \in Run
  BY DEF Describe, Open, McpInv, McpTypes
<1>4. McpTypes' /\ Queued'
  BY <1>1, <1>2 DEF McpInv, McpTypes, Queued
<1>5. Served' /\ UnderWay'
  BY <1>1 DEF McpInv, Served, UnderWay, OwnerOf
<1>6. ASSUME NEW t \in Session  PROVE IsAnswer(t, answer[t])'
  <2>1. CASE t = s
    BY <1>1, <1>2, <1>3, <2>1 DEF IsAnswer
  <2>2. CASE t # s
    BY <1>1, <1>2, <2>2 DEF McpInv, IsAnswer, OwnerOf
  <2> QED  BY <2>1, <2>2
<1> QED  BY <1>4, <1>5, <1>6 DEF McpInv

LEMMA RunSelectKeeps ==
    ASSUME McpInv, NEW s \in Session, NEW q \in Query, RunSelect(s, q)
    PROVE  McpInv'
<1>1. UNCHANGED <<session, closed, conn, rows, stuck, restarts, token, expired>>
      /\ phase[s] = "idle" /\ session[s] \in Run
  BY DEF RunSelect, Open, McpInv, McpTypes
<1>2. DOMAIN answer' = Session /\ answer'[s] \in {NoAnswer, Refused}
      /\ \A t \in Session : t # s => answer'[t] = answer[t]
  BY DEF RunSelect, McpInv, McpTypes
<1>3. ASSUME NEW t \in Session  PROVE IsAnswer(t, answer[t])'
  <2>1. CASE t = s
    BY <1>2, <2>1 DEF IsAnswer
  <2>2. CASE t # s
    BY <1>1, <1>2, <2>2 DEF McpInv, IsAnswer, OwnerOf
  <2> QED  BY <2>1, <2>2
<1>4. CASE UNCHANGED <<phase, query, waiting>>
  <2>1. McpTypes' /\ Queued'
    BY <1>1, <1>2, <1>4 DEF McpInv, McpTypes, Queued
  <2>2. Served' /\ UnderWay'
    BY <1>1, <1>4 DEF McpInv, Served, UnderWay, OwnerOf
  <2> QED  BY <1>3, <2>1, <2>2 DEF McpInv
<1>5. CASE /\ Admitted(session[s], q)
           /\ phase' = [phase EXCEPT ![s] = "waiting"]
           /\ query' = [query EXCEPT ![s] = q]
           /\ waiting' = Append(waiting, s)
  <2>1. phase' \in [Session -> McpPhase] /\ phase'[s] = "waiting" /\ query'[s] = q
        /\ \A t \in Session : t # s => phase'[t] = phase[t] /\ query'[t] = query[t]
    BY <1>5 DEF McpInv, McpTypes, McpPhase
  <2>2. McpTypes'
    BY <1>1, <1>2, <1>5, <2>1 DEF McpInv, McpTypes
  <2>3. Queued'
    <3>1. waiting \in Seq(Session) /\ Len(waiting') = Len(waiting) + 1
          /\ waiting'[Len(waiting')] = s
          /\ \A i \in 1 .. Len(waiting) : waiting'[i] = waiting[i] /\ waiting[i] \in Session
      BY <1>5 DEF McpInv, McpTypes
    <3>2. \A i \in 1 .. Len(waiting) : waiting[i] # s
      BY <1>1 DEF McpInv, Queued
    <3>3. \A i \in 1 .. Len(waiting') : i = Len(waiting') \/ i \in 1 .. Len(waiting)
      BY <3>1
    <3>4. /\ \A i \in 1 .. Len(waiting) : phase[waiting[i]] = "waiting"
          /\ \A i, j \in 1 .. Len(waiting) : waiting[i] = waiting[j] => i = j
      BY DEF McpInv, Queued
    <3>5. ASSUME NEW i \in 1 .. Len(waiting')  PROVE phase'[waiting'[i]] = "waiting"
      BY <2>1, <3>1, <3>2, <3>3, <3>4
    <3>6. ASSUME NEW i \in 1 .. Len(waiting'), NEW j \in 1 .. Len(waiting'), waiting'[i] = waiting'[j]
          PROVE  i = j
      BY <3>1, <3>2, <3>3, <3>4, <3>6
    <3> QED  BY <3>5, <3>6 DEF Queued
  <2>4. Served'
    <3> SUFFICES ASSUME NEW c \in Connection, conn[c].user # None
                 PROVE  /\ phase'[conn[c].user] \in {"connected", "begun", "read"}
                        /\ phase'[conn[c].user] = "begun" => conn[c].owner = OwnerOf(conn[c].user)
                        /\ \A d \in Connection : conn[d].user = conn[c].user => d = c
      BY <1>1 DEF Served, OwnerOf
    <3>1. conn[c].user \in Session /\ conn[c].user # s
      BY <1>1 DEF McpInv, McpTypes, Served
    <3> QED  BY <2>1, <3>1 DEF McpInv, Served
  <2>5. UnderWay'
    BY <1>1, <1>5, <2>1 DEF McpInv, UnderWay, OwnerOf
  <2> QED  BY <1>3, <2>2, <2>3, <2>4, <2>5 DEF McpInv
<1> QED  BY <1>4, <1>5 DEF RunSelect

\* The session that waited first is served by the connection, which served nobody.
LEMMA ConnectKeeps ==
    ASSUME McpInv, NEW c \in Connection, Connect(c)
    PROVE  McpInv'
<1> DEFINE s == Head(waiting)
<1>1. UNCHANGED <<session, closed, query, rows, answer, stuck, restarts, token, expired>>
  BY DEF Connect
<1>2. /\ waiting \in Seq(Session) /\ waiting # <<>> /\ waiting' = Tail(waiting)
      /\ s \in Session /\ s = waiting[1] /\ Len(waiting) \in Nat \ {0}
  BY DEF Connect, McpInv, McpTypes
<1>3. waiting' \in Seq(Session) /\ Len(waiting') = Len(waiting) - 1
      /\ \A i \in 1 .. Len(waiting') : waiting'[i] = waiting[i + 1] /\ waiting'[i] \in Session
  BY <1>2
<1>4. phase[s] = "waiting" /\ \A i \in 1 .. Len(waiting') : waiting'[i] # s /\ phase[waiting'[i]] = "waiting"
  BY <1>2, <1>3 DEF McpInv, Queued
<1> HIDE DEF s
<1>5. /\ phase' \in [Session -> McpPhase] /\ phase'[s] = "connected"
      /\ \A t \in Session : t # s => phase'[t] = phase[t]
  BY <1>2 DEF Connect, McpInv, McpTypes, McpPhase, s
<1>6. /\ conn[c].user = None
      /\ conn'[c] = [user |-> s, owner |-> conn[c].owner]
      /\ DOMAIN conn' = Connection
      /\ \A d \in Connection : d # c => conn'[d] = conn[d]
  BY DEF Connect, McpInv, McpTypes, s
<1>7. McpTypes'
  <2>1. ASSUME NEW d \in Connection
        PROVE  conn'[d] \in [user : Session \cup {None},
                             owner : {SnapshotOf[r].owner : r \in Run} \cup {None}]
    <3>1. CASE d = c
      BY <1>2, <1>6, <3>1 DEF McpInv, McpTypes
    <3>2. CASE d # c
      BY <1>6, <3>2 DEF McpInv, McpTypes
    <3> QED  BY <3>1, <3>2
  <2>2. conn' = [d \in Connection |-> conn'[d]]
    BY DEF Connect, McpInv, McpTypes
  <2>3. conn' \in [Connection -> [user : Session \cup {None},
                                 owner : {SnapshotOf[r].owner : r \in Run} \cup {None}]]
    BY <2>1, <2>2
  <2> QED  BY <1>1, <1>3, <1>5, <2>3 DEF McpInv, McpTypes
<1>8. Queued'
  BY <1>2, <1>3, <1>4, <1>5 DEF McpInv, Queued
<1>9. Served'
  <2> SUFFICES ASSUME NEW d \in Connection, conn'[d].user # None
               PROVE  /\ phase'[conn'[d].user] \in {"connected", "begun", "read"}
                      /\ phase'[conn'[d].user] = "begun" => conn'[d].owner = OwnerOf(conn'[d].user)
                      /\ \A e \in Connection : conn'[e].user = conn'[d].user => e = d
    BY <1>1 DEF Served, OwnerOf
  <2>1. \A e \in Connection : conn[e].user # s
    BY <1>2, <1>4, NoneIsNoSession DEF McpInv, Served
  <2>2. CASE d = c
    BY <1>5, <1>6, <2>1, <2>2
  <2>3. CASE d # c
    <3>1. conn'[d] = conn[d] /\ conn[d].user \in Session /\ conn[d].user # s
      BY <1>6, <2>1, <2>3 DEF McpInv, McpTypes
    <3>2. phase'[conn[d].user] = phase[conn[d].user]
      BY <1>5, <3>1
    <3> QED  BY <1>6, <2>1, <3>1, <3>2 DEF McpInv, Served
  <2> QED  BY <2>2, <2>3
<1>10. UnderWay'
  BY <1>1, <1>2, <1>4, <1>5 DEF McpInv, UnderWay, OwnerOf
<1>11. \A t \in Session : IsAnswer(t, answer[t])'
  BY <1>1 DEF McpInv, IsAnswer, OwnerOf
<1> QED  BY <1>7, <1>8, <1>9, <1>10, <1>11 DEF McpInv

\* A statement on the connection that serves a session: who is served stays.
LEMMA ServedStays ==
    ASSUME McpInv, NEW c \in Connection, conn[c].user # None, NEW p \in {"begun", "read"},
           DOMAIN conn' = Connection,
           \A d \in Connection : conn'[d].user = conn[d].user,
           \A d \in Connection : d # c => conn'[d].owner = conn[d].owner,
           p = "begun" => conn'[c].owner = OwnerOf(conn[c].user),
           phase' = [phase EXCEPT ![conn[c].user] = p],
           UNCHANGED <<session, waiting>>,
           phase[conn[c].user] \in {"connected", "begun", "read"}
    PROVE  Served' /\ Queued' /\ phase' \in [Session -> McpPhase]
<1> DEFINE s == conn[c].user
<1>1. s \in Session
  BY DEF McpInv, McpTypes
<1>2. /\ phase' \in [Session -> McpPhase] /\ phase'[s] = p
      /\ \A t \in Session : t # s => phase'[t] = phase[t]
  BY <1>1 DEF McpInv, McpTypes, McpPhase
<1>3. Served'
  <2> SUFFICES ASSUME NEW d \in Connection, conn'[d].user # None
               PROVE  /\ phase'[conn'[d].user] \in {"connected", "begun", "read"}
                      /\ phase'[conn'[d].user] = "begun" => conn'[d].owner = OwnerOf(conn'[d].user)
                      /\ \A e \in Connection : conn'[e].user = conn'[d].user => e = d
    BY DEF Served, OwnerOf
  <2>1. conn'[d].user = conn[d].user /\ conn[d].user \in Session
    BY DEF McpInv, McpTypes
  <2>2. \A e \in Connection : conn[e].user = conn[d].user => e = d
    BY <2>1 DEF McpInv, Served
  <2>3. CASE d = c
    BY <1>2, <2>1, <2>2, <2>3
  <2>4. CASE d # c
    <3>1. conn[d].user # s
      BY <2>2, <2>4
    <3>2. phase'[conn[d].user] = phase[conn[d].user]
      BY <1>2, <2>1, <3>1
    <3> QED  BY <2>1, <2>2, <2>4, <3>2 DEF McpInv, Served
  <2> QED  BY <2>3, <2>4
<1>4. Queued'
  <2>1. \A i \in 1 .. Len(waiting) : waiting[i] \in Session /\ waiting[i] # s
    BY DEF McpInv, McpTypes, Queued
  <2> QED  BY <1>2, <2>1 DEF McpInv, Queued
<1> QED  BY <1>2, <1>3, <1>4

LEMMA BeginKeeps ==
    ASSUME McpInv, NEW c \in Connection, Begin(c)
    PROVE  McpInv'
<1> DEFINE s == conn[c].user
<1>1. /\ UNCHANGED <<session, closed, query, waiting, rows, answer, stuck, restarts, token, expired>>
      /\ s # None /\ phase[s] = "connected"
      /\ conn' = [conn EXCEPT ![c].owner = OwnerOf(s)]
      /\ phase' = [phase EXCEPT ![s] = "begun"]
  BY DEF Begin, OwnerOf
<1>2. s \in Session /\ session[s] \in Run
  BY <1>1 DEF McpInv, McpTypes, UnderWay
<1>3. /\ conn' \in [Connection -> [user : Session \cup {None},
                                   owner : {SnapshotOf[r].owner : r \in Run} \cup {None}]]
      /\ conn'[c].owner = OwnerOf(s)
      /\ \A d \in Connection : conn'[d].user = conn[d].user
      /\ \A d \in Connection : d # c => conn'[d].owner = conn[d].owner
  BY <1>1, <1>2 DEF McpInv, McpTypes, OwnerOf
<1>4. Served' /\ Queued' /\ phase' \in [Session -> McpPhase]
  BY <1>1, <1>3, ServedStays
<1>5. McpTypes'
  BY <1>1, <1>3, <1>4 DEF McpInv, McpTypes
<1>6. UnderWay'
  BY <1>1, <1>2 DEF McpInv, McpTypes, UnderWay, OwnerOf
<1>7. \A t \in Session : IsAnswer(t, answer[t])'
  BY <1>1 DEF McpInv, IsAnswer, OwnerOf
<1> QED  BY <1>4, <1>5, <1>6, <1>7 DEF McpInv

LEMMA ExecuteKeeps ==
    ASSUME McpInv, NEW c \in Connection, Execute(c)
    PROVE  McpInv'
<1> DEFINE s == conn[c].user
<1>1. /\ UNCHANGED <<session, closed, query, waiting, conn, answer, stuck, restarts, token, expired>>
      /\ s # None /\ phase[s] = "begun"
      /\ phase' = [phase EXCEPT ![s] = "read"]
  BY DEF Execute
<1>2. PICK r \in Clamped(Visible(query[s].relations, conn[c].owner)) : rows' = [rows EXCEPT ![s] = r]
  BY DEF Execute
<1>3. s \in Session /\ conn[c].owner = OwnerOf(s)
  BY <1>1 DEF McpInv, McpTypes, Served
<1>4. Served' /\ Queued' /\ phase' \in [Session -> McpPhase]
  BY <1>1, ServedStays DEF McpInv, McpTypes
<1>5. /\ DOMAIN rows' = Session /\ rows'[s] = r
      /\ \A t \in Session : t # s => rows'[t] = rows[t]
  BY <1>2, <1>3 DEF McpInv, McpTypes
<1>6. McpTypes'
  BY <1>1, <1>4, <1>5 DEF McpInv, McpTypes
<1>7. UnderWay'
  <2> SUFFICES ASSUME NEW t \in Session, phase'[t] \in {"waiting", "connected", "begun", "read"}
               PROVE  /\ session[t] \in Run /\ query[t] \in Query
                      /\ Admitted(session[t], query[t])
                      /\ phase'[t] = "read" =>
                            rows'[t] \in Clamped(Visible(query[t].relations, OwnerOf(t)))
    BY <1>1 DEF UnderWay, OwnerOf
  <2>1. CASE t = s
    BY <1>1, <1>2, <1>3, <1>5, <2>1 DEF McpInv, UnderWay
  <2>2. CASE t # s
    BY <1>1, <1>5, <2>2 DEF McpInv, McpTypes, UnderWay
  <2> QED  BY <2>1, <2>2
<1>8. \A t \in Session : IsAnswer(t, answer[t])'
  BY <1>1 DEF McpInv, IsAnswer, OwnerOf
<1> QED  BY <1>4, <1>6, <1>7, <1>8 DEF McpInv

\* A connection that goes back serves nobody, and its session is done.
LEMMA GivesBack ==
    ASSUME McpInv, NEW c \in Connection, conn[c].user # None, NEW p \in {"idle", "capping"},
           phase' = [phase EXCEPT ![conn[c].user] = p], conn' = [conn EXCEPT ![c] = Free],
           UNCHANGED <<session, waiting>>,
           \A t \in Session : t # conn[c].user => query'[t] = query[t] /\ rows'[t] = rows[t]
    PROVE  /\ Served' /\ Queued' /\ UnderWay'
           /\ phase' \in [Session -> McpPhase]
           /\ conn' \in [Connection -> [user : Session \cup {None},
                                        owner : {SnapshotOf[r].owner : r \in Run} \cup {None}]]
<1> DEFINE s == conn[c].user
<1>1. s \in Session /\ phase[s] \in {"connected", "begun", "read"}
  BY DEF McpInv, McpTypes, Served
<1>2. /\ phase' \in [Session -> McpPhase] /\ phase'[s] = p
      /\ \A t \in Session : t # s => phase'[t] = phase[t]
  BY <1>1 DEF McpInv, McpTypes, McpPhase
<1>3. /\ conn'[c].user = None /\ conn'[c].owner = None
      /\ \A d \in Connection : d # c => conn'[d] = conn[d]
      /\ conn' \in [Connection -> [user : Session \cup {None},
                                   owner : {SnapshotOf[r].owner : r \in Run} \cup {None}]]
  <2>1. Free \in [user : Session \cup {None}, owner : {SnapshotOf[r].owner : r \in Run} \cup {None}]
        /\ Free.user = None /\ Free.owner = None
    BY DEF Free
  <2> QED  BY <2>1 DEF McpInv, McpTypes
<1>4. Served'
  <2> SUFFICES ASSUME NEW d \in Connection, conn'[d].user # None
               PROVE  /\ phase'[conn'[d].user] \in {"connected", "begun", "read"}
                      /\ phase'[conn'[d].user] = "begun" => conn'[d].owner = OwnerOf(conn'[d].user)
                      /\ \A e \in Connection : conn'[e].user = conn'[d].user => e = d
    BY DEF Served, OwnerOf
  <2>1. d # c /\ conn'[d] = conn[d] /\ conn[d].user \in Session
    BY <1>3 DEF McpInv, McpTypes
  <2>2. \A e \in Connection : conn[e].user = conn[d].user => e = d
    BY <2>1, NoneIsNoSession DEF McpInv, Served
  <2>3. phase'[conn[d].user] = phase[conn[d].user]
    BY <1>2, <2>1, <2>2
  <2>4. \A e \in Connection : conn'[e].user = conn[d].user => e = d
    BY <1>3, <2>1, <2>2, NoneIsNoSession
  <2> QED  BY <2>1, <2>3, <2>4, NoneIsNoSession DEF McpInv, Served
<1>5. Queued'
  <2>1. \A i \in 1 .. Len(waiting) : waiting[i] \in Session /\ waiting[i] # s
    BY <1>1 DEF McpInv, McpTypes, Queued
  <2> QED  BY <1>2, <2>1 DEF McpInv, Queued
<1>6. UnderWay'
  BY <1>2 DEF McpInv, UnderWay, OwnerOf
<1> QED  BY <1>2, <1>3, <1>4, <1>5, <1>6

LEMMA QueryFailsKeeps ==
    ASSUME McpInv, NEW c \in Connection, QueryFails(c)
    PROVE  McpInv'
<1> DEFINE s == conn[c].user
<1>1. /\ UNCHANGED <<session, closed, waiting, stuck, restarts, token, expired>>
      /\ s # None /\ s \in Session
      /\ conn' = [conn EXCEPT ![c] = Free] /\ phase' = [phase EXCEPT ![s] = "idle"]
  BY DEF QueryFails, McpInv, McpTypes
<1>2. /\ query' \in [Session -> Query \cup {None}]
      /\ DOMAIN rows' = Session /\ DOMAIN answer' = Session /\ answer'[s] = Refused
      /\ \A t \in Session : t # s => /\ query'[t] = query[t] /\ rows'[t] = rows[t]
                                     /\ answer'[t] = answer[t]
  BY <1>1 DEF QueryFails, McpInv, McpTypes
<1>3. /\ Served' /\ Queued' /\ UnderWay' /\ phase' \in [Session -> McpPhase]
      /\ conn' \in [Connection -> [user : Session \cup {None},
                                   owner : {SnapshotOf[r].owner : r \in Run} \cup {None}]]
  BY <1>1, <1>2, GivesBack
<1>4. McpTypes'
  BY <1>1, <1>2, <1>3 DEF McpInv, McpTypes
<1>5. ASSUME NEW t \in Session  PROVE IsAnswer(t, answer[t])'
  <2>1. CASE t = s
    BY <1>2, <2>1 DEF IsAnswer
  <2>2. CASE t # s
    <3>1. answer'[t] = answer[t] /\ session' = session
      BY <1>1, <1>2, <2>2
    <3> QED  BY <3>1 DEF McpInv, IsAnswer, OwnerOf
  <2> QED  BY <2>1, <2>2
<1> QED  BY <1>3, <1>4, <1>5 DEF McpInv

LEMMA CommitKeeps ==
    ASSUME McpInv, NEW c \in Connection, Commit(c)
    PROVE  McpInv'
<1> DEFINE s == conn[c].user
<1>1. /\ UNCHANGED <<session, closed, waiting, restarts, token, expired>>
      /\ s # None /\ phase[s] = "read"
      /\ conn' = [conn EXCEPT ![c] = Free] /\ stuck' = Hangs(rows[s])
  BY DEF Commit
<1>2. s \in Session /\ session[s] \in Run /\ query[s] \in Query /\ Admitted(session[s], query[s])
      /\ rows[s] \in Clamped(Visible(query[s].relations, OwnerOf(s)))
  BY <1>1 DEF McpInv, McpTypes, UnderWay
<1>3. /\ query' \in [Session -> Query \cup {None}]
      /\ DOMAIN rows' = Session /\ DOMAIN answer' = Session
      /\ \A t \in Session : t # s => /\ query'[t] = query[t] /\ rows'[t] = rows[t]
                                     /\ answer'[t] = answer[t]
      /\ answer'[s] = answer[s] \/ answer'[s] = Answer(query[s], rows[s])
      /\ phase' = [phase EXCEPT ![s] = "capping"] \/ phase' = [phase EXCEPT ![s] = "idle"]
  BY <1>1, <1>2 DEF Commit, McpInv, McpTypes
<1>4. /\ Served' /\ Queued' /\ UnderWay' /\ phase' \in [Session -> McpPhase]
      /\ conn' \in [Connection -> [user : Session \cup {None},
                                   owner : {SnapshotOf[r].owner : r \in Run} \cup {None}]]
  BY <1>1, <1>3, GivesBack
<1>5. McpTypes'
  <2>1. stuck' \in BOOLEAN
    BY <1>1 DEF Hangs
  <2> QED  BY <1>1, <1>3, <1>4, <2>1 DEF McpInv, McpTypes
<1>6. ASSUME NEW t \in Session  PROVE IsAnswer(t, answer[t])'
  <2>1. CASE t = s /\ answer'[s] = Answer(query[s], rows[s])
    BY <1>1, <1>2, <2>1 DEF IsAnswer, OwnerOf
  <2>2. CASE answer'[t] = answer[t]
    BY <1>1, <2>2 DEF McpInv, IsAnswer, OwnerOf
  <2> QED  BY <1>3, <2>1, <2>2
<1> QED  BY <1>4, <1>5, <1>6 DEF McpInv

LEMMA RestartKeeps ==
    ASSUME McpInv, Restart
    PROVE  McpInv'
<1>1. McpTypes'
  <2>1. conn' \in [Connection -> [user : Session \cup {None},
                                 owner : {SnapshotOf[r].owner : r \in Run} \cup {None}]]
    BY DEF Restart, Free
  <2>2. restarts' \in 0 .. MaxRestarts
    BY NoneIsNoSession DEF Restart, McpInv, McpTypes
  <2>3. waiting' \in Seq(Session) /\ phase' \in [Session -> McpPhase]
        /\ query' \in [Session -> Query \cup {None}]
    BY DEF Restart, McpPhase
  <2>4. closed' \subseteq Session /\ DOMAIN rows' = Session /\ DOMAIN answer' = Session
    BY DEF Restart
  <2> QED  BY <2>1, <2>2, <2>3, <2>4 DEF Restart, McpInv, McpTypes
<1>2. Queued' /\ Served' /\ UnderWay'
  BY NoneIsNoSession DEF Restart, Queued, Served, UnderWay, Free
<1>3. ASSUME NEW t \in Session  PROVE IsAnswer(t, answer[t])'
  <2>1. answer'[t] = answer[t] \/ answer'[t] = Refused
    BY DEF Restart
  <2>2. session' = session
    BY DEF Restart
  <2> QED  BY <2>1, <2>2 DEF McpInv, IsAnswer, OwnerOf
<1> QED  BY <1>1, <1>2, <1>3 DEF McpInv

LEMMA McpStep == McpInv /\ [McpNext]_mcpVars => McpInv'
<1> SUFFICES ASSUME McpInv, [McpNext]_mcpVars  PROVE McpInv'
  OBVIOUS
<1>0. closed \subseteq Session /\ expired \subseteq Run /\ token \in {"none", "good", "revoked"}
  BY DEF McpInv, McpTypes
<1>1. ASSUME NEW run \in Run, Initialize(run)  PROVE McpInv'
  BY <1>1, InitializeKeeps
<1>2. ASSUME NEW run \in Run, Expire(run)  PROVE McpInv'
  BY <1>0, <1>2, OtherSteps DEF Expire
<1>3. ASSUME NEW s \in Session, CloseSession(s)  PROVE McpInv'
  BY <1>0, <1>3, OtherSteps DEF CloseSession
<1>4. ASSUME NEW s \in Session, Describe(s)  PROVE McpInv'
  BY <1>4, DescribeKeeps
<1>5. ASSUME NEW s \in Session, NEW q \in Query, RunSelect(s, q)  PROVE McpInv'
  BY <1>5, RunSelectKeeps
<1>6. ASSUME NEW c \in Connection, Connect(c)  PROVE McpInv'
  BY <1>6, ConnectKeeps
<1>7. ASSUME NEW c \in Connection, Begin(c)  PROVE McpInv'
  BY <1>7, BeginKeeps
<1>8. ASSUME NEW c \in Connection, Execute(c)  PROVE McpInv'
  BY <1>8, ExecuteKeeps
<1>9. ASSUME NEW c \in Connection, Commit(c)  PROVE McpInv'
  BY <1>9, CommitKeeps
<1>10. ASSUME NEW c \in Connection, QueryFails(c)  PROVE McpInv'
  BY <1>10, QueryFailsKeeps
<1>11. CASE Revoke
  BY <1>0, <1>11, OtherSteps DEF Revoke
<1>12. CASE Restart
  BY <1>12, RestartKeeps
<1>13. CASE UNCHANGED mcpVars
  BY <1>0, <1>13, OtherSteps DEF mcpVars
<1> QED
  BY <1>1, <1>2, <1>3, <1>4, <1>5, <1>6, <1>7, <1>8, <1>9, <1>10, <1>11, <1>12, <1>13 DEF McpNext

-----------------------------------------------------------------------------
(* The data server: the theorems *)

\* Whatever agents ask, sessions share and the server restarts: a query under way was
\* admitted, its connection is its own and set to its owner, and every answer is one.
THEOREM McpInvariance == McpSpec => []McpInv
BY InitMcp, McpStep, PTL DEF McpSpec

\* The kinds of answers.
LEMMA Kinds ==
    /\ NoAnswer.kind = "none" /\ Refused.kind = "error"
    /\ \A q, r : /\ Answer(q, r).kind = "rows" /\ Answer(q, r).query = q
                 /\ Answer(q, r).rows = Kept(r)
                 /\ Answer(q, r).truncated <=> Kept(r) # r
BY DEF NoAnswer, Refused, Answer

LEMMA AnswersAreOfAKind ==
    ASSUME McpInv, NEW s \in Session
    PROVE  /\ answer[s].kind \in {"none", "error", "views", "rows"}
           /\ answer[s].kind = "views" => answer[s].views = DescribeSchema(session[s])
           /\ answer[s].kind = "rows" =>
                 /\ session[s] \in Run
                 /\ \E q \in Query : \E r \in Clamped(Visible(q.relations, OwnerOf(s))) :
                       Admitted(session[s], q) /\ answer[s] = Answer(q, r)
<1>1. IsAnswer(s, answer[s])
  BY DEF McpInv
<1>2. CASE answer[s] = NoAnswer \/ answer[s] = Refused
  BY <1>2, Kinds
<1>3. CASE answer[s] = [kind |-> "views", views |-> DescribeSchema(session[s])]
  BY <1>3
<1>4. CASE /\ session[s] \in Run
           /\ \E q \in Query : \E r \in Clamped(Visible(q.relations, OwnerOf(s))) :
                 Admitted(session[s], q) /\ answer[s] = Answer(q, r)
  <2>1. answer[s].kind = "rows"
    BY <1>4, Kinds
  <2> QED  BY <1>4, <2>1
<1> QED  BY <1>1, <1>2, <1>3, <1>4 DEF IsAnswer

\* Every variable of the data server has its type.
THEOREM McpTyped == McpSpec => []McpTypeOK
<1>1. McpInv => McpTypeOK
  <2> SUFFICES ASSUME McpInv  PROVE McpTypeOK
    OBVIOUS
  <2>1. ToSet(waiting) \subseteq Session
    BY DEF McpInv, McpTypes, ToSet
  <2>2. \A s \in Session : answer[s].kind \in {"none", "error", "views", "rows"}
    BY AnswersAreOfAKind
  <2> QED  BY <2>1, <2>2 DEF McpInv, McpTypes, McpTypeOK, McpPhase
<1> QED  BY <1>1, McpInvariance, PTL

\* The permission a view requires is that of the REST operation returning its records.
LEMMA ViewsAreAsRest ==
    ASSUME NEW v \in McpReadViews
    PROVE  RestPermission(v) = ViewPermission[v]
BY DEF McpReadViews, ViewPermission, RestPermission, RoutePermission, CustomerRoutes, ProductRoutes,
   SaleRoutes, IssueRoutes, ActionRoutes, SopRoutes

LEMMA EntitledMayRead ==
    ASSUME NEW s \in Session, NEW v \in EntitledViews(session[s])
    PROVE  MayRead(s, v)
BY ViewsAreAsRest DEF EntitledViews, AccessibleViews, MayRead, McpReadViews

\* What a query returns is some of what its views show, each row once.
LEMMA ClampedIsShort ==
    ASSUME NEW V, IsFiniteSet(V), NEW r \in Clamped(V)
    PROVE  /\ r \in Seq(V)
           /\ Len(r) < MaxRows => ToSet(r) = V
<1> DEFINE n == IF Cardinality(V) > MaxRows THEN MaxRows ELSE Cardinality(V)
<1>1. Cardinality(V) \in Nat /\ MaxRows \in Nat
  BY FS_CardinalityType, DbMcpAssumption
<1>2. n \in Nat /\ r \in [1 .. n -> V] /\ IsInjective(r)
  BY <1>1 DEF Clamped
<1>3. r \in Seq(V) /\ Len(r) = n
  BY <1>2
<1>4. ASSUME Len(r) < MaxRows  PROVE ToSet(r) = V
  <2>1. n = Cardinality(V)
    BY <1>1, <1>3, <1>4
  <2>2. r \in Injection(1 .. n, V)
    BY <1>2 DEF Injection
  <2>3. Cardinality(1 .. n) = n
    BY <1>2, FS_Interval
  <2>4. r \in Surjection(1 .. n, V)
    BY <2>1, <2>2, <2>3, FS_Injection
  <2> QED  BY <1>2, <1>3, <2>4 DEF Surjection, ToSet
<1> QED  BY <1>3, <1>4

LEMMA VisibleIsFinite ==
    ASSUME NEW relations, NEW owner
    PROVE  IsFiniteSet(Visible(relations, owner))
BY DbMcpAssumption, FS_Subset DEF Visible

\* An answer holds only rows that the owner of its run may read over REST, and of the
\* views that belong to somebody only the owner's, however connections are shared and
\* whatever fails (withReadonlyConnection, findForbiddenView).
THEOREM OwnRowsOnly == McpSpec => []AnswersAreOwnRows
<1>1. ASSUME McpInv  PROVE AnswersAreOwnRows
  <2>1. ASSUME NEW s \in Session, answer[s].kind = "rows", NEW i \in DOMAIN answer[s].rows
        PROVE  /\ MayRead(s, answer[s].rows[i].view)
               /\ answer[s].rows[i].view \in OwnerScoped =>
                    answer[s].rows[i].owner = SnapshotOf[session[s]].owner
    <3>1. PICK q \in Query : \E r \in Clamped(Visible(q.relations, OwnerOf(s))) :
             Admitted(session[s], q) /\ answer[s] = Answer(q, r)
      BY <1>1, <2>1, AnswersAreOfAKind
    <3> DEFINE V == Visible(q.relations, OwnerOf(s))
    <3>2. PICK r \in Clamped(V) : Admitted(session[s], q) /\ answer[s] = Answer(q, r)
      BY <3>1
    <3>3. r \in Seq(V)
      BY <3>2, VisibleIsFinite, ClampedIsShort
    <3>4. PICK k \in 0 .. Len(r) : Kept(r) = SubSeq(r, 1, k)
      BY <3>3, KeptIsPrefix
    <3>5. answer[s].rows = Kept(r)
      BY <3>2, Kinds
    <3>6. answer[s].rows[i] \in V
      <4>1. i \in 1 .. k /\ Kept(r)[i] = r[i]
        BY <2>1, <3>3, <3>4, <3>5
      <4> HIDE DEF V
      <4> QED  BY <3>3, <3>4, <3>5, <4>1
    <3>7. answer[s].rows[i].view \in EntitledViews(session[s])
      BY <3>2, <3>6 DEF Visible, Admitted, NoForbiddenView
    <3> QED  BY <3>6, <3>7, EntitledMayRead DEF Visible, OwnerOf
  <2>2. ASSUME NEW s \in Session, answer[s].kind = "views", NEW v \in answer[s].views
        PROVE  MayRead(s, v)
    <3>1. answer[s].views = DescribeSchema(session[s])
      BY <1>1, <2>2, AnswersAreOfAKind
    <3>2. v \in EntitledViews(session[s])
      BY <2>2, <3>1 DEF DescribeSchema
    <3> QED  BY <3>2, EntitledMayRead
  <2> QED  BY <2>1, <2>2 DEF AnswersAreOwnRows
<1> QED  BY <1>1, McpInvariance, PTL

\* An answer that does not say it was cut and is below the row limit is all that the
\* query's views show the owner, whichever session had the connection before.
THEOREM NothingIsMissing == McpSpec => []UncutIsComplete
<1>1. ASSUME McpInv  PROVE UncutIsComplete
  <2> SUFFICES ASSUME NEW s \in Session, answer[s].kind = "rows", ~answer[s].truncated,
                      Len(answer[s].rows) < MaxRows
               PROVE  ToSet(answer[s].rows) =
                        Visible(answer[s].query.relations, SnapshotOf[session[s]].owner)
    BY DEF UncutIsComplete
  <2>1. PICK q \in Query : \E r \in Clamped(Visible(q.relations, OwnerOf(s))) :
           Admitted(session[s], q) /\ answer[s] = Answer(q, r)
    BY <1>1, AnswersAreOfAKind
  <2>2. PICK r \in Clamped(Visible(q.relations, OwnerOf(s))) : answer[s] = Answer(q, r)
    BY <2>1
  <2>3. answer[s].rows = r /\ answer[s].query = q
    <3>1. Kept(r) = r
      BY <2>2, Kinds
    <3> QED  BY <2>2, <3>1, Kinds
  <2>4. ToSet(r) = Visible(q.relations, OwnerOf(s))
    BY <2>2, <2>3, VisibleIsFinite, ClampedIsShort
  <2> QED  BY <2>3, <2>4 DEF OwnerOf
<1> QED  BY <1>1, McpInvariance, PTL

=============================================================================
