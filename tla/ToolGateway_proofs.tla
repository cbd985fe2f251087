------------------------- MODULE ToolGateway_proofs -------------------------
(***************************************************************************)
(* TLAPS proofs about ToolGateway, for any number of requests in progress, *)
(* any runs, persons, rows, inputs and bounds, and about the policy it     *)
(* ships with.                                                             *)
(***************************************************************************)
EXTENDS ToolGateway, ApiSurface, TLAPS

-----------------------------------------------------------------------------
(* The shipped tables, for every capability *)

\* Each operation that the executor of a capability calls is behind a route whose
\* permission the capability requires.
LEMMA OperationsAreRequired ==
    ASSUME NEW c \in Capability
    PROVE  \A o \in OperationsOf(c) : RoutePermission(o) \in RequiredPermissions(c)
<1> USE DEF OperationsOf, RoutePermission,
    RequiredPermissions, CustomerRoutes, ProductRoutes, SaleRoutes, IssueRoutes, ActionRoutes,
    SopRoutes, CustomerReads, ProductReads, SaleReads, SaleReports, IssueReads, ActionReads,
    ActionWrites, SopWrites
<1>1. CASE c \in CustomerReads
  BY <1>1
<1>2. CASE c \in ProductReads
  BY <1>2
<1>3. CASE c \in SaleReads
  BY <1>3
<1>4. CASE c \in SaleReports
  BY <1>4
<1>5. CASE c \in IssueReads \cup {"issues.list.pendingForCustomer"}
  BY <1>5
<1>6. CASE c \in ActionReads
  BY <1>6
<1>7. CASE c \in ActionWrites
  BY <1>7
<1>8. CASE c \in SopWrites
  BY <1>8
<1>9. CASE c \in {"sales.create", "issues.create", "issues.update", "actions.create",
                  "sop.read"}
  BY <1>9
<1> QED
  BY <1>1, <1>2, <1>3, <1>4, <1>5, <1>6, <1>7, <1>8, <1>9 DEF Capability

\* Every capability requires something.
LEMMA RequiresSomething ==
    ASSUME NEW c \in Capability
    PROVE  RequiredPermissions(c) # {}
BY DEF Capability, RequiredPermissions, CustomerReads, ProductReads, SaleReads, SaleReports,
   IssueReads, ActionReads, ActionWrites, SopWrites

-----------------------------------------------------------------------------
(* The inductive invariant: what a request in progress has passed, and what is *)
(* on record of its number.                                                    *)

Field    == {"who", "cap", "ops", "input", "phase", "n", "seen"}
AtGate    == {"verify", "deny"}
Executes == {"look", "write", "wait", "insert"}
Numbers  == 0 .. started - 1

Shape ==
    /\ started \in Nat
    /\ DOMAIN snapshot = Run
    /\ \A r \in Run : {"permissions", "expired"} \subseteq DOMAIN snapshot[r]
    /\ DOMAIN call = Caller
    /\ \A c \in Caller : call[c] # Idle => DOMAIN call[c] = Field /\ call[c].n \in Numbers

\* Before it is executed a request has left no trace, and after that only its effect.
Fresh(c) ==
    /\ call[c].phase # "audit" => \A e \in effects : e.n # call[c].n
    /\ call[c].phase = "audit" => \E e \in effects : e.n = call[c].n
    /\ \A a \in audit : a.n # call[c].n
    /\ call[c].n \notin answered

\* A request beyond the gateway is within the permissions of who it is for.
Within(c) ==
    IF call[c].phase \in AtGate
    THEN /\ call[c].who \in Run /\ call[c].cap \in Capability
         /\ call[c].ops = OperationsOf(call[c].cap)
    ELSE \A o \in call[c].ops : RoutePermission(o) \in PermissionsOf(call[c].who)

Recorded ==
    /\ \A e \in effects : e.n \in Numbers
    /\ \A a \in audit : a.n \in Numbers
    /\ answered \subseteq Numbers

CallInv ==
    /\ \A c \in Caller : call[c] # Idle => Fresh(c) /\ Within(c)
    /\ \A c, d \in Caller :
          call[c] # Idle /\ call[d] # Idle /\ call[c].n = call[d].n => c = d

IInv == Shape /\ Recorded /\ CallInv /\ NoMoreThanRest /\ AuditIsTrue

-----------------------------------------------------------------------------
(* What a step does to the requests in progress *)

Same(x, y) ==
    /\ DOMAIN y = Field
    /\ y.who = x.who /\ y.cap = x.cap /\ y.ops = x.ops /\ y.n = x.n /\ y.input = x.input

Moved(c, phases) ==
    \E y : call' = [call EXCEPT ![c] = y] /\ y.phase \in phases /\ Same(call[c], y)

LEMMA GoToMoves ==
    ASSUME Shape, NEW c \in Caller, call[c] # Idle, NEW phase, GoTo(c, phase)
    PROVE  Moved(c, {phase})
<1> DEFINE y == [call[c] EXCEPT !.phase = phase]
<1>1. call' = [call EXCEPT ![c] = y]
  BY DEF GoTo
<1>2. y.phase = phase /\ Same(call[c], y)
  BY DEF Shape, Field, Same
<1> QED  BY <1>1, <1>2 DEF Moved

\* A step of the executor ends the request, moves it on or has it done; only the
\* last leaves anything on record.
Worked(c) ==
    /\ call[c] # Idle /\ call[c].phase \in Executes
    /\ UNCHANGED <<policy, started, audit>>
    /\ \/ /\ UNCHANGED <<effects, answered>>
          /\ End(c) \/ Moved(c, Executes)
       \/ Done(c)

LEMMA WiderMoves ==
    ASSUME NEW c \in Caller, NEW p \in Executes, Moved(c, {p})
    PROVE  Moved(c, Executes)
BY DEF Moved

LEMMA ExecuteWorks ==
    ASSUME Shape, NEW c \in Caller, Execute(c)
    PROVE  Worked(c)
<1> USE DEF Executes
<1>1. ASSUME NEW caps, NEW byId, Read(c, caps, byId)
      PROVE  Worked(c)
  BY <1>1 DEF Read, At, Refused, Done, Worked, policy, results
<1>2. ASSUME NEW o, NEW found, Lookup(c, o, found)
      PROVE  Worked(c)
  <2>1. /\ call[c] # Idle /\ call[c].phase = "look"
        /\ UNCHANGED <<policy, results>>
        /\ End(c) \/ GoTo(c, "write")
    BY <1>2 DEF Lookup, At
  <2>2. GoTo(c, "write") => Moved(c, Executes)
    BY <2>1, GoToMoves, WiderMoves
  <2> QED  BY <2>1, <2>2 DEF Worked, results
<1>3. CASE ReadReport(c) \/ ReadCustomer(c) \/ ReadProduct(c) \/ ReadSale(c)
             \/ ReadIssue(c) \/ ReadAction(c) \/ ReadSop(c)
  BY <1>1, <1>3 DEF ReadReport, ReadCustomer, ReadProduct, ReadSale, ReadIssue, ReadAction,
     ReadSop
<1>4. CASE LookupSale(c) \/ LookupIssue(c) \/ LookupAction(c) \/ LookupSop(c)
  BY <1>2, <1>4 DEF LookupSale, LookupIssue, LookupAction, LookupSop
<1>5. ASSUME call[c] # Idle, call[c].phase \in Executes,
             Done(c) \/ (End(c) /\ UNCHANGED <<policy, results>>)
      PROVE  Worked(c)
  BY <1>5 DEF Done, Worked, policy, results
<1>6. CASE CreateSale(c) \/ CreateIssue(c) \/ UpdateIssue(c) \/ CreateAction(c)
             \/ UpdateAction(c) \/ AddComment(c) \/ CreateSop(c) \/ UpdateSop(c)
  BY <1>5, <1>6 DEF CreateSale, CreateIssue, UpdateIssue, CreateAction, UpdateAction,
     AddComment, CreateSop, UpdateSop, Writing, At, Refused
<1>7. CASE ReadVersions(c)
  <2> DEFINE m == Len(sops[call[c].input.row].versions)
             y == [call[c] EXCEPT !.phase = "wait", !.seen = m]
  <2>1. call' = [call EXCEPT ![c] = y]
    BY <1>7 DEF ReadVersions
  <2>2. call[c] # Idle /\ call[c].phase = "write" /\ UNCHANGED <<policy, results>>
    BY <1>7 DEF ReadVersions, Writing, At
  <2>3. y.phase = "wait" /\ Same(call[c], y)
    BY <2>2 DEF Shape, Field, Same
  <2>4. Moved(c, Executes)
    BY <2>1, <2>3 DEF Moved
  <2> QED  BY <2>2, <2>4 DEF Worked, results
<1>8. CASE LockVersions(c)
  <2>1. /\ call[c] # Idle /\ call[c].phase = "wait" /\ UNCHANGED <<policy, results>>
        /\ GoTo(c, "insert")
    BY <1>8 DEF LockVersions, At
  <2>2. Moved(c, Executes)
    BY <2>1, GoToMoves, WiderMoves
  <2> QED  BY <2>1, <2>2 DEF Worked, results
<1>9. CASE InsertVersion(c)
  BY <1>5, <1>9 DEF InsertVersion, At, Refused
<1> QED  BY <1>3, <1>4, <1>6, <1>7, <1>8, <1>9 DEF Execute

-----------------------------------------------------------------------------
(* The steps keep the invariant *)

\* Initially nothing is in progress and nothing is on record.
LEMMA InitIInv == Init => IInv
<1> SUFFICES ASSUME Init  PROVE IInv
  OBVIOUS
<1>2. \A c \in Caller : call[c] = Idle
  BY DEF Init
<1>3. \A r \in Run : {"permissions", "expired"} \subseteq DOMAIN snapshot[r]
  <2> TAKE r \in Run
  <2>1. PICK p \in Person, i \in BOOLEAN : snapshot[r] = Snapshot(p, i)
    BY DEF Init
  <2> QED  BY <2>1 DEF Snapshot
<1>4. started \in Nat /\ DOMAIN snapshot = Run /\ DOMAIN call = Caller
  BY DEF Init
<1>1. Shape
  BY <1>2, <1>3, <1>4 DEF Shape
<1> QED  BY <1>1, <1>2 DEF Init, IInv, Recorded, CallInv, NoMoreThanRest, AuditIsTrue

\* A request ends, with what it has done.
LEMMA EndKeeps ==
    ASSUME IInv, NEW c \in Caller, End(c),
           UNCHANGED <<snapshot, started, effects, audit, answered>>
    PROVE  IInv'
<1>1. /\ DOMAIN call' = Caller
      /\ \A d \in Caller : call'[d] # Idle => call[d] # Idle /\ call'[d] = call[d]
  BY DEF End, IInv, Shape
<1>2. Shape' /\ Recorded'
  BY <1>1 DEF IInv, Shape, Recorded, Numbers
<1>3. CallInv'
  BY <1>1 DEF IInv, CallInv, Fresh, Within, PermissionsOf
<1>4. NoMoreThanRest' /\ AuditIsTrue'
  BY DEF IInv, NoMoreThanRest, AuditIsTrue, PermissionsOf
<1> QED  BY <1>2, <1>3, <1>4 DEF IInv

\* A request moves on, within its permissions, and is not executed yet.
LEMMA MoveKeeps ==
    ASSUME IInv, NEW c \in Caller, call[c] # Idle, call[c].phase # "audit",
           NEW phases, "audit" \notin phases, Moved(c, phases), Within(c)',
           UNCHANGED <<snapshot, started, effects, audit, answered>>
    PROVE  IInv'
<1>1. PICK y : call' = [call EXCEPT ![c] = y] /\ y.phase \in phases /\ Same(call[c], y)
  BY DEF Moved
<1>2. /\ DOMAIN call' = Caller /\ call'[c] = y /\ y.n = call[c].n
      /\ \A d \in Caller \ {c} : call'[d] = call[d]
  BY <1>1 DEF IInv, Shape, Same
<1>3. Shape' /\ Recorded'
  BY <1>1, <1>2 DEF IInv, Shape, Recorded, Numbers, Same
<1>4. \A d \in Caller : call'[d] # Idle => Fresh(d)' /\ Within(d)'
  <2> TAKE d \in Caller
  <2>1. CASE d = c
    BY <1>1, <1>2, <2>1 DEF IInv, CallInv, Fresh
  <2>2. CASE d # c
    BY <1>2, <2>2 DEF IInv, CallInv, Fresh, Within, PermissionsOf
  <2> QED  BY <2>1, <2>2
<1>5. \A d, e \in Caller : call'[d] # Idle /\ call'[e] # Idle /\ call'[d].n = call'[e].n => d = e
  BY <1>2 DEF IInv, CallInv
<1>6. CallInv'
  BY <1>4, <1>5 DEF CallInv
<1>7. NoMoreThanRest' /\ AuditIsTrue'
  BY DEF IInv, NoMoreThanRest, AuditIsTrue, PermissionsOf
<1> QED  BY <1>3, <1>6, <1>7 DEF IInv

\* A request is done: its effect is the only one of its number, and within its
\* permissions because the request is.
LEMMA DoneKeeps ==
    ASSUME IInv, NEW c \in Caller, call[c] # Idle, call[c].phase \in Executes, Done(c)
    PROVE  IInv'
<1> DEFINE e == [who |-> call[c].who, ops |-> call[c].ops, n |-> call[c].n]
<1>1. /\ effects' = effects \cup {e}
      /\ UNCHANGED <<snapshot, started, audit>>
      /\ answered' \subseteq answered \cup {call[c].n}
      /\ e.who \in Run => answered' = answered
  BY DEF Done, policy, ByRun
<1>2. Within(c) /\ Fresh(c) /\ call[c].phase \notin AtGate /\ call[c].phase # "audit"
  BY DEF IInv, CallInv, Executes, AtGate
<1>3. /\ DOMAIN call' = Caller
      /\ \A d \in Caller \ {c} : call'[d] = call[d]
      /\ call'[c] # Idle => /\ e.who \in Run /\ call'[c].phase = "audit"
                            /\ Same(call[c], call'[c])
  <2>1. CASE ByRun(c)
    <3>1. Moved(c, {"audit"})
      BY <2>1, GoToMoves DEF Done, IInv
    <3> QED  BY <2>1, <3>1 DEF Moved, ByRun, IInv, Shape
  <2>2. CASE ~ByRun(c)
    BY <2>2 DEF Done, End, IInv, Shape
  <2> QED  BY <2>1, <2>2
<1>4. call[c].n \in Numbers
  BY DEF IInv, Shape
<1>5. Shape' /\ Recorded'
  BY <1>1, <1>3, <1>4 DEF IInv, Shape, Recorded, Numbers, Same
<1>6. \A d \in Caller : call'[d] # Idle => Fresh(d)' /\ Within(d)'
  <2> SUFFICES ASSUME NEW d \in Caller, call'[d] # Idle  PROVE Fresh(d)' /\ Within(d)'
    OBVIOUS
  <2>1. CASE d = c
    <3>1. e.who \in Run /\ call'[c].phase = "audit" /\ Same(call[c], call'[c])
      BY <1>3, <2>1
    <3>2. Fresh(c)'
      BY <1>1, <1>2, <3>1 DEF Fresh, Same
    <3>3. Within(c)'
      BY <1>1, <1>2, <3>1 DEF Within, Same, AtGate, PermissionsOf
    <3> QED  BY <2>1, <3>2, <3>3
  <2>2. CASE d # c
    <3>1. call'[d] = call[d] /\ call[d] # Idle /\ call[d].n # call[c].n
      BY <1>3, <2>2 DEF IInv, CallInv
    <3>2. Fresh(d) /\ Within(d)
      BY <3>1 DEF IInv, CallInv
    <3>3. Fresh(d)'
      BY <1>1, <3>1, <3>2 DEF Fresh
    <3>4. Within(d)'
      BY <1>1, <3>1, <3>2 DEF Within, PermissionsOf
    <3> QED  BY <3>3, <3>4
  <2> QED  BY <2>1, <2>2
<1>7. \A d, f \in Caller : call'[d] # Idle /\ call'[f] # Idle /\ call'[d].n = call'[f].n => d = f
  BY <1>3 DEF IInv, CallInv, Same
<1>8. CallInv'
  BY <1>6, <1>7 DEF CallInv
<1>9. NoMoreThanRest'
  BY <1>1, <1>2 DEF IInv, NoMoreThanRest, Within, PermissionsOf
<1>10. AuditIsTrue'
  <2>1. \A a \in audit' : a.decision = "allow" <=> \E f \in effects' : f.n = a.n
    BY <1>1, <1>2 DEF IInv, AuditIsTrue, Fresh
  <2>2. ASSUME NEW f \in effects', f.who \in Run, f.n \in answered'
        PROVE  [n |-> f.n, decision |-> "allow"] \in audit'
    <3>1. CASE f = e
      BY <1>1, <1>2, <2>2, <3>1 DEF Fresh
    <3>2. CASE f # e
      <4>1. f \in effects /\ f.n # call[c].n
        BY <1>1, <1>2, <3>2 DEF Fresh
      <4> QED  BY <1>1, <2>2, <4>1 DEF IInv, AuditIsTrue
    <3> QED  BY <3>1, <3>2
  <2> QED  BY <2>1, <2>2 DEF AuditIsTrue
<1> QED  BY <1>5, <1>8, <1>9, <1>10 DEF IInv

\* A request ends with a decision on record that is true of it.
LEMMA EndedOnRecord ==
    ASSUME IInv, NEW c \in Caller, call[c] # Idle, End(c),
           UNCHANGED <<snapshot, started, effects>>,
           NEW decision,
           decision = "allow" <=> \E e \in effects : e.n = call[c].n,
           audit' = audit \cup {[n |-> call[c].n, decision |-> decision]},
           \/ answered' = answered
           \/ decision = "allow" /\ answered' = answered \cup {call[c].n}
    PROVE  IInv'
<1>1. /\ DOMAIN call' = Caller
      /\ call'[c] = Idle
      /\ \A d \in Caller \ {c} : call'[d] = call[d]
      /\ call[c].n \in Numbers /\ Fresh(c)
  BY DEF End, IInv, Shape, CallInv
<1>2. Shape' /\ Recorded'
  <2>1. Shape'
    BY <1>1 DEF IInv, Shape, Numbers
  <2>2. \A a \in audit' : a.n \in Numbers
    BY <1>1 DEF IInv, Recorded
  <2>3. answered' \subseteq Numbers
    BY <1>1 DEF IInv, Recorded
  <2>4. \A e \in effects' : e.n \in Numbers
    BY DEF IInv, Recorded
  <2>5. Numbers' = Numbers
    BY DEF Numbers
  <2> QED  BY <2>1, <2>2, <2>3, <2>4, <2>5 DEF Recorded
<1>3. ASSUME NEW d \in Caller, call'[d] # Idle  PROVE Fresh(d)' /\ Within(d)'
  <2>1. call'[d] = call[d] /\ call[d] # Idle /\ call[d].n # call[c].n
    BY <1>1, <1>3 DEF IInv, CallInv
  <2>2. Fresh(d) /\ Within(d)
    BY <2>1 DEF IInv, CallInv
  <2>3. Fresh(d)'
    BY <2>1, <2>2 DEF Fresh
  <2>4. Within(d)'
    BY <2>1, <2>2 DEF Within, PermissionsOf
  <2> QED  BY <2>3, <2>4
<1>4. CallInv'
  BY <1>1, <1>3 DEF IInv, CallInv
<1>5. NoMoreThanRest'
  BY DEF IInv, NoMoreThanRest, PermissionsOf
<1>6. AuditIsTrue'
  BY <1>1 DEF IInv, AuditIsTrue, Fresh
<1> QED  BY <1>2, <1>4, <1>5, <1>6 DEF IInv

\* The gateway refuses and lets pass by the owner's permissions, and records both.
LEMMA GatewayKeeps ==
    ASSUME IInv, NEW c \in Caller, Gateway(c)
    PROVE  IInv'
<1> USE DEF At
<1>1. CASE Verify(c)
  <2>1. call[c] # Idle /\ call[c].phase = "verify" /\ UNCHANGED <<policy, results>>
    BY <1>1 DEF Verify
  <2>2. Within(c) /\ call[c].phase \in AtGate
    BY <2>1 DEF IInv, CallInv, AtGate
  <2>3. CASE End(c)
    BY <2>1, <2>3, EndKeeps DEF policy, results
  <2>4. CASE GoTo(c, "deny")
    <3>1. Moved(c, {"deny"})
      BY <2>1, <2>4, GoToMoves DEF IInv
    <3>2. call'[c].phase = "deny" /\ Same(call[c], call'[c])
      BY <3>1 DEF Moved, IInv, Shape
    <3>3. Within(c)'
      BY <2>2, <3>2 DEF Same, Within, AtGate
    <3> QED  BY <2>1, <3>1, <3>3, MoveKeeps DEF policy, results
  <2>5. CASE GoTo(c, "look") /\ Allowed(c)
    <3>1. Moved(c, {"look"})
      BY <2>1, <2>5, GoToMoves DEF IInv
    <3>2. \A o \in call[c].ops : RoutePermission(o) \in snapshot[call[c].who].permissions
      BY <2>2, <2>5, OperationsAreRequired DEF Allowed, Satisfies, Within
    <3>4. call'[c].phase = "look" /\ Same(call[c], call'[c])
      BY <3>1 DEF Moved, IInv, Shape
    <3>3. Within(c)'
      BY <2>1, <2>2, <3>2, <3>4 DEF Same, Within, AtGate, PermissionsOf, policy
    <3> QED  BY <2>1, <3>1, <3>3, MoveKeeps DEF policy, results
  <2> QED  BY <1>1, <2>3, <2>4, <2>5 DEF Verify
<1>2. CASE Deny(c)
  <2>1. /\ call[c] # Idle /\ call[c].phase = "deny" /\ End(c)
        /\ UNCHANGED <<snapshot, started, effects, answered>>
        /\ audit' = audit \cup {[n |-> call[c].n, decision |-> "deny"]}
    BY <1>2 DEF Deny, policy
  <2>2. "deny" = "allow" <=> \E e \in effects : e.n = call[c].n
    BY <2>1 DEF IInv, CallInv, Fresh
  <2> QED  BY <2>1, <2>2, EndedOnRecord
<1>3. CASE Audit(c)
  <2>1. /\ call[c] # Idle /\ call[c].phase = "audit" /\ End(c)
        /\ UNCHANGED <<snapshot, started, effects>>
        /\ audit' = audit \cup {[n |-> call[c].n, decision |-> "allow"]}
        /\ answered' = answered \cup {call[c].n}
    BY <1>3 DEF Audit, policy
  <2>2. "allow" = "allow" <=> \E e \in effects : e.n = call[c].n
    BY <2>1 DEF IInv, CallInv, Fresh
  <2> QED  BY <2>1, <2>2, EndedOnRecord
<1> QED  BY <1>1, <1>2, <1>3 DEF Gateway

\* A request is new: nothing is on record of its number.
LEMMA RequestKeeps ==
    ASSUME IInv, NEW c \in Caller, NEW who, NEW cap, NEW ops, NEW input, NEW phase,
           phase \in {"verify", "look"}, Request(c, who, cap, ops, input, phase),
           phase = "verify" => who \in Run /\ cap \in Capability /\ ops = OperationsOf(cap),
           phase = "look" => \A o \in ops : RoutePermission(o) \in PermissionsOf(who)
    PROVE  IInv'
<1> DEFINE y == [who |-> who, cap |-> cap, ops |-> ops, input |-> input, phase |-> phase,
                 n |-> started, seen |-> 0]
<1>1. /\ call[c] = Idle /\ started' = started + 1 /\ started \in Nat
      /\ call' = [call EXCEPT ![c] = y]
      /\ UNCHANGED <<snapshot, effects, audit, answered>>
  BY DEF Request, policy, IInv, Shape
<1>2. DOMAIN call' = Caller /\ call'[c] = y /\ \A d \in Caller \ {c} : call'[d] = call[d]
  BY <1>1 DEF IInv, Shape
<1>3. Numbers \subseteq Numbers' /\ started \in Numbers' /\ started \notin Numbers
  BY <1>1 DEF Numbers
<1>4. Shape'
  <2>1. \A d \in Caller : call'[d] # Idle => DOMAIN call'[d] = Field /\ call'[d].n \in Numbers'
    <3> TAKE d \in Caller
    <3>1. CASE d = c
      <4>1. DOMAIN y = Field /\ y.n = started
        BY DEF Field
      <4> QED  BY <1>2, <1>3, <3>1, <4>1
    <3>2. CASE d # c
      BY <1>2, <1>3, <3>2 DEF IInv, Shape
    <3> QED  BY <3>1, <3>2
  <2> QED  BY <1>1, <1>2, <2>1 DEF IInv, Shape
<1>5. Recorded'
  BY <1>1, <1>3 DEF IInv, Recorded
<1>6. ASSUME NEW d \in Caller, call'[d] # Idle  PROVE Fresh(d)' /\ Within(d)'
  <2>1. CASE d = c
    <3>1. Fresh(c)'
      BY <1>1, <1>2, <1>3 DEF Fresh, IInv, Recorded
    <3>2. Within(c)'
      BY <1>1, <1>2 DEF Within, AtGate, PermissionsOf
    <3> QED  BY <2>1, <3>1, <3>2
  <2>2. CASE d # c
    <3>1. call'[d] = call[d] /\ call[d] # Idle
      BY <1>2, <1>6, <2>2
    <3>2. Fresh(d) /\ Within(d)
      BY <3>1 DEF IInv, CallInv
    <3>3. Fresh(d)'
      BY <1>1, <3>1, <3>2 DEF Fresh
    <3>4. Within(d)'
      BY <1>1, <3>1, <3>2 DEF Within, PermissionsOf
    <3> QED  BY <3>3, <3>4
  <2> QED  BY <2>1, <2>2
<1>7. ASSUME NEW d \in Caller, NEW e \in Caller, call'[d] # Idle, call'[e] # Idle,
             call'[d].n = call'[e].n
      PROVE  d = e
  <2>1. \A x \in Caller \ {c} : call'[x] # Idle => call'[x].n # started
    BY <1>2, <1>3 DEF IInv, Shape
  <2> QED  BY <1>2, <1>7, <2>1 DEF IInv, CallInv
<1>8. CallInv'
  BY <1>6, <1>7 DEF CallInv
<1>9. NoMoreThanRest' /\ AuditIsTrue'
  BY <1>1 DEF IInv, NoMoreThanRest, AuditIsTrue, PermissionsOf
<1> QED  BY <1>4, <1>5, <1>8, <1>9 DEF IInv

\* Nobody's permissions change while a snapshot expires.
LEMMA ExpireKeeps ==
    ASSUME IInv, NEW r \in Run, Expire(r)
    PROVE  IInv'
<1>1. /\ snapshot' = [snapshot EXCEPT ![r].expired = TRUE]
      /\ UNCHANGED <<call, started, effects, audit, answered>>
  BY DEF Expire
<1>2. /\ DOMAIN snapshot' = Run
      /\ \A x \in Run : /\ {"permissions", "expired"} \subseteq DOMAIN snapshot'[x]
                        /\ snapshot'[x].permissions = snapshot[x].permissions
  BY <1>1 DEF IInv, Shape
<1>3. \A who : PermissionsOf(who)' = PermissionsOf(who)
  BY <1>2 DEF PermissionsOf
<1>4. Shape' /\ Recorded'
  BY <1>1, <1>2 DEF IInv, Shape, Recorded, Numbers
<1>5. CallInv'
  BY <1>1, <1>3 DEF IInv, CallInv, Fresh, Within
<1>6. NoMoreThanRest' /\ AuditIsTrue'
  BY <1>1, <1>3 DEF IInv, NoMoreThanRest, AuditIsTrue
<1> QED  BY <1>4, <1>5, <1>6 DEF IInv

\* A step that changes none of the variables above.
LEMMA StutterKeeps ==
    ASSUME IInv, UNCHANGED <<snapshot, call, started, effects, audit, answered>>
    PROVE  IInv'
BY DEF IInv, Shape, Recorded, CallInv, Fresh, Within, Numbers, NoMoreThanRest, AuditIsTrue,
   PermissionsOf

\* Every step keeps the invariant.
LEMMA StepKeeps == IInv /\ [Next]_vars => IInv'
<1> SUFFICES ASSUME IInv, [Next]_vars  PROVE IInv'
  OBVIOUS
<1>1. ASSUME NEW c \in Caller, Execute(c)  PROVE IInv'
  <2>1. Worked(c)
    BY <1>1, ExecuteWorks DEF IInv
  <2>2. CASE End(c) /\ UNCHANGED <<effects, answered>>
    BY <2>1, <2>2, EndKeeps DEF Worked, policy
  <2>3. CASE Moved(c, Executes) /\ UNCHANGED <<effects, answered>>
    <3>1. call[c] # Idle /\ call[c].phase \in Executes /\ UNCHANGED <<snapshot, started, audit>>
      BY <2>1 DEF Worked, policy
    <3>2. Within(c) /\ call[c].phase \notin AtGate
      BY <3>1 DEF IInv, CallInv, Executes, AtGate
    <3>3. call'[c].phase \in Executes /\ Same(call[c], call'[c])
      BY <2>3 DEF Moved, IInv, Shape
    <3>4. Within(c)'
      BY <3>1, <3>2, <3>3 DEF Within, Same, Executes, AtGate, PermissionsOf
    <3>5. "audit" \notin Executes
      BY DEF Executes
    <3>6. call[c].phase # "audit"
      BY <3>1, <3>5
    <3> QED  BY <2>3, <3>1, <3>4, <3>5, <3>6, MoveKeeps
  <2>4. CASE Done(c)
    BY <2>1, <2>4, DoneKeeps DEF Worked
  <2> QED  BY <2>1, <2>2, <2>3, <2>4 DEF Worked
<1>2. ASSUME NEW c \in Caller, Gateway(c)  PROVE IInv'
  BY <1>2, GatewayKeeps
<1>3. ASSUME NEW c \in Caller, Fail(c)  PROVE IInv'
  BY <1>3, EndKeeps DEF Fail, policy
<1>4. ASSUME NEW c \in Caller, NEW r \in Run, NEW cap \in Offered, WorkerCalls(c, r, cap)
      PROVE  IInv'
  <2>1. PICK input : Request(c, r, cap, OperationsOf(cap), input, "verify")
    BY <1>4 DEF WorkerCalls
  <2>2. cap \in Capability
    BY GatewayAssumption
  <2> QED  BY <2>1, <2>2, RequestKeeps
<1>5. ASSUME NEW c \in Caller, NEW p \in Person, NEW o, PersonAsks(c, p, o)  PROVE IInv'
  <2>1. PICK input : Request(c, p, None, {o}, input, "look")
    BY <1>5 DEF PersonAsks
  <2>2. RoutePermission(o) \in PermissionsOf(p)
    BY <1>5, GatewayAssumption DEF PersonAsks, PermissionsOf
  <2> QED  BY <2>1, <2>2, RequestKeeps
<1>6. ASSUME NEW c \in Caller, NEW p \in Person,
             SaleRequest(c, p) \/ IssueRequest(c, p) \/ ActionRequest(c, p) \/ SopRequest(c, p)
      PROVE  IInv'
  BY <1>5, <1>6 DEF SaleRequest, IssueRequest, ActionRequest, SopRequest
<1>7. ASSUME NEW r \in Run, Expire(r)  PROVE IInv'
  BY <1>7, ExpireKeeps
<1>8. ASSUME NEW cap, Disable(cap)  PROVE IInv'
  BY <1>8, StutterKeeps DEF Disable
<1>9. CASE UNCHANGED vars
  BY <1>9, StutterKeeps DEF vars, policy, results
<1> QED  BY <1>1, <1>2, <1>3, <1>4, <1>6, <1>7, <1>8, <1>9 DEF Next

-----------------------------------------------------------------------------
(* Theorems *)

\* The invariant holds in every reachable state.
THEOREM Invariance == Spec => []IInv
BY InitIInv, StepKeeps, PTL DEF Spec

\* Nobody gets more done through an agent than over the routes, whatever requests
\* overlap, expire, fail or are refused.
THEOREM RestIsTheLimit == Spec => []NoMoreThanRest
BY Invariance, PTL DEF IInv

\* The audit trail says neither that something was done that was not, nor the
\* reverse, and no worker is told of a success that is not on record.
THEOREM AuditTold == Spec => []AuditIsTrue
BY Invariance, PTL DEF IInv

-----------------------------------------------------------------------------
(* The business tables.  What a request knows of its input, and that the row *)
(* it found is still there, since rows are never deleted.                    *)

Found(c, o) ==
    CASE o = "sales.create" -> DOMAIN call[c].input.items \subseteq Product
      [] o = "issues.update" -> call[c].input.row \in Rows(issues)
      [] o \in {"actions.update", "actions.addComment"} -> call[c].input.row \in Rows(actions)
      [] o \in {"sops.update", "sops.addVersion"} -> call[c].input.row \in Rows(sops)
      [] OTHER -> TRUE

Knows(c) ==
    /\ call[c].who \in Run \cup Person
    /\ \A o \in call[c].ops \cap Writes :
          /\ call[c].ops = {o}
          /\ call[c].input \in Inputs(o) \/ (call[c].phase \in AtGate /\ call[c].input = None)
          /\ call[c].phase \in {"write", "wait", "insert"} => Found(c, o)
    /\ call[c].phase \in {"wait", "insert"} => "sops.addVersion" \in call[c].ops

Known == \A c \in Caller : call[c] # Idle => Knows(c)

Tables ==
    /\ sops \in [Sop -> SopRow \cup {None}] /\ issues \in [Issue -> IssueRow \cup {None}]
    /\ actions \in [Action -> ActionRow \cup {None}] /\ sales \in [Sale -> SaleRow \cup {None}]

Gate ==
    /\ snapshot \in [Run -> [owner : Person, intact : BOOLEAN, expired : BOOLEAN,
                             permissions : SUBSET Permission]]
    /\ enabled \subseteq Capability
    /\ audit \subseteq [n : Nat, decision : {"allow", "deny"}]

DataInv == IInv /\ Known /\ Tables /\ Gate

RowsStay ==
    /\ Rows(issues) \subseteq Rows(issues)' /\ Rows(actions) \subseteq Rows(actions)'
    /\ Rows(sops) \subseteq Rows(sops)'

\* A capability that writes executes one operation.
LEMMA WritesAlone ==
    ASSUME NEW c \in Capability, NEW o \in OperationsOf(c) \cap Writes
    PROVE  OperationsOf(c) = {o}
BY DEF Capability, OperationsOf, Writes, CustomerReads, ProductReads, SaleReads, SaleReports,
   IssueReads, ActionReads, ActionWrites, SopWrites

\* Requests that did not move still know what they knew.
LEMMA OthersKnow ==
    ASSUME Shape, Known, RowsStay, NEW c \in Caller, DOMAIN call' = Caller,
           \A d \in Caller \ {c} : call'[d] = call[d],
           call'[c] = Idle \/ Knows(c)'
    PROVE  Known'
<1> SUFFICES ASSUME NEW d \in Caller, d # c, call'[d] # Idle  PROVE Knows(d)'
  BY DEF Known
<1>1. call'[d] = call[d] /\ Knows(d)
  BY DEF Known
<1>2. ASSUME NEW o, Found(d, o)  PROVE Found(d, o)'
  BY <1>1, <1>2 DEF Found, RowsStay
<1> QED  BY <1>1, <1>2 DEF Knows

\* A request moves on, past the gate only with an input.
LEMMA MovedKnows ==
    ASSUME Shape, Known, RowsStay, NEW c \in Caller, call[c] # Idle,
           NEW phase, Moved(c, {phase}),
           call[c].phase \notin AtGate \/ phase \in AtGate \/ call[c].input # None,
           phase \in {"write", "wait", "insert"} =>
              \A o \in call[c].ops \cap Writes : Found(c, o),
           phase \in {"wait", "insert"} => "sops.addVersion" \in call[c].ops
    PROVE  Known'
<1>1. PICK y : call' = [call EXCEPT ![c] = y] /\ y.phase \in {phase} /\ Same(call[c], y)
  BY DEF Moved
<1>2. /\ DOMAIN call' = Caller /\ call'[c] = y
      /\ \A d \in Caller \ {c} : call'[d] = call[d]
  BY <1>1 DEF Shape
<1>3. y.phase = phase /\ y.who = call[c].who /\ y.ops = call[c].ops /\ y.input = call[c].input
  BY <1>1 DEF Same
<1>4. Knows(c)
  BY DEF Known
<1>5. ASSUME NEW o, Found(c, o)  PROVE Found(c, o)'
  BY <1>2, <1>3, <1>5 DEF Found, RowsStay
<1>6. Knows(c)'
  BY <1>2, <1>3, <1>4, <1>5 DEF Knows
<1> QED  BY <1>2, <1>6, OthersKnow

LEMMA EndedKnows ==
    ASSUME Shape, Known, RowsStay, NEW c \in Caller, End(c)
    PROVE  Known'
<1>1. /\ DOMAIN call' = Caller /\ call'[c] = Idle
      /\ \A d \in Caller \ {c} : call'[d] = call[d]
  BY DEF End, Shape
<1> QED  BY <1>1, OthersKnow

\* A request that is done is audited or ends.
LEMMA DoneKnows ==
    ASSUME Shape, Known, RowsStay, NEW c \in Caller, call[c] # Idle,
           call[c].phase \notin AtGate, Done(c)
    PROVE  Known'
<1>1. CASE GoTo(c, "audit")
  BY <1>1, GoToMoves, MovedKnows
<1>2. CASE End(c)
  BY <1>2, EndedKnows
<1> QED  BY <1>1, <1>2 DEF Done

LEMMA GateKnows ==
    ASSUME DataInv, NEW c \in Caller, Gateway(c)
    PROVE  Known' /\ Gate' /\ UNCHANGED tables
<1>0. Shape /\ Known /\ Gate
  BY DEF DataInv, IInv
<1>1. call[c] # Idle /\ UNCHANGED tables /\ RowsStay
  BY DEF Gateway, Verify, Deny, Audit, At, tables, RowsStay
<1>2. CASE Verify(c)
  <2>1. GoTo(c, "deny") => Known'
    BY <1>0, <1>1, GoToMoves, MovedKnows DEF AtGate
  <2>2. GoTo(c, "look") /\ call[c].input # None => Known'
    BY <1>0, <1>1, GoToMoves, MovedKnows
  <2>3. End(c) => Known'
    BY <1>0, <1>1, EndedKnows
  <2>4. Known'
    BY <1>2, <2>1, <2>2, <2>3 DEF Verify
  <2> QED  BY <1>0, <1>1, <1>2, <2>4 DEF Verify, policy, results, Gate
<1>3. CASE Deny(c) \/ Audit(c)
  <2>1. End(c) /\ UNCHANGED policy
    BY <1>3 DEF Deny, Audit
  <2>2. call[c].n \in Nat
    BY <1>0, <1>1 DEF Shape, Numbers
  <2>3. Gate'
    BY <1>0, <1>3, <2>1, <2>2 DEF Gate, Deny, Audit, policy
  <2> QED  BY <1>0, <1>1, <2>1, <2>3, EndedKnows
<1> QED  BY <1>2, <1>3 DEF Gateway

LEMMA RequestKnows ==
    ASSUME DataInv, NEW c \in Caller, NEW who \in Run \cup Person, NEW cap, NEW ops, NEW input,
           NEW phase \in {"verify", "look"}, Request(c, who, cap, ops, input, phase),
           \A o \in ops \cap Writes :
              ops = {o} /\ (input \in Inputs(o) \/ (phase = "verify" /\ input = None))
    PROVE  Known' /\ Gate' /\ UNCHANGED tables
<1> DEFINE y == [who |-> who, cap |-> cap, ops |-> ops, input |-> input, phase |-> phase,
                 n |-> started, seen |-> 0]
<1>1. call' = [call EXCEPT ![c] = y] /\ UNCHANGED <<policy, tables, audit>>
  BY DEF Request
<1>2. /\ DOMAIN call' = Caller /\ call'[c] = y
      /\ \A d \in Caller \ {c} : call'[d] = call[d]
  BY <1>1 DEF DataInv, IInv, Shape
<1>3. Knows(c)'
  BY <1>2 DEF Knows, AtGate
<1>4. Known'
  BY <1>1, <1>2, <1>3, OthersKnow DEF DataInv, IInv, tables, RowsStay
<1>5. Gate'
  BY <1>1 DEF DataInv, Gate, policy
<1> QED  BY <1>1, <1>4, <1>5

\* A request goes on to write only with the row it looked for.
LEMMA LookupKnows ==
    ASSUME DataInv, NEW c \in Caller,
           LookupSale(c) \/ LookupIssue(c) \/ LookupAction(c) \/ LookupSop(c)
    PROVE  Known' /\ Gate' /\ UNCHANGED tables
<1>1. ASSUME NEW o, NEW found, Lookup(c, o, found), found => Found(c, o)
      PROVE  Known' /\ Gate' /\ UNCHANGED tables
  <2>1. /\ Shape /\ Known /\ RowsStay /\ call[c] # Idle /\ call[c].phase = "look"
        /\ UNCHANGED <<tables, policy, audit>>
    BY <1>1 DEF DataInv, IInv, Lookup, At, results, RowsStay, tables
  <2>2. CASE found
    <3>1. \A p \in call[c].ops \cap Writes : p = o
      BY <1>1, <2>1 DEF Known, Knows, Lookup, Asks
    <3>2. GoTo(c, "write")
      BY <1>1, <2>2 DEF Lookup
    <3>3. Known'
      BY <1>1, <2>1, <2>2, <3>1, <3>2, GoToMoves, MovedKnows DEF AtGate
    <3> QED  BY <2>1, <3>3 DEF DataInv, Gate, policy
  <2>3. CASE ~found
    <3>1. Known'
      BY <1>1, <2>1, <2>3, EndedKnows DEF Lookup
    <3> QED  BY <2>1, <3>1 DEF DataInv, Gate, policy
  <2> QED  BY <2>2, <2>3
<1>2. CASE LookupSale(c)
  BY <1>1, <1>2 DEF LookupSale, Found
<1>3. CASE LookupIssue(c)
  BY <1>1, <1>3 DEF LookupIssue, Found
<1>4. CASE LookupAction(c)
  BY <1>1, <1>4 DEF LookupAction, Found
<1>5. CASE LookupSop(c)
  <2>1. CASE Lookup(c, "sops.create", ~NameTaken(call[c].input.name, None))
    BY <1>1, <2>1 DEF Found
  <2>2. CASE Lookup(c, "sops.addVersion", call[c].input.row \in Rows(sops))
    BY <1>1, <2>2 DEF Found
  <2>3. ASSUME NEW found, Lookup(c, "sops.update", call[c].input.row \in Rows(sops) /\ found)
        PROVE  Known' /\ Gate' /\ UNCHANGED tables
    BY <1>1, <2>3 DEF Found
  <2> QED  BY <1>5, <2>1, <2>2, <2>3 DEF LookupSop
<1> QED  BY <1>2, <1>3, <1>4, <1>5

\* What the input of each write is.
LEMMA InputsAre ==
    /\ Inputs("sales.create") = SaleInputs
    /\ Inputs("issues.create") = [row : Sale, status : {"in_assistance", "completed"}]
    /\ Inputs("issues.update") = [row : Issue, patch : {[status |-> "completed"]}]
    /\ Inputs("actions.create") = [row : Issue, owner : Person, status : {"pending", "completed"}]
    /\ Inputs("actions.update") = [row : Action, patch : ActionPatch]
<1> USE DEF Inputs, Writes, IssueRoutes, ActionRoutes, SopRoutes
<1>1. Inputs("sales.create") = SaleInputs
  OBVIOUS
<1>2. /\ Inputs("issues.create") = IssueInputs("issues.create")
      /\ Inputs("issues.update") = IssueInputs("issues.update")
  OBVIOUS
<1>3. /\ Inputs("actions.create") = ActionInputs("actions.create")
      /\ Inputs("actions.update") = ActionInputs("actions.update")
  OBVIOUS
<1> QED  BY <1>1, <1>2, <1>3 DEF IssueInputs, ActionInputs

\* A row is put in a table.
LEMMA Put ==
    ASSUME NEW K, NEW R, None \notin R, NEW t \in [K -> R \cup {None}], NEW x \in K, NEW row \in R
    PROVE  /\ [t EXCEPT ![x] = row] \in [K -> R \cup {None}]
           /\ Rows(t) \subseteq Rows([t EXCEPT ![x] = row])
BY DEF Rows

LEMMA WriteKnows ==
    ASSUME DataInv, NEW c \in Caller, NEW o \in Writes, Writing(c, o)
    PROVE  /\ call[c] # Idle /\ call[c].phase = "write" /\ call[c].n \in Nat
           /\ call[c].input \in Inputs(o) /\ Found(c, o) /\ Author(c) \in Person
<1>1. /\ call[c] # Idle /\ call[c].phase = "write" /\ o \in call[c].ops /\ Knows(c)
      /\ call[c].n \in Nat
  BY DEF DataInv, IInv, Shape, Numbers, Known, Writing, At, Asks
<1>2. call[c].input \in Inputs(o) /\ Found(c, o)
  BY <1>1 DEF Knows, AtGate
<1>3. Author(c) \in Person
  BY <1>1 DEF Knows, Author, ByRun, DataInv, Gate
<1> QED  BY <1>1, <1>2, <1>3

LEMMA WrittenKnows ==
    ASSUME DataInv, NEW c \in Caller, call[c] # Idle, call[c].phase \notin AtGate, RowsStay,
           Done(c)
    PROVE  Known' /\ Gate'
<1>1. Known'
  BY DoneKnows DEF DataInv, IInv
<1> QED  BY <1>1 DEF DataInv, Gate, Done, policy

LEMMA RefusedKnows ==
    ASSUME DataInv, NEW c \in Caller, call[c] # Idle, Refused(c)
    PROVE  Known' /\ Gate' /\ UNCHANGED tables
<1>1. RowsStay /\ UNCHANGED <<policy, tables, audit>>
  BY DEF Refused, RowsStay, tables, results
<1>2. Known'
  BY <1>1, EndedKnows DEF DataInv, IInv, Refused
<1> QED  BY <1>1, <1>2 DEF DataInv, Gate, policy

VersionsGrow ==
    \A x \in Rows(sops) : x \in Rows(sops)' /\ IsPrefix(sops[x].versions, sops'[x].versions)

LEMMA PrefixOfAppended ==
    ASSUME NEW s \in Seq(Nat), NEW n \in Nat
    PROVE  IsPrefix(s, s) /\ IsPrefix(s, Append(s, n))
BY DEF IsPrefix

LEMMA VersionAdded ==
    ASSUME NEW r \in SopRow, NEW v \in Seq(Nat)
    PROVE  /\ [r EXCEPT !.versions = v] \in SopRow /\ [r EXCEPT !.versions = v].versions = v
           /\ [r EXCEPT !.versions = v].name = r.name
           /\ [r EXCEPT !.versions = v].active = r.active
<1>1. DOMAIN r = {"name", "active", "versions"}
  BY DEF SopRow
<1>2. [r EXCEPT !.versions = v] = [name |-> r.name, active |-> r.active, versions |-> v]
  BY <1>1
<1> QED  BY <1>2 DEF SopRow

\* A field that differs was in a patch.
IssuesKept ==
    \A x \in Rows(issues) :
       issues'[x].status # issues[x].status => Asked("issues.update", x, "status")
ActionsKept ==
    \A x \in Rows(actions) : \A f \in {"status", "owner"} :
       actions'[x][f] # actions[x][f] => Asked("actions.update", x, f)
SopsKept ==
    \A x \in Rows(sops) : \A f \in {"name", "active"} :
       sops'[x][f] # sops[x][f] => Asked("sops.update", x, f)
RestKept == IssuesKept /\ ActionsKept /\ SopsKept

\* The writes of a SOP: a new row, fields other than the versions, one version more.
LEMMA SopsWritten ==
    ASSUME DataInv, NEW c \in Caller, CreateSop(c) \/ UpdateSop(c) \/ InsertVersion(c)
    PROVE  /\ Known' /\ Gate' /\ Tables' /\ VersionsGrow /\ SopsKept
           /\ UNCHANGED <<issues, actions, sales>>
<1>0. Tables /\ {"sops.create", "sops.update", "sops.addVersion"} \subseteq Writes
  BY DEF DataInv, Writes
<1>1. ASSUME Refused(c), call[c] # Idle
      PROVE  /\ Known' /\ Gate' /\ Tables' /\ VersionsGrow /\ SopsKept
             /\ UNCHANGED <<issues, actions, sales>>
  <2>1. Known' /\ Gate' /\ UNCHANGED tables
    BY <1>1, RefusedKnows
  <2>2. VersionsGrow
    BY <1>0, <2>1, PrefixOfAppended, NoneIsNoRow DEF VersionsGrow, Tables, SopRow, Rows, tables
  <2> QED  BY <1>0, <2>1, <2>2 DEF Tables, tables, SopsKept
<1>2. ASSUME NEW x \in Sop, NEW row \in SopRow, sops' = [sops EXCEPT ![x] = row],
             sops[x] # None => IsPrefix(sops[x].versions, row.versions),
             x \in Rows(sops) => \A f \in {"name", "active"} :
                row[f] # sops[x][f] => Asked("sops.update", x, f),
             UNCHANGED <<issues, actions, sales>>, Done(c), call[c] # Idle,
             call[c].phase \notin AtGate
      PROVE  /\ Known' /\ Gate' /\ Tables' /\ VersionsGrow /\ SopsKept
             /\ UNCHANGED <<issues, actions, sales>>
  <2>1. sops' \in [Sop -> SopRow \cup {None}] /\ Rows(sops) \subseteq Rows(sops)'
    BY <1>0, <1>2, Put, NoneIsNoRow DEF Tables
  <2>2. Known' /\ Gate'
    BY <1>2, <2>1, WrittenKnows DEF RowsStay
  <2>3. VersionsGrow
    BY <1>0, <1>2, <2>1, PrefixOfAppended DEF VersionsGrow, Tables, SopRow, Rows
  <2>4. SopsKept
    <3> SUFFICES ASSUME NEW y \in Rows(sops), NEW f \in {"name", "active"},
                        sops'[y][f] # sops[y][f]
                 PROVE  Asked("sops.update", y, f)
      BY DEF SopsKept
    <3>1. y = x /\ sops'[x] = row
      BY <1>0, <1>2 DEF Tables, Rows
    <3> QED  BY <1>2, <3>1
  <2> QED  BY <1>0, <1>2, <2>1, <2>2, <2>3, <2>4 DEF Tables
<1>3. CASE CreateSop(c)
  <2>1. Writing(c, "sops.create")
    BY <1>3 DEF CreateSop
  <2>2. /\ call[c] # Idle /\ call[c].phase = "write" /\ call[c].n \in Nat
        /\ call[c].input \in Inputs("sops.create")
    BY <1>0, <2>1, WriteKnows
  <2>3. call[c].input.name \in Name
    BY <2>2 DEF Inputs, SopInputs, Writes, IssueRoutes, ActionRoutes, SopRoutes
  <2>4. CASE Refused(c)
    BY <1>1, <2>2, <2>4
  <2>5. CASE /\ InsertSop(call[c].input.name, call[c].n) /\ Done(c)
             /\ UNCHANGED <<issues, actions, sales>>
    <3> DEFINE row == [name |-> call[c].input.name, active |-> TRUE, versions |-> <<call[c].n>>]
    <3>1. PICK x \in Unused(sops) : sops' = [sops EXCEPT ![x] = row]
      BY <2>5 DEF InsertSop
    <3>2. x \in Sop /\ sops[x] = None /\ x \notin Rows(sops)
      BY <1>0, <3>1 DEF Unused, Rows, Tables
    <3>3. row \in SopRow
      BY <2>2, <2>3 DEF SopRow
    <3> QED  BY <1>2, <2>2, <2>5, <3>1, <3>2, <3>3 DEF AtGate
  <2> QED  BY <1>3, <2>4, <2>5 DEF CreateSop
<1>4. CASE UpdateSop(c)
  <2> DEFINE x == call[c].input.row
             p == call[c].input.patch
  <2>1. Writing(c, "sops.update")
    BY <1>4 DEF UpdateSop
  <2>2. /\ call[c] # Idle /\ call[c].phase = "write"
        /\ call[c].input \in Inputs("sops.update") /\ Found(c, "sops.update")
    BY <1>0, <2>1, WriteKnows
  <2>3. p \in SopPatch /\ x \in Rows(sops)
    BY <2>2 DEF Inputs, SopInputs, Writes, IssueRoutes, ActionRoutes, SopRoutes, Found
  <2>4. CASE Refused(c)
    BY <1>1, <2>2, <2>4
  <2>5. CASE PatchSop(x, p) /\ Done(c) /\ UNCHANGED <<issues, actions, sales>>
    <3>1. x \in Sop /\ sops[x] \in SopRow /\ sops' = [sops EXCEPT ![x] = Overlay(sops[x], p)]
      BY <1>0, <2>3, <2>5 DEF PatchSop, Tables, Rows
    <3>2. \/ DOMAIN p = {"active"} /\ p["active"] \in BOOLEAN
          \/ DOMAIN p = {"name"} /\ p["name"] \in Name
      <4>1. CASE p = [active |-> FALSE]
        BY <4>1
      <4>2. CASE \E n \in Name : p = [name |-> n]
        BY <4>2
      <4> QED  BY <2>3, <4>1, <4>2 DEF SopPatch
    <3>3. DOMAIN sops[x] = {"name", "active", "versions"}
      BY <3>1 DEF SopRow
    <3>4. Overlay(sops[x], p) = [name |-> IF "name" \in DOMAIN p THEN p["name"] ELSE sops[x].name,
                                 active |-> IF "active" \in DOMAIN p THEN p["active"]
                                            ELSE sops[x].active,
                                 versions |-> sops[x].versions]
      BY <3>2, <3>3 DEF Overlay
    <3>5. Overlay(sops[x], p) \in SopRow /\ Overlay(sops[x], p).versions = sops[x].versions
      BY <3>1, <3>2, <3>4 DEF SopRow
    <3>6. IsPrefix(sops[x].versions, Overlay(sops[x], p).versions)
      BY <3>1, <3>5, PrefixOfAppended DEF SopRow
    <3>7. ASSUME NEW f \in {"name", "active"}, Overlay(sops[x], p)[f] # sops[x][f]
          PROVE  Asked("sops.update", x, f)
      <4>1. f \in DOMAIN p
        BY <3>4, <3>7
      <4> QED  BY <2>1, <4>1 DEF Asked
    <3> QED  BY <1>2, <2>2, <2>5, <3>1, <3>5, <3>6, <3>7 DEF AtGate
  <2> QED  BY <1>4, <2>4, <2>5 DEF UpdateSop
<1>5. CASE InsertVersion(c)
  <2> DEFINE x == call[c].input.row
  <2>1. call[c] # Idle /\ call[c].phase = "insert" /\ call[c].n \in Nat /\ Knows(c)
    BY <1>5 DEF InsertVersion, At, DataInv, IInv, Shape, Numbers, Known
  <2>2. x \in Rows(sops)
    BY <1>0, <2>1 DEF Knows, Found
  <2>3. CASE Refused(c)
    BY <1>1, <2>1, <2>3
  <2>4. CASE /\ sops' = [sops EXCEPT ![x].versions = Append(@, call[c].n)] /\ Done(c)
             /\ UNCHANGED <<issues, actions, sales>>
    <3> DEFINE row == [sops[x] EXCEPT !.versions = Append(@, call[c].n)]
    <3>1. x \in Sop /\ sops[x] \in SopRow /\ sops' = [sops EXCEPT ![x] = row]
      BY <1>0, <2>2, <2>4 DEF Tables, Rows
    <3>2. /\ row \in SopRow /\ row.versions = Append(sops[x].versions, call[c].n)
          /\ row.name = sops[x].name /\ row.active = sops[x].active
      <4>1. row = [sops[x] EXCEPT !.versions = Append(sops[x].versions, call[c].n)]
        OBVIOUS
      <4>2. Append(sops[x].versions, call[c].n) \in Seq(Nat)
        BY <2>1, <3>1 DEF SopRow
      <4> QED  BY <3>1, <4>1, <4>2, VersionAdded
    <3>3. IsPrefix(sops[x].versions, row.versions)
      BY <2>1, <3>1, <3>2, PrefixOfAppended DEF SopRow
    <3>4. \A f \in {"name", "active"} : row[f] = sops[x][f]
      BY <3>2
    <3> HIDE DEF row
    <3> QED  BY <1>2, <2>1, <2>4, <3>1, <3>2, <3>3, <3>4 DEF AtGate
  <2> QED  BY <1>5, <2>3, <2>4 DEF InsertVersion
<1> QED  BY <1>3, <1>4, <1>5

\* The writes of an issue.
LEMMA IssuesWritten ==
    ASSUME DataInv, NEW c \in Caller, CreateIssue(c) \/ UpdateIssue(c)
    PROVE  /\ Known' /\ Gate' /\ Tables' /\ IssuesKept
           /\ UNCHANGED <<sops, actions, sales>>
<1>0. Tables /\ {"issues.create", "issues.update"} \subseteq Writes
  BY DEF DataInv, Writes
<1>1. ASSUME NEW x \in Issue, NEW row \in IssueRow, issues' = [issues EXCEPT ![x] = row],
             x \in Rows(issues) => Asked("issues.update", x, "status"),
             UNCHANGED <<sops, actions, sales>>, Done(c), call[c] # Idle,
             call[c].phase \notin AtGate
      PROVE  Known' /\ Gate' /\ Tables' /\ IssuesKept /\ UNCHANGED <<sops, actions, sales>>
  <2>1. issues' \in [Issue -> IssueRow \cup {None}] /\ Rows(issues) \subseteq Rows(issues)'
    BY <1>0, <1>1, Put, NoneIsNoRow DEF Tables
  <2>2. Known' /\ Gate'
    BY <1>1, <2>1, WrittenKnows DEF RowsStay
  <2>3. IssuesKept
    BY <1>0, <1>1 DEF IssuesKept, Tables, Rows
  <2> QED  BY <1>0, <1>1, <2>1, <2>2, <2>3 DEF Tables
<1>2. CASE CreateIssue(c)
  <2>1. Writing(c, "issues.create") /\ Done(c) /\ UNCHANGED <<sops, actions, sales>>
    BY <1>2 DEF CreateIssue
  <2>2. /\ call[c] # Idle /\ call[c].phase = "write"
        /\ call[c].input \in Inputs("issues.create")
    BY <1>0, <2>1, WriteKnows
  <2>3. [status |-> call[c].input.status] \in IssueRow
    <3>1. call[c].input \in [row : Sale, status : {"in_assistance", "completed"}]
      BY <2>2, InputsAre
    <3> QED  BY <3>1 DEF IssueRow
  <2>4. PICK x \in Unused(issues) :
           issues' = [issues EXCEPT ![x] = [status |-> call[c].input.status]]
    BY <1>2 DEF CreateIssue, InsertIssue
  <2>5. x \in Issue /\ x \notin Rows(issues)
    BY <1>0, <2>4 DEF Unused, Tables
  <2> QED  BY <1>1, <2>1, <2>2, <2>3, <2>4, <2>5 DEF AtGate
<1>3. CASE UpdateIssue(c)
  <2> DEFINE x == call[c].input.row
             p == call[c].input.patch
  <2>1. Writing(c, "issues.update") /\ Done(c) /\ UNCHANGED <<sops, actions, sales>>
    BY <1>3 DEF UpdateIssue
  <2>2. /\ call[c] # Idle /\ call[c].phase = "write"
        /\ call[c].input \in Inputs("issues.update") /\ Found(c, "issues.update")
    BY <1>0, <2>1, WriteKnows
  <2>3. p = [status |-> "completed"] /\ x \in Rows(issues)
    <3>1. call[c].input \in [row : Issue, patch : {[status |-> "completed"]}]
      BY <2>2, InputsAre
    <3> QED  BY <2>2, <3>1 DEF Found
  <2>4. x \in Issue /\ issues[x] \in IssueRow
        /\ issues' = [issues EXCEPT ![x] = Overlay(issues[x], p)]
    BY <1>0, <1>3, <2>3 DEF UpdateIssue, PatchIssue, Tables, Rows
  <2>5. Overlay(issues[x], p) = [status |-> "completed"]
    <3>1. DOMAIN issues[x] = {"status"}
      BY <2>4 DEF IssueRow
    <3>2. DOMAIN p = {"status"} /\ p["status"] = "completed"
      BY <2>3
    <3> QED  BY <3>1, <3>2 DEF Overlay
  <2>6. Overlay(issues[x], p) \in IssueRow
    BY <2>5 DEF IssueRow
  <2>7. Asked("issues.update", x, "status")
    <3>1. "status" \in DOMAIN p
      BY <2>3
    <3> QED  BY <2>1, <3>1 DEF Asked
  <2> QED  BY <1>1, <2>1, <2>2, <2>4, <2>6, <2>7 DEF AtGate
<1> QED  BY <1>2, <1>3

\* The fields of an action that is patched.
LEMMA Patched ==
    ASSUME NEW r \in ActionRow, NEW p \in ActionPatch, NEW by \in Person
    PROVE  LET row == [Overlay(r, p) EXCEPT !.by = by] IN
           /\ row \in ActionRow
           /\ \A f \in {"status", "owner"} : row[f] # r[f] => f \in DOMAIN p
<1> DEFINE row == [Overlay(r, p) EXCEPT !.by = by]
           set == [status |-> IF "status" \in DOMAIN p THEN p["status"] ELSE r.status,
                   owner |-> IF "owner" \in DOMAIN p THEN p["owner"] ELSE r.owner,
                   by |-> by, comments |-> r.comments]
<1>1. DOMAIN r = {"status", "owner", "by", "comments"}
  BY DEF ActionRow
<1>2. \/ DOMAIN p = {"status"} /\ p["status"] = "completed"
      \/ DOMAIN p = {"owner"} /\ p["owner"] \in Person
  <2>1. CASE p = [status |-> "completed"]
    BY <2>1
  <2>2. CASE \E q \in Person : p = [owner |-> q]
    BY <2>2
  <2> QED  BY <2>1, <2>2 DEF ActionPatch
<1>3. row = set
  <2>1. Overlay(r, p) = [status |-> set.status, owner |-> set.owner, by |-> r.by,
                         comments |-> r.comments]
    BY <1>1, <1>2 DEF Overlay
  <2> QED  BY <2>1
<1>4. set \in ActionRow
  BY <1>2 DEF ActionRow
<1>5. \A f \in {"status", "owner"} : set[f] # r[f] => f \in DOMAIN p
  OBVIOUS
<1> QED  BY <1>3, <1>4, <1>5

\* A comment is added to what an action has.
LEMMA CommentAdded ==
    ASSUME NEW r \in ActionRow, NEW comments \in Seq(Person)
    PROVE  /\ [r EXCEPT !.comments = comments] \in ActionRow
           /\ \A f \in {"status", "owner"} : [r EXCEPT !.comments = comments][f] = r[f]
<1>1. DOMAIN r = {"status", "owner", "by", "comments"}
  BY DEF ActionRow
<1>2. [r EXCEPT !.comments = comments]
         = [status |-> r.status, owner |-> r.owner, by |-> r.by, comments |-> comments]
  BY <1>1
<1> QED  BY <1>2 DEF ActionRow

\* The writes of an action.
LEMMA ActionsWritten ==
    ASSUME DataInv, NEW c \in Caller, CreateAction(c) \/ UpdateAction(c) \/ AddComment(c)
    PROVE  /\ Known' /\ Gate' /\ Tables' /\ ActionsKept
           /\ UNCHANGED <<sops, issues, sales>>
<1>0. Tables /\ {"actions.create", "actions.update", "actions.addComment"} \subseteq Writes
  BY DEF DataInv, Writes
<1>1. ASSUME NEW x \in Action, NEW row \in ActionRow, actions' = [actions EXCEPT ![x] = row],
             x \in Rows(actions) => \A f \in {"status", "owner"} : row[f] # actions[x][f] =>
                Asked("actions.update", x, f),
             UNCHANGED <<sops, issues, sales>>, Done(c), call[c] # Idle,
             call[c].phase \notin AtGate
      PROVE  Known' /\ Gate' /\ Tables' /\ ActionsKept /\ UNCHANGED <<sops, issues, sales>>
  <2>1. actions' \in [Action -> ActionRow \cup {None}] /\ Rows(actions) \subseteq Rows(actions)'
    BY <1>0, <1>1, Put, NoneIsNoRow DEF Tables
  <2>2. Known' /\ Gate'
    BY <1>1, <2>1, WrittenKnows DEF RowsStay
  <2>3. ActionsKept
    <3> SUFFICES ASSUME NEW y \in Rows(actions), NEW f \in {"status", "owner"},
                        actions'[y][f] # actions[y][f]
                 PROVE  Asked("actions.update", y, f)
      BY DEF ActionsKept
    <3>1. y = x /\ actions'[x] = row
      BY <1>0, <1>1 DEF Tables, Rows
    <3> QED  BY <1>1, <3>1
  <2> QED  BY <1>0, <1>1, <2>1, <2>2, <2>3 DEF Tables
<1>2. CASE CreateAction(c)
  <2> DEFINE row == [status |-> call[c].input.status, owner |-> call[c].input.owner,
                     by |-> Author(c), comments |-> <<>>]
  <2>1. Writing(c, "actions.create") /\ Done(c) /\ UNCHANGED <<sops, issues, sales>>
    BY <1>2 DEF CreateAction
  <2>2. /\ call[c] # Idle /\ call[c].phase = "write" /\ Author(c) \in Person
        /\ call[c].input \in Inputs("actions.create")
    BY <1>0, <2>1, WriteKnows
  <2>3. /\ call[c].input.status \in {"pending", "completed"} /\ call[c].input.owner \in Person
    <3>1. call[c].input \in [row : Issue, owner : Person, status : {"pending", "completed"}]
      BY <2>2, InputsAre
    <3> QED  BY <3>1
  <2>4. row \in ActionRow
    BY <2>2, <2>3 DEF ActionRow
  <2>5. PICK x \in Unused(actions) : actions' = [actions EXCEPT ![x] = row]
    BY <1>2 DEF CreateAction, InsertAction
  <2>6. x \in Action /\ x \notin Rows(actions)
    BY <1>0, <2>5 DEF Unused, Tables
  <2> QED  BY <1>1, <2>1, <2>2, <2>4, <2>5, <2>6 DEF AtGate
<1>3. CASE UpdateAction(c)
  <2> DEFINE x == call[c].input.row
             p == call[c].input.patch
             row == [Overlay(actions[x], p) EXCEPT !.by = Author(c)]
  <2>1. Writing(c, "actions.update") /\ Done(c) /\ UNCHANGED <<sops, issues, sales>>
    BY <1>3 DEF UpdateAction
  <2>2. /\ call[c] # Idle /\ call[c].phase = "write" /\ Author(c) \in Person
        /\ call[c].input \in Inputs("actions.update") /\ Found(c, "actions.update")
    BY <1>0, <2>1, WriteKnows
  <2>3. p \in ActionPatch /\ x \in Rows(actions)
    <3>1. call[c].input \in [row : Action, patch : ActionPatch]
      BY <2>2, InputsAre
    <3> QED  BY <2>2, <3>1 DEF Found
  <2>4. x \in Action /\ actions[x] \in ActionRow
    BY <1>0, <2>3 DEF Tables, Rows
  <2>5. actions' = [actions EXCEPT ![x] = row]
    BY <1>3 DEF UpdateAction, PatchAction
  <2>6. row \in ActionRow /\ \A f \in {"status", "owner"} : row[f] # actions[x][f] => f \in DOMAIN p
    BY <2>2, <2>3, <2>4, Patched
  <2>7. ASSUME NEW f \in {"status", "owner"}, row[f] # actions[x][f]
        PROVE  Asked("actions.update", x, f)
    BY <2>1, <2>6, <2>7 DEF Asked
  <2> HIDE DEF row
  <2> QED  BY <1>1, <2>1, <2>2, <2>4, <2>5, <2>6, <2>7 DEF AtGate
<1>4. CASE AddComment(c)
  <2> DEFINE x == call[c].input.row
             row == [actions[x] EXCEPT !.comments = Append(actions[x].comments, Author(c))]
  <2>1. Writing(c, "actions.addComment") /\ Done(c) /\ UNCHANGED <<sops, issues, sales>>
    BY <1>4 DEF AddComment
  <2>2. /\ call[c] # Idle /\ call[c].phase = "write" /\ Author(c) \in Person
        /\ Found(c, "actions.addComment")
    BY <1>0, <2>1, WriteKnows
  <2>3. x \in Action /\ actions[x] \in ActionRow
    BY <1>0, <2>2 DEF Found, Tables, Rows
  <2>4. actions' = [actions EXCEPT ![x] = row]
    BY <1>4 DEF AddComment, InsertComment
  <2>5. row \in ActionRow /\ \A f \in {"status", "owner"} : row[f] = actions[x][f]
    <3>1. Append(actions[x].comments, Author(c)) \in Seq(Person)
      BY <2>2, <2>3 DEF ActionRow
    <3> QED  BY <2>3, <3>1, CommentAdded
  <2> HIDE DEF row
  <2> QED  BY <1>1, <2>1, <2>2, <2>3, <2>4, <2>5 DEF AtGate
<1> QED  BY <1>2, <1>3, <1>4

-----------------------------------------------------------------------------
(* The money of a sale *)

\* The sum over one line item.
LEMMA SubtotalOfOne ==
    ASSUME NEW p, NEW price, NEW items, items = [x \in {p} |-> 1], price[p] \in Nat
    PROVE  Subtotal(items, price) = price[p]
<1> DEFINE Sum(g, s) == IF s = {} THEN 0
                        ELSE LET x == CHOOSE y \in s : TRUE
                             IN  price[x] * items[x] + g[s \ {x}]
           sum == CHOOSE g : g = [s \in SUBSET {p} |-> Sum(g, s)]
           known == [s \in SUBSET {p} |-> IF s = {} THEN 0 ELSE price[p]]
<1>1. DOMAIN items = {p} /\ items[p] = 1
  OBVIOUS
<1>2. Subtotal(items, price) = sum[{p}]
  BY <1>1 DEF Subtotal, FSE!MapThenSumSet, FSE!MapThenFoldSet
<1>3. \A s \in SUBSET {p} : Sum(known, s) = known[s]
  <2> TAKE s \in SUBSET {p}
  <2>1. CASE s = {}
    BY <2>1
  <2>2. CASE s = {p}
    <3>1. (CHOOSE y \in s : TRUE) = p
      BY <2>2
    <3>2. Sum(known, s) = price[p] * items[p] + known[{}]
      BY <2>2, <3>1
    <3> QED  BY <1>1, <2>2, <3>2
  <2> QED  BY <2>1, <2>2
<1>4. known = [s \in SUBSET {p} |-> Sum(known, s)]
  BY <1>3
<1> HIDE DEF known, Sum
<1>5. sum = [s \in SUBSET {p} |-> Sum(sum, s)]
  BY <1>4
<1> HIDE DEF sum
<1>6. sum[{}] = 0 /\ sum[{p}] = Sum(sum, {p})
  <2>1. {} \in SUBSET {p} /\ {p} \in SUBSET {p}
    OBVIOUS
  <2>2. sum[{}] = Sum(sum, {}) /\ sum[{p}] = Sum(sum, {p})
    BY <1>5, <2>1
  <2> QED  BY <2>2 DEF Sum
<1>7. Sum(sum, {p}) = price[p] * items[p] + sum[{}]
  <2>1. (CHOOSE y \in {p} : TRUE) = p /\ {p} \ {p} = {} /\ {p} # {}
    OBVIOUS
  <2> QED  BY <2>1 DEF Sum
<1> QED  BY <1>1, <1>2, <1>6, <1>7

LEMMA ConversionsAreInt ==
    ASSUME NEW d \in Int
    PROVE  Parsed(d) \in Int /\ Stored(d) \in Int
BY DEF Parsed, Stored, DivTruncated

\* A discount without a third decimal is used as it is recorded.
LEMMA TwoDecimals ==
    ASSUME NEW d \in Int, d % 10 = 0
    PROVE  Parsed(d) = Stored(d)
<1>1. PICK k \in Int : d = 10 * k
  BY Z3
<1>2. d < 0 => -((-d) \div 10) = k /\ -((-(d - 5)) \div 10) = k
  BY <1>1
<1>3. d >= 0 => d \div 10 = k /\ (d + 5) \div 10 = k
  BY <1>1
<1>4. /\ d >= 0 => ~(d + 5 < 0)
      /\ d < 0 => d - 5 < 0
  OBVIOUS
<1> QED  BY <1>2, <1>3, <1>4 DEF Parsed, Stored, DivTruncated

LEMMA Distributes ==
    ASSUME NEW s \in Nat, NEW a \in Nat, NEW b \in Nat
    PROVE  s * (a + b) = s * a + s * b /\ s * a \in Nat /\ s * b \in Nat
OBVIOUS

\* A part of the whole is at most the whole, whatever both are multiplied by.
LEMMA NoMoreThanAll ==
    ASSUME NEW s \in Nat, NEW w \in Nat, NEW m \in 0 .. w
    PROVE  s * m \in Nat /\ s * m <= s * w
<1>1. PICK j \in Nat : w = m + j
  OBVIOUS
<1>2. s * w = s * m + s * j /\ s * m \in Nat /\ s * j \in Nat
  BY <1>1, Distributes
<1>3. \A x, y, z \in Nat : x = y + z => y <= x
  OBVIOUS
<1>4. s * w \in Nat
  BY <1>1, <1>2
<1> QED  BY <1>2, <1>3, <1>4

\* Rounding ten-thousandths to the nearest whole one, up from the half.
LEMMA Rounded ==
    ASSUME NEW s \in Nat, NEW e \in Nat, e <= s * Whole,
           NEW t, t = (e + 5000) \div Whole
    PROVE  /\ t \in 0 .. s
           /\ -Whole < 2 * (t * Whole - e) /\ 2 * (t * Whole - e) <= Whole
           /\ -Whole <= 2 * (e - t * Whole) /\ 2 * (e - t * Whole) <= Whole
<1>1. t \in Int /\ 10000 * t <= e + 5000 /\ e + 5000 < 10000 * t + 10000
  BY DEF Whole
<1>2. t \in 0 .. s
  BY <1>1 DEF Whole
<1>3. -Whole < 2 * (t * Whole - e) /\ 2 * (t * Whole - e) <= Whole
  BY <1>1 DEF Whole
<1>4. -Whole <= 2 * (e - t * Whole) /\ 2 * (e - t * Whole) <= Whole
  BY <1>1 DEF Whole
<1> QED  BY <1>2, <1>3, <1>4

\* The total for a discount between nothing and all: the exact one, to the nearest cent.
LEMMA TotalIsRounded ==
    ASSUME NEW s \in Nat, NEW k \in 0 .. Whole
    PROVE  LET exact == s * (Whole - k)
               total == Discounted(s, k)
           IN  /\ total \in 0 .. s
               /\ -Whole < 2 * (total * Whole - exact) /\ 2 * (total * Whole - exact) <= Whole
               /\ total \in Shown(s, k)
<1>0. Whole = 10000 /\ Whole - k \in 0 .. Whole
  BY DEF Whole
<1> DEFINE exact == s * (Whole - k)
           total == Discounted(s, k)
<1>1. exact \in Nat /\ exact <= s * Whole
  <2>1. Whole \in Nat
    BY DEF Whole
  <2> QED  BY <1>0, <2>1, NoMoreThanAll
<1>2. total = DivTruncated(exact + Whole \div 2, Whole)
  BY DEF Discounted
<1> HIDE DEF exact, total
<1>3. total = (exact + 5000) \div Whole
  <2>1. Whole \div 2 = 5000
    BY <1>0
  <2>2. total = DivTruncated(exact + 5000, Whole)
    BY <1>2, <2>1
  <2>3. total = IF exact + 5000 < 0 THEN -((-(exact + 5000)) \div Whole) ELSE (exact + 5000) \div Whole
    BY <2>2 DEF DivTruncated
  <2>4. ~(exact + 5000 < 0)
    BY <1>1
  <2> QED  BY <2>3, <2>4
<1>4. /\ total \in 0 .. s
      /\ -Whole < 2 * (total * Whole - exact) /\ 2 * (total * Whole - exact) <= Whole
      /\ -Whole <= 2 * (exact - total * Whole) /\ 2 * (exact - total * Whole) <= Whole
  BY <1>1, <1>3, Rounded
<1>5. total \in Shown(s, k)
  <2>1. ~(k < 0) /\ ~(k > Whole)
    BY DEF Whole
  <2>2. Shown(s, k) = {t \in 0 .. s : /\ -Whole <= 2 * (exact - t * Whole)
                                 /\ 2 * (exact - t * Whole) <= Whole}
    BY <2>1 DEF Shown, exact
  <2> QED  BY <1>4, <2>2
<1> QED  BY <1>4, <1>5 DEF exact, total

TwoDecimalDiscounts == \A d \in Discounts : d % 10 = 0

\* A row of a sale is what ReceiptIsRight says of it.
RightReceipt(row) ==
    LET subtotal == Subtotal(row.items, Price)
        exact    == subtotal * (Whole - row.discount)
    IN  /\ 0 <= row.total /\ row.total <= subtotal
        /\ -Whole < 2 * (row.total * Whole - exact) /\ 2 * (row.total * Whole - exact) <= Whole
        /\ row.total \in Shown(subtotal, row.discount)

ReceiptsKept == TwoDecimalDiscounts /\ ReceiptIsRight => ReceiptIsRight'

LEMMA SalesWritten ==
    ASSUME DataInv, NEW c \in Caller, CreateSale(c)
    PROVE  /\ Known' /\ Gate' /\ Tables' /\ ReceiptsKept
           /\ UNCHANGED <<sops, issues, actions>>
<1> DEFINE in == call[c].input
           subtotal == Subtotal(in.items, Price)
           total == Discounted(subtotal, Parsed(in.discount))
           row == [items |-> in.items, discount |-> Stored(in.discount), total |-> total,
                   paid |-> in.payment.paid, dated |-> in.payment.dated]
<1>0. Tables /\ "sales.create" \in Writes /\ Writing(c, "sales.create")
  BY DEF DataInv, Writes, CreateSale
<1>1. call[c] # Idle /\ call[c].phase = "write" /\ in \in SaleInputs /\ DOMAIN in.items \subseteq Product
  <2>1. /\ call[c] # Idle /\ call[c].phase = "write" /\ in \in Inputs("sales.create")
        /\ Found(c, "sales.create")
    BY <1>0, WriteKnows
  <2> QED  BY <2>1, InputsAre DEF Found
<1>2. CASE Refused(c)
  <2>1. Known' /\ Gate' /\ UNCHANGED tables
    BY <1>1, <1>2, RefusedKnows
  <2> QED  BY <1>0, <2>1 DEF Tables, tables, ReceiptsKept, ReceiptIsRight
<1>3. CASE /\ Stored(in.discount) \in 0 .. Whole /\ total >= 0
           /\ InsertSale(row) /\ Done(c) /\ UNCHANGED <<sops, issues, actions>>
  <2>1. PICK x \in Unused(sales) : sales' = [sales EXCEPT ![x] = row]
    BY <1>3 DEF InsertSale
  <2>2. x \in Sale /\ x \notin Rows(sales)
    BY <1>0, <2>1 DEF Unused, Tables
  <2>3. PICK p : in.items = [y \in {p} |-> 1] /\ p \in Product
    <3>1. PICK p \in Product \cup {None} : in.items = [y \in {p} |-> 1]
      BY <1>1 DEF SaleInputs
    <3>2. p \in DOMAIN in.items
      BY <3>1
    <3> QED  BY <1>1, <3>1, <3>2
  <2>4. subtotal \in Nat
    <3>1. Price[p] \in Nat
      BY <2>3, GatewayAssumption
    <3> QED  BY <2>3, <3>1, SubtotalOfOne
  <2>5. /\ in.discount \in Int /\ in.discount \in Discounts
        /\ in.payment.paid \in BOOLEAN /\ in.payment.dated \in BOOLEAN
    <3>1. in.discount \in Discounts /\ in.payment \in Payments
      BY <1>1 DEF SaleInputs
    <3>2. in.payment \in [paid : BOOLEAN, dated : BOOLEAN] /\ in.discount \in Int
      BY <3>1, GatewayAssumption
    <3> QED  BY <3>1, <3>2
  <2>6. Parsed(in.discount) \in Int /\ Stored(in.discount) \in Int
    BY <2>5, ConversionsAreInt
  <2>7. total \in Int
    BY <2>4, <2>6 DEF Discounted, DivTruncated, Whole
  <2>8. in.items \in UNION {[S -> Nat] : S \in SUBSET Product}
    BY <2>3
  <2>9. row \in SaleRow
    BY <2>5, <2>6, <2>7, <2>8 DEF SaleRow
  <2>10. TwoDecimalDiscounts => RightReceipt(row)
    <3> SUFFICES ASSUME TwoDecimalDiscounts  PROVE RightReceipt(row)
      OBVIOUS
    <3>1. total = Discounted(subtotal, Stored(in.discount))
      BY <2>5, TwoDecimals DEF TwoDecimalDiscounts
    <3> HIDE DEF subtotal
    <3>2. LET exact == subtotal * (Whole - Stored(in.discount)) IN
             /\ total \in 0 .. subtotal
             /\ -Whole < 2 * (total * Whole - exact) /\ 2 * (total * Whole - exact) <= Whole
             /\ total \in Shown(subtotal, Stored(in.discount))
      BY <1>3, <2>4, <3>1, TotalIsRounded
    <3>3. 0 <= total /\ total <= subtotal
      BY <2>4, <3>2
    <3> HIDE DEF total
    <3>4. /\ row.total = total /\ row.discount = Stored(in.discount)
          /\ Subtotal(row.items, Price) = subtotal
      BY DEF subtotal
    <3> HIDE DEF row
    <3> QED  BY <3>2, <3>3, <3>4 DEF RightReceipt
  <2> HIDE DEF row
  <2>11. sales' \in [Sale -> SaleRow \cup {None}]
    BY <1>0, <2>1, <2>2, <2>9, Put, NoneIsNoRow DEF Tables
  <2>12. Known' /\ Gate'
    BY <1>1, <1>3, WrittenKnows DEF RowsStay, AtGate
  <2>13. ReceiptsKept
    <3>1. ReceiptIsRight <=> \A y \in Rows(sales) : RightReceipt(sales[y])
      BY DEF ReceiptIsRight, RightReceipt
    <3>2. ReceiptIsRight' <=> \A y \in Rows(sales') : RightReceipt(sales'[y])
      BY DEF ReceiptIsRight, RightReceipt
    <3>3. \A y \in Rows(sales') : IF y = x THEN sales'[y] = row
                                  ELSE y \in Rows(sales) /\ sales'[y] = sales[y]
      BY <1>0, <2>1, <2>2 DEF Tables, Rows
    <3> QED  BY <2>10, <3>1, <3>2, <3>3 DEF ReceiptsKept
  <2> QED  BY <1>0, <1>3, <2>11, <2>12, <2>13 DEF Tables
<1>4. total \in Int
  <2>1. PICK p : in.items = [y \in {p} |-> 1] /\ p \in Product
    <3>1. PICK p \in Product \cup {None} : in.items = [y \in {p} |-> 1]
      BY <1>1 DEF SaleInputs
    <3>2. p \in DOMAIN in.items
      BY <3>1
    <3> QED  BY <1>1, <3>1, <3>2
  <2>2. Price[p] \in Nat
    BY <2>1, GatewayAssumption
  <2>3. subtotal \in Nat
    BY <2>1, <2>2, SubtotalOfOne
  <2>4. Parsed(in.discount) \in Int
    BY <1>1, GatewayAssumption, ConversionsAreInt DEF SaleInputs
  <2> QED  BY <2>3, <2>4 DEF Discounted, DivTruncated, Whole
<1> HIDE DEF total, row
<1> QED  BY <1>2, <1>3, <1>4 DEF CreateSale, total, row

-----------------------------------------------------------------------------
(* Every step *)

\* A step that writes no table.
LEMMA OthersWriteNothing ==
    ASSUME Tables, UNCHANGED tables
    PROVE  Tables' /\ VersionsGrow /\ RestKept /\ ReceiptsKept
<1>1. Tables' /\ UNCHANGED <<sops, issues, actions, sales>>
  BY DEF Tables, tables
<1>2. VersionsGrow
  BY <1>1, PrefixOfAppended, NoneIsNoRow DEF VersionsGrow, Tables, SopRow, Rows
<1> QED  BY <1>1, <1>2 DEF RestKept, IssuesKept, ActionsKept, SopsKept, ReceiptsKept,
     ReceiptIsRight

DataStep == Known' /\ Gate' /\ Tables' /\ VersionsGrow /\ RestKept /\ ReceiptsKept

LEMMA ExecuteKnows ==
    ASSUME DataInv, NEW c \in Caller, Execute(c)
    PROVE  DataStep
<1>0. Shape /\ Known /\ Tables
  BY DEF DataInv, IInv
<1>1. ASSUME NEW caps, NEW byId, Read(c, caps, byId)
      PROVE  DataStep
  <2>1. call[c] # Idle /\ call[c].phase \notin AtGate /\ UNCHANGED tables
    BY <1>1 DEF Read, At, Refused, AtGate, tables
  <2>2. Known' /\ Gate'
    BY <1>1, <2>1, RefusedKnows, WrittenKnows DEF Read, RowsStay, tables
  <2> QED  BY <1>0, <2>1, <2>2, OthersWriteNothing DEF DataStep
<1>2. CASE ReadReport(c) \/ ReadCustomer(c) \/ ReadProduct(c) \/ ReadSale(c)
             \/ ReadIssue(c) \/ ReadAction(c) \/ ReadSop(c)
  BY <1>1, <1>2 DEF ReadReport, ReadCustomer, ReadProduct, ReadSale, ReadIssue, ReadAction,
     ReadSop
<1>3. CASE LookupSale(c) \/ LookupIssue(c) \/ LookupAction(c) \/ LookupSop(c)
  BY <1>0, <1>3, LookupKnows, OthersWriteNothing DEF DataStep
<1>4. /\ UNCHANGED issues => IssuesKept
      /\ UNCHANGED actions => ActionsKept
      /\ UNCHANGED sales => ReceiptsKept
  BY DEF IssuesKept, ActionsKept, ReceiptsKept, ReceiptIsRight
<1>5. ASSUME UNCHANGED sops
      PROVE  VersionsGrow /\ SopsKept
  BY <1>0, <1>5, PrefixOfAppended, NoneIsNoRow DEF VersionsGrow, SopsKept, Tables, SopRow, Rows
<1>6. CASE CreateSop(c) \/ UpdateSop(c) \/ InsertVersion(c)
  BY <1>4, <1>6, SopsWritten DEF DataStep, RestKept
<1>7. CASE CreateIssue(c) \/ UpdateIssue(c)
  BY <1>4, <1>5, <1>7, IssuesWritten DEF DataStep, RestKept
<1>8. CASE CreateAction(c) \/ UpdateAction(c) \/ AddComment(c)
  BY <1>4, <1>5, <1>8, ActionsWritten DEF DataStep, RestKept
<1>9. CASE CreateSale(c)
  BY <1>4, <1>5, <1>9, SalesWritten DEF DataStep, RestKept
<1>10. ASSUME NEW phase \in {"wait", "insert"}, Moved(c, {phase}), UNCHANGED <<policy, tables, results>>,
              call[c] # Idle, call[c].phase \in {"write", "wait"}, "sops.addVersion" \in call[c].ops
       PROVE  DataStep
  <2>1. RowsStay
    BY <1>10 DEF RowsStay, tables
  <2>2. \A o \in call[c].ops \cap Writes : Found(c, o)
    BY <1>0, <1>10 DEF Known, Knows
  <2>3. Known'
    BY <1>0, <1>10, <2>1, <2>2, MovedKnows DEF AtGate
  <2>4. Gate'
    BY <1>10 DEF DataInv, Gate, policy, results
  <2> QED  BY <1>0, <1>10, <2>3, <2>4, OthersWriteNothing DEF DataStep
<1>11. CASE ReadVersions(c)
  <2> DEFINE m == Len(sops[call[c].input.row].versions)
             y == [call[c] EXCEPT !.phase = "wait", !.seen = m]
  <2>1. /\ call' = [call EXCEPT ![c] = y]
        /\ call[c] # Idle /\ call[c].phase = "write" /\ UNCHANGED <<policy, tables, results>>
        /\ "sops.addVersion" \in call[c].ops
    BY <1>11 DEF ReadVersions, Writing, At, Asks
  <2>2. y.phase = "wait" /\ Same(call[c], y)
    BY <1>0, <2>1 DEF Shape, Field, Same
  <2>3. Moved(c, {"wait"})
    BY <2>1, <2>2 DEF Moved
  <2> QED  BY <1>10, <2>1, <2>3
<1>12. CASE LockVersions(c)
  <2>1. /\ call[c] # Idle /\ call[c].phase = "wait" /\ UNCHANGED <<policy, tables, results>>
        /\ GoTo(c, "insert")
    BY <1>12 DEF LockVersions, At
  <2>2. Moved(c, {"insert"}) /\ "sops.addVersion" \in call[c].ops
    BY <1>0, <2>1, GoToMoves DEF Known, Knows
  <2> QED  BY <1>10, <2>1, <2>2
<1> QED  BY <1>2, <1>3, <1>6, <1>7, <1>8, <1>9, <1>11, <1>12 DEF Execute

LEMMA DataSteps == DataInv /\ [Next]_vars => DataStep
<1> SUFFICES ASSUME DataInv, [Next]_vars  PROVE DataStep
  OBVIOUS
<1>0. Shape /\ Known /\ Tables /\ Gate
  BY DEF DataInv, IInv
<1>1. ASSUME Known', Gate', UNCHANGED tables
      PROVE  DataStep
  BY <1>0, <1>1, OthersWriteNothing DEF DataStep
<1>2. ASSUME NEW c \in Caller, Execute(c)  PROVE DataStep
  BY <1>2, ExecuteKnows
<1>3. ASSUME NEW c \in Caller, Gateway(c)  PROVE DataStep
  BY <1>1, <1>3, GateKnows
<1>4. ASSUME NEW c \in Caller, Fail(c)  PROVE DataStep
  <2>1. Known' /\ UNCHANGED tables
    BY <1>0, <1>4, EndedKnows DEF Fail, RowsStay, tables
  <2> QED  BY <1>0, <1>1, <1>4, <2>1 DEF Fail, Gate, policy
<1>5. ASSUME NEW c \in Caller, NEW r \in Run, NEW cap \in Offered, WorkerCalls(c, r, cap)
      PROVE  DataStep
  <2>1. PICK input \in InputsOf(cap) \cup {None} :
           Request(c, r, cap, OperationsOf(cap), input, "verify")
    BY <1>5 DEF WorkerCalls
  <2>2. cap \in Capability
    BY GatewayAssumption
  <2>3. ASSUME NEW o \in OperationsOf(cap) \cap Writes
        PROVE  OperationsOf(cap) = {o} /\ (input \in Inputs(o) \/ ("verify" = "verify" /\ input = None))
    <3>1. OperationsOf(cap) = {o}
      BY <2>2, WritesAlone
    <3>2. CASE input = None
      BY <3>1, <3>2
    <3>3. CASE input \in InputsOf(cap)
      <4>1. \E q \in OperationsOf(cap) : input \in Inputs(q)
        BY <3>3 DEF InputsOf
      <4> QED  BY <3>1, <4>1
    <3> QED  BY <2>1, <3>2, <3>3
  <2>4. r \in Run \cup Person /\ "verify" \in {"verify", "look"}
    OBVIOUS
  <2>5. Known' /\ Gate' /\ UNCHANGED tables
    BY <2>1, <2>3, <2>4, RequestKnows
  <2> QED  BY <1>1, <2>5
<1>6. ASSUME NEW c \in Caller, NEW p \in Person, NEW o, PersonAsks(c, p, o)  PROVE DataStep
  <2>1. PICK input \in Inputs(o) : Request(c, p, None, {o}, input, "look")
    BY <1>6 DEF PersonAsks
  <2> QED  BY <1>1, <2>1, RequestKnows
<1>7. ASSUME NEW c \in Caller, NEW p \in Person,
             SaleRequest(c, p) \/ IssueRequest(c, p) \/ ActionRequest(c, p) \/ SopRequest(c, p)
      PROVE  DataStep
  BY <1>6, <1>7 DEF SaleRequest, IssueRequest, ActionRequest, SopRequest
<1>8. ASSUME UNCHANGED <<tables, call>>  PROVE Known' /\ UNCHANGED tables
  <2>1. ASSUME NEW c, NEW o, Found(c, o)  PROVE Found(c, o)'
    BY <1>8, <2>1 DEF Found, tables
  <2> QED  BY <1>0, <1>8, <2>1 DEF Known, Knows
<1>9. ASSUME NEW r \in Run, Expire(r)  PROVE DataStep
  <2>1. snapshot' = [snapshot EXCEPT ![r].expired = TRUE] /\ UNCHANGED <<enabled, tables, call, audit>>
    BY <1>9 DEF Expire
  <2>2. [snapshot[r] EXCEPT !.expired = TRUE]
           \in [owner : Person, intact : BOOLEAN, expired : BOOLEAN, permissions : SUBSET Permission]
    BY <1>0 DEF Gate
  <2>3. Gate'
    BY <1>0, <2>1, <2>2 DEF Gate
  <2> QED  BY <1>1, <1>8, <2>1, <2>3
<1>10. ASSUME NEW cap, Disable(cap)  PROVE DataStep
  <2>1. Gate' /\ UNCHANGED <<tables, call>>
    BY <1>0, <1>10 DEF Disable, Gate
  <2> QED  BY <1>1, <1>8, <2>1
<1>11. CASE UNCHANGED vars
  <2>1. Gate' /\ UNCHANGED <<tables, call>>
    BY <1>0, <1>11 DEF vars, Gate, policy, results
  <2> QED  BY <1>1, <1>8, <2>1
<1> QED  BY <1>2, <1>3, <1>4, <1>5, <1>7, <1>9, <1>10, <1>11 DEF Next

LEMMA InitData == Init => Known /\ Tables /\ Gate
<1> SUFFICES ASSUME Init  PROVE Known /\ Tables /\ Gate
  OBVIOUS
<1>1. Known
  BY DEF Init, Known
<1>2. Gate
  <2>1. ASSUME NEW r \in Role  PROVE PermissionsForRoles({r}) \subseteq Permission
    BY DEF PermissionsForRoles, RolePermissions, Role, Permission, RunLifecycle
  <2>2. ASSUME NEW p \in Person, NEW i \in BOOLEAN
        PROVE  Snapshot(p, i) \in [owner : Person, intact : BOOLEAN, expired : BOOLEAN,
                                   permissions : SUBSET Permission]
    <3>1. RoleOf[p] \in Role
      BY GatewayAssumption
    <3> QED  BY <2>1, <3>1 DEF Snapshot
  <2> QED  BY <2>2 DEF Init, Gate
<1>3. Tables
  <2>1. ASSUME NEW x \in Sop
        PROVE  [name |-> SeedName[x], active |-> TRUE, versions |-> <<0>>] \in SopRow
    <3>1. SeedName[x] \in Name
      BY GatewayAssumption
    <3> QED  BY <3>1 DEF SopRow
  <2>2. [status |-> "in_assistance"] \in IssueRow
    BY DEF IssueRow
  <2>3. [status |-> "pending", owner |-> SeedOwner, by |-> SeedOwner, comments |-> <<>>] \in ActionRow
    BY GatewayAssumption DEF ActionRow
  <2> QED  BY <2>1, <2>2, <2>3 DEF Init, Tables
<1> QED  BY <1>1, <1>2, <1>3

\* The rows, the requests and what they found stay consistent.
THEOREM DataInvariance == Spec => []DataInv
<1>1. Init => DataInv
  BY InitIInv, InitData DEF DataInv
<1>2. DataInv /\ [Next]_vars => DataInv'
  BY StepKeeps, DataSteps DEF DataInv, DataStep
<1> QED  BY <1>1, <1>2, PTL DEF Spec

\* Every variable keeps its type.
THEOREM TypeCorrect == Spec => []TypeOK
<1>1. DataInv => TypeOK
  BY DEF DataInv, Tables, Gate, TypeOK
<1> QED  BY <1>1, DataInvariance, PTL

\* However requests to add, change or create SOPs overlap, no version is lost,
\* replaced or renumbered.
THEOREM VersionsStay == Spec => VersionsAppendOnly
<1>1. DataInv /\ [Next]_vars => [VersionsGrow]_sops
  BY DataSteps DEF DataStep
<1>2. [VersionsGrow]_sops => [\A x \in Rows(sops) :
         x \in Rows(sops)' /\ IsPrefix(sops[x].versions, sops'[x].versions)]_sops
  BY DEF VersionsGrow
<1> QED  BY <1>1, <1>2, DataInvariance, PTL DEF Spec, VersionsAppendOnly

\* A field of an issue, of an action or of a SOP changes only by an update that
\* names the row and the field.
THEOREM UpdatesAreNarrow == Spec => UpdatesKeepTheRest
<1>1. DataInv /\ [Next]_vars => [RestKept]_<<issues, actions, sops>>
  BY DataSteps DEF DataStep
<1> QED  BY <1>1, DataInvariance, PTL DEF Spec, UpdatesKeepTheRest, RestKept, IssuesKept,
        ActionsKept, SopsKept

\* For all prices, and all discounts of two decimals, in range or not: what is
\* recorded is the exact total to the nearest cent, and one the form may have shown.
THEOREM ReceiptsAreRight == ASSUME TwoDecimalDiscounts PROVE Spec => []ReceiptIsRight
<1>1. Init => ReceiptIsRight
  BY DEF Init, ReceiptIsRight, Rows
<1>2. DataInv /\ ReceiptIsRight /\ [Next]_vars => ReceiptIsRight'
  BY DataSteps DEF DataStep, ReceiptsKept
<1> QED  BY <1>1, <1>2, DataInvariance, PTL DEF Spec

-----------------------------------------------------------------------------
(* The shipped policy, for every set of permissions, every set of roles,     *)
(* every token and every binding of a route.                                 *)

\* What a token of no user gets, and one of a user with the permission.
LEMMA RespondCases ==
    ASSUME NEW o, NEW token, NEW bound
    PROVE  /\ token.kind # "user" /\ o \notin DOMAIN HealthRoutes =>
                 Respond(o, token, bound) = 401
           /\ token.kind = "user" /\ bound.kind = "permission" /\ bound.perm \in token.perms =>
                 Respond(o, token, bound) = 200
BY DEF Respond, Authenticates, Authorizes

\* A route that is bound to anything, public included, answers nobody without a
\* token of a user: its code authenticates before it looks at the binding.
THEOREM NobodyIsAdmitted ==
    ASSUME NEW o \in DOMAIN Declared \ DOMAIN HealthRoutes, NEW bound, NEW token,
           token.kind # "user"
    PROVE  Respond(o, token, bound) = 401
BY RespondCases

\* The same, as the instances of the model check it.
THEOREM BindingAdmitsNobody == BindingNeverAdmitsNobody
BY NobodyIsAdmitted DEF BindingNeverAdmitsNobody, NoToken

\* The policy that the administration declares.
LEMMA AdminIsGated ==
    ASSUME NEW o \in AdminRoutes
    PROVE  Declared[o].kind = "permission" /\ Declared[o].perm \in Critical
<1>1. CASE o \in DOMAIN AdminUserRoutes
  <2>1. Declared[o] = AdminUserRoutes[o]
    BY <1>1 DEF Declared, AdminRoutes, AdminUserRoutes, AdminPolicyRoutes, UserReads,
       PolicyReads, PolicyWrites, Operation, CustomerRoutes, ProductRoutes, SaleRoutes,
       IssueRoutes, ActionRoutes, SopRoutes, HealthRoutes, MeRoutes, RegistryRoutes,
       ConversationRoutes, AgentRunRoutes, AdminAgentRoutes, AdminAgentReads
  <2> QED  BY <1>1, <2>1 DEF AdminUserRoutes, Gated, Critical
<1>2. CASE o \in DOMAIN AdminPolicyRoutes
  <2>1. Declared[o] = AdminPolicyRoutes[o]
    BY <1>2 DEF Declared, AdminRoutes, AdminUserRoutes, AdminPolicyRoutes, UserReads,
       PolicyReads, PolicyWrites, Operation, CustomerRoutes, ProductRoutes, SaleRoutes,
       IssueRoutes, ActionRoutes, SopRoutes, HealthRoutes, MeRoutes, RegistryRoutes,
       ConversationRoutes, AgentRunRoutes, AdminAgentRoutes, AdminAgentReads
  <2> QED  BY <1>2, <2>1 DEF AdminPolicyRoutes, Gated, Critical
<1> QED  BY <1>1, <1>2 DEF AdminRoutes

\* Who holds the four critical permissions may use the whole administration of users
\* and policy, which is why the service refuses to leave one of them to no role.
THEOREM CriticalIsEnough == CriticalSuffices
<1> SUFFICES ASSUME NEW o \in AdminRoutes, NEW perms \in SUBSET Permission,
                    Critical \subseteq perms
             PROVE  Respond(o, [kind |-> "user", perms |-> perms], Declared[o]) = 200
  BY DEF CriticalSuffices
<1>1. Declared[o].kind = "permission" /\ Declared[o].perm \in perms
  BY AdminIsGated
<1> QED  BY <1>1, RespondCases

\* A capability never does what the routes would refuse its holder.
THEOREM WithinRoutes ==
    ASSUME NEW c \in Capability, NEW permissions
    PROVE  CapabilityIsWithinRoutes(c, permissions)
BY OperationsAreRequired DEF CapabilityIsWithinRoutes, Satisfies

\* Asking role by role and asking of the union of the grants decide alike.
THEOREM RolesDecideAlike ==
    ASSUME NEW roles \in SUBSET Role, NEW c \in Capability
    PROVE  RolesAgree(roles, c)
BY RequiresSomething DEF RolesAgree, RolesGrantCapability, CapabilitiesFor, Satisfies,
   PermissionsForRoles

=============================================================================
