---------------------------- MODULE ToolGateway ----------------------------
(***************************************************************************)
(* The API's business services and their two callers: a person through a   *)
(* REST route, and a worker through the tool gateway, which acts for the   *)
(* owner of a run with the permissions of the run's entitlement snapshot   *)
(* (tool-gateway.service.ts, capability-executor.ts).                      *)
(*                                                                         *)
(* A request is a row of steps, one per awaited query, and requests        *)
(* interleave.  Rows are never deleted, so reading a row back after a      *)
(* write is left out.  What a list or a report returns is not modelled.    *)
(***************************************************************************)
EXTENDS AccessCatalog, Receipt, FiniteSets, Sequences, SequencesExt

CONSTANTS
    Run, Person,
    Caller,                 \* requests in progress at a time
    Sop, Name, Issue, Action, Sale, Product,
    Seeded,                 \* rows that are there at the start
    SeedName,               \* [Sop -> Name] of the seeded ones
    SeedOwner,              \* who made and owns the seeded action
    Price,                  \* [Product -> cents]
    RoleOf,                 \* [Person -> Role] at submission and sign-in
    Discounts, Payments,    \* bounds: thousandths of a percent, [paid, dated]
    Offered,                \* bound: capabilities that are called
    MaxRequests,            \* bound: requests
    MaxEvents,              \* bound: expiries, disabled capabilities, failures
    Idle, None

ASSUME GatewayAssumption ==
    /\ SeedName \in [Sop -> Name] /\ SeedOwner \in Person
    /\ Price \in [Product -> Nat]
    /\ RoleOf \in [Person -> Role]
    /\ Run \cap Person = {}
    /\ Offered \subseteq Capability
    /\ Discounts \subseteq Int /\ Payments \subseteq [paid : BOOLEAN, dated : BOOLEAN]
    /\ {MaxRequests, MaxEvents} \subseteq Nat

VARIABLES
    snapshot,   \* [Run -> [owner, permissions, intact, expired]]
    enabled,    \* capabilities that the active registry has enabled
    sops,       \* [Sop -> [name, active, versions] or None]
    issues,     \* [Issue -> [status] or None]
    actions,    \* [Action -> [status, owner, by, comments] or None]
    sales,      \* [Sale -> [items, discount, total, paid, dated] or None]
    call,       \* [Caller -> request or Idle]
    started,    \* requests begun
    effects,    \* what was done, for whom, and by which request
    audit,      \* decisions in audit_events, by request
    answered,   \* requests that were answered with success
    events

policy  == <<snapshot, enabled>>
tables  == <<sops, issues, actions, sales>>
results == <<started, effects, audit, answered, events>>
vars    == <<policy, tables, call, results>>

Overlay(row, patch) ==
    [f \in DOMAIN row |-> IF f \in DOMAIN patch THEN patch[f] ELSE row[f]]

Rows(table)   == {x \in DOMAIN table : table[x] # None}
Unused(table) == DOMAIN table \ Rows(table)

SopRow    == [name : Name, active : BOOLEAN, versions : Seq(Nat)]
IssueRow  == [status : {"in_assistance", "completed"}]
ActionRow == [status : {"pending", "completed"}, owner : Person, by : Person,
              comments : Seq(Person)]
SaleRow   == [items : UNION {[S -> Nat] : S \in SUBSET Product}, discount : Int,
              total : Int, paid : BOOLEAN, dated : BOOLEAN]

ASSUME NoneIsNoRow == None \notin SopRow \cup IssueRow \cup ActionRow \cup SaleRow

\* buildEntitlementSnapshot, and whether the row still has the hash it was stored with.
Snapshot(p, intact) ==
    [owner |-> p, permissions |-> PermissionsForRoles({RoleOf[p]}), intact |-> intact,
     expired |-> FALSE]

Init ==
    /\ snapshot \in [Run -> {Snapshot(p, i) : p \in Person, i \in BOOLEAN}]
    /\ enabled = Capability
    /\ sops = [x \in Sop |-> IF x \in Seeded
                  THEN [name |-> SeedName[x], active |-> TRUE, versions |-> <<0>>] ELSE None]
    /\ issues = [x \in Issue |-> IF x \in Seeded THEN [status |-> "in_assistance"] ELSE None]
    /\ actions = [x \in Action |-> IF x \in Seeded
                     THEN [status |-> "pending", owner |-> SeedOwner, by |-> SeedOwner,
                           comments |-> <<>>] ELSE None]
    /\ sales = [x \in Sale |-> None]
    /\ call = [c \in Caller |-> Idle]
    /\ started = 0
    /\ effects = {} /\ audit = {} /\ answered = {}
    /\ events = MaxEvents

-----------------------------------------------------------------------------
(* Requests.  An input that a schema refuses is None.                       *)

Writes == {"sales.create", "issues.create", "issues.update", "actions.create",
            "actions.update", "actions.addComment", "sops.create", "sops.update",
            "sops.addVersion"}

ActionPatch == {[status |-> "completed"]} \cup {[owner |-> p] : p \in Person}
SopPatch    == {[active |-> FALSE]} \cup {[name |-> n] : n \in Name}

SaleInputs == [items : {[x \in {p} |-> 1] : p \in Product \cup {None}},
               discount : Discounts, payment : Payments]

IssueInputs(o) ==
    IF o = "issues.create" THEN [row : Sale, status : {"in_assistance", "completed"}]
    ELSE [row : Issue, patch : {[status |-> "completed"]}]

ActionInputs(o) ==
    CASE o = "actions.create"     -> [row : Issue, owner : Person,
                                      status : {"pending", "completed"}]
      [] o = "actions.update"     -> [row : Action, patch : ActionPatch]
      [] o = "actions.addComment" -> [row : Action]

SopInputs(o) ==
    CASE o = "sops.create"     -> [name : Name]
      [] o = "sops.update"     -> [row : Sop, patch : SopPatch]
      [] o = "sops.addVersion" -> [row : Sop]

Inputs(o) ==
    CASE o = "sales.create" -> SaleInputs
      [] o \in Writes \cap DOMAIN IssueRoutes  -> IssueInputs(o)
      [] o \in Writes \cap DOMAIN ActionRoutes -> ActionInputs(o)
      [] o \in Writes \cap DOMAIN SopRoutes    -> SopInputs(o)
      [] OTHER -> [known : BOOLEAN]

\* The route's schema is stricter for a sale: two decimals, at most 100 percent,
\* and a date of payment.
RouteAccepts(o, input) ==
    o = "sales.create" => /\ input.discount \in 0 .. 10 * Whole /\ input.discount % 10 = 0
                          /\ input.payment.paid => input.payment.dated

Request(c, who, cap, ops, input, phase) ==
    /\ call[c] = Idle
    /\ started < MaxRequests
    /\ started' = started + 1
    /\ call' = [call EXCEPT ![c] = [who |-> who, cap |-> cap, ops |-> ops, input |-> input,
                                    phase |-> phase, n |-> started, seen |-> 0]]
    /\ UNCHANGED <<policy, tables, effects, audit, answered, events>>

\* What the executor sets itself.
FixedBy(cap, input) ==
    /\ cap = "issues.create" => input.status = "in_assistance"
    /\ cap = "actions.create" => input.status = "pending"
    /\ cap = "actions.markCompleted" => input.patch = [status |-> "completed"]

\* The inputs the operations of a capability take.
InputsOf(cap) == UNION {Inputs(o) : o \in OperationsOf(cap)}

\* A worker calls a capability for a run, with an input that its schema may refuse.
WorkerCalls(c, r, cap) ==
    \E input \in InputsOf(cap) \cup {None} :
       /\ input # None => FixedBy(cap, input)
       /\ Request(c, r, cap, OperationsOf(cap), input, "verify")

\* A person's write: authenticated, authorized for the route, validated.
PersonAsks(c, p, o) ==
    /\ RoutePermission(o) \in RolePermissions[RoleOf[p]]
    /\ \E input \in Inputs(o) :
          RouteAccepts(o, input) /\ Request(c, p, None, {o}, input, "look")

SaleRequest(c, p)   == PersonAsks(c, p, "sales.create")
IssueRequest(c, p)  == \E o \in Writes \cap DOMAIN IssueRoutes : PersonAsks(c, p, o)
ActionRequest(c, p) == \E o \in Writes \cap DOMAIN ActionRoutes : PersonAsks(c, p, o)
SopRequest(c, p)    == \E o \in Writes \cap DOMAIN SopRoutes : PersonAsks(c, p, o)

At(c, phase) == call[c] # Idle /\ call[c].phase = phase
Asks(c, o)   == call[c] # Idle /\ o \in call[c].ops
ByRun(c)     == call[c].who \in Run
Author(c)    == IF ByRun(c) THEN snapshot[call[c].who].owner ELSE call[c].who

GoTo(c, phase) == call' = [call EXCEPT ![c].phase = phase]
End(c)         == call' = [call EXCEPT ![c] = Idle]

-----------------------------------------------------------------------------
(* The gateway: executeCapability before the executor *)

\* Mutant of Allowed: the worker has gated the call already.
Allowed_Trusting(c) == call[c].cap \in enabled

Allowed(c) ==
    /\ call[c].cap \in enabled
    /\ Satisfies(RequiredPermissions(call[c].cap), snapshot[call[c].who].permissions)

\* Mutant of Verify: a call that passes is audited before it is executed.
Verify_AuditsFirst(c) ==
    LET s == snapshot[call[c].who] IN
    /\ At(c, "verify")
    /\ s.intact /\ ~s.expired /\ Allowed(c) /\ call[c].input # None
    /\ audit' = audit \cup {[n |-> call[c].n, decision |-> "allow"]}
    /\ GoTo(c, "look")
    /\ UNCHANGED <<policy, tables, started, effects, answered, events>>

\* loadVerified and the registry: a changed snapshot, then an expired one, then a
\* capability that it does not satisfy, then an input that its schema refuses.
Verify(c) ==
    LET s == snapshot[call[c].who] IN
    /\ At(c, "verify")
    /\ \/ /\ ~s.intact \/ (~s.expired /\ ~Allowed(c))
          /\ GoTo(c, "deny")
       \/ /\ s.intact
          /\ s.expired \/ (Allowed(c) /\ call[c].input = None)
          /\ End(c)
       \/ /\ s.intact /\ ~s.expired /\ Allowed(c) /\ call[c].input # None
          /\ GoTo(c, "look")
    /\ UNCHANGED <<policy, tables, results>>

\* The refusal is audited before it is answered.
Deny(c) ==
    /\ At(c, "deny")
    /\ audit' = audit \cup {[n |-> call[c].n, decision |-> "deny"]}
    /\ End(c)
    /\ UNCHANGED <<policy, tables, started, effects, answered, events>>

\* An operation is done; a worker's is audited next, a person's is answered.
Done(c) ==
    /\ effects' = effects \cup {[who |-> call[c].who, ops |-> call[c].ops, n |-> call[c].n]}
    /\ IF ByRun(c) THEN GoTo(c, "audit") /\ UNCHANGED answered
       ELSE End(c) /\ answered' = answered \cup {call[c].n}
    /\ UNCHANGED <<policy, started, audit, events>>

Refused(c) == End(c) /\ UNCHANGED <<policy, tables, results>>

Audit(c) ==
    /\ At(c, "audit")
    /\ audit' = audit \cup {[n |-> call[c].n, decision |-> "allow"]}
    /\ answered' = answered \cup {call[c].n}
    /\ End(c)
    /\ UNCHANGED <<policy, tables, started, effects, events>>

-----------------------------------------------------------------------------
(* Reads.  A record that is asked for by id may be unknown.                 *)

Read(c, caps, byId) ==
    /\ At(c, "look")
    /\ call[c].cap \in caps
    /\ IF call[c].cap \in byId /\ ~call[c].input.known THEN Refused(c)
       ELSE Done(c) /\ UNCHANGED tables

ReadReport(c)   == Read(c, SaleReports, SaleReports)
ReadCustomer(c) == Read(c, CustomerReads, {"customers.get"})
ReadProduct(c)  == Read(c, ProductReads, {"products.get"})
ReadSale(c)     == Read(c, SaleReads, {"sales.get"})
ReadIssue(c)    == Read(c, IssueReads \cup {"issues.list.pendingForCustomer"}, {"issues.get"})
ReadAction(c)   == Read(c, ActionReads, {"actions.get"})
ReadSop(c)      == Read(c, {"sop.read"}, {"sop.read"})

-----------------------------------------------------------------------------
(* Writes: what a service looks up first *)

NameTaken(name, x) == \E y \in Rows(sops) \ {x} : sops[y].name = name

Lookup(c, o, found) ==
    /\ At(c, "look") /\ Asks(c, o) /\ o \in Writes
    /\ IF found THEN GoTo(c, "write") ELSE End(c)
    /\ UNCHANGED <<policy, tables, results>>

LookupSale(c)  == Lookup(c, "sales.create", DOMAIN call[c].input.items \subseteq Product)
LookupIssue(c) == \/ Lookup(c, "issues.create", call[c].input.row \in Rows(sales))
                  \/ Lookup(c, "issues.update", call[c].input.row \in Rows(issues))
LookupAction(c) ==
    \/ Lookup(c, "actions.create", call[c].input.row \in Rows(issues))
    \/ \E o \in {"actions.update", "actions.addComment"} :
          Lookup(c, o, call[c].input.row \in Rows(actions))
LookupSop(c) ==
    \/ Lookup(c, "sops.create", ~NameTaken(call[c].input.name, None))
    \/ Lookup(c, "sops.addVersion", call[c].input.row \in Rows(sops))
    \/ LET x == call[c].input.row IN
       Lookup(c, "sops.update", /\ x \in Rows(sops)
                                /\ "name" \in DOMAIN call[c].input.patch
                                      => ~NameTaken(call[c].input.patch.name, x))

-----------------------------------------------------------------------------
(* Writes: the statement, with the constraints of its table *)

Writing(c, o) == At(c, "write") /\ Asks(c, o)

InsertSale(row)  == \E x \in Unused(sales) : sales' = [sales EXCEPT ![x] = row]
InsertIssue(s)   == \E x \in Unused(issues) : issues' = [issues EXCEPT ![x] = [status |-> s]]
PatchIssue(x, p) == issues' = [issues EXCEPT ![x] = Overlay(@, p)]

InsertAction(in, by) ==
    \E x \in Unused(actions) :
       actions' = [actions EXCEPT ![x] = [status |-> in.status, owner |-> in.owner,
                                          by |-> by, comments |-> <<>>]]

PatchAction(x, p, by) == actions' = [actions EXCEPT ![x] = [Overlay(@, p) EXCEPT !.by = by]]

InsertComment(x, by) == actions' = [actions EXCEPT ![x].comments = Append(@, by)]

InsertSop(name, text) ==
    \E x \in Unused(sops) :
       sops' = [sops EXCEPT ![x] = [name |-> name, active |-> TRUE, versions |-> <<text>>]]

\* Mutant of PatchSop: the row is saved without the versions it was not loaded with.
PatchSop_Whole(x, p) == sops' = [sops EXCEPT ![x] = Overlay([@ EXCEPT !.versions = <<>>], p)]

PatchSop(x, p) == sops' = [sops EXCEPT ![x] = Overlay(@, p)]

\* The receipt total is computed from the prices; the row has its checks.
CreateSale(c) ==
    LET in    == call[c].input
        total == Discounted(Subtotal(in.items, Price), Parsed(in.discount))
    IN
    /\ Writing(c, "sales.create")
    /\ IF Stored(in.discount) \notin 0 .. Whole \/ total < 0 THEN Refused(c)
       ELSE /\ InsertSale([items |-> in.items, discount |-> Stored(in.discount),
                           total |-> total, paid |-> in.payment.paid,
                           dated |-> in.payment.dated])
            /\ Done(c)
            /\ UNCHANGED <<sops, issues, actions>>

CreateIssue(c) ==
    /\ Writing(c, "issues.create")
    /\ InsertIssue(call[c].input.status)
    /\ Done(c)
    /\ UNCHANGED <<sops, actions, sales>>

UpdateIssue(c) ==
    /\ Writing(c, "issues.update")
    /\ PatchIssue(call[c].input.row, call[c].input.patch)
    /\ Done(c)
    /\ UNCHANGED <<sops, actions, sales>>

CreateAction(c) ==
    /\ Writing(c, "actions.create")
    /\ InsertAction(call[c].input, Author(c))
    /\ Done(c)
    /\ UNCHANGED <<sops, issues, sales>>

UpdateAction(c) ==
    /\ Writing(c, "actions.update")
    /\ PatchAction(call[c].input.row, call[c].input.patch, Author(c))
    /\ Done(c)
    /\ UNCHANGED <<sops, issues, sales>>

AddComment(c) ==
    /\ Writing(c, "actions.addComment")
    /\ InsertComment(call[c].input.row, Author(c))
    /\ Done(c)
    /\ UNCHANGED <<sops, issues, sales>>

\* Names are unique, whatever the lookup saw.
CreateSop(c) ==
    LET name == call[c].input.name IN
    /\ Writing(c, "sops.create")
    /\ IF NameTaken(name, None) THEN Refused(c)
       ELSE InsertSop(name, call[c].n) /\ Done(c) /\ UNCHANGED <<issues, actions, sales>>

UpdateSop(c) ==
    LET in == call[c].input IN
    /\ Writing(c, "sops.update")
    /\ IF "name" \in DOMAIN in.patch /\ NameTaken(in.patch.name, in.row) THEN Refused(c)
       ELSE PatchSop(in.row, in.patch) /\ Done(c) /\ UNCHANGED <<issues, actions, sales>>

\* addVersion, in a transaction: SELECT ... FOR UPDATE finds the versions that
\* are committed when it starts, and waits for who has them locked.
ReadVersions(c) ==
    /\ Writing(c, "sops.addVersion")
    /\ call' = [call EXCEPT ![c].phase = "wait",
                            ![c].seen = Len(sops[call[c].input.row].versions)]
    /\ UNCHANGED <<policy, tables, results>>

LockVersions(c) ==
    /\ At(c, "wait")
    /\ \A d \in Caller \ {c} : At(d, "insert") => call[d].input.row # call[c].input.row
    /\ GoTo(c, "insert")
    /\ UNCHANGED <<policy, tables, results>>

\* INSERT of the number after the last one found: (sop, version) is the key.
InsertVersion(c) ==
    LET x == call[c].input.row
        v == call[c].seen + 1
    IN
    /\ At(c, "insert")
    /\ IF v \in DOMAIN sops[x].versions THEN Refused(c)
       ELSE /\ sops' = [sops EXCEPT ![x].versions = Append(@, call[c].n)]
            /\ Done(c)
            /\ UNCHANGED <<issues, actions, sales>>

-----------------------------------------------------------------------------
(* The environment *)

\* A query fails or the process stops: the request ends with what it has done.
Fail(c) ==
    /\ events > 0
    /\ call[c] # Idle
    /\ End(c)
    /\ events' = events - 1
    /\ UNCHANGED <<policy, tables, started, effects, audit, answered>>

\* Likewise, a snapshot expires.
Expire(r) ==
    /\ events > 0
    /\ ~snapshot[r].expired
    /\ \E c \in Caller : At(c, "verify") /\ call[c].who = r
    /\ snapshot' = [snapshot EXCEPT ![r].expired = TRUE]
    /\ events' = events - 1
    /\ UNCHANGED <<enabled, tables, call, started, effects, audit, answered>>

\* An administrator disables a capability: it matters while it is called.
Disable(cap) ==
    /\ events > 0
    /\ cap \in enabled
    /\ \E c \in Caller : At(c, "verify") /\ call[c].cap = cap
    /\ enabled' = enabled \ {cap}
    /\ events' = events - 1
    /\ UNCHANGED <<snapshot, tables, call, started, effects, audit, answered>>

-----------------------------------------------------------------------------
Gateway(c) == Verify(c) \/ Deny(c) \/ Audit(c)

Execute(c) ==
    \/ ReadReport(c) \/ ReadCustomer(c) \/ ReadProduct(c) \/ ReadSale(c)
    \/ ReadIssue(c) \/ ReadAction(c) \/ ReadSop(c)
    \/ LookupSale(c) \/ LookupIssue(c) \/ LookupAction(c) \/ LookupSop(c)
    \/ CreateSale(c) \/ CreateIssue(c) \/ UpdateIssue(c)
    \/ CreateAction(c) \/ UpdateAction(c) \/ AddComment(c)
    \/ CreateSop(c) \/ UpdateSop(c)
    \/ ReadVersions(c) \/ LockVersions(c) \/ InsertVersion(c)

Next ==
    \/ \E c \in Caller : Gateway(c) \/ Execute(c) \/ Fail(c)
    \/ \E c \in Caller, r \in Run, cap \in Offered : WorkerCalls(c, r, cap)
    \/ \E c \in Caller, p \in Person :
          SaleRequest(c, p) \/ IssueRequest(c, p) \/ ActionRequest(c, p) \/ SopRequest(c, p)
    \/ \E r \in Run : Expire(r)
    \/ \E cap \in Offered : Disable(cap)

Spec == Init /\ [][Next]_vars

-----------------------------------------------------------------------------
(* Properties *)

\* Every variable has its type.
TypeOK ==
    /\ snapshot \in [Run -> [owner : Person, intact : BOOLEAN, expired : BOOLEAN,
                             permissions : SUBSET Permission]]
    /\ enabled \subseteq Capability
    /\ sops \in [Sop -> SopRow \cup {None}] /\ issues \in [Issue -> IssueRow \cup {None}]
    /\ actions \in [Action -> ActionRow \cup {None}] /\ sales \in [Sale -> SaleRow \cup {None}]
    /\ audit \subseteq [n : Nat, decision : {"allow", "deny"}]

PermissionsOf(who) ==
    IF who \in Run THEN snapshot[who].permissions ELSE RolePermissions[RoleOf[who]]

\* Nobody gets more done through an agent than over REST: whatever was executed
\* for a run, its owner's permissions let the owner do over the routes, as the
\* catalog promises of every capability (capabilities.ts).
NoMoreThanRest ==
    \A e \in effects : \A o \in e.ops : RoutePermission(o) \in PermissionsOf(e.who)

\* The gateway's audit trail is true: "allow" is on record only of what was
\* executed, "deny" only of what was not, and a worker is not told of a success
\* that is not on record, whatever failed in between.
AuditIsTrue ==
    /\ \A a \in audit : a.decision = "allow" <=> \E e \in effects : e.n = a.n
    /\ \A e \in effects : e.who \in Run /\ e.n \in answered =>
          [n |-> e.n, decision |-> "allow"] \in audit

\* A version of a SOP is never lost, replaced or renumbered, though versions are
\* added at the same time and a version number is computed before it is written.
VersionsAppendOnly ==
    [][\A x \in Rows(sops) : x \in Rows(sops)' /\ IsPrefix(sops[x].versions, sops'[x].versions)]_sops

\* What an operation o of some request is about to write: field f of row x.
Asked(o, x, f) ==
    \E c \in Caller : /\ Writing(c, o)
                      /\ call[c].input.row = x
                      /\ f \in DOMAIN call[c].input.patch

\* An update changes only what was asked for: a field of an issue, of an action or
\* of a SOP changes only in a row and by a patch that name it, so two updates of
\* different fields of a row, made at the same time, both stand.
UpdatesKeepTheRest ==
    [][/\ \A x \in Rows(issues) :
            issues'[x].status # issues[x].status => Asked("issues.update", x, "status")
       /\ \A x \in Rows(actions) : \A f \in {"status", "owner"} :
            actions'[x][f] # actions[x][f] => Asked("actions.update", x, f)
       /\ \A x \in Rows(sops) : \A f \in {"name", "active"} :
            sops'[x][f] # sops[x][f] => Asked("sops.update", x, f)]_<<issues, actions, sops>>

\* A recorded total is the recorded discount off the sum of the line items, to the
\* nearest cent and half a cent up, never negative or above that sum, and one that
\* the form may have shown for the same discount.
ReceiptIsRight ==
    \A x \in Rows(sales) :
       LET subtotal == Subtotal(sales[x].items, Price)
           exact    == subtotal * (Whole - sales[x].discount)
       IN  /\ 0 <= sales[x].total /\ sales[x].total <= subtotal
           /\ -Whole < 2 * (sales[x].total * Whole - exact)
           /\ 2 * (sales[x].total * Whole - exact) <= Whole
           /\ sales[x].total \in Shown(subtotal, sales[x].discount)

\* sale.schema.ts says that a sale whose payment is received has the date of it.
PaidSalesHaveADate == \A x \in Rows(sales) : sales[x].paid => sales[x].dated

=============================================================================
