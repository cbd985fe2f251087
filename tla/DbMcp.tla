-------------------------------- MODULE DbMcp --------------------------------
(***************************************************************************)
(* The data server of the analyst agents (db-mcp-server): a session per    *)
(* run, bound to the run's entitlement snapshot, queries over curated      *)
(* views, and a pool of read-only connections the sessions share.          *)
(*                                                                         *)
(* A query is checked when it arrives and then waits for a connection.     *)
(* The views that belong to somebody filter on a setting of the            *)
(* transaction, so whose rows a query sees depends on the order of the     *)
(* statements on a connection that serves one session after another.       *)
(* What an agent may ask is any query of Query; its rows are records.      *)
(***************************************************************************)
EXTENDS Naturals, Sequences, FiniteSets, SequencesExt, AccessCatalog

CONSTANTS
    Run,          \* runs whose agents open sessions
    SnapshotOf,   \* [Run -> [owner, permissions]]
    Query,        \* [relations, kind]: what an agent may send
    Stored,       \* rows: [view, owner, width]
    Connection,   \* of the pool
    MaxRows, MaxBytes,
    MaxSessions,  \* bound: sessions opened
    MaxRestarts,  \* bound: restarts of the server
    MaxExpiries,  \* bound: runs whose snapshot expires
    None

ASSUME DbMcpAssumption ==
    /\ {MaxRows, MaxBytes} \subseteq Nat \ {0}
    /\ {MaxSessions, MaxRestarts, MaxExpiries} \subseteq Nat
    /\ None \notin Run \cup Connection /\ None \notin Query /\ None \notin Nat
    /\ IsFiniteSet(Stored)

VARIABLES
    session,   \* [Session -> Run \cup {None}]: whose snapshot it was opened with
    closed,    \* sessions the server no longer knows
    phase,     \* of the query a session has outstanding
    query,     \* that query
    waiting,   \* sessions waiting for a connection, in order
    conn,      \* [Connection -> [user, owner]]: held by, and the setting
    rows,      \* what the query returned, before the result is capped
    answer,    \* the last answer of a session
    stuck,     \* the process does not come back from capping a result
    restarts,
    token,     \* the service token that is cached: "none", "good" or "revoked"
    expired    \* runs whose snapshot has expired

mcpVars == <<session, closed, phase, query, waiting, conn, rows, answer, stuck, restarts,
            token, expired>>

Session == 1..MaxSessions
NoAnswer == [kind |-> "none"]
Refused  == [kind |-> "error"]
Free     == [user |-> None, owner |-> None]

-----------------------------------------------------------------------------
(* What a snapshot entitles to *)

ViewPermission ==
    [v \in {"customers", "products", "sales", "products_sold", "customer_issues",
            "issue_actions", "my_assigned_actions", "sops", "sop_details", "users"} |->
       CASE v = "customers" -> "read-customers"
         [] v \in {"products", "sales", "products_sold"} -> "read-sales"
         [] v = "customer_issues" -> "read-issues"
         [] v \in {"issue_actions", "my_assigned_actions"} -> "read-actions"
         [] v \in {"sops", "sop_details"} -> "read-sop"
         [] v = "users" -> "read-users"]

\* The views the server knows, and those of them with a row filter.
McpReadViews == DOMAIN ViewPermission
OwnerScoped  == {"my_assigned_actions"}

IsAllowedRelation(r) == r \in McpReadViews

AccessibleViews(permissions) == {v \in DOMAIN ViewPermission : ViewPermission[v] \in permissions}

EntitledViews(run) == AccessibleViews(SnapshotOf[run].permissions)

\* Both capabilities of the data server require that the owner may run agents.
IsEntitled(run) == "create-agent-run" \in SnapshotOf[run].permissions

\* The tools a session gets: none without a view to read.
HasTools(run) == IsEntitled(run) /\ EntitledViews(run) # {}

DescribeSchema(run) == McpReadViews \cap EntitledViews(run)

-----------------------------------------------------------------------------
(* What a query is checked for *)

\* validateSelect: one SELECT without side effects over curated views only.
Valid(q) == q.kind = "select" /\ \A r \in q.relations : IsAllowedRelation(r)

\* Mutant of NoForbiddenView: one view of a join is enough.
NoForbiddenView_Any(run, q) ==
    q.relations = {} \/ q.relations \cap EntitledViews(run) # {}

\* findForbiddenView: a join needs every view it touches.
NoForbiddenView(run, q) == q.relations \subseteq EntitledViews(run)

Admitted(run, q) == IsEntitled(run) /\ Valid(q) /\ NoForbiddenView(run, q)

\* What the views show under the setting of the transaction.
Visible(relations, owner) ==
    {r \in Stored : r.view \in relations /\ (r.view \in OwnerScoped => r.owner = owner)}

-----------------------------------------------------------------------------
(* What a result is cut to *)

\* The outer LIMIT: any MaxRows of them, in any order.
Clamped(result) ==
    LET n == IF Cardinality(result) > MaxRows THEN MaxRows ELSE Cardinality(result)
    IN  {s \in [1..n -> result] : IsInjective(s)}

Fits(s) == FoldSeq(LAMBDA r, total : r.width + total, 0, s) <= MaxBytes

\* capResultBytes keeps the first half until it fits or nothing is left; half of one row
\* is one row.
Kept(s) ==
    LET keep[k \in 0..Len(s)] ==
            IF Fits(SubSeq(s, 1, k)) \/ k <= 1 THEN k ELSE keep[(k + 1) \div 2]
    IN  SubSeq(s, 1, keep[Len(s)])

Hangs(s) == ~Fits(Kept(s))

\* Mutant of Answer: a result that was cut is passed off as whole.
Answer_Silent(q, s) == [kind |-> "rows", query |-> q, rows |-> Kept(s), truncated |-> FALSE]

Answer(q, s) == [kind |-> "rows", query |-> q, rows |-> Kept(s), truncated |-> Kept(s) # s]

-----------------------------------------------------------------------------
McpInit ==
    /\ closed = {}
    /\ session = [s \in Session |-> None]
    /\ phase = [s \in Session |-> "idle"]
    /\ query = [s \in Session |-> None]
    /\ waiting = <<>>
    /\ conn = [c \in Connection |-> Free]
    /\ rows = [s \in Session |-> <<>>]
    /\ answer = [s \in Session |-> NoAnswer]
    /\ stuck = FALSE /\ restarts = 0
    /\ token = "none" /\ expired = {}

Open(s) == session[s] # None /\ s \notin closed

\* getToken and invalidate: the cached token or a new one, and none once it was refused.
UseToken == token' = IF token = "revoked" THEN "none" ELSE "good"

\* fetchVerified refuses a run whose snapshot has expired.
FetchVerified(run) == run \notin expired

\* An agent's first request.  The snapshot is fetched and verified before the session
\* exists, and not again while it lasts; a run that is refused gets no session.
Initialize(run) ==
    /\ ~stuck
    /\ UseToken
    /\ IF token # "revoked" /\ FetchVerified(run)
       THEN \E s \in Session :
              /\ session[s] = None
              /\ \A t \in 1..(s - 1) : session[t] # None
              /\ session' = [session EXCEPT ![s] = run]
       ELSE UNCHANGED session
    /\ UNCHANGED <<closed, phase, query, waiting, conn, rows, answer, stuck, restarts, expired>>

\* The control plane no longer takes the token that is cached.
Revoke ==
    /\ token = "good"
    /\ token' = "revoked"
    /\ UNCHANGED <<session, closed, phase, query, waiting, conn, rows, answer, stuck, restarts,
                   expired>>

Expire(run) ==
    /\ Cardinality(expired) < MaxExpiries
    /\ expired' = expired \cup {run}
    /\ UNCHANGED <<session, closed, phase, query, waiting, conn, rows, answer, stuck, restarts,
                   token>>

\* DELETE /mcp.  A query of the session that is under way goes on.
CloseSession(s) ==
    /\ ~stuck
    /\ Open(s)
    /\ closed' = closed \cup {s}
    /\ UNCHANGED <<session, phase, query, waiting, conn, rows, answer, stuck, restarts, token, expired>>

\* describe_schema and list_views.
Describe(s) ==
    /\ ~stuck
    /\ Open(s) /\ phase[s] = "idle"
    /\ HasTools(session[s])
    /\ answer' = [answer EXCEPT ![s] = [kind |-> "views", views |-> DescribeSchema(session[s])]]
    /\ UNCHANGED <<session, closed, phase, query, waiting, conn, rows, stuck, restarts, token, expired>>

\* run_select_query: refused, or queued for a connection.
RunSelect(s, q) ==
    /\ ~stuck
    /\ Open(s) /\ phase[s] = "idle"
    /\ HasTools(session[s])
    /\ IF Admitted(session[s], q)
       THEN /\ phase' = [phase EXCEPT ![s] = "waiting"]
            /\ query' = [query EXCEPT ![s] = q]
            /\ waiting' = Append(waiting, s)
            /\ answer' = [answer EXCEPT ![s] = NoAnswer]
       ELSE /\ answer' = [answer EXCEPT ![s] = Refused]
            /\ UNCHANGED <<phase, query, waiting>>
    /\ UNCHANGED <<session, closed, conn, rows, stuck, restarts, token, expired>>

\* The pool hands a free connection to whoever has waited longest.
Connect(c) ==
    /\ ~stuck
    /\ waiting # <<>>
    /\ conn[c].user = None
    /\ conn' = [conn EXCEPT ![c].user = Head(waiting)]
    /\ phase' = [phase EXCEPT ![Head(waiting)] = "connected"]
    /\ waiting' = Tail(waiting)
    /\ UNCHANGED <<session, closed, query, rows, answer, stuck, restarts, token, expired>>

\* BEGIN READ ONLY and the settings of the transaction.
Begin(c) ==
    LET s == conn[c].user IN
    /\ ~stuck
    /\ s # None /\ phase[s] = "connected"
    /\ conn' = [conn EXCEPT ![c].owner = SnapshotOf[session[s]].owner]
    /\ phase' = [phase EXCEPT ![s] = "begun"]
    /\ UNCHANGED <<session, closed, query, waiting, rows, answer, stuck, restarts, token, expired>>

Execute(c) ==
    LET s == conn[c].user IN
    /\ ~stuck
    /\ s # None /\ phase[s] = "begun"
    /\ \E r \in Clamped(Visible(query[s].relations, conn[c].owner)) :
          rows' = [rows EXCEPT ![s] = r]
    /\ phase' = [phase EXCEPT ![s] = "read"]
    /\ UNCHANGED <<session, closed, query, waiting, conn, answer, stuck, restarts, token, expired>>

\* COMMIT, the connection goes back, and the result is capped and sent.
Commit(c) ==
    LET s == conn[c].user IN
    /\ ~stuck
    /\ s # None /\ phase[s] = "read"
    /\ conn' = [conn EXCEPT ![c] = Free]
    /\ rows' = [rows EXCEPT ![s] = <<>>]
    /\ stuck' = Hangs(rows[s])
    /\ IF Hangs(rows[s])
       THEN phase' = [phase EXCEPT ![s] = "capping"] /\ UNCHANGED <<query, answer>>
       ELSE /\ phase' = [phase EXCEPT ![s] = "idle"]
            /\ query' = [query EXCEPT ![s] = None]
            /\ answer' = [answer EXCEPT ![s] = Answer(query[s], rows[s])]
    /\ UNCHANGED <<session, closed, waiting, restarts, token, expired>>

\* Mutant of QueryFails: only a query that succeeds gives its connection back.
QueryFails_Leaks(c) ==
    LET s == conn[c].user IN
    /\ ~stuck
    /\ s # None /\ phase[s] \in {"connected", "begun", "read"}
    /\ rows' = [rows EXCEPT ![s] = <<>>]
    /\ phase' = [phase EXCEPT ![s] = "idle"]
    /\ query' = [query EXCEPT ![s] = None]
    /\ answer' = [answer EXCEPT ![s] = Refused]
    /\ UNCHANGED <<session, closed, waiting, conn, stuck, restarts, token, expired>>

\* A statement fails or runs out of time: ROLLBACK, and the connection goes back.
QueryFails(c) ==
    LET s == conn[c].user IN
    /\ ~stuck
    /\ s # None
    /\ conn' = [conn EXCEPT ![c] = Free]
    /\ rows' = [rows EXCEPT ![s] = <<>>]
    /\ phase' = [phase EXCEPT ![s] = "idle"]
    /\ query' = [query EXCEPT ![s] = None]
    /\ answer' = [answer EXCEPT ![s] = Refused]
    /\ UNCHANGED <<session, closed, waiting, stuck, restarts, token, expired>>

\* Sessions, queries and connections are state of the process.
Restart ==
    /\ restarts < MaxRestarts
    /\ restarts' = restarts + 1
    /\ closed' = {s \in Session : session[s] # None}
    /\ phase' = [s \in Session |-> "idle"]
    /\ query' = [s \in Session |-> None]
    /\ waiting' = <<>>
    /\ conn' = [c \in Connection |-> Free]
    /\ rows' = [s \in Session |-> <<>>]
    /\ answer' = [s \in Session |-> IF phase[s] = "idle" THEN answer[s] ELSE Refused]
    /\ stuck' = FALSE
    /\ token' = "none"
    /\ UNCHANGED <<session, expired>>

McpNext ==
    \/ \E run \in Run : Initialize(run) \/ Expire(run)
    \/ \E s \in Session : CloseSession(s) \/ Describe(s) \/ \E q \in Query : RunSelect(s, q)
    \/ \E c \in Connection :
          Connect(c) \/ Begin(c) \/ Execute(c) \/ Commit(c) \/ QueryFails(c)
    \/ Revoke \/ Restart

\* The pool and the database go on; nobody has to ask, to close or to restart.
Serve(c) == Connect(c) \/ Begin(c) \/ Execute(c) \/ Commit(c) \/ QueryFails(c)

McpSpec     == McpInit /\ [][McpNext]_mcpVars
McpFairSpec == McpSpec /\ \A c \in Connection : WF_mcpVars(Serve(c))

-----------------------------------------------------------------------------
(* Properties *)

\* Every variable has its type.
McpTypeOK ==
    /\ closed \subseteq Session
    /\ session \in [Session -> Run \cup {None}]
    /\ phase \in [Session -> {"idle", "waiting", "connected", "begun", "read", "capping"}]
    /\ query \in [Session -> Query \cup {None}]
    /\ ToSet(waiting) \subseteq Session
    /\ \A c \in Connection : conn[c].user \in Session \cup {None}
    /\ \A s \in Session : answer[s].kind \in {"none", "error", "views", "rows"}
    /\ stuck \in BOOLEAN /\ restarts \in 0..MaxRestarts
    /\ token \in {"none", "good", "revoked"} /\ expired \subseteq Run

\* The REST operation that returns the same records as a view.
RestPermission(v) ==
    CASE v = "customers" -> RoutePermission("customers.list")
      [] v = "products" -> RoutePermission("products.list")
      [] v \in {"sales", "products_sold"} -> RoutePermission("sales.list")
      [] v = "customer_issues" -> RoutePermission("issues.list")
      [] v \in {"issue_actions", "my_assigned_actions"} -> RoutePermission("actions.list")
      [] v \in {"sops", "sop_details"} -> RoutePermission("sops.list")
      [] v = "users" -> "read-users"

MayRead(s, v) == RestPermission(v) \in SnapshotOf[session[s]].permissions

\* However sessions share and return connections, and whatever fails: an answer
\* holds rows of its own session only - of views whose records the run's owner
\* may read over REST, and of the owner's own where the view says so.
AnswersAreOwnRows ==
    \A s \in Session :
        /\ answer[s].kind = "rows" =>
             \A i \in DOMAIN answer[s].rows :
                /\ MayRead(s, answer[s].rows[i].view)
                /\ answer[s].rows[i].view \in OwnerScoped =>
                     answer[s].rows[i].owner = SnapshotOf[session[s]].owner
        /\ answer[s].kind = "views" => \A v \in answer[s].views : MayRead(s, v)

\* An answer that does not say it was cut, and does not reach the row limit, is
\* all there is: the agent may conclude from what is missing in it.
UncutIsComplete ==
    \A s \in Session :
        answer[s].kind = "rows" /\ ~answer[s].truncated /\ Len(answer[s].rows) < MaxRows =>
            ToSet(answer[s].rows) =
                Visible(answer[s].query.relations, SnapshotOf[session[s]].owner)

\* A connection that is given out comes back whatever happens to the query, and
\* whoever waits for one gets it: every query ends in an answer, also that of a session
\* which is closed meanwhile (that one's answer is lost with the transport).
EveryQueryIsAnswered == \A s \in Session : phase[s] = "waiting" ~> phase[s] = "idle"

-----------------------------------------------------------------------------
(* What the repository says of the program, and the code refutes *)

\* limits.ts:22-24 "Rows are dropped from the end until the JSON payload fits, so a
\* single huge result can never blow the response budget": one row beyond the budget
\* is halved to one row for ever.
NeverStuck == ~stuck

\* limits.ts:13 cuts to maxRows without a word: `truncated` is about bytes only.
CutIsTold ==
    \A s \in Session :
        answer[s].kind = "rows" /\ ~answer[s].truncated =>
            ToSet(answer[s].rows) =
                Visible(answer[s].query.relations, SnapshotOf[session[s]].owner)

\* entitlement-snapshot.ts:7-8 "`expiresAt` bounds how long an async run may keep acting
\* for the user": a session that was opened in time is served after it.
NothingAfterExpiry ==
    [][\A s \in Session :
         answer'[s] # answer[s] /\ answer'[s].kind = "rows" => session[s] \notin expired]_mcpVars

=============================================================================
