----------------------- MODULE Administration_proofs -----------------------
(***************************************************************************)
(* TLAPS proofs about what administrators keep: the profiles of users and  *)
(* their accounts in Keycloak (UserProvisioning), for any people and any   *)
(* overlap of requests; the registry of agents (AgentRegistry), for any    *)
(* agents, requests and sweeps; the authorization policy (RbacPolicy), for *)
(* any roles, permissions and instances.                                   *)
(***************************************************************************)
EXTENDS UserProvisioning, AgentRegistry, RbacPolicy, TLAPS, FiniteSetTheorems

-----------------------------------------------------------------------------
(* Users: the inductive invariant *)

\* Where a request has found or made its profile, where it is in Keycloak, where it
\* has an account, and where it has let the person in or not.
UserPhases == {"link", "roles", "storeRoles", "update", "setRoles", "load"}
KcPhases   == {"kcFind", "kcCreate", "kcEnable", "kcRoles", "kcAdd", "kcRemove", "link account"}
NewPhases  == {"taken", "insert", "storeRoles"}
AccountPhases == {"byKeycloak", "byEmail", "create", "link", "roles"}
FoundPhases == {"kcEnable", "kcRoles", "kcAdd", "kcRemove", "link account"}
EnabledPhases == {"kcRoles", "kcAdd", "kcRemove", "link account"}

ReqFields == {"op", "email", "user", "kc", "want", "active", "linked", "reused", "add",
              "remove", "status", "phase", "alone"}

\* The request enables the account or disables it, or makes it.
LetsIn(q) == req[q].op # "create" \/ req[q].reused = FALSE

\* The administrator is shown that Keycloak follows.
ShownSynced(q) == req[q].phase = "shown" /\ req[q].status = "synced"

\* What a request holds is there and of its address, whatever others do meanwhile:
\* rows are not deleted, addresses do not change, and a link stays.
Known(q) ==
    /\ DOMAIN req[q] = ReqFields
    /\ req[q].email \in Email /\ req[q].want \subseteq NovaRole /\ req[q].add \subseteq NovaRole
    /\ req[q].active \in BOOLEAN /\ req[q].reused \in BOOLEAN
    /\ req[q].phase \in NewPhases => req[q].op = "create" /\ req[q].active = TRUE
    /\ req[q].phase \in NewPhases \cup {"kcFind", "kcCreate"} => req[q].linked = FALSE
    /\ (req[q].phase \in UserPhases \cup KcPhases \/ ShownSynced(q)) =>
          /\ req[q].user \in Rows(users)
          /\ users[req[q].user].email = req[q].email
    /\ (req[q].phase \in AccountPhases \cup FoundPhases \/ ShownSynced(q)) =>
          /\ req[q].kc \in Rows(accounts)
          /\ accounts[req[q].kc].email = req[q].email
    /\ (req[q].phase = "roles" \/ (req[q].phase \in FoundPhases /\ req[q].linked) \/ ShownSynced(q)) =>
          users[req[q].user].kc = req[q].kc

\* What a request has read of the profile and brought about in Keycloak still holds,
\* if no other of the same address overlaps.
Exact(q) ==
    req[q].alone =>
        /\ req[q].phase = "storeRoles" => users[req[q].user].active = TRUE
        /\ (req[q].phase \in KcPhases \/ ShownSynced(q)) =>
              /\ req[q].want = roles[req[q].user]
              /\ req[q].active = users[req[q].user].active
        /\ (req[q].phase \in EnabledPhases \/ ShownSynced(q)) =>
              (LetsIn(q) => accounts[req[q].kc].enabled = req[q].active)
        /\ (req[q].phase = "kcAdd" /\ req[q].status = "synced") =>
              ((accounts[req[q].kc].roles \cup req[q].add) \ req[q].remove) \cap NovaRole = req[q].want
        /\ (req[q].phase = "kcRemove" /\ req[q].status = "synced") =>
              (accounts[req[q].kc].roles \ req[q].remove) \cap NovaRole = req[q].want
        /\ (req[q].phase \in {"link account", "shown"} /\ req[q].status = "synced") =>
              accounts[req[q].kc].roles \cap NovaRole = req[q].want

Types ==
    /\ users \in [User -> Profile \cup {None}]
    /\ roles \in [User -> SUBSET NovaRole]
    /\ accounts \in [Account -> Login \cup {None}]
    /\ realm \subseteq NovaRole \cup Intrinsic
    /\ actedAs \in [Account -> SUBSET User]
    /\ DOMAIN req = Req

\* The unique indexes of the database and of Keycloak.
Unique ==
    /\ \A u, v \in Rows(users) : users[u].email = users[v].email => u = v
    /\ \A u, v \in Rows(users) : users[u].kc = users[v].kc /\ users[u].kc # None => u = v
    /\ \A a, b \in Rows(accounts) : accounts[a].email = accounts[b].email => a = b

\* A profile is linked to the account of its own address.
Linked ==
    \A u \in Rows(users) : users[u].kc # None =>
        /\ users[u].kc \in Rows(accounts)
        /\ accounts[users[u].kc].email = users[u].email

\* Whoever a person was answered as is linked to the person's account.
Acted == \A a \in Account : \A u \in actedAs[a] : u \in Rows(users) /\ users[u].kc = a

\* Beside a request that is alone there is no other of its address.
Apart == \A p, q \in Req : p # q /\ req[p] # Idle /\ req[q] # Idle /\ req[q].alone
            => req[p].email # req[q].email

Requests == \A q \in Req : req[q] # Idle => Known(q) /\ Exact(q)

IInv == Types /\ Unique /\ Linked /\ Acted /\ Apart /\ Requests

-----------------------------------------------------------------------------
\* Rows are not deleted, keep their addresses, and a link stays.
Grows ==
    /\ \A u \in Rows(users) : /\ u \in Rows(users)' /\ users'[u].email = users[u].email
                              /\ users[u].kc # None => users'[u].kc = users[u].kc
    /\ \A a \in Rows(accounts) : a \in Rows(accounts)' /\ accounts'[a].email = accounts[a].email

\* What is of another address is left alone.
Elsewhere(e) ==
    /\ \A u \in Rows(users) : users[u].email # e => users'[u] = users[u] /\ roles'[u] = roles[u]
    /\ \A a \in Rows(accounts) : accounts[a].email # e => accounts'[a] = accounts[a]

\* A request of which nothing is written keeps what the invariant says of it.
LEMMA Bystander ==
    ASSUME NEW p \in Req, req[p] # Idle, Known(p), Exact(p), NEW e, Grows, Elsewhere(e),
           req[p].alone => req[p].email # e, req'[p] = req[p], Types
    PROVE  Known(p)' /\ Exact(p)'
<1>1. Known(p)'
  <2>1. /\ DOMAIN req'[p] = ReqFields
        /\ req'[p].email \in Email /\ req'[p].want \subseteq NovaRole /\ req'[p].add \subseteq NovaRole
        /\ req'[p].active \in BOOLEAN /\ req'[p].reused \in BOOLEAN
        /\ req'[p].phase \in NewPhases => req'[p].op = "create" /\ req'[p].active = TRUE
        /\ req'[p].phase \in NewPhases \cup {"kcFind", "kcCreate"} => req'[p].linked = FALSE
    BY DEF Known
  <2>2. ShownSynced(p)' <=> ShownSynced(p)
    BY DEF ShownSynced
  <2>3. (req[p].phase \in UserPhases \cup KcPhases \/ ShownSynced(p)) =>
            /\ req[p].user \in Rows(users)'
            /\ users'[req[p].user].email = req[p].email
    BY DEF Known, Grows
  <2>4. (req[p].phase \in AccountPhases \cup FoundPhases \/ ShownSynced(p)) =>
            /\ req[p].kc \in Rows(accounts)' /\ req[p].kc # None
            /\ accounts'[req[p].kc].email = req[p].email
    BY NoneIsNoRow DEF Known, Grows, Types, Rows
  <2>5. (req[p].phase = "roles" \/ (req[p].phase \in FoundPhases /\ req[p].linked) \/ ShownSynced(p)) =>
            users'[req[p].user].kc = req[p].kc
    BY <2>4 DEF Known, Grows, UserPhases, KcPhases, FoundPhases, AccountPhases
  <2> QED  BY <2>1, <2>2, <2>3, <2>4, <2>5 DEF Known
<1>2. Exact(p)'
  <2> SUFFICES ASSUME req[p].alone  PROVE Exact(p)'
    BY DEF Exact
  <2>1. (req[p].phase \in KcPhases \cup {"storeRoles"} \/ ShownSynced(p)) =>
            /\ users'[req[p].user] = users[req[p].user]
            /\ roles'[req[p].user] = roles[req[p].user]
    BY DEF Known, Elsewhere, UserPhases
  <2>2. (req[p].phase \in FoundPhases \/ ShownSynced(p)) => accounts'[req[p].kc] = accounts[req[p].kc]
    BY DEF Known, Elsewhere
  <2> QED  BY <2>1, <2>2 DEF Exact, ShownSynced, EnabledPhases, FoundPhases, LetsIn
<1> QED  BY <1>1, <1>2

\* A step of a request, of which only its own address is written.
LEMMA OwnStep ==
    ASSUME IInv, NEW q \in Req, req[q] # Idle, DOMAIN req' = Req,
           \A p \in Req \ {q} : req'[p] = req[p],
           Types', Unique', Linked', Acted', Grows, Elsewhere(req[q].email),
           req'[q] # Idle => /\ req'[q].email = req[q].email /\ req'[q].alone = req[q].alone
                             /\ Known(q)' /\ Exact(q)'
    PROVE  IInv'
<1>1. Apart'
  BY DEF IInv, Apart
<1>2. ASSUME NEW p \in Req, p # q, req'[p] # Idle  PROVE Known(p)' /\ Exact(p)'
  <2>1. req'[p] = req[p] /\ Known(p) /\ Exact(p) /\ Types
    BY <1>2 DEF IInv, Requests
  <2>2. req[p].alone => req[p].email # req[q].email
    BY <1>2, <2>1 DEF IInv, Apart
  <2> QED  BY <1>2, <2>1, <2>2, Bystander
<1>3. Requests'
  BY <1>2 DEF Requests
<1> QED  BY <1>1, <1>3 DEF IInv

\* A step of a request that writes nothing.
LEMMA QuietStep ==
    ASSUME IInv, NEW q \in Req, req[q] # Idle, DOMAIN req' = Req,
           \A p \in Req \ {q} : req'[p] = req[p],
           UNCHANGED <<users, roles, accounts, realm, actedAs>>,
           req'[q] # Idle => /\ req'[q].email = req[q].email /\ req'[q].alone = req[q].alone
                             /\ Known(q)' /\ Exact(q)'
    PROVE  IInv'
<1>1. Types' /\ Unique' /\ Linked' /\ Acted'
  BY DEF IInv, Types, Unique, Linked, Acted, Rows
<1>2. Grows /\ Elsewhere(req[q].email)
  BY DEF Grows, Elsewhere, Rows
<1> QED  BY <1>1, <1>2, OwnStep

-----------------------------------------------------------------------------
(* Users: the steps keep the invariant *)

LEMMA InitIInv == Init => IInv
<1> SUFFICES ASSUME Init  PROVE IInv
  OBVIOUS
<1> DEFINE r0(u) == [email |-> SeedUsers[u], kc |-> None, active |-> TRUE]
<1>1. \A u \in DOMAIN SeedUsers : r0(u) \in Profile
  BY UsersAssumption DEF Profile
<1>2. PICK r \in NovaRole, on \in [DOMAIN Imported -> BOOLEAN] : accounts = [a \in Account |-> IF a \in DOMAIN Imported
        THEN [email |-> Imported[a], enabled |-> on[a], roles |-> Intrinsic \cup {r}] ELSE None]
  BY DEF Init
<1> DEFINE login(a) == [email |-> Imported[a], enabled |-> on[a], roles |-> Intrinsic \cup {r}]
<1>3. \A a \in DOMAIN Imported : login(a) \in Login
  BY <1>2, UsersAssumption DEF Login
<1>4. /\ \A u \in DOMAIN SeedUsers : r0(u).email = SeedUsers[u] /\ r0(u).kc = None
      /\ \A a \in DOMAIN Imported : login(a).email = Imported[a]
  OBVIOUS
<1>5. /\ users = [u \in User |-> IF u \in DOMAIN SeedUsers THEN r0(u) ELSE None]
      /\ accounts = [a \in Account |-> IF a \in DOMAIN Imported THEN login(a) ELSE None]
  BY <1>2 DEF Init
<1> HIDE DEF r0, login
<1>6. Types
  <2>1. users \in [User -> Profile \cup {None}] /\ accounts \in [Account -> Login \cup {None}]
    BY <1>1, <1>3, <1>5
  <2>2. roles \in [User -> SUBSET NovaRole]
    <3>1. \A x \in {{}} \cup {{q} : q \in NovaRole} : x \in SUBSET NovaRole
      OBVIOUS
    <3> QED  BY <3>1 DEF Init
  <2> QED  BY <2>1, <2>2 DEF Init, Types
<1>7. Rows(users) = DOMAIN SeedUsers /\ Rows(accounts) = DOMAIN Imported
  <2>1. \A u \in User : users[u] # None <=> u \in DOMAIN SeedUsers
    BY <1>1, <1>5, NoneIsNoRow
  <2>2. \A a \in Account : accounts[a] # None <=> a \in DOMAIN Imported
    BY <1>3, <1>5, NoneIsNoRow
  <2>3. DOMAIN users = User /\ DOMAIN accounts = Account
    BY <1>5
  <2> QED  BY <2>1, <2>2, <2>3, UsersAssumption DEF Rows
<1>8. /\ \A u \in Rows(users) : users[u].email = SeedUsers[u] /\ users[u].kc = None
      /\ \A a \in Rows(accounts) : accounts[a].email = Imported[a]
  BY <1>4, <1>5, <1>7, UsersAssumption
<1>9. Unique /\ Linked
  BY <1>7, <1>8, UsersAssumption DEF Unique, Linked
<1> QED  BY <1>6, <1>9 DEF Init, IInv, Acted, Apart, Requests

\* A request and the rows stay as they are.
LEMMA Kept ==
    ASSUME NEW p, Known(p), Exact(p), req'[p] = req[p], UNCHANGED <<users, roles, accounts>>
    PROVE  Known(p)' /\ Exact(p)'
<1>1. Known(p)'
  BY DEF Known, ShownSynced, Rows
<1>2. Exact(p)'
  BY DEF Exact, ShownSynced, LetsIn
<1> QED  BY <1>1, <1>2

\* A request of an address begins.
LEMMA BeginStep ==
    ASSUME IInv, NEW q \in Req, NEW op, NEW e \in Email, NEW user, NEW kc, NEW want \in SUBSET NovaRole,
           NEW phase, Begin(q, op, e, user, kc, want, phase),
           \/ /\ phase \in {"byKeycloak"}
              /\ kc \in Rows(accounts) /\ accounts[kc].email = e
           \/ /\ phase \in {"update", "setRoles", "load"}
              /\ user \in Rows(users) /\ users[user].email = e
           \/ phase = "taken" /\ op = "create"
    PROVE  IInv'
<1> DEFINE others == {p \in Req : req[p] # Idle /\ req[p].email = e}
           y == [op |-> op, email |-> e, user |-> user, kc |-> kc, want |-> want,
                 active |-> TRUE, linked |-> FALSE, reused |-> FALSE, add |-> {}, remove |-> {},
                 status |-> "synced", phase |-> phase, alone |-> others = {}]
<1>0. Types /\ Unique /\ Linked /\ Acted /\ Apart /\ Requests
  BY DEF IInv
<1>1. Types' /\ Unique' /\ Linked' /\ Acted'
  BY <1>0 DEF Begin, database, keycloak, Types, Unique, Linked, Acted, Rows
<1>2. /\ req'[q] = y /\ req[q] = Idle /\ q \notin others
      /\ \A p \in Req \ {q} : req'[p] = IF p \in others THEN [req[p] EXCEPT !.alone = FALSE] ELSE req[p]
      /\ UNCHANGED <<users, roles, accounts>>
  BY DEF Begin, database, keycloak
<1>3. Known(q)' /\ Exact(q)'
  <2>1. DOMAIN y = ReqFields
    BY DEF ReqFields
  <2>2. /\ req'[q].email = e /\ req'[q].want = want /\ req'[q].add = {} /\ req'[q].active = TRUE
        /\ req'[q].phase = phase /\ req'[q].kc = kc /\ req'[q].user = user /\ req'[q].op = op
        /\ req'[q].linked = FALSE /\ req'[q].reused = FALSE
    BY <1>2
  <2> HIDE DEF y
  <2> QED  BY <1>2, <2>1, <2>2 DEF Known, Exact, ShownSynced, Rows, UserPhases, KcPhases, NewPhases, AccountPhases,
              FoundPhases, EnabledPhases
<1>4. ASSUME NEW p \in Req, p # q, req[p] # Idle
      PROVE  /\ Known(p)' /\ Exact(p)' /\ req'[p].email = req[p].email
             /\ req'[p].alone => (req[p].alone /\ p \notin others)
  <2>1. Known(p) /\ Exact(p)
    BY <1>0, <1>4 DEF Requests
  <2>2. CASE p \notin others
    <3>1. req'[p] = req[p] /\ UNCHANGED <<users, roles, accounts>>
      BY <1>2, <1>4, <2>2
    <3>2. Known(p)' /\ Exact(p)'
      BY <2>1, <3>1, Kept
    <3> HIDE DEF others
    <3> QED  BY <2>2, <3>1, <3>2
  <2>3. CASE p \in others
    <3>1. req'[p] = [req[p] EXCEPT !.alone = FALSE]
      BY <1>2, <1>4, <2>3
    <3>2. /\ DOMAIN req'[p] = ReqFields /\ req'[p].alone = FALSE
          /\ \A f \in ReqFields \ {"alone"} : req'[p][f] = req[p][f]
      BY <2>1, <3>1 DEF Known, ReqFields
    <3>3. /\ req'[p].op = req[p].op /\ req'[p].email = req[p].email /\ req'[p].user = req[p].user
          /\ req'[p].kc = req[p].kc /\ req'[p].want = req[p].want /\ req'[p].active = req[p].active
          /\ req'[p].linked = req[p].linked /\ req'[p].add = req[p].add
          /\ req'[p].reused = req[p].reused
          /\ req'[p].status = req[p].status /\ req'[p].phase = req[p].phase
      BY <3>2 DEF ReqFields
    <3> QED  BY <1>2, <1>4, <2>1, <3>2, <3>3 DEF Known, Exact, ShownSynced, Rows
  <2> QED  BY <2>2, <2>3
<1>5. \A p \in Req : req'[p] # Idle /\ p # q => req[p] # Idle
  BY <1>2
<1>6. Requests'
  BY <1>3, <1>4, <1>5 DEF Requests
<1>7. req'[q].email = e /\ (req'[q].alone => others = {})
  <2>1. y.email = e /\ (y.alone = (others = {}))
    OBVIOUS
  <2> HIDE DEF y, others
  <2> QED  BY <1>2, <2>1
<1>8. Apart'
  BY <1>0, <1>4, <1>5, <1>7 DEF Apart
<1> QED  BY <1>1, <1>6, <1>8 DEF IInv

LEMMA SignInStep ==
    ASSUME IInv, NEW q \in Req, NEW a \in Account, SignIn(q, a)
    PROVE  IInv'
<1>1. a \in Rows(accounts) /\ accounts[a].email \in Email
  BY NoneIsNoRow DEF SignIn, IInv, Types, Rows, Login
<1>2. TokenRoles(a) \in SUBSET NovaRole
  BY DEF TokenRoles
<1> QED  BY <1>1, <1>2, BeginStep DEF SignIn

LEMMA AdminStep ==
    ASSUME IInv, NEW q \in Req
    PROVE  /\ \A e \in Email, r \in NovaRole : CreateUser(q, e, {r}) => IInv'
           /\ \A u \in User : UpdateUser(q, u) \/ SyncUserToKeycloak(q, u) => IInv'
           /\ \A u \in User, r \in NovaRole : SetUserRoles(q, u, {r}) => IInv'
<1>0. \A u \in Rows(users) : users[u].email \in Email
  BY DEF IInv, Types, Rows, Profile
<1>1. ASSUME NEW e \in Email, NEW r \in NovaRole, CreateUser(q, e, {r})  PROVE IInv'
  <2>1. Begin(q, "create", e, None, None, {r}, "taken") /\ {r} \in SUBSET NovaRole
    BY <1>1 DEF CreateUser, AdminRequest
  <2> QED  BY <2>1, BeginStep
<1>2. ASSUME NEW u \in User, UpdateUser(q, u)  PROVE IInv'
  <2>1. /\ Begin(q, "update", users[u].email, u, None, {}, "update")
        /\ {} \in SUBSET NovaRole /\ u \in Rows(users)
    BY <1>2 DEF UpdateUser, AdminRequest
  <2> QED  BY <1>0, <2>1, BeginStep
<1>3. ASSUME NEW u \in User, SyncUserToKeycloak(q, u)  PROVE IInv'
  <2>1. /\ Begin(q, "sync", users[u].email, u, None, {}, "load")
        /\ {} \in SUBSET NovaRole /\ u \in Rows(users)
    BY <1>3 DEF SyncUserToKeycloak, AdminRequest
  <2> QED  BY <1>0, <2>1, BeginStep
<1>4. ASSUME NEW u \in User, NEW r \in NovaRole, SetUserRoles(q, u, {r})  PROVE IInv'
  <2>1. /\ Begin(q, "setRoles", users[u].email, u, None, {r}, "setRoles")
        /\ {r} \in SUBSET NovaRole /\ u \in Rows(users)
    BY <1>4 DEF SetUserRoles, AdminRequest
  <2> QED  BY <1>0, <2>1, BeginStep
<1> QED  BY <1>1, <1>2, <1>3, <1>4

\* What the invariant says of a request under way.
LEMMA Has ==
    ASSUME IInv, NEW q \in Req, req[q] # Idle
    PROVE  Known(q) /\ Exact(q) /\ DOMAIN req[q] = ReqFields
BY DEF IInv, Requests, Known

\* A request ends.
LEMMA EndStep ==
    ASSUME IInv, NEW q \in Req, req[q] # Idle, End(q),
           UNCHANGED <<users, roles, accounts, realm, actedAs>>
    PROVE  IInv'
<1>1. DOMAIN req = Req
  BY DEF IInv, Types
<1>2. DOMAIN req' = Req /\ req'[q] = Idle /\ \A p \in Req \ {q} : req'[p] = req[p]
  BY <1>1 DEF End
<1> QED  BY <1>2, QuietStep

\* A person is answered as a profile that is linked to the account.
LEMMA AnswerStep ==
    ASSUME IInv, NEW q \in Req, req[q] # Idle, NEW u \in User, Answer(q, u),
           users' \in [User -> Profile \cup {None}], roles' \in [User -> SUBSET NovaRole],
           UNCHANGED <<accounts, realm>>, Unique', Linked', Grows, Elsewhere(req[q].email),
           u \in Rows(users)', users'[u].kc = req[q].kc
    PROVE  IInv'
<1>1. /\ DOMAIN req' = Req /\ req'[q] = Idle /\ \A p \in Req \ {q} : req'[p] = req[p]
      /\ actedAs' = [actedAs EXCEPT ![req[q].kc] = @ \cup {u}]
  BY DEF IInv, Types, Answer, End
<1>3. Types'
  BY <1>1 DEF IInv, Types
<1>2. Acted'
  <2> SUFFICES ASSUME NEW a \in Account, NEW v \in actedAs'[a]  PROVE v \in Rows(users)' /\ users'[v].kc = a
    BY DEF Acted
  <2>1. CASE v \in actedAs[a]
    <3>1. v \in Rows(users) /\ users[v].kc = a
      BY <2>1 DEF IInv, Acted
    <3> QED  BY <3>1, NoneIsNoRow DEF Grows
  <2>2. CASE v \notin actedAs[a]
    BY <1>1, <2>2 DEF IInv, Types
  <2> QED  BY <2>1, <2>2
<1> QED  BY <1>1, <1>2, <1>3, OwnStep

\* A profile is linked to the account of its address.
LEMMA Links ==
    ASSUME IInv, NEW u \in Rows(users), NEW a \in Rows(accounts), accounts[a].email = users[u].email,
           UniqueAccount(u, a), users' = [users EXCEPT ![u].kc = a], UNCHANGED <<roles, accounts>>
    PROVE  /\ users' \in [User -> Profile \cup {None}]
           /\ Unique' /\ Linked' /\ Grows /\ Elsewhere(users[u].email)
           /\ u \in Rows(users)' /\ users'[u].kc = a /\ users'[u].email = users[u].email
           /\ users'[u].active = users[u].active
<1>0. Types /\ Unique /\ Linked
  BY DEF IInv
<1>1. u \in User /\ users[u] \in Profile /\ a \in Account /\ a # None
  BY <1>0, NoneIsNoRow DEF Types, Rows
<1> DEFINE y == [users[u] EXCEPT !.kc = a]
<1>2. /\ y \in Profile /\ y.kc = a /\ y.email = users[u].email /\ y.active = users[u].active
      /\ users' = [users EXCEPT ![u] = y]
  BY <1>1 DEF Profile
<1> HIDE DEF y
<1>3. users' \in [User -> Profile \cup {None}]
  BY <1>0, <1>2 DEF Types
<1>4. Rows(users)' = Rows(users) /\ Rows(accounts)' = Rows(accounts)
  BY <1>0, <1>1, <1>2, NoneIsNoRow DEF Types, Rows
<1>5. /\ users'[u] = y /\ \A v \in Rows(users) \ {u} : users'[v] = users[v]
  BY <1>0, <1>1, <1>2 DEF Types, Rows
<1>6. \A v \in Rows(users) : users[v].kc = a => v = u
  BY <1>1 DEF UniqueAccount, WithAccount
<1>7. Unique'
  <2>1. \A v, w \in Rows(users)' : users'[v].email = users'[w].email => v = w
    BY <1>0, <1>2, <1>4, <1>5, <1>6 DEF Unique
  <2>2. \A v, w \in Rows(users)' : users'[v].kc = users'[w].kc /\ users'[v].kc # None => v = w
    BY <1>0, <1>2, <1>4, <1>5, <1>6 DEF Unique
  <2> QED  BY <1>0, <1>4, <2>1, <2>2 DEF Unique
<1>8. Linked'
  BY <1>0, <1>2, <1>4, <1>5 DEF Linked
<1>9. Elsewhere(users[u].email)
  BY <1>5 DEF Elsewhere
<1>10. users[u].kc # None => users[u].kc = a
  BY <1>0 DEF Linked, Unique
<1>11. Grows
  BY <1>2, <1>4, <1>5, <1>10 DEF Grows
<1> QED  BY <1>2, <1>3, <1>4, <1>5, <1>7, <1>8, <1>9, <1>11

\* A profile is created.
LEMMA Inserts ==
    ASSUME IInv, NEW u \in User \ Rows(users), NEW e \in Email, NEW a, InsertUser(u, e, a),
           a = None \/ (a \in Rows(accounts) /\ accounts[a].email = e), UNCHANGED <<roles, accounts>>
    PROVE  /\ users' \in [User -> Profile \cup {None}]
           /\ Unique' /\ Linked' /\ Grows /\ Elsewhere(e)
           /\ u \in Rows(users)' /\ users'[u].kc = a /\ users'[u].email = e
           /\ users'[u].active = TRUE
<1>0. Types /\ Unique /\ Linked
  BY DEF IInv
<1> DEFINE y == [email |-> e, kc |-> a, active |-> TRUE]
<1>1. a \in Account \cup {None}
  BY <1>0 DEF Types, Rows
<1>2. /\ y \in Profile /\ y.kc = a /\ y.email = e /\ y.active = TRUE
      /\ users' = [users EXCEPT ![u] = y]
  BY <1>1 DEF Profile, InsertUser
<1> HIDE DEF y
<1>3. users' \in [User -> Profile \cup {None}]
  BY <1>0, <1>2 DEF Types
<1>4. Rows(users)' = Rows(users) \cup {u} /\ Rows(accounts)' = Rows(accounts)
  BY <1>0, <1>2, NoneIsNoRow DEF Types, Rows
<1>5. /\ users'[u] = y /\ \A v \in Rows(users) : users'[v] = users[v]
  BY <1>0, <1>2 DEF Types, Rows
<1>6. /\ \A v \in Rows(users) : users[v].email # e
      /\ a # None => \A v \in Rows(users) : users[v].kc # a
  BY DEF InsertUser, UniqueEmail, UniqueAccount, WithAccount, WithEmail
<1>7. Unique'
  <2>1. \A v, w \in Rows(users)' : users'[v].email = users'[w].email => v = w
    BY <1>0, <1>2, <1>4, <1>5, <1>6 DEF Unique
  <2>2. \A v, w \in Rows(users)' : users'[v].kc = users'[w].kc /\ users'[v].kc # None => v = w
    BY <1>0, <1>2, <1>4, <1>5, <1>6 DEF Unique
  <2> QED  BY <1>0, <1>4, <2>1, <2>2 DEF Unique
<1>8. Linked'
  BY <1>0, <1>2, <1>4, <1>5 DEF Linked
<1>9. Elsewhere(e)
  BY <1>5 DEF Elsewhere
<1>11. Grows
  BY <1>4, <1>5 DEF Grows
<1> QED  BY <1>2, <1>3, <1>4, <1>5, <1>7, <1>8, <1>9, <1>11

\* The other fields of a request stay.
Same(q, F) == \A f \in ReqFields \ F : req'[q][f] = req[q][f]

LEMMA Sames ==
    ASSUME NEW q, NEW F \in SUBSET ReqFields, Same(q, F)
    PROVE  /\ "op" \notin F => req'[q].op = req[q].op
           /\ "email" \notin F => req'[q].email = req[q].email
           /\ "user" \notin F => req'[q].user = req[q].user
           /\ "kc" \notin F => req'[q].kc = req[q].kc
           /\ "want" \notin F => req'[q].want = req[q].want
           /\ "active" \notin F => req'[q].active = req[q].active
           /\ "linked" \notin F => req'[q].linked = req[q].linked
           /\ "reused" \notin F => req'[q].reused = req[q].reused
           /\ "add" \notin F => req'[q].add = req[q].add
           /\ "remove" \notin F => req'[q].remove = req[q].remove
           /\ "status" \notin F => req'[q].status = req[q].status
           /\ "phase" \notin F => req'[q].phase = req[q].phase
           /\ "alone" \notin F => req'[q].alone = req[q].alone
BY DEF Same, ReqFields

\* Only the phase of a request changes.
LEMMA Goes ==
    ASSUME IInv, NEW q \in Req, req[q] # Idle, NEW phase, GoTo(q, phase)
    PROVE  /\ DOMAIN req' = Req /\ \A p \in Req \ {q} : req'[p] = req[p]
           /\ DOMAIN req'[q] = ReqFields /\ req'[q].phase = phase
           /\ req'[q].op = req[q].op /\ req'[q].email = req[q].email
           /\ req'[q].user = req[q].user /\ req'[q].kc = req[q].kc /\ req'[q].want = req[q].want
           /\ req'[q].active = req[q].active /\ req'[q].linked = req[q].linked
           /\ req'[q].reused = req[q].reused /\ req'[q].add = req[q].add /\ req'[q].remove = req[q].remove
           /\ req'[q].status = req[q].status /\ req'[q].alone = req[q].alone
<1>1. /\ DOMAIN req' = Req /\ \A p \in Req \ {q} : req'[p] = req[p]
      /\ DOMAIN req'[q] = ReqFields /\ req'[q].phase = phase /\ Same(q, {"phase"})
  BY Has DEF GoTo, IInv, Types, ReqFields, Same
<1>2. {"phase"} \in SUBSET ReqFields
  BY DEF ReqFields
<1> QED  BY <1>1, <1>2, Sames

\* Nothing but a request changes.
Quiet == UNCHANGED <<users, roles, accounts, realm, actedAs>>

LEMMA QuietData ==
    ASSUME IInv, NEW e, UNCHANGED <<users, roles, accounts>>
    PROVE  /\ users' \in [User -> Profile \cup {None}] /\ roles' \in [User -> SUBSET NovaRole]
           /\ Unique' /\ Linked' /\ Grows /\ Elsewhere(e)
BY DEF IInv, Types, Unique, Linked, Rows, Grows, Elsewhere

LEMMA ResolveStep ==
    ASSUME IInv, NEW q \in Req, Resolve(q)
    PROVE  IInv'
<1>0. Types /\ Unique /\ Linked
  BY DEF IInv
<1>1. CASE FindByKeycloakId(q)
  <2>1. req[q] # Idle /\ req[q].phase = "byKeycloak" /\ UNCHANGED <<users, roles, accounts, realm>>
    BY <1>1 DEF FindByKeycloakId, At, database, keycloak
  <2>2. Known(q) /\ req[q].kc \in Rows(accounts)
    BY <2>1, Has DEF Known, AccountPhases
  <2>3. CASE GoTo(q, "byEmail") /\ UNCHANGED actedAs
    <3>1. req'[q].phase = "byEmail"
      BY <2>1, <2>3, Goes
    <3>2. Known(q)'
      BY <2>1, <2>2, <2>3, <3>1, Goes DEF Known, ShownSynced, NewPhases, AccountPhases, FoundPhases,
         UserPhases, KcPhases, EnabledPhases, Rows
    <3>3. Exact(q)'
      BY <3>1 DEF Exact, ShownSynced, NewPhases, AccountPhases, FoundPhases,
         UserPhases, KcPhases, EnabledPhases, Rows
    <3> QED  BY <2>1, <2>3, <3>2, <3>3, Goes, QuietStep
  <2>4. CASE \E u \in WithAccount(req[q].kc) : Answer(q, u)
    <3>1. PICK u \in Rows(users) : users[u].kc = req[q].kc /\ Answer(q, u)
      BY <2>4 DEF WithAccount
    <3>2. u \in User /\ u \in Rows(users)' /\ users'[u].kc = req[q].kc
      BY <1>0, <2>1, <3>1 DEF Types, Rows
    <3> QED  BY <2>1, <3>1, <3>2, QuietData, AnswerStep
  <2> QED  BY <1>1, <2>3, <2>4 DEF FindByKeycloakId
<1>2. CASE FindByEmail(q)
  <2>1. req[q] # Idle /\ req[q].phase = "byEmail" /\ UNCHANGED <<users, roles, accounts, realm>>
    BY <1>2 DEF FindByEmail, At, database, keycloak
  <2>2. Known(q) /\ req[q].kc \in Rows(accounts) /\ accounts[req[q].kc].email = req[q].email
    BY <2>1, Has DEF Known, AccountPhases
  <2>3. CASE GoTo(q, "create") /\ UNCHANGED actedAs
    <3>1. req'[q].phase = "create"
      BY <2>1, <2>3, Goes
    <3>2. Known(q)'
      BY <2>1, <2>2, <2>3, <3>1, Goes DEF Known, ShownSynced, NewPhases, AccountPhases, FoundPhases,
         UserPhases, KcPhases, EnabledPhases, Rows
    <3>3. Exact(q)'
      BY <3>1 DEF Exact, ShownSynced, NewPhases, AccountPhases, FoundPhases,
         UserPhases, KcPhases, EnabledPhases, Rows
    <3> QED  BY <2>1, <2>3, <3>2, <3>3, Goes, QuietStep
  <2>4. ASSUME NEW u \in WithEmail(req[q].email), users[u].kc # None, Answer(q, u)  PROVE IInv'
    <3>1. u \in Rows(users) /\ users[u].email = req[q].email
      BY <2>4 DEF WithEmail
    <3>2. users[u].kc = req[q].kc
      BY <1>0, <2>2, <2>4, <3>1 DEF Linked, Unique
    <3>3. u \in User /\ u \in Rows(users)' /\ users'[u].kc = req[q].kc
      BY <1>0, <2>1, <3>1, <3>2 DEF Types, Rows
    <3> QED  BY <2>1, <2>4, <3>3, QuietData, AnswerStep
  <2>5. ASSUME NEW u \in WithEmail(req[q].email), UNCHANGED actedAs,
               req' = [req EXCEPT ![q].user = u, ![q].phase = "link"]
        PROVE  IInv'
    <3>1. u \in Rows(users) /\ users[u].email = req[q].email
      BY <2>5 DEF WithEmail
    <3>2. /\ DOMAIN req' = Req /\ \A p \in Req \ {q} : req'[p] = req[p]
          /\ DOMAIN req'[q] = ReqFields /\ req'[q].phase = "link" /\ req'[q].user = u
          /\ Same(q, {"phase", "user"})
      BY <1>0, <2>1, <2>5, Has DEF Types, ReqFields, Same
    <3>3. Known(q)' /\ Exact(q)' /\ req'[q].email = req[q].email /\ req'[q].alone = req[q].alone
      BY <2>1, <2>2, <3>1, <3>2, Sames DEF Known, Exact, ShownSynced, NewPhases, AccountPhases, FoundPhases,
         UserPhases, KcPhases, EnabledPhases, Rows, ReqFields
    <3> QED  BY <2>1, <2>5, <3>2, <3>3, QuietStep
  <2> QED  BY <1>2, <2>3, <2>4, <2>5 DEF FindByEmail
<1>3. CASE LinkKeycloakId(q)
  <2>1. req[q] # Idle /\ req[q].phase = "link" /\ UNCHANGED <<roles, accounts, realm>>
    BY <1>3 DEF LinkKeycloakId, At, keycloak
  <2>2. /\ req[q].kc \in Rows(accounts) /\ accounts[req[q].kc].email = req[q].email
        /\ req[q].user \in Rows(users) /\ users[req[q].user].email = req[q].email
    BY <2>1, Has DEF Known, AccountPhases, UserPhases
  <2>3. CASE End(q) /\ UNCHANGED <<users, actedAs>>
    BY <2>1, <2>3, EndStep
  <2>4. CASE /\ UniqueAccount(req[q].user, req[q].kc) /\ Answer(q, req[q].user)
             /\ users' = [users EXCEPT ![req[q].user].kc = req[q].kc]
    <3>1. req[q].user \in User /\ roles' \in [User -> SUBSET NovaRole]
      BY <1>0, <2>1, <2>2 DEF Types, Rows
    <3>0. accounts[req[q].kc].email = users[req[q].user].email /\ UNCHANGED <<roles, accounts>>
      BY <2>1, <2>2
    <3>2. /\ users' \in [User -> Profile \cup {None}]
          /\ Unique' /\ Linked' /\ Grows /\ Elsewhere(users[req[q].user].email)
          /\ req[q].user \in Rows(users)' /\ users'[req[q].user].kc = req[q].kc
      BY <2>2, <2>4, <3>0, Links
    <3> QED  BY <2>1, <2>2, <2>4, <3>1, <3>2, AnswerStep
  <2> QED  BY <1>3, <2>3, <2>4 DEF LinkKeycloakId
<1>4. CASE CreateProfile(q)
  <2>1. req[q] # Idle /\ req[q].phase = "create" /\ UNCHANGED <<roles, accounts, realm>>
    BY <1>4 DEF CreateProfile, At, keycloak
  <2>2. /\ Known(q) /\ req[q].email \in Email
        /\ req[q].kc \in Rows(accounts) /\ accounts[req[q].kc].email = req[q].email
    BY <2>1, Has DEF Known, AccountPhases
  <2>3. CASE End(q) /\ UNCHANGED <<users, actedAs>>
    BY <2>1, <2>3, EndStep
  <2>4. ASSUME NEW u \in User \ Rows(users), InsertUser(u, req[q].email, req[q].kc),
               \/ Answer(q, u)
               \/ req' = [req EXCEPT ![q].user = u, ![q].phase = "roles"] /\ UNCHANGED actedAs
        PROVE  IInv'
    <3>1. /\ users' \in [User -> Profile \cup {None}] /\ roles' \in [User -> SUBSET NovaRole]
          /\ Unique' /\ Linked' /\ Grows /\ Elsewhere(req[q].email)
          /\ u \in Rows(users)' /\ users'[u].kc = req[q].kc /\ users'[u].email = req[q].email
      BY <1>0, <2>1, <2>2, <2>4, Inserts DEF Types
    <3>2. CASE Answer(q, u)
      BY <2>1, <2>4, <3>1, <3>2, AnswerStep
    <3>3. CASE req' = [req EXCEPT ![q].user = u, ![q].phase = "roles"] /\ UNCHANGED actedAs
      <4>1. /\ DOMAIN req' = Req /\ \A p \in Req \ {q} : req'[p] = req[p]
            /\ DOMAIN req'[q] = ReqFields /\ req'[q].phase = "roles" /\ req'[q].user = u
            /\ Same(q, {"phase", "user"})
        BY <1>0, <2>1, <3>3, Has DEF Types, ReqFields, Same
      <4>2. Known(q)' /\ Exact(q)' /\ req'[q].email = req[q].email /\ req'[q].alone = req[q].alone
        BY <2>1, <2>2, <3>1, <4>1, Sames DEF Known, Exact, ShownSynced, NewPhases, AccountPhases, FoundPhases,
           UserPhases, KcPhases, EnabledPhases, Rows, ReqFields
      <4>3. Types' /\ Acted'
        BY <1>0, <2>1, <3>1, <3>3, <4>1, NoneIsNoRow DEF Types, IInv, Acted, Grows
      <4> QED  BY <2>1, <3>1, <4>1, <4>2, <4>3, OwnStep
    <3> QED  BY <2>4, <3>2, <3>3
  <2> QED  BY <1>4, <2>3, <2>4 DEF CreateProfile
<1>5. CASE SeedRoles(q)
  <2>1. /\ req[q] # Idle /\ req[q].phase = "roles" /\ UNCHANGED <<users, accounts, realm>>
        /\ roles' = [roles EXCEPT ![req[q].user] = req[q].want] /\ Answer(q, req[q].user)
    BY <1>5 DEF SeedRoles, At, keycloak, ReplaceRoles
  <2>2. /\ req[q].want \subseteq NovaRole /\ req[q].user \in Rows(users)
        /\ users[req[q].user].email = req[q].email /\ users[req[q].user].kc = req[q].kc
    BY <2>1, Has DEF Known, UserPhases
  <2>3. /\ roles' \in [User -> SUBSET NovaRole] /\ users' \in [User -> Profile \cup {None}]
        /\ Unique' /\ Linked' /\ Grows /\ Elsewhere(req[q].email)
    BY <1>0, <2>1, <2>2 DEF Types, Unique, Linked, Rows, Grows, Elsewhere
  <2>4. req[q].user \in User /\ req[q].user \in Rows(users)' /\ users'[req[q].user].kc = req[q].kc
    BY <1>0, <2>1, <2>2 DEF Types, Rows
  <2> QED  BY <2>1, <2>3, <2>4, AnswerStep
<1> QED  BY <1>1, <1>2, <1>3, <1>4, <1>5 DEF Resolve

\* A step of a request goes to the next phase and writes nothing, or ends it.
LEMMA GoStep ==
    ASSUME IInv, NEW q \in Req, req[q] # Idle, Quiet, NEW phase, GoTo(q, phase), Known(q)', Exact(q)'
    PROVE  IInv'
BY Goes, QuietStep DEF Quiet

LEMMA AdministerStep ==
    ASSUME IInv, NEW q \in Req, Administer(q)
    PROVE  IInv'
<1>0. Types /\ Unique /\ Linked
  BY DEF IInv
<1>1. CASE CheckTaken(q)
  <2>1. req[q] # Idle /\ req[q].phase = "taken" /\ Quiet
    BY <1>1 DEF CheckTaken, At, database, keycloak, Quiet
  <2>2. CASE End(q)
    BY <2>1, <2>2, EndStep DEF Quiet
  <2>3. CASE GoTo(q, "insert")
    <3>1. Known(q) /\ req'[q].phase = "insert"
      BY <2>1, <2>3, Has, Goes
    <3>2. Known(q)'
      BY <2>1, <2>3, <3>1, Goes DEF Known, ShownSynced, NewPhases, AccountPhases, FoundPhases,
         UserPhases, KcPhases, EnabledPhases, Rows
    <3>3. Exact(q)'
      BY <3>1 DEF Exact, ShownSynced, NewPhases, AccountPhases, FoundPhases,
         UserPhases, KcPhases, EnabledPhases, Rows
    <3> QED  BY <2>1, <2>3, <3>2, <3>3, GoStep
  <2> QED  BY <1>1, <2>2, <2>3 DEF CheckTaken
<1>2. CASE StoreUser(q)
  <2>1. req[q] # Idle /\ req[q].phase = "insert" /\ UNCHANGED <<roles, accounts, realm, actedAs>>
    BY <1>2 DEF StoreUser, At, keycloak
  <2>2. Known(q) /\ req[q].email \in Email
    BY <2>1, Has DEF Known
  <2>3. CASE End(q) /\ UNCHANGED users
    BY <2>1, <2>3, EndStep
  <2>4. ASSUME NEW u \in User \ Rows(users), InsertUser(u, req[q].email, None),
               req' = [req EXCEPT ![q].user = u, ![q].phase = "storeRoles"]
        PROVE  IInv'
    <3>1. /\ users' \in [User -> Profile \cup {None}] /\ roles' \in [User -> SUBSET NovaRole]
          /\ Unique' /\ Linked' /\ Grows /\ Elsewhere(req[q].email)
          /\ u \in Rows(users)' /\ users'[u].email = req[q].email /\ users'[u].active = TRUE
      BY <1>0, <2>1, <2>2, <2>4, Inserts DEF Types
    <3>2. /\ DOMAIN req' = Req /\ \A p \in Req \ {q} : req'[p] = req[p]
          /\ DOMAIN req'[q] = ReqFields /\ req'[q].phase = "storeRoles" /\ req'[q].user = u
          /\ Same(q, {"phase", "user"})
      BY <1>0, <2>1, <2>4, Has DEF Types, ReqFields, Same
    <3>3. Known(q)' /\ Exact(q)' /\ req'[q].email = req[q].email /\ req'[q].alone = req[q].alone
      BY <2>1, <2>2, <3>1, <3>2, Sames DEF Known, Exact, ShownSynced, NewPhases, AccountPhases, FoundPhases,
         UserPhases, KcPhases, EnabledPhases, Rows, ReqFields
    <3>4. Types' /\ Acted'
      BY <1>0, <2>1, <3>1, <3>2, NoneIsNoRow DEF Types, IInv, Acted, Grows
    <3> QED  BY <2>1, <3>1, <3>2, <3>3, <3>4, OwnStep
  <2> QED  BY <1>2, <2>3, <2>4 DEF StoreUser
<1>3. ASSUME NEW phase \in {"kcCreate", "load"}, req[q] # Idle,
             req[q].phase \in {"storeRoles", "setRoles"},
             roles' = [roles EXCEPT ![req[q].user] = req[q].want],
             GoTo(q, phase), UNCHANGED <<users, accounts, realm, actedAs>>,
             phase = "kcCreate" => req[q].phase = "storeRoles"
      PROVE  IInv'
  <2>2. /\ Known(q) /\ req[q].want \subseteq NovaRole /\ req[q].user \in Rows(users)
        /\ users[req[q].user].email = req[q].email
        /\ phase = "kcCreate" => /\ req[q].op = "create" /\ req[q].linked = FALSE
                                 /\ req[q].active = TRUE
        /\ (phase = "kcCreate" /\ req[q].alone) => users[req[q].user].active = TRUE
    BY <1>3, Has DEF Known, Exact, UserPhases, NewPhases
  <2>3. roles' \in [User -> SUBSET NovaRole] /\ roles'[req[q].user] = req[q].want
    BY <1>0, <1>3, <2>2 DEF Types, Rows
  <2>4. Unique' /\ Linked' /\ Grows /\ Elsewhere(req[q].email)
    BY <1>0, <1>3, <2>2 DEF Types, Unique, Linked, Rows, Grows, Elsewhere
  <2>5. Types' /\ Acted'
    BY <1>0, <1>3, <2>3, Goes DEF Types, IInv, Acted, Rows
  <2>6. req'[q].phase = phase
    BY <1>3, Goes
  <2>7. Known(q)'
    BY <1>3, <2>2, <2>6, Goes DEF Known, ShownSynced, NewPhases, AccountPhases, FoundPhases,
         UserPhases, KcPhases, EnabledPhases, Rows
  <2>8. Exact(q)'
    BY <1>3, <2>2, <2>3, <2>6, Goes DEF Exact, ShownSynced, NewPhases, AccountPhases, FoundPhases,
         UserPhases, KcPhases, EnabledPhases, Rows
  <2> QED  BY <1>3, <2>4, <2>5, <2>7, <2>8, Goes, OwnStep
<1>4. CASE StoreRoles(q)
  BY <1>3, <1>4 DEF StoreRoles, At, keycloak, ReplaceRoles
<1>5. CASE StoreNewRoles(q)
  BY <1>3, <1>5 DEF StoreNewRoles, At, keycloak, ReplaceRoles
<1>6. CASE StoreUpdate(q)
  <2>1. /\ req[q] # Idle /\ req[q].phase = "update" /\ UNCHANGED <<roles, accounts, realm, actedAs>>
        /\ GoTo(q, "load")
    BY <1>6 DEF StoreUpdate, At, keycloak
  <2> DEFINE u == req[q].user
  <2>2. Known(q) /\ u \in Rows(users) /\ users[u].email = req[q].email
    BY <2>1, Has DEF Known, UserPhases
  <2>3. PICK active \in BOOLEAN : users' = [users EXCEPT ![u].active = active]
    BY <1>6 DEF StoreUpdate
  <2> DEFINE y == [users[u] EXCEPT !.active = active]
  <2>4. /\ u \in User /\ users' = [users EXCEPT ![u] = y] /\ y \in Profile
        /\ y.email = users[u].email /\ y.kc = users[u].kc
    BY <1>0, <2>2, <2>3 DEF Types, Rows, Profile
  <2> HIDE DEF y, u
  <2>5. /\ users' \in [User -> Profile \cup {None}] /\ Rows(users)' = Rows(users)
        /\ users'[u] = y /\ \A v \in Rows(users) \ {u} : users'[v] = users[v]
    BY <1>0, <2>2, <2>4, NoneIsNoRow DEF Types, Rows
  <2>6. \A v \in Rows(users) : users'[v].email = users[v].email /\ users'[v].kc = users[v].kc
    BY <2>4, <2>5
  <2>7. Unique' /\ Linked' /\ Grows
    BY <1>0, <2>1, <2>5, <2>6 DEF Unique, Linked, Grows, Rows
  <2>8. Elsewhere(req[q].email)
    BY <2>1, <2>2, <2>5 DEF Elsewhere, u
  <2>9. Types' /\ Acted'
    BY <1>0, <2>1, <2>5, <2>6, Goes DEF Types, IInv, Acted
  <2>10. req'[q].phase = "load" /\ u \in Rows(users)' /\ users'[u].email = req[q].email
    BY <2>1, <2>2, <2>5, <2>6, Goes
  <2>11. Known(q)'
    BY <2>2, <2>10, <2>1, Goes DEF Known, ShownSynced, u, NewPhases, AccountPhases, FoundPhases,
         UserPhases, KcPhases, EnabledPhases, Rows
  <2>12. Exact(q)'
    BY <2>10 DEF Exact, ShownSynced, NewPhases, AccountPhases, FoundPhases,
         UserPhases, KcPhases, EnabledPhases, Rows
  <2> QED  BY <2>1, <2>7, <2>8, <2>9, <2>11, <2>12, Goes, OwnStep
<1>7. CASE Load(q)
  <2>1. req[q] # Idle /\ req[q].phase = "load" /\ Quiet
    BY <1>7 DEF Load, At, database, keycloak, Quiet
  <2> DEFINE u == req[q].user
             next == IF users[u].kc = None THEN "kcFind" ELSE "kcEnable"
  <2>2. CASE End(q)
    BY <2>1, <2>2, EndStep DEF Quiet
  <2>3. CASE req' = [req EXCEPT ![q].kc = users[u].kc, ![q].linked = (users[u].kc # None),
                                ![q].active = users[u].active, ![q].want = roles[u], ![q].phase = next]
    <3>1. /\ Known(q) /\ u \in Rows(users) /\ users[u].email = req[q].email
      BY <2>1, Has DEF Known, UserPhases
    <3>2. users[u] \in Profile /\ roles[u] \subseteq NovaRole
      BY <1>0, <3>1 DEF Types, Rows
    <3>3. /\ DOMAIN req' = Req /\ \A p \in Req \ {q} : req'[p] = req[p]
          /\ DOMAIN req'[q] = ReqFields
          /\ req'[q].phase = next /\ req'[q].kc = users[u].kc
          /\ req'[q].linked = (users[u].kc # None) /\ req'[q].active = users[u].active
          /\ req'[q].want = roles[u]
          /\ Same(q, {"phase", "kc", "linked", "active", "want"})
      BY <1>0, <2>1, <2>3, Has DEF Types, ReqFields, Same
    <3>4. /\ req'[q].op = req[q].op /\ req'[q].email = req[q].email /\ req'[q].user = u
          /\ req'[q].add = req[q].add /\ req'[q].alone = req[q].alone
          /\ req'[q].reused = req[q].reused
      BY <3>3 DEF Same, ReqFields
    <3>5. users[u].kc # None => users[u].kc \in Rows(accounts) /\ accounts[users[u].kc].email = req[q].email
      BY <1>0, <3>1 DEF Linked
    <3>6. \/ next = "kcFind" /\ users[u].kc = None
          \/ next = "kcEnable" /\ users[u].kc # None
      OBVIOUS
    <3> HIDE DEF u, next
    <3>7. Known(q)'
      BY <2>1, <3>1, <3>2, <3>3, <3>4, <3>5, <3>6 DEF Known, ShownSynced, Quiet, Profile, NewPhases, AccountPhases, FoundPhases,
         UserPhases, KcPhases, EnabledPhases, Rows
    <3>8. Exact(q)'
      BY <2>1, <3>3, <3>4, <3>6 DEF Exact, ShownSynced, Quiet, NewPhases, AccountPhases, FoundPhases,
         UserPhases, KcPhases, EnabledPhases, Rows
    <3> QED  BY <2>1, <3>3, <3>4, <3>7, <3>8, QuietStep DEF Quiet
  <2> QED  BY <1>7, <2>2, <2>3 DEF Load
<1> QED  BY <1>1, <1>2, <1>4, <1>5, <1>6, <1>7 DEF Administer

\* An account is written, and keeps its address.
LEMMA Writes ==
    ASSUME IInv, NEW a \in Rows(accounts), NEW y \in Login, y.email = accounts[a].email,
           accounts' = [accounts EXCEPT ![a] = y], UNCHANGED <<users, roles>>
    PROVE  /\ accounts' \in [Account -> Login \cup {None}]
           /\ Unique' /\ Linked' /\ Grows /\ Elsewhere(accounts[a].email)
           /\ accounts'[a] = y /\ a \in Rows(accounts)' /\ Rows(users)' = Rows(users)
<1>0. Types /\ Unique /\ Linked
  BY DEF IInv
<1>1. /\ accounts' \in [Account -> Login \cup {None}]
      /\ Rows(accounts)' = Rows(accounts) /\ Rows(users)' = Rows(users)
      /\ accounts'[a] = y /\ \A b \in Rows(accounts) \ {a} : accounts'[b] = accounts[b]
  BY <1>0, NoneIsNoRow DEF Types, Rows
<1>2. \A b \in Rows(accounts) : accounts'[b].email = accounts[b].email
  BY <1>1
<1>3. Unique' /\ Linked' /\ Grows
  <2>1. Unique'
    <3>1. \A b, c \in Rows(accounts)' : accounts'[b].email = accounts'[c].email => b = c
      BY <1>0, <1>1, <1>2 DEF Unique
    <3>2. /\ \A v, w \in Rows(users)' : users'[v].email = users'[w].email => v = w
          /\ \A v, w \in Rows(users)' : users'[v].kc = users'[w].kc /\ users'[v].kc # None => v = w
      BY <1>0, <1>1 DEF Unique
    <3> QED  BY <3>1, <3>2 DEF Unique
  <2>2. Linked'
    BY <1>0, <1>1, <1>2 DEF Linked
  <2>3. Grows
    BY <1>1, <1>2 DEF Grows
  <2> QED  BY <2>1, <2>2, <2>3
<1>4. Elsewhere(accounts[a].email)
  BY <1>1 DEF Elsewhere
<1> QED  BY <1>1, <1>3, <1>4

\* A request writes the account that it has found.
LEMMA WriteStep ==
    ASSUME IInv, NEW q \in Req, req[q] # Idle, req[q].kc \in Rows(accounts),
           accounts[req[q].kc].email = req[q].email, NEW y \in Login, y.email = req[q].email,
           accounts' = [accounts EXCEPT ![req[q].kc] = y], UNCHANGED <<users, roles, realm, actedAs>>,
           NEW phase, GoTo(q, phase), Known(q)', Exact(q)'
    PROVE  IInv'
<1>1. /\ accounts' \in [Account -> Login \cup {None}] /\ Unique' /\ Linked' /\ Grows
      /\ Elsewhere(req[q].email) /\ Rows(users)' = Rows(users)
  BY Writes
<1>2. Types' /\ Acted'
  BY <1>1, Goes DEF Types, IInv, Acted
<1> QED  BY <1>1, <1>2, Goes, OwnStep

LEMMA ReconcileStep ==
    ASSUME IInv, NEW q \in Req, Reconcile(q)
    PROVE  IInv'
<1>0. Types /\ Unique /\ Linked
  BY DEF IInv
<1> DEFINE u == req[q].user
           a == req[q].kc
\* The account of the address is taken, and the request goes on.
<1>1. ASSUME req[q] # Idle, req[q].phase \in {"kcFind", "kcCreate"}, Quiet,
             NEW b \in Username(req[q].email), NEW phase \in {"kcRoles", "kcEnable"},
             NEW reused \in BOOLEAN,
             phase = "kcRoles" => req[q].op = "create" /\ reused = TRUE,
             \/ req' = [req EXCEPT ![q].kc = b, ![q].reused = reused, ![q].phase = phase]
             \/ /\ req' = [req EXCEPT ![q].kc = b, ![q].phase = phase]
                /\ reused = req[q].reused
      PROVE  IInv'
  <2>1. /\ DOMAIN req' = Req /\ \A p \in Req \ {q} : req'[p] = req[p]
        /\ DOMAIN req'[q] = ReqFields /\ req'[q].phase = phase /\ req'[q].kc = b
        /\ req'[q].reused = reused /\ Same(q, {"phase", "kc", "reused"})
    BY <1>0, <1>1, Has DEF Types, ReqFields, Same
  <2>2. /\ req'[q].op = req[q].op /\ req'[q].email = req[q].email /\ req'[q].user = req[q].user
        /\ req'[q].want = req[q].want /\ req'[q].active = req[q].active
        /\ req'[q].linked = req[q].linked /\ req'[q].add = req[q].add /\ req'[q].alone = req[q].alone
    BY <2>1 DEF Same, ReqFields
  <2>3. b \in Rows(accounts) /\ accounts[b].email = req[q].email
    BY <1>1 DEF Username
  <2>4. Known(q)'
    <3>1. /\ req[q].email \in Email /\ req[q].want \subseteq NovaRole /\ req[q].add \subseteq NovaRole
          /\ req[q].active \in BOOLEAN /\ req[q].linked = FALSE
          /\ req[q].user \in Rows(users) /\ users[req[q].user].email = req[q].email
      BY <1>1, Has DEF Known, KcPhases
    <3>2. UNCHANGED <<users, accounts>>
      BY <1>1 DEF Quiet
    <3> QED  BY <1>1, <2>1, <2>2, <2>3, <3>1, <3>2
             DEF Known, ShownSynced, NewPhases, AccountPhases, FoundPhases, UserPhases, KcPhases, Rows
  <2>5. Exact(q)'
    <3>1. req[q].alone => /\ req[q].want = roles[req[q].user]
                          /\ req[q].active = users[req[q].user].active
      BY <1>1, Has DEF Exact, KcPhases
    <3>2. UNCHANGED <<users, roles, accounts>>
      BY <1>1 DEF Quiet
    <3> QED  BY <1>1, <2>1, <2>2, <3>1, <3>2 DEF Exact, ShownSynced, KcPhases, EnabledPhases, LetsIn
  <2> QED  BY <1>1, <2>1, <2>2, <2>4, <2>5, QuietStep DEF Quiet
<1>2. CASE FindUserByUsername(q)
  <2>1. req[q] # Idle /\ req[q].phase = "kcFind" /\ Quiet
    BY <1>2 DEF FindUserByUsername, At, database, keycloak, Quiet
  <2>2. CASE GoTo(q, "kcCreate")
    <3>1. req'[q].phase = "kcCreate" /\ Known(q) /\ Exact(q)
      BY <2>1, <2>2, Goes, Has
    <3>2. Known(q)'
      BY <2>1, <2>2, <3>1, Goes DEF Known, ShownSynced, Quiet, NewPhases, AccountPhases, FoundPhases,
         UserPhases, KcPhases, EnabledPhases, Rows
    <3>3. Exact(q)'
      BY <2>1, <2>2, <3>1, Goes DEF Exact, ShownSynced, Quiet, NewPhases, AccountPhases, FoundPhases,
         UserPhases, KcPhases, EnabledPhases, Rows
    <3> QED  BY <2>1, <2>2, <3>2, <3>3, GoStep
  <2>3. req[q].reused \in BOOLEAN
    BY <2>1, Has DEF Known
  <2> QED  BY <1>1, <1>2, <2>1, <2>2, <2>3 DEF FindUserByUsername
<1>3. CASE CreateAccount(q)
  <2> DEFINE next == IF req[q].op = "create" THEN "kcRoles" ELSE "kcEnable"
  <2>1. req[q] # Idle /\ req[q].phase = "kcCreate" /\ UNCHANGED <<users, roles, realm, actedAs>>
    BY <1>3 DEF CreateAccount, At, database
  <2>2. next \in {"kcRoles", "kcEnable"} /\ (next = "kcRoles" => req[q].op = "create")
    OBVIOUS
  <2>3. CASE /\ \E b \in Username(req[q].email) :
                   req' = [req EXCEPT ![q].kc = b, ![q].reused = TRUE, ![q].phase = next]
             /\ UNCHANGED accounts
    BY <1>1, <2>1, <2>2, <2>3 DEF Quiet
  <2>4. ASSUME Username(req[q].email) = {}, NEW b \in Account \ Rows(accounts),
               accounts' = [accounts EXCEPT ![b] = [email |-> req[q].email, enabled |-> req[q].active,
                                                    roles |-> Intrinsic]],
               req' = [req EXCEPT ![q].kc = b, ![q].phase = next]
        PROVE  IInv'
    <3> DEFINE y == [email |-> req[q].email, enabled |-> req[q].active, roles |-> Intrinsic]
    <3>1. Known(q) /\ Exact(q) /\ req[q].linked = FALSE
      BY <2>1, Has DEF Known, NewPhases
    <3>2. /\ y \in Login /\ y.email = req[q].email /\ y.enabled = req[q].active
          /\ accounts' = [accounts EXCEPT ![b] = y]
      BY <2>4, <3>1 DEF Known, Login
    <3> HIDE DEF y, next
    <3>3. /\ accounts' \in [Account -> Login \cup {None}]
          /\ Rows(accounts)' = Rows(accounts) \cup {b} /\ Rows(users)' = Rows(users)
          /\ accounts'[b] = y /\ \A c \in Rows(accounts) : accounts'[c] = accounts[c]
      BY <1>0, <2>1, <2>4, <3>2, NoneIsNoRow DEF Types, Rows
    <3>4. \A c \in Rows(accounts) : accounts[c].email # req[q].email
      BY <2>4 DEF Username
    <3>5. \A c, d \in Rows(accounts)' : accounts'[c].email = accounts'[d].email => c = d
      BY <1>0, <3>2, <3>3, <3>4 DEF Unique
    <3>6. Unique' /\ Linked'
      BY <1>0, <2>1, <3>3, <3>5 DEF Unique, Linked
    <3>7. Grows /\ Elsewhere(req[q].email)
      BY <2>1, <3>3 DEF Grows, Elsewhere
    <3>8. /\ DOMAIN req' = Req /\ \A p \in Req \ {q} : req'[p] = req[p]
          /\ DOMAIN req'[q] = ReqFields /\ req'[q].phase = next /\ req'[q].kc = b
          /\ Same(q, {"phase", "kc"})
      BY <1>0, <2>1, <2>4, Has DEF Types, ReqFields, Same
    <3>9. /\ req'[q].op = req[q].op /\ req'[q].email = req[q].email /\ req'[q].user = req[q].user
          /\ req'[q].want = req[q].want /\ req'[q].active = req[q].active
          /\ req'[q].linked = req[q].linked /\ req'[q].add = req[q].add /\ req'[q].alone = req[q].alone
          /\ req'[q].reused = req[q].reused
      BY <3>8 DEF Same, ReqFields
    <3>10. Types' /\ Acted'
      BY <1>0, <2>1, <3>3, <3>8 DEF Types, IInv, Acted
    <3>11. Known(q)'
      BY <2>1, <2>2, <3>1, <3>2, <3>3, <3>8, <3>9 DEF Known, ShownSynced, NewPhases, AccountPhases,
         FoundPhases, UserPhases, KcPhases, EnabledPhases
    <3>12. Exact(q)'
      BY <2>1, <2>2, <3>1, <3>2, <3>3, <3>8, <3>9 DEF Exact, ShownSynced, KcPhases, EnabledPhases
    <3> QED  BY <2>1, <3>6, <3>7, <3>8, <3>9, <3>10, <3>11, <3>12, OwnStep
  <2> QED  BY <1>3, <2>3, <2>4 DEF CreateAccount
<1>4. CASE SetUserEnabled(q)
  <2>1. /\ req[q] # Idle /\ req[q].phase = "kcEnable" /\ UNCHANGED <<users, roles, realm, actedAs>>
        /\ GoTo(q, "kcRoles") /\ accounts' = [accounts EXCEPT ![a].enabled = req[q].active]
    BY <1>4 DEF SetUserEnabled, At, database
  <2>2. Known(q) /\ Exact(q) /\ a \in Rows(accounts) /\ accounts[a].email = req[q].email
    BY <2>1, Has DEF Known, FoundPhases
  <2> DEFINE y == [accounts[a] EXCEPT !.enabled = req[q].active]
  <2>3. accounts[a] \in Login /\ req[q].active \in BOOLEAN
    BY <1>0, <2>2 DEF Types, Rows, Known
  <2>4. /\ y \in Login /\ y.email = req[q].email /\ y.enabled = req[q].active
        /\ accounts' = [accounts EXCEPT ![a] = y]
    BY <2>1, <2>2, <2>3 DEF Login
  <2> HIDE DEF y
  <2>5. accounts'[a] = y /\ Rows(users)' = Rows(users) /\ a \in Rows(accounts)'
    BY <2>1, <2>2, <2>4, Writes
  <2>6. Known(q)'
    <3>1. req'[q].phase = "kcRoles" /\ accounts'[a].email = req[q].email
      BY <2>1, <2>4, <2>5, Goes
    <3>2. users[u].email = req[q].email /\ u \in Rows(users)
      BY <2>1, <2>2 DEF Known, KcPhases
    <3>3. req[q].linked => users[u].kc = a
      BY <2>1, <2>2 DEF Known, FoundPhases
    <3> QED  BY <2>1, <2>2, <2>5, <3>1, <3>2, <3>3, Goes
             DEF Known, ShownSynced, NewPhases, AccountPhases, FoundPhases, UserPhases, KcPhases
  <2>7. Exact(q)'
    BY <2>1, <2>2, <2>4, <2>5, Goes DEF Exact, ShownSynced, KcPhases, EnabledPhases
  <2> QED  BY <2>1, <2>2, <2>4, <2>6, <2>7, WriteStep
<1>5. CASE ReadRealmRoles(q)
  <2> DEFINE held == accounts[a].roles
             d == Reconciled(held, req[q].want)
             status == IF d.add \subseteq realm THEN "synced" ELSE "partial"
  <2>1. /\ req[q] # Idle /\ req[q].phase = "kcRoles" /\ Quiet
        /\ req' = [req EXCEPT ![q].add = d.add \cap realm, ![q].remove = d.remove,
                              ![q].status = status, ![q].phase = "kcAdd"]
    BY <1>5 DEF ReadRealmRoles, At, database, keycloak, Quiet
  <2>2. /\ Known(q) /\ Exact(q) /\ a \in Rows(accounts) /\ req[q].want \subseteq NovaRole
    BY <2>1, Has DEF Known, FoundPhases
  <2>3. /\ DOMAIN req' = Req /\ \A p \in Req \ {q} : req'[p] = req[p]
        /\ DOMAIN req'[q] = ReqFields /\ req'[q].phase = "kcAdd" /\ req'[q].add = d.add \cap realm
        /\ req'[q].remove = d.remove /\ req'[q].status = status
        /\ Same(q, {"phase", "add", "remove", "status"})
    BY <1>0, <2>1, Has DEF Types, ReqFields, Same
  <2>4. /\ req'[q].op = req[q].op /\ req'[q].email = req[q].email /\ req'[q].user = u
        /\ req'[q].want = req[q].want /\ req'[q].active = req[q].active /\ req'[q].kc = a
        /\ req'[q].linked = req[q].linked /\ req'[q].alone = req[q].alone
        /\ req'[q].reused = req[q].reused
    BY <2>3 DEF Same, ReqFields
  <2>5. d.add = req[q].want \ held /\ d.remove = (held \cap NovaRole) \ req[q].want
    BY DEF Reconciled
  <2>6. status = "synced" => d.add \cap realm = d.add
    OBVIOUS
  <2> HIDE DEF d, status
  <2>7. status = "synced" =>
           ((held \cup req'[q].add) \ req'[q].remove) \cap NovaRole = req[q].want
    BY <2>2, <2>3, <2>5, <2>6
  <2>8. Known(q)'
    BY <2>1, <2>2, <2>3, <2>4, <2>5 DEF Known, ShownSynced, Quiet, NewPhases, AccountPhases, FoundPhases,
         UserPhases, KcPhases, EnabledPhases, Rows
  <2>9. Exact(q)'
    <3>1. req[q].alone => /\ req[q].want = roles[u]
                          /\ req[q].active = users[u].active
                          /\ LetsIn(q) => accounts[a].enabled = req[q].active
      BY <2>1, <2>2 DEF Exact, KcPhases, EnabledPhases
    <3>2. UNCHANGED <<users, roles, accounts>>
      BY <2>1 DEF Quiet
    <3> QED  BY <2>3, <2>4, <2>7, <3>1, <3>2 DEF Exact, ShownSynced, KcPhases, EnabledPhases, LetsIn
  <2>10. /\ DOMAIN req' = Req /\ \A p \in Req \ {q} : req'[p] = req[p]
         /\ UNCHANGED <<users, roles, accounts, realm, actedAs>>
    BY <2>1, <2>3 DEF Quiet
  <2> QED  BY <2>1, <2>4, <2>8, <2>9, <2>10, QuietStep
\* The roles of the account are changed.
<1>6. ASSUME req[q] # Idle, NEW new \in SUBSET (NovaRole \cup Intrinsic), NEW phase,
             \/ /\ req[q].phase = "kcAdd" /\ phase = "kcRemove"
                /\ new = accounts[a].roles \cup req[q].add
             \/ /\ req[q].phase = "kcRemove" /\ phase = "link account"
                /\ new = accounts[a].roles \ req[q].remove,
             accounts' = [accounts EXCEPT ![a].roles = new], GoTo(q, phase),
             UNCHANGED <<users, roles, realm, actedAs>>
      PROVE  IInv'
  <2>2. Known(q) /\ Exact(q) /\ a \in Rows(accounts) /\ accounts[a].email = req[q].email
    BY <1>6, Has DEF Known, FoundPhases
  <2> DEFINE y == [accounts[a] EXCEPT !.roles = new]
  <2>3. accounts[a] \in Login
    BY <1>0, <2>2 DEF Types, Rows
  <2>4. /\ y \in Login /\ y.email = req[q].email /\ y.enabled = accounts[a].enabled /\ y.roles = new
        /\ accounts' = [accounts EXCEPT ![a] = y]
    BY <1>6, <2>2, <2>3 DEF Login
  <2> HIDE DEF y
  <2>5. accounts'[a] = y /\ Rows(users)' = Rows(users) /\ a \in Rows(accounts)'
    BY <1>6, <2>2, <2>4, Writes
  <2>6. req'[q].phase = phase
    BY <1>6, Goes
  <2>7. Known(q)'
    BY <1>6, <2>2, <2>4, <2>5, <2>6, Goes DEF Known, ShownSynced, NewPhases, AccountPhases, FoundPhases,
       UserPhases, KcPhases, EnabledPhases
  <2>8. Exact(q)'
    BY <1>6, <2>2, <2>4, <2>5, <2>6, Goes DEF Exact, ShownSynced, KcPhases, EnabledPhases, LetsIn
  <2> QED  BY <1>6, <2>2, <2>4, <2>7, <2>8, WriteStep
<1>7. req[q] # Idle => Known(q)
  BY Has
<1>8. req[q] # Idle /\ req[q].phase \in FoundPhases => accounts[a].roles \subseteq NovaRole \cup Intrinsic
  BY <1>0, <1>7 DEF Known, Types, Login, Rows
<1>9. CASE AddRealmRoles(q)
  <2>1. /\ req[q] # Idle /\ req[q].phase = "kcAdd" /\ UNCHANGED <<users, roles, realm, actedAs>>
        /\ GoTo(q, "kcRemove")
        /\ accounts' = [accounts EXCEPT ![a].roles = accounts[a].roles \cup req[q].add]
    BY <1>9 DEF AddRealmRoles, At, database
  <2>2. accounts[a].roles \cup req[q].add \in SUBSET (NovaRole \cup Intrinsic)
    BY <1>7, <1>8, <2>1 DEF Known, FoundPhases
  <2> QED  BY <1>6, <2>1, <2>2
<1>10. CASE RemoveRealmRoles(q)
  <2>1. /\ req[q] # Idle /\ req[q].phase = "kcRemove" /\ UNCHANGED <<users, roles, realm, actedAs>>
        /\ GoTo(q, "link account")
        /\ accounts' = [accounts EXCEPT ![a].roles = accounts[a].roles \ req[q].remove]
    BY <1>10 DEF RemoveRealmRoles, At, database
  <2>2. accounts[a].roles \ req[q].remove \in SUBSET (NovaRole \cup Intrinsic)
    BY <1>8, <2>1 DEF FoundPhases
  <2> QED  BY <1>6, <2>1, <2>2
<1>11. CASE LinkAccount(q)
  <2>1. req[q] # Idle /\ req[q].phase = "link account" /\ UNCHANGED <<roles, accounts, realm, actedAs>>
    BY <1>11 DEF LinkAccount, At, keycloak
  <2>2. /\ Known(q) /\ Exact(q) /\ u \in Rows(users) /\ users[u].email = req[q].email
        /\ a \in Rows(accounts) /\ accounts[a].email = req[q].email
    BY <2>1, Has DEF Known, KcPhases, FoundPhases
  <2>3. CASE End(q) /\ UNCHANGED users
    BY <2>1, <2>3, EndStep
  <2>4. CASE req[q].linked /\ GoTo(q, "shown") /\ UNCHANGED users
    <3>1. req'[q].phase = "shown" /\ users[u].kc = a
      BY <2>1, <2>2, <2>4, Goes DEF Known, FoundPhases
    <3>2. Known(q)'
      BY <2>1, <2>2, <2>4, <3>1, Goes DEF Known, ShownSynced, NewPhases, AccountPhases, FoundPhases,
         UserPhases, KcPhases, EnabledPhases, Rows
    <3>3. Exact(q)'
      BY <2>1, <2>2, <2>4, <3>1, Goes DEF Exact, ShownSynced, KcPhases, EnabledPhases, LetsIn
    <3> QED  BY <2>1, <2>4, <3>2, <3>3, GoStep DEF Quiet
  <2>5. CASE /\ UniqueAccount(u, a) /\ users' = [users EXCEPT ![u].kc = a] /\ GoTo(q, "shown")
    <3>1. /\ users' \in [User -> Profile \cup {None}]
          /\ Unique' /\ Linked' /\ Grows /\ Elsewhere(req[q].email)
          /\ u \in Rows(users)' /\ users'[u].kc = a /\ users'[u].email = req[q].email
          /\ users'[u].active = users[u].active
      BY <2>1, <2>2, <2>5, Links
    <3>2. req'[q].phase = "shown" /\ Rows(accounts)' = Rows(accounts)
      BY <2>1, <2>5, Goes DEF Rows
    <3>3. Types' /\ Acted'
      <4>1. Types'
        BY <1>0, <2>1, <2>5, <3>1, Goes DEF Types
      <4>2. Acted'
        BY <2>1, <3>1, NoneIsNoRow DEF IInv, Acted, Grows
      <4> QED  BY <4>1, <4>2
    <3>4. Known(q)'
      BY <2>1, <2>2, <2>5, <3>1, <3>2, Goes DEF Known, ShownSynced, NewPhases, AccountPhases,
         FoundPhases, UserPhases, KcPhases
    <3>5. Exact(q)'
      <4>1. /\ req'[q].want = req[q].want /\ req'[q].user = u /\ req'[q].kc = a
            /\ req'[q].op = req[q].op /\ req'[q].active = req[q].active
            /\ req'[q].status = req[q].status /\ req'[q].alone = req[q].alone
            /\ req'[q].reused = req[q].reused
        BY <2>1, <2>5, Goes
      <4>2. req[q].alone =>
              /\ req[q].want = roles[u]
              /\ req[q].active = users[u].active
              /\ LetsIn(q) => accounts[a].enabled = req[q].active
              /\ req[q].status = "synced" => accounts[a].roles \cap NovaRole = req[q].want
        BY <2>1, <2>2 DEF Exact, KcPhases, EnabledPhases
      <4> QED  BY <2>1, <3>1, <3>2, <4>1, <4>2 DEF Exact, ShownSynced, KcPhases, EnabledPhases, LetsIn
    <3> QED  BY <2>1, <2>5, <3>1, <3>3, <3>4, <3>5, Goes, OwnStep
  <2> QED  BY <1>11, <2>3, <2>4, <2>5 DEF LinkAccount
<1>12. CASE Show(q)
  BY <1>12, EndStep DEF Show, At, database, keycloak
<1> HIDE DEF u, a
<1> QED  BY <1>2, <1>3, <1>4, <1>5, <1>9, <1>10, <1>11, <1>12 DEF Reconcile

LEMMA FailStep ==
    ASSUME IInv, NEW q \in Req, KeycloakFails(q) \/ Fail(q)
    PROVE  IInv'
<1>0. Types
  BY DEF IInv
<1>1. CASE Fail(q)
  BY <1>1, EndStep DEF Fail, database, keycloak
<1>2. CASE KeycloakFails(q)
  <2>1. /\ req[q] # Idle /\ Quiet
        /\ req' = [req EXCEPT ![q].status = "error", ![q].phase = "shown"]
    BY <1>2 DEF KeycloakFails, database, keycloak, Quiet
  <2>2. Known(q) /\ Exact(q)
    BY <2>1, Has
  <2>3. /\ DOMAIN req' = Req /\ \A p \in Req \ {q} : req'[p] = req[p]
        /\ DOMAIN req'[q] = ReqFields /\ req'[q].phase = "shown" /\ req'[q].status = "error"
        /\ Same(q, {"phase", "status"})
    BY <1>0, <2>1, Has DEF Types, ReqFields, Same
  <2>4. /\ req'[q].email = req[q].email /\ req'[q].want = req[q].want
        /\ req'[q].active = req[q].active /\ req'[q].add = req[q].add
        /\ req'[q].alone = req[q].alone /\ req'[q].reused = req[q].reused
    BY <2>3 DEF Same, ReqFields
  <2>5. Known(q)'
    BY <2>2, <2>3, <2>4 DEF Known, ShownSynced, NewPhases, AccountPhases, FoundPhases,
         UserPhases, KcPhases, EnabledPhases, Rows
  <2>6. Exact(q)'
    BY <2>3 DEF Exact, ShownSynced, KcPhases, EnabledPhases
  <2>7. UNCHANGED <<users, roles, accounts, realm, actedAs>>
    BY <2>1 DEF Quiet
  <2> QED  BY <2>1, <2>3, <2>4, <2>5, <2>6, <2>7, QuietStep
<1> QED  BY <1>1, <1>2

\* What only the environment and the counters change.
LEMMA RealmStep ==
    ASSUME IInv, UNCHANGED <<users, roles, accounts, req, actedAs>>, realm' \subseteq NovaRole \cup Intrinsic
    PROVE  IInv'
<1>1. Types' /\ Unique' /\ Linked' /\ Acted' /\ Apart'
  BY DEF IInv, Types, Unique, Linked, Acted, Apart, Rows
<1>2. Requests'
  BY Kept DEF IInv, Requests
<1> QED  BY <1>1, <1>2 DEF IInv

LEMMA Inductive == IInv /\ [Next]_vars => IInv'
<1> SUFFICES ASSUME IInv, [Next]_vars  PROVE IInv'
  OBVIOUS
<1>1. ASSUME NEW q \in Req, Resolve(q) \/ Administer(q) \/ Reconcile(q)  PROVE IInv'
  BY <1>1, ResolveStep, AdministerStep, ReconcileStep
<1>2. ASSUME NEW q \in Req, NEW a \in Account, SignIn(q, a)  PROVE IInv'
  BY <1>2, SignInStep
<1>3. ASSUME NEW q \in Req, NEW e \in Email, NEW r \in NovaRole, CreateUser(q, e, {r})  PROVE IInv'
  BY <1>3, AdminStep
<1>4. ASSUME NEW q \in Req, NEW u \in User, UpdateUser(q, u) \/ SyncUserToKeycloak(q, u)  PROVE IInv'
  BY <1>4, AdminStep
<1>5. ASSUME NEW q \in Req, NEW u \in User, NEW r \in NovaRole, SetUserRoles(q, u, {r})  PROVE IInv'
  BY <1>5, AdminStep
<1>6. ASSUME NEW q \in Req, KeycloakFails(q) \/ Fail(q)  PROVE IInv'
  BY <1>6, FailStep
<1>7. ASSUME NEW r \in NovaRole, RealmRoleChanges(r)  PROVE IInv'
  <2>1. realm' \subseteq NovaRole \cup Intrinsic
    BY <1>7 DEF RealmRoleChanges, IInv, Types
  <2> QED  BY <1>7, <2>1, RealmStep DEF RealmRoleChanges, database
<1>8. CASE UNCHANGED vars
  <2>1. realm' \subseteq NovaRole \cup Intrinsic
    BY <1>8 DEF vars, keycloak, IInv, Types
  <2> QED  BY <1>8, <2>1, RealmStep DEF vars, database, keycloak
<1> QED  BY <1>1, <1>2, <1>3, <1>4, <1>5, <1>6, <1>7, <1>8 DEF Next

-----------------------------------------------------------------------------
(* Users: the theorems *)

\* The invariant of profiles, accounts and the requests between them holds however
\* requests overlap, and whatever fails.
THEOREM Invariance == Spec => []IInv
BY InitIInv, Inductive, PTL DEF Spec

\* Every variable has its type.
THEOREM TypeCorrect == Spec => []TypeOK
<1>1. IInv => TypeOK
  BY DEF IInv, Types, TypeOK
<1> QED  BY <1>1, Invariance, PTL

\* A person is one profile and a profile one person, from the first request on, however
\* many requests resolve the person at once (resolveCurrentUser).
THEOREM OneEach == Spec => []OneProfileEach
<1>1. ASSUME IInv  PROVE OneProfileEach
  <2>1. ASSUME NEW a \in Account  PROVE Cardinality(actedAs[a]) <= 1
    <3>1. \A u, v \in actedAs[a] : u = v
      BY <1>1, <2>1, NoneIsNoRow DEF IInv, Acted, Unique
    <3>2. CASE actedAs[a] = {}
      BY <3>2, FS_EmptySet
    <3>3. CASE actedAs[a] # {}
      <4>1. PICK u \in actedAs[a] : TRUE
        BY <3>3
      <4>2. actedAs[a] = {u}
        BY <3>1, <4>1
      <4>3. Cardinality({u}) = 1
        BY FS_Singleton
      <4> QED  BY <4>2, <4>3
    <3> QED  BY <3>2, <3>3
  <2>2. ASSUME NEW a \in Account, NEW b \in Account, a # b  PROVE actedAs[a] \cap actedAs[b] = {}
    BY <1>1, <2>2 DEF IInv, Acted
  <2> QED  BY <2>1, <2>2 DEF OneProfileEach
<1> QED  BY <1>1, Invariance, PTL

\* When an administrator is shown "synced" and no other request of the address
\* overlapped, Keycloak has exactly the roles of the profile, and lets the person in
\* just when the profile is active (KeycloakProvisioningService).
THEOREM SyncedTold == Spec => []SyncedIsExact
<1>1. ASSUME IInv  PROVE SyncedIsExact
  <2> SUFFICES ASSUME NEW q \in Req, At(q, "shown"), req[q].status = "synced", req[q].alone
               PROVE  /\ users[req[q].user].kc = req[q].kc
                      /\ accounts[req[q].kc].roles \cap NovaRole = roles[req[q].user]
                      /\ (req[q].op # "create" \/ ~req[q].reused) =>
                            accounts[req[q].kc].enabled = users[req[q].user].active
    BY DEF SyncedIsExact
  <2>1. Known(q) /\ Exact(q) /\ ShownSynced(q)
    BY <1>1, Has DEF At, ShownSynced
  <2> QED  BY <2>1 DEF Known, Exact, ShownSynced, LetsIn
<1> QED  BY <1>1, Invariance, PTL

-----------------------------------------------------------------------------
(* The registry of agents: the inductive invariant *)

Wish     == {"none", "on", "off", "removed"}
AgentRequest  == [op : Op, name : Agent, seen : Row \cup {NoRow}]

\* A sweep under way: the rows it read, and what it fetched of some of them.
Sweeping(x) ==
    /\ x = [phase |-> "fetching", seen |-> x.seen, got |-> x.got]
    /\ DOMAIN x.seen \subseteq Agent
    /\ x.seen \in [DOMAIN x.seen -> Row]
    /\ DOMAIN x.got \subseteq DOMAIN x.seen

AgentTypes ==
    /\ row \in [Agent -> Row \cup {NoRow}]
    /\ running \subseteq Agent /\ up \subseteq Agent
    /\ request \in [Handler -> {NoRequest} \cup AgentRequest]
    /\ DOMAIN sweep = Sweeper
    /\ \A s \in Sweeper : sweep[s] = Resting \/ Sweeping(sweep[s])
    /\ wish \in [Agent -> Wish]

AgentsInv == AgentTypes /\ OperatorsLastWord

-----------------------------------------------------------------------------
(* Rows *)

LEMMA RowsAreNotNoRow ==
    \A r \in Row : r # NoRow
BY RegistryAssumption

LEMMA NewRows ==
    /\ SelfRow \in Row /\ SelfRow # NoRow
    /\ \A e \in BOOLEAN : /\ AdminRow(e) \in Row /\ AdminRow(e) # NoRow
                          /\ AdminRow(e).enabled = e
<1>1. 0 \in 0 .. Threshold
  BY RegistryAssumption
<1>2. SelfRow \in Row
  BY <1>1 DEF SelfRow, Row
<1>3. ASSUME NEW e \in BOOLEAN  PROVE AdminRow(e) \in Row /\ AdminRow(e).enabled = e
  BY <1>1 DEF AdminRow, SelfRow, Row
<1> QED  BY <1>2, <1>3, RowsAreNotNoRow

\* Whether a row is an operator's and enabled, or not.
Alike(r, u) ==
    /\ IsAdmin(r) <=> IsAdmin(u)
    /\ IsAdmin(r) => r.enabled = u.enabled

\* A registration makes no row an operator's, and leaves one enabled or not.
LEMMA RegisteredKeeps ==
    ASSUME NEW seen \in Row \cup {NoRow}, NEW now \in Row \cup {NoRow}
    PROVE  /\ Registered(seen, now) \in Row \cup {NoRow}
           /\ Alike(Registered(seen, now), now)
<1>1. CASE now # NoRow
  <2>1. Registered(seen, now) = [now EXCEPT !.live = TRUE] /\ now \in Row
    BY <1>1 DEF Registered
  <2>2. /\ Registered(seen, now) \in Row /\ Registered(seen, now).enabled = now.enabled
        /\ Registered(seen, now).source = now.source
    BY <2>1 DEF Row
  <2> QED  BY <2>1, <2>2, RowsAreNotNoRow DEF Alike, IsAdmin
<1>2. CASE now = NoRow
  <2>1. Registered(seen, now) \in {SelfRow, NoRow}
    BY <1>2 DEF Registered
  <2>2. SelfRow.source # "admin"
    BY DEF SelfRow
  <2> QED  BY <1>2, <2>1, <2>2, NewRows DEF Alike, IsAdmin
<1> QED  BY <1>1, <1>2

LEMMA EnabledSets ==
    ASSUME NEW now \in Row \cup {NoRow}, NEW e \in BOOLEAN
    PROVE  /\ Enabled(now, e) \in Row \cup {NoRow}
           /\ IsAdmin(Enabled(now, e)) => Enabled(now, e).enabled = e
<1>1. CASE now = NoRow
  BY <1>1 DEF Enabled, IsAdmin
<1>2. CASE now # NoRow
  <2> DEFINE x == [now EXCEPT !.enabled = e, !.status = IF e THEN "onboarded" ELSE "disabled"]
  <2>1. Enabled(now, e) = x /\ now \in Row
    BY <1>2 DEF Enabled
  <2>2. x \in Row /\ x.enabled = e
    BY <2>1 DEF Row
  <2> QED  BY <1>2, <2>1, <2>2, RowsAreNotNoRow
<1> QED  BY <1>1, <1>2

\* Nor does a sweep, whatever it read before.
LEMMA SweptKeeps ==
    ASSUME NEW seen \in Row, NEW now \in Row, NEW ok
    PROVE  Swept(seen, now, ok) \in Row /\ Alike(Swept(seen, now, ok), now)
<1> DEFINE count == IF seen.failures < Threshold THEN seen.failures + 1 ELSE Threshold
           status == IF ok THEN "onboarded"
                       ELSE IF count = Threshold THEN "unreachable" ELSE seen.status
           new      == [now EXCEPT !.status = IF status = seen.status THEN @ ELSE status]
           alive    == [new EXCEPT !.live = TRUE, !.failures = IF seen.failures = 0 THEN @ ELSE 0]
           dead     == [new EXCEPT !.failures = count]
<1>1. count \in 0 .. Threshold /\ 0 \in 0 .. Threshold
  BY RegistryAssumption DEF Row
<1>2. status \in {"onboarded", "disabled", "unreachable"}
  BY DEF Row
<1>3. new \in Row /\ new.enabled = now.enabled /\ new.source = now.source
  <2> HIDE DEF status
  <2> QED  BY <1>2 DEF Row
<1>4. alive \in Row /\ alive.enabled = now.enabled /\ alive.source = now.source
  <2> HIDE DEF new
  <2> QED  BY <1>1, <1>3 DEF Row
<1>5. dead \in Row /\ dead.enabled = now.enabled /\ dead.source = now.source
  <2> HIDE DEF new, count
  <2> QED  BY <1>1, <1>3 DEF Row
<1>6. Swept(seen, now, ok) = IF ok THEN alive ELSE dead
  BY DEF Swept
<1> HIDE DEF alive, dead
<1> QED  BY <1>4, <1>5, <1>6, RowsAreNotNoRow DEF Alike, IsAdmin

-----------------------------------------------------------------------------
(* The steps keep the invariant *)

LEMMA InitAgents == RegistryInit => AgentsInv
<1> SUFFICES ASSUME RegistryInit  PROVE AgentsInv
  OBVIOUS
<1>1. AgentTypes
  BY DEF RegistryInit, AgentTypes, Wish
<1>2. OperatorsLastWord
  BY DEF RegistryInit, OperatorsLastWord, IsAdmin
<1> QED  BY <1>1, <1>2 DEF AgentsInv

\* One row and what was last done to it change together.
LEMMA WriteKeeps ==
    ASSUME AgentsInv, NEW n \in Agent, NEW r \in Row \cup {NoRow}, NEW w \in Wish,
           row' = [row EXCEPT ![n] = r], wish' = [wish EXCEPT ![n] = w],
           IsAdmin(r) => w \in {"on", "off"} /\ (r.enabled <=> w = "on")
    PROVE  /\ row' \in [Agent -> Row \cup {NoRow}] /\ wish' \in [Agent -> Wish]
           /\ OperatorsLastWord'
<1>1. row' \in [Agent -> Row \cup {NoRow}] /\ wish' \in [Agent -> Wish]
  BY DEF AgentsInv, AgentTypes
<1>2. /\ row'[n] = r /\ wish'[n] = w
      /\ \A m \in Agent \ {n} : row'[m] = row[m] /\ wish'[m] = wish[m]
  BY DEF AgentsInv, AgentTypes
<1>3. OperatorsLastWord'
  BY <1>2 DEF AgentsInv, OperatorsLastWord, IsAdmin
<1> QED  BY <1>1, <1>3

\* The write of a request: after an operator's it is as the operator wished, and an
\* agent's own request keeps what it finds.
LEMMA FinishKeeps ==
    ASSUME AgentsInv, NEW h \in Handler, Finish(h)
    PROVE  AgentsInv'
<1> DEFINE q == request[h]
           n == q.name
           now == row[n]
<1>1. q \in AgentRequest /\ UNCHANGED <<running, up, sweep>> /\ request' = [request EXCEPT ![h] = NoRequest]
  BY DEF Finish, AgentsInv, AgentTypes
<1>2. n \in Agent /\ q.seen \in Row \cup {NoRow} /\ q.op \in Op
  BY <1>1 DEF AgentRequest
<1>3. now \in Row \cup {NoRow} /\ wish[n] \in Wish
  BY <1>2 DEF AgentsInv, AgentTypes
<1>4. IsAdmin(now) => wish[n] \in {"on", "off"} /\ (now.enabled <=> wish[n] = "on")
  BY <1>2 DEF AgentsInv, OperatorsLastWord
<1>5. PICK r \in Row \cup {NoRow}, w \in Wish :
        /\ row' = [row EXCEPT ![n] = r] /\ wish' = [wish EXCEPT ![n] = w]
        /\ IsAdmin(r) => w \in {"on", "off"} /\ (r.enabled <=> w = "on")
  <2> HIDE DEF now
  <2>1. CASE q.op = "register"
    <3> DEFINE r == Registered(q.seen, now)
    <3>1. row' = [row EXCEPT ![n] = r] /\ wish' = [wish EXCEPT ![n] = wish[n]]
      BY <2>1 DEF Finish, now
    <3>2. r \in Row \cup {NoRow} /\ Alike(r, now)
      BY <1>2, <1>3, RegisteredKeeps
    <3> HIDE DEF r
    <3> QED  BY <1>3, <1>4, <3>1, <3>2 DEF Alike
  <2>2. CASE q.op = "deregister"
    <3>1. row' = [row EXCEPT ![n] = NoRow] /\ wish' = [wish EXCEPT ![n] = wish[n]]
      BY <2>2 DEF Finish
    <3> QED  BY <1>3, <3>1 DEF IsAdmin
  <2>3. CASE q.op \in {"onboard", "onboard_off"}
    <3>1. PICK e \in BOOLEAN : /\ row' = [row EXCEPT ![n] = AdminRow(e)]
                               /\ wish' = [wish EXCEPT ![n] = IF e THEN "on" ELSE "off"]
      <4>1. CASE q.op = "onboard"
        <5>1. row' = [row EXCEPT ![n] = AdminRow(TRUE)] /\ wish' = [wish EXCEPT ![n] = "on"]
          BY <4>1 DEF Finish
        <5> QED  BY <5>1
      <4>2. CASE q.op = "onboard_off"
        <5>1. row' = [row EXCEPT ![n] = AdminRow(FALSE)] /\ wish' = [wish EXCEPT ![n] = "off"]
          BY <4>2 DEF Finish
        <5> QED  BY <5>1
      <4> QED  BY <2>3, <4>1, <4>2
    <3> QED  BY <3>1, NewRows DEF Wish
  <2>4. CASE q.op \in {"enable", "disable"}
    <3>1. PICK e \in BOOLEAN : /\ row' = [row EXCEPT ![n] = Enabled(now, e)]
                               /\ wish' = [wish EXCEPT ![n] = IF e THEN "on" ELSE "off"]
      <4>1. CASE q.op = "enable"
        <5>1. row' = [row EXCEPT ![n] = Enabled(now, TRUE)] /\ wish' = [wish EXCEPT ![n] = "on"]
          BY <4>1 DEF Finish, now
        <5> QED  BY <5>1
      <4>2. CASE q.op = "disable"
        <5>1. row' = [row EXCEPT ![n] = Enabled(now, FALSE)] /\ wish' = [wish EXCEPT ![n] = "off"]
          BY <4>2 DEF Finish, now
        <5> QED  BY <5>1
      <4> QED  BY <2>4, <4>1, <4>2
    <3> DEFINE r == Enabled(now, e)
    <3>2. r \in Row \cup {NoRow} /\ (IsAdmin(r) => r.enabled = e)
      BY <1>3, EnabledSets
    <3> HIDE DEF r
    <3> QED  BY <3>1, <3>2 DEF r, Wish
  <2>5. CASE q.op = "remove"
    <3>1. row' = [row EXCEPT ![n] = NoRow] /\ wish' = [wish EXCEPT ![n] = "removed"]
      BY <2>5 DEF Finish
    <3> QED  BY <3>1 DEF Wish, IsAdmin
  <2> QED  BY <1>2, <2>1, <2>2, <2>3, <2>4, <2>5 DEF Op
<1>6. /\ row' \in [Agent -> Row \cup {NoRow}] /\ wish' \in [Agent -> Wish]
      /\ OperatorsLastWord'
  BY <1>2, <1>5, WriteKeeps
<1> QED  BY <1>1, <1>6 DEF AgentsInv, AgentTypes

\* A handler reads the row it is about to change.
LEMMA BeginKeeps ==
    ASSUME AgentsInv, NEW h \in Handler, NEW op \in Op, NEW n \in Agent,
           BeginRequest(h, op, n), running' \subseteq Agent, UNCHANGED <<row, up, sweep, wish>>
    PROVE  AgentsInv'
<1> DEFINE y == [op |-> op, name |-> n, seen |-> row[n]]
<1>1. y \in AgentRequest
  BY DEF AgentRequest, AgentsInv, AgentTypes
<1>2. request' \in [Handler -> {NoRequest} \cup AgentRequest]
  BY <1>1 DEF BeginRequest, AgentsInv, AgentTypes
<1> QED  BY <1>2 DEF AgentsInv, AgentTypes, OperatorsLastWord, IsAdmin

\* A sweep reads and fetches without a change of the table.
LEMMA SweepMoves ==
    ASSUME AgentsInv, NEW s \in Sweeper, NEW y, y = Resting \/ Sweeping(y),
           sweep' = [sweep EXCEPT ![s] = y], UNCHANGED <<row, running, up, request, wish>>
    PROVE  AgentsInv'
BY DEF AgentsInv, AgentTypes, OperatorsLastWord, IsAdmin

LEMMA ReadKeeps ==
    ASSUME AgentsInv, NEW s \in Sweeper, SweepRead(s)
    PROVE  AgentsInv'
<1> DEFINE names == {n \in Agent : IsAdmin(row[n]) /\ row[n].enabled}
           seen  == [n \in names |-> row[n]]
           got   == [n \in {} |-> TRUE]
           y     == [phase |-> "fetching", seen |-> seen, got |-> got]
<1>1. DOMAIN seen = names /\ seen \in [names -> Row] /\ DOMAIN got = {}
  BY DEF AgentsInv, AgentTypes, IsAdmin
<1>2. names \subseteq Agent
  OBVIOUS
<1>3. Sweeping(y)
  <2> HIDE DEF seen, got, names
  <2> QED  BY <1>1, <1>2 DEF Sweeping
<1>4. sweep' = [sweep EXCEPT ![s] = y] /\ UNCHANGED <<row, running, up, request, wish>>
  BY DEF SweepRead
<1> QED  BY <1>3, <1>4, SweepMoves

LEMMA FetchKeeps ==
    ASSUME AgentsInv, NEW s \in Sweeper, Fetch(s)
    PROVE  AgentsInv'
<1> DEFINE x == sweep[s]
<1>1. Sweeping(x)
  BY DEF Fetch, AgentsInv, AgentTypes
<1>2. PICK n \in DOMAIN x.seen \ DOMAIN x.got :
        sweep' = [sweep EXCEPT ![s].got =
                     [m \in {n} \cup DOMAIN @ |-> IF m = n THEN n \in up ELSE @[m]]]
  BY DEF Fetch
<1> DEFINE got == [m \in {n} \cup DOMAIN x.got |-> IF m = n THEN n \in up ELSE x.got[m]]
           y   == [phase |-> "fetching", seen |-> x.seen, got |-> got]
<1>3. DOMAIN got = {n} \cup DOMAIN x.got
  OBVIOUS
<1>4. sweep' = [sweep EXCEPT ![s] = [x EXCEPT !.got = got]]
  BY <1>2 DEF AgentsInv, AgentTypes
<1>5. [x EXCEPT !.got = got] = y
  <2> HIDE DEF got
  <2>1. x = [phase |-> "fetching", seen |-> x.seen, got |-> x.got]
    BY <1>1 DEF Sweeping
  <2> HIDE DEF x
  <2> QED  BY <2>1
<1>6. Sweeping(y)
  <2> HIDE DEF got, x
  <2> QED  BY <1>1, <1>2, <1>3 DEF Sweeping
<1> QED  BY <1>4, <1>5, <1>6, SweepMoves DEF Fetch

\* What a sweep writes of a row leaves it enabled or not, as it is now.
LEMMA CommitKeeps ==
    ASSUME AgentsInv, NEW s \in Sweeper, SweepCommit(s)
    PROVE  AgentsInv'
<1> DEFINE x == sweep[s]
<1>1. /\ Sweeping(x)
      /\ sweep' = [sweep EXCEPT ![s] = Resting]
      /\ UNCHANGED <<running, up, request, wish>>
  BY DEF SweepCommit, AgentsInv, AgentTypes
<1>2. CASE row' = row
  BY <1>1, <1>2, SweepMoves
<1>3. CASE /\ \A n \in DOMAIN x.seen : Exists(n)
           /\ row' = [n \in Agent |-> IF n \in DOMAIN x.seen
                                      THEN Swept(x.seen[n], row[n], x.got[n]) ELSE row[n]]
  <2>1. ASSUME NEW n \in Agent, n \in DOMAIN x.seen
        PROVE  row[n] \in Row /\ row'[n] \in Row /\ Alike(row'[n], row[n])
    <3>1. row[n] \in Row /\ x.seen[n] \in Row
      BY <1>1, <1>3, <2>1 DEF AgentsInv, AgentTypes, Exists, Sweeping
    <3>2. row'[n] = Swept(x.seen[n], row[n], x.got[n])
      BY <1>3, <2>1
    <3> QED  BY <3>1, <3>2, SweptKeeps
  <2>2. \A n \in Agent : n \notin DOMAIN x.seen => row'[n] = row[n]
    BY <1>3
  <2>3. DOMAIN row' = Agent /\ row' = [n \in Agent |-> row'[n]]
    BY <1>3
  <2> HIDE DEF x
  <2>4. row' \in [Agent -> Row \cup {NoRow}]
    BY <2>1, <2>2, <2>3 DEF AgentsInv, AgentTypes
  <2>5. OperatorsLastWord'
    BY <1>1, <2>1, <2>2 DEF AgentsInv, OperatorsLastWord, Alike, IsAdmin
  <2> QED  BY <1>1, <2>4, <2>5 DEF AgentsInv, AgentTypes
<1> QED  BY <1>2, <1>3 DEF SweepCommit

LEMMA StutterKeeps ==
    ASSUME AgentsInv, running' \subseteq Agent, up' \subseteq Agent,
           UNCHANGED <<row, request, sweep, wish>>
    PROVE  AgentsInv'
BY DEF AgentsInv, AgentTypes, OperatorsLastWord, IsAdmin

\* Every step keeps the invariant.
LEMMA StepKeeps ==
    AgentsInv /\ [RegistryNext]_(registryVars) => AgentsInv'
<1> SUFFICES ASSUME AgentsInv, [RegistryNext]_(registryVars)  PROVE AgentsInv'
  OBVIOUS
<1>0. running \subseteq Agent /\ up \subseteq Agent
  BY DEF AgentsInv, AgentTypes
<1>1. ASSUME NEW n \in Agent, Toggle(n) \/ Start(n) \/ Kill(n)  PROVE AgentsInv'
  BY <1>0, <1>1, StutterKeeps DEF Toggle, Start, Kill
<1>2. ASSUME NEW n \in Agent, Expire(n)  PROVE AgentsInv'
  <2> DEFINE r == [row[n] EXCEPT !.live = FALSE]
  <2>1. row[n] \in Row /\ row' = [row EXCEPT ![n] = r] /\ UNCHANGED <<running, up, request, sweep, wish>>
    BY <1>2 DEF Expire, Exists, AgentsInv, AgentTypes
  <2>2. r \in Row /\ r.enabled = row[n].enabled /\ r.source = row[n].source
    BY <2>1 DEF Row
  <2>3. r # NoRow /\ row[n] # NoRow
    BY <2>1, <2>2, RowsAreNotNoRow
  <2> HIDE DEF r
  <2>4. row' \in [Agent -> Row \cup {NoRow}] /\ OperatorsLastWord'
    BY <2>1, <2>2, <2>3 DEF AgentsInv, AgentTypes, OperatorsLastWord, IsAdmin
  <2> QED  BY <2>1, <2>4 DEF AgentsInv, AgentTypes
<1>3. ASSUME NEW h \in Handler, NEW n \in Agent, Heartbeat(h, n)  PROVE AgentsInv'
  BY <1>0, <1>3, BeginKeeps DEF Heartbeat, Op
<1>4. ASSUME NEW h \in Handler, NEW n \in Agent, Stop(h, n)  PROVE AgentsInv'
  <2>1. running' \subseteq Agent /\ UNCHANGED <<row, up, sweep, wish>>
    BY <1>0, <1>4 DEF Stop
  <2>2. CASE BeginRequest(h, "deregister", n)
    BY <2>1, <2>2, BeginKeeps DEF Op
  <2>3. CASE UNCHANGED request
    BY <1>0, <2>1, <2>3, StutterKeeps
  <2> QED  BY <1>4, <2>2, <2>3 DEF Stop
<1>5. ASSUME NEW h \in Handler, NEW n \in Agent, NEW op \in Op, Operate(h, op, n)  PROVE AgentsInv'
  BY <1>0, <1>5, BeginKeeps DEF Operate
<1>6. ASSUME NEW h \in Handler, Finish(h)  PROVE AgentsInv'
  BY <1>6, FinishKeeps
<1>7. ASSUME NEW s \in Sweeper, SweepRead(s) \/ Fetch(s) \/ SweepCommit(s)  PROVE AgentsInv'
  BY <1>7, ReadKeeps, FetchKeeps, CommitKeeps
<1>8. CASE UNCHANGED registryVars
  BY <1>0, <1>8, StutterKeeps DEF registryVars
<1> QED  BY <1>1, <1>2, <1>3, <1>4, <1>5, <1>6, <1>7, <1>8 DEF RegistryNext

\* The rows, the requests under way and the sweeps' copies keep their types and agree
\* on what the operator last did, whatever overlaps.
THEOREM AgentsInvariance == RegistrySpec => []AgentsInv
<1>1. AgentsInv /\ [RegistryNext]_(registryVars) => AgentsInv'
  BY StepKeeps
<1> QED  BY <1>1, InitAgents, PTL DEF RegistrySpec

\* Every variable of the registry has its type.
THEOREM AgentsTyped == RegistrySpec => []RegistryTypeOK
<1>1. AgentsInv => RegistryTypeOK
  BY DEF AgentsInv, AgentTypes, RegistryTypeOK, AgentRequest, Wish, Sweeping
<1> QED  BY <1>1, AgentsInvariance, PTL

\* Of an operator's row operators have the last word: it is enabled or not as one last
\* asked, whatever heartbeats and sweeps that read the row before write after.
THEOREM LastWord == RegistrySpec => []OperatorsLastWord
<1>1. AgentsInv => OperatorsLastWord
  BY DEF AgentsInv
<1> QED  BY <1>1, AgentsInvariance, PTL

-----------------------------------------------------------------------------
(* The policy's transactions in RbacPolicy, for any roles, permissions and   *)
(* instances.                                                                *)

ServedRows == [grants : SUBSET Grant, revision : Nat]

PolicyTypes ==
    /\ grants \subseteq Grant
    /\ revision \in Nat
    /\ tx \in [Admin -> Tx \cup {NoTx}]
    /\ load \in [Loader -> Loading \cup {NoTx}]
    /\ current \in [Instance -> ServedRows]
    /\ lastSet \in [Role -> SUBSET Perm]

\* What is under way is on the rows as they are: nobody else writes them.
TxInv ==
    \A a \in Admin : tx[a] # NoTx =>
        LET old == grants \cap Of(tx[a].role, Perm)
            new == Of(tx[a].role, tx[a].perms)
        IN  /\ tx[a].phase = "delete" => tx[a].seen = old
            /\ tx[a].phase \in {"insert", "check", "bump", "commit"} => tx[a].deleted = old
            /\ tx[a].phase \in {"check", "bump", "commit"} => tx[a].inserted = new
            /\ tx[a].phase \in {"bump", "commit"} => Covered((grants \ old) \cup new)

\* setRolePermissions takes no lock before it has read the rows it deletes: what is
\* proved of two requests at a time is their types.
OneAdministrator == \A a, b \in Admin : a = b

LEMMA InitPolicyTypes == PolicyInit => PolicyTypes
<1> SUFFICES ASSUME PolicyInit  PROVE PolicyTypes
  OBVIOUS
<1>1. grants \subseteq Grant
  BY DEF PolicyInit, Of, Grant
<1> QED  BY <1>1 DEF PolicyInit, PolicyTypes, ServedRows

LEMMA PolicyTypesStep == PolicyTypes /\ [PolicyNext]_(policyVars) => PolicyTypes'
<1> SUFFICES ASSUME PolicyTypes, [PolicyNext]_(policyVars)  PROVE PolicyTypes'
  OBVIOUS
<1>0. Admin \subseteq Loader /\ Instance \subseteq Loader
  BY DEF Loader
<1>1. ASSUME NEW a \in Admin, NEW y \in Tx \cup {NoTx}, tx' = [tx EXCEPT ![a] = y],
             UNCHANGED <<grants, revision, load, current, lastSet>>
      PROVE  PolicyTypes'
  BY <1>1 DEF PolicyTypes
<1>2. ASSUME NEW a \in Admin, NEW r \in Role, NEW ps \in SUBSET Perm, BeginTx(a, r, ps)  PROVE PolicyTypes'
  <2> DEFINE y == [role |-> r, perms |-> ps, seen |-> grants \cap Of(r, Perm),
                   deleted |-> {}, inserted |-> {}, phase |-> "delete"]
  <2>1. y \in Tx
    BY DEF Tx, Phase, PolicyTypes
  <2>2. tx' = [tx EXCEPT ![a] = y] /\ UNCHANGED <<grants, revision, load, current, lastSet>>
    BY <1>2 DEF BeginTx
  <2> HIDE DEF y
  <2> QED  BY <1>1, <2>1, <2>2
<1>3. ASSUME NEW a \in Admin, \/ In(a, "delete") \/ In(a, "insert") \/ In(a, "check")
                              \/ In(a, "bump") \/ In(a, "commit")
      PROVE  tx[a] \in Tx
  BY <1>3 DEF In, PolicyTypes
<1>4. ASSUME NEW a \in Admin, Delete(a)  PROVE PolicyTypes'
  <2> DEFINE y == [tx[a] EXCEPT !.deleted = tx[a].seen \cap grants, !.seen = {}, !.phase = "insert"]
  <2>1. y \in Tx
    BY <1>3, <1>4 DEF Delete, PolicyTypes, Tx, Phase
  <2>2. tx' = [tx EXCEPT ![a] = y] /\ UNCHANGED <<grants, revision, load, current, lastSet>>
    BY <1>4 DEF Delete
  <2> HIDE DEF y
  <2> QED  BY <1>1, <2>1, <2>2
<1>5. ASSUME NEW a \in Admin, Insert(a)  PROVE PolicyTypes'
  <2> DEFINE rows == Of(tx[a].role, tx[a].perms)
             y == [tx[a] EXCEPT !.inserted = rows, !.phase = "check"]
  <2>1. rows \subseteq Grant
    BY <1>3, <1>5 DEF Insert, Of, Grant, Tx
  <2>2. y \in Tx
    BY <1>3, <1>5, <2>1 DEF Insert, Tx, Phase
  <2>3. /\ tx' = [tx EXCEPT ![a] = NoTx] \/ tx' = [tx EXCEPT ![a] = y]
        /\ UNCHANGED <<grants, revision, load, current, lastSet>>
    BY <1>5 DEF Insert
  <2> HIDE DEF y
  <2> QED  BY <1>1, <2>2, <2>3
<1>6. ASSUME NEW a \in Admin, Check(a)  PROVE PolicyTypes'
  <2> DEFINE y == [tx[a] EXCEPT !.phase = "bump"]
  <2>1. y \in Tx
    BY <1>3, <1>6 DEF Check, Tx, Phase
  <2>2. /\ tx' = [tx EXCEPT ![a] = NoTx] \/ tx' = [tx EXCEPT ![a] = y]
        /\ UNCHANGED <<grants, revision, load, current, lastSet>>
    BY <1>6 DEF Check
  <2> HIDE DEF y
  <2> QED  BY <1>1, <2>1, <2>2
<1>7. ASSUME NEW a \in Admin, Bump(a)  PROVE PolicyTypes'
  <2> DEFINE y == [tx[a] EXCEPT !.phase = "commit"]
  <2>1. y \in Tx
    BY <1>3, <1>7 DEF Bump, Tx, Phase
  <2>2. tx' = [tx EXCEPT ![a] = y] /\ UNCHANGED <<grants, revision, load, current, lastSet>>
    BY <1>7 DEF Bump
  <2> HIDE DEF y
  <2> QED  BY <1>1, <2>1, <2>2
<1>8. ASSUME NEW a \in Admin, Commit(a)  PROVE PolicyTypes'
  <2> DEFINE y == [tx[a] EXCEPT !.deleted = {}, !.inserted = {}, !.phase = "refresh"]
  <2>0. tx[a] \in Tx
    BY <1>3, <1>8 DEF Commit
  <2>1. y \in Tx
    BY <2>0 DEF Tx, Phase
  <2>2. tx' = [tx EXCEPT ![a] = y]
    BY <1>8 DEF Commit
  <2> HIDE DEF y
  <2>3. tx' \in [Admin -> Tx \cup {NoTx}]
    BY <2>1, <2>2 DEF PolicyTypes
  <2>4. grants' \subseteq Grant /\ revision' \in Nat
    BY <1>8, <2>0 DEF Commit, PolicyTypes, Tx
  <2>5. lastSet' \in [Role -> SUBSET Perm]
    BY <1>8, <2>0 DEF Commit, PolicyTypes, Tx
  <2> QED  BY <1>8, <2>3, <2>4, <2>5 DEF Commit, PolicyTypes
<1>9. ASSUME NEW x \in Loader, StartLoad(x)  PROVE load' \in [Loader -> Loading \cup {NoTx}]
  <2>1. [grants |-> Unread, revision |-> Unread] \in Loading
    BY DEF Loading
  <2> QED  BY <1>9, <2>1 DEF StartLoad, PolicyTypes
<1>10. ASSUME NEW a \in Admin, Refresh(a)  PROVE PolicyTypes'
  BY <1>0, <1>9, <1>10 DEF Refresh, PolicyTypes
<1>11. ASSUME NEW i \in Instance, Poll(i)  PROVE PolicyTypes'
  BY <1>0, <1>9, <1>11 DEF Poll, PolicyTypes
<1>12. ASSUME NEW x \in Loader, ReadGrants(x)  PROVE PolicyTypes'
  <2> DEFINE y == [load[x] EXCEPT !.grants = grants]
  <2>1. y \in Loading
    BY <1>12 DEF ReadGrants, PolicyTypes, Loading
  <2>2. load' = [load EXCEPT ![x] = y]
    BY <1>12 DEF ReadGrants
  <2> HIDE DEF y
  <2> QED  BY <1>12, <2>1, <2>2 DEF ReadGrants, PolicyTypes
<1>13. ASSUME NEW x \in Loader, ReadRevision(x)  PROVE PolicyTypes'
  <2> DEFINE y == [load[x] EXCEPT !.revision = revision]
  <2>1. y \in Loading
    BY <1>13 DEF ReadRevision, PolicyTypes, Loading
  <2>2. load' = [load EXCEPT ![x] = y]
    BY <1>13 DEF ReadRevision
  <2> HIDE DEF y
  <2> QED  BY <1>13, <2>1, <2>2 DEF ReadRevision, PolicyTypes
<1>14. ASSUME NEW x \in Loader, Publish(x)  PROVE PolicyTypes'
  <2>1. load[x] \in ServedRows
    BY <1>14 DEF Publish, PolicyTypes, Loading, ServedRows
  <2> QED  BY <1>14, <2>1 DEF Publish, PolicyTypes
<1>15. ASSUME NEW x \in Loader, FailLoad(x)  PROVE PolicyTypes'
  BY <1>15 DEF FailLoad, PolicyTypes
<1>16. CASE UNCHANGED policyVars
  BY <1>16 DEF policyVars, PolicyTypes
<1> QED  BY <1>2, <1>4, <1>5, <1>6, <1>7, <1>8, <1>10, <1>11, <1>12, <1>13, <1>14, <1>15, <1>16
         DEF PolicyNext, Mutate, LoadStep

\* What a commit makes of the grants: the rows of one role are replaced.
LEMMA Replaced ==
    ASSUME NEW g \in SUBSET Grant, NEW role \in Role, NEW perms \in SUBSET Perm,
           NEW set \in [Role -> SUBSET Perm], \A r \in Role : g \cap Of(r, Perm) = Of(r, set[r]),
           NEW h, h = (g \ (g \cap Of(role, Perm))) \cup Of(role, perms)
    PROVE  \A r \in Role : h \cap Of(r, Perm) = Of(r, [set EXCEPT ![role] = perms][r])
<1> SUFFICES ASSUME NEW r \in Role
             PROVE  h \cap Of(r, Perm) = Of(r, [set EXCEPT ![role] = perms][r])
  OBVIOUS
<1>1. CASE r = role
  BY <1>1 DEF Of
<1>2. CASE r # role
  <2>1. h \cap Of(r, Perm) = g \cap Of(r, Perm)
    BY <1>2 DEF Of
  <2> QED  BY <1>2, <2>1
<1> QED  BY <1>1, <1>2

GrantsInv == TxInv /\ CriticalCovered /\ RoleIsAsSet

LEMMA InitGrants == PolicyInit => GrantsInv
<1> SUFFICES ASSUME PolicyInit  PROVE GrantsInv
  OBVIOUS
<1>1. RoleIsAsSet
  BY DEF PolicyInit, RoleIsAsSet, Of
<1> QED  BY <1>1 DEF PolicyInit, GrantsInv, TxInv, CriticalCovered

LEMMA GrantsStep ==
    OneAdministrator /\ PolicyTypes /\ GrantsInv /\ [PolicyNext]_(policyVars) => GrantsInv'
<1> SUFFICES ASSUME OneAdministrator, PolicyTypes, GrantsInv, [PolicyNext]_(policyVars)  PROVE GrantsInv'
  OBVIOUS
<1>0. TxInv /\ CriticalCovered /\ RoleIsAsSet
  BY DEF GrantsInv
<1>1. ASSUME UNCHANGED <<grants, lastSet>>, TxInv'  PROVE GrantsInv'
  BY <1>0, <1>1 DEF GrantsInv, CriticalCovered, RoleIsAsSet
<1>2. ASSUME UNCHANGED <<grants, lastSet, tx>>  PROVE GrantsInv'
  BY <1>0, <1>1, <1>2 DEF TxInv
<1>3. ASSUME NEW a \in Admin, NEW r \in Role, NEW ps \in SUBSET Perm, BeginTx(a, r, ps)
      PROVE  GrantsInv'
  <2>1. /\ tx'[a] = [role |-> r, perms |-> ps, seen |-> grants \cap Of(r, Perm),
                     deleted |-> {}, inserted |-> {}, phase |-> "delete"]
        /\ UNCHANGED <<grants, lastSet>>
    BY <1>3 DEF BeginTx, PolicyTypes
  <2>2. TxInv'
    BY <2>1 DEF TxInv, OneAdministrator
  <2> QED  BY <1>1, <2>1, <2>2
<1>4. ASSUME NEW a \in Admin, tx[a] # NoTx, UNCHANGED <<grants, lastSet>>, tx'[a] = NoTx
      PROVE  GrantsInv'
  <2>1. TxInv'
    BY <1>4 DEF TxInv, OneAdministrator
  <2> QED  BY <1>1, <1>4, <2>1
<1>5. ASSUME NEW a \in Admin, Delete(a)  PROVE GrantsInv'
  <2>1. /\ tx[a] \in Tx /\ UNCHANGED <<grants, lastSet>>
        /\ tx'[a] = [tx[a] EXCEPT !.deleted = tx[a].seen \cap grants, !.seen = {}, !.phase = "insert"]
        /\ tx[a].phase = "delete" /\ tx[a] # NoTx
    BY <1>5 DEF Delete, In, PolicyTypes
  <2>2. tx'[a].role = tx[a].role /\ tx'[a].phase = "insert" /\ tx'[a].deleted = tx[a].seen \cap grants
    BY <2>1 DEF Tx
  <2>3. tx[a].seen \cap grants = grants \cap Of(tx[a].role, Perm)
    BY <1>0, <2>1 DEF TxInv
  <2>4. TxInv'
    BY <2>1, <2>2, <2>3 DEF TxInv, OneAdministrator
  <2> QED  BY <1>1, <2>1, <2>4
<1>6. ASSUME NEW a \in Admin, Insert(a)  PROVE GrantsInv'
  <2> DEFINE rows == Of(tx[a].role, tx[a].perms)
  <2>1. /\ tx[a] \in Tx /\ UNCHANGED <<grants, lastSet>>
        /\ tx'[a] = NoTx \/ tx'[a] = [tx[a] EXCEPT !.inserted = rows, !.phase = "check"]
        /\ tx[a].phase = "insert" /\ tx[a] # NoTx
    BY <1>6 DEF Insert, In, PolicyTypes
  <2>2. CASE tx'[a] = [tx[a] EXCEPT !.inserted = rows, !.phase = "check"]
    <3>1. /\ tx'[a].role = tx[a].role /\ tx'[a].perms = tx[a].perms /\ tx'[a].phase = "check"
          /\ tx'[a].deleted = tx[a].deleted /\ tx'[a].inserted = rows
      BY <2>1, <2>2 DEF Tx
    <3>2. tx[a].deleted = grants \cap Of(tx[a].role, Perm)
      BY <1>0, <2>1 DEF TxInv
    <3>3. TxInv'
      BY <2>1, <3>1, <3>2 DEF TxInv, OneAdministrator
    <3> QED  BY <1>1, <2>1, <3>3
  <2> QED  BY <1>4, <2>1, <2>2
<1>7. ASSUME NEW a \in Admin, Check(a)  PROVE GrantsInv'
  <2>1. /\ tx[a] \in Tx /\ UNCHANGED <<grants, lastSet>>
        /\ IF Covered((grants \ tx[a].deleted) \cup tx[a].inserted)
           THEN tx'[a] = [tx[a] EXCEPT !.phase = "bump"] ELSE tx'[a] = NoTx
        /\ tx[a].phase = "check" /\ tx[a] # NoTx
    BY <1>7 DEF Check, In, PolicyTypes
  <2>2. CASE Covered((grants \ tx[a].deleted) \cup tx[a].inserted)
    <3>1. /\ tx'[a].role = tx[a].role /\ tx'[a].perms = tx[a].perms /\ tx'[a].phase = "bump"
          /\ tx'[a].deleted = tx[a].deleted /\ tx'[a].inserted = tx[a].inserted
      BY <2>1, <2>2 DEF Tx
    <3>2. /\ tx[a].deleted = grants \cap Of(tx[a].role, Perm)
          /\ tx[a].inserted = Of(tx[a].role, tx[a].perms)
      BY <1>0, <2>1 DEF TxInv
    <3>3. TxInv'
      BY <2>1, <2>2, <3>1, <3>2 DEF TxInv, OneAdministrator
    <3> QED  BY <1>1, <2>1, <3>3
  <2> QED  BY <1>4, <2>1, <2>2
<1>8. ASSUME NEW a \in Admin, Bump(a)  PROVE GrantsInv'
  <2>1. /\ tx[a] \in Tx /\ UNCHANGED <<grants, lastSet>>
        /\ tx'[a] = [tx[a] EXCEPT !.phase = "commit"] /\ tx[a].phase = "bump" /\ tx[a] # NoTx
    BY <1>8 DEF Bump, In, PolicyTypes
  <2>2. /\ tx'[a].role = tx[a].role /\ tx'[a].perms = tx[a].perms /\ tx'[a].phase = "commit"
        /\ tx'[a].deleted = tx[a].deleted /\ tx'[a].inserted = tx[a].inserted
    BY <2>1 DEF Tx
  <2>3. /\ tx[a].deleted = grants \cap Of(tx[a].role, Perm)
        /\ tx[a].inserted = Of(tx[a].role, tx[a].perms)
        /\ Covered((grants \ (grants \cap Of(tx[a].role, Perm))) \cup Of(tx[a].role, tx[a].perms))
    BY <1>0, <2>1 DEF TxInv
  <2>4. /\ tx'[a].deleted = grants' \cap Of(tx'[a].role, Perm)
        /\ tx'[a].inserted = Of(tx'[a].role, tx'[a].perms)
        /\ Covered((grants' \ (grants' \cap Of(tx'[a].role, Perm))) \cup Of(tx'[a].role, tx'[a].perms))
    BY <2>1, <2>2, <2>3
  <2>5. TxInv'
    BY <2>2, <2>4 DEF TxInv, OneAdministrator
  <2> QED  BY <1>1, <2>1, <2>5
<1>9. ASSUME NEW a \in Admin, Commit(a)  PROVE GrantsInv'
  <2> DEFINE role == tx[a].role
             perms == tx[a].perms
  <2>1. /\ tx[a] \in Tx /\ tx[a].phase = "commit" /\ tx[a] # NoTx
        /\ grants' = (grants \ tx[a].deleted) \cup tx[a].inserted
        /\ lastSet' = [lastSet EXCEPT ![role] = perms]
        /\ tx'[a] = [tx[a] EXCEPT !.deleted = {}, !.inserted = {}, !.phase = "refresh"]
    BY <1>9 DEF Commit, In, PolicyTypes
  <2>2. /\ tx[a].deleted = grants \cap Of(role, Perm)
        /\ tx[a].inserted = Of(role, perms)
        /\ Covered((grants \ (grants \cap Of(role, Perm))) \cup Of(role, perms))
    BY <1>0, <2>1 DEF TxInv
  <2>3. role \in Role /\ perms \in SUBSET Perm /\ tx'[a].phase = "refresh"
    BY <2>1 DEF Tx
  <2> HIDE DEF role, perms
  <2>4. grants' = (grants \ (grants \cap Of(role, Perm))) \cup Of(role, perms)
    BY <2>1, <2>2
  <2>5. CriticalCovered'
    BY <2>2, <2>4 DEF CriticalCovered
  <2>6. RoleIsAsSet'
    <3>1. \A r \in Role : grants \cap Of(r, Perm) = Of(r, lastSet[r])
      BY <1>0 DEF RoleIsAsSet
    <3>2. grants \in SUBSET Grant /\ lastSet \in [Role -> SUBSET Perm]
      BY DEF PolicyTypes
    <3>3. \A r \in Role : grants' \cap Of(r, Perm) = Of(r, [lastSet EXCEPT ![role] = perms][r])
      BY <2>3, <2>4, <3>1, <3>2, Replaced
    <3> QED  BY <2>1, <3>3 DEF RoleIsAsSet
  <2>7. TxInv'
    BY <2>3 DEF TxInv, OneAdministrator
  <2> QED  BY <2>5, <2>6, <2>7 DEF GrantsInv
<1>10. ASSUME NEW a \in Admin, Refresh(a)  PROVE GrantsInv'
  BY <1>4, <1>10 DEF Refresh, In, PolicyTypes
<1>11. ASSUME NEW i \in Instance, Poll(i)  PROVE GrantsInv'
  BY <1>2, <1>11 DEF Poll
<1>12. ASSUME NEW x \in Loader, LoadStep(x) \/ FailLoad(x)  PROVE GrantsInv'
  BY <1>2, <1>12 DEF LoadStep, ReadGrants, ReadRevision, Publish, FailLoad
<1>13. CASE UNCHANGED policyVars
  BY <1>2, <1>13 DEF policyVars
<1> QED  BY <1>3, <1>5, <1>6, <1>7, <1>8, <1>9, <1>10, <1>11, <1>12, <1>13 DEF PolicyNext, Mutate

\* Every variable keeps its type, with any number of administrators at a time and
\* whatever loads overlap or fail.
THEOREM PolicyTyped == PolicySpec => []PolicyTypeOK
<1>1. PolicyTypes => PolicyTypeOK
  BY DEF PolicyTypes, PolicyTypeOK, ServedRows
<1> QED  BY <1>1, InitPolicyTypes, PolicyTypesStep, PTL DEF PolicySpec

\* With one administrator at a time no committed change leaves a critical permission
\* without a role: what assertCriticalPermissionsCovered saw is what is committed.
\* (With two it is false: each may take away the role that the other relied on.)
THEOREM StaysCovered == ASSUME OneAdministrator  PROVE PolicySpec => []CriticalCovered
<1>1. PolicyTypes /\ GrantsInv /\ [PolicyNext]_(policyVars) => GrantsInv'
  BY GrantsStep
<1>2. GrantsInv => CriticalCovered
  BY DEF GrantsInv
<1> QED  BY <1>1, <1>2, InitPolicyTypes, PolicyTypesStep, InitGrants, PTL DEF PolicySpec

\* With one administrator at a time the grants of a role are exactly what the last
\* committed request for it asked for: setRolePermissions replaces that role's rows
\* and no others, and what was rolled back leaves nothing behind.
THEOREM SetIsSet == ASSUME OneAdministrator  PROVE PolicySpec => []RoleIsAsSet
<1>1. PolicyTypes /\ GrantsInv /\ [PolicyNext]_(policyVars) => GrantsInv'
  BY GrantsStep
<1>2. GrantsInv => RoleIsAsSet
  BY DEF GrantsInv
<1> QED  BY <1>1, <1>2, InitPolicyTypes, PolicyTypesStep, InitGrants, PTL DEF PolicySpec


=============================================================================
