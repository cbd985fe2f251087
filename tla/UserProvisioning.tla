-------------------------- MODULE UserProvisioning --------------------------
(***************************************************************************)
(* User profiles, kept in two places that no transaction spans: the        *)
(* profile and its roles in the nova database, and the account and its     *)
(* realm roles in Keycloak, whose tokens are what authorization uses.  A   *)
(* person's first request creates or links the profile (current-user.ts);  *)
(* an administrator creates and edits users and reconciles Keycloak with   *)
(* them (admin-user.service.ts, keycloak-provisioning.service.ts).         *)
(*                                                                         *)
(* A request is a row of steps, one per awaited query or call of the Admin *)
(* API, and requests interleave; a page load makes several of the same     *)
(* person.  Names and descriptions, the password e-mail and the admin      *)
(* token are left out.                                                     *)
(***************************************************************************)
EXTENDS Naturals, FiniteSets, FiniteSetsExt

CONSTANTS
    Email,          \* addresses; a Keycloak username is one
    User,           \* ids of profiles
    Account,        \* Keycloak ids
    NovaRole,       \* roles that Nova's registry has
    Intrinsic,      \* Keycloak's own roles
    Req,            \* requests in progress at a time
    SeedUsers,      \* [SUBSET User -> Email]: profiles that the seeds made
    Imported,       \* [SUBSET Account -> Email]: accounts of the realm import
    MaxAdmin,       \* bound: requests of administrators
    MaxFailures,    \* bound: failures and realm roles that change
    Idle, None

ASSUME UsersAssumption ==
    /\ DOMAIN SeedUsers \subseteq User /\ SeedUsers \in [DOMAIN SeedUsers -> Email]
    /\ DOMAIN Imported \subseteq Account /\ Imported \in [DOMAIN Imported -> Email]
    /\ \A u, v \in DOMAIN SeedUsers : SeedUsers[u] = SeedUsers[v] => u = v
    /\ \A a, b \in DOMAIN Imported : Imported[a] = Imported[b] => a = b
    /\ NovaRole \cap Intrinsic = {}
    /\ {MaxAdmin, MaxFailures} \subseteq Nat

VARIABLES
    users,      \* [User -> [email, kc, active] or None]
    roles,      \* [User -> SUBSET NovaRole]: user_roles
    accounts,   \* [Account -> [email, enabled, roles] or None]
    realm,      \* realm roles that Keycloak has
    req,        \* [Req -> request or Idle]
    admin,      \* requests of administrators so far
    failures,   \* failures left
    actedAs     \* [Account -> profiles that its requests were answered for]

database == <<users, roles>>
keycloak == <<accounts, realm>>
counters == <<admin, failures>>
vars     == <<database, keycloak, req, counters, actedAs>>

Profile == [email : Email, kc : Account \cup {None}, active : BOOLEAN]
Login   == [email : Email, enabled : BOOLEAN, roles : SUBSET (NovaRole \cup Intrinsic)]

ASSUME NoneIsNoRow == None \notin Profile \cup Login \cup Account

Rows(table)    == {x \in DOMAIN table : table[x] # None}
WithEmail(e)   == {u \in Rows(users) : users[u].email = e}
WithAccount(a) == {u \in Rows(users) : users[u].kc = a}
Username(e)    == {a \in Rows(accounts) : accounts[a].email = e}

Init ==
    /\ users = [u \in User |-> IF u \in DOMAIN SeedUsers
                  THEN [email |-> SeedUsers[u], kc |-> None, active |-> TRUE] ELSE None]
    /\ roles \in [User -> {{}} \cup {{r} : r \in NovaRole}]
    /\ \A u \in User : (u \in DOMAIN SeedUsers) <=> (roles[u] # {})
    /\ \E r \in NovaRole, on \in [DOMAIN Imported -> BOOLEAN] :
          accounts = [a \in Account |-> IF a \in DOMAIN Imported
             THEN [email |-> Imported[a], enabled |-> on[a], roles |-> Intrinsic \cup {r}] ELSE None]
    /\ realm = NovaRole \cup Intrinsic
    /\ req = [q \in Req |-> Idle]
    /\ admin = 0 /\ failures = MaxFailures
    /\ actedAs = [a \in Account |-> {}]

-----------------------------------------------------------------------------
(* Requests.  "alone" says that no other of the same address overlapped.   *)

At(q, phase) == req[q] # Idle /\ req[q].phase = phase

Begin(q, op, e, user, kc, want, phase) ==
    LET others == {p \in Req : req[p] # Idle /\ req[p].email = e} IN
    /\ req[q] = Idle
    /\ req' = [p \in Req |->
         CASE p = q -> [op |-> op, email |-> e, user |-> user, kc |-> kc, want |-> want,
                        active |-> TRUE, linked |-> FALSE, reused |-> FALSE, add |-> {}, remove |-> {},
                        status |-> "synced", phase |-> phase, alone |-> others = {}]
           [] p \in others -> [req[p] EXCEPT !.alone = FALSE]
           [] OTHER -> req[p]]
    /\ UNCHANGED <<database, keycloak, failures, actedAs>>

GoTo(q, phase) == req' = [req EXCEPT ![q].phase = phase]
End(q)         == req' = [req EXCEPT ![q] = Idle]

\* Of the roles in a token, those that the registry knows count.
TokenRoles(a) == accounts[a].roles \cap NovaRole

\* A person's request, with a token of the account.
SignIn(q, a) ==
    /\ accounts[a] # None
    /\ accounts[a].enabled
    /\ Begin(q, "signIn", accounts[a].email, None, a, TokenRoles(a), "byKeycloak")
    /\ UNCHANGED admin

AdminRequest(q, op, e, u, kc, want, phase) ==
    /\ admin < MaxAdmin
    /\ admin' = admin + 1
    /\ Begin(q, op, e, u, kc, want, phase)

CreateUser(q, e, want) == AdminRequest(q, "create", e, None, None, want, "taken")

UpdateUser(q, u) ==
    /\ u \in Rows(users)
    /\ AdminRequest(q, "update", users[u].email, u, None, {}, "update")

SetUserRoles(q, u, want) ==
    /\ u \in Rows(users)
    /\ AdminRequest(q, "setRoles", users[u].email, u, None, want, "setRoles")

SyncUserToKeycloak(q, u) ==
    /\ u \in Rows(users)
    /\ AdminRequest(q, "sync", users[u].email, u, None, {}, "load")

-----------------------------------------------------------------------------
(* resolveCurrentUser *)

Answer(q, u) ==
    /\ actedAs' = [actedAs EXCEPT ![req[q].kc] = @ \cup {u}]
    /\ End(q)

FindByKeycloakId(q) ==
    /\ At(q, "byKeycloak")
    /\ IF WithAccount(req[q].kc) = {} THEN GoTo(q, "byEmail") /\ UNCHANGED actedAs
       ELSE \E u \in WithAccount(req[q].kc) : Answer(q, u)
    /\ UNCHANGED <<database, keycloak, counters>>

\* A profile that is linked already is used as it is.
FindByEmail(q) ==
    /\ At(q, "byEmail")
    /\ \/ \E u \in WithEmail(req[q].email) :
             IF users[u].kc # None THEN Answer(q, u)
             ELSE /\ req' = [req EXCEPT ![q].user = u, ![q].phase = "link"]
                  /\ UNCHANGED actedAs
       \/ WithEmail(req[q].email) = {} /\ GoTo(q, "create") /\ UNCHANGED actedAs
    /\ UNCHANGED <<database, keycloak, counters>>

\* The two unique indexes of users.
UniqueEmail(e)      == WithEmail(e) = {}
UniqueAccount(u, a) == a = None \/ WithAccount(a) \subseteq {u}

LinkKeycloakId(q) ==
    LET u == req[q].user
        a == req[q].kc
    IN
    /\ At(q, "link")
    /\ IF UniqueAccount(u, a) THEN users' = [users EXCEPT ![u].kc = a] /\ Answer(q, u)
       ELSE End(q) /\ UNCHANGED <<users, actedAs>>
    /\ UNCHANGED <<roles, keycloak, counters>>

\* Mutant of InsertUser: that no profile was found is what keeps profiles apart.
InsertUser_Unindexed(u, e, a) ==
    /\ users' = [users EXCEPT ![u] = [email |-> e, kc |-> a, active |-> TRUE]]

InsertUser(u, e, a) ==
    /\ UniqueEmail(e) /\ UniqueAccount(u, a)
    /\ users' = [users EXCEPT ![u] = [email |-> e, kc |-> a, active |-> TRUE]]

\* The loser of a race is answered with an error.
CreateProfile(q) ==
    /\ At(q, "create")
    /\ \/ \E u \in User \ Rows(users) :
             /\ InsertUser(u, req[q].email, req[q].kc)
             /\ IF req[q].want = {} THEN Answer(q, u)
                ELSE /\ req' = [req EXCEPT ![q].user = u, ![q].phase = "roles"]
                     /\ UNCHANGED actedAs
       \/ ~UniqueEmail(req[q].email) /\ End(q) /\ UNCHANGED <<users, actedAs>>
    /\ UNCHANGED <<roles, keycloak, counters>>

ReplaceRoles(u, want) == roles' = [roles EXCEPT ![u] = want]

SeedRoles(q) ==
    /\ At(q, "roles")
    /\ ReplaceRoles(req[q].user, req[q].want)
    /\ Answer(q, req[q].user)
    /\ UNCHANGED <<users, keycloak, counters>>

-----------------------------------------------------------------------------
(* AdminUserService: the database side *)

CheckTaken(q) ==
    /\ At(q, "taken")
    /\ IF WithEmail(req[q].email) # {} THEN End(q) ELSE GoTo(q, "insert")
    /\ UNCHANGED <<database, keycloak, counters, actedAs>>

StoreUser(q) ==
    /\ At(q, "insert")
    /\ \/ \E u \in User \ Rows(users) :
             /\ InsertUser(u, req[q].email, None)
             /\ req' = [req EXCEPT ![q].user = u, ![q].phase = "storeRoles"]
       \/ ~UniqueEmail(req[q].email) /\ End(q) /\ UNCHANGED users
    /\ UNCHANGED <<roles, keycloak, counters, actedAs>>

StoreRoles(q) ==
    /\ At(q, "storeRoles")
    /\ ReplaceRoles(req[q].user, req[q].want)
    /\ GoTo(q, "kcCreate")
    /\ UNCHANGED <<users, keycloak, counters, actedAs>>

StoreUpdate(q) ==
    /\ At(q, "update")
    /\ \E active \in BOOLEAN : users' = [users EXCEPT ![req[q].user].active = active]
    /\ GoTo(q, "load")
    /\ UNCHANGED <<roles, keycloak, counters, actedAs>>

StoreNewRoles(q) ==
    /\ At(q, "setRoles")
    /\ ReplaceRoles(req[q].user, req[q].want)
    /\ GoTo(q, "load")
    /\ UNCHANGED <<users, keycloak, counters, actedAs>>

\* The profile as it is now is what Keycloak is reconciled with.  Only an explicit
\* synchronization looks for the account of a profile that is not linked.
Load(q) ==
    LET row == users[req[q].user] IN
    /\ At(q, "load")
    /\ IF row.kc = None /\ req[q].op # "sync" THEN End(q)
       ELSE req' = [req EXCEPT ![q].kc = row.kc, ![q].linked = (row.kc # None),
                               ![q].active = row.active, ![q].want = roles[req[q].user],
                               ![q].phase = IF row.kc = None THEN "kcFind" ELSE "kcEnable"]
    /\ UNCHANGED <<database, keycloak, counters, actedAs>>

-----------------------------------------------------------------------------
(* KeycloakProvisioningService: the Admin API *)

FindUserByUsername(q) ==
    /\ At(q, "kcFind")
    /\ \/ \E a \in Username(req[q].email) :
             req' = [req EXCEPT ![q].kc = a, ![q].phase = "kcEnable"]
       \/ Username(req[q].email) = {} /\ GoTo(q, "kcCreate")
    /\ UNCHANGED <<database, keycloak, counters, actedAs>>

\* createUser: an account that exists already (409) is used.  The creation of a
\* profile goes on with the roles, whether or not that account is enabled.
CreateAccount(q) ==
    LET next == IF req[q].op = "create" THEN "kcRoles" ELSE "kcEnable" IN
    /\ At(q, "kcCreate")
    /\ \/ \E a \in Username(req[q].email) :
             /\ req' = [req EXCEPT ![q].kc = a, ![q].reused = TRUE, ![q].phase = next]
             /\ UNCHANGED accounts
       \/ /\ Username(req[q].email) = {}
          /\ \E a \in Account \ Rows(accounts) :
                /\ accounts' = [accounts EXCEPT ![a] = [email |-> req[q].email,
                                                        enabled |-> req[q].active,
                                                        roles |-> Intrinsic]]
                /\ req' = [req EXCEPT ![q].kc = a, ![q].phase = next]
    /\ UNCHANGED <<database, realm, counters, actedAs>>

SetUserEnabled(q) ==
    /\ At(q, "kcEnable")
    /\ accounts' = [accounts EXCEPT ![req[q].kc].enabled = req[q].active]
    /\ GoTo(q, "kcRoles")
    /\ UNCHANGED <<database, realm, counters, actedAs>>

\* Only roles that Nova manages are added or removed.
Reconciled(current, want) ==
    [add |-> want \ current, remove |-> (current \cap NovaRole) \ want]

\* Wanted roles that Keycloak does not have are left out and reported.
ReadRealmRoles(q) ==
    LET d == Reconciled(accounts[req[q].kc].roles, req[q].want) IN
    /\ At(q, "kcRoles")
    /\ req' = [req EXCEPT ![q].add = d.add \cap realm, ![q].remove = d.remove,
                          ![q].status = IF d.add \subseteq realm THEN "synced" ELSE "partial",
                          ![q].phase = "kcAdd"]
    /\ UNCHANGED <<database, keycloak, counters, actedAs>>

\* Mutant of AddRealmRoles: the role mappings are replaced by the new ones.
AddRealmRoles_Replaces(q) ==
    /\ At(q, "kcAdd")
    /\ accounts' = [accounts EXCEPT ![req[q].kc].roles = (@ \cap Intrinsic) \cup req[q].add]
    /\ GoTo(q, "kcRemove")
    /\ UNCHANGED <<database, realm, counters, actedAs>>

AddRealmRoles(q) ==
    /\ At(q, "kcAdd")
    /\ accounts' = [accounts EXCEPT ![req[q].kc].roles = @ \cup req[q].add]
    /\ GoTo(q, "kcRemove")
    /\ UNCHANGED <<database, realm, counters, actedAs>>

RemoveRealmRoles(q) ==
    /\ At(q, "kcRemove")
    /\ accounts' = [accounts EXCEPT ![req[q].kc].roles = @ \ req[q].remove]
    /\ GoTo(q, "link account")
    /\ UNCHANGED <<database, realm, counters, actedAs>>

\* setKeycloakId of a profile that was not linked when it was loaded; then the
\* administrator is shown the status.
LinkAccount(q) ==
    LET u == req[q].user
        a == req[q].kc
    IN
    /\ At(q, "link account")
    /\ \/ req[q].linked /\ GoTo(q, "shown") /\ UNCHANGED users
       \/ /\ ~req[q].linked
          /\ IF UniqueAccount(u, a) THEN users' = [users EXCEPT ![u].kc = a] /\ GoTo(q, "shown")
             ELSE End(q) /\ UNCHANGED users
    /\ UNCHANGED <<roles, keycloak, counters, actedAs>>

Show(q) ==
    /\ At(q, "shown")
    /\ End(q)
    /\ UNCHANGED <<database, keycloak, counters, actedAs>>

-----------------------------------------------------------------------------
(* The environment *)

InKeycloak == {"kcFind", "kcCreate", "kcEnable", "kcRoles", "kcAdd", "kcRemove"}

\* A call of Keycloak fails or times out: the request is answered with status
\* "error", and an account that was found or created is not linked.
KeycloakFails(q) ==
    /\ failures > 0
    /\ req[q] # Idle /\ req[q].phase \in InKeycloak
    /\ req' = [req EXCEPT ![q].status = "error", ![q].phase = "shown"]
    /\ failures' = failures - 1
    /\ UNCHANGED <<database, keycloak, admin, actedAs>>

\* A query fails or the process stops.
Fail(q) ==
    /\ failures > 0
    /\ req[q] # Idle /\ req[q].phase \notin InKeycloak
    /\ End(q)
    /\ failures' = failures - 1
    /\ UNCHANGED <<database, keycloak, admin, actedAs>>

\* A realm role is missing until somebody adds it.
RealmRoleChanges(r) ==
    /\ failures > 0
    /\ \/ /\ r \in realm
          /\ \A a \in Rows(accounts) : r \notin accounts[a].roles
          /\ \A q \in Req : req[q] = Idle
          /\ realm' = realm \ {r}
       \/ r \notin realm /\ realm' = realm \cup {r}
    /\ failures' = failures - 1
    /\ UNCHANGED <<database, accounts, req, admin, actedAs>>

-----------------------------------------------------------------------------
Resolve(q) == \/ FindByKeycloakId(q) \/ FindByEmail(q) \/ LinkKeycloakId(q)
              \/ CreateProfile(q) \/ SeedRoles(q)

Administer(q) == \/ CheckTaken(q) \/ StoreUser(q) \/ StoreRoles(q)
                 \/ StoreUpdate(q) \/ StoreNewRoles(q) \/ Load(q)

Reconcile(q) == \/ FindUserByUsername(q) \/ CreateAccount(q) \/ SetUserEnabled(q)
                \/ ReadRealmRoles(q) \/ AddRealmRoles(q) \/ RemoveRealmRoles(q)
                \/ LinkAccount(q) \/ Show(q)

Next ==
    \/ \E q \in Req : Resolve(q) \/ Administer(q) \/ Reconcile(q)
    \/ \E q \in Req, a \in Account : SignIn(q, a)
    \/ \E q \in Req, e \in Email, r \in NovaRole : CreateUser(q, e, {r})
    \/ \E q \in Req, u \in User : UpdateUser(q, u) \/ SyncUserToKeycloak(q, u)
    \/ \E q \in Req, u \in User, r \in NovaRole : SetUserRoles(q, u, {r})
    \/ \E q \in Req : KeycloakFails(q) \/ Fail(q)
    \/ \E r \in NovaRole : RealmRoleChanges(r)

Spec == Init /\ [][Next]_vars

-----------------------------------------------------------------------------
(* Properties *)

\* Every variable has its type.
TypeOK ==
    /\ users \in [User -> Profile \cup {None}]
    /\ roles \in [User -> SUBSET NovaRole]
    /\ accounts \in [Account -> Login \cup {None}]
    /\ realm \subseteq NovaRole \cup Intrinsic
    /\ actedAs \in [Account -> SUBSET User]

\* A person is one profile and a profile one person, from the first request on,
\* however many requests resolve the person at once, and whether the profile was
\* there before the account, the account before the profile, or neither.
OneProfileEach ==
    /\ \A a \in Account : Cardinality(actedAs[a]) <= 1
    /\ \A a, b \in Account : a # b => actedAs[a] \cap actedAs[b] = {}

\* "synced" is true when it is shown, provided that no other request of the same
\* address overlapped: Keycloak has exactly the roles of the profile, whatever
\* failed before, and lets the person in just when the profile is active.  The
\* last is not so when an administrator created the profile of an address that
\* had an account already: see SyncedLetsIn.
SyncedIsExact ==
    \A q \in Req :
       (At(q, "shown") /\ req[q].status = "synced" /\ req[q].alone) =>
          LET u == req[q].user
              a == accounts[req[q].kc]
          IN  /\ users[u].kc = req[q].kc
              /\ a.roles \cap NovaRole = roles[u]
              /\ (req[q].op # "create" \/ ~req[q].reused) => a.enabled = users[u].active

\* Reconciliation never takes a role from an account that Nova does not manage.
IntrinsicRolesStay ==
    [][\A a \in Rows(accounts) : accounts[a].roles \cap Intrinsic \subseteq accounts'[a].roles]_accounts

\* A role leaves an account only if an administrator set roles without it.
RolesLeaveOnlyWhenSet ==
    [][\A a \in Rows(accounts) : \A r \in (accounts[a].roles \cap NovaRole) \ accounts'[a].roles :
          \E q \in Req : At(q, "kcRemove") /\ req[q].op \in {"setRoles", "create"}]_accounts

\* user.dto.ts:87 shows of the account "enabled: user.active": with "synced", a person
\* whose profile is active can log in, also when the creation of the profile found
\* an account.  createUser leaves such an account as it is, disabled or not.
SyncedLetsIn ==
    \A q \in Req :
       (At(q, "shown") /\ req[q].status = "synced" /\ req[q].alone) =>
          accounts[req[q].kc].enabled = users[req[q].user].active

=============================================================================
