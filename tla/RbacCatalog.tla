----------------------------- MODULE RbacCatalog -----------------------------
(***************************************************************************)
(* All the tables of the authorization policy, and all that changes them:  *)
(* the requests of rbac-admin.service.ts, the seeds that a deployment runs  *)
(* (seed.ts), and the routes that an API process declares when it starts   *)
(* (route-policy-reconciler.ts).  Roles are mirrored as Keycloak realm     *)
(* roles, after the transaction.                                           *)
(*                                                                         *)
(* A request checks in one step and writes and commits in another: between *)
(* them other transactions commit, and the constraints of the tables       *)
(* (migration DynamicRbac) have the last word.  How the statements inside  *)
(* a transaction and inside a load interleave is RbacPolicy's subject.     *)
(* Descriptions, the risk and kind of a capability, and the audit flag of  *)
(* a route are left out.                                                   *)
(***************************************************************************)
EXTENDS Naturals, FiniteSets

CONSTANTS
    SystemRole, CustomRole,     \* seeded, and made by administrators
    SystemPerm, CustomPerm,
    SystemCap, CustomCap,
    Critical,                   \* CRITICAL_PERMISSIONS
    DefaultGrants,              \* ROLE_PERMISSIONS
    DefaultRequired,            \* CAPABILITY_CATALOG: pairs of capability and permission
    DefaultRoute,               \* [Route -> Policy] that the code declares
    DefaultView,                \* [View -> SystemPerm]
    Admin, Instance,
    HomeOf,                     \* [Admin -> Instance] that handles the request
    SeedsWhileServing,          \* deployments seed while the API runs
    Resets,                     \* seeds run with SEED_RESET outside production
    MaxRequests,                \* bound: requests
    MaxFaults,                  \* bound: crashes and failing Keycloak calls
    Idle, None

Role == SystemRole \cup CustomRole
Perm == SystemPerm \cup CustomPerm
Cap  == SystemCap \cup CustomCap
Route == DOMAIN DefaultRoute
View  == DOMAIN DefaultView

Open(kind)  == [kind |-> kind, perm |-> None]
Gated(p)    == [kind |-> "permission", perm |-> p]
Policy      == {Open("public"), Open("authenticated")} \cup {Gated(p) : p \in Perm}

ASSUME CatalogAssumption ==
    /\ SystemRole \cap CustomRole = {} /\ SystemPerm \cap CustomPerm = {}
    /\ Critical \subseteq SystemPerm
    /\ DefaultGrants \subseteq SystemRole \X SystemPerm
    /\ DefaultRequired \subseteq SystemCap \X SystemPerm
    /\ DefaultRoute \in [Route -> Policy] /\ None \notin Policy
    /\ \A x \in Route : DefaultRoute[x].perm \in SystemPerm \cup {None}
    /\ DefaultView \in [View -> SystemPerm]
    /\ HomeOf \in [Admin -> Instance]
    /\ {SeedsWhileServing, Resets} \subseteq BOOLEAN
    /\ {MaxRequests, MaxFaults} \subseteq Nat

VARIABLES
    db,          \* the committed tables
    revision,    \* rbac_revision
    up,          \* [Instance -> {"down", "starting", "up"}]
    served,      \* [Instance -> [policy, revision] or None]
    req,         \* [Admin -> request or Idle]
    realm,       \* roles that Keycloak has as realm roles
    astray,      \* roles whose requests overlapped or did not get through
    asSet,       \* [Route -> the policy last asked for]
    seeded,      \* what the last seed did
    requests, faults

vars == <<db, revision, up, served, req, realm, astray, asSet, seeded, requests, faults>>

\* What loadData reads.  It reads the ids of the realm roles too, and nothing
\* uses them; the assignments of users it does not read.
PolicyOf(t) == [roles |-> t.roles, perms |-> t.perms, grants |-> t.grants, caps |-> t.caps,
                enabled |-> t.enabled, required |-> t.required, routes |-> t.routes,
                views |-> t.views]

RequiredOf(policy, c) == {p \in Perm : <<c, p>> \in policy.required}

\* permissionsSatisfyCapability: the capabilities that a permission set may use.
Allowlist(policy, perms) ==
    {c \in policy.caps : /\ c \in policy.enabled
                         /\ RequiredOf(policy, c) # {}
                         /\ RequiredOf(policy, c) \subseteq perms}

\* resolveEffectivePolicy: the registry's binding, or else the code's.
EffectivePolicy(policy, x) == IF policy.routes[x] # None THEN policy.routes[x] ELSE DefaultRoute[x]

Covered(grants) == \A p \in Critical : \E r \in Role : <<r, p>> \in grants

-----------------------------------------------------------------------------
(* The seeds (db:init): upserts overwrite, inserts with orIgnore add.      *)

SeedRolesAndPermissions(t) ==
    [t EXCEPT !.roles = @ \cup SystemRole, !.perms = @ \cup SystemPerm,
              !.grants = @ \cup DefaultGrants]

SeedCapabilities(t) ==
    [t EXCEPT !.caps = @ \cup SystemCap, !.enabled = @ \cup SystemCap,
              !.required = @ \cup DefaultRequired]

SeedViewPermissions(t) == [t EXCEPT !.views = DefaultView]
SeedUserRoles(t)       == [t EXCEPT !.assigned = @ \cup SystemRole]

SeedDatabase(t) == SeedUserRoles(SeedViewPermissions(SeedCapabilities(SeedRolesAndPermissions(t))))

Empty == [roles |-> {}, perms |-> {}, grants |-> {}, caps |-> {}, enabled |-> {},
          required |-> {}, routes |-> [x \in Route |-> None], views |-> [v \in View |-> None],
          assigned |-> {}, ids |-> {}]

\* resetSeededData: every table but route_policies, which may hold on to a
\* permission.
ResetSeededData(t) == [Empty EXCEPT !.routes = t.routes]

-----------------------------------------------------------------------------
(* The constraints of the tables *)

\* Foreign keys: nothing refers to a row that is not there.  Those of grants and
\* requirements delete with it, the others refuse.
References(t) ==
    /\ \A g \in t.grants : g[1] \in t.roles /\ g[2] \in t.perms
    /\ \A q \in t.required : q[1] \in t.caps /\ q[2] \in t.perms
    /\ \A x \in Route : t.routes[x] # None => t.routes[x].perm \in t.perms \cup {None}
    /\ \A v \in View : t.views[v] \in t.perms \cup {None}
    /\ t.assigned \subseteq t.roles

Init ==
    /\ \E rs \in SUBSET CustomRole, ps \in SUBSET CustomPerm, cs \in SUBSET CustomCap :
         db = [SeedDatabase(Empty) EXCEPT !.roles = @ \cup rs, !.perms = @ \cup ps,
                                          !.caps = @ \cup cs, !.enabled = @ \cup cs,
                                          !.ids = rs]
    /\ revision = 1
    /\ up = [i \in Instance |-> "down"]
    /\ served = [i \in Instance |-> None]
    /\ req = [a \in Admin |-> Idle]
    /\ realm = db.roles
    /\ astray = {}
    /\ asSet = DefaultRoute
    /\ seeded = "ok"
    /\ requests = 0
    /\ faults = MaxFaults

-----------------------------------------------------------------------------
(* Requests *)

RoleRequest == [op : {"createRole", "deleteRole"}, role : CustomRole]
Request ==
    RoleRequest
    \cup [op : {"updateRole"}, role : Role]
    \cup [op : {"createPermission", "deletePermission", "updatePermission"}, perm : CustomPerm]
    \cup [op : {"setRolePermissions"}, role : Role, perms : SUBSET Perm]
    \cup [op : {"createCapability"}, cap : CustomCap, perms : SUBSET Perm]
    \cup [op : {"setRequired"}, cap : Cap, perms : SUBSET Perm]
    \cup [op : {"setEnabled"}, cap : Cap, enabled : BOOLEAN]
    \cup [op : {"deleteCapability"}, cap : CustomCap]
    \cup [op : {"updateRoutePolicy"}, route : Route, policy : Policy]
    \cup [op : {"updateViewPermission"}, view : View, perm : Perm]

\* Where a request is between its calls.
Phase == {"check", "write", "refresh", "mirror", "storeId", "reload"}

ASSUME IdleIsNoRequest == Idle \notin [body : Request, phase : Phase]

AboutRole(r) == {a \in Admin : req[a] # Idle /\ req[a].body \in RoleRequest /\ req[a].body.role = r}

\* An instance that is up takes the request and opens a transaction.
Begin(a, body) ==
    /\ up[HomeOf[a]] = "up"
    /\ req[a] = Idle
    /\ requests < MaxRequests
    /\ requests' = requests + 1
    /\ req' = [req EXCEPT ![a] = [body |-> body, phase |-> "check"]]
    /\ astray' = IF body \in RoleRequest /\ AboutRole(body.role) # {}
                 THEN astray \cup {body.role} ELSE astray
    /\ UNCHANGED <<db, revision, up, served, realm, asSet, seeded, faults>>

\* What each operation looks at before it writes.
Accepted(body, t) ==
    CASE body.op = "createRole"           -> body.role \notin t.roles
      [] body.op = "deleteRole"           -> body.role \in t.roles \ t.assigned
      [] body.op = "updateRole"           -> body.role \in t.roles
      [] body.op = "createPermission"     -> body.perm \notin t.perms
      [] body.op = "updatePermission"     -> body.perm \in t.perms
      [] body.op = "deletePermission"     -> /\ body.perm \in t.perms
                                             /\ \A x \in Route : t.routes[x] # Gated(body.perm)
                                             /\ \A v \in View : t.views[v] # body.perm
      [] body.op = "setRolePermissions"   -> body.role \in t.roles /\ body.perms \subseteq t.perms
      [] body.op = "createCapability"     -> body.cap \notin t.caps /\ body.perms \subseteq t.perms
      [] body.op = "setRequired"          -> body.cap \in t.caps /\ body.perms \subseteq t.perms
      [] body.op = "setEnabled"           -> body.cap \in t.caps
      [] body.op = "deleteCapability"     -> body.cap \in t.caps
      [] body.op = "updateRoutePolicy"    -> /\ t.routes[body.route] # None
                                             /\ body.policy.perm \in t.perms \cup {None}
      [] body.op = "updateViewPermission" -> body.perm \in t.perms

-----------------------------------------------------------------------------
(* What each operation writes *)

\* DELETE: the grants of the role go with it.
DeleteRole(t, r) ==
    [t EXCEPT !.roles = @ \ {r}, !.ids = @ \ {r}, !.grants = {g \in @ : g[1] # r}]

\* Mutant of DeletePermission: bindings go with the permission as grants do, so
\* that only the count of the check keeps a bound one.
DeletePermission_Cascades(t, p) ==
    [t EXCEPT !.perms = @ \ {p}, !.grants = {g \in @ : g[2] # p},
              !.required = {q \in @ : q[2] # p},
              !.routes = [x \in Route |-> IF @[x] = Gated(p) THEN None ELSE @[x]]]

\* DELETE: grants and requirements of the permission go with it.
DeletePermission(t, p) ==
    [t EXCEPT !.perms = @ \ {p}, !.grants = {g \in @ : g[2] # p},
              !.required = {q \in @ : q[2] # p}]

SetRolePermissions(t, r, ps) ==
    [t EXCEPT !.grants = {g \in @ : g[1] # r} \cup ({r} \X ps)]

CreateCapability(t, c, ps) ==
    [t EXCEPT !.caps = @ \cup {c}, !.enabled = @ \cup {c}, !.required = @ \cup ({c} \X ps)]

SetRequired(t, c, ps) ==
    [t EXCEPT !.required = {q \in @ : q[1] # c} \cup ({c} \X ps)]

SetEnabled(t, c, on) == [t EXCEPT !.enabled = IF on THEN @ \cup ({c} \cap t.caps) ELSE @ \ {c}]

DeleteCapability(t, c) ==
    [t EXCEPT !.caps = @ \ {c}, !.enabled = @ \ {c}, !.required = {q \in @ : q[1] # c}]

Written(body, t) ==
    CASE body.op = "createRole"           -> [t EXCEPT !.roles = @ \cup {body.role}]
      [] body.op = "deleteRole"           -> DeleteRole(t, body.role)
      [] body.op = "createPermission"     -> [t EXCEPT !.perms = @ \cup {body.perm}]
      [] body.op = "deletePermission"     -> DeletePermission(t, body.perm)
      [] body.op = "setRolePermissions"   -> SetRolePermissions(t, body.role, body.perms)
      [] body.op = "createCapability"     -> CreateCapability(t, body.cap, body.perms)
      [] body.op = "setRequired"          -> SetRequired(t, body.cap, body.perms)
      [] body.op = "setEnabled"           -> SetEnabled(t, body.cap, body.enabled)
      [] body.op = "deleteCapability"     -> DeleteCapability(t, body.cap)
      [] body.op = "updateRoutePolicy"    -> [t EXCEPT !.routes[body.route] = body.policy]
      [] body.op = "updateViewPermission" -> [t EXCEPT !.views[body.view] = body.perm]
      [] OTHER                            -> t

\* Primary keys: what is inserted is not there.
Fresh(body, t) ==
    CASE body.op = "createRole"       -> body.role \notin t.roles
      [] body.op = "createPermission" -> body.perm \notin t.perms
      [] body.op = "createCapability" -> body.cap \notin t.caps
      [] OTHER                        -> TRUE

-----------------------------------------------------------------------------
(* mutate *)

At(a, phase)   == req[a] # Idle /\ req[a].phase = phase
GoTo(a, phase) == req' = [req EXCEPT ![a].phase = phase]
End(a)         == req' = [req EXCEPT ![a] = Idle]

Check(a) ==
    /\ At(a, "check")
    /\ IF Accepted(req[a].body, db) THEN GoTo(a, "write") ELSE End(a)
    /\ UNCHANGED <<db, revision, up, served, realm, astray, asSet, seeded, requests, faults>>

\* The constraints hold and the critical permissions stay covered, or the
\* transaction is undone.
Commits(body, t) == Fresh(body, db) /\ References(t) /\ Covered(t.grants)

NextRevision(body) == revision + 1

Write(a) ==
    LET body == req[a].body
        t    == Written(body, db)
    IN  /\ At(a, "write")
        /\ IF Commits(body, t)
           THEN /\ db' = t
                /\ revision' = NextRevision(body)
                /\ asSet' = IF body.op = "updateRoutePolicy"
                            THEN [asSet EXCEPT ![body.route] = body.policy] ELSE asSet
                /\ GoTo(a, "refresh")
           ELSE End(a) /\ UNCHANGED <<db, revision, asSet>>
        /\ UNCHANGED <<up, served, realm, astray, seeded, requests, faults>>

Load(i) == served' = [served EXCEPT ![i] = [policy |-> PolicyOf(db), revision |-> revision]]

\* The request's own instance loads the new policy.
Refresh(a) ==
    /\ At(a, "refresh")
    /\ Load(HomeOf[a])
    /\ IF req[a].body.op \in {"createRole", "updateRole", "deleteRole"}
       THEN GoTo(a, "mirror") ELSE End(a)
    /\ UNCHANGED <<db, revision, up, realm, astray, asSet, seeded, requests, faults>>

\* Mutant of RealmAfter: a deleted role stays in the realm.
RealmAfter_Kept(body) == realm \cup (IF body.op = "createRole" THEN {body.role} ELSE {})

\* ensureRealmRole finds a realm role that is there, deleteRealmRole may find none.
RealmAfter(body) ==
    CASE body.op = "createRole" -> realm \cup {body.role}
      [] body.op = "deleteRole" -> realm \ {body.role}
      [] OTHER                  -> realm

\* The realm role is made, described or deleted, after the commit.
Mirror(a) ==
    /\ At(a, "mirror")
    /\ realm' = RealmAfter(req[a].body)
    /\ IF req[a].body.op = "createRole" THEN GoTo(a, "storeId") ELSE End(a)
    /\ UNCHANGED <<db, revision, up, served, astray, asSet, seeded, requests, faults>>

\* A failed call, which may have done its work, is reported to the administrator.
MirrorFails(a) ==
    /\ At(a, "mirror")
    /\ faults > 0
    /\ faults' = faults - 1
    /\ astray' = astray \cup {req[a].body.role}
    /\ realm' \in {realm, RealmAfter(req[a].body)}
    /\ End(a)
    /\ UNCHANGED <<db, revision, up, served, asSet, seeded, requests>>

\* The id of the realm role is stored, in no transaction and in no revision.
StoreId(a) ==
    /\ At(a, "storeId")
    /\ db' = [db EXCEPT !.ids = @ \cup ({req[a].body.role} \cap db.roles)]
    /\ GoTo(a, "reload")
    /\ UNCHANGED <<revision, up, served, realm, astray, asSet, seeded, requests, faults>>

Reload(a) ==
    /\ At(a, "reload")
    /\ Load(HomeOf[a])
    /\ End(a)
    /\ UNCHANGED <<db, revision, up, realm, astray, asSet, seeded, requests, faults>>

-----------------------------------------------------------------------------
(* Instances, assignments and deployments *)

\* reconcileRoutePolicies: a route that has no row gets the code's policy.
Reconciled(t) ==
    [t EXCEPT !.routes = [x \in Route |-> IF @[x] = None THEN DefaultRoute[x] ELSE @[x]]]

Reconcile(i) ==
    /\ up[i] = "down"
    /\ seeded = "ok"
    /\ db' = Reconciled(db)
    /\ up' = [up EXCEPT ![i] = "starting"]
    /\ UNCHANGED <<revision, served, req, realm, astray, asSet, seeded, requests, faults>>

Start(i) ==
    /\ up[i] = "starting"
    /\ Load(i)
    /\ up' = [up EXCEPT ![i] = "up"]
    /\ UNCHANGED <<db, revision, req, realm, astray, asSet, seeded, requests, faults>>

Poll(i) ==
    /\ up[i] = "up"
    /\ revision # served[i].revision
    /\ Load(i)
    /\ UNCHANGED <<db, revision, up, req, realm, astray, asSet, seeded, requests, faults>>

\* The process is lost with the requests it handles.
Crash(i) ==
    LET lost == {a \in Admin : HomeOf[a] = i /\ req[a] # Idle} IN
    /\ up[i] # "down"
    /\ faults > 0
    /\ faults' = faults - 1
    /\ up' = [up EXCEPT ![i] = "down"]
    /\ served' = [served EXCEPT ![i] = None]
    /\ req' = [a \in Admin |-> IF a \in lost THEN Idle ELSE req[a]]
    /\ astray' = astray \cup {r \in CustomRole : \E a \in lost :
                                req[a].body \in RoleRequest /\ req[a].body.role = r}
    /\ UNCHANGED <<db, revision, realm, asSet, seeded, requests>>

\* A person's first sign-in is given a role of the token that the registry
\* knows; the foreign key refuses one that has been deleted.
Assign(i, r) ==
    /\ up[i] = "up"
    /\ r \in served[i].policy.roles \cap db.roles
    /\ r \notin db.assigned
    /\ db' = [db EXCEPT !.assigned = @ \cup {r}]
    /\ UNCHANGED <<revision, up, served, req, realm, astray, asSet, seeded, requests, faults>>

\* A deployment runs the seeds, in a transaction.  A reset fails as long as a
\* route refers to a permission.
Seed ==
    LET base == IF Resets THEN ResetSeededData(db) ELSE db IN
    /\ SeedsWhileServing \/ \A i \in Instance : up[i] = "down"
    /\ IF Resets /\ ~References(base)
       THEN seeded' = "failed" /\ UNCHANGED db
       ELSE seeded' = "ok" /\ db' = SeedDatabase(base)
    /\ UNCHANGED <<revision, up, served, req, realm, astray, asSet, requests, faults>>

Next ==
    \/ \E a \in Admin :
         \/ \E body \in Request : Begin(a, body)
         \/ Check(a) \/ Write(a) \/ Refresh(a) \/ Mirror(a) \/ MirrorFails(a)
         \/ StoreId(a) \/ Reload(a)
    \/ \E i \in Instance : Reconcile(i) \/ Start(i) \/ Poll(i) \/ Crash(i)
    \/ \E i \in Instance, r \in CustomRole : Assign(i, r)
    \/ Seed

Spec == Init /\ [][Next]_vars

-----------------------------------------------------------------------------
(* Properties *)

\* Every route requires what an administrator last asked for, or else what the
\* code declares, over restarts, deployments and changes of everything else: also
\* when the permission it requires was counted as unreferenced before the route was
\* bound to it, and is deleted after.
RoutesAreAsSet == \A x \in Route : EffectivePolicy(db, x) = asSet[x]

\* A role whose requests did not overlap and all got through is a realm role
\* exactly as long as it is a role, and its realm role's id is stored.
RealmMirrorsRoles ==
    \A r \in CustomRole : r \notin astray /\ AboutRole(r) = {} =>
        /\ r \in realm <=> r \in db.roles
        /\ r \in db.roles => r \in db.ids

\* While no seed ran beside the API, instances that serve the newest revision
\* serve the committed policy: the revision says whether a registry is stale.  A
\* load is one step here; RbacPolicy has one that a commit overtakes, after which
\* this is not so.
RevisionTellsStale ==
    \A i \in Instance :
        up[i] = "up" /\ served[i].revision = revision => served[i].policy = PolicyOf(db)

\* seed.ts: "When true, seeded data is deleted and recreated."
SeedSucceeds == seeded = "ok"

\* A capability does not become available to more permission sets but by a
\* request about it.  Deleting a permission breaks it: the requirement goes too.
CapabilityNeverWidens ==
    [][\A c \in Cap, ps \in SUBSET Perm :
          c \in Allowlist(db', ps) \ Allowlist(db, ps) =>
              \E a \in Admin : req[a] # Idle /\ "cap" \in DOMAIN req[a].body /\ req[a].body.cap = c]_vars

\* Some role can administer: it has the permission that every route of the
\* administration requires.  Rebinding a route breaks it.
SomeoneAdministers ==
    \A x \in Route : EffectivePolicy(db, x).kind = "permission" =>
        \E r \in db.roles : <<r, EffectivePolicy(db, x).perm>> \in db.grants

=============================================================================
