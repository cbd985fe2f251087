------------------------- MODULE RbacCatalog_proofs -------------------------
(***************************************************************************)
(* TLAPS proofs about RbacCatalog, for any policy, administrators and      *)
(* instances, and about the rows of SeedData, for every content of the     *)
(* tables.                                                                 *)
(***************************************************************************)
EXTENDS RbacCatalog, TLAPS

-----------------------------------------------------------------------------
(* Types *)

Table ==
    [roles : SUBSET Role, perms : SUBSET Perm, grants : SUBSET (Role \X Perm),
     caps : SUBSET Cap, enabled : SUBSET Cap, required : SUBSET (Cap \X Perm),
     routes : [Route -> Policy \cup {None}], views : [View -> Perm \cup {None}],
     assigned : SUBSET Role, ids : SUBSET Role]

Served ==
    [policy : [roles : SUBSET Role, perms : SUBSET Perm, grants : SUBSET (Role \X Perm),
               caps : SUBSET Cap, enabled : SUBSET Cap, required : SUBSET (Cap \X Perm),
               routes : [Route -> Policy \cup {None}], views : [View -> Perm \cup {None}]],
     revision : Nat]

TypeInv ==
    /\ db \in Table
    /\ revision \in Nat
    /\ up \in [Instance -> {"down", "starting", "up"}]
    /\ served \in [Instance -> Served \cup {None}]
    /\ req \in [Admin -> [body : Request, phase : Phase] \cup {Idle}]
    /\ realm \subseteq Role
    /\ astray \subseteq Role
    /\ asSet \in [Route -> Policy]
    /\ seeded \in {"ok", "failed"}
    /\ requests \in Nat
    /\ faults \in Nat

\* What the seeds and the code's routes refer to is there.
SystemStays == SystemPerm \subseteq db.perms

\* What the foreign keys keep.
ReferencesHold == References(db)

\* Only requests about a role have steps after the refresh, and of these only one
\* that makes a role has steps after its realm role.
PhaseInv ==
    \A a \in Admin : req[a] # Idle =>
        /\ req[a].phase = "mirror" => req[a].body.op \in {"createRole", "updateRole", "deleteRole"}
        /\ req[a].phase \in {"storeId", "reload"} => req[a].body.op = "createRole"

IInv == TypeInv /\ SystemStays /\ PhaseInv /\ ReferencesHold /\ RoutesAreAsSet

-----------------------------------------------------------------------------
(* What the operations make of the tables *)

Fields == {"roles", "perms", "grants", "caps", "enabled", "required", "routes", "views",
           "assigned", "ids"}

HasFields(t) == DOMAIN t = Fields /\ t = [f \in Fields |-> t[f]]

Typed(t) ==
    /\ t.roles \subseteq Role /\ t.perms \subseteq Perm /\ t.grants \subseteq Role \X Perm
    /\ t.caps \subseteq Cap /\ t.enabled \subseteq Cap /\ t.required \subseteq Cap \X Perm
    /\ t.routes \in [Route -> Policy \cup {None}]
    /\ t.views \in [View -> Perm \cup {None}]
    /\ t.assigned \subseteq Role /\ t.ids \subseteq Role

\* w has the fields of t, and all but F as t has them.
KeepsBut(F, t, w) == HasFields(w) /\ \A f \in Fields \ F : w[f] = t[f]

LEMMA TableHas ==
    ASSUME NEW t \in Table
    PROVE  HasFields(t) /\ Typed(t)
<1>1. HasFields(t)
  BY DEF Table, HasFields, Fields
<1>2. Typed(t)
  BY DEF Table, Typed
<1> QED  BY <1>1, <1>2

LEMMA TableIs ==
    ASSUME NEW t, HasFields(t), Typed(t)
    PROVE  t \in Table
BY DEF Table, HasFields, Fields, Typed

LEMMA KeptFields ==
    ASSUME NEW t, NEW w, NEW F, KeepsBut(F, t, w)
    PROVE  \A f \in Fields : f \in F \/ w[f] = t[f]
BY DEF KeepsBut

\* What a request carries, by its operation.
LEMMA Bodies ==
    ASSUME NEW body \in Request
    PROVE  /\ body.op \in {"createRole", "deleteRole"} =>
                 body \in RoleRequest /\ body.role \in CustomRole
           /\ body \in RoleRequest => body.op \in {"createRole", "deleteRole"}
           /\ body.op = "updateRole" => body.role \in Role
           /\ body.op \in {"createPermission", "deletePermission"} => body.perm \in CustomPerm
           /\ body.op = "setRolePermissions" => body.role \in Role /\ body.perms \in SUBSET Perm
           /\ body.op = "createCapability" => body.cap \in Cap /\ body.perms \in SUBSET Perm
           /\ body.op = "setRequired" => body.cap \in Cap /\ body.perms \in SUBSET Perm
           /\ body.op = "setEnabled" => body.cap \in Cap
           /\ body.op = "deleteCapability" => body.cap \in Cap
           /\ body.op = "updateRoutePolicy" => body.route \in Route /\ body.policy \in Policy
           /\ body.op = "updateViewPermission" => body.view \in View /\ body.perm \in Perm
BY DEF Request, RoleRequest, Role, Perm, Cap

\* Every write makes tables of tables; it moves a role's row and realm id only if it
\* makes or deletes the role, a route only if it binds the route, and never removes a
\* seeded permission.
LEMMA WrittenIs ==
    ASSUME NEW t \in Table, NEW body \in Request
    PROVE  /\ Written(body, t) \in Table
           /\ SystemPerm \subseteq t.perms => SystemPerm \subseteq Written(body, t).perms
           /\ Written(body, t).routes =
                 IF body.op = "updateRoutePolicy" THEN [t.routes EXCEPT ![body.route] = body.policy]
                 ELSE t.routes
           /\ Written(body, t).roles =
                 CASE body.op = "createRole" -> t.roles \cup {body.role}
                   [] body.op = "deleteRole" -> t.roles \ {body.role}
                   [] OTHER -> t.roles
           /\ Written(body, t).ids =
                 IF body.op = "deleteRole" THEN t.ids \ {body.role} ELSE t.ids
<1> DEFINE w == Written(body, t)
<1>0. HasFields(t) /\ Typed(t)
  BY TableHas
<1>1. CASE body.op = "createRole"
  <2>1. /\ KeepsBut({"roles"}, t, w)
        /\ w.roles = t.roles \cup {body.role}
    BY <1>0, <1>1 DEF Written, KeepsBut, HasFields, Fields
  <2>2. body.role \in Role
    BY <1>1, Bodies DEF Role
  <2> HIDE DEF w
  <2>3. /\ w.perms = t.perms /\ w.grants = t.grants /\ w.caps = t.caps
        /\ w.enabled = t.enabled /\ w.required = t.required /\ w.routes = t.routes
        /\ w.views = t.views /\ w.assigned = t.assigned /\ w.ids = t.ids
    BY <2>1 DEF KeepsBut, Fields
  <2>4. w \in Table
    BY <1>0, <2>1, <2>2, <2>3, TableIs DEF Typed, KeepsBut
  <2> QED  BY <1>1, <2>1, <2>2, <2>3, <2>4 DEF w
<1>2. CASE body.op = "deleteRole"
  <2>1. /\ KeepsBut({"roles", "ids", "grants"}, t, w)
        /\ w.roles = t.roles \ {body.role}
        /\ w.ids = t.ids \ {body.role}
        /\ w.grants \subseteq t.grants
    BY <1>0, <1>2 DEF Written, DeleteRole, KeepsBut, HasFields, Fields
  <2> HIDE DEF w
  <2>3. /\ w.perms = t.perms /\ w.caps = t.caps /\ w.enabled = t.enabled
        /\ w.required = t.required /\ w.routes = t.routes /\ w.views = t.views
        /\ w.assigned = t.assigned
    BY <2>1 DEF KeepsBut, Fields
  <2>4. w \in Table
    BY <1>0, <2>1, <2>3, TableIs DEF Typed, KeepsBut
  <2> QED  BY <1>2, <2>1, <2>3, <2>4 DEF w
<1>3. CASE body.op = "createPermission"
  <2>1. /\ KeepsBut({"perms"}, t, w)
        /\ w.perms = t.perms \cup {body.perm}
    BY <1>0, <1>3 DEF Written, KeepsBut, HasFields, Fields
  <2>2. body.perm \in Perm
    BY <1>3, Bodies DEF Perm
  <2> HIDE DEF w
  <2>3. /\ w.roles = t.roles /\ w.grants = t.grants /\ w.caps = t.caps
        /\ w.enabled = t.enabled /\ w.required = t.required /\ w.routes = t.routes
        /\ w.views = t.views /\ w.assigned = t.assigned /\ w.ids = t.ids
    BY <2>1 DEF KeepsBut, Fields
  <2>4. w \in Table
    BY <1>0, <2>1, <2>2, <2>3, TableIs DEF Typed, KeepsBut
  <2> QED  BY <1>3, <2>1, <2>2, <2>3, <2>4 DEF w
<1>4. CASE body.op = "deletePermission"
  <2>1. /\ KeepsBut({"perms", "grants", "required"}, t, w)
        /\ w.perms = t.perms \ {body.perm}
        /\ w.grants \subseteq t.grants
        /\ w.required \subseteq t.required
    BY <1>0, <1>4 DEF Written, DeletePermission, KeepsBut, HasFields, Fields
  <2>2. body.perm \notin SystemPerm
    BY <1>4, Bodies, CatalogAssumption
  <2> HIDE DEF w
  <2>3. /\ w.roles = t.roles /\ w.caps = t.caps /\ w.enabled = t.enabled
        /\ w.routes = t.routes /\ w.views = t.views /\ w.assigned = t.assigned
        /\ w.ids = t.ids
    BY <2>1 DEF KeepsBut, Fields
  <2>4. w \in Table
    BY <1>0, <2>1, <2>2, <2>3, TableIs DEF Typed, KeepsBut
  <2> QED  BY <1>4, <2>1, <2>2, <2>3, <2>4 DEF w
<1>5. CASE body.op = "setRolePermissions"
  <2>1. /\ KeepsBut({"grants"}, t, w)
        /\ w.grants \subseteq t.grants \cup ({body.role} \X body.perms)
    BY <1>0, <1>5 DEF Written, SetRolePermissions, KeepsBut, HasFields, Fields
  <2>2. body.role \in Role /\ body.perms \subseteq Perm
    BY <1>5, Bodies
  <2> HIDE DEF w
  <2>3. /\ w.roles = t.roles /\ w.perms = t.perms /\ w.caps = t.caps
        /\ w.enabled = t.enabled /\ w.required = t.required /\ w.routes = t.routes
        /\ w.views = t.views /\ w.assigned = t.assigned /\ w.ids = t.ids
    BY <2>1 DEF KeepsBut, Fields
  <2>4. w \in Table
    BY <1>0, <2>1, <2>2, <2>3, TableIs DEF Typed, KeepsBut
  <2> QED  BY <1>5, <2>1, <2>2, <2>3, <2>4 DEF w
<1>6. CASE body.op = "createCapability"
  <2>1. /\ KeepsBut({"caps", "enabled", "required"}, t, w)
        /\ w.caps = t.caps \cup {body.cap}
        /\ w.enabled = t.enabled \cup {body.cap}
        /\ w.required = t.required \cup ({body.cap} \X body.perms)
    BY <1>0, <1>6 DEF Written, CreateCapability, KeepsBut, HasFields, Fields
  <2>2. body.cap \in Cap /\ body.perms \subseteq Perm
    BY <1>6, Bodies
  <2> HIDE DEF w
  <2>3. /\ w.roles = t.roles /\ w.perms = t.perms /\ w.grants = t.grants
        /\ w.routes = t.routes /\ w.views = t.views /\ w.assigned = t.assigned
        /\ w.ids = t.ids
    BY <2>1 DEF KeepsBut, Fields
  <2>4. w \in Table
    BY <1>0, <2>1, <2>2, <2>3, TableIs DEF Typed, KeepsBut
  <2> QED  BY <1>6, <2>1, <2>2, <2>3, <2>4 DEF w
<1>7. CASE body.op = "setRequired"
  <2>1. /\ KeepsBut({"required"}, t, w)
        /\ w.required \subseteq t.required \cup ({body.cap} \X body.perms)
    BY <1>0, <1>7 DEF Written, SetRequired, KeepsBut, HasFields, Fields
  <2>2. body.cap \in Cap /\ body.perms \subseteq Perm
    BY <1>7, Bodies
  <2> HIDE DEF w
  <2>3. /\ w.roles = t.roles /\ w.perms = t.perms /\ w.grants = t.grants
        /\ w.caps = t.caps /\ w.enabled = t.enabled /\ w.routes = t.routes
        /\ w.views = t.views /\ w.assigned = t.assigned /\ w.ids = t.ids
    BY <2>1 DEF KeepsBut, Fields
  <2>4. w \in Table
    BY <1>0, <2>1, <2>2, <2>3, TableIs DEF Typed, KeepsBut
  <2> QED  BY <1>7, <2>1, <2>2, <2>3, <2>4 DEF w
<1>8. CASE body.op = "setEnabled"
  <2>1. /\ KeepsBut({"enabled"}, t, w)
        /\ w.enabled \subseteq t.enabled \cup t.caps
    BY <1>0, <1>8 DEF Written, SetEnabled, KeepsBut, HasFields, Fields
  <2> HIDE DEF w
  <2>3. /\ w.roles = t.roles /\ w.perms = t.perms /\ w.grants = t.grants
        /\ w.caps = t.caps /\ w.required = t.required /\ w.routes = t.routes
        /\ w.views = t.views /\ w.assigned = t.assigned /\ w.ids = t.ids
    BY <2>1 DEF KeepsBut, Fields
  <2>4. w \in Table
    BY <1>0, <2>1, <2>3, TableIs DEF Typed, KeepsBut
  <2> QED  BY <1>8, <2>1, <2>3, <2>4 DEF w
<1>9. CASE body.op = "deleteCapability"
  <2>1. /\ KeepsBut({"caps", "enabled", "required"}, t, w)
        /\ w.caps \subseteq t.caps
        /\ w.enabled \subseteq t.enabled
        /\ w.required \subseteq t.required
    BY <1>0, <1>9 DEF Written, DeleteCapability, KeepsBut, HasFields, Fields
  <2> HIDE DEF w
  <2>3. /\ w.roles = t.roles /\ w.perms = t.perms /\ w.grants = t.grants
        /\ w.routes = t.routes /\ w.views = t.views /\ w.assigned = t.assigned
        /\ w.ids = t.ids
    BY <2>1 DEF KeepsBut, Fields
  <2>4. w \in Table
    BY <1>0, <2>1, <2>3, TableIs DEF Typed, KeepsBut
  <2> QED  BY <1>9, <2>1, <2>3, <2>4 DEF w
<1>10. CASE body.op = "updateRoutePolicy"
  <2>1. /\ KeepsBut({"routes"}, t, w)
        /\ w.routes = [t.routes EXCEPT ![body.route] = body.policy]
    BY <1>0, <1>10 DEF Written, KeepsBut, HasFields, Fields
  <2>2. body.policy \in Policy
    BY <1>10, Bodies
  <2> HIDE DEF w
  <2>3. /\ w.roles = t.roles /\ w.perms = t.perms /\ w.grants = t.grants
        /\ w.caps = t.caps /\ w.enabled = t.enabled /\ w.required = t.required
        /\ w.views = t.views /\ w.assigned = t.assigned /\ w.ids = t.ids
    BY <2>1 DEF KeepsBut, Fields
  <2>4. w \in Table
    BY <1>0, <2>1, <2>2, <2>3, TableIs DEF Typed, KeepsBut
  <2> QED  BY <1>10, <2>1, <2>2, <2>3, <2>4 DEF w
<1>11. CASE body.op = "updateViewPermission"
  <2>1. /\ KeepsBut({"views"}, t, w)
        /\ w.views = [t.views EXCEPT ![body.view] = body.perm]
    BY <1>0, <1>11 DEF Written, KeepsBut, HasFields, Fields
  <2>2. body.perm \in Perm
    BY <1>11, Bodies
  <2> HIDE DEF w
  <2>3. /\ w.roles = t.roles /\ w.perms = t.perms /\ w.grants = t.grants
        /\ w.caps = t.caps /\ w.enabled = t.enabled /\ w.required = t.required
        /\ w.routes = t.routes /\ w.assigned = t.assigned /\ w.ids = t.ids
    BY <2>1 DEF KeepsBut, Fields
  <2>4. w \in Table
    BY <1>0, <2>1, <2>2, <2>3, TableIs DEF Typed, KeepsBut
  <2> QED  BY <1>11, <2>1, <2>2, <2>3, <2>4 DEF w
<1>12. CASE body.op \in {"updateRole", "updatePermission"}
  <2>1. w = t
    BY <1>12 DEF Written
  <2> QED  BY <1>12, <2>1
<1>13. body.op \in {"createRole", "deleteRole", "createPermission", "deletePermission",
          "setRolePermissions", "createCapability", "setRequired", "setEnabled",
          "deleteCapability", "updateRoutePolicy", "updateViewPermission", "updateRole",
          "updatePermission"}
  BY DEF Request, RoleRequest
<1> QED  BY <1>1, <1>2, <1>3, <1>4, <1>5, <1>6, <1>7, <1>8, <1>9, <1>10, <1>11, <1>12, <1>13

\* More rows, and nothing more that refers to them.
LEMMA MoreRows ==
    ASSUME NEW t, NEW w, References(t),
           t.roles \subseteq w.roles, t.perms \subseteq w.perms, t.caps \subseteq w.caps,
           w.grants = t.grants, w.required = t.required, w.routes = t.routes,
           w.views = t.views, w.assigned = t.assigned
    PROVE  References(w)
BY DEF References

\* The seeds add what they refer to, and rebind no route.
LEMMA SeededIs ==
    ASSUME NEW t \in Table
    PROVE  /\ SeedDatabase(t) \in Table
           /\ SystemPerm \subseteq SeedDatabase(t).perms
           /\ SeedDatabase(t).routes = t.routes
           /\ SeedDatabase(t).roles = t.roles \cup SystemRole
           /\ SeedDatabase(t).ids = t.ids
           /\ References(t) => References(SeedDatabase(t))
<1> DEFINE w == SeedDatabase(t)
<1>1. HasFields(t) /\ Typed(t)
  BY TableHas
<1>2. /\ HasFields(w)
      /\ w.roles = t.roles \cup SystemRole /\ w.perms = t.perms \cup SystemPerm
      /\ w.grants = t.grants \cup DefaultGrants
      /\ w.caps = t.caps \cup SystemCap /\ w.enabled = t.enabled \cup SystemCap
      /\ w.required = t.required \cup DefaultRequired
      /\ w.routes = t.routes /\ w.views = DefaultView
      /\ w.assigned = t.assigned \cup SystemRole /\ w.ids = t.ids
  BY <1>1 DEF SeedDatabase, SeedUserRoles, SeedViewPermissions, SeedCapabilities,
              SeedRolesAndPermissions, HasFields, Fields
<1> HIDE DEF w
<1>3. /\ SystemRole \subseteq Role /\ SystemPerm \subseteq Perm /\ SystemCap \subseteq Cap
      /\ DefaultGrants \subseteq SystemRole \X SystemPerm
      /\ DefaultRequired \subseteq SystemCap \X SystemPerm
      /\ DefaultView \in [View -> SystemPerm]
  BY CatalogAssumption DEF Role, Perm, Cap
<1>4. w \in Table
  <2>1. DefaultView \in [View -> Perm \cup {None}]
    BY <1>3
  <2>2. w.grants \subseteq Role \X Perm /\ w.required \subseteq Cap \X Perm
    BY <1>1, <1>2, <1>3 DEF Typed
  <2> QED  BY <1>1, <1>2, <1>3, <2>1, <2>2, TableIs DEF Typed
<1>5. ASSUME References(t)  PROVE References(w)
  <2>1. \A g \in w.grants : g[1] \in w.roles /\ g[2] \in w.perms
    BY <1>2, <1>3, <1>5 DEF References
  <2>2. \A q \in w.required : q[1] \in w.caps /\ q[2] \in w.perms
    BY <1>2, <1>3, <1>5 DEF References
  <2>3. \A x \in Route : w.routes[x] # None => w.routes[x].perm \in w.perms \cup {None}
    BY <1>2, <1>5 DEF References
  <2>4. \A v \in View : w.views[v] \in w.perms \cup {None}
    BY <1>2, <1>3
  <2>5. w.assigned \subseteq w.roles
    BY <1>2, <1>5 DEF References
  <2> QED  BY <2>1, <2>2, <2>3, <2>4, <2>5 DEF References
<1> QED  BY <1>2, <1>4, <1>5 DEF w

LEMMA EmptyIs == Empty \in Table /\ References(Empty) /\ Empty.routes = [x \in Route |-> None]
<1>1. HasFields(Empty)
  BY DEF Empty, HasFields, Fields
<1>2. Typed(Empty) /\ References(Empty) /\ Empty.routes = [x \in Route |-> None]
  BY DEF Empty, Typed, References
<1> QED  BY <1>1, <1>2, TableIs

\* A reset keeps the routes and nothing else.
LEMMA ResetIs ==
    ASSUME NEW t \in Table
    PROVE  ResetSeededData(t) \in Table /\ ResetSeededData(t).routes = t.routes
<1> DEFINE w == ResetSeededData(t)
<1>1. HasFields(Empty) /\ Typed(Empty) /\ Typed(t)
  BY EmptyIs, TableHas
<1>2. KeepsBut({"routes"}, Empty, w) /\ w.routes = t.routes
  BY <1>1 DEF ResetSeededData, KeepsBut, HasFields, Fields
<1> HIDE DEF w
<1>3. /\ w.roles = Empty.roles /\ w.perms = Empty.perms /\ w.grants = Empty.grants
      /\ w.caps = Empty.caps /\ w.enabled = Empty.enabled /\ w.required = Empty.required
      /\ w.views = Empty.views /\ w.assigned = Empty.assigned /\ w.ids = Empty.ids
  BY <1>2 DEF KeepsBut, Fields
<1>4. w \in Table
  BY <1>1, <1>2, <1>3, TableIs DEF Typed, KeepsBut
<1> QED  BY <1>2, <1>4 DEF w

\* A starting process binds the routes that are not bound, as the code does, to
\* permissions that are there.
LEMMA ReconciledIs ==
    ASSUME NEW t \in Table
    PROVE  /\ Reconciled(t) \in Table
           /\ Reconciled(t).perms = t.perms
           /\ Reconciled(t).roles = t.roles
           /\ Reconciled(t).ids = t.ids
           /\ \A x \in Route : EffectivePolicy(Reconciled(t), x) = EffectivePolicy(t, x)
           /\ References(t) /\ SystemPerm \subseteq t.perms => References(Reconciled(t))
<1> DEFINE w == Reconciled(t)
<1>1. HasFields(t) /\ Typed(t)
  BY TableHas
<1>2. /\ KeepsBut({"routes"}, t, w)
      /\ w.routes = [x \in Route |-> IF t.routes[x] = None THEN DefaultRoute[x] ELSE t.routes[x]]
  BY <1>1 DEF Reconciled, KeepsBut, HasFields, Fields
<1> HIDE DEF w
<1>3. /\ w.roles = t.roles /\ w.perms = t.perms /\ w.grants = t.grants
      /\ w.caps = t.caps /\ w.enabled = t.enabled /\ w.required = t.required
      /\ w.views = t.views /\ w.assigned = t.assigned /\ w.ids = t.ids
  BY <1>2 DEF KeepsBut, Fields
<1>4. w.routes \in [Route -> Policy \cup {None}]
  BY <1>1, <1>2, CatalogAssumption DEF Typed
<1>5. w \in Table
  BY <1>1, <1>2, <1>3, <1>4, TableIs DEF Typed, KeepsBut
<1>6. \A x \in Route : EffectivePolicy(w, x) = EffectivePolicy(t, x)
  BY <1>2 DEF EffectivePolicy
<1>7. ASSUME References(t), SystemPerm \subseteq t.perms  PROVE References(w)
  <2>1. \A x \in Route : w.routes[x] # None => w.routes[x].perm \in w.perms \cup {None}
    BY <1>2, <1>3, <1>7, CatalogAssumption DEF References
  <2> QED  BY <1>3, <1>7, <2>1 DEF References
<1> QED  BY <1>3, <1>5, <1>6, <1>7 DEF w

\* A role given to a person, or the id of a realm role stored.
LEMMA AssignedIs ==
    ASSUME NEW t \in Table, NEW r \in t.roles
    PROVE  LET w == [t EXCEPT !.assigned = @ \cup {r}]
           IN  /\ w \in Table /\ w.perms = t.perms /\ w.routes = t.routes
               /\ w.roles = t.roles /\ w.ids = t.ids
               /\ References(t) => References(w)
<1> DEFINE w == [t EXCEPT !.assigned = @ \cup {r}]
<1>1. HasFields(t) /\ Typed(t)
  BY TableHas
<1>2. KeepsBut({"assigned"}, t, w) /\ w.assigned = t.assigned \cup {r}
  BY <1>1 DEF KeepsBut, HasFields, Fields
<1> HIDE DEF w
<1>3. /\ w.roles = t.roles /\ w.perms = t.perms /\ w.grants = t.grants
      /\ w.caps = t.caps /\ w.enabled = t.enabled /\ w.required = t.required
      /\ w.routes = t.routes /\ w.views = t.views /\ w.ids = t.ids
  BY <1>2 DEF KeepsBut, Fields
<1>4. w \in Table
  BY <1>1, <1>2, <1>3, TableIs DEF Typed, KeepsBut
<1>5. References(t) => References(w)
  BY <1>2, <1>3 DEF References
<1> QED  BY <1>3, <1>4, <1>5 DEF w

LEMMA StoredIs ==
    ASSUME NEW t \in Table, NEW ids \in SUBSET Role
    PROVE  LET w == [t EXCEPT !.ids = @ \cup ids]
           IN  /\ w \in Table /\ w.perms = t.perms /\ w.routes = t.routes
               /\ w.roles = t.roles /\ w.ids = t.ids \cup ids
               /\ References(t) => References(w)
<1> DEFINE w == [t EXCEPT !.ids = @ \cup ids]
<1>1. HasFields(t) /\ Typed(t)
  BY TableHas
<1>2. KeepsBut({"ids"}, t, w) /\ w.ids = t.ids \cup ids
  BY <1>1 DEF KeepsBut, HasFields, Fields
<1> HIDE DEF w
<1>3. /\ w.roles = t.roles /\ w.perms = t.perms /\ w.grants = t.grants
      /\ w.caps = t.caps /\ w.enabled = t.enabled /\ w.required = t.required
      /\ w.routes = t.routes /\ w.views = t.views /\ w.assigned = t.assigned
  BY <1>2 DEF KeepsBut, Fields
<1>4. w \in Table
  BY <1>1, <1>2, <1>3, TableIs DEF Typed, KeepsBut
<1>5. References(t) => References(w)
  BY <1>3 DEF References
<1> QED  BY <1>2, <1>3, <1>4, <1>5 DEF w

-----------------------------------------------------------------------------
(* Every step *)

LEMMA InitIInv == Init => IInv
<1> SUFFICES ASSUME Init  PROVE IInv
  OBVIOUS
<1> DEFINE s == SeedDatabase(Empty)
<1>0. /\ s \in Table /\ SystemPerm \subseteq s.perms /\ References(s)
      /\ s.routes = [x \in Route |-> None]
  BY EmptyIs, SeededIs
<1> HIDE DEF s
<1>1. PICK rs \in SUBSET CustomRole, ps \in SUBSET CustomPerm, cs \in SUBSET CustomCap :
         db = [s EXCEPT !.roles = @ \cup rs, !.perms = @ \cup ps, !.caps = @ \cup cs,
                        !.enabled = @ \cup cs, !.ids = rs]
  BY DEF Init, s
<1>2. HasFields(s) /\ Typed(s)
  BY <1>0, TableHas
<1>3. /\ HasFields(db)
      /\ db.roles = s.roles \cup rs /\ db.perms = s.perms \cup ps
      /\ db.caps = s.caps \cup cs /\ db.enabled = s.enabled \cup cs /\ db.ids = rs
      /\ db.grants = s.grants /\ db.required = s.required /\ db.routes = s.routes
      /\ db.views = s.views /\ db.assigned = s.assigned
  BY <1>1, <1>2 DEF HasFields, Fields
<1>4. rs \subseteq Role /\ ps \subseteq Perm /\ cs \subseteq Cap
  BY DEF Role, Perm, Cap
<1>5. db \in Table
  BY <1>2, <1>3, <1>4, TableIs DEF Typed
<1>6. References(db) /\ SystemStays
  BY <1>0, <1>3, MoreRows DEF SystemStays
<1>7. RoutesAreAsSet
  BY <1>0, <1>3 DEF Init, RoutesAreAsSet, EffectivePolicy
<1>8. PhaseInv
  BY DEF Init, PhaseInv
<1>9. db.roles \subseteq Role
  BY <1>5, TableHas DEF Typed
<1>10. TypeInv
  BY <1>5, <1>9, CatalogAssumption DEF Init, TypeInv
<1> QED  BY <1>6, <1>7, <1>8, <1>10 DEF IInv, ReferencesHold

\* A request that goes on, and one that ends.
LEMMA GoesOn ==
    ASSUME TypeInv, NEW a \in Admin, req[a] # Idle, NEW q \in Phase, GoTo(a, q)
    PROVE  /\ req' \in [Admin -> [body : Request, phase : Phase] \cup {Idle}]
           /\ req'[a] # Idle /\ req'[a].body = req[a].body /\ req'[a].phase = q
           /\ \A b \in Admin \ {a} : req'[b] = req[b]
<1>1. req[a] \in [body : Request, phase : Phase]
  BY DEF TypeInv
<1>2. req' = [req EXCEPT ![a] = [req[a] EXCEPT !.phase = q]]
  BY DEF GoTo, TypeInv
<1> DEFINE y == [req[a] EXCEPT !.phase = q]
<1>3. y \in [body : Request, phase : Phase] /\ y.body = req[a].body /\ y.phase = q
  BY <1>1
<1> HIDE DEF y
<1>4. req' = [req EXCEPT ![a] = y]
  BY <1>2 DEF y
<1> QED  BY <1>3, <1>4, IdleIsNoRequest DEF TypeInv

LEMMA Ends ==
    ASSUME TypeInv, NEW a \in Admin, End(a)
    PROVE  /\ req' \in [Admin -> [body : Request, phase : Phase] \cup {Idle}]
           /\ req'[a] = Idle
           /\ \A b \in Admin \ {a} : req'[b] = req[b]
BY DEF TypeInv, End

\* What a registry loads.
LEMMA Loads ==
    ASSUME TypeInv, NEW i \in Instance, Load(i)
    PROVE  served' \in [Instance -> Served \cup {None}]
<1>1. db \in Table /\ Typed(db) /\ revision \in Nat
  BY TableHas DEF TypeInv
<1>2. [policy |-> PolicyOf(db), revision |-> revision] \in Served
  BY <1>1 DEF Served, PolicyOf, Typed
<1> QED  BY <1>2 DEF Load, TypeInv

\* Steps that leave the tables and what was asked for alone.
TablesInv == SystemStays /\ ReferencesHold /\ RoutesAreAsSet

LEMMA TablesKept ==
    ASSUME TablesInv, UNCHANGED <<db, asSet>>
    PROVE  TablesInv'
BY DEF TablesInv, SystemStays, ReferencesHold, RoutesAreAsSet

\* What a request must be in to go to a phase.
Fits(body, q) ==
    /\ q = "mirror" => body.op \in {"createRole", "updateRole", "deleteRole"}
    /\ q \in {"storeId", "reload"} => body.op = "createRole"

LEMMA PhaseGoesOn ==
    ASSUME TypeInv, PhaseInv, NEW a \in Admin, req[a] # Idle, NEW q \in Phase, GoTo(a, q),
           Fits(req[a].body, q)
    PROVE  PhaseInv'
BY GoesOn DEF PhaseInv, Fits

LEMMA PhaseEnds ==
    ASSUME TypeInv, PhaseInv, NEW a \in Admin, End(a)
    PROVE  PhaseInv'
BY Ends DEF PhaseInv

LEMMA Bodied ==
    ASSUME TypeInv, NEW a \in Admin, req[a] # Idle
    PROVE  req[a].body \in Request /\ req[a].phase \in Phase
BY DEF TypeInv

LEMMA RequestSteps ==
    ASSUME IInv, NEW a \in Admin
    PROVE  /\ \A body \in Request : Begin(a, body) => IInv'
           /\ Check(a) => IInv'
           /\ Refresh(a) => IInv'
           /\ Mirror(a) => IInv'
           /\ MirrorFails(a) => IInv'
           /\ Reload(a) => IInv'
<1>0. TypeInv /\ PhaseInv /\ TablesInv
  BY DEF IInv, TablesInv
<1>h. HomeOf[a] \in Instance
  BY CatalogAssumption
<1>r. req[a] # Idle => RealmAfter(req[a].body) \subseteq Role
  BY <1>0, Bodied, Bodies DEF RealmAfter, TypeInv, Role
<1>1. ASSUME NEW body \in Request, Begin(a, body)  PROVE IInv'
  <2>1. req' = [req EXCEPT ![a] = [body |-> body, phase |-> "check"]]
    BY <1>1 DEF Begin
  <2>2. [body |-> body, phase |-> "check"] \in [body : Request, phase : Phase]
    BY DEF Phase
  <2>3. req' \in [Admin -> [body : Request, phase : Phase] \cup {Idle}]
    BY <1>0, <2>1, <2>2 DEF TypeInv
  <2>4. astray' \subseteq Role
    BY <1>0, <1>1, Bodies DEF Begin, TypeInv, Role
  <2>5. TypeInv'
    BY <1>0, <1>1, <2>3, <2>4 DEF Begin, TypeInv
  <2>6. PhaseInv'
    BY <1>0, <2>1 DEF PhaseInv, TypeInv
  <2> QED  BY <1>0, <1>1, <2>5, <2>6, TablesKept DEF Begin, IInv, TablesInv
<1>2. ASSUME Check(a)  PROVE IInv'
  <2>1. req[a] # Idle /\ "write" \in Phase /\ Fits(req[a].body, "write")
    BY <1>2 DEF Check, At, Phase, Fits
  <2>2. CASE GoTo(a, "write")
    BY <1>0, <1>2, <2>1, <2>2, GoesOn, PhaseGoesOn, TablesKept DEF Check, IInv, TypeInv, TablesInv
  <2>3. CASE End(a)
    BY <1>0, <1>2, <2>3, Ends, PhaseEnds, TablesKept DEF Check, IInv, TypeInv, TablesInv
  <2> QED  BY <1>2, <2>2, <2>3 DEF Check
<1>3. ASSUME Refresh(a)  PROVE IInv'
  <2>1. req[a] # Idle /\ "mirror" \in Phase /\ served' \in [Instance -> Served \cup {None}]
    BY <1>0, <1>h, <1>3, Loads DEF Refresh, At, Phase
  <2>2. CASE GoTo(a, "mirror") /\ Fits(req[a].body, "mirror")
    BY <1>0, <1>3, <2>1, <2>2, GoesOn, PhaseGoesOn, TablesKept DEF Refresh, IInv, TypeInv, TablesInv
  <2>3. CASE End(a)
    BY <1>0, <1>3, <2>1, <2>3, Ends, PhaseEnds, TablesKept DEF Refresh, IInv, TypeInv, TablesInv
  <2> QED  BY <1>3, <2>2, <2>3 DEF Refresh, Fits
<1>4. ASSUME Mirror(a)  PROVE IInv'
  <2>1. req[a] # Idle /\ "storeId" \in Phase /\ realm' \subseteq Role
    BY <1>0, <1>r, <1>4 DEF Mirror, At, Phase
  <2>2. CASE GoTo(a, "storeId") /\ Fits(req[a].body, "storeId")
    BY <1>0, <1>4, <2>1, <2>2, GoesOn, PhaseGoesOn, TablesKept DEF Mirror, IInv, TypeInv, TablesInv
  <2>3. CASE End(a)
    BY <1>0, <1>4, <2>1, <2>3, Ends, PhaseEnds, TablesKept DEF Mirror, IInv, TypeInv, TablesInv
  <2> QED  BY <1>4, <2>2, <2>3 DEF Mirror, Fits
<1>5. ASSUME MirrorFails(a)  PROVE IInv'
  <2>1. req[a] # Idle /\ realm' \subseteq Role /\ End(a)
    BY <1>0, <1>r, <1>5 DEF MirrorFails, At, TypeInv
  <2>2. req[a].body.role \in Role
    BY <1>0, <1>5, Bodied, Bodies DEF MirrorFails, At, PhaseInv, Role
  <2>3. faults' \in Nat /\ astray' \subseteq Role
    BY <1>0, <1>5, <2>2 DEF MirrorFails, TypeInv
  <2> QED  BY <1>0, <1>5, <2>1, <2>3, Ends, PhaseEnds, TablesKept
           DEF MirrorFails, IInv, TypeInv, TablesInv
<1>6. ASSUME Reload(a)  PROVE IInv'
  <2>1. served' \in [Instance -> Served \cup {None}]
    BY <1>0, <1>h, <1>6, Loads DEF Reload
  <2> QED  BY <1>0, <1>6, <2>1, Ends, PhaseEnds, TablesKept DEF Reload, IInv, TypeInv, TablesInv
<1> QED  BY <1>1, <1>2, <1>3, <1>4, <1>5, <1>6

\* The write: the constraints are checked again on what it leaves.
LEMMA WriteStep ==
    ASSUME IInv, NEW a \in Admin, Write(a)
    PROVE  IInv'
<1> DEFINE body == req[a].body
           t == Written(body, db)
<1>0. TypeInv /\ PhaseInv /\ TablesInv /\ req[a] # Idle
  BY DEF IInv, TablesInv, Write, At
<1>1. body \in Request /\ db \in Table
  BY <1>0, Bodied DEF TypeInv
<1>2. CASE Commits(body, t)
  <2>1. /\ db' = t /\ revision' = NextRevision(body) /\ GoTo(a, "refresh")
        /\ asSet' = IF body.op = "updateRoutePolicy"
                    THEN [asSet EXCEPT ![body.route] = body.policy] ELSE asSet
        /\ UNCHANGED <<up, served, realm, astray, seeded, requests, faults>>
    BY <1>2 DEF Write
  <2>2. /\ t \in Table /\ SystemPerm \subseteq t.perms
        /\ t.routes = IF body.op = "updateRoutePolicy" THEN [db.routes EXCEPT ![body.route] = body.policy]
                      ELSE db.routes
    BY <1>0, <1>1, WrittenIs DEF TablesInv, SystemStays
  <2>3. References(t)
    BY <1>2 DEF Commits
  <2>4. "refresh" \in Phase /\ Fits(body, "refresh")
    BY DEF Phase, Fits
  <2>5. db.routes \in [Route -> Policy \cup {None}] /\ asSet \in [Route -> Policy]
    BY <1>0, <1>1, TableHas DEF Typed, TypeInv
  <2>6. body.op = "updateRoutePolicy" => body.route \in Route /\ body.policy \in Policy
    BY <1>1, Bodies
  <2> HIDE DEF t, body
  <2>7. RoutesAreAsSet' /\ asSet' \in [Route -> Policy]
    <3>1. CASE body.op = "updateRoutePolicy"
      <4>1. /\ db'.routes = [db.routes EXCEPT ![body.route] = body.policy]
            /\ asSet' = [asSet EXCEPT ![body.route] = body.policy]
            /\ body.policy # None
        BY <2>1, <2>2, <2>6, <3>1, CatalogAssumption
      <4> QED  BY <1>0, <2>5, <2>6, <3>1, <4>1 DEF TablesInv, RoutesAreAsSet, EffectivePolicy
    <3>2. CASE body.op # "updateRoutePolicy"
      BY <1>0, <2>1, <2>2, <2>5, <3>2 DEF TablesInv, RoutesAreAsSet, EffectivePolicy
    <3> QED  BY <3>1, <3>2
  <2>8. revision' \in Nat
    BY <1>0, <2>1 DEF NextRevision, TypeInv
  <2>9. PhaseInv' /\ req' \in [Admin -> [body : Request, phase : Phase] \cup {Idle}]
    BY <1>0, <2>1, <2>4, GoesOn, PhaseGoesOn DEF body
  <2>10. TypeInv'
    BY <1>0, <2>1, <2>2, <2>7, <2>8, <2>9 DEF TypeInv
  <2> QED  BY <2>1, <2>2, <2>3, <2>7, <2>9, <2>10 DEF IInv, SystemStays, ReferencesHold
<1>3. CASE ~Commits(body, t)
  <2>1. End(a) /\ UNCHANGED <<db, revision, asSet, up, served, realm, astray, seeded, requests, faults>>
    BY <1>3 DEF Write
  <2> QED  BY <1>0, <2>1, Ends, PhaseEnds, TablesKept DEF IInv, TypeInv, TablesInv
<1> QED  BY <1>2, <1>3

LEMMA StoreStep ==
    ASSUME IInv, NEW a \in Admin, StoreId(a)
    PROVE  IInv' /\ db'.roles = db.roles /\ db'.ids = db.ids \cup ({req[a].body.role} \cap db.roles)
<1>0. TypeInv /\ PhaseInv /\ TablesInv /\ req[a] # Idle
  BY DEF IInv, TablesInv, StoreId, At
<1> DEFINE ids == {req[a].body.role} \cap db.roles
<1>1. db \in Table /\ ids \in SUBSET Role
  BY <1>0, TableHas DEF TypeInv, Typed
<1>2. db' = [db EXCEPT !.ids = @ \cup ids]
  BY DEF StoreId
<1> HIDE DEF ids
<1>3. /\ db' \in Table /\ db'.perms = db.perms /\ db'.routes = db.routes
      /\ db'.roles = db.roles /\ db'.ids = db.ids \cup ids /\ (References(db) => References(db'))
  BY <1>1, <1>2, StoredIs
<1>4. TablesInv'
  BY <1>0, <1>3 DEF StoreId, TablesInv, SystemStays, ReferencesHold, RoutesAreAsSet, EffectivePolicy
<1>5. "reload" \in Phase /\ Fits(req[a].body, "reload") /\ GoTo(a, "reload")
  BY <1>0 DEF Phase, Fits, StoreId, At, PhaseInv
<1>6. PhaseInv' /\ TypeInv'
  BY <1>0, <1>3, <1>5, GoesOn, PhaseGoesOn DEF StoreId, TypeInv
<1> QED  BY <1>3, <1>4, <1>6 DEF IInv, TablesInv, ids

LEMMA InstanceSteps ==
    ASSUME IInv, NEW i \in Instance
    PROVE  /\ Reconcile(i) => IInv'
           /\ Start(i) => IInv'
           /\ Poll(i) => IInv'
           /\ Crash(i) => IInv'
           /\ \A r \in CustomRole : Assign(i, r) => IInv'
<1>0. TypeInv /\ PhaseInv /\ TablesInv /\ db \in Table
  BY DEF IInv, TablesInv, TypeInv
<1>1. ASSUME Reconcile(i)  PROVE IInv'
  <2>1. db' = Reconciled(db)
    BY <1>1 DEF Reconcile
  <2>2. /\ db' \in Table /\ db'.perms = db.perms
        /\ \A x \in Route : EffectivePolicy(db', x) = EffectivePolicy(db, x)
        /\ References(db) /\ SystemPerm \subseteq db.perms => References(db')
    BY <1>0, <2>1, ReconciledIs
  <2>3. TablesInv'
    BY <1>0, <1>1, <2>2 DEF Reconcile, TablesInv, SystemStays, ReferencesHold, RoutesAreAsSet
  <2>4. TypeInv' /\ PhaseInv'
    BY <1>0, <1>1, <2>2 DEF Reconcile, TypeInv, PhaseInv
  <2> QED  BY <2>3, <2>4 DEF IInv, TablesInv
<1>2. ASSUME Start(i)  PROVE IInv'
  <2>1. served' \in [Instance -> Served \cup {None}]
    BY <1>0, <1>2, Loads DEF Start
  <2> QED  BY <1>0, <1>2, <2>1, TablesKept DEF Start, IInv, TypeInv, PhaseInv, TablesInv
<1>3. ASSUME Poll(i)  PROVE IInv'
  <2>1. served' \in [Instance -> Served \cup {None}]
    BY <1>0, <1>3, Loads DEF Poll
  <2> QED  BY <1>0, <1>3, <2>1, TablesKept DEF Poll, IInv, TypeInv, PhaseInv, TablesInv
<1>4. ASSUME Crash(i)  PROVE IInv'
  <2>1. /\ req' \in [Admin -> [body : Request, phase : Phase] \cup {Idle}]
        /\ \A a \in Admin : req'[a] # Idle => req'[a] = req[a]
    BY <1>0, <1>4 DEF Crash, TypeInv
  <2>2. PhaseInv'
    BY <1>0, <2>1 DEF PhaseInv
  <2>3. astray' \subseteq Role /\ faults' \in Nat
    BY <1>0, <1>4 DEF Crash, TypeInv, Role
  <2>4. TypeInv'
    BY <1>0, <1>4, <2>1, <2>3 DEF Crash, TypeInv
  <2> QED  BY <1>0, <1>4, <2>2, <2>4, TablesKept DEF Crash, IInv, TablesInv
<1>5. ASSUME NEW r \in CustomRole, Assign(i, r)  PROVE IInv'
  <2>1. db' = [db EXCEPT !.assigned = @ \cup {r}] /\ r \in db.roles
    BY <1>5 DEF Assign
  <2>2. /\ db' \in Table /\ db'.perms = db.perms /\ db'.routes = db.routes
        /\ References(db) => References(db')
    BY <1>0, <2>1, AssignedIs
  <2>3. TablesInv'
    BY <1>0, <1>5, <2>2 DEF Assign, TablesInv, SystemStays, ReferencesHold, RoutesAreAsSet, EffectivePolicy
  <2>4. TypeInv' /\ PhaseInv'
    BY <1>0, <1>5, <2>2 DEF Assign, TypeInv, PhaseInv
  <2> QED  BY <2>3, <2>4 DEF IInv, TablesInv
<1> QED  BY <1>1, <1>2, <1>3, <1>4, <1>5

LEMMA SeedStep ==
    ASSUME IInv, Seed
    PROVE  IInv'
<1>0. TypeInv /\ PhaseInv /\ TablesInv /\ db \in Table
  BY DEF IInv, TablesInv, TypeInv
<1> DEFINE base == IF Resets THEN ResetSeededData(db) ELSE db
<1>1. base \in Table /\ base.routes = db.routes
  BY <1>0, ResetIs
<1>2. CASE Resets /\ ~References(base)
  BY <1>0, <1>2, TablesKept DEF Seed, IInv, TypeInv, PhaseInv, TablesInv
<1>3. CASE ~(Resets /\ ~References(base))
  <2>1. seeded' = "ok" /\ db' = SeedDatabase(base)
    BY <1>3 DEF Seed
  <2>2. References(base)
    BY <1>0, <1>3 DEF TablesInv, ReferencesHold
  <2> HIDE DEF base
  <2>3. db' \in Table /\ SystemPerm \subseteq db'.perms /\ db'.routes = db.routes /\ References(db')
    BY <1>1, <2>1, <2>2, SeededIs
  <2>4. TablesInv'
    BY <1>0, <2>3 DEF Seed, TablesInv, SystemStays, ReferencesHold, RoutesAreAsSet, EffectivePolicy
  <2>5. TypeInv' /\ PhaseInv'
    BY <1>0, <2>1, <2>3 DEF Seed, TypeInv, PhaseInv
  <2> QED  BY <2>4, <2>5 DEF IInv, TablesInv
<1> QED  BY <1>2, <1>3

LEMMA StepKeeps == IInv /\ [Next]_vars => IInv'
<1> SUFFICES ASSUME IInv, [Next]_vars  PROVE IInv'
  OBVIOUS
<1>1. ASSUME NEW a \in Admin,
             \/ \E body \in Request : Begin(a, body)
             \/ Check(a) \/ Write(a) \/ Refresh(a) \/ Mirror(a) \/ MirrorFails(a)
             \/ StoreId(a) \/ Reload(a)
      PROVE  IInv'
  BY <1>1, RequestSteps, WriteStep, StoreStep
<1>2. ASSUME NEW i \in Instance, Reconcile(i) \/ Start(i) \/ Poll(i) \/ Crash(i)
      PROVE  IInv'
  BY <1>2, InstanceSteps
<1>3. ASSUME NEW i \in Instance, NEW r \in CustomRole, Assign(i, r)  PROVE IInv'
  BY <1>3, InstanceSteps
<1>4. CASE UNCHANGED vars
  BY <1>4, TablesKept DEF vars, IInv, TypeInv, PhaseInv, TablesInv
<1> QED  BY <1>1, <1>2, <1>3, <1>4, SeedStep DEF Next

-----------------------------------------------------------------------------
(* The realm roles, where no seed deletes the rows                         *)

Mirrored(r) ==
    /\ r \in realm <=> r \in db.roles
    /\ r \in db.roles => r \in db.ids

\* The state of a role, by where the only request about it is.
RoleInv(r) ==
    /\ \A a, b \in AboutRole(r) : a = b
    /\ AboutRole(r) = {} => Mirrored(r)
    /\ \A a \in AboutRole(r) :
          /\ req[a].phase \in {"check", "write"} => Mirrored(r)
          /\ req[a].phase \in {"refresh", "mirror"} =>
                (r \in db.roles <=> req[a].body.op = "createRole")
          /\ req[a].phase \in {"storeId", "reload"} => r \in db.roles /\ r \in realm
          /\ req[a].phase = "reload" => r \in db.ids

RealmInv == \A r \in CustomRole \ astray : RoleInv(r)

LEMMA InitRealmInv == Init => RealmInv
<1> SUFFICES ASSUME Init, NEW r \in CustomRole  PROVE RoleInv(r)
  BY DEF RealmInv
<1>1. AboutRole(r) = {}
  BY DEF Init, AboutRole
<1>2. realm = db.roles
  BY DEF Init
<1> DEFINE s == SeedDatabase(Empty)
<1>3. HasFields(s) /\ s.roles = SystemRole
  <2>1. s \in Table /\ s.roles = Empty.roles \cup SystemRole
    BY EmptyIs, SeededIs
  <2> QED  BY <2>1, TableHas DEF Empty
<1> HIDE DEF s
<1>4. PICK rs \in SUBSET CustomRole, ps \in SUBSET CustomPerm, cs \in SUBSET CustomCap :
         db = [s EXCEPT !.roles = @ \cup rs, !.perms = @ \cup ps, !.caps = @ \cup cs,
                        !.enabled = @ \cup cs, !.ids = rs]
  BY DEF Init, s
<1>5. db.roles = s.roles \cup rs /\ db.ids = rs
  BY <1>3, <1>4 DEF HasFields, Fields
<1> QED  BY <1>1, <1>2, <1>3, <1>5, CatalogAssumption DEF RoleInv, Mirrored

\* Nothing of a role moves, and no request about it.
LEMMA Untouched ==
    ASSUME NEW r, RoleInv(r),
           AboutRole(r)' = AboutRole(r), \A b \in AboutRole(r) : req'[b] = req[b],
           r \in realm' <=> r \in realm, r \in db'.roles <=> r \in db.roles,
           r \in db'.ids <=> r \in db.ids
    PROVE  RoleInv(r)'
BY DEF RoleInv, Mirrored

\* A step of a request that is about something else.
LEMMA OthersAbout ==
    ASSUME NEW r, NEW a \in Admin, \A b \in Admin \ {a} : req'[b] = req[b],
           a \notin AboutRole(r), req'[a] = Idle \/ (req'[a].body = req[a].body /\ req[a] # Idle)
    PROVE  AboutRole(r)' = AboutRole(r) /\ \A b \in AboutRole(r) : req'[b] = req[b]
BY DEF AboutRole

\* A step of the only request about a role.
LEMMA OnlyAbout ==
    ASSUME NEW r, NEW a \in AboutRole(r), RoleInv(r), \A b \in Admin \ {a} : req'[b] = req[b]
    PROVE  /\ req'[a] = Idle => AboutRole(r)' = {}
           /\ req'[a] # Idle /\ req'[a].body = req[a].body => AboutRole(r)' = {a}
BY DEF AboutRole, RoleInv

\* What a request about something else makes of a role.
LEMMA NotMine ==
    ASSUME TypeInv, NEW r \in CustomRole, NEW a \in Admin, req[a] # Idle, a \notin AboutRole(r)
    PROVE  /\ r \in RealmAfter(req[a].body) <=> r \in realm
           /\ r \in Written(req[a].body, db).roles <=> r \in db.roles
           /\ r \in Written(req[a].body, db).ids <=> r \in db.ids
           /\ req[a].body.op = "createRole" => req[a].body.role # r
<1> DEFINE body == req[a].body
<1>1. body \in Request /\ db \in Table
  BY Bodied DEF TypeInv
<1>2. body.op \in {"createRole", "deleteRole"} => body.role # r
  BY <1>1, Bodies DEF AboutRole
<1>3. r \in RealmAfter(body) <=> r \in realm
  BY <1>2 DEF RealmAfter
<1>4. /\ Written(body, db).roles =
            CASE body.op = "createRole" -> db.roles \cup {body.role}
              [] body.op = "deleteRole" -> db.roles \ {body.role}
              [] OTHER -> db.roles
      /\ Written(body, db).ids = IF body.op = "deleteRole" THEN db.ids \ {body.role} ELSE db.ids
  BY <1>1, WrittenIs
<1> HIDE DEF body
<1>5. r \in Written(body, db).roles <=> r \in db.roles
  BY <1>2, <1>4
<1>6. r \in Written(body, db).ids <=> r \in db.ids
  BY <1>2, <1>4
<1> QED  BY <1>2, <1>3, <1>5, <1>6 DEF body

\* The steps of requests, for one role that is not astray after them.
LEMMA RealmRequests ==
    ASSUME IInv, NEW r \in CustomRole, r \notin astray', RoleInv(r), NEW a \in Admin
    PROVE  /\ \A body \in Request : Begin(a, body) => RoleInv(r)'
           /\ Check(a) => RoleInv(r)'
           /\ Write(a) => RoleInv(r)'
           /\ Refresh(a) => RoleInv(r)'
           /\ Mirror(a) => RoleInv(r)'
           /\ MirrorFails(a) => RoleInv(r)'
           /\ StoreId(a) => RoleInv(r)'
           /\ Reload(a) => RoleInv(r)'
<1>0. TypeInv /\ PhaseInv /\ db \in Table
  BY DEF IInv, TypeInv
<1>m. a \in AboutRole(r) => req[a] # Idle /\ req[a].body.role = r /\ req[a].body \in RoleRequest
                          /\ req[a].body.op \in {"createRole", "deleteRole"}
  BY <1>0, Bodied, Bodies DEF AboutRole
<1>1. ASSUME NEW body \in Request, Begin(a, body)  PROVE RoleInv(r)'
  <2>1. /\ req' = [req EXCEPT ![a] = [body |-> body, phase |-> "check"]] /\ req[a] = Idle
        /\ UNCHANGED <<db, realm>>
    BY <1>1 DEF Begin
  <2>2. [body |-> body, phase |-> "check"] \in [body : Request, phase : Phase]
    BY DEF Phase
  <2>3. /\ req'[a].body = body /\ req'[a].phase = "check" /\ req'[a] # Idle
        /\ \A b \in Admin \ {a} : req'[b] = req[b]
    BY <1>0, <2>1, <2>2, IdleIsNoRequest DEF TypeInv
  <2>4. CASE body \in RoleRequest /\ body.role = r
    <3>1. AboutRole(r) = {}
      BY <1>1, <2>4 DEF Begin
    <3>2. AboutRole(r)' = {a}
      BY <2>3, <2>4, <3>1 DEF AboutRole
    <3>3. Mirrored(r)'
      BY <2>1, <3>1 DEF RoleInv, Mirrored
    <3> QED  BY <2>3, <3>2, <3>3 DEF RoleInv
  <2>5. CASE ~(body \in RoleRequest /\ body.role = r)
    <3>1. AboutRole(r)' = AboutRole(r) /\ \A b \in AboutRole(r) : req'[b] = req[b]
      BY <2>1, <2>3, <2>5 DEF AboutRole
    <3> QED  BY <2>1, <3>1, Untouched
  <2> QED  BY <2>4, <2>5
<1>2. ASSUME Check(a)  PROVE RoleInv(r)'
  <2>1. req[a] # Idle /\ req[a].phase = "check" /\ "write" \in Phase /\ UNCHANGED <<db, realm>>
    BY <1>2 DEF Check, At, Phase
  <2>2. GoTo(a, "write") \/ End(a)
    BY <1>2 DEF Check
  <2>3. /\ \A b \in Admin \ {a} : req'[b] = req[b]
        /\ req'[a] = Idle \/ (req'[a] # Idle /\ req'[a].body = req[a].body /\ req'[a].phase = "write")
    BY <1>0, <2>1, <2>2, GoesOn, Ends
  <2>4. CASE a \notin AboutRole(r)
    BY <2>1, <2>3, <2>4, OthersAbout, Untouched
  <2>5. CASE a \in AboutRole(r)
    <3>1. Mirrored(r)'
      BY <2>1, <2>5 DEF RoleInv, Mirrored
    <3>2. AboutRole(r)' = {} \/ (AboutRole(r)' = {a} /\ req'[a].phase = "write")
      BY <2>3, <2>5, OnlyAbout
    <3> QED  BY <3>1, <3>2 DEF RoleInv
  <2> QED  BY <2>4, <2>5
<1>3. ASSUME Write(a)  PROVE RoleInv(r)'
  <2>1. req[a] # Idle /\ req[a].phase = "write" /\ "refresh" \in Phase /\ UNCHANGED realm
    BY <1>3 DEF Write, At, Phase
  <2>2. \/ GoTo(a, "refresh") /\ db' = Written(req[a].body, db)
        \/ End(a) /\ UNCHANGED db
    BY <1>3 DEF Write
  <2>3. /\ \A b \in Admin \ {a} : req'[b] = req[b]
        /\ \/ req'[a] = Idle /\ UNCHANGED db
           \/ /\ req'[a] # Idle /\ req'[a].body = req[a].body /\ req'[a].phase = "refresh"
              /\ db' = Written(req[a].body, db)
    BY <1>0, <2>1, <2>2, GoesOn, Ends
  <2>4. CASE a \notin AboutRole(r)
    <3>1. (r \in db'.roles <=> r \in db.roles) /\ (r \in db'.ids <=> r \in db.ids)
      BY <1>0, <2>1, <2>3, <2>4, NotMine
    <3> QED  BY <2>1, <2>3, <2>4, <3>1, OthersAbout, Untouched
  <2>5. CASE a \in AboutRole(r) /\ req'[a] = Idle
    <3>1. Mirrored(r)'
      BY <2>1, <2>3, <2>5 DEF RoleInv, Mirrored
    <3>2. AboutRole(r)' = {}
      BY <2>3, <2>5, OnlyAbout
    <3> QED  BY <3>1, <3>2 DEF RoleInv
  <2>6. CASE a \in AboutRole(r) /\ req'[a] # Idle
    <3>1. req[a].body \in Request
      BY <1>0, <2>1, Bodied
    <3>2. r \in db'.roles <=> req[a].body.op = "createRole"
      BY <1>0, <1>m, <2>3, <2>6, <3>1, WrittenIs
    <3>3. AboutRole(r)' = {a} /\ req'[a].body = req[a].body /\ req'[a].phase = "refresh"
      BY <2>3, <2>6, OnlyAbout
    <3> QED  BY <3>2, <3>3 DEF RoleInv
  <2> QED  BY <2>4, <2>5, <2>6
<1>4. ASSUME Refresh(a)  PROVE RoleInv(r)'
  <2>1. req[a] # Idle /\ req[a].phase = "refresh" /\ "mirror" \in Phase /\ UNCHANGED <<db, realm>>
    BY <1>4 DEF Refresh, At, Phase
  <2>2. \/ GoTo(a, "mirror")
        \/ End(a) /\ req[a].body.op \notin {"createRole", "updateRole", "deleteRole"}
    BY <1>4 DEF Refresh
  <2>3. /\ \A b \in Admin \ {a} : req'[b] = req[b]
        /\ \/ req'[a] = Idle /\ req[a].body.op \notin {"createRole", "updateRole", "deleteRole"}
           \/ req'[a] # Idle /\ req'[a].body = req[a].body /\ req'[a].phase = "mirror"
    BY <1>0, <2>1, <2>2, GoesOn, Ends
  <2>4. CASE a \notin AboutRole(r)
    BY <2>1, <2>3, <2>4, OthersAbout, Untouched
  <2>5. CASE a \in AboutRole(r)
    <3>1. AboutRole(r)' = {a} /\ req'[a].body = req[a].body /\ req'[a].phase = "mirror"
      BY <1>m, <2>3, <2>5, OnlyAbout
    <3>2. r \in db'.roles <=> req'[a].body.op = "createRole"
      BY <2>1, <2>5, <3>1 DEF RoleInv
    <3> QED  BY <3>1, <3>2 DEF RoleInv
  <2> QED  BY <2>4, <2>5
<1>5. ASSUME Mirror(a)  PROVE RoleInv(r)'
  <2>1. /\ req[a] # Idle /\ req[a].phase = "mirror" /\ "storeId" \in Phase /\ UNCHANGED db
        /\ realm' = RealmAfter(req[a].body)
    BY <1>5 DEF Mirror, At, Phase
  <2>2. IF req[a].body.op = "createRole" THEN GoTo(a, "storeId") ELSE End(a)
    BY <1>5 DEF Mirror
  <2>3. /\ \A b \in Admin \ {a} : req'[b] = req[b]
        /\ IF req[a].body.op = "createRole"
           THEN req'[a] # Idle /\ req'[a].body = req[a].body /\ req'[a].phase = "storeId"
           ELSE req'[a] = Idle
    BY <1>0, <2>1, <2>2, GoesOn, Ends
  <2>4. CASE a \notin AboutRole(r)
    <3>1. r \in realm' <=> r \in realm
      BY <1>0, <2>1, <2>4, NotMine
    <3> QED  BY <2>1, <2>3, <2>4, <3>1, OthersAbout, Untouched
  <2>5. CASE a \in AboutRole(r)
    <3>1. r \in db.roles <=> req[a].body.op = "createRole"
      BY <2>1, <2>5 DEF RoleInv
    <3>2. r \in realm' <=> req[a].body.op = "createRole"
      BY <1>m, <2>1, <2>5 DEF RealmAfter
    <3>3. CASE req[a].body.op = "createRole"
      <4>1. AboutRole(r)' = {a} /\ req'[a].phase = "storeId"
        BY <2>3, <2>5, <3>3, OnlyAbout
      <4> QED  BY <2>1, <3>1, <3>2, <3>3, <4>1 DEF RoleInv
    <3>4. CASE req[a].body.op # "createRole"
      <4>1. AboutRole(r)' = {}
        BY <2>3, <2>5, <3>4, OnlyAbout
      <4> QED  BY <2>1, <3>1, <3>2, <3>4, <4>1 DEF RoleInv, Mirrored
    <3> QED  BY <3>3, <3>4
  <2> QED  BY <2>4, <2>5
<1>6. ASSUME MirrorFails(a)  PROVE RoleInv(r)'
  <2>1. /\ req[a] # Idle /\ UNCHANGED db /\ End(a) /\ req[a].body.role # r
        /\ realm' = realm \/ realm' = RealmAfter(req[a].body)
    BY <1>6 DEF MirrorFails, At
  <2>2. a \notin AboutRole(r)
    BY <1>m, <2>1
  <2>3. r \in realm' <=> r \in realm
    BY <1>0, <2>1, <2>2, NotMine
  <2> QED  BY <1>0, <2>1, <2>2, <2>3, Ends, OthersAbout, Untouched
<1>7. ASSUME StoreId(a)  PROVE RoleInv(r)'
  <2>1. /\ req[a] # Idle /\ req[a].phase = "storeId" /\ "reload" \in Phase /\ UNCHANGED realm
        /\ GoTo(a, "reload")
    BY <1>7 DEF StoreId, At, Phase
  <2>2. db'.roles = db.roles /\ db'.ids = db.ids \cup ({req[a].body.role} \cap db.roles)
    BY <1>7, StoreStep
  <2>3. /\ \A b \in Admin \ {a} : req'[b] = req[b]
        /\ req'[a] # Idle /\ req'[a].body = req[a].body /\ req'[a].phase = "reload"
    BY <1>0, <2>1, GoesOn
  <2>4. CASE a \notin AboutRole(r)
    <3>1. req[a].body.role # r
      BY <1>0, <2>1, <2>4, NotMine DEF PhaseInv
    <3> QED  BY <2>1, <2>2, <2>3, <2>4, <3>1, OthersAbout, Untouched
  <2>5. CASE a \in AboutRole(r)
    <3>1. AboutRole(r)' = {a}
      BY <2>3, <2>5, OnlyAbout
    <3>2. r \in db.roles /\ r \in realm
      BY <2>1, <2>5 DEF RoleInv
    <3>3. r \in db'.roles /\ r \in realm' /\ r \in db'.ids
      BY <1>m, <2>1, <2>2, <2>5, <3>2
    <3> QED  BY <2>3, <3>1, <3>3 DEF RoleInv
  <2> QED  BY <2>4, <2>5
<1>8. ASSUME Reload(a)  PROVE RoleInv(r)'
  <2>1. req[a] # Idle /\ req[a].phase = "reload" /\ UNCHANGED <<db, realm>> /\ End(a)
    BY <1>8 DEF Reload, At
  <2>2. (\A b \in Admin \ {a} : req'[b] = req[b]) /\ req'[a] = Idle
    BY <1>0, <2>1, Ends
  <2>3. CASE a \notin AboutRole(r)
    BY <2>1, <2>2, <2>3, OthersAbout, Untouched
  <2>4. CASE a \in AboutRole(r)
    <3>1. AboutRole(r)' = {}
      BY <2>2, <2>4, OnlyAbout
    <3>2. r \in db.roles /\ r \in realm /\ r \in db.ids
      BY <2>1, <2>4 DEF RoleInv
    <3> QED  BY <2>1, <3>1, <3>2 DEF RoleInv, Mirrored
  <2> QED  BY <2>3, <2>4
<1> QED  BY <1>1, <1>2, <1>3, <1>4, <1>5, <1>6, <1>7, <1>8

LEMMA RealmKeeps == IInv /\ RealmInv /\ ~Resets /\ [Next]_vars => RealmInv'
<1> SUFFICES ASSUME IInv, RealmInv, ~Resets, [Next]_vars, NEW r \in CustomRole, r \notin astray'
             PROVE  RoleInv(r)'
  BY DEF RealmInv
<1>0. TypeInv /\ db \in Table
  BY DEF IInv, TypeInv
<1>1. astray \subseteq astray'
  BY DEF Next, vars, Begin, Check, Write, Refresh, Mirror, MirrorFails, StoreId, Reload, Reconcile,
         Start, Poll, Crash, Assign, Seed
<1>2. RoleInv(r)
  BY <1>1 DEF RealmInv
<1>3. ASSUME UNCHANGED <<req, realm>>, r \in db'.roles <=> r \in db.roles,
             r \in db'.ids <=> r \in db.ids
      PROVE  RoleInv(r)'
  BY <1>2, <1>3, Untouched DEF AboutRole
<1>4. ASSUME NEW a \in Admin,
             \/ \E body \in Request : Begin(a, body)
             \/ Check(a) \/ Write(a) \/ Refresh(a) \/ Mirror(a) \/ MirrorFails(a)
             \/ StoreId(a) \/ Reload(a)
      PROVE  RoleInv(r)'
  BY <1>2, <1>4, RealmRequests
<1>5. ASSUME NEW i \in Instance, Reconcile(i)  PROVE RoleInv(r)'
  <2>1. db'.roles = db.roles /\ db'.ids = db.ids
    BY <1>0, <1>5, ReconciledIs DEF Reconcile
  <2> QED  BY <1>3, <1>5, <2>1 DEF Reconcile
<1>6. ASSUME NEW i \in Instance, Start(i) \/ Poll(i)  PROVE RoleInv(r)'
  BY <1>3, <1>6 DEF Start, Poll
<1>7. ASSUME NEW i \in Instance, Crash(i)  PROVE RoleInv(r)'
  <2>1. \A a \in AboutRole(r) : HomeOf[a] # i
    BY <1>7 DEF Crash, AboutRole
  <2>2. AboutRole(r)' = AboutRole(r) /\ \A a \in AboutRole(r) : req'[a] = req[a]
    BY <1>7, <2>1 DEF Crash, AboutRole
  <2> QED  BY <1>2, <1>7, <2>2, Untouched DEF Crash
<1>8. ASSUME NEW i \in Instance, NEW x \in CustomRole, Assign(i, x)  PROVE RoleInv(r)'
  <2>1. db'.roles = db.roles /\ db'.ids = db.ids
    BY <1>0, <1>8, AssignedIs DEF Assign
  <2> QED  BY <1>3, <1>8, <2>1 DEF Assign
<1>9. ASSUME Seed  PROVE RoleInv(r)'
  <2>1. db' = SeedDatabase(db) \/ UNCHANGED db
    BY <1>9 DEF Seed
  <2>2. (r \in db'.roles <=> r \in db.roles) /\ (r \in db'.ids <=> r \in db.ids)
    BY <1>0, <2>1, SeededIs, CatalogAssumption
  <2> QED  BY <1>3, <1>9, <2>2 DEF Seed
<1>10. CASE UNCHANGED vars
  BY <1>3, <1>10 DEF vars
<1> QED  BY <1>4, <1>5, <1>6, <1>7, <1>8, <1>9, <1>10 DEF Next

-----------------------------------------------------------------------------
(* The theorems *)

\* In every reachable state the inductive invariant holds: types, the references
\* between the tables, and the routes as they were set.
THEOREM Invariance == Spec => []IInv
BY InitIInv, StepKeeps, PTL DEF Spec

\* Every variable keeps its type.
THEOREM TypeCorrect == Spec => []TypeInv
<1>1. IInv => TypeInv
  BY DEF IInv
<1> QED  BY <1>1, Invariance, PTL

\* A route requires what was last asked for it over restarts, deployments and
\* everything else that changes (updateRoutePolicy, reconcileRoutePolicies).
THEOREM RoutesStay == Spec => []RoutesAreAsSet
<1>1. IInv => RoutesAreAsSet
  BY DEF IInv
<1> QED  BY <1>1, Invariance, PTL

\* While no seed deletes the rows, a role whose requests did not overlap and all got
\* through is a realm role as long as it is a role (createRole, deleteRole).
THEOREM RealmFollows == ASSUME ~Resets  PROVE Spec => []RealmMirrorsRoles
<1>1. IInv /\ RealmInv /\ [Next]_vars => RealmInv'
  BY RealmKeeps
<1>2. RealmInv => RealmMirrorsRoles
  BY DEF RealmInv, RoleInv, Mirrored, RealmMirrorsRoles
<1> QED  BY <1>1, <1>2, InitRealmInv, Invariance, PTL DEF Spec

-----------------------------------------------------------------------------
(* The business rows that are seeded, for every content of the tables      *)

Rows == INSTANCE SeedData

\* Writing the same columns again changes nothing.
LEMMA OverwriteTwice ==
    ASSUME NEW new, NEW old
    PROVE  Rows!Overwrite(new, Rows!Overwrite(new, old)) = Rows!Overwrite(new, old)
BY DEF Rows!Overwrite

\* Rows that were inserted, or were there before, are kept by the next insert.
LEMMA InsertTwice ==
    ASSUME NEW rows, NEW table
    PROVE  Rows!InsertOrIgnore(rows, Rows!InsertOrIgnore(rows, table)) = Rows!InsertOrIgnore(rows, table)
BY DEF Rows!InsertOrIgnore, Rows!Overwrite

\* What an upsert leaves under a key it gives, and under one it does not.
LEMMA UpsertAt ==
    ASSUME NEW rows, NEW table
    PROVE  /\ Rows!Keys(Rows!Upsert(rows, table)) = Rows!Keys(rows) \cup Rows!Keys(table)
           /\ \A k \in Rows!Keys(table) \ Rows!Keys(rows) : Rows!Upsert(rows, table)[k] = table[k]
           /\ \A k \in Rows!Keys(rows) \ Rows!Keys(table) : Rows!Upsert(rows, table)[k] = rows[k]
           /\ \A k \in Rows!Keys(rows) \cap Rows!Keys(table) :
                 Rows!Upsert(rows, table)[k] = Rows!Overwrite(rows[k], table[k])
BY DEF Rows!Upsert, Rows!Keys

\* A row is a function of its columns, and so is every row of a table of rows.
IsFcn(f) == f = [c \in DOMAIN f |-> f[c]]

\* A row over itself is itself.
LEMMA OverwriteSelf ==
    ASSUME NEW f, IsFcn(f)
    PROVE  Rows!Overwrite(f, f) = f
BY DEF Rows!Overwrite, IsFcn

\* An upsert of rows that are there already changes nothing.
LEMMA UpsertTwice ==
    ASSUME NEW rows, NEW table, \A k \in Rows!Keys(rows) : IsFcn(rows[k])
    PROVE  Rows!Upsert(rows, Rows!Upsert(rows, table)) = Rows!Upsert(rows, table)
<1> DEFINE once  == Rows!Upsert(rows, table)
           twice == Rows!Upsert(rows, once)
<1>1. Rows!Keys(once) = Rows!Keys(rows) \cup Rows!Keys(table) /\ Rows!Keys(twice) = Rows!Keys(once)
  <2>1. Rows!Keys(once) = Rows!Keys(rows) \cup Rows!Keys(table)
    BY UpsertAt
  <2>2. Rows!Keys(twice) = Rows!Keys(rows) \cup Rows!Keys(once)
    BY UpsertAt
  <2> HIDE DEF once, twice
  <2> QED  BY <2>1, <2>2
<1>2. ASSUME NEW k \in Rows!Keys(once)
      PROVE  twice[k] = once[k]
  <2>1. CASE k \notin Rows!Keys(rows)
    BY <1>1, <2>1 DEF Rows!Upsert
  <2>2. CASE k \in Rows!Keys(rows) \ Rows!Keys(table)
    <3>1. once[k] = rows[k]
      BY <2>2, UpsertAt
    <3>2. twice[k] = Rows!Overwrite(rows[k], once[k])
      BY <1>2, <2>2, UpsertAt, k \in Rows!Keys(rows) \cap Rows!Keys(once)
    <3> QED  BY <2>2, <3>1, <3>2, OverwriteSelf
  <2>3. CASE k \in Rows!Keys(rows) \cap Rows!Keys(table)
    <3>1. once[k] = Rows!Overwrite(rows[k], table[k])
      BY <2>3, UpsertAt
    <3>2. twice[k] = Rows!Overwrite(rows[k], once[k])
      BY <1>2, <2>3, UpsertAt, k \in Rows!Keys(rows) \cap Rows!Keys(once)
    <3> QED  BY <3>1, <3>2, OverwriteTwice
  <2> QED  BY <1>1, <1>2, <2>1, <2>2, <2>3
<1>3. once = [k \in Rows!Keys(once) |-> once[k]] /\ twice = [k \in Rows!Keys(once) |-> twice[k]]
  BY <1>1 DEF Rows!Upsert, Rows!Keys
<1> QED  BY <1>2, <1>3

\* The rows that are seeded are functions of their columns.
LEMMA SeedsAreRows ==
    /\ \A k \in Rows!Keys(Rows!UsersSeed) : IsFcn(Rows!UsersSeed[k])
    /\ \A k \in Rows!Keys(Rows!CustomersSeed) : IsFcn(Rows!CustomersSeed[k])
    /\ \A k \in Rows!Keys(Rows!ProductsSeed) : IsFcn(Rows!ProductsSeed[k])
    /\ \A k \in Rows!Keys(Rows!SopsSeed) : IsFcn(Rows!SopsSeed[k])
    /\ \A k \in Rows!Keys(Rows!DetailsSeed) : IsFcn(Rows!DetailsSeed[k])
    /\ \A k \in Rows!Keys(Rows!SalesSeed) : IsFcn(Rows!SalesSeed[k])
    /\ \A k \in Rows!Keys(Rows!IssuesSeed) : IsFcn(Rows!IssuesSeed[k])
    /\ \A k \in Rows!Keys(Rows!ActionsSeed) : IsFcn(Rows!ActionsSeed[k])
    /\ \A k \in Rows!Keys(Rows!CommentsSeed) : IsFcn(Rows!CommentsSeed[k])
    /\ \A k \in Rows!Keys(Rows!ConversationsSeed) : IsFcn(Rows!ConversationsSeed[k])
    /\ \A k \in Rows!Keys(Rows!MessagesSeed) : IsFcn(Rows!MessagesSeed[k])
<1>1. \A k \in Rows!Keys(Rows!UsersSeed) : IsFcn(Rows!UsersSeed[k])
  BY DEF Rows!Keys, Rows!UsersSeed, IsFcn
<1>2. \A k \in Rows!Keys(Rows!CustomersSeed) : IsFcn(Rows!CustomersSeed[k])
  BY DEF Rows!Keys, Rows!CustomersSeed, IsFcn
<1>3. \A k \in Rows!Keys(Rows!ProductsSeed) : IsFcn(Rows!ProductsSeed[k])
  BY DEF Rows!Keys, Rows!ProductsSeed, IsFcn
<1>4. \A k \in Rows!Keys(Rows!SopsSeed) : IsFcn(Rows!SopsSeed[k])
  BY DEF Rows!Keys, Rows!SopsSeed, IsFcn
<1>5. \A k \in Rows!Keys(Rows!DetailsSeed) : IsFcn(Rows!DetailsSeed[k])
  BY DEF Rows!Keys, Rows!DetailsSeed, IsFcn
<1>6. \A k \in Rows!Keys(Rows!SalesSeed) : IsFcn(Rows!SalesSeed[k])
  BY DEF Rows!Keys, Rows!SalesSeed, Rows!SaleRow, IsFcn
<1>7. \A k \in Rows!Keys(Rows!IssuesSeed) : IsFcn(Rows!IssuesSeed[k])
  BY DEF Rows!Keys, Rows!IssuesSeed, Rows!IssueRow, IsFcn
<1>8. \A k \in Rows!Keys(Rows!ActionsSeed) : IsFcn(Rows!ActionsSeed[k])
  BY DEF Rows!Keys, Rows!ActionsSeed, Rows!ActionRow, IsFcn
<1>9. \A k \in Rows!Keys(Rows!CommentsSeed) : IsFcn(Rows!CommentsSeed[k])
  BY DEF Rows!Keys, Rows!CommentsSeed, IsFcn
<1>10. \A k \in Rows!Keys(Rows!ConversationsSeed) : IsFcn(Rows!ConversationsSeed[k])
  BY DEF Rows!Keys, Rows!ConversationsSeed, IsFcn
<1>11. \A k \in Rows!Keys(Rows!MessagesSeed) : IsFcn(Rows!MessagesSeed[k])
  BY DEF Rows!Keys, Rows!MessagesSeed, IsFcn
<1> QED  BY <1>1, <1>2, <1>3, <1>4, <1>5, <1>6, <1>7, <1>8, <1>9, <1>10, <1>11

\* The tables: a function from their names.
IsTables(t) == DOMAIN t = Rows!Tables /\ IsFcn(t)

\* What the whole seeding makes of every table.
LEMMA SeedBusinessAt ==
    ASSUME NEW t, IsTables(t)
    PROVE  /\ IsTables(Rows!SeedBusiness(t))
           /\ Rows!SeedBusiness(t).users = Rows!Upsert(Rows!UsersSeed, t.users)
           /\ Rows!SeedBusiness(t).customers = Rows!Upsert(Rows!CustomersSeed, t.customers)
           /\ Rows!SeedBusiness(t).products = Rows!Upsert(Rows!ProductsSeed, t.products)
           /\ Rows!SeedBusiness(t).sops = Rows!Upsert(Rows!SopsSeed, t.sops)
           /\ Rows!SeedBusiness(t).details = Rows!Upsert(Rows!DetailsSeed, t.details)
           /\ Rows!SeedBusiness(t).sales = Rows!Upsert(Rows!SalesSeed, t.sales)
           /\ Rows!SeedBusiness(t).sold = Rows!InsertOrIgnore(Rows!SoldSeed, t.sold)
           /\ Rows!SeedBusiness(t).issues = Rows!Upsert(Rows!IssuesSeed, t.issues)
           /\ Rows!SeedBusiness(t).actions = Rows!Upsert(Rows!ActionsSeed, t.actions)
           /\ Rows!SeedBusiness(t).depends = Rows!InsertOrIgnore(Rows!DependsSeed, t.depends)
           /\ Rows!SeedBusiness(t).comments = Rows!Upsert(Rows!CommentsSeed, t.comments)
           /\ Rows!SeedBusiness(t).conversations = Rows!Upsert(Rows!ConversationsSeed, t.conversations)
           /\ Rows!SeedBusiness(t).messages = Rows!Upsert(Rows!MessagesSeed, t.messages)
<1> DEFINE t1 == Rows!SeedProducts(Rows!SeedCustomers(Rows!SeedUsers(t)))
           t2 == Rows!SeedSales(Rows!SeedSops(t1))
           t3 == Rows!SeedIssueActions(Rows!SeedCustomerIssues(t2))
           t4 == Rows!SeedConversations(Rows!SeedActionComments(t3))
<1>1. /\ IsTables(t1)
      /\ t1.users = Rows!Upsert(Rows!UsersSeed, t.users)
      /\ t1.customers = Rows!Upsert(Rows!CustomersSeed, t.customers)
      /\ t1.products = Rows!Upsert(Rows!ProductsSeed, t.products)
      /\ \A x \in Rows!Tables \ {"users", "customers", "products"} : t1[x] = t[x]
  BY DEF IsTables, IsFcn, Rows!Tables, Rows!SeedUsers, Rows!SeedCustomers, Rows!SeedProducts
<1>2. /\ IsTables(t2)
      /\ t2.sops = Rows!Upsert(Rows!SopsSeed, t1.sops)
      /\ t2.details = Rows!Upsert(Rows!DetailsSeed, t1.details)
      /\ t2.sales = Rows!Upsert(Rows!SalesSeed, t1.sales)
      /\ t2.sold = Rows!InsertOrIgnore(Rows!SoldSeed, t1.sold)
      /\ \A x \in Rows!Tables \ {"sops", "details", "sales", "sold"} : t2[x] = t1[x]
  <2> HIDE DEF t1
  <2> QED  BY <1>1 DEF IsTables, IsFcn, Rows!Tables, Rows!SeedSops, Rows!SeedSales
<1>3. /\ IsTables(t3)
      /\ t3.issues = Rows!Upsert(Rows!IssuesSeed, t2.issues)
      /\ t3.actions = Rows!Upsert(Rows!ActionsSeed, t2.actions)
      /\ t3.depends = Rows!InsertOrIgnore(Rows!DependsSeed, t2.depends)
      /\ \A x \in Rows!Tables \ {"issues", "actions", "depends"} : t3[x] = t2[x]
  <2> HIDE DEF t2
  <2> QED  BY <1>2 DEF IsTables, IsFcn, Rows!Tables, Rows!SeedCustomerIssues, Rows!SeedIssueActions
<1>4. /\ IsTables(t4)
      /\ t4.comments = Rows!Upsert(Rows!CommentsSeed, t3.comments)
      /\ t4.conversations = Rows!Upsert(Rows!ConversationsSeed, t3.conversations)
      /\ t4.messages = Rows!Upsert(Rows!MessagesSeed, t3.messages)
      /\ \A x \in Rows!Tables \ {"comments", "conversations", "messages"} : t4[x] = t3[x]
  <2> HIDE DEF t3
  <2> QED  BY <1>3 DEF IsTables, IsFcn, Rows!Tables, Rows!SeedActionComments, Rows!SeedConversations
<1>5. Rows!SeedBusiness(t) = t4
  BY DEF Rows!SeedBusiness
<1> HIDE DEF t1, t2, t3, t4
<1> QED  BY <1>1, <1>2, <1>3, <1>4, <1>5 DEF Rows!Tables

\* Every start seeds, and a second seeding changes nothing: re-running never
\* duplicates rows (seed.ts, seedDatabase).
THEOREM SeedTwice ==
    ASSUME NEW t, IsTables(t)
    PROVE  Rows!SeedBusiness(Rows!SeedBusiness(t)) = Rows!SeedBusiness(t)
<1> DEFINE once  == Rows!SeedBusiness(t)
           twice == Rows!SeedBusiness(once)
<1>1. IsTables(once) /\ IsTables(twice)
  BY SeedBusinessAt
<1>2. /\ twice.users = once.users /\ twice.customers = once.customers
      /\ twice.products = once.products /\ twice.sops = once.sops
      /\ twice.details = once.details /\ twice.sales = once.sales
  <2>1. /\ twice.users = Rows!Upsert(Rows!UsersSeed, once.users)
        /\ twice.customers = Rows!Upsert(Rows!CustomersSeed, once.customers)
        /\ twice.products = Rows!Upsert(Rows!ProductsSeed, once.products)
        /\ twice.sops = Rows!Upsert(Rows!SopsSeed, once.sops)
        /\ twice.details = Rows!Upsert(Rows!DetailsSeed, once.details)
        /\ twice.sales = Rows!Upsert(Rows!SalesSeed, once.sales)
    BY <1>1, SeedBusinessAt
  <2> HIDE DEF twice
  <2>2. QED  BY <2>1, SeedBusinessAt, SeedsAreRows, UpsertTwice
<1>3. /\ twice.issues = once.issues /\ twice.actions = once.actions
      /\ twice.comments = once.comments /\ twice.conversations = once.conversations
      /\ twice.messages = once.messages
  <2>1. /\ twice.issues = Rows!Upsert(Rows!IssuesSeed, once.issues)
        /\ twice.actions = Rows!Upsert(Rows!ActionsSeed, once.actions)
        /\ twice.comments = Rows!Upsert(Rows!CommentsSeed, once.comments)
        /\ twice.conversations = Rows!Upsert(Rows!ConversationsSeed, once.conversations)
        /\ twice.messages = Rows!Upsert(Rows!MessagesSeed, once.messages)
    BY <1>1, SeedBusinessAt
  <2> HIDE DEF twice
  <2>2. QED  BY <2>1, SeedBusinessAt, SeedsAreRows, UpsertTwice
<1>4. twice.sold = once.sold /\ twice.depends = once.depends
  <2>1. /\ twice.sold = Rows!InsertOrIgnore(Rows!SoldSeed, once.sold)
        /\ twice.depends = Rows!InsertOrIgnore(Rows!DependsSeed, once.depends)
    BY <1>1, SeedBusinessAt
  <2> HIDE DEF twice
  <2>2. QED  BY <2>1, SeedBusinessAt, InsertTwice
<1> HIDE DEF once, twice
<1>5. \A x \in Rows!Tables : twice[x] = once[x]
  BY <1>2, <1>3, <1>4 DEF Rows!Tables
<1> QED  BY <1>1, <1>5 DEF IsTables, IsFcn, once, twice

\* Rows that are not the seed's stay as they are; this is said of the sales, and
\* holds of every table alike.
THEOREM OtherSalesStay ==
    ASSUME NEW t, IsTables(t), NEW s \in Rows!Keys(t.sales) \ Rows!Keys(Rows!SalesSeed)
    PROVE  Rows!SeedBusiness(t).sales[s] = t.sales[s]
BY SeedBusinessAt, UpsertAt

\* What was recorded of a seeded sale since is lost: every start of the system writes
\* the payment, the discount, the customer and the total of the seed over it.
THEOREM EditsAreUndone ==
    ASSUME NEW t, IsTables(t), NEW s \in Rows!Keys(Rows!SalesSeed), NEW c \in DOMAIN Rows!SalesSeed[s]
    PROVE  Rows!SeedBusiness(t).sales[s][c] = Rows!SalesSeed[s][c]
<1>1. Rows!SeedBusiness(t).sales = Rows!Upsert(Rows!SalesSeed, t.sales)
  BY SeedBusinessAt
<1>2. CASE s \in Rows!Keys(t.sales)
  <2>1. Rows!SeedBusiness(t).sales[s] = Rows!Overwrite(Rows!SalesSeed[s], t.sales[s])
    BY <1>1, <1>2, UpsertAt
  <2> QED  BY <2>1 DEF Rows!Overwrite
<1>3. CASE s \notin Rows!Keys(t.sales)
  BY <1>1, <1>3, UpsertAt
<1> QED  BY <1>2, <1>3

=============================================================================
