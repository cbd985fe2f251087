----------------------------- MODULE ApiSurface -----------------------------
(***************************************************************************)
(* Every route of the API (app.ts and the routers): the policy it declares *)
(* in code, whom its authentication lets in, and what authorize makes of   *)
(* the policy that is in force.  A policy in force is the registry's row   *)
(* of the route, which an administrator may bind to something else, or the *)
(* declared one.  The business routers are AccessCatalog's.                *)
(***************************************************************************)
EXTENDS AccessCatalog

Public        == [kind |-> "public"]
Authenticated == [kind |-> "authenticated"]
Gated(p)      == [kind |-> "permission", perm |-> p]
Declarable    == {Public, Authenticated} \cup {Gated(p) : p \in Permission}

-----------------------------------------------------------------------------
(* The declared policies, one operator per router *)

BusinessRoutes == [o \in Operation |-> Gated(RoutePermission(o))]

HealthRoutes == [o \in {"health.live", "health.ready"} |-> Public]

MeRoutes == [o \in {"auth.me"} |-> Authenticated]

RegistryRoutes == [o \in {"rbac.registry.get"} |-> Authenticated]

ConversationRoutes ==
    [o \in {"conversations.list", "conversations.create", "conversations.get"} |-> Authenticated]

AgentRunRoutes ==
    [o \in {"a2a.chat", "agent-runs.get", "agent-runs.events", "agent-runs.cancel"} |->
       CASE o = "a2a.chat"          -> Gated("create-agent-run")
         [] o = "agent-runs.cancel" -> Gated("cancel-agent-run")
         [] OTHER                   -> Gated("read-agent-run")]

AdminAgentReads  == {"admin.agents.list", "admin.agents.get"}
AdminAgentRoutes ==
    [o \in AdminAgentReads \cup {"admin.agents.onboard", "admin.agents.setEnabled",
                                 "admin.agents.remove"} |->
       Gated(IF o \in AdminAgentReads THEN "read-agents" ELSE "write-agents")]

UserReads       == {"admin.users.list", "admin.users.get"}
AdminUserRoutes ==
    [o \in UserReads \cup {"admin.users.create", "admin.users.update", "admin.users.setRoles",
                           "admin.users.syncKeycloak"} |->
       Gated(IF o \in UserReads THEN "read-users" ELSE "write-users")]

PolicyReads ==
    {"admin.roles.list", "admin.permissions.list", "admin.rolePermissions.get",
     "admin.capabilities.list", "admin.routePolicies.list", "admin.viewPermissions.list"}

PolicyWrites ==
    {"admin.roles.create", "admin.roles.update", "admin.roles.delete",
     "admin.roles.setPermissions", "admin.permissions.create", "admin.permissions.update",
     "admin.permissions.delete", "admin.capabilities.create", "admin.capabilities.update",
     "admin.capabilities.delete", "admin.routePolicies.update", "admin.viewPermissions.update"}

AdminPolicyRoutes ==
    [o \in PolicyReads \cup PolicyWrites |->
       Gated(IF o \in PolicyReads THEN "read-permissions" ELSE "write-permissions")]

AdminRoutes == DOMAIN AdminUserRoutes \cup DOMAIN AdminPolicyRoutes

\* What defineRoutePolicy has registered when the process has loaded its modules.
Declared ==
    [o \in Operation \cup DOMAIN HealthRoutes \cup DOMAIN MeRoutes \cup DOMAIN RegistryRoutes
             \cup DOMAIN ConversationRoutes \cup DOMAIN AgentRunRoutes
             \cup DOMAIN AdminAgentRoutes \cup AdminRoutes |->
       CASE o \in Operation                 -> BusinessRoutes[o]
         [] o \in DOMAIN HealthRoutes       -> HealthRoutes[o]
         [] o \in DOMAIN MeRoutes           -> MeRoutes[o]
         [] o \in DOMAIN RegistryRoutes     -> RegistryRoutes[o]
         [] o \in DOMAIN ConversationRoutes -> ConversationRoutes[o]
         [] o \in DOMAIN AgentRunRoutes     -> AgentRunRoutes[o]
         [] o \in DOMAIN AdminAgentRoutes   -> AdminAgentRoutes[o]
         [] o \in DOMAIN AdminUserRoutes    -> AdminUserRoutes[o]
         [] o \in DOMAIN AdminPolicyRoutes  -> AdminPolicyRoutes[o]]

\* Permissions without one of which the policy could not be administered.
Critical == {"read-permissions", "write-permissions", "read-users", "write-users"}

-----------------------------------------------------------------------------
(* A request.  A token is [kind, perms] of a user or [kind, audience,        *)
(* party] of a service, or NoToken: none, or one that does not verify.       *)

NoToken == [kind |-> "none"]

\* createAuthenticate: the health routers are mounted without it.
Authenticates(o, token) == o \in DOMAIN HealthRoutes \/ token.kind = "user"

\* authorize, with the policy in force.
Authorizes(policy, token) ==
    \/ policy.kind = "public"
    \/ token.kind = "user" /\ policy.kind = "authenticated"
    \/ token.kind = "user" /\ policy.kind = "permission" /\ policy.perm \in token.perms

Respond(o, token, policy) ==
    IF ~Authenticates(o, token) THEN 401
    ELSE IF Authorizes(policy, token) THEN 200
    ELSE IF token.kind = "user" THEN 403 ELSE 401

\* The internal endpoints take service tokens of their own audience and parties.
GatewayCalls     == {"prompt", "tool-calls", "finalize"}
EntitlementCalls == {"entitlement"}
RegistryCalls    == {"internal.registry"}

Worker      == [audience |-> "nova-mcp-sales",
                parties |-> {"nova-celery-worker", "nova-agent-sql-analyst"}]
Entitlement == [audience |-> "nova-mcp-data",
                parties |-> {"nova-agent-sql-analyst", "nova-mcp-data"}]

\* verify: the audience and the party are checked each on its own.
Verified(token, audiences, parties) ==
    token.kind = "service" /\ token.audience \in audiences /\ token.party \in parties

AdmitsService(o, token) ==
    CASE o \in GatewayCalls     -> Verified(token, {Worker.audience}, Worker.parties)
      [] o \in EntitlementCalls -> Verified(token, {Entitlement.audience}, Entitlement.parties)
      [] o \in RegistryCalls    -> Verified(token, {Worker.audience, Entitlement.audience},
                                            Worker.parties \cup Entitlement.parties)

-----------------------------------------------------------------------------
(* What the declared policies promise *)

\* Every declared policy names a seeded permission, so the rows the boot writes
\* satisfy their foreign key and no route is closed to everybody.
DeclaredIsSeeded ==
    \A o \in DOMAIN Declared :
        /\ Declared[o] \in Declarable
        /\ \E r \in Role : Declared[o].kind = "permission" =>
                              Declared[o].perm \in RolePermissions[r]

\* Whoever holds the critical permissions may use every route that administers users
\* and policy: the protection of the last administrator protects all it needs to.
CriticalSuffices ==
    \A o \in AdminRoutes, perms \in SUBSET Permission :
        Critical \subseteq perms => Respond(o, [kind |-> "user", perms |-> perms], Declared[o]) = 200

\* Whatever a route is bound to, nobody gets in without a user's token: a route that an
\* administrator makes public still authenticates, as its code does so first.
BindingNeverAdmitsNobody ==
    \A o \in DOMAIN Declared \ DOMAIN HealthRoutes, policy \in Declarable :
        \A token \in {NoToken} \cup [kind : {"service"}, audience : {Worker.audience},
                                     party : Worker.parties] :
            Respond(o, token, policy) = 401

\* A capability lets its holder do what the routes let him do, and no more: each
\* operation its executor calls is behind a route whose permission it requires.
CapabilityIsWithinRoutes(c, permissions) ==
    Satisfies(RequiredPermissions(c), permissions) =>
        \A o \in OperationsOf(c) : RoutePermission(o) \in permissions

\* The two ways the code has to ask whether roles grant a capability agree.
RolesAgree(roles, c) ==
    RolesGrantCapability(roles, c) <=> c \in CapabilitiesFor(PermissionsForRoles(roles))

\* Whoever may write a view holds a capability that writes: the map grants nothing
\* that the catalog does not.
WritableIsBacked(permissions) ==
    WritableViews(permissions) # {} =>
        CapabilitiesFor(permissions) \cap
            ({"sales.create", "issues.update"} \cup ActionWrites \cup SopWrites) # {}

=============================================================================
