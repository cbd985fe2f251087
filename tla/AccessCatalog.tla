--------------------------- MODULE AccessCatalog ---------------------------
(***************************************************************************)
(* What the code ships as authorization policy, and what the policy is a   *)
(* policy about: the permission every REST route declares, the permissions *)
(* every capability requires, and which operations of the business         *)
(* services the executor of a capability calls.  The database starts from  *)
(* these tables and an administrator may edit them (RbacCatalog).          *)
(***************************************************************************)
EXTENDS Naturals

Permission ==
    {"read-customers", "write-customers", "create-issues", "read-issues",
     "write-issues", "read-sales", "write-sales", "read-permissions",
     "write-permissions", "read-actions", "create-actions", "write-actions",
     "read-sop", "write-sop", "read-users", "write-users", "create-agent-run",
     "read-agent-run", "cancel-agent-run", "read-agents", "write-agents"}

RunLifecycle == {"create-agent-run", "read-agent-run", "cancel-agent-run"}

Role == {"sales-user", "support-operations-user", "admin", "customer-support",
         "ops-compliance"}

RolePermissions ==
    [r \in Role |->
       CASE r = "admin" -> Permission
         [] r = "sales-user" -> RunLifecycle \cup
              {"read-customers", "write-customers", "read-issues", "read-sales",
               "write-sales", "read-actions", "read-sop"}
         [] r = "support-operations-user" -> RunLifecycle \cup
              {"read-customers", "write-customers", "read-issues", "write-issues",
               "read-sales", "read-actions", "write-actions", "read-sop"}
         [] r = "customer-support" -> RunLifecycle \cup
              {"read-customers", "create-issues", "read-issues", "write-issues",
               "read-sales", "read-actions", "create-actions", "write-actions"}
         [] r = "ops-compliance" -> RunLifecycle \cup {"read-sop", "write-sop"}]

\* permissionsForRoles: the union of the grants.
PermissionsForRoles(roles) == UNION {RolePermissions[r] : r \in roles}

-----------------------------------------------------------------------------
(* The routes: the permission that each declares *)

CustomerRoutes == [o \in {"customers.list", "customers.get"} |-> "read-customers"]

ProductRoutes == [o \in {"products.list"} |-> "read-sales"]

SaleRoutes == [o \in {"sales.list", "sales.get", "sales.create"} |->
                 IF o = "sales.create" THEN "write-sales" ELSE "read-sales"]

IssueRoutes == [o \in {"issues.list", "issues.get", "issues.create", "issues.update"} |->
                  CASE o = "issues.create" -> "create-issues"
                    [] o = "issues.update" -> "write-issues"
                    [] OTHER -> "read-issues"]

ActionRoutes == [o \in {"actions.list", "actions.create", "actions.update",
                        "actions.addComment"} |->
                   CASE o = "actions.list" -> "read-actions"
                     [] o = "actions.create" -> "create-actions"
                     [] OTHER -> "write-actions"]

SopRoutes == [o \in {"sops.list", "sops.get", "sops.create", "sops.update",
                     "sops.addVersion"} |->
                IF o \in {"sops.list", "sops.get"} THEN "read-sop" ELSE "write-sop"]

Operation == DOMAIN CustomerRoutes \cup DOMAIN ProductRoutes \cup DOMAIN SaleRoutes
               \cup DOMAIN IssueRoutes \cup DOMAIN ActionRoutes \cup DOMAIN SopRoutes

RoutePermission(o) ==
    CASE o \in DOMAIN CustomerRoutes -> CustomerRoutes[o]
      [] o \in DOMAIN ProductRoutes  -> ProductRoutes[o]
      [] o \in DOMAIN SaleRoutes     -> SaleRoutes[o]
      [] o \in DOMAIN IssueRoutes    -> IssueRoutes[o]
      [] o \in DOMAIN ActionRoutes   -> ActionRoutes[o]
      [] o \in DOMAIN SopRoutes      -> SopRoutes[o]

-----------------------------------------------------------------------------
(* The capabilities: what each requires and what its executor calls.  An    *)
(* operation that has no route of its own stands for the route that returns *)
(* the same records.                                                        *)

CustomerReads == {"customers.search", "customers.get"}
ProductReads  == {"products.search", "products.get"}
SaleReads     == {"sales.list", "sales.get"}
SaleReports   == {"sales.report.customer", "sales.products.forCustomer"}
IssueReads    == {"issues.list", "issues.get"}
ActionReads   == {"actions.next", "actions.list", "actions.get"}
ActionWrites  == {"actions.markCompleted", "actions.addComment", "actions.update"}
SopWrites     == {"sop.create", "sop.update", "sop.addVersion"}

Capability ==
    CustomerReads \cup ProductReads \cup SaleReads \cup SaleReports \cup IssueReads
      \cup ActionReads \cup ActionWrites \cup SopWrites
      \cup {"issues.list.pendingForCustomer", "sales.create", "issues.create",
            "issues.update", "actions.create", "sop.read"}

RequiredPermissions(c) ==
    CASE c \in CustomerReads  -> {"read-customers"}
      [] c \in ProductReads   -> {"read-sales"}
      [] c \in SaleReads      -> {"read-sales"}
      [] c \in SaleReports    -> {"read-sales", "read-customers"}
      [] c \in IssueReads     -> {"read-issues"}
      [] c = "issues.list.pendingForCustomer" -> {"read-issues", "read-customers"}
      [] c \in ActionReads    -> {"read-actions"}
      [] c \in ActionWrites   -> {"write-actions"}
      [] c = "actions.create" -> {"create-actions"}
      [] c = "sales.create"   -> {"write-sales"}
      [] c = "issues.create"  -> {"create-issues"}
      [] c = "issues.update"  -> {"write-issues"}
      [] c = "sop.read"       -> {"read-sop"}
      [] c \in SopWrites      -> {"write-sop"}

\* The registry's permissionsSatisfyCapability: every required one, and at least one.
Satisfies(required, permissions) == required # {} /\ required \subseteq permissions

\* The operations that the executor of a capability may call.
OperationsOf(c) ==
    CASE c = "customers.search" -> {"customers.list"}
      [] c = "customers.get"    -> {"customers.get"}
      [] c \in ProductReads     -> {"products.list"}
      [] c = "sales.list"       -> {"sales.list"}
      [] c = "sales.get"        -> {"sales.get"}
      [] c \in SaleReports      -> {"customers.get", "sales.list"}
      [] c \in {"issues.list", "issues.list.pendingForCustomer"} -> {"issues.list"}
      [] c = "issues.get"       -> {"issues.get"}
      [] c \in ActionReads      -> {"actions.list"}
      [] c = "actions.markCompleted" -> {"actions.update"}
      [] c \in {"actions.addComment", "actions.update", "actions.create",
                "sales.create", "issues.create", "issues.update"} -> {c}
      [] c = "sop.read"         -> {"sops.get", "sops.list"}
      [] c = "sop.create"       -> {"sops.create"}
      [] c = "sop.update"       -> {"sops.update"}
      [] c = "sop.addVersion"   -> {"sops.addVersion"}

\* capabilitiesForPermissions of the shared catalog only asks for every required one.
CapabilitiesFor(permissions) == {c \in Capability : RequiredPermissions(c) \subseteq permissions}

\* rolesGrantCapability asks of every required permission for a role that grants it.
RolesGrantCapability(roles, c) ==
    /\ c \in Capability /\ RequiredPermissions(c) # {}
    /\ \A p \in RequiredPermissions(c) : \E r \in roles : p \in RolePermissions[r]

\* The views of the free queries that stand for a table somebody may change.
WriteViewPermission ==
    [v \in {"sales", "products_sold", "customer_issues", "issue_actions",
            "my_assigned_actions", "sops", "sop_details"} |->
       CASE v \in {"sales", "products_sold"} -> "write-sales"
         [] v = "customer_issues" -> "write-issues"
         [] v \in {"issue_actions", "my_assigned_actions"} -> "write-actions"
         [] v \in {"sops", "sop_details"} -> "write-sop"]

WritableViews(permissions) ==
    {v \in DOMAIN WriteViewPermission : WriteViewPermission[v] \in permissions}

=============================================================================
