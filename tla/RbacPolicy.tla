----------------------------- MODULE RbacPolicy -----------------------------
(***************************************************************************)
(* The authorization policy: administrators change it in transactions      *)
(* (rbac-admin.service.ts), the API's instances serve it from memory       *)
(* (rbac-registry.service.ts).                                             *)
(*                                                                         *)
(* The policy is the grants of roles; the other tables are written and     *)
(* loaded in the same way.  Transactions are READ COMMITTED: a statement   *)
(* sees what was committed when it started and what its own transaction    *)
(* wrote.  DELETE waits for another transaction that deleted the same row, *)
(* INSERT for one that inserted the same key, and the UPDATE of the        *)
(* revision for one that has updated it and not committed.                 *)
(***************************************************************************)
EXTENDS Naturals, FiniteSets

CONSTANTS
    Role, Perm,
    Critical,       \* CRITICAL_PERMISSIONS
    Instance,       \* API processes
    Admin,          \* requests that change the policy at a time
    HomeOf,         \* [Admin -> Instance] that handles the request
    MaxMutations,   \* bound: committed changes
    MaxLoadFailures, \* bound: loads that fail
    NoTx, Unread

Loader == Instance \cup Admin   \* an instance's poll, a request's refresh
Grant  == Role \X Perm

ASSUME PolicyAssumption ==
    /\ Critical \subseteq Perm
    /\ HomeOf \in [Admin -> Instance]
    /\ Admin \cap Instance = {}
    /\ {MaxMutations, MaxLoadFailures} \subseteq Nat

VARIABLES
    grants,      \* committed role_permissions
    revision,    \* committed rbac_revision
    tx,          \* [Admin -> Tx \cup {NoTx}]: open transactions
    load,        \* [Loader -> Loading \cup {NoTx}]: loadData in progress
    current,     \* [Instance -> the registry it serves]
    lastSet,     \* [Role -> what the last committed request asked for]
    mutations,   \* committed changes
    loadFailures

policyVars == <<grants, revision, tx, load, current, lastSet, mutations, loadFailures>>

Phase == {"delete", "insert", "check", "bump", "commit", "refresh"}
Tx    == [role : Role, perms : SUBSET Perm, seen : SUBSET Grant,
          deleted : SUBSET Grant, inserted : SUBSET Grant, phase : Phase]
Loading == [grants : {Unread} \cup SUBSET Grant, revision : {Unread} \cup Nat]

Of(role, perms) == {role} \X perms
Covered(set)    == \A p \in Critical : \E r \in Role : <<r, p>> \in set
HomeOfLoader(x) == IF x \in Admin THEN HomeOf[x] ELSE x

PolicyInit ==
    /\ lastSet \in [Role -> SUBSET Perm]
    /\ grants = UNION {Of(r, lastSet[r]) : r \in Role}
    /\ Covered(grants)
    /\ revision = 1
    /\ tx = [a \in Admin |-> NoTx]
    /\ load = [x \in Loader |-> NoTx]
    /\ current = [i \in Instance |-> [grants |-> grants, revision |-> revision]]
    /\ mutations = 0
    /\ loadFailures = MaxLoadFailures

In(a, phase) == tx[a] # NoTx /\ tx[a].phase = phase
Others(a)    == {b \in Admin \ {a} : tx[b] # NoTx}

-----------------------------------------------------------------------------
(* setRolePermissions *)

BeginTx(a, role, perms) ==
    /\ tx[a] = NoTx
    /\ load[a] = NoTx
    /\ mutations + Cardinality({b \in Admin : tx[b] # NoTx}) < MaxMutations
    /\ tx' = [tx EXCEPT ![a] =
                [role |-> role, perms |-> perms, seen |-> grants \cap Of(role, Perm),
                 deleted |-> {}, inserted |-> {}, phase |-> "delete"]]
    /\ UNCHANGED <<grants, revision, load, current, lastSet, mutations, loadFailures>>

\* Mutant of Delete: the role's grants are left in place.
Delete_Nothing(a) ==
    /\ In(a, "delete")
    /\ \A b \in Others(a) : tx[b].deleted \cap tx[a].seen = {}
    /\ tx' = [tx EXCEPT ![a].seen = {}, ![a].phase = "insert"]
    /\ UNCHANGED <<grants, revision, load, current, lastSet, mutations, loadFailures>>

\* DELETE: the rows the statement saw, as far as they are still there.
Delete(a) ==
    /\ In(a, "delete")
    /\ \A b \in Others(a) : tx[b].deleted \cap tx[a].seen = {}
    /\ tx' = [tx EXCEPT ![a].deleted = tx[a].seen \cap grants, ![a].seen = {},
                        ![a].phase = "insert"]
    /\ UNCHANGED <<grants, revision, load, current, lastSet, mutations, loadFailures>>

\* INSERT: a row that is there is an error, and undoes the transaction.
Insert(a) ==
    LET rows == Of(tx[a].role, tx[a].perms) IN
    /\ In(a, "insert")
    /\ \A b \in Others(a) : (tx[b].inserted \cup tx[b].deleted) \cap rows = {}
    /\ tx' = [tx EXCEPT ![a] = IF rows \cap (grants \ @.deleted) # {} THEN NoTx
                               ELSE [@ EXCEPT !.inserted = rows, !.phase = "check"]]
    /\ UNCHANGED <<grants, revision, load, current, lastSet, mutations, loadFailures>>

\* Mutant of Check: nothing is checked.
Check_Nothing(a) ==
    /\ In(a, "check")
    /\ tx' = [tx EXCEPT ![a].phase = "bump"]
    /\ UNCHANGED <<grants, revision, load, current, lastSet, mutations, loadFailures>>

\* assertCriticalPermissionsCovered, on what the transaction sees.
Check(a) ==
    /\ In(a, "check")
    /\ tx' = [tx EXCEPT ![a] = IF Covered((grants \ @.deleted) \cup @.inserted)
                               THEN [@ EXCEPT !.phase = "bump"] ELSE NoTx]
    /\ UNCHANGED <<grants, revision, load, current, lastSet, mutations, loadFailures>>

\* UPDATE rbac_revision SET revision = revision + 1: the row is locked.
Bump(a) ==
    /\ In(a, "bump")
    /\ \A b \in Others(a) : tx[b].phase # "commit"
    /\ tx' = [tx EXCEPT ![a].phase = "commit"]
    /\ UNCHANGED <<grants, revision, load, current, lastSet, mutations, loadFailures>>

Commit(a) ==
    /\ In(a, "commit")
    /\ grants' = (grants \ tx[a].deleted) \cup tx[a].inserted
    /\ revision' = revision + 1
    /\ lastSet' = [lastSet EXCEPT ![tx[a].role] = tx[a].perms]
    /\ mutations' = mutations + 1
    /\ tx' = [tx EXCEPT ![a] = [@ EXCEPT !.deleted = {}, !.inserted = {}, !.phase = "refresh"]]
    /\ UNCHANGED <<load, current, loadFailures>>

-----------------------------------------------------------------------------
(* The registries in memory *)

StartLoad(x) == load' = [load EXCEPT ![x] = [grants |-> Unread, revision |-> Unread]]

\* The request that changed the policy refreshes its own instance.
Refresh(a) ==
    /\ In(a, "refresh")
    /\ StartLoad(a)
    /\ tx' = [tx EXCEPT ![a] = NoTx]
    /\ UNCHANGED <<grants, revision, current, lastSet, mutations, loadFailures>>

\* Mutant of Poll: the marker must be larger by one.
Poll_NextOnly(i) ==
    /\ load[i] = NoTx
    /\ revision = current[i].revision + 1
    /\ StartLoad(i)
    /\ UNCHANGED <<grants, revision, tx, current, lastSet, mutations, loadFailures>>

\* An instance polls the revision and loads when it is not the one it serves.
\* (A poll that finds the same revision does nothing.)
Poll(i) ==
    /\ load[i] = NoTx
    /\ revision # current[i].revision
    /\ StartLoad(i)
    /\ UNCHANGED <<grants, revision, tx, current, lastSet, mutations, loadFailures>>

\* The queries of loadData run side by side, each on its own.
ReadGrants(x) ==
    /\ load[x] # NoTx
    /\ load[x].grants = Unread
    /\ load' = [load EXCEPT ![x].grants = grants]
    /\ UNCHANGED <<grants, revision, tx, current, lastSet, mutations, loadFailures>>

ReadRevision(x) ==
    /\ load[x] # NoTx
    /\ load[x].revision = Unread
    /\ load' = [load EXCEPT ![x].revision = revision]
    /\ UNCHANGED <<grants, revision, tx, current, lastSet, mutations, loadFailures>>

\* All are answered: the registry is replaced.
Publish(x) ==
    /\ load[x] # NoTx
    /\ load[x].grants # Unread
    /\ load[x].revision # Unread
    /\ current' = [current EXCEPT ![HomeOfLoader(x)] = load[x]]
    /\ load' = [load EXCEPT ![x] = NoTx]
    /\ UNCHANGED <<grants, revision, tx, lastSet, mutations, loadFailures>>

\* A query fails: the last registry stays.
FailLoad(x) ==
    /\ load[x] # NoTx
    /\ loadFailures > 0
    /\ loadFailures' = loadFailures - 1
    /\ load' = [load EXCEPT ![x] = NoTx]
    /\ UNCHANGED <<grants, revision, tx, current, lastSet, mutations>>

-----------------------------------------------------------------------------
Mutate(a) == Delete(a) \/ Insert(a) \/ Check(a) \/ Bump(a) \/ Commit(a) \/ Refresh(a)

LoadStep(x) == ReadGrants(x) \/ ReadRevision(x) \/ Publish(x)

PolicyNext ==
    \/ \E a \in Admin : Mutate(a) \/ \E r \in Role, ps \in SUBSET Perm : BeginTx(a, r, ps)
    \/ \E i \in Instance : Poll(i)
    \/ \E x \in Loader : LoadStep(x) \/ FailLoad(x)

PolicySpec == PolicyInit /\ [][PolicyNext]_policyVars

\* Requests go on, queries are answered or fail, the poll timer ticks.
PolicyFairness ==
    /\ \A a \in Admin : WF_policyVars(Mutate(a))
    /\ \A i \in Instance : WF_policyVars(Poll(i))
    /\ \A x \in Loader : WF_policyVars(LoadStep(x))

PolicyFairSpec == PolicySpec /\ PolicyFairness

-----------------------------------------------------------------------------
(* Properties *)

\* Every variable has its type.
PolicyTypeOK ==
    /\ grants \subseteq Grant
    /\ revision \in Nat
    /\ tx \in [Admin -> Tx \cup {NoTx}]
    /\ load \in [Loader -> Loading \cup {NoTx}]
    /\ \A i \in Instance : current[i].revision \in Nat /\ current[i].grants \subseteq Grant
    /\ lastSet \in [Role -> SUBSET Perm]

\* Every instance at last serves a registry of the newest revision, though
\* loads overlap, finish in any order and fail.
RevisionCatchesUp == \A i \in Instance : <>[](current[i].revision = revision)

\* Every critical permission is granted to some role, as rbac-admin.service.ts
\* says: a change that would orphan one is rolled back.
CriticalCovered == Covered(grants)

\* With one administrator at a time, a role's grants are what the last committed
\* request for it asked for, also when requests before it were rolled back.
RoleIsAsSet == \A r \in Role : grants \cap Of(r, Perm) = Of(r, lastSet[r])

\* rbac-admin.service.ts says that every instance converges: to the policy, and
\* not only to its revision.
EveryInstanceConverges == \A i \in Instance : <>[](current[i].grants = grants)

=============================================================================
