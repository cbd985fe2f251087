------------------------------- MODULE MCDbMcp -------------------------------
(***************************************************************************)
(* Small instance of DbMcp for TLC: two runs of two owners, one of whom    *)
(* may read sales besides actions, queries that are refused for each       *)
(* reason, and a join.                                                     *)
(***************************************************************************)
EXTENDS DbMcp

MCRun == {"ra", "rb"}

MCSnapshotOf ==
    [r \in MCRun |->
       IF r = "ra" THEN [owner |-> "alice",
                         permissions |-> {"create-agent-run", "read-actions", "read-sales"}]
                   ELSE [owner |-> "bob", permissions |-> {"create-agent-run", "read-actions"}]]

MCQuery ==
    {[kind |-> "select", relations |-> {"my_assigned_actions"}],
     [kind |-> "select", relations |-> {"my_assigned_actions", "sales"}],
     [kind |-> "select", relations |-> {"public.users"}],
     [kind |-> "update", relations |-> {"sales"}]}

MCStored ==
    {[view |-> "my_assigned_actions", owner |-> "alice", width |-> 2],
     [view |-> "my_assigned_actions", owner |-> "bob", width |-> 1],
     [view |-> "sales", owner |-> "alice", width |-> 1]}

\* A sale alone is beyond the byte budget of the instance.
MCWide == {[r EXCEPT !.width = IF r.view = "sales" THEN 9 ELSE @] : r \in MCStored}

=============================================================================
