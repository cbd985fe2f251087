--------------------------- MODULE AgentRegistry ---------------------------
(***************************************************************************)
(* The table of A2A agents the orchestrator routes to, and its writers:    *)
(* heartbeats of the agents' own replicas (gateway.py), operators through  *)
(* the gateway and the admin API, and the periodic sweep that fetches the  *)
(* cards of the agents operators onboarded (admin_agents.py).              *)
(*                                                                         *)
(* A handler reads in one step and writes in a later one, by the row's     *)
(* name; a sweep reads all its rows, fetches card after card, and then     *)
(* writes, of each row, the columns it changed.  URLs, cards and skills    *)
(* are left out: an agent is one host that answers or does not.            *)
(***************************************************************************)
EXTENDS Naturals

CONSTANTS
    Agent,         \* names
    Handler,       \* requests the gateway and the API handle at a time
    Sweeper,       \* sweeps that run at a time
    Threshold,     \* admin_agent_unreachable_threshold
    Seeded,        \* the SQL analyst, unless a2a_registry_seed_sql_analyst is off
    OnboardModes,  \* values of "enabled" operators onboard agents with
    MaxOps,        \* bound: what operators do
    MaxTurns,      \* bound: hosts going down or up, replicas starting or ending
    NoRow

Row == [source : {"self", "admin"}, enabled : BOOLEAN,
        status : {"onboarded", "disabled", "unreachable"},
        failures : 0..Threshold, live : BOOLEAN]

ASSUME RegistryAssumption ==
    /\ Threshold \in Nat \ {0}
    /\ Seeded \subseteq Agent
    /\ OnboardModes \subseteq BOOLEAN
    /\ {MaxOps, MaxTurns} \subseteq Nat
    /\ NoRow \notin Row

VARIABLES
    row,       \* [Agent -> Row \cup {NoRow}]: the table
    running,   \* agents with a replica that sends heartbeats
    up,        \* agents whose host serves a usable card
    request,   \* [Handler -> Request]: what each handler has read
    sweep,     \* [Sweeper -> Sweep]: rows a sweep read and fetched
    wish,      \* [Agent -> what an operator last did to the row]
    budget

registryVars == <<row, running, up, request, sweep, wish, budget>>

Op      == {"register", "deregister", "onboard", "onboard_off", "enable", "disable", "remove"}
NoRequest == [op |-> "idle"]
Resting == [phase |-> "resting"]

SelfRow     == [source |-> "self", enabled |-> TRUE, status |-> "onboarded",
                failures |-> 0, live |-> TRUE]
AdminRow(e) == [SelfRow EXCEPT !.source = "admin", !.enabled = e]

Exists(n)   == row[n] # NoRow
IsAdmin(r)  == r # NoRow /\ r.source = "admin"

\* load_registry_from_store takes the row into the routing table.
Listed(n) ==
    /\ Exists(n)
    /\ IF row[n].source = "self" THEN row[n].live
       ELSE row[n].enabled /\ row[n].status = "onboarded"

\* Nothing is listed: the statically configured analyst stands in.
StandsIn(n) == n \in Seeded /\ \A m \in Agent : ~Listed(m)

\* The orchestrator has the agent in its routing table.
Routed(n) == Listed(n) \/ StandsIn(n)

RegistryInit ==
    /\ row = [n \in Agent |-> NoRow]
    /\ running = {}
    /\ up \in SUBSET Agent
    /\ request = [h \in Handler |-> NoRequest]
    /\ sweep = [s \in Sweeper |-> Resting]
    /\ wish = [n \in Agent |-> "none"]
    /\ budget = [op |-> MaxOps, turn |-> MaxTurns]

-----------------------------------------------------------------------------
(* The agents *)

Turn == /\ budget.turn > 0
        /\ budget' = [budget EXCEPT !.turn = @ - 1]

\* The host goes down or comes back.
Toggle(n) ==
    /\ Turn
    /\ up' = IF n \in up THEN up \ {n} ELSE up \cup {n}
    /\ UNCHANGED <<row, running, request, sweep, wish>>

Start(n) ==
    /\ Turn
    /\ running' = running \cup {n}
    /\ UNCHANGED <<row, up, request, sweep, wish>>

\* A replica ends without a word, or its DELETE does not arrive.
Kill(n) ==
    /\ Turn
    /\ running' = running \ {n}
    /\ UNCHANGED <<row, up, request, sweep, wish>>

\* The row's last_seen_at falls behind the TTL.
Expire(n) ==
    /\ Exists(n)
    /\ row[n].live
    /\ row' = [row EXCEPT ![n].live = FALSE]
    /\ UNCHANGED <<running, up, request, sweep, wish, budget>>

-----------------------------------------------------------------------------
(* Requests: what they read, and what they write *)

BeginRequest(h, op, n) ==
    /\ request[h] = NoRequest
    /\ request' = [request EXCEPT ![h] = [op |-> op, name |-> n, seen |-> row[n]]]

\* A replica announces itself when it starts and at each heartbeat.
Heartbeat(h, n) ==
    /\ n \in running
    /\ BeginRequest(h, "register", n)
    /\ UNCHANGED <<row, running, up, sweep, wish, budget>>

\* A replica is stopped and sends DELETE; another may go on.
Stop(h, n) ==
    /\ n \in running
    /\ Turn
    /\ running' \in {running, running \ {n}}
    /\ IF Exists(n) THEN BeginRequest(h, "deregister", n) ELSE UNCHANGED request
    /\ UNCHANGED <<row, up, sweep, wish>>

\* requireAdminSourceRow: the other requests of operators find an operator's row.
RequireAdminSourceRow(n) == IsAdmin(row[n])

\* The orchestrator onboards a host that serves a card, under a name that no
\* self-registered agent has.
MayOnboard(n) == n \in up /\ (Exists(n) => IsAdmin(row[n]))

\* An operator's request passes its checks.
Operate(h, op, n) ==
    /\ budget.op > 0
    /\ CASE op = "onboard"     -> MayOnboard(n) /\ TRUE \in OnboardModes
         [] op = "onboard_off" -> MayOnboard(n) /\ FALSE \in OnboardModes
         [] OTHER              -> RequireAdminSourceRow(n)
    /\ BeginRequest(h, op, n)
    /\ budget' = [budget EXCEPT !.op = @ - 1]
    /\ UNCHANGED <<row, running, up, sweep, wish>>

\* Mutant of Registered: only a request that saw no row may write one.
Registered_NeverInserts(seen, now) ==
    IF now = NoRow THEN NoRow ELSE [now EXCEPT !.live = TRUE]

\* The row after a registration: an INSERT that yields to a row that came in
\* between, or an UPDATE that fails when the row went in between.
Registered(seen, now) ==
    IF now # NoRow THEN [now EXCEPT !.live = TRUE]
    ELSE IF seen = NoRow THEN SelfRow ELSE NoRow

\* The row after the admin API's UPDATE of a name.
Enabled(now, e) ==
    IF now = NoRow THEN NoRow
    ELSE [now EXCEPT !.enabled = e, !.status = IF e THEN "onboarded" ELSE "disabled"]

\* The write of a request.
Finish(h) ==
    LET q == request[h]
        n == q.name
        After(r, w) == row' = [row EXCEPT ![n] = r] /\ wish' = [wish EXCEPT ![n] = w]
    IN
    /\ q # NoRequest
    /\ \/ q.op = "register"    /\ After(Registered(q.seen, row[n]), wish[n])
       \/ q.op = "deregister"  /\ After(NoRow, wish[n])
       \/ q.op = "onboard"     /\ After(AdminRow(TRUE), "on")
       \/ q.op = "onboard_off" /\ After(AdminRow(FALSE), "off")
       \/ q.op = "enable"      /\ After(Enabled(row[n], TRUE), "on")
       \/ q.op = "disable"     /\ After(Enabled(row[n], FALSE), "off")
       \/ q.op = "remove"      /\ After(NoRow, "removed")
    /\ request' = [request EXCEPT ![h] = NoRequest]
    /\ UNCHANGED <<running, up, sweep, budget>>

-----------------------------------------------------------------------------
(* The sweep *)

\* Mutant of SweepRead: an agent found unreachable is not looked at again.
SweepRead_OnboardedOnly(s) ==
    LET names == {n \in Agent : IsAdmin(row[n]) /\ row[n].enabled /\ row[n].status = "onboarded"} IN
    /\ sweep[s] = Resting
    /\ names # {}
    /\ sweep' = [sweep EXCEPT ![s] = [phase |-> "fetching",
                    seen |-> [n \in names |-> row[n]], got |-> [n \in {} |-> TRUE]]]
    /\ UNCHANGED <<row, running, up, request, wish, budget>>

\* The sweep loads the enabled rows of operators.  (One that finds none ends.)
SweepRead(s) ==
    LET names == {n \in Agent : IsAdmin(row[n]) /\ row[n].enabled} IN
    /\ sweep[s] = Resting
    /\ names # {}
    /\ sweep' = [sweep EXCEPT ![s] = [phase |-> "fetching",
                    seen |-> [n \in names |-> row[n]], got |-> [n \in {} |-> TRUE]]]
    /\ UNCHANGED <<row, running, up, request, wish, budget>>

\* It fetches the next card.
Fetch(s) ==
    /\ sweep[s] # Resting
    /\ \E n \in DOMAIN sweep[s].seen \ DOMAIN sweep[s].got :
          sweep' = [sweep EXCEPT ![s].got =
              [m \in {n} \cup DOMAIN @ |-> IF m = n THEN n \in up ELSE @[m]]]
    /\ UNCHANGED <<row, running, up, request, wish, budget>>

\* Mutant of Swept: the row is saved as it was read.
Swept_WholeRow(seen, now, ok) ==
    IF ok THEN [seen EXCEPT !.live = TRUE, !.failures = 0, !.status = "onboarded"]
    ELSE [seen EXCEPT !.failures = IF @ < Threshold THEN @ + 1 ELSE @,
                      !.status = IF seen.failures + 1 >= Threshold THEN "unreachable" ELSE @]

\* Mutant of Swept: failures are noted and nothing follows.
Swept_NeverTrips(seen, now, ok) ==
    IF ok THEN [now EXCEPT !.live = TRUE, !.failures = 0]
    ELSE [now EXCEPT !.failures = IF seen.failures < Threshold THEN seen.failures + 1 ELSE Threshold]

\* The row after the sweep's UPDATE: columns set to the value they were read
\* with are not written.  (The count stops at the threshold here.)
Swept(seen, now, ok) ==
    LET failures == IF seen.failures < Threshold THEN seen.failures + 1 ELSE Threshold
        status   == IF ok THEN "onboarded"
                    ELSE IF failures = Threshold THEN "unreachable" ELSE seen.status
        new      == [now EXCEPT !.status = IF status = seen.status THEN @ ELSE status]
    IN  IF ok THEN [new EXCEPT !.live = TRUE, !.failures = IF seen.failures = 0 THEN @ ELSE 0]
        ELSE [new EXCEPT !.failures = failures]

\* One commit; an UPDATE of a row that is gone undoes all of it.
SweepCommit(s) ==
    LET seen == sweep[s].seen IN
    /\ sweep[s] # Resting
    /\ DOMAIN sweep[s].got = DOMAIN seen
    /\ row' = IF \E n \in DOMAIN seen : ~Exists(n) THEN row
              ELSE [n \in Agent |-> IF n \in DOMAIN seen
                                    THEN Swept(seen[n], row[n], sweep[s].got[n]) ELSE row[n]]
    /\ sweep' = [sweep EXCEPT ![s] = Resting]
    /\ UNCHANGED <<running, up, request, wish, budget>>

-----------------------------------------------------------------------------
RegistryNext ==
    \/ \E n \in Agent : Toggle(n) \/ Start(n) \/ Kill(n) \/ Expire(n)
    \/ \E h \in Handler, n \in Agent :
          \/ Heartbeat(h, n) \/ Stop(h, n)
          \/ \E op \in Op \ {"register", "deregister"} : Operate(h, op, n)
    \/ \E h \in Handler : Finish(h)
    \/ \E s \in Sweeper : SweepRead(s) \/ Fetch(s) \/ SweepCommit(s)

RegistrySpec == RegistryInit /\ [][RegistryNext]_registryVars

\* Requests are finished; replicas send heartbeats; beat starts sweeps, whose
\* fetches have a timeout; time passes.
RegistryFairness ==
    /\ \A h \in Handler : WF_registryVars(Finish(h))
    /\ \A n \in Agent : SF_registryVars(\E h \in Handler : Heartbeat(h, n)) /\ WF_registryVars(Expire(n))
    /\ \A s \in Sweeper : WF_registryVars(SweepRead(s) \/ Fetch(s) \/ SweepCommit(s))

RegistryFairSpec == RegistrySpec /\ RegistryFairness

-----------------------------------------------------------------------------
(* Properties *)

\* Every variable has its type.
RegistryTypeOK ==
    /\ row \in [Agent -> Row \cup {NoRow}]
    /\ running \subseteq Agent /\ up \subseteq Agent
    /\ request \in [Handler -> {NoRequest} \cup [op : Op, name : Agent, seen : Row \cup {NoRow}]]
    /\ \A s \in Sweeper : sweep[s] # Resting =>
          /\ sweep[s].seen \in [DOMAIN sweep[s].seen -> Row]
          /\ DOMAIN sweep[s].got \subseteq DOMAIN sweep[s].seen
    /\ wish \in [Agent -> {"none", "on", "off", "removed"}]

\* Of an operator's row operators have the last word: it is enabled or not as one of
\* them last asked, and a row that was removed does not come back as an operator's,
\* whatever heartbeats and sweeps that read the row before write after.  (The agent's
\* own DELETE takes an operator's row with it: see OnlyOperatorsRemove.)
OperatorsLastWord ==
    \A n \in Agent : IsAdmin(row[n]) =>
        /\ wish[n] \in {"on", "off"}
        /\ row[n].enabled <=> wish[n] = "on"

\* An agent an operator onboarded whose host stays down is at last not in the table
\* by its row, though sweeps overlap, fail, and write counts they read before.
DeadAgentLeaves ==
    \A n \in Agent : <>[](n \notin up) => <>[](~(Listed(n) /\ IsAdmin(row[n])))

\* An operator's enabled agent whose host stays up is at last routed to by its row,
\* also when it was found unreachable before.
LiveAgentReturns ==
    \A n \in Agent : <>[](n \in up /\ IsAdmin(row[n]) /\ row[n].enabled) => <>[]Listed(n)

\* A self-registered agent is followed: with a replica that sends heartbeats it
\* is listed again and again, though another replica of that name was stopped
\* and deleted its row; without one it is at last routed to only as the analyst
\* that stands in for an empty table.
ReplicasAreFollowed ==
    \A n \in Agent :
        /\ <>[](n \in running /\ ~IsAdmin(row[n])) => []<>Listed(n)
        /\ <>[](n \notin running /\ ~IsAdmin(row[n])) => <>[](Routed(n) => StandsIn(n))

-----------------------------------------------------------------------------
(* What the repository says of the program, and races refute *)

\* gateway.py says that an admin row never overwrites a self-registered agent.
SelfRowKept ==
    [][\A n \in Agent : Exists(n) /\ row[n].source = "self" => ~IsAdmin(row'[n])]_registryVars

\* admin-agent.repository.ts says that the status mirrors the enabled flag: an
\* agent an operator disabled is shown as disabled.
DisabledShowsDisabled ==
    \A n \in Agent : wish[n] = "off" /\ IsAdmin(row[n]) => row[n].status = "disabled"

\* admin_agents.py says that an admin decides when an operator's row is deleted.  But
\* the gateway's DELETE, which a replica that stops sends, takes any row of the name;
OnlyOperatorsRemove ==
    [][\A n \in Agent : IsAdmin(row[n]) /\ row'[n] = NoRow => wish'[n] = "removed"]_registryVars

\* so a disabled agent whose replica restarts is back as a self-registered one.
DisabledStaysOut == \A n \in Agent : wish[n] = "off" => ~Listed(n)

=============================================================================
