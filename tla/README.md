# Nova: a TLA+ verification project

Nova answers questions and performs actions for business users through AI
agents. The control plane is a Node/TypeScript API over two PostgreSQL
databases, with Keycloak for identities; the execution plane is Python: a Celery
worker that runs a LangGraph orchestration, and A2A agents it delegates hops to.
Agents act through the API's tool gateway and read through a data server. The
browser follows a run over a stream of events. This directory models these parts,
checks them with TLC on small instances, and proves the central ones with TLAPS
for every value of their constants.

Run a check with `tlc -config <cfg> <MC module>.tla`, a proof with
`tlapm <module>_proofs.tla`.

Path prefixes used below:
`ORCH` = `src/agents/orchestrator/src/nova_orchestrator`,
`ANA` = `src/agents/at-sql-analyser/src/at_sql_analyser`,
`API` = `src/backend-services/api/src`, `AR` = `API/modules/agent-runs`,
`MCP` = `src/backend-services/db-mcp-server/src`,
`SHARED` = `src/backend-services/packages/shared/src`,
`DB` = `src/backend-services/packages/database/src`,
`WEB` = `src/frontend/web/src`.

## 1. Inventory

| Component | State it keeps | Operations | Modules |
|---|---|---|---|
| Agent-run lifecycle: `ORCH/tasks.py`, `graph.py`, `celery_app.py` | `agent_runs`, `agent_steps`, the broker's queue, each worker's graph state | enqueue, cancel, deliver, redeliver, process, dispatch a hop, record it, finalize | `RunLifecycle`, `AgentRun`, `AgentRun_proofs` |
| Run submission: `AR/agent-run.service.ts`, `API/modules/chat` | runs by idempotency key, conversations and messages in a second database | submit, find, open a conversation, store the prompt, insert, hand over | `RunSubmission`, `ChatPage` |
| Event ledger: `ORCH/events.py`, `graph.py` (stream sink) | `agent_run_events`, the run's advisory lock | append in a locked transaction, append from the stream, backfill from the artifact | `RunLog`, `EventLedger`, `EventLedger_proofs` |
| Event stream: `AR/agent-run.controller.ts`, `WEB/features/chat` | the handler's cursor, polls under way, the client's cursor and list | connect, poll, send, close, reconnect | `EventStream`, `ChatPage_proofs` |
| Chat page: `WEB/features/chat/AgentChatPage.tsx`, `traceModel.ts` | the pending turn, the run that is followed, the trace | send, retry, turn away, follow, fold events into a trace | `ChatPage`, `ChatPage_proofs`, `AgentTrace`, `EventLedger_proofs` |
| Webhook outbox: `ORCH/webhooks.py` | `webhook_deliveries`, row locks, attempts | enqueue, claim, group, post, back off, give up, commit | `WebhookOutbox`, `WebhookOutbox_proofs` |
| Agent registry: `ORCH/gateway.py`, `agents.py`, `admin_agents.py`, `ANA/registration.py`, `API/modules/admin-agents` | `a2a_agent_registrations`, the routing table derived from it | register, heartbeat, deregister, onboard, enable, disable, remove, sweep | `AgentRegistry`, `Administration_proofs` |
| RBAC policy: `API/modules/admin/rbac-admin.service.ts`, `API/rbac` | roles, permissions, grants, capabilities, routes, views, revision; each instance's registry; realm roles | every mutation, coverage check, bump, refresh, poll, reconcile, seed | `RbacPolicy`, `Administration_proofs`, `RbacCatalog`, `RbacCatalog_proofs` |
| Shipped policy: `SHARED/rbac`, the routers, `API/app.ts`, `API/auth` | none: tables in code | authenticate, authorize | `AccessCatalog`, `ApiSurface`, `ToolGateway_proofs` |
| Tool gateway and business services: `AR/tool-gateway.service.ts`, `capability-executor.ts`, `API/modules/{sales,issues,actions,sops,...}` | snapshots, audit rows, the business tables | authorize a call, execute a capability, audit it; the same over REST | `ToolGateway`, `Receipt`, `ToolGateway_proofs` |
| Users and Keycloak: `admin-user.service.ts`, `keycloak-provisioning.service.ts`, `current-user.ts` | profiles and their roles, accounts and their realm roles | first request, create, update, set roles, reconcile | `UserProvisioning`, `Administration_proofs` |
| Analyst agent: `ANA/harness`, `server.py`, `authz`, `tools/capability_client.py` | one task's graph state, the process-wide policy | plan, dispatch, criticize, propose writes, force a step, compose | `AnalystHarness`, `Analyst_proofs` |
| Data server: `MCP` | sessions, pooled connections, the service token | open, query, wait, answer, close, restart | `DbMcp`, `Analyst_proofs` |
| Seeds: `DB/seeds` | the tables they fill | seed, on every start | `SeedData`, `RbacCatalog`, `RbacCatalog_proofs` |
| Conversation history, prompts, telemetry, infrastructure | a Redis stream, none, none, none | - | not modelled (section 6) |

`PROJECT.json` lists all components with their files and status.

How they interact. The chat page posts a submission under a key.
`POST /agent-runs` stores a message in one database, inserts the run and its
entitlement snapshot in the other, then asks the orchestrator's gateway to
publish the run's id. Celery hands the id to a worker, with late
acknowledgement: a lost worker, or a visibility timeout, delivers it again. The
worker walks a graph of short transactions, each under the run's advisory lock,
and makes its model and A2A calls between them holding nothing. While a call is
out the agent pushes frames that the worker persists from a callback, without
the lock. The browser polls the ledger through the API; a dispatcher drains an
outbox of webhook rows committed with the events. The analyst agent reads
through the data server, which fetches the run's snapshot once a session, and
writes through the API's tool gateway, which checks the snapshot and the policy
on every call. The policy is edited by administrators, cached by every API
instance, mirrored to Keycloak, and seeded on every start.

What is hard. The system never holds a lock across a network call, so nearly
every handler reads in one step and writes in a later one; every queue is
at-least-once; several things are done in two databases, or in a database and a
remote service; several caches (policy, routing table, registry, token,
snapshot) follow a table by polling or not at all. The 40 hazards in
`PROJECT.json` name the lines where that bites, and the properties that catch it.

What makes each component correct:

* run lifecycle - no hop is sent twice, a terminal status is final and agrees
  with the log, an enqueued run ends, only completed runs enter the history;
* submission - one run for a person and a key, with its prompt in a
  conversation of its owner's;
* ledger - dense numbers committed in order, each sub-event once, none missing
  from a completed call, nobody waits for ever, and a faithful trace of it;
* stream - the page shows a prefix of the visible ledger, and gets to its end;
* outbox - an event whose acceptance was heard of is not sent again while
  dispatchers survive, settled rows stay so, everything settles;
* registry - an operator's row is as an operator last asked, routing follows the
  agents;
* policy - administrators are never locked out, routes are as set, every
  instance catches up, realm roles mirror roles;
* gateway - nobody gets more done through an agent than over REST, the audit
  trail is true, versions are never lost, receipts are right;
* users - a person is one profile; "synced" is true of the roles, and of whether the
  person may log in unless a creation found an account;
* harness - nothing unentitled reaches the gateway, the loop ends by its own
  budgets, a write task does not claim completion when nothing was executed;
* data server - an answer holds only the session's own rows, all of them unless
  it says otherwise, and every query is answered.

## 2. Plan

Order of the modules, the most important behaviour first; all of them exist.

1. `RunLifecycle` (abstract) and `AgentRun`, which refines it.
2. `RunLog` (abstract) and `EventLedger`, which refines it; `AgentTrace` extends
   `EventLedger` with the browser's view of it.
3. `EventStream`, which extends `RunLog`: the browser is checked against what
   the ledger promises and not against its implementation.
4. `RunSubmission`; `ChatPage` composes it with `EventStream`.
5. `WebhookOutbox`, `AgentRegistry`, `RbacPolicy`, `AnalystHarness`.
6. `AccessCatalog`, the tables of the shipped policy; `ToolGateway`, `DbMcp` and
   `ApiSurface` extend it, `ToolGateway` also `Receipt`.
7. `RbacCatalog`, `UserProvisioning`, `SeedData`.
8. The proofs of section 5.

What is left, in the order of its worth: the SQL validator over small parse trees
against a reference definition; the parallel reads and appends of the conversation
history; the rate limiter.

## 3. Modules

**AgentRun.** One action is one transaction or one external call with its
effect. The control plane: `CreateRun`, `Enqueue` / `LoseEnqueue`,
`ReadForCancel` / `WriteCancel` (cancelRun decides on a row it read earlier),
`Expire` (the snapshot). The broker: `Receive`, `Crash` (a lost worker's
message comes back), `Redeliver` (while the worker still runs). The worker:
`ProcessRun` (tasks.py), then the nodes of graph.py: `LoadContext`, `Reason`,
`Dispatch` (stop, skip, refuse, or begin a step), `SendTask`, `RecordStep`,
`Critique`, `PostAnswer`, `Complete`, `RecordTurn`, `Ack`; `TaskError` is an
exception nothing catches. The model's decisions are free choices. A step's
idempotency key is its capability and ordinal, as in graph.py.

**RunLifecycle** is what that amounts to for one run: a status that only moves
forward, hops that are begun, sent and settled at most once each, and turns of
completed runs. The refinement mapping reads a hop's fate off its step row and
its send count.

**EventLedger** looks into one append: lock or not, read the largest number,
insert (which waits for the unique index), commit or conflict. A task that
returns, completed or not, has its artifact's sub-events backfilled in the
transaction that reports it (`Artifact`, `Missing`); one that raises has none. Its sequence
numbers refine **RunLog**, an append-only log; `Ledger` maps a hole to a value
`RunLog` does not have, so density is part of the refinement. **AgentTrace** is
traceModel.ts over the rows that `EventLedger` committed, as a fold: a call is
opened, given its sub-steps and closed by types alone, because no event names
its call.

**EventStream** takes `RunLog` as its producer:
`StartPoll`/`ReadRun`/`ReadEvents`/`Send` are the poll of the controller, several
of them at a time over one cursor; `Receive` is the client's handling of frames,
`ToggleDetail` and `StartOver` begin the stream anew.

**RunSubmission** is createRun as its awaited statements (`FindRun`,
`OpenConversation`, `AddMessage`, `CreateRun`, `Enqueue`), a request being the
row it has in hand; `Taken` is the unique index. **ChatPage** composes it with
`EventStream`: `SendMessage`, `Retry`, `Accepted`, `Failed` and `SetActive` are the
page's callbacks, `Duplicate` a submission that arrives twice, `Stream` a step of
the stream of the run it follows. A callback uses the page as it was drawn when
it was made (`Redraw`).

**WebhookOutbox**: `Claim` takes due rows under row locks, oldest first (`turn` is
a row's place by `next_attempt_at`); `OpenGroup` reads a destination's
configuration once and begins its rows, but for those whose event is gone,
which are dead letters; `SendChunk` posts the next chunk of them and notes the
answer in memory. A receiver may have accepted what its dispatcher takes for a
transport error (the answer "lost": httpx waits 15 seconds, webhook_tasks.py:16); `DropGroup` handles a destination whose
configuration is not active; `Commit` writes everything; `Crash` writes nothing.

**AgentRegistry**: a request reads (`Heartbeat`, `Stop`, `Operate`) and writes
(`Finish`) in two steps; a sweep reads rows, fetches cards one by one, and
commits the columns it changed, by value. `wish` records what an operator
last asked, and nothing an agent does changes it. `Routed` is the routing table
of load_registry_from_store: the rows that are `Listed`, or else the SQL analyst
of the configuration (`StandsIn`), which is there by default.

**RbacPolicy**: `BeginTx`, `Delete`, `Insert`, `Check`, `Bump`, `Commit`, `Refresh`
are the statements of one READ COMMITTED transaction and what follows it;
`Poll`, `ReadGrants`, `ReadRevision`, `Publish`, `FailLoad` one load.
**RbacCatalog** has all the tables and every operation of the administration
(`Check`, then `Write`, where the constraints of the migration decide, then
`Refresh`, `Mirror` to Keycloak, `StoreId`), the boot of an instance
(`Start`, `Reconcile`, `Crash`), `Seed`, and `Assign`, a sign-in that creates a realm
role. `asSet` records what an administrator last asked of a route.

**AccessCatalog** holds the permission, role, route, capability and view tables,
with `OperationsOf`, what the executor of a capability calls. **ApiSurface** adds
every other route, whom each authenticates (`Authenticates`, `AdmitsService`) and
what `authorize` makes of the policy in force (`Respond`).

**ToolGateway**: a request of a worker passes `Verify` or `Deny`, then the steps of
the business service (`Lookup*`, the write, `ReadVersions`/`LockVersions`/
`InsertVersion` for a SOP), then `Audit`; one of a person passes its route's
permission and the same steps. `Expire`, `Disable` and `Fail` strike in between.
**Receipt** is the money of a sale: the API's integers, the column's rounding, and
what the form's floating point may show.

**UserProvisioning**: first requests (`FindByKeycloakId`, `FindByEmail`,
`LinkKeycloakId`, `CreateProfile`, `SeedRoles`), the administrator's requests
(`CheckTaken`, `StoreUser`, `StoreRoles`, `StoreUpdate`, `StoreNewRoles`) and the
reconciliation (`FindUserByUsername`, `CreateAccount`, `SetUserEnabled`,
`ReadRealmRoles`, `AddRealmRoles`, `RemoveRealmRoles`, `LinkAccount`, `Show`), any of
which may fail.

**AnalystHarness**: one action per node of the graph; `Stop` is
`evaluate_guards`, `Permitted` the second gate, `Stall` what the harness does
to a model that does not advance. `Outage` and `Restore` are other tasks of the
process acting on the shared policy.

**DbMcp**: a session is opened with the run's snapshot and a service token
(`UseToken`, with its cache); a query is admitted or refused by the views it
names, waits for a connection, sets the owner, reads, and is cut to its limits.

**SeedData**: the seed functions over tables, as operators; the rows' keys,
references, statuses and amounts, without their texts.

The type invariant, the initial states, the steps and the specification are
`TypeOK`, `Init`, `Next` and `Spec` except in `AgentRegistry`, `RbacPolicy` and
`DbMcp`, where they carry the prefix `Registry`, `Policy` or `Mcp`, so that one
module of proofs can extend several of them.

The `MC*` modules give the constants values and name symmetries. An operator
`X_Suffix` above a definition `X` is a mutated form of it, a plausible bug that
the property named beside it in `PROJECT.json` catches.

## 4. Runs

| Run (cfg) | Instance | Shows |
|---|---|---|
| `agentrun_overlap` (`AgentRun_overlap`) | 1 run, 2 workers, 2 steps, 1 crash, 1 redelivery, cancellation and expiry at any time | hops sent once by their owner; status final and in agreement with the log; refinement of `RunLifecycle` |
| `agentrun_ends` (`AgentRun_ends`) | 3 capabilities (allowed, denied, unroutable), 1 redelivery, 1 exception, 1 lost enqueue | an enqueued run ends unless a worker is lost or an exception leaves the task |
| `eventledger_workers` (`EventLedger_workers`) | 2 workers, 2 sub-events each, 1 lost or aborted | refinement of `RunLog`; sub-events once and complete; a faithful trace; transactions end |
| `chat_page` (`ChatPage_browser`) | 2 submissions, 1 delivered twice, 1 conversation of another person, 1 turn away; 2 polls at a time, batches of 1, 2 appends, 1 lost connection, 1 toggle | one run per key, its prompt stored in its owner's conversation; the page shows the prefix up to its cursor and reaches the end |
| `webhooks_dispatchers` (`WebhookOutbox_live`) | 2 rows of 2 destinations, 2 dispatchers, 2 attempts, 1 lost, 1 disabled, any events gone | an acceptance heard of is not sent again, settled is final, every delivery settles |
| `registry_requests` (`AgentRegistry_requests`) | 1 agent, the seeded analyst, 2 handlers, 2 sweeps, threshold 2, 2 operator requests, 2 turns | an operator's row is as last asked, dead agents' rows leave the table, live ones return, replicas are followed |
| `rbac_admin` (`RbacPolicy_admin`) | 2 roles, 2 permissions, 1 critical, 2 instances, 2 changes, 1 failed load | coverage, roles as set, catching up |
| `rbac_catalog` (`RbacCatalog_requests`) | 2 administrators on 2 instances, 1 seeded and 1 made of each kind, 2 requests, 1 fault | routes are as set, also when the permission they require is deleted beside; realm roles mirror roles |
| `gateway_calls` (`ToolGateway_calls`) | 2 requests at a time of a run's worker and of persons, over every write and a read of each domain, 1 expiry or disabled capability | no more than over REST, a true audit trail, versions only appended, right receipts |
| `users_profiles` (`UserProvisioning_profiles`) | 2 requests at a time, 2 addresses, 1 seeded profile, 1 imported account that is enabled or not, 2 administrative requests, 1 failure | a person is one profile; "synced" is exact |
| `harness_task` (`AnalystHarness_task`) | 2 reads, 2 writes, 1 tool, 4 iterations, 3 queries, 1 outage | the gate; no completed write task of which nothing was executed while the policy stays loaded |
| `data_sessions` (`DbMcp_sessions`) | 2 runs of 2 owners, 2 sessions, 1 connection, 4 kinds of query, 1 expiry, 1 restart | own rows only, uncut is complete, every query is answered |

Two MC modules also evaluate the shipped tables, over every route, role and
capability, when they start: `SurfaceHolds` in `MCToolGateway` (declared
policies are seeded permissions; no binding lets a request without a user's
token in; a capability is within its routes; the two ways of asking for a
capability agree; who may write a view has a capability that writes) and
`SeedHolds` in `MCRbacCatalog` (totals agree with prices; seeding twice is
seeding once, over a fresh database and one in use; references hold and
dependencies stay within an issue).

Why the bounds are enough. Runs share nothing but workers and the queue, so one
run with two workers has every collision; two workers are what one lost or
overtaken delivery gives, and a third finds what the second found. Two steps
let a step collide with its own key, with the other worker's, and with an
exhausted budget. Two sub-events, a start and an end, can be streamed, dropped or
backfilled independently. Two appends of up to two rows, with batches of one,
leave the response ending with rows unsent. Two submissions are a message and
its retry; a duplicate of one of them is the race on the index. Two webhook rows
of two destinations give a second group after the first was posted; two attempts
a first, a last and a settled one; chunks of more than one row of a destination
share one answer, and the instance has none. Threshold 2 separates a counted
failure from a tripped one. A harness budget of 4 and 3 leaves room for both
kinds of no-progress and for either budget to be the one that stops. Two
requests at a time are every overlap of two multi-step handlers, which read and
write a handful of rows; one connection and two sessions make each wait for the
other. The price of 333 cents and discounts of 50 and 120 percent give a
half cent and a discount beyond the whole.

`CHECK_DEADLOCK FALSE` in every run: each instance has a bounded amount of
work and then rests.

Fairness. `AgentRun`: a created run's enqueue returns, a worker that holds a
task goes on (each external call has a timeout), an idle worker takes a
message. Crashes, errors, redeliveries and cancellations are not fair.
`EventLedger`: an unblocked worker's next statement runs. `ChatPage`: of the
stream that is followed, reads answer, the timer fires, the client reconnects;
nothing is assumed of the user. `WebhookOutbox`: delays pass, beat keeps starting
tasks (some dispatcher claims), a task that claimed rows goes on.
`AgentRegistry`: requests are finished, sweeps proceed, time passes; heartbeats
are strongly fair, because they compete with other requests for a handler and
the server's queue does not starve them. `RbacPolicy`: requests, loads and the
poll timer go on. `DbMcp`: a free connection takes
the session that waits first, and the statements on it go on. The other modules have no liveness
property: the harness's bound `StepsWithinLimit` is a safety property, and
stronger.

Defined, true on the instances above when added to their `.cfg`, and in no run:
the type invariants, `StepsWithinLimit` of the harness, `SucceededWasAccepted` and
`GivesUpLast` of the outbox and `UpdatesKeepTheRest` of the gateway, which section 5
proves; `IntrinsicRolesStay` of the users and `RevisionTellsStale` of the catalog,
whose loads are one step: `RbacPolicy` takes them apart, and there a commit between
two reads of a load refutes `EveryInstanceConverges` (below).

### Known disagreements

What the repository says and the code does not do, met while modelling. Each is
a definition that TLC refutes: add it to the named `.cfg` (with the constants
given, where the instance must differ) in place of its properties. Five `.cfg`
files here are for nothing else: `AgentRun_lost_worker`, `AnalystHarness_outage`,
`DbMcp_wide_row`, `EventLedger_reordered`, `RbacPolicy_skew`.

| Claim | Definition, `.cfg` | What happens |
|---|---|---|
| tasks.py:70, celery_app.py:5 a redelivered task brings its run to an end | `RedeliveredRunEnds`, `AgentRun_lost_worker` | the step row of the lost worker refuses the next one for ever |
| agent-run.service.ts:200 a queued run can be dispatched later | `QueuedRunIsDispatched`, `AgentRun_ends`; `AcceptedIsHanded`, `ChatPage_browser` | nothing dispatches a run whose enqueue failed |
| events.py:158 lifecycle events are emitted once | `LifecycleEventOnce`, `AgentRun_overlap` | a redelivered run repeats `run.accepted` and `run.started` |
| celery_app.py:5 tasks are idempotent | `AnswerOnce`, `TurnOnce`, `AgentRun_overlap` | the answer is posted before the terminal re-check; both holders see "completed" and record the turn |
| graph.py:847 the message can be re-derived from events | `CompletedRunIsAnswered`, `AgentRun_overlap` | no event holds the composed answer |
| agent-run.repository.ts:221 cancel is a no-op on a terminal run | `CancelIsNoOpOnTerminal`, `AgentRun_overlap` | the check is of a row read earlier |
| traceModel.ts:357 each call appears once with its output and status, taken for operations too | `NoOperationRunsOn`, `EventLedger_reordered` | a dropped frame is written after a later one |
| AgentChatPage.tsx:24 a failed run has a terminal frame | `EndedRunStopsPage`, `ChatPage_browser` | a run that fails closed writes none; its page reconnects for ever |
| agentRuns.api.ts:13 a retry never enqueues a duplicate | `RetryNeverDuplicates`, `ChatPage_browser` | every attempt makes its own key (AgentChatPage.tsx:100) |
| the page follows a run of the conversation it shows, and shows as failed what failed | `FollowsWhatItShows` (`MaxSwitches = 3`, `MaxEvents`, `MaxDrops`, `MaxToggles = 0`, `Poll = {p1}`), `FailureIsOwn`, `ChatPage_browser` | a late answer is handled by the callback of an older drawing (:102-118) |
| gateway.py:256 an admin row never overwrites a self-registered one | `SelfRowKept`, `AgentRegistry_requests` | the agent may register between the check and the upsert |
| admin-agent.repository.ts:27 the status mirrors the enabled flag | `DisabledShowsDisabled`, `AgentRegistry_requests` | a sweep in progress writes its own status |
| webhooks.py:149 dispatchers never double-send | `AcceptedOnce` (an invariant), `WebhookOutbox_live` | an event whose 2xx is lost or late is sent again; the receiver has its id to tell the copies by (:19) |
| rbac-admin.service.ts:415 critical permissions stay covered | `CriticalCovered`, `RbacPolicy_skew` | two administrators at a time orphan one |
| admin_agents.py:13 a row is deleted when an admin decides; a disabled agent is not routed to | `OnlyOperatorsRemove` (an action property), `DisabledStaysOut` (an invariant), `AgentRegistry_requests` | the DELETE of a replica that stops takes an operator's row too (gateway.py:328-332); the restarted agent registers itself, enabled |
| rbac-admin.service.ts:60 every instance converges | `EveryInstanceConverges`, `RbacPolicy_admin` | grants read before a commit and the revision after it stay |
| the revision says whether a registry is stale | `RevisionTellsStale` with `SeedsWhileServing = TRUE`, `RbacCatalog_requests` | a seed beside a serving API changes the policy and not the revision |
| seed.ts:481 seeded data is deleted and recreated on request | `SeedSucceeds` with `Resets = TRUE`, `RbacCatalog_requests` | route bindings are not deleted and may hold on to a permission that is |
| a capability is widened only by a request about it; somebody can administer | `CapabilityNeverWidens`, `SomeoneAdministers`, `RbacCatalog_requests` | deleting a permission drops it from what capabilities require; rebinding a route is not checked for coverage |
| sale.schema.ts:55 a payment received has its date | `PaidSalesHaveADate` with `Payments <- PaidOnce`, `ToolGateway_calls` | the schema of the capability does not check it |
| money.ts: the total is the discount off the sum | `ReceiptIsRight` with `Discounts <- ThirdDecimal`, `Price <- HighPrices`, `ToolGateway_calls` | the total is computed with a cut-off discount and recorded with a rounded one |
| a role is taken from an account only when it is set so | `RolesLeaveOnlyWhenSet`, `UserProvisioning_profiles` | any reconciliation removes what Keycloak has and the profile has not |
| user.dto.ts:87 the account is enabled as the profile is active | `SyncedLetsIn`, `UserProvisioning_profiles` | a creation takes over an account that exists (409) and does not enable it |
| graph.py:320 no silent no-op, of writes | `CompletedTaskWrote`, `AnalystHarness_task` | any capability the model lists as a write is executed, a read too, and counts as a completed write |
| graph.py:320 no silent no-op | `NeverSilentNoOp`, `AnalystHarness_outage` | another task clears the policy; the writes are refused, the task completes |
| capability_client.py:6 a replayed mutation is safe | `KeyAppliedOnce` with `MaxTasks = 2`, `AnalystHarness_task` | the gateway does not look at the key |
| limits.ts:22 rows are dropped until the payload fits | `NeverStuck`, `DbMcp_wide_row` | one row beyond the budget is halved to one row for ever |
| limits.ts:13 what is cut is told | `CutIsTold` with `MaxRows = 1`, `DbMcp_sessions` | `truncated` is about bytes only |
| entitlement-snapshot.ts:7 a run acts for its user until the expiry | `NothingAfterExpiry`, `DbMcp_sessions` | the data server reads the snapshot once a session |

Met in the same reading, and stated as theorems or seen in the model without a
definition of their own: a seeding overwrites what users changed on seeded rows
(`EditsAreUndone`), re-enables system capabilities and re-adds grants that
administrators removed; overlapping create and delete of a role leave a realm
role without one (`RealmMirrorsRoles` excludes the overlap); a role made at run time
cannot be given to a user, whose schema knows the built-in ones only, though
keycloak-provisioning.service.ts:66-67 says it can; no route asks for
write-customers (`Unused`).

## 5. Proofs

Eight modules hold proofs, each for every value of its constants under the named
assumptions of the modules it is about: bounds are naturals, null values are new,
given tables are functions of the right sets, rows are finite where they are
counted. A module that proves about several others extends them all.

| Module, about | Theorems (property of a run) | Assumptions |
|---|---|---|
| `AgentRun_proofs`: `AgentRun` | `TypeCorrect`; `SendsOnce` (`HopSentOnce`), `OneOwner` (`SoleOwner`), `TurnsAreOfCompletedRuns` (`TurnOnlyIfCompleted`), `LogAndStatusAgree` (`StatusMatchesLog`); `TerminalStays` (`TerminalIsFinal`, an action property); `Refinement` (`RefinesLifecycle`) | `ConstantsAssumption` |
| `EventLedger_proofs`: `EventLedger`, `AgentTrace` | `TypeCorrect`; `WrittenOnce` (`SubEventOnce`), `ReportedInFull` (`NothingMissing`); `Refinement` (`ImplementsRunLog`); `TraceIsTold` (`TraceIsFaithful`) | `LedgerAssumption`; `TraceIsTold` also that `Frames` is even |
| `ChatPage_proofs`: `RunSubmission`, `EventStream`, `ChatPage` | `OneRun` (`OneRunPerKey`), `PromptIsStored` (`RunHasItsPrompt`), `PrefixIsShown` (`ShowsPrefix`) | `SubmissionAssumption`, `StreamAssumption`, `PageAssumption` |
| `WebhookOutbox_proofs`: `WebhookOutbox` | `TypeCorrect`; `NeverDoubleSends` (`HeardIsNotResent`, an action property), `SettledStaysSettled` (`SettledIsFinal`), `SuccessIsReal` (`SucceededWasAccepted`), `NothingGivenUpEarly` (`GivesUpLast`) | `OutboxAssumption` |
| `ToolGateway_proofs`: `ToolGateway`, `Receipt`, `AccessCatalog`, `ApiSurface` | `TypeCorrect`; `RestIsTheLimit` (`NoMoreThanRest`), `AuditTold` (`AuditIsTrue`), `ReceiptsAreRight` (`ReceiptIsRight`); `VersionsStay` (`VersionsAppendOnly`), `UpdatesAreNarrow` (`UpdatesKeepTheRest`), action properties; of the tables `NobodyIsAdmitted`, `BindingAdmitsNobody`, `CriticalIsEnough`, `WithinRoutes`, `RolesDecideAlike` | `GatewayAssumption`, `NoneIsNoRow`; `ReceiptsAreRight` also `TwoDecimalDiscounts` |
| `RbacCatalog_proofs`: `RbacCatalog`, `SeedData` | `TypeCorrect`; `RoutesStay` (`RoutesAreAsSet`), `RealmFollows` (`RealmMirrorsRoles`); of the seeds `SeedTwice`, `OtherSalesStay`, `EditsAreUndone` | `CatalogAssumption`, `IdleIsNoRequest`; `RealmFollows` also `~Resets` |
| `Administration_proofs`: `UserProvisioning`, `AgentRegistry`, `RbacPolicy` | `TypeCorrect`, `OneEach` (`OneProfileEach`), `SyncedTold` (`SyncedIsExact`); `AgentsTyped`, `LastWord` (`OperatorsLastWord`); `PolicyTyped`, `StaysCovered` (`CriticalCovered`), `SetIsSet` (`RoleIsAsSet`) | `UsersAssumption`, `NoneIsNoRow`; `RegistryAssumption`; `PolicyAssumption`; the last two theorems also `OneAdministrator` |
| `Analyst_proofs`: `AnalystHarness`, `DbMcp` | `OnlyEntitled` (`NothingUnauthorized`), `CompletionIsEarned` (`NoSilentNoOp`), `BudgetsEndTheLoop` (`StepsWithinLimit`); `McpTyped`, `OwnRowsOnly` (`AnswersAreOwnRows`), `NothingIsMissing` (`UncutIsComplete`) | `HarnessAssumption`; `DbMcpAssumption` |

What the assumptions beyond bounds and null values say, and why the code gives
them: seeded profiles, and accounts imported into the realm, have an address each
(the unique index on `users.email`, Keycloak's usernames); routes, views and
grants that the code ships refer to permissions it ships; the tables behind the
curated views are finite; each operation of an agent has a start and an end, so
that its sub-events are even in number (`TraceIsTold`). Three theorems have a hypothesis that the code does not
guarantee, and each is the boundary of a disagreement in section 4:

* `OneAdministrator`: two `setRolePermissions` at a time orphan a critical
  permission (`RbacPolicy_skew`), so what is proved of any number of
  administrators is the types only.
* `TwoDecimalDiscounts`: the form sends discounts with two decimals (money.ts,
  toMoneyString); the API takes others too, and with a third decimal the recorded
  total is wrong (`ThirdDecimal`). The theorem
  holds for every price, quantity and set of lines, and for the total that the
  form's floating point may show.
* `~Resets`: a seed that is asked to start over deletes the roles' rows and knows
  nothing of Keycloak.

### The arguments

Each state machine has a theorem that an invariant (`IInv`, `DataInv`, `AgentsInv`,
`McpInv`, ...) is inductive, proved by one lemma per action; the claims follow from it.
None of the claims below is inductive alone.

* `AgentRun`. That a hop is sent once needs that a worker about to send holds the
  only unsent row of that key (`HopInv`), which needs that its call names a key at
  all (`CallInv`) and that no second worker passes the insert (the unique index,
  in `BeginStep`). That a terminal status is final needs that a worker past its
  first transaction holds a run that is running or terminal (`StatusInv`), so that
  the writes of `Complete` and `StopDispatch` are the only ones to consider, and
  these re-read the status. That the log agrees with the status is a second
  inductive invariant over the first: a log only grows, and an end is appended in
  the transaction that writes the status. `TurnOnlyIfCompleted` needs that a worker
  at "history" saw the run completed. The refinement maps each action to one of
  the lifecycle's or to a stutter, with `IInv` supplying its guard.
* `EventLedger`. The rows are numbered densely and by value once (`Dense`); of the
  open transactions one at most has inserted (`OneInserts`: the lock, or else the
  unique index on the number, which the streamed appends rely on), and what it read
  is still the end of the ledger; a transaction's batch is what its worker would
  write now (`TxInv`), since nobody else writes events of its agent; and while
  its agent works a worker has no sub-event of a later frame and no report (`Ahead`),
  so the artifact of a reported call no longer changes. From these
  a commit appends its batch in order, which is a step of `RunLog` by the
  mapping of rows to their places; all other steps stutter.
* `AgentTrace`. A second inductive invariant (`CallsInv`) says what the ledger holds
  of a worker's call: begun once, reported at most once, its sub-events between the
  two, and only as far as the worker has got. From it an alone call has a place in
  the ledger (`CallAt`), and the browser's view is followed over the rows: before the
  call nothing is shown of it, then it is the last call shown and open, then it
  stands as reported (`Shows`); while it is open its steps are those of the
  sub-events so far (`StepsAre`); when no calls overlap, as many are shown as began
  (`CountIs`). The view of the first rows is a recursive function of their number,
  and each of the three holds of every number because none is the least for which
  it would fail (`Upwards`), which needs no operator parameter.
* `ChatPage`. Where a request is in createRun fixes which rows it has made
  (`NoRoomYet`, `OwnRoom`, `OwnPrompt`, `HasRun`); a conversation is looked up
  for its owner and never changes hands, so the prompt is where the run says;
  the unique index is the only thing that keeps `UniqueRun`. Of the stream
  (`StreamInv`): the handler's cursor may go back but never passes the page's, nor
  does the cursor a poll began from; a batch under way is an ascending run of
  visible rows from there (`Piece`), with none left out. So what of it the page
  does not show yet continues what it shows, whichever poll answers first, and
  the log grows only behind the rows a poll has read.
* `WebhookOutbox`. Row locks keep the claims of dispatchers apart, and what a
  dispatcher has not sent it holds unchanged (`Claims`); an event whose acceptance
  was heard of is on record, or its dispatcher is about to record it (`Recorded`),
  which only a lost dispatcher breaks, so it is in nobody's chunk. That rows tell the truth about how a delivery ended also holds
  of the copies in memory (`Truthful`, `Copies`), with losses too.
* `ToolGateway`. A number names one request and one effect (`Recorded`); a
  request that got past `Verify` has the permissions of its capability's
  operations (`CallInv`), by the lemma `OperationsAreRequired` about the shipped
  tables. Permissions of a snapshot never change, which is why expiry and
  disabling do not matter. `DataInv` adds that a call at its write has found its
  rows (`Known`) and that rows are not deleted (`RowsStay`), so that a version is
  inserted after the last one, under the lock of the procedure. `ReceiptIsRight`
  rests on the lemmas about rounding in this module.
* `RbacCatalog`. `RoutesAreAsSet` is inductive with the types and the foreign keys
  (`ReferencesHold`), because each `Write` decides again by the constraints,
  whatever the `Check` saw; that the seeded permissions stay (`SystemStays`) is what a boot
  needs, since it writes routes as the code declares them. `RealmMirrorsRoles`
  needs to know, for a role that is not astray, where the only request about it
  is between its row, the realm role and the stored id (`RoleInv`).
* Users. What a request holds is there and of its address, whatever others do
  (`Known`): rows and accounts are not deleted and a link is never changed. What it
  has read and brought about in Keycloak holds if it is alone (`Exact`, `Apart`).
  That a profile is linked to the account of its own address (`Linked`) makes
  `OneProfileEach` follow from the unique indexes.
* Agents. `OperatorsLastWord` is inductive over the types: a heartbeat and a sweep
  write only columns that are not the operator's, and make no row an operator's
  (`Alike`).
* Policy. With one administrator at a time, what a transaction has deleted and
  inserted is the role's old and new grants (`TxInv`), so that what the coverage
  check saw is what is committed, and a rollback restores what was last set.
* The harness. `StepsAt` bounds the steps taken so far by the iterations and the
  node; `PolicyKnown` and `OutcomesAreTrue` tie what a call is reported to be to
  what the gateway executed for this task.
* The data server. A session waits at most once (`Queued`) and has one connection,
  whose setting names the session's owner from the statement before the read
  on (`Served`); a query under way was admitted and has read what that owner may
  see (`UnderWay`); an answer is a cut of such a read (`IsAnswer`). That the
  halving of capResultBytes ends, and leaves a prefix that is complete unless it
  says otherwise, is `Kept`, a recursive function, by the least number of rows for
  which it would fail.
* The tables. The routes and capabilities are gone through router by router, for
  every set of permissions. `SeedTwice` composes a lemma for each seed function:
  an upsert after itself changes nothing, and no later function of the transaction
  touches its table. `Rows` is the instance of `SeedData` these are about.

Only model-checked. Liveness under fairness and `ENABLED`: `EnqueuedRunEnds`,
`TransactionsEnd`, `EndReachesPage`, `EveryDeliverySettles`, the routing and
catch-up properties, `EveryQueryIsAnswered`. The rest of the properties of the runs
are theorems. No module declares a RECURSIVE operator.

## 6. Not modelled

* Prompts and model output (free choices); text, layout, logging, telemetry.
* The conversation history in Redis: a capped stream that the worker appends to
  after a run completed and that is read as prompt text; a failing read is an
  empty history. When a turn is recorded is part of `AgentRun`.
* The text of SQL: a query is its kind and the relations it names. How the
  validator finds these is not modelled.
* Contents of agent cards and the screening of their URLs (a card is accepted or
  refused); signatures and serialization of webhooks.
* Rate limiting, whose store is a library's; error formatting; configuration;
  health checks beyond their routes.
* What lists, filters and reports return; pages of the frontend other than the
  chat, which are forms over one request each; links in answers.
* Recorded approvals and heartbeats of a run, which no other modelled step reads;
  the Python copy of the policy gate in the orchestrator, whose outcome is a
  choice in `AgentRun`.
* The SQL of migrations besides the constraints that guard the modelled writes.

Time is abstract: a timeout is an action that may happen. The run's hard timeout
is `TaskError`. Webhook rows created by a rolled-back transaction do not exist, so
`Enqueue` is one step. Nothing in the repository deletes events, and the foreign
key would take the delivery along (1717500000000-WebhookOutboxAndStepIdempotency.ts:47);
`eventless` stands for databases where one is gone all the same, as webhooks.py:197
provides for. What the models abstract further is said at the head of
each module.
