--------------------------- MODULE WebhookOutbox ---------------------------
(***************************************************************************)
(* The webhook dispatcher (webhooks.py): a transactional outbox drained by *)
(* periodic tasks that may overlap.                                        *)
(*                                                                         *)
(* A dispatcher claims due rows under row locks, sends them in chunks per  *)
(* destination, and commits what it learnt of all of them at its end, in   *)
(* one transaction.  A dispatcher that is lost before leaves the rows as   *)
(* they were, whatever their receivers have already accepted.              *)
(***************************************************************************)
EXTENDS Naturals, FiniteSets

CONSTANTS
    Delivery,     \* outbox rows
    DestOf,       \* [Delivery -> destination and auth config]
    Dispatcher,   \* dispatcher tasks that may run at a time
    ClaimLimit,   \* rows one task claims
    ChunkLimit,   \* _MAX_BATCH_EVENTS
    Attempts,     \* len(BACKOFF_SCHEDULE_S)
    MaxCrashes,   \* bound: dispatchers lost with rows claimed
    MaxDisables   \* bound: configurations disabled by their owner

ASSUME OutboxAssumption ==
    /\ {ClaimLimit, ChunkLimit, Attempts} \subseteq Nat \ {0}
    /\ {MaxCrashes, MaxDisables} \subseteq Nat

VARIABLES
    row,          \* [Delivery -> Row]: committed status and attempt count
    turn,         \* [Delivery -> Nat]: its place among the rows that are due, or 0
    active,       \* [Dest -> BOOLEAN]: the destination's config is active
    held,         \* [Dispatcher -> SUBSET Delivery]: rows locked
    todo,         \* [Dispatcher -> SUBSET Delivery]: claimed, their group not begun
    group,        \* [Dispatcher -> SUBSET Delivery]: the destination's rows to send
    mem,          \* [Dispatcher -> [Delivery -> Row]]: uncommitted rows
    posts,        \* [Delivery -> Nat]: requests that carried the event
    oks,          \* [Delivery -> Nat]: requests the receiver accepted
    heard,        \* deliveries whose acceptance a dispatcher has heard of
    refused,      \* deliveries a receiver refused for good
    eventless,    \* deliveries whose event's row is gone when they are looked at
    budget        \* crashes and disables left

vars == <<row, turn, active, held, todo, group, mem, posts, oks, heard, refused, eventless, budget>>

Dest    == {DestOf[d] : d \in Delivery}
Settled == {"succeeded", "dead_letter"}
Row     == [status : {"none", "pending"} \cup Settled, attempts : 0..Attempts]

\* What comes of a request.  A connection that fails or an answer that is later than
\* the sender waits leaves the event with its receiver ("lost") or not ("transport").
Answer   == {"2xx", "permanent", "retryable", "transport", "lost"}
Accepted == {"2xx", "lost"}

Init ==
    /\ row = [d \in Delivery |-> [status |-> "none", attempts |-> 0]]
    /\ turn = [d \in Delivery |-> 0]
    /\ active = [t \in Dest |-> TRUE]
    /\ held = [p \in Dispatcher |-> {}]
    /\ todo = [p \in Dispatcher |-> {}]
    /\ group = [p \in Dispatcher |-> {}]
    /\ mem = [p \in Dispatcher |-> row]
    /\ posts = [d \in Delivery |-> 0]
    /\ oks = [d \in Delivery |-> 0]
    /\ heard = {}
    /\ refused = {}
    /\ eventless \in SUBSET Delivery
    /\ budget = [crash |-> MaxCrashes, disable |-> MaxDisables]

Locked == UNION {held[p] : p \in Dispatcher}
Due    == {d \in Delivery : turn[d] > 0}

\* The n rows that are due for longest.
Oldest(rows, n) == {d \in rows : Cardinality({e \in rows : turn[e] < turn[d]}) < n}

\* The row is due after those that are due already.
Queue(d) == turn' = [turn EXCEPT ![d] = Cardinality(Due) + 1]

\* The event and its outbox row are committed together, due at once.
Enqueue(d) ==
    /\ row[d].status = "none"
    /\ active[DestOf[d]]
    /\ row' = [row EXCEPT ![d].status = "pending"]
    /\ Queue(d)
    /\ UNCHANGED <<active, held, todo, group, mem, posts, oks, heard, refused, eventless, budget>>

\* The delay of a retry has passed.
BecomeDue(d) ==
    /\ row[d].status = "pending"
    /\ d \notin Due
    /\ Queue(d)
    /\ UNCHANGED <<row, active, held, todo, group, mem, posts, oks, heard, refused, eventless, budget>>

\* The owner disables the destination's configuration.
Disable(t) ==
    /\ active[t]
    /\ budget.disable > 0
    /\ budget' = [budget EXCEPT !.disable = @ - 1]
    /\ active' = [active EXCEPT ![t] = FALSE]
    /\ UNCHANGED <<row, turn, held, todo, group, mem, posts, oks, heard, refused, eventless>>

-----------------------------------------------------------------------------
\* Mutant of Claim: due rows are read without a lock.
Claim_NoLock(p) ==
    LET claimed == Oldest(Due, ClaimLimit) IN
    /\ held[p] = {}
    /\ claimed # {}
    /\ held' = [held EXCEPT ![p] = claimed]
    /\ todo' = [todo EXCEPT ![p] = claimed]
    /\ mem' = [mem EXCEPT ![p] = row]
    /\ UNCHANGED <<row, turn, active, group, posts, oks, heard, refused, eventless, budget>>

\* SELECT ... ORDER BY next_attempt_at LIMIT n FOR UPDATE SKIP LOCKED.
Claim(p) ==
    LET claimed == Oldest(Due \ Locked, ClaimLimit) IN
    /\ held[p] = {}
    /\ claimed # {}
    /\ held' = [held EXCEPT ![p] = claimed]
    /\ todo' = [todo EXCEPT ![p] = claimed]
    /\ mem' = [mem EXCEPT ![p] = row]
    /\ UNCHANGED <<row, turn, active, group, posts, oks, heard, refused, eventless, budget>>

\* The rows left that share the destination of the oldest of them.
Lead(p)    == CHOOSE d \in Oldest(todo[p], 1) : TRUE
GroupOf(p) == {d \in todo[p] : DestOf[d] = DestOf[Lead(p)]}

\* The rows are given up, whatever their attempts were.
DeadLetters(p, rows) ==
    mem' = [mem EXCEPT ![p] = [d \in Delivery |->
              IF d \in rows THEN [@[d] EXCEPT !.status = "dead_letter"] ELSE @[d]]]

\* The destination's configuration is read, once for all the group's chunks.  A row
\* without its event is a dead letter and in no chunk.
OpenGroup(p) ==
    /\ todo[p] # {} /\ group[p] = {}
    /\ active[DestOf[Lead(p)]]
    /\ group' = [group EXCEPT ![p] = GroupOf(p) \ eventless]
    /\ DeadLetters(p, GroupOf(p) \cap eventless)
    /\ todo' = [todo EXCEPT ![p] = @ \ GroupOf(p)]
    /\ UNCHANGED <<row, turn, active, held, posts, oks, heard, refused, eventless, budget>>

\* The row after its n-th attempt failed in a way that may pass.
Retry(n) == [status |-> IF n < Attempts THEN "pending" ELSE "dead_letter", attempts |-> n]

\* What the row becomes after a request with this answer.
After(r, answer) ==
    CASE answer = "2xx"       -> [status |-> "succeeded", attempts |-> r.attempts + 1]
      [] answer = "permanent" -> [status |-> "dead_letter", attempts |-> r.attempts + 1]
      [] OTHER                -> Retry(r.attempts + 1)

\* Send one chunk as one signed request, outside any commit.
SendChunk(p, answer) ==
    LET chunk == Oldest(group[p], ChunkLimit) IN
    /\ group[p] # {}
    /\ posts' = [d \in Delivery |-> IF d \in chunk THEN posts[d] + 1 ELSE posts[d]]
    /\ oks' = [d \in Delivery |->
                 IF d \in chunk /\ answer \in Accepted THEN oks[d] + 1 ELSE oks[d]]
    /\ heard' = IF answer = "2xx" THEN heard \cup chunk ELSE heard
    /\ mem' = [mem EXCEPT ![p] = [d \in Delivery |->
                 IF d \in chunk THEN After(@[d], answer) ELSE @[d]]]
    /\ group' = [group EXCEPT ![p] = @ \ chunk]
    /\ refused' = IF answer = "permanent" THEN refused \cup chunk ELSE refused
    /\ UNCHANGED <<row, turn, active, held, todo, eventless, budget>>

\* Mutant of DropGroup: rows without an active configuration wait for one.
DropGroup_Waits(p) ==
    /\ todo[p] # {} /\ group[p] = {}
    /\ ~active[DestOf[Lead(p)]]
    /\ todo' = [todo EXCEPT ![p] = @ \ GroupOf(p)]
    /\ UNCHANGED <<row, turn, active, held, group, mem, posts, oks, heard, refused, eventless, budget>>

\* No active configuration: the destination's rows are dead letters.
DropGroup(p) ==
    /\ todo[p] # {} /\ group[p] = {}
    /\ ~active[DestOf[Lead(p)]]
    /\ DeadLetters(p, GroupOf(p))
    /\ todo' = [todo EXCEPT ![p] = @ \ GroupOf(p)]
    /\ UNCHANGED <<row, turn, active, held, group, posts, oks, heard, refused, eventless, budget>>

\* The locks are gone, and the copies of the rows with them.
Release(p) ==
    /\ held' = [held EXCEPT ![p] = {}]
    /\ mem' = [mem EXCEPT ![p] = [d \in Delivery |-> [status |-> "none", attempts |-> 0]]]

\* One commit for everything the task claimed.
Commit(p) ==
    /\ held[p] # {}
    /\ todo[p] = {} /\ group[p] = {}
    /\ row' = [d \in Delivery |-> IF d \in held[p] THEN mem[p][d] ELSE row[d]]
    /\ turn' = [d \in Delivery |->
                  IF d \in held[p] THEN 0
                  ELSE Cardinality({e \in Due \ held[p] : turn[e] <= turn[d]})]
    /\ Release(p)
    /\ UNCHANGED <<active, todo, group, posts, oks, heard, refused, eventless, budget>>

\* The task is lost, or a database error rolls it back: the claimed rows are due as
\* before.
Crash(p) ==
    /\ held[p] # {}
    /\ budget.crash > 0
    /\ budget' = [budget EXCEPT !.crash = @ - 1]
    /\ todo' = [todo EXCEPT ![p] = {}]
    /\ group' = [group EXCEPT ![p] = {}]
    /\ Release(p)
    /\ UNCHANGED <<row, turn, active, posts, oks, heard, refused, eventless>>

Work(p) ==
    OpenGroup(p) \/ (\E answer \in Answer : SendChunk(p, answer)) \/ DropGroup(p) \/ Commit(p)

Next ==
    \/ \E d \in Delivery : Enqueue(d) \/ BecomeDue(d)
    \/ \E t \in Dest : Disable(t)
    \/ \E p \in Dispatcher : Claim(p) \/ Work(p) \/ Crash(p)

Spec == Init /\ [][Next]_vars

\* Time passes, beat schedules a task every ten seconds, and a task that claimed
\* rows goes on: a request has a timeout.
Fairness ==
    /\ \A d \in Delivery : WF_vars(BecomeDue(d))
    /\ WF_vars(\E p \in Dispatcher : Claim(p))
    /\ \A p \in Dispatcher : WF_vars(Work(p))

FairSpec == Spec /\ Fairness

-----------------------------------------------------------------------------
(* Properties *)

\* Every variable has its type.
TypeOK ==
    /\ row \in [Delivery -> Row]
    /\ turn \in [Delivery -> Nat]
    /\ active \in [Dest -> BOOLEAN]
    /\ held \in [Dispatcher -> SUBSET Delivery]
    /\ todo \in [Dispatcher -> SUBSET Delivery]
    /\ group \in [Dispatcher -> SUBSET Delivery]
    /\ mem \in [Dispatcher -> [Delivery -> Row]]
    /\ posts \in [Delivery -> Nat]
    /\ oks \in [Delivery -> Nat]
    /\ heard \subseteq Delivery /\ refused \subseteq Delivery /\ eventless \subseteq Delivery
    /\ budget \in [{"crash", "disable"} -> Nat]

NoneLost == budget.crash = MaxCrashes

\* As long as no dispatcher is lost, an event whose acceptance one has heard of is not
\* sent again, however the dispatchers overlap: the row locks last until the commit.
HeardIsNotResent == [][NoneLost => \A d \in heard : posts'[d] = posts[d]]_vars

\* Not so: an event its receiver accepted is not sent again.  It is when the answer is
\* lost, or comes after the sender's 15 seconds; the event's id is what the receiver
\* has to tell the copies by.
AcceptedOnce == NoneLost => \A d \in Delivery : oks[d] <= 1

\* A delivery recorded as succeeded was accepted by its receiver, though its
\* chunk was sent with others and committed with other destinations' chunks, and
\* although dispatchers are lost before they commit.
SucceededWasAccepted == \A d \in Delivery : row[d].status = "succeeded" => oks[d] > 0

\* An event given up while its configuration is active had all its attempts or
\* was refused for good, or is not there any more.
GivesUpLast ==
    \A d \in Delivery :
        row[d].status = "dead_letter" /\ active[DestOf[d]] =>
            posts[d] >= Attempts \/ d \in refused \/ d \in eventless

\* A settled delivery stays settled, also when dispatchers overlap and commit
\* copies of rows they read earlier.
SettledIsFinal ==
    [][\A d \in Delivery : row[d].status \in Settled => row'[d].status = row[d].status]_vars

\* Every delivery is settled at last, though receivers fail and tasks are lost.
EveryDeliverySettles == \A d \in Delivery : row[d].status = "pending" ~> row[d].status \in Settled

=============================================================================
