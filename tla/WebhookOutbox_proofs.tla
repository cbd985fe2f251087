------------------------ MODULE WebhookOutbox_proofs ------------------------
(***************************************************************************)
(* TLAPS proofs about WebhookOutbox, for any rows, destinations and        *)
(* dispatchers, and any limits, attempts, losses and disabled              *)
(* configurations.                                                         *)
(***************************************************************************)
EXTENDS WebhookOutbox, FiniteSetTheorems, TLAPS

-----------------------------------------------------------------------------
(* The inductive invariant *)

\* The rows a dispatcher holds: those it has not sent yet, and those it is done with.
Unsent(p) == todo[p] \cup group[p]
Done(p)   == held[p] \ Unsent(p)

\* Only pending rows are due, or held.
Queued ==
    /\ IsFiniteSet(Due)
    /\ \A d \in Due : row[d].status = "pending"

\* Two dispatchers hold no row in common, and what one has not sent it has not
\* changed.
Claims(p) ==
    /\ Unsent(p) \subseteq held[p]
    /\ todo[p] \cap group[p] = {}
    /\ \A q \in Dispatcher : q # p => held[p] \cap held[q] = {}
    /\ \A d \in held[p] : row[d].status = "pending"
    /\ \A d \in Unsent(p) : mem[p][d] = row[d]

\* An acceptance that was heard of is on record, or its dispatcher is about to record it.
Recorded(d) ==
    \/ row[d].status = "succeeded"
    \/ \E p \in Dispatcher : d \in Done(p) /\ mem[p][d].status = "succeeded"

AcceptedInv ==
    NoneLost => \A d \in heard : Recorded(d)

\* A row that says how a delivery ended is right about it, and one that does not has
\* an attempt left.
Truthful(d, r) ==
    /\ r.attempts <= posts[d]
    /\ r.status \notin Settled => r.attempts < Attempts
    /\ r.status = "succeeded" => oks[d] > 0
    /\ r.status = "dead_letter" /\ active[DestOf[d]] =>
          posts[d] >= Attempts \/ d \in refused \/ d \in eventless

Copies == \A p \in Dispatcher : \A d \in held[p] : Truthful(d, mem[p][d])
Rows   == \A d \in Delivery : Truthful(d, row[d])

IInv ==
    /\ TypeOK
    /\ budget.crash <= MaxCrashes
    /\ Queued
    /\ \A p \in Dispatcher : Claims(p)
    /\ AcceptedInv
    /\ Rows /\ Copies

-----------------------------------------------------------------------------
(* Rows *)

LEMMA Bounds ==
    /\ ClaimLimit \in Nat /\ ChunkLimit \in Nat /\ Attempts \in Nat \ {0}
    /\ MaxCrashes \in Nat /\ MaxDisables \in Nat
BY OutboxAssumption

\* What a dispatcher picks are rows it was offered.
LEMMA OldestIsPart ==
    ASSUME NEW rows, NEW n
    PROVE  Oldest(rows, n) \subseteq rows
BY DEF Oldest

\* One request more moves a row on as its answer says.
LEMMA AfterIs ==
    ASSUME NEW r \in Row, r.attempts < Attempts, NEW answer \in Answer
    PROVE  /\ After(r, answer) \in Row
           /\ After(r, answer).attempts = r.attempts + 1
           /\ After(r, answer).status \in {"pending"} \cup Settled
           /\ After(r, answer).status = "succeeded" <=> answer = "2xx"
           /\ After(r, answer).status = "pending" => r.attempts + 1 < Attempts
           /\ After(r, answer).status = "dead_letter" =>
                 answer = "permanent" \/ r.attempts + 1 = Attempts
<1>1. r.attempts \in Nat /\ Attempts \in Nat /\ r.attempts + 1 \in 0..Attempts
  BY Bounds DEF Row
<1> DEFINE n == r.attempts + 1
           x == After(r, answer)
<1>2. n \in 0..Attempts /\ Attempts \in Nat
  BY <1>1
<1> HIDE DEF n
<1>3. CASE answer = "2xx"
  <2>1. x = [status |-> "succeeded", attempts |-> n]
    BY <1>3 DEF After, n
  <2> QED  BY <1>2, <1>3, <2>1 DEF Row, Settled, n
<1>4. CASE answer = "permanent"
  <2>1. x = [status |-> "dead_letter", attempts |-> n]
    BY <1>4 DEF After, n
  <2> QED  BY <1>2, <1>4, <2>1 DEF Row, Settled, n
<1>5. CASE answer \notin {"2xx", "permanent"} /\ n < Attempts
  <2>1. x = [status |-> "pending", attempts |-> n]
    BY <1>5 DEF After, Retry, n
  <2> QED  BY <1>2, <1>5, <2>1 DEF Row, Settled, n
<1>6. CASE answer \notin {"2xx", "permanent"} /\ ~(n < Attempts)
  <2>1. x = [status |-> "dead_letter", attempts |-> n]
    BY <1>6 DEF After, Retry, n
  <2>2. n = Attempts
    BY <1>2, <1>6
  <2> QED  BY <1>2, <1>6, <2>1, <2>2 DEF Row, Settled, n
<1> QED  BY <1>3, <1>4, <1>5, <1>6

\* More requests and fewer configurations make no row untrue.
LEMMA TruthStays ==
    ASSUME TypeOK, NEW d \in Delivery, NEW r \in Row, Truthful(d, r),
           posts'[d] \in Nat, posts[d] <= posts'[d],
           oks'[d] \in Nat, oks[d] <= oks'[d],
           active'[DestOf[d]] => active[DestOf[d]],
           refused \subseteq refused', eventless' = eventless
    PROVE  Truthful(d, r)'
<1>1. posts[d] \in Nat /\ oks[d] \in Nat /\ r.attempts \in Nat /\ Attempts \in Nat
  BY Bounds DEF TypeOK, Row
<1> QED  BY <1>1 DEF Truthful

\* A row that becomes due is the last.
LEMMA QueueIs ==
    ASSUME TypeOK, IsFiniteSet(Due), NEW d \in Delivery, Queue(d)
    PROVE  /\ turn' \in [Delivery -> Nat]
           /\ Due' = Due \cup {d}
           /\ IsFiniteSet(Due')
<1> DEFINE n == Cardinality(Due)
<1>1. n \in Nat
  BY FS_CardinalityType
<1>2. turn' = [turn EXCEPT ![d] = n + 1]
  BY DEF Queue
<1> HIDE DEF n
<1>3. turn' \in [Delivery -> Nat] /\ turn'[d] > 0
  BY <1>1, <1>2 DEF TypeOK
<1>4. \A e \in Delivery \ {d} : turn'[e] = turn[e]
  BY <1>2 DEF TypeOK
<1>5. Due' = Due \cup {d}
  BY <1>3, <1>4 DEF Due
<1> QED  BY <1>3, <1>5, FS_AddElement

-----------------------------------------------------------------------------
(* The steps keep the invariant *)

LEMMA InitIInv == Init => IInv
<1> SUFFICES ASSUME Init  PROVE IInv
  OBVIOUS
<1>1. \A d \in Delivery : row[d] = [status |-> "none", attempts |-> 0]
  BY DEF Init
<1>2. [status |-> "none", attempts |-> 0] \in Row
  BY Bounds DEF Row
<1>3. TypeOK
  <2>1. row \in [Delivery -> Row] /\ mem \in [Dispatcher -> [Delivery -> Row]]
    BY <1>2 DEF Init
  <2>2. budget \in [{"crash", "disable"} -> Nat]
    BY Bounds DEF Init
  <2> QED  BY <2>1, <2>2 DEF Init, TypeOK
<1>4. Due = {}
  BY DEF Init, Due
<1>5. Queued
  BY <1>4, FS_EmptySet DEF Queued
<1>6. \A p \in Dispatcher : Claims(p)
  BY DEF Init, Claims, Unsent
<1>7. AcceptedInv
  BY DEF Init, AcceptedInv
<1>8. Rows
  <2>1. \A d \in Delivery : posts[d] = 0
    BY DEF Init
  <2> QED  BY <1>1, <2>1, Bounds DEF Rows, Truthful, Settled
<1>9. Copies
  BY DEF Init, Copies
<1>10. budget.crash <= MaxCrashes
  BY Bounds DEF Init
<1> QED  BY <1>3, <1>5, <1>6, <1>7, <1>8, <1>9, <1>10 DEF IInv

LEMMA EnqueueKeeps ==
    ASSUME IInv, NEW d \in Delivery, Enqueue(d)
    PROVE  IInv'
<1> USE DEF IInv
<1>1. /\ row[d].status = "none" /\ row' = [row EXCEPT ![d].status = "pending"] /\ Queue(d)
      /\ UNCHANGED <<active, held, todo, group, mem, posts, oks, heard, refused, eventless, budget>>
  BY DEF Enqueue
<1>2. /\ turn' \in [Delivery -> Nat] /\ Due' = Due \cup {d} /\ IsFiniteSet(Due')
  BY <1>1, QueueIs DEF Queued
<1>3. /\ row' \in [Delivery -> Row]
      /\ row'[d].status = "pending" /\ row'[d].attempts = row[d].attempts
      /\ \A e \in Delivery \ {d} : row'[e] = row[e]
  BY <1>1 DEF TypeOK, Row
<1>4. TypeOK'
  BY <1>1, <1>2, <1>3 DEF TypeOK
<1>5. Queued'
  BY <1>2, <1>3 DEF Queued, Due
<1>6. ASSUME NEW p \in Dispatcher  PROVE Claims(p)' /\ d \notin held[p]
  <2>1. Claims(p)
    OBVIOUS
  <2>2. d \notin held[p] /\ held[p] \subseteq Delivery
    BY <1>1, <2>1 DEF Claims, TypeOK
  <2> QED  BY <1>1, <1>3, <2>1, <2>2 DEF Claims, Unsent
<1>7. AcceptedInv'
  <2>1. \A e \in Delivery : Recorded(e) => Recorded(e)'
    BY <1>1, <1>3, <1>6 DEF Recorded, Done, Unsent
  <2> QED  BY <1>1, <2>1 DEF AcceptedInv, NoneLost, TypeOK
<1>8. Rows'
  <2>1. \A e \in Delivery : Truthful(e, row[e])
    BY DEF Rows
  <2> QED  BY <1>1, <1>3, <2>1 DEF Rows, Truthful, Settled
<1>9. Copies'
  BY <1>1 DEF Copies, Truthful
<1> QED  BY <1>1, <1>4, <1>5, <1>6, <1>7, <1>8, <1>9

LEMMA BecomeDueKeeps ==
    ASSUME IInv, NEW d \in Delivery, BecomeDue(d)
    PROVE  IInv'
<1> USE DEF IInv
<1>1. /\ row[d].status = "pending" /\ Queue(d)
      /\ UNCHANGED <<row, active, held, todo, group, mem, posts, oks, heard, refused, eventless, budget>>
  BY DEF BecomeDue
<1>2. /\ turn' \in [Delivery -> Nat] /\ Due' = Due \cup {d} /\ IsFiniteSet(Due')
  BY <1>1, QueueIs DEF Queued
<1>3. TypeOK'
  BY <1>1, <1>2 DEF TypeOK
<1>4. Queued'
  BY <1>1, <1>2 DEF Queued
<1>5. \A p \in Dispatcher : Claims(p)'
  BY <1>1 DEF Claims, Unsent
<1>6. AcceptedInv'
  BY <1>1 DEF AcceptedInv, NoneLost, Recorded, Done, Unsent
<1>7. Rows' /\ Copies'
  BY <1>1 DEF Rows, Copies, Truthful
<1> QED  BY <1>1, <1>3, <1>4, <1>5, <1>6, <1>7

LEMMA DisableKeeps ==
    ASSUME IInv, NEW t \in Dest, Disable(t)
    PROVE  IInv'
<1> USE DEF IInv
<1>1. /\ budget' = [budget EXCEPT !.disable = @ - 1] /\ budget.disable > 0
      /\ active' = [active EXCEPT ![t] = FALSE]
      /\ UNCHANGED <<row, turn, held, todo, group, mem, posts, oks, heard, refused, eventless>>
  BY DEF Disable
<1>2. budget' \in [{"crash", "disable"} -> Nat] /\ budget'.crash = budget.crash
  BY <1>1 DEF TypeOK
<1>3. active' \in [Dest -> BOOLEAN] /\ \A u \in Dest : active'[u] => active[u]
  BY <1>1 DEF TypeOK
<1>4. TypeOK'
  BY <1>1, <1>2, <1>3 DEF TypeOK
<1>5. Queued'
  BY <1>1 DEF Queued, Due
<1>6. \A p \in Dispatcher : Claims(p)'
  BY <1>1 DEF Claims, Unsent
<1>7. AcceptedInv'
  BY <1>1, <1>2 DEF AcceptedInv, NoneLost, Recorded, Done, Unsent
<1>8. \A d \in Delivery : DestOf[d] \in Dest
  BY DEF Dest
<1>9. Rows' /\ Copies'
  <2>1. \A d \in Delivery : Truthful(d, row[d]) => Truthful(d, row[d])'
    BY <1>1, <1>3, <1>8 DEF Truthful
  <2>2. \A p \in Dispatcher : \A d \in held[p] :
           d \in Delivery /\ (Truthful(d, mem[p][d]) => Truthful(d, mem[p][d])')
    BY <1>1, <1>3, <1>8 DEF Truthful, TypeOK
  <2> QED  BY <1>1, <2>1, <2>2 DEF Rows, Copies
<1> QED  BY <1>1, <1>2, <1>4, <1>5, <1>6, <1>7, <1>9

LEMMA ClaimKeeps ==
    ASSUME IInv, NEW p \in Dispatcher, Claim(p)
    PROVE  IInv'
<1> USE DEF IInv
<1> DEFINE claimed == Oldest(Due \ Locked, ClaimLimit)
<1>1. /\ held[p] = {} /\ held' = [held EXCEPT ![p] = claimed]
      /\ todo' = [todo EXCEPT ![p] = claimed] /\ mem' = [mem EXCEPT ![p] = row]
      /\ UNCHANGED <<row, turn, active, group, posts, oks, heard, refused, eventless, budget>>
  BY DEF Claim
<1>2. claimed \subseteq Due \ Locked
  BY OldestIsPart
<1> HIDE DEF claimed
<1>3. /\ claimed \subseteq Delivery
      /\ \A d \in claimed : row[d].status = "pending"
      /\ \A q \in Dispatcher : claimed \cap held[q] = {}
  BY <1>2 DEF Due, Locked, Queued
<1>4. group[p] = {} /\ todo[p] = {}
  BY <1>1 DEF Claims, Unsent
<1>5. /\ held'[p] = claimed /\ todo'[p] = claimed /\ mem'[p] = row /\ group'[p] = {}
      /\ \A q \in Dispatcher \ {p} :
            held'[q] = held[q] /\ todo'[q] = todo[q] /\ group'[q] = group[q] /\ mem'[q] = mem[q]
  BY <1>1, <1>4 DEF TypeOK
<1>6. TypeOK'
  BY <1>1, <1>3 DEF TypeOK
<1>7. Queued'
  BY <1>1 DEF Queued, Due
<1>8. ASSUME NEW q \in Dispatcher  PROVE Claims(q)'
  <2>1. CASE q = p
    BY <1>1, <1>3, <1>5, <2>1 DEF Claims, Unsent
  <2>2. CASE q # p
    <3>1. Claims(q)
      OBVIOUS
    <3> QED  BY <1>1, <1>3, <1>5, <2>2, <3>1 DEF Claims, Unsent
  <2> QED  BY <2>1, <2>2
<1>9. AcceptedInv'
  <2>1. \A d \in Delivery : Recorded(d) => Recorded(d)'
    BY <1>1, <1>5 DEF Recorded, Done, Unsent
  <2> QED  BY <1>1, <2>1 DEF AcceptedInv, NoneLost, TypeOK
<1>10. Rows'
  BY <1>1 DEF Rows, Truthful
<1>11. Copies'
  BY <1>1, <1>3, <1>5 DEF Copies, Rows, Truthful
<1> QED  BY <1>1, <1>6, <1>7, <1>8, <1>9, <1>10, <1>11

\* A group's rows leave the rows to come.  Some are to be sent; the others are dead
\* letters, because they may be.
LEMMA GroupKeeps ==
    ASSUME IInv, NEW p \in Dispatcher, NEW send, NEW drop, group[p] = {},
           send \subseteq todo[p], drop \subseteq todo[p], send \cap drop = {},
           \A d \in drop : ~active[DestOf[d]] \/ d \in eventless,
           DeadLetters(p, drop),
           todo' = [todo EXCEPT ![p] = @ \ (send \cup drop)],
           group' = [group EXCEPT ![p] = send],
           UNCHANGED <<row, turn, active, held, posts, oks, heard, refused, eventless, budget>>
    PROVE  IInv'
<1> USE DEF IInv
<1>1. mem' = [mem EXCEPT ![p] = [d \in Delivery |->
                IF d \in drop THEN [@[d] EXCEPT !.status = "dead_letter"] ELSE @[d]]]
  BY DEF DeadLetters
<1>2. todo[p] \subseteq Delivery /\ drop \subseteq Delivery /\ send \subseteq Delivery
  BY DEF TypeOK
<1>3. /\ todo'[p] = todo[p] \ (send \cup drop) /\ group'[p] = send
      /\ \A q \in Dispatcher \ {p} :
            todo'[q] = todo[q] /\ group'[q] = group[q] /\ mem'[q] = mem[q]
  BY <1>1 DEF TypeOK
<1>4. \A d \in Delivery : mem'[p][d] = IF d \in drop THEN [mem[p][d] EXCEPT !.status = "dead_letter"]
                                                     ELSE mem[p][d]
  BY <1>1 DEF TypeOK
<1>5. \A d \in drop :
        /\ d \in Delivery /\ d \in Unsent(p) /\ d \in held[p]
        /\ mem[p][d] = row[d] /\ row[d].status = "pending"
        /\ mem'[p][d] \in Row
        /\ mem'[p][d].status = "dead_letter"
        /\ mem'[p][d].attempts = mem[p][d].attempts
  <2> TAKE d \in drop
  <2>1. d \in Delivery /\ d \in Unsent(p) /\ d \in held[p]
    BY <1>2 DEF Unsent, Claims
  <2>2. mem[p][d] = row[d] /\ row[d].status = "pending" /\ mem[p][d] \in Row
    BY <2>1 DEF Claims, TypeOK
  <2>3. mem'[p][d] = [mem[p][d] EXCEPT !.status = "dead_letter"]
    BY <1>4, <2>1
  <2> QED  BY <2>1, <2>2, <2>3 DEF Row, Settled
<1>6. TypeOK'
  <2>1. ASSUME NEW d \in Delivery  PROVE mem'[p][d] \in Row
    <3>1. d \in drop => mem'[p][d] \in Row
      BY <1>5
    <3>2. d \notin drop => mem'[p][d] = mem[p][d]
      BY <1>4
    <3> QED  BY <3>1, <3>2 DEF TypeOK
  <2>2. mem' = [q \in Dispatcher |-> mem'[q]]
    BY <1>1 DEF TypeOK
  <2>3. mem'[p] \in [Delivery -> Row]
    BY <1>1, <2>1 DEF TypeOK
  <2>4. mem' \in [Dispatcher -> [Delivery -> Row]]
    BY <1>3, <2>2, <2>3 DEF TypeOK
  <2>5. todo' \in [Dispatcher -> SUBSET Delivery] /\ group' \in [Dispatcher -> SUBSET Delivery]
    BY <1>2 DEF TypeOK
  <2> QED  BY <2>4, <2>5 DEF TypeOK
<1>7. Queued'
  BY DEF Queued, Due
<1>8. ASSUME NEW q \in Dispatcher  PROVE Claims(q)'
  <2>1. Claims(q)
    OBVIOUS
  <2>2. CASE q = p
    <3>1. Unsent(p)' = Unsent(p) \ drop
      BY <1>3 DEF Unsent
    <3>2. \A d \in Unsent(p)' : d \in Delivery /\ mem'[p][d] = mem[p][d]
      BY <1>2, <1>4, <3>1 DEF Unsent
    <3> QED  BY <1>3, <2>1, <2>2, <3>1, <3>2 DEF Claims
  <2>3. CASE q # p
    BY <1>3, <2>1, <2>3 DEF Claims, Unsent
  <2> QED  BY <2>2, <2>3
<1>9. AcceptedInv'
  <2>1. \A d \in Delivery, q \in Dispatcher : d \in Done(q) => d \in Done(q)' /\ mem'[q][d] = mem[q][d]
    BY <1>3, <1>4 DEF Done, Unsent
  <2>2. \A d \in Delivery : Recorded(d) => Recorded(d)'
    BY <2>1 DEF Recorded
  <2> QED  BY <2>2 DEF AcceptedInv, NoneLost, TypeOK
<1>10. Rows'
  BY DEF Rows, Truthful
<1>11. Copies'
  <2> SUFFICES ASSUME NEW q \in Dispatcher, NEW d \in held[q]  PROVE Truthful(d, mem[q][d])'
    BY DEF Copies
  <2>1. d \in Delivery /\ Truthful(d, mem[q][d])
    BY DEF Copies, TypeOK
  <2>2. CASE q = p /\ d \in drop
    BY <1>5, <2>1, <2>2 DEF Truthful, Settled
  <2>3. CASE ~(q = p /\ d \in drop)
    BY <1>3, <1>4, <2>1, <2>3 DEF Truthful
  <2> QED  BY <2>2, <2>3
<1> QED  BY <1>6, <1>7, <1>8, <1>9, <1>10, <1>11

LEMMA OpenGroupKeeps ==
    ASSUME IInv, NEW p \in Dispatcher, OpenGroup(p)
    PROVE  IInv'
<1> DEFINE send == GroupOf(p) \ eventless
           drop == GroupOf(p) \cap eventless
<1>1. GroupOf(p) \subseteq todo[p] /\ GroupOf(p) = send \cup drop
  BY DEF GroupOf
<1>2. /\ group[p] = {} /\ group' = [group EXCEPT ![p] = send] /\ DeadLetters(p, drop)
      /\ todo' = [todo EXCEPT ![p] = @ \ (send \cup drop)]
      /\ UNCHANGED <<row, turn, active, held, posts, oks, heard, refused, eventless, budget>>
  BY <1>1 DEF OpenGroup
<1>3. /\ send \subseteq todo[p] /\ drop \subseteq todo[p] /\ send \cap drop = {}
      /\ \A d \in drop : d \in eventless
  BY <1>1
<1> HIDE DEF send, drop
<1> QED  BY <1>2, <1>3, GroupKeeps

LEMMA DropGroupKeeps ==
    ASSUME IInv, NEW p \in Dispatcher, DropGroup(p)
    PROVE  IInv'
<1> DEFINE drop == GroupOf(p)
<1>1. /\ group[p] = {} /\ DeadLetters(p, drop) /\ todo' = [todo EXCEPT ![p] = @ \ drop]
      /\ UNCHANGED <<row, turn, active, held, group, posts, oks, heard, refused, eventless, budget>>
  BY DEF DropGroup
<1>2. drop \subseteq todo[p] /\ \A d \in drop : ~active[DestOf[d]]
  BY DEF GroupOf, DropGroup
<1> HIDE DEF drop
<1>3. group' = [group EXCEPT ![p] = {}] /\ todo' = [todo EXCEPT ![p] = @ \ ({} \cup drop)]
  BY <1>1 DEF IInv, TypeOK
<1> QED  BY <1>1, <1>2, <1>3, GroupKeeps

LEMMA SendChunkKeeps ==
    ASSUME IInv, NEW p \in Dispatcher, NEW answer \in Answer, SendChunk(p, answer)
    PROVE  IInv'
<1> USE DEF IInv
<1> DEFINE chunk == Oldest(group[p], ChunkLimit)
<1>1. /\ posts' = [d \in Delivery |-> IF d \in chunk THEN posts[d] + 1 ELSE posts[d]]
      /\ oks' = [d \in Delivery |->
                   IF d \in chunk /\ answer \in Accepted THEN oks[d] + 1 ELSE oks[d]]
      /\ heard' = IF answer = "2xx" THEN heard \cup chunk ELSE heard
      /\ mem' = [mem EXCEPT ![p] = [d \in Delivery |->
                   IF d \in chunk THEN After(@[d], answer) ELSE @[d]]]
      /\ group' = [group EXCEPT ![p] = @ \ chunk]
      /\ refused' = IF answer = "permanent" THEN refused \cup chunk ELSE refused
      /\ UNCHANGED <<row, turn, active, held, todo, eventless, budget>>
  BY DEF SendChunk
<1>2. chunk \subseteq group[p]
  BY OldestIsPart
<1> HIDE DEF chunk
<1>3. group[p] \subseteq Delivery /\ group[p] \subseteq held[p]
  BY DEF TypeOK, Claims, Unsent
<1>4. /\ group'[p] = group[p] \ chunk
      /\ \A q \in Dispatcher \ {p} : group'[q] = group[q] /\ mem'[q] = mem[q]
  BY <1>1 DEF TypeOK
<1>5. \A d \in Delivery : mem'[p][d] = IF d \in chunk THEN After(mem[p][d], answer) ELSE mem[p][d]
  BY <1>1 DEF TypeOK
<1>6. \A d \in chunk :
        /\ d \in Delivery /\ d \in Unsent(p) /\ d \in held[p]
        /\ mem[p][d] = row[d] /\ row[d].status = "pending"
        /\ row[d] \in Row /\ Truthful(d, row[d]) /\ row[d].attempts < Attempts
  BY <1>2, <1>3 DEF Claims, Unsent, Rows, Truthful, Settled, TypeOK
<1>7. \A d \in chunk :
        /\ mem'[p][d] = After(row[d], answer) /\ mem'[p][d] \in Row
        /\ mem'[p][d].attempts = row[d].attempts + 1
        /\ mem'[p][d].status \in {"pending"} \cup Settled
        /\ mem'[p][d].status = "succeeded" <=> answer = "2xx"
        /\ mem'[p][d].status = "pending" => row[d].attempts + 1 < Attempts
        /\ mem'[p][d].status = "dead_letter" =>
              answer = "permanent" \/ row[d].attempts + 1 = Attempts
  BY <1>5, <1>6, AfterIs
<1>8. \A d \in Delivery :
        /\ posts[d] \in Nat /\ posts'[d] = IF d \in chunk THEN posts[d] + 1 ELSE posts[d]
        /\ oks[d] \in Nat
        /\ oks'[d] = IF d \in chunk /\ answer \in Accepted THEN oks[d] + 1 ELSE oks[d]
  BY <1>1 DEF TypeOK
<1>9. refused \subseteq refused' /\ (answer = "permanent" => chunk \subseteq refused')
  BY <1>1
<1>10. TypeOK'
  <2>1. mem' \in [Dispatcher -> [Delivery -> Row]]
    <3>1. \A d \in Delivery : mem'[p][d] \in Row
      BY <1>5, <1>7 DEF TypeOK
    <3>2. DOMAIN mem' = Dispatcher /\ \A q \in Dispatcher \ {p} : mem'[q] \in [Delivery -> Row]
      BY <1>1, <1>4 DEF TypeOK
    <3>3. mem'[p] \in [Delivery -> Row]
      BY <1>1, <3>1 DEF TypeOK
    <3>4. mem' = [q \in Dispatcher |-> mem'[q]]
      BY <1>1 DEF TypeOK
    <3> QED  BY <3>2, <3>3, <3>4
  <2>2. posts' \in [Delivery -> Nat] /\ oks' \in [Delivery -> Nat]
    BY <1>1 DEF TypeOK
  <2>3. group' \in [Dispatcher -> SUBSET Delivery] /\ refused' \subseteq Delivery /\ heard' \subseteq Delivery
    BY <1>1, <1>2, <1>3 DEF TypeOK
  <2> QED  BY <1>1, <2>1, <2>2, <2>3 DEF TypeOK
<1>11. Queued'
  BY <1>1 DEF Queued, Due
<1>12. ASSUME NEW q \in Dispatcher  PROVE Claims(q)'
  <2>1. Claims(q)
    OBVIOUS
  <2>2. CASE q = p
    <3>1. Unsent(p)' = Unsent(p) \ chunk
      BY <1>1, <1>2, <1>4, <2>1, <2>2 DEF Unsent, Claims
    <3>2. \A d \in Unsent(p)' : d \in Delivery /\ mem'[p][d] = mem[p][d]
      BY <1>3, <1>5, <3>1 DEF Unsent, TypeOK
    <3> QED  BY <1>1, <1>4, <2>1, <2>2, <3>1, <3>2 DEF Claims
  <2>3. CASE q # p
    BY <1>1, <1>4, <2>1, <2>3 DEF Claims, Unsent
  <2> QED  BY <2>2, <2>3
<1>13. AcceptedInv'
  <2> SUFFICES ASSUME NoneLost, NEW d \in heard'  PROVE Recorded(d)'
    BY <1>1 DEF AcceptedInv, NoneLost
  <2>1. d \in Delivery
    BY <1>1, <1>2, <1>3 DEF TypeOK
  <2>2. CASE d \in chunk /\ answer = "2xx"
    <3>1. d \in Done(p)' /\ mem'[p][d].status = "succeeded"
      BY <1>1, <1>2, <1>4, <1>6, <1>7, <2>2 DEF Done, Unsent, Claims
    <3> QED  BY <3>1 DEF Recorded
  <2>3. CASE d \in heard
    <3>1. Recorded(d)
      BY <2>3 DEF AcceptedInv
    <3>2. d \notin chunk
      BY <1>6, <3>1 DEF Recorded, Done, Claims
    <3> QED  BY <1>1, <1>4, <1>5, <2>1, <3>1, <3>2 DEF Recorded, Done, Unsent
  <2> QED  BY <1>1, <2>2, <2>3
<1>14. \A d \in Delivery, r \in Row : Truthful(d, r) => Truthful(d, r)'
  <2> SUFFICES ASSUME NEW d \in Delivery, NEW r \in Row, Truthful(d, r)  PROVE Truthful(d, r)'
    OBVIOUS
  <2>1. posts'[d] \in Nat /\ posts[d] <= posts'[d] /\ oks'[d] \in Nat /\ oks[d] <= oks'[d]
    BY <1>8
  <2> QED  BY <1>1, <1>9, <2>1, TruthStays
<1>15. Rows'
  BY <1>1, <1>14 DEF Rows, TypeOK
<1>16. Copies'
  <2> SUFFICES ASSUME NEW q \in Dispatcher, NEW d \in held[q]  PROVE Truthful(d, mem[q][d])'
    BY <1>1 DEF Copies
  <2>1. d \in Delivery /\ mem[q][d] \in Row /\ Truthful(d, mem[q][d])
    BY DEF Copies, TypeOK
  <2>2. CASE q = p /\ d \in chunk
    <3>1. /\ mem'[p][d].attempts = row[d].attempts + 1
          /\ row[d].attempts \in Nat /\ Attempts \in Nat
          /\ row[d].attempts <= posts[d] /\ posts'[d] = posts[d] + 1
      BY <1>6, <1>7, <1>8, <2>2, Bounds DEF Truthful, Row
    <3>2. mem'[p][d].attempts <= posts'[d]
      BY <1>8, <2>1, <3>1
    <3>3. mem'[p][d].status \notin Settled => mem'[p][d].attempts < Attempts
      BY <1>7, <2>2 DEF Settled
    <3>4. mem'[p][d].status = "succeeded" => oks'[d] > 0
      BY <1>7, <1>8, <2>1, <2>2 DEF Accepted
    <3>5. mem'[p][d].status = "dead_letter" => posts'[d] >= Attempts \/ d \in refused'
      BY <1>7, <1>8, <1>9, <2>1, <2>2, <3>1
    <3> QED  BY <2>2, <3>2, <3>3, <3>4, <3>5 DEF Truthful
  <2>3. CASE ~(q = p /\ d \in chunk)
    <3>1. mem'[q][d] = mem[q][d]
      BY <1>4, <1>5, <2>1, <2>3
    <3> QED  BY <1>14, <2>1, <3>1
  <2> QED  BY <2>2, <2>3
<1> QED  BY <1>1, <1>10, <1>11, <1>12, <1>13, <1>15, <1>16

\* What Commit and Crash have in common: the rows are not held any more.
LEMMA ReleaseIs ==
    ASSUME TypeOK, NEW p \in Dispatcher, Release(p)
    PROVE  /\ held' \in [Dispatcher -> SUBSET Delivery] /\ held'[p] = {}
           /\ mem' \in [Dispatcher -> [Delivery -> Row]]
           /\ \A q \in Dispatcher \ {p} : held'[q] = held[q] /\ mem'[q] = mem[q]
<1>1. [status |-> "none", attempts |-> 0] \in Row
  BY Bounds DEF Row
<1> QED  BY <1>1 DEF Release, TypeOK

LEMMA CommitKeeps ==
    ASSUME IInv, NEW p \in Dispatcher, Commit(p)
    PROVE  /\ IInv'
           /\ \A d \in Delivery : row[d].status \in Settled => row'[d] = row[d]
<1> USE DEF IInv
<1> DEFINE place(d) == Cardinality({e \in Due \ held[p] : turn[e] <= turn[d]})
<1>1. /\ todo[p] = {} /\ group[p] = {}
      /\ row' = [d \in Delivery |-> IF d \in held[p] THEN mem[p][d] ELSE row[d]]
      /\ turn' = [d \in Delivery |-> IF d \in held[p] THEN 0 ELSE place(d)]
      /\ Release(p)
      /\ UNCHANGED <<active, todo, group, posts, oks, heard, refused, eventless, budget>>
  BY DEF Commit
<1>2. /\ held' \in [Dispatcher -> SUBSET Delivery] /\ held'[p] = {}
      /\ mem' \in [Dispatcher -> [Delivery -> Row]]
      /\ \A q \in Dispatcher \ {p} : held'[q] = held[q] /\ mem'[q] = mem[q]
  BY <1>1, ReleaseIs
<1>3. \A d \in Delivery : place(d) \in Nat /\ (d \notin Due => place(d) = 0)
  <2> TAKE d \in Delivery
  <2> DEFINE earlier == {e \in Due \ held[p] : turn[e] <= turn[d]}
  <2>1. IsFiniteSet(earlier) /\ Cardinality(earlier) \in Nat
    BY FS_Subset, FS_CardinalityType DEF Queued
  <2>2. d \notin Due => earlier = {}
    BY DEF Due, TypeOK
  <2> QED  BY <2>1, <2>2, FS_EmptySet
<1> HIDE DEF place
<1>4. turn' \in [Delivery -> Nat] /\ Due' = {d \in Delivery : d \notin held[p] /\ place(d) > 0}
  BY <1>1, <1>3 DEF Due
<1>5. Due' \subseteq Due \ held[p] /\ IsFiniteSet(Due')
  <2>1. Due' \subseteq Due \ held[p]
    BY <1>3, <1>4
  <2> QED  BY <2>1, FS_Subset DEF Queued
<1>6. \A d \in Delivery : row'[d] = IF d \in held[p] THEN mem[p][d] ELSE row[d]
  BY <1>1
<1>7. TypeOK'
  <2>1. row' \in [Delivery -> Row]
    BY <1>1 DEF TypeOK
  <2> QED  BY <1>1, <1>2, <1>4, <2>1 DEF TypeOK
<1>8. Queued'
  <2>1. \A d \in Due' : row'[d].status = "pending"
    BY <1>5, <1>6 DEF Queued, Due
  <2> QED  BY <1>5, <2>1 DEF Queued
<1>9. ASSUME NEW q \in Dispatcher  PROVE Claims(q)'
  <2>1. Claims(q) /\ held[q] \subseteq Delivery
    BY DEF TypeOK
  <2>2. CASE q = p
    BY <1>1, <1>2, <2>2 DEF Claims, Unsent
  <2>3. CASE q # p
    <3>1. \A d \in held[q] : row'[d] = row[d]
      BY <1>6, <2>1, <2>3 DEF Claims
    <3> QED  BY <1>1, <1>2, <2>1, <2>3, <3>1 DEF Claims, Unsent
  <2> QED  BY <2>2, <2>3
<1>10. AcceptedInv'
  <2>1. ASSUME NEW d \in Delivery, Recorded(d)  PROVE Recorded(d)'
    <3>1. CASE row[d].status = "succeeded"
      BY <1>6, <3>1 DEF Recorded, Claims
    <3>2. CASE d \in Done(p) /\ mem[p][d].status = "succeeded"
      BY <1>6, <3>2 DEF Recorded, Done
    <3>3. CASE \E q \in Dispatcher \ {p} : d \in Done(q) /\ mem[q][d].status = "succeeded"
      BY <1>1, <1>2, <3>3 DEF Recorded, Done, Unsent
    <3> QED  BY <2>1, <3>1, <3>2, <3>3 DEF Recorded
  <2> QED  BY <1>1, <2>1 DEF AcceptedInv, NoneLost, TypeOK
<1>11. Rows'
  BY <1>1, <1>6 DEF Rows, Copies, Truthful
<1>12. Copies'
  BY <1>1, <1>2 DEF Copies, Truthful
<1>13. \A d \in Delivery : row[d].status \in Settled => row'[d] = row[d]
  BY <1>6 DEF Claims, Settled
<1> QED  BY <1>1, <1>7, <1>8, <1>9, <1>10, <1>11, <1>12, <1>13

LEMMA CrashKeeps ==
    ASSUME IInv, NEW p \in Dispatcher, Crash(p)
    PROVE  IInv'
<1> USE DEF IInv
<1>1. /\ budget.crash > 0 /\ budget' = [budget EXCEPT !.crash = @ - 1]
      /\ todo' = [todo EXCEPT ![p] = {}] /\ group' = [group EXCEPT ![p] = {}]
      /\ Release(p)
      /\ UNCHANGED <<row, turn, active, posts, oks, heard, refused, eventless>>
  BY DEF Crash
<1>2. /\ held' \in [Dispatcher -> SUBSET Delivery] /\ held'[p] = {}
      /\ mem' \in [Dispatcher -> [Delivery -> Row]]
      /\ \A q \in Dispatcher \ {p} : held'[q] = held[q] /\ mem'[q] = mem[q]
  BY <1>1, ReleaseIs
<1>3. /\ budget' \in [{"crash", "disable"} -> Nat]
      /\ budget'.crash < MaxCrashes
  BY <1>1, Bounds DEF TypeOK
<1>4. /\ todo'[p] = {} /\ group'[p] = {}
      /\ \A q \in Dispatcher \ {p} : todo'[q] = todo[q] /\ group'[q] = group[q]
  BY <1>1 DEF TypeOK
<1>5. TypeOK'
  BY <1>1, <1>2, <1>3 DEF TypeOK
<1>6. Queued'
  BY <1>1 DEF Queued, Due
<1>7. ASSUME NEW q \in Dispatcher  PROVE Claims(q)'
  <2>1. Claims(q)
    OBVIOUS
  <2>2. CASE q = p
    BY <1>2, <1>4, <2>2 DEF Claims, Unsent
  <2>3. CASE q # p
    BY <1>1, <1>2, <1>4, <2>1, <2>3 DEF Claims, Unsent
  <2> QED  BY <2>2, <2>3
<1>8. AcceptedInv'
  BY <1>3, Bounds DEF AcceptedInv, NoneLost, TypeOK
<1>9. Rows' /\ Copies'
  BY <1>1, <1>2 DEF Rows, Copies, Truthful
<1>10. budget'.crash <= MaxCrashes
  BY <1>3, Bounds
<1> QED  BY <1>5, <1>6, <1>7, <1>8, <1>9, <1>10

LEMMA StepKeeps == IInv /\ [Next]_vars => IInv'
<1> SUFFICES ASSUME IInv, [Next]_vars  PROVE IInv'
  OBVIOUS
<1>1. CASE UNCHANGED vars
  BY <1>1 DEF vars, IInv, TypeOK, Queued, Due, Claims, Unsent, AcceptedInv, NoneLost, Recorded,
              Done, Rows, Copies, Truthful
<1>2. ASSUME NEW d \in Delivery, Enqueue(d) \/ BecomeDue(d)  PROVE IInv'
  BY <1>2, EnqueueKeeps, BecomeDueKeeps
<1>3. ASSUME NEW t \in Dest, Disable(t)  PROVE IInv'
  BY <1>3, DisableKeeps
<1>4. ASSUME NEW p \in Dispatcher, Claim(p) \/ Crash(p)  PROVE IInv'
  BY <1>4, ClaimKeeps, CrashKeeps
<1>5. ASSUME NEW p \in Dispatcher, Work(p)  PROVE IInv'
  BY <1>5, OpenGroupKeeps, SendChunkKeeps, DropGroupKeeps, CommitKeeps DEF Work
<1> QED  BY <1>1, <1>2, <1>3, <1>4, <1>5 DEF Next

\* Who is on record as accepted, or about to be, is in no chunk.
LEMMA HeardStays ==
    IInv /\ [Next]_vars => (NoneLost => \A d \in heard : posts'[d] = posts[d])
<1> SUFFICES ASSUME IInv, [Next]_vars, NoneLost, NEW d \in heard  PROVE posts'[d] = posts[d]
  OBVIOUS
<1>1. d \in Delivery /\ Recorded(d)
  BY DEF IInv, TypeOK, AcceptedInv
<1>2. CASE UNCHANGED posts
  BY <1>2
<1>3. ASSUME NEW p \in Dispatcher, NEW answer \in Answer, SendChunk(p, answer)
      PROVE  posts'[d] = posts[d]
  <2> DEFINE chunk == Oldest(group[p], ChunkLimit)
  <2>1. chunk \subseteq group[p]
    BY OldestIsPart
  <2>2. posts'[d] = IF d \in chunk THEN posts[d] + 1 ELSE posts[d]
    BY <1>1, <1>3 DEF SendChunk
  <2> HIDE DEF chunk
  <2>3. d \notin group[p]
    BY <1>1 DEF IInv, Claims, Recorded, Done, Unsent
  <2> QED  BY <2>1, <2>2, <2>3
<1>4. Next => \/ UNCHANGED posts
              \/ \E p \in Dispatcher, answer \in Answer : SendChunk(p, answer)
  BY DEF Next, Work, Enqueue, BecomeDue, Disable, Claim, OpenGroup, DropGroup, Commit, Crash
<1> QED  BY <1>2, <1>3, <1>4 DEF vars

LEMMA SettledStays ==
    IInv /\ [Next]_vars =>
        \A d \in Delivery : row[d].status \in Settled => row'[d].status = row[d].status
<1> SUFFICES ASSUME IInv, [Next]_vars, NEW d \in Delivery, row[d].status \in Settled
             PROVE  row'[d] = row[d]
  OBVIOUS
<1>1. CASE UNCHANGED row
  BY <1>1
<1>2. ASSUME NEW e \in Delivery, Enqueue(e)  PROVE row'[d] = row[d]
  BY <1>2 DEF Enqueue, Settled, IInv, TypeOK
<1>3. ASSUME NEW p \in Dispatcher, Commit(p)  PROVE row'[d] = row[d]
  BY <1>3, CommitKeeps
<1>4. Next => \/ UNCHANGED row
              \/ \E e \in Delivery : Enqueue(e)
              \/ \E p \in Dispatcher : Commit(p)
  BY DEF Next, Work, BecomeDue, Disable, Claim, OpenGroup, SendChunk, DropGroup, Crash
<1> QED  BY <1>1, <1>2, <1>3, <1>4 DEF vars

-----------------------------------------------------------------------------
(* The theorems *)

\* In every reachable state the inductive invariant holds: what is due or locked is
\* pending, no two dispatchers lock a row, and every row that says how a delivery
\* ended - committed, or in a dispatcher's hands - is right about it (dispatch_due).
THEOREM Invariance == Spec => []IInv
BY InitIInv, StepKeeps, PTL DEF Spec

\* Every variable keeps its type: attempts never exceed the backoff schedule.
THEOREM TypeCorrect == Spec => []TypeOK
<1>1. IInv => TypeOK
  BY DEF IInv
<1> QED  BY <1>1, Invariance, PTL

\* An event whose acceptance a dispatcher has heard of is not sent again while none is
\* lost, however many overlap and however their chunks are answered (dispatch_due's row
\* locks).  One whose answer is lost may be.
THEOREM NeverDoubleSends == Spec => HeardIsNotResent
BY Invariance, HeardStays, PTL DEF Spec, HeardIsNotResent

\* No step changes the status of a settled delivery (_process_group's commit).
THEOREM SettledStaysSettled == Spec => SettledIsFinal
BY Invariance, SettledStays, PTL DEF Spec, SettledIsFinal

\* A delivery on record as succeeded was accepted, also when dispatchers are lost
\* between the request and the commit (_send_chunk).
THEOREM SuccessIsReal == Spec => []SucceededWasAccepted
<1>1. IInv => SucceededWasAccepted
  BY DEF IInv, Rows, Truthful, SucceededWasAccepted
<1> QED  BY <1>1, Invariance, PTL

\* A delivery is given up only after all its attempts, a refusal for good, or the
\* end of its configuration or of its event (_schedule_retry_or_dead_letter).
THEOREM NothingGivenUpEarly == Spec => []GivesUpLast
<1>1. IInv => GivesUpLast
  BY DEF IInv, Rows, Truthful, GivesUpLast
<1> QED  BY <1>1, Invariance, PTL

=============================================================================
