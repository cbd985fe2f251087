--------------------------- MODULE ChatPage_proofs ---------------------------
(***************************************************************************)
(* TLAPS proofs about ChatPage: what its requests do to the runs, and what *)
(* its stream shows of one, for any requests, persons, polls and bounds.   *)
(***************************************************************************)
EXTENDS ChatPage, FiniteSetTheorems, SequenceTheorems, TLAPS

-----------------------------------------------------------------------------
(* The inductive invariant: what a request has in hand at each of its steps *)

Typed ==
    /\ request \in [Request -> RequestRow \cup {None}]
    /\ convOwner \in [Conversation -> Person \cup {None}]
    /\ message \in [Request -> MessageRow \cup {None}]
    /\ run \in [Request -> RunRow \cup {None}]

\* Its own conversation has no owner before it opens one.
NoRoomYet ==
    \A q \in Request :
        request[q] = None \/ At(q, "find") \/ At(q, "conversation") => convOwner[q] = None

\* It is past the conversation with one that belongs to the caller.
OwnRoom ==
    \A q \in Request : At(q, "message") \/ At(q, "run") =>
        /\ request[q].conv \in Conversation
        /\ convOwner[request[q].conv] = request[q].person

OwnPrompt ==
    \A q \in Request : At(q, "run") =>
        message[q] = [conv |-> request[q].conv, sender |-> request[q].person]

\* It is past the run with one of its owner and key.
HasRun ==
    \A q \in Request : At(q, "enqueue") \/ At(q, "accepted") =>
        request[q].run \in RunsOf(request[q].person, request[q].key)

\* The request that made a run is past making it, and the run answers its prompt.
RunIsMade ==
    \A r \in Request : run[r] # None =>
        /\ At(r, "enqueue") \/ At(r, "accepted")
        /\ run[r].prompt = r

UniqueRun ==
    \A r, s \in Request :
        /\ run[r] # None /\ run[s] # None
        /\ run[r].owner = run[s].owner /\ run[r].key = run[s].key
        => r = s

SubmitInv ==
    Typed /\ NoRoomYet /\ OwnRoom /\ OwnPrompt /\ HasRun /\ RunIsMade /\ UniqueRun
    /\ RunHasItsPrompt

IInv == SubmitInv /\ active \in {None} \cup Conversation

-----------------------------------------------------------------------------
(* Rows *)

LEMMA NoneIsNoRow ==
    /\ \A q \in RequestRow : q # None
    /\ \A m \in MessageRow : m # None
    /\ \A r \in RunRow : r # None
    /\ \A p \in Person : p # None
BY SubmissionAssumption

Phases == {"find", "conversation", "message", "run", "enqueue", "accepted", "refused"}

\* A request that moves on keeps who it is of and its key.
Moved(q, c, r, phase) ==
    request' = [request EXCEPT ![q] =
        [person |-> request[q].person, key |-> request[q].key, conv |-> c, run |-> r,
         phase |-> phase]]

RowField == {"person", "key", "conv", "run", "phase"}

\* Two fields of a row are set at once.
LEMMA RowSet ==
    ASSUME NEW x \in RequestRow, NEW c, NEW r, NEW phase
    PROVE  /\ [x EXCEPT !.phase = phase, !.run = r]
              = [person |-> x.person, key |-> x.key, conv |-> x.conv, run |-> r,
                 phase |-> phase]
           /\ [x EXCEPT !.conv = c, !.phase = phase]
              = [person |-> x.person, key |-> x.key, conv |-> c, run |-> x.run,
                 phase |-> phase]
<1>1. DOMAIN x = RowField
  BY DEF RequestRow, RowField
<1> DEFINE z == [f \in RowField |->
                    IF f = "run" THEN r ELSE IF f = "phase" THEN phase ELSE x[f]]
           w == [f \in RowField |->
                    IF f = "conv" THEN c ELSE IF f = "phase" THEN phase ELSE x[f]]
<1>2. [x EXCEPT !.phase = phase, !.run = r] = z
  BY <1>1
<1>3. [x EXCEPT !.conv = c, !.phase = phase] = w
  BY <1>1
<1>4. z = [person |-> x.person, key |-> x.key, conv |-> x.conv, run |-> r, phase |-> phase]
  BY DEF RowField
<1>5. w = [person |-> x.person, key |-> x.key, conv |-> c, run |-> x.run, phase |-> phase]
  BY DEF RowField
<1> QED  BY <1>2, <1>3, <1>4, <1>5

LEMMA GoToMoves ==
    ASSUME Typed, NEW q \in Request, request[q] # None, NEW phase \in Phases, GoTo(q, phase)
    PROVE  Moved(q, request[q].conv, request[q].run, phase)
<1>1. request[q] \in RequestRow
  BY DEF Typed
<1> DEFINE y == [request[q] EXCEPT !.phase = phase]
<1>2. request' = [request EXCEPT ![q] = y]
  BY DEF GoTo
<1>3. y = [person |-> request[q].person, key |-> request[q].key, conv |-> request[q].conv,
           run |-> request[q].run, phase |-> phase]
  BY <1>1 DEF RequestRow
<1> QED  BY <1>2, <1>3 DEF Moved

LEMMA MovedIs ==
    ASSUME Typed, NEW q \in Request, request[q] # None, NEW c \in Conversation \cup {None},
           NEW r \in Request \cup {None}, NEW phase \in Phases, Moved(q, c, r, phase)
    PROVE  /\ request' \in [Request -> RequestRow \cup {None}]
           /\ request'[q] # None /\ request'[q] \in RequestRow
           /\ request'[q].person = request[q].person
           /\ request'[q].key = request[q].key
           /\ request'[q].conv = c /\ request'[q].run = r /\ request'[q].phase = phase
           /\ \A p \in Request \ {q} : request'[p] = request[p]
<1> DEFINE y == [person |-> request[q].person, key |-> request[q].key, conv |-> c, run |-> r,
                 phase |-> phase]
<1>1. request[q] \in RequestRow
  BY DEF Typed
<1>2. y \in RequestRow
  BY <1>1 DEF RequestRow, Phases
<1>3. request' = [request EXCEPT ![q] = y]
  BY DEF Moved
<1>4. y # None
  BY <1>2, NoneIsNoRow
<1> QED  BY <1>2, <1>3, <1>4 DEF Typed

-----------------------------------------------------------------------------
(* The steps keep the invariant *)

LEMMA SubmitKeeps ==
    ASSUME SubmitInv, NEW q \in Request, NEW person \in Person, NEW key \in Request,
           NEW conv \in {None} \cup Conversation, Submit(q, person, key, conv)
    PROVE  SubmitInv'
<1> DEFINE y == [person |-> person, key |-> key, conv |-> conv, run |-> None, phase |-> "find"]
<1>1. /\ request[q] = None /\ request' = [request EXCEPT ![q] = y]
      /\ UNCHANGED <<convOwner, message, run>>
  BY DEF Submit
<1>2. y \in RequestRow /\ y # None
  BY NoneIsNoRow DEF RequestRow
<1>3. Typed'
  BY <1>1, <1>2 DEF SubmitInv, Typed
<1>4. /\ request'[q] = y
      /\ \A p \in Request \ {q} : request'[p] = request[p]
  BY <1>1 DEF SubmitInv, Typed
<1>5. NoRoomYet' /\ OwnRoom' /\ OwnPrompt'
  BY <1>1, <1>4 DEF SubmitInv, NoRoomYet, OwnRoom, OwnPrompt, At
<1>6. HasRun' /\ RunIsMade' /\ UniqueRun' /\ RunHasItsPrompt'
  BY <1>1, <1>4 DEF SubmitInv, HasRun, RunIsMade, UniqueRun, RunHasItsPrompt, RunsOf, At
<1> QED  BY <1>3, <1>5, <1>6 DEF SubmitInv

\* A request that moves on without a change of the tables.
LEMMA MoveKeeps ==
    ASSUME SubmitInv, NEW q \in Request, request[q] # None,
           NEW r \in Request \cup {None}, NEW phase \in Phases,
           Moved(q, request[q].conv, r, phase), UNCHANGED <<convOwner, message, run>>,
           phase \in {"enqueue", "accepted"} => r \in RunsOf(request[q].person, request[q].key),
           At(q, "enqueue") \/ At(q, "accepted") => phase \in {"enqueue", "accepted"},
           phase \in {"find", "conversation"} => At(q, "find"),
           phase = "message" => /\ request[q].conv \in Conversation
                                /\ convOwner[request[q].conv] = request[q].person,
           phase # "run"
    PROVE  SubmitInv'
<1>1. /\ request' \in [Request -> RequestRow \cup {None}]
      /\ request'[q] # None
      /\ request'[q].person = request[q].person
      /\ request'[q].key = request[q].key
      /\ request'[q].conv = request[q].conv /\ request'[q].run = r
      /\ request'[q].phase = phase
      /\ \A p \in Request \ {q} : request'[p] = request[p]
  <2>1. request[q].conv \in Conversation \cup {None}
    BY DEF SubmitInv, Typed, RequestRow
  <2> QED  BY <2>1, MovedIs DEF SubmitInv
<1>2. Typed'
  BY <1>1 DEF SubmitInv, Typed
<1>3. NoRoomYet' /\ OwnRoom' /\ OwnPrompt'
  BY <1>1 DEF SubmitInv, NoRoomYet, OwnRoom, OwnPrompt, At
<1>4. HasRun'
  BY <1>1 DEF SubmitInv, HasRun, RunsOf, At
<1>5. RunIsMade'
  BY <1>1 DEF SubmitInv, RunIsMade, At
<1>6. UniqueRun' /\ RunHasItsPrompt'
  BY DEF SubmitInv, UniqueRun, RunHasItsPrompt
<1> QED  BY <1>2, <1>3, <1>4, <1>5, <1>6 DEF SubmitInv

LEMMA FindRunKeeps ==
    ASSUME SubmitInv, NEW q \in Request, FindRun(q)
    PROVE  SubmitInv'
<1> DEFINE found == RunsOf(request[q].person, request[q].key)
<1>1. /\ At(q, "find") /\ request[q] # None /\ request[q] \in RequestRow
      /\ UNCHANGED <<convOwner, message, run>>
  BY DEF FindRun, At, SubmitInv, Typed
<1>2. CASE GoTo(q, "conversation")
  <2>1. Moved(q, request[q].conv, request[q].run, "conversation")
    BY <1>1, <1>2, GoToMoves DEF SubmitInv, Phases
  <2>2. request[q].run \in Request \cup {None}
    BY <1>1 DEF RequestRow
  <2> QED  BY <1>1, <2>1, <2>2, MoveKeeps DEF At, Phases
<1>3. CASE \E r \in found : request' = [request EXCEPT ![q].phase = "accepted", ![q].run = r]
  <2>1. PICK r \in found : request' = [request EXCEPT ![q].phase = "accepted", ![q].run = r]
    BY <1>3
  <2>2. r \in Request \cup {None}
    BY <2>1 DEF RunsOf
  <2>3. Moved(q, request[q].conv, r, "accepted")
    <3> DEFINE y == [request[q] EXCEPT !.phase = "accepted", !.run = r]
    <3>1. request' = [request EXCEPT ![q] = y]
      BY <1>1, <2>1 DEF SubmitInv, Typed
    <3>2. y = [person |-> request[q].person, key |-> request[q].key, conv |-> request[q].conv,
               run |-> r, phase |-> "accepted"]
      BY <1>1, RowSet
    <3> QED  BY <3>1, <3>2 DEF Moved
  <2> QED  BY <1>1, <2>1, <2>2, <2>3, MoveKeeps DEF At, Phases
<1> QED  BY <1>2, <1>3 DEF FindRun

LEMMA OpenConversationKeeps ==
    ASSUME SubmitInv, NEW q \in Request, OpenConversation(q)
    PROVE  SubmitInv'
<1>1. /\ At(q, "conversation") /\ request[q] # None /\ request[q] \in RequestRow
      /\ UNCHANGED <<message, run>>
      /\ request[q].run \in Request \cup {None} /\ request[q].person \in Person
      /\ request[q].conv \in Conversation \cup {None}
  BY DEF OpenConversation, At, SubmitInv, Typed, RequestRow
<1>2. CASE request[q].conv # None
  <2>1. PICK phase \in {"message", "refused"} :
          GoTo(q, phase) /\ (phase = "message" => convOwner[request[q].conv] = request[q].person)
    BY <1>2 DEF OpenConversation, FindForUser
  <2>2. Moved(q, request[q].conv, request[q].run, phase) /\ UNCHANGED convOwner
    BY <1>1, <1>2, <2>1, GoToMoves DEF SubmitInv, Phases, OpenConversation
  <2> QED  BY <1>1, <1>2, <2>1, <2>2, MoveKeeps DEF At, Phases
<1>3. CASE request[q].conv = None
  <2>1. /\ convOwner' = [convOwner EXCEPT ![q] = request[q].person]
        /\ request' = [request EXCEPT ![q].conv = q, ![q].phase = "message"]
    BY <1>3 DEF OpenConversation
  <2>2. q \in Conversation
    BY DEF Conversation
  <2>3. Moved(q, q, request[q].run, "message")
    <3> DEFINE y == [request[q] EXCEPT !.conv = q, !.phase = "message"]
    <3>1. request' = [request EXCEPT ![q] = y]
      BY <1>1, <2>1 DEF SubmitInv, Typed
    <3>2. y = [person |-> request[q].person, key |-> request[q].key, conv |-> q,
               run |-> request[q].run, phase |-> "message"]
      BY <1>1, RowSet
    <3> QED  BY <3>1, <3>2 DEF Moved
  <2>4. /\ request' \in [Request -> RequestRow \cup {None}]
        /\ request'[q] # None
        /\ request'[q].person = request[q].person
        /\ request'[q].key = request[q].key
        /\ request'[q].conv = q /\ request'[q].run = request[q].run
        /\ request'[q].phase = "message"
        /\ \A p \in Request \ {q} : request'[p] = request[p]
    BY <1>1, <2>2, <2>3, MovedIs DEF SubmitInv, Phases
  <2>5. /\ convOwner'[q] = request[q].person /\ convOwner[q] = None
        /\ \A c \in Conversation \ {q} : convOwner'[c] = convOwner[c]
    BY <1>1, <2>1, <2>2 DEF SubmitInv, Typed, NoRoomYet
  <2>6. Typed'
    BY <1>1, <2>1, <2>2, <2>4 DEF SubmitInv, Typed
  <2>7. NoRoomYet'
    BY <2>4, <2>5 DEF SubmitInv, NoRoomYet, At, Conversation
  <2>8. \A c \in Conversation, p \in Person : convOwner[c] = p => convOwner'[c] = p
    BY <2>5, NoneIsNoRow
  <2>9. OwnRoom'
    <3> SUFFICES ASSUME NEW p \in Request, At(p, "message")' \/ At(p, "run")'
                 PROVE  /\ request'[p].conv \in Conversation
                        /\ convOwner'[request'[p].conv] = request'[p].person
      BY DEF OwnRoom, At
    <3>1. CASE p = q
      BY <2>2, <2>4, <2>5, <3>1
    <3>2. CASE p # q
      <4>1. request'[p] = request[p] /\ (At(p, "message") \/ At(p, "run"))
        BY <2>4, <3>2 DEF At
      <4>2. request[p].person \in Person
        BY <4>1 DEF SubmitInv, Typed, RequestRow, At
      <4> QED  BY <2>8, <4>1, <4>2 DEF SubmitInv, OwnRoom
    <3> QED  BY <3>1, <3>2
  <2>10. OwnPrompt' /\ HasRun' /\ RunIsMade'
    BY <1>1, <2>4 DEF SubmitInv, OwnPrompt, HasRun, RunIsMade, RunsOf, At
  <2>11. UniqueRun'
    BY <1>1 DEF SubmitInv, UniqueRun
  <2>12. RunHasItsPrompt'
    <3> SUFFICES ASSUME NEW r \in Request, run[r] # None
                 PROVE  /\ message[run[r].prompt] = [conv |-> run[r].conv, sender |-> run[r].owner]
                        /\ convOwner'[run[r].conv] = run[r].owner
      BY <1>1 DEF RunHasItsPrompt
    <3>1. run[r].conv \in Conversation /\ run[r].owner \in Person
      BY DEF SubmitInv, Typed, RunRow
    <3> QED  BY <2>8, <3>1 DEF SubmitInv, RunHasItsPrompt
  <2> QED  BY <2>6, <2>7, <2>9, <2>10, <2>11, <2>12 DEF SubmitInv
<1> QED  BY <1>2, <1>3

LEMMA AddMessageKeeps ==
    ASSUME SubmitInv, NEW q \in Request, AddMessage(q)
    PROVE  SubmitInv'
<1> DEFINE m == [conv |-> request[q].conv, sender |-> request[q].person]
<1>1. /\ At(q, "message") /\ request[q] # None /\ request[q] \in RequestRow
      /\ UNCHANGED <<convOwner, run>>
      /\ message' = [message EXCEPT ![q] = m]
      /\ request[q].run \in Request \cup {None} /\ request[q].person \in Person
      /\ request[q].conv \in Conversation
  BY DEF AddMessage, At, SubmitInv, Typed, RequestRow, OwnRoom
<1>2. Moved(q, request[q].conv, request[q].run, "run")
  BY <1>1, GoToMoves DEF AddMessage, SubmitInv, Phases
<1>3. /\ request' \in [Request -> RequestRow \cup {None}]
      /\ request'[q] # None
      /\ request'[q].person = request[q].person
      /\ request'[q].key = request[q].key
      /\ request'[q].conv = request[q].conv /\ request'[q].run = request[q].run
      /\ request'[q].phase = "run"
      /\ \A p \in Request \ {q} : request'[p] = request[p]
  BY <1>1, <1>2, MovedIs DEF SubmitInv, Phases
<1>4. Typed'
  <2>1. m \in MessageRow
    BY <1>1 DEF MessageRow
  <2> QED  BY <1>1, <1>3, <2>1 DEF SubmitInv, Typed
<1>5. message'[q] = m /\ \A p \in Request \ {q} : message'[p] = message[p]
  BY <1>1 DEF SubmitInv, Typed
<1>6. NoRoomYet' /\ OwnRoom' /\ HasRun' /\ RunIsMade'
  BY <1>1, <1>3 DEF SubmitInv, NoRoomYet, OwnRoom, HasRun, RunIsMade, RunsOf, At
<1>7. OwnPrompt'
  BY <1>3, <1>5 DEF SubmitInv, OwnPrompt, At
<1>8. UniqueRun'
  BY <1>1 DEF SubmitInv, UniqueRun
<1>9. RunHasItsPrompt'
  <2>1. run[q] = None
    BY <1>1 DEF SubmitInv, RunIsMade, At
  <2> QED  BY <1>1, <1>5, <2>1 DEF SubmitInv, RunHasItsPrompt, RunIsMade
<1> QED  BY <1>4, <1>6, <1>7, <1>8, <1>9 DEF SubmitInv

LEMMA CreateRunKeeps ==
    ASSUME SubmitInv, NEW q \in Request, CreateRun(q)
    PROVE  SubmitInv'
<1> DEFINE x == [owner |-> request[q].person, key |-> request[q].key,
                 conv |-> request[q].conv, prompt |-> q]
<1>1. /\ At(q, "run") /\ request[q] # None /\ request[q] \in RequestRow
      /\ UNCHANGED <<convOwner, message>>
      /\ request[q].run \in Request \cup {None} /\ request[q].person \in Person
      /\ request[q].key \in Request /\ request[q].conv \in Conversation
  BY DEF CreateRun, At, SubmitInv, Typed, RequestRow, OwnRoom
<1>2. run[q] = None
  BY <1>1 DEF SubmitInv, RunIsMade, At
<1>3. CASE Taken(q)
  <2>1. Moved(q, request[q].conv, request[q].run, "refused") /\ UNCHANGED run
    BY <1>1, <1>3, GoToMoves DEF CreateRun, SubmitInv, Phases
  <2> QED  BY <1>1, <2>1, MoveKeeps DEF At, Phases
<1>4. CASE ~Taken(q)
  <2>1. /\ run' = [run EXCEPT ![q] = x]
        /\ request' = [request EXCEPT ![q].phase = "enqueue", ![q].run = q]
    BY <1>4 DEF CreateRun
  <2>2. Moved(q, request[q].conv, q, "enqueue")
    <3> DEFINE y == [request[q] EXCEPT !.phase = "enqueue", !.run = q]
    <3>1. request' = [request EXCEPT ![q] = y]
      BY <1>1, <2>1 DEF SubmitInv, Typed
    <3>2. y = [person |-> request[q].person, key |-> request[q].key, conv |-> request[q].conv,
               run |-> q, phase |-> "enqueue"]
      <4>1. request[q] \in RequestRow
        BY <1>1
      <4> QED  BY <4>1, RowSet
    <3> QED  BY <3>1, <3>2 DEF Moved
  <2>3. /\ request' \in [Request -> RequestRow \cup {None}]
        /\ request'[q] # None
        /\ request'[q].person = request[q].person
        /\ request'[q].key = request[q].key
        /\ request'[q].conv = request[q].conv /\ request'[q].run = q
        /\ request'[q].phase = "enqueue"
        /\ \A p \in Request \ {q} : request'[p] = request[p]
    BY <1>1, <2>2, MovedIs DEF SubmitInv, Phases
  <2>4. x \in RunRow /\ x # None
    BY <1>1, NoneIsNoRow DEF RunRow
  <2>5. run'[q] = x /\ \A p \in Request \ {q} : run'[p] = run[p]
    BY <2>1 DEF SubmitInv, Typed
  <2>6. Typed'
    BY <1>1, <2>1, <2>3, <2>4 DEF SubmitInv, Typed
  <2>7. NoRoomYet' /\ OwnRoom' /\ OwnPrompt'
    BY <1>1, <2>3 DEF SubmitInv, NoRoomYet, OwnRoom, OwnPrompt, At
  <2>8. HasRun'
    BY <1>1, <1>2, <2>3, <2>4, <2>5 DEF SubmitInv, HasRun, RunsOf, At
  <2>9. RunIsMade'
    BY <2>3, <2>5 DEF SubmitInv, RunIsMade, At
  <2>10. UniqueRun'
    <3>1. \A p \in Request : run[p] # None => ~(run[p].owner = x.owner /\ run[p].key = x.key)
      BY <1>4 DEF Taken, RunsOf
    <3> QED  BY <2>5, <3>1 DEF SubmitInv, UniqueRun
  <2>11. RunHasItsPrompt'
    <3>1. /\ message[q] = [conv |-> x.conv, sender |-> x.owner]
          /\ convOwner[x.conv] = x.owner
      BY <1>1 DEF SubmitInv, OwnRoom, OwnPrompt
    <3> QED  BY <1>1, <2>5, <3>1 DEF SubmitInv, RunHasItsPrompt
  <2> QED  BY <2>6, <2>7, <2>8, <2>9, <2>10, <2>11 DEF SubmitInv
<1> QED  BY <1>3, <1>4

LEMMA EnqueueKeeps ==
    ASSUME SubmitInv, NEW q \in Request, Enqueue(q)
    PROVE  SubmitInv'
<1>1. /\ At(q, "enqueue") /\ request[q] # None /\ request[q] \in RequestRow
      /\ UNCHANGED <<convOwner, message, run>>
      /\ request[q].run \in Request \cup {None}
      /\ request[q].run \in RunsOf(request[q].person, request[q].key)
  BY DEF Enqueue, At, SubmitInv, Typed, RequestRow, HasRun
<1>2. Moved(q, request[q].conv, request[q].run, "accepted")
  BY <1>1, GoToMoves DEF Enqueue, SubmitInv, Phases
<1> QED  BY <1>1, <1>2, MoveKeeps DEF At, Phases

-----------------------------------------------------------------------------
(* The page *)

LEMMA InitIInv == PageInit => IInv
<1> SUFFICES ASSUME PageInit  PROVE IInv
  OBVIOUS
<1>1. /\ request = [q \in Request |-> None] /\ run = [q \in Request |-> None]
      /\ message = [q \in Request |-> None]
      /\ convOwner = [c \in Conversation |-> IF c \in DOMAIN Given THEN Given[c] ELSE None]
      /\ active \in {None} \cup DOMAIN Given
  BY DEF PageInit, SubmitInit
<1>2. convOwner \in [Conversation -> Person \cup {None}]
  BY <1>1, SubmissionAssumption
<1>3. \A q \in Request : convOwner[q] = None
  BY <1>1, SubmissionAssumption DEF Conversation
<1>4. SubmitInv
  BY <1>1, <1>2, <1>3 DEF SubmitInv, Typed, NoRoomYet, OwnRoom, OwnPrompt, HasRun, RunIsMade,
     UniqueRun, RunHasItsPrompt, At
<1> QED  BY <1>1, <1>4 DEF IInv, Conversation

LEMMA TablesStay ==
    ASSUME SubmitInv, UNCHANGED submitVars
    PROVE  SubmitInv'
BY DEF submitVars, SubmitInv, Typed, NoRoomYet, OwnRoom, OwnPrompt, HasRun, RunIsMade,
   UniqueRun, RunHasItsPrompt, RunsOf, At

LEMMA PostKeeps ==
    ASSUME IInv, NEW q \in Request, NEW text, Post(q, text)
    PROVE  IInv'
<1>1. Submit(q, User, q, active) /\ UNCHANGED active
  BY DEF Post
<1> QED  BY <1>1, SubmitKeeps, PageAssumption DEF IInv

\* Every step keeps the invariant.
LEMMA StepKeeps == IInv /\ [PageNext]_allVars => IInv'
<1> SUFFICES ASSUME IInv, [PageNext]_allVars  PROVE IInv'
  OBVIOUS
<1>1. ASSUME NEW q \in Request, SendMessage(q) \/ Retry(q)  PROVE IInv'
  BY <1>1, PostKeeps DEF SendMessage, Retry
<1>2. ASSUME NEW q \in Request, NEW o \in Request, Duplicate(q, o)  PROVE IInv'
  <2> DEFINE c == IF request[o].conv = o THEN None ELSE request[o].conv
  <2>1. request[o] \in RequestRow /\ Submit(q, User, request[o].key, c) /\ UNCHANGED active
    BY <1>2 DEF Duplicate, IInv, SubmitInv, Typed
  <2>2. request[o].key \in Request /\ c \in {None} \cup Conversation
    BY <2>1 DEF RequestRow
  <2> QED  BY <2>1, <2>2, SubmitKeeps, PageAssumption DEF IInv
<1>3. ASSUME NEW q \in Request, Accepted(q)  PROVE IInv'
  <2>1. At(q, "accepted") /\ UNCHANGED submitVars
    BY <1>3 DEF Accepted
  <2>2. run[request[q].run] \in RunRow
    BY <2>1 DEF IInv, SubmitInv, HasRun, RunsOf, Typed
  <2>3. active' \in {active, run[request[q].run].conv}
    BY <1>3 DEF Accepted, Redraw
  <2>4. active' \in {None} \cup Conversation
    BY <2>2, <2>3 DEF IInv, RunRow
  <2> QED  BY <2>1, <2>4, TablesStay DEF IInv
<1>4. ASSUME NEW q \in Request, Failed(q)  PROVE IInv'
  BY <1>4, TablesStay DEF Failed, IInv
<1>5. ASSUME NEW q \in Request, Serve(q), UNCHANGED pageVars  PROVE IInv'
  <2>1. UNCHANGED active
    BY <1>5 DEF pageVars
  <2>2. SubmitInv'
    BY <1>5, FindRunKeeps, OpenConversationKeeps, AddMessageKeeps, CreateRunKeeps, EnqueueKeeps
       DEF Serve, IInv
  <2> QED  BY <2>1, <2>2 DEF IInv
<1>6. ASSUME NEW c \in {None} \cup Conversation, SetActive(c)  PROVE IInv'
  BY <1>6, TablesStay DEF SetActive, Redraw, IInv
<1>7. CASE Stream
  BY <1>7, TablesStay DEF Stream, pageVars, IInv
<1>8. CASE UNCHANGED allVars
  BY <1>8, TablesStay DEF allVars, pageVars, IInv
<1> QED  BY <1>1, <1>2, <1>3, <1>4, <1>5, <1>6, <1>7, <1>8 DEF PageNext

-----------------------------------------------------------------------------
(* The stream's inductive invariant: what a poll has in hand *)

Up(s) == \A i, j \in 1..Len(s) : i < j => s[i] < s[j]

\* Some of the rows after a cursor, in order, and none between them left out.
Piece(batch, from) ==
    /\ batch \in Seq(Nat) /\ Up(batch)
    /\ ToSet(batch) \subseteq Visible(from)
    /\ \A i \in ToSet(batch) : \A j \in Visible(from) : j <= i => j \in ToSet(batch)

PollRow == [phase : {"idle", "run", "events", "send"}, from : Nat, sawEnd : BOOLEAN,
            batch : Seq(Nat)]

StreamInv ==
    /\ log \in Seq(Kind) /\ ended \in BOOLEAN
    /\ last \in 0..Len(log) /\ cursor \in 0..last
    /\ poll \in [Poll -> PollRow]
    /\ \A p \in Poll : poll[p].from <= last /\ Piece(poll[p].batch, poll[p].from)
    /\ ShowsPrefix

-----------------------------------------------------------------------------
(* Numbers in ascending order *)

LEMMA AscendingIs ==
    ASSUME NEW S \in SUBSET Nat, IsFiniteSet(S), NEW s \in Ascending(S)
    PROVE  /\ s \in Seq(S) /\ s \in Seq(Nat) /\ Len(s) = Cardinality(S) /\ ToSet(s) = S /\ Up(s)
<1> DEFINE n == Cardinality(S)
<1>1. n \in Nat /\ IsFiniteSet(1..n) /\ Cardinality(1..n) = n
  BY FS_CardinalityType, FS_Interval
<1>2. s \in [1..n -> S] /\ \A i, j \in 1..n : i < j => s[i] < s[j]
  BY DEF Ascending
<1> HIDE DEF n
<1>3. s \in Seq(S) /\ s \in Seq(Nat) /\ Len(s) = n /\ DOMAIN s = 1..n
  <2>1. s \in [1..n -> Nat] /\ DOMAIN s = 1..n
    BY <1>2
  <2>2. s \in Seq(S)
    BY <1>1, <1>2
  <2>3. s \in Seq(Nat)
    BY <1>1, <2>1
  <2>4. Len(s) = n
    BY <1>1, <2>1, <2>3, LenProperties
  <2> QED  BY <2>1, <2>2, <2>3, <2>4
<1>4. \A i, j \in 1..n : s[i] = s[j] => i = j
  <2>1. ASSUME NEW i \in 1..n, NEW j \in 1..n, i < j  PROVE s[i] # s[j]
    <3>1. s[i] \in Nat /\ s[j] \in Nat /\ s[i] < s[j]
      BY <1>2, <2>1
    <3> QED  BY <3>1
  <2>2. \A i, j \in 1..n : i < j \/ j < i \/ i = j
    BY <1>1
  <2> QED  BY <2>1, <2>2
<1>5. s \in Injection(1..n, S)
  BY <1>2, <1>3, <1>4 DEF Injection, IsInjective
<1>6. s \in Surjection(1..n, S)
  BY <1>1, <1>5, FS_Injection DEF n
<1>7. ToSet(s) = S
  BY <1>2, <1>3, <1>6 DEF ToSet, Surjection
<1> QED  BY <1>2, <1>3, <1>7 DEF Up, n

LEMMA JoinAscending ==
    ASSUME NEW S \in SUBSET Nat, IsFiniteSet(S), NEW s \in Ascending(S),
           NEW T \in SUBSET Nat, IsFiniteSet(T), NEW t \in Ascending(T),
           \A i \in S : \A j \in T : i < j
    PROVE  s \o t \in Ascending(S \cup T)
<1> DEFINE m == Cardinality(S)
           n == Cardinality(T)
           x == s \o t
<1>1. m \in Nat /\ n \in Nat /\ Cardinality(S \cup T) = m + n
  <2>1. S \cap T = {}
    <3> SUFFICES ASSUME NEW i \in S, i \in T  PROVE FALSE
      OBVIOUS
    <3>1. i < i /\ i \in Nat
      OBVIOUS
    <3> QED  BY <3>1
  <2>2. m \in Nat /\ n \in Nat /\ Cardinality(S \cap T) = 0
    BY <2>1, FS_CardinalityType, FS_EmptySet
  <2>3. Cardinality(S \cup T) = m + n - Cardinality(S \cap T)
    BY FS_Union
  <2> HIDE DEF m, n
  <2> QED  BY <2>2, <2>3
<1>2. /\ s \in Seq(S) /\ Len(s) = m /\ Up(s)
      /\ t \in Seq(T) /\ Len(t) = n /\ Up(t)
  BY AscendingIs
<1> HIDE DEF m, n
<1>3. s \in Seq(S \cup T) /\ t \in Seq(S \cup T)
  BY <1>2
<1>4. /\ x \in Seq(S \cup T) /\ Len(x) = m + n
      /\ \A i \in 1..m : x[i] = s[i] /\ s[i] \in S
      /\ \A i \in 1..(m + n) : ~(i <= m) => x[i] = t[i - m] /\ i - m \in 1..n /\ t[i - m] \in T
  BY <1>1, <1>2, <1>3
<1> HIDE DEF x
<1>5. ASSUME NEW i \in 1..(m + n), NEW j \in 1..(m + n), i < j  PROVE x[i] < x[j]
  <2>1. CASE j <= m
    <3>1. i \in 1..m /\ j \in 1..m
      BY <1>1, <1>5, <2>1
    <3> QED  BY <1>2, <1>4, <1>5, <3>1 DEF Up
  <2>2. CASE i <= m /\ ~(j <= m)
    <3>1. i \in 1..m
      BY <1>1, <2>2
    <3>2. x[i] \in S /\ x[j] \in T
      BY <1>4, <2>2, <3>1
    <3> QED  BY <3>2
  <2>3. CASE ~(i <= m)
    <3>1. ~(j <= m) /\ i - m < j - m
      BY <1>1, <1>5, <2>3
    <3> QED  BY <1>2, <1>4, <2>3, <3>1 DEF Up
  <2> QED  BY <1>1, <1>5, <2>1, <2>2, <2>3
<1>6. x \in [1..(m + n) -> S \cup T] /\ DOMAIN x = 1..(m + n)
  BY <1>1, <1>4
<1>7. x \in Ascending(S \cup T)
  BY <1>1, <1>5, <1>6 DEF Ascending
<1> QED  BY <1>7 DEF x

-----------------------------------------------------------------------------
(* Batches *)

LEMMA VisibleIsFinite ==
    ASSUME log \in Seq(Kind), NEW from
    PROVE  /\ Visible(from) \in SUBSET Nat /\ IsFiniteSet(Visible(from))
           /\ \A i \in Visible(from) : i \in 1..Len(log)
<1>1. Visible(from) \in SUBSET (1..Len(log)) /\ Len(log) \in Nat
  BY DEF Visible
<1>2. IsFiniteSet(1..Len(log))
  BY <1>1, FS_Interval
<1> QED  BY <1>1, <1>2, FS_Subset

\* What the handler reads after a cursor is a piece.
LEMMA FirstIsPiece ==
    ASSUME log \in Seq(Kind), NEW from, NEW batch \in Ascending(FirstOf(Visible(from)))
    PROVE  Piece(batch, from)
<1> DEFINE V == Visible(from)
           F == FirstOf(V)
           before(i) == {j \in V : j < i}
<1>1. V \in SUBSET Nat /\ IsFiniteSet(V) /\ F \in SUBSET V
  BY VisibleIsFinite DEF FirstOf
<1>2. F \in SUBSET Nat /\ IsFiniteSet(F)
  BY <1>1, FS_Subset
<1>3. batch \in Seq(Nat) /\ Up(batch) /\ ToSet(batch) = F
  BY <1>2, AscendingIs
<1>4. ASSUME NEW i \in F, NEW j \in V, j <= i  PROVE j \in F
  <2>1. before(j) \in SUBSET before(i)
    <3> SUFFICES ASSUME NEW k \in V, k < j  PROVE k < i
      OBVIOUS
    <3>1. k \in Nat /\ j \in Nat /\ i \in Nat
      BY <1>1
    <3> QED  BY <1>4, <3>1
  <2>2. IsFiniteSet(before(i))
    BY <1>1, FS_Subset
  <2>3. IsFiniteSet(before(j)) /\ Cardinality(before(j)) <= Cardinality(before(i))
    BY <2>1, <2>2, FS_Subset
  <2>4. Cardinality(before(i)) \in Nat /\ Cardinality(before(j)) \in Nat /\ BatchLimit \in Nat
    BY <2>2, <2>3, FS_CardinalityType, StreamAssumption
  <2>5. Cardinality(before(i)) < BatchLimit
    BY DEF FirstOf
  <2>6. Cardinality(before(j)) < BatchLimit
    BY <2>3, <2>4, <2>5
  <2> QED  BY <2>6 DEF FirstOf
<1> QED  BY <1>1, <1>3, <1>4 DEF Piece

LEMMA EmptyIsPiece ==
    ASSUME NEW from
    PROVE  Piece(<<>>, from)
BY DEF Piece, Up, ToSet

\* A part of a batch that arrives is one as well.
LEMMA CutIsPiece ==
    ASSUME NEW from, log \in Seq(Kind), NEW batch, Piece(batch, from), NEW k \in 1..Len(batch)
    PROVE  Piece(SubSeq(batch, 1, k), from)
<1> DEFINE b == SubSeq(batch, 1, k)
<1>1. batch \in Seq(Nat) /\ Len(batch) \in Nat /\ DOMAIN batch = 1..Len(batch) /\ Up(batch)
  BY DEF Piece
<1>2. b \in Seq(Nat) /\ Len(b) = k /\ \A i \in 1..k : b[i] = batch[i]
  BY <1>1
<1>3. DOMAIN b = 1..k
  BY <1>2
<1> HIDE DEF b
<1>4. Up(b)
  BY <1>1, <1>2 DEF Up
<1>5. ToSet(b) \subseteq ToSet(batch)
  BY <1>1, <1>2, <1>3 DEF ToSet
<1>6. ASSUME NEW i \in ToSet(b), NEW j \in Visible(from), j <= i  PROVE j \in ToSet(b)
  <2>1. PICK m \in 1..k : i = batch[m]
    BY <1>2, <1>3 DEF ToSet
  <2>2. PICK n \in 1..Len(batch) : j = batch[n]
    BY <1>1, <1>5, <1>6 DEF ToSet, Piece
  <2>3. ~(m < n)
    BY <1>1, <1>6, <2>1, <2>2 DEF Up
  <2>4. n \in 1..k
    BY <1>1, <2>3
  <2> QED  BY <1>2, <1>3, <2>2, <2>4 DEF ToSet
<1> QED  BY <1>2, <1>4, <1>5, <1>6 DEF Piece, b

\* The rows the client has if it has the visible ones up to n.
UpTo(n) == {i \in Visible(0) : i <= n}

\* A client that takes in a piece that begins where it is or before, and takes what is
\* new to it, shows all there is up to where it then is.
LEMMA ReceiveShows ==
    ASSUME StreamInv, NEW from \in Nat, from <= last, NEW batch, Piece(batch, from),
           Receive(batch), UNCHANGED <<log, detailed>>
    PROVE  /\ ShowsPrefix' /\ last' \in last..Len(log)
           /\ batch # <<>> => Last(batch) \in 0..last'
<1>1. PICK new \in Ascending(ToSet(batch) \ ToSet(shown)) : shown' = shown \o new
  BY DEF Receive
<1>2. last' = IF batch = <<>> \/ Last(batch) < last THEN last ELSE Last(batch)
  BY DEF Receive
<1> DEFINE S == UpTo(last)
           N == ToSet(batch) \ ToSet(shown)
<1>3. /\ Visible(0) \in SUBSET Nat /\ IsFiniteSet(Visible(0))
      /\ Visible(from) = {i \in Visible(0) : i > from}
      /\ last \in Nat /\ Len(log) \in Nat /\ last <= Len(log)
      /\ \A i \in Visible(0) : i \in 1..Len(log)
  BY VisibleIsFinite DEF StreamInv, Visible
<1>4. S \in SUBSET Nat /\ IsFiniteSet(S) /\ shown \in Ascending(S)
  BY <1>3, FS_Subset DEF StreamInv, ShowsPrefix, UpTo
<1>5. ToSet(shown) = S
  BY <1>4, AscendingIs
<1>6. /\ batch \in Seq(Nat) /\ ToSet(batch) \in SUBSET Visible(from) /\ Up(batch)
      /\ \A i \in ToSet(batch), j \in Visible(from) : j <= i => j \in ToSet(batch)
  BY DEF Piece
<1>7. N \in SUBSET Nat /\ IsFiniteSet(N) /\ N \in SUBSET Visible(0)
  BY <1>3, <1>6, FS_Subset
<1>8. \A i \in N : i > last
  BY <1>3, <1>5, <1>6 DEF UpTo
<1>9. last' \in Nat /\ last <= last' /\ last' <= Len(log) /\ S \cup N = UpTo(last')
      /\ (batch # <<>> => Last(batch) \in Nat /\ Last(batch) <= last')
  <2>1. CASE batch = <<>>
    <3>1. N = {} /\ last' = last
      BY <1>2, <2>1 DEF ToSet
    <3> QED  BY <1>3, <2>1, <3>1
  <2>2. CASE batch # <<>>
    <3> DEFINE top == Last(batch)
    <3>1. Len(batch) \in Nat /\ DOMAIN batch = 1..Len(batch) /\ Len(batch) \in 1..Len(batch)
      BY <1>6, <2>2
    <3>2. top \in ToSet(batch) /\ top \in Nat /\ top \in Visible(from) /\ top \in 1..Len(log)
      BY <1>3, <1>6, <3>1 DEF Last, ToSet
    <3>3. \A i \in ToSet(batch) : i <= top
      <4> SUFFICES ASSUME NEW m \in 1..Len(batch)  PROVE batch[m] <= batch[Len(batch)]
        BY <3>1 DEF ToSet, Last
      <4>1. batch[m] \in Nat /\ batch[Len(batch)] \in Nat
        BY <1>6, <3>1
      <4>2. m < Len(batch) => batch[m] < batch[Len(batch)]
        BY <1>6, <3>1 DEF Up
      <4>3. m \in Nat /\ m <= Len(batch) /\ Len(batch) \in Nat
        BY <3>1
      <4>4. m < Len(batch) \/ m = Len(batch)
        BY <4>3
      <4> QED  BY <4>1, <4>2, <4>4
    <3> HIDE DEF top
    <3>4. CASE top < last
      <4>1. N = {}
        <5> SUFFICES ASSUME NEW i \in N  PROVE FALSE
          OBVIOUS
        <5>1. i \in Nat /\ i > last /\ i <= top
          BY <1>7, <1>8, <3>3
        <5> QED  BY <1>3, <3>2, <3>4, <5>1
      <4>2. last' = last
        BY <1>2, <3>4 DEF top
      <4> QED  BY <1>3, <3>2, <3>4, <4>1, <4>2 DEF top
    <3>5. CASE ~(top < last)
      <4>1. last' = top
        BY <1>2, <2>2, <3>5 DEF top
      <4>2. \A i \in UpTo(top) : i \in S \cup N
        <5> SUFFICES ASSUME NEW i \in Visible(0), i <= top, ~(i <= last)  PROVE i \in N
          BY DEF UpTo
        <5>1. i \in Nat /\ i > from
          BY <1>3
        <5>2. i \in ToSet(batch)
          BY <1>3, <1>6, <3>2, <5>1
        <5> QED  BY <1>5, <5>2 DEF UpTo
      <4>3. \A i \in S \cup N : i \in UpTo(top)
        <5>1. \A i \in N : i \in UpTo(top)
          BY <1>7, <3>3 DEF UpTo
        <5>2. \A i \in S : i \in UpTo(top)
          BY <1>3, <3>2, <3>5 DEF UpTo
        <5> QED  BY <5>1, <5>2
      <4> QED  BY <1>3, <3>2, <3>5, <4>1, <4>2, <4>3 DEF top
    <3> QED  BY <3>4, <3>5
  <2> QED  BY <2>1, <2>2
<1>10. shown' \in Ascending(UpTo(last'))
  <2>1. \A i \in S : \A j \in N : i < j
    BY <1>3, <1>7, <1>8 DEF UpTo
  <2>2. shown \o new \in Ascending(S \cup N)
    BY <1>1, <1>4, <1>7, <2>1, JoinAscending
  <2> QED  BY <1>1, <1>9, <2>2
<1>11. ShowsPrefix'
  BY <1>10 DEF ShowsPrefix, UpTo, Visible
<1> QED  BY <1>3, <1>9, <1>11

-----------------------------------------------------------------------------
(* The steps of the stream keep its invariant *)

\* Two fields of a poll are set at once.
LEMMA PollSet ==
    ASSUME NEW x \in PollRow, NEW a \in {"idle", "run", "events", "send"}
    PROVE  /\ \A b \in BOOLEAN :
                 /\ [x EXCEPT !.phase = a, !.sawEnd = b] \in PollRow
                 /\ [x EXCEPT !.phase = a, !.sawEnd = b].from = x.from
                 /\ [x EXCEPT !.phase = a, !.sawEnd = b].batch = x.batch
           /\ \A c \in Seq(Nat) :
                 /\ [x EXCEPT !.phase = a, !.batch = c] \in PollRow
                 /\ [x EXCEPT !.phase = a, !.batch = c].from = x.from
                 /\ [x EXCEPT !.phase = a, !.batch = c].batch = c
BY DEF PollRow

\* A piece is one for as long as the log is the same.
LEMMA PieceStays ==
    ASSUME UNCHANGED <<log, detailed>>, NEW p \in Poll,
           Piece(poll'[p].batch, poll'[p].from)
    PROVE  Piece(poll[p].batch, poll[p].from)'
<1>1. Visible(poll[p].from)' = Visible(poll'[p].from)
  BY DEF Visible
<1> QED  BY <1>1 DEF Piece

\* Nothing but the polls and the response changes.
LEMMA PollsKeep ==
    ASSUME StreamInv, UNCHANGED <<log, ended, shown, last, detailed>>,
           cursor' \in 0..last, poll' \in [Poll -> PollRow],
           \A p \in Poll : poll'[p].from <= last /\ Piece(poll'[p].batch, poll'[p].from)
    PROVE  StreamInv'
<1>2. \A p \in Poll : Piece(poll[p].batch, poll[p].from)'
  BY PieceStays
<1>3. ShowsPrefix'
  BY DEF StreamInv, ShowsPrefix, Visible
<1> QED  BY <1>2, <1>3 DEF StreamInv

LEMMA IdleIsPoll ==
    /\ Idle \in PollRow /\ Idle.from = 0 /\ Idle.batch = <<>>
    /\ \A from \in Nat :
          LET x == [phase |-> "run", from |-> from, sawEnd |-> FALSE, batch |-> <<>>]
          IN  x \in PollRow /\ x.from = from /\ x.batch = <<>>
BY DEF Idle, PollRow

LEMMA StartKeeps ==
    ASSUME StreamInv, NEW p \in Poll, Connect(p) \/ Tick(p)
    PROVE  StreamInv'
<1>1. /\ poll' = StartPoll(p, cursor')
      /\ cursor' \in 0..last
      /\ UNCHANGED <<log, ended, shown, last, detailed>>
  BY DEF Connect, Tick, logVars, StreamInv
<1> DEFINE x == [phase |-> "run", from |-> cursor', sawEnd |-> FALSE, batch |-> <<>>]
<1>2. x \in PollRow /\ x.from = cursor' /\ x.batch = <<>>
  BY <1>1, IdleIsPoll
<1>3. poll' = [poll EXCEPT ![p] = x]
  BY <1>1 DEF StartPoll
<1> HIDE DEF x
<1>4. poll' \in [Poll -> PollRow] /\ poll'[p] = x /\ \A q \in Poll \ {p} : poll'[q] = poll[q]
  BY <1>2, <1>3 DEF StreamInv
<1>5. ASSUME NEW q \in Poll  PROVE poll'[q].from <= last /\ Piece(poll'[q].batch, poll'[q].from)
  <2>1. CASE q = p
    BY <1>1, <1>2, <1>4, <2>1, EmptyIsPiece
  <2>2. CASE q # p
    BY <1>4, <2>2 DEF StreamInv
  <2> QED  BY <2>1, <2>2
<1> QED  BY <1>1, <1>4, <1>5, PollsKeep

LEMMA ReadRunKeeps ==
    ASSUME StreamInv, NEW p \in Poll, ReadRun(p)
    PROVE  StreamInv'
<1> DEFINE x == [poll[p] EXCEPT !.phase = "events", !.sawEnd = ended]
<1>1. /\ poll' = [poll EXCEPT ![p] = x]
      /\ UNCHANGED <<log, ended, cursor, shown, last, detailed>>
  BY DEF ReadRun, logVars
<1>2. x \in PollRow /\ x.from = poll[p].from /\ x.batch = poll[p].batch
  <2>1. poll[p] \in PollRow /\ ended \in BOOLEAN
    BY DEF StreamInv
  <2> QED  BY <2>1, PollSet
<1> HIDE DEF x
<1>3. poll' \in [Poll -> PollRow] /\ poll'[p] = x /\ \A q \in Poll \ {p} : poll'[q] = poll[q]
  BY <1>1, <1>2 DEF StreamInv
<1>4. \A q \in Poll : poll'[q].from = poll[q].from /\ poll'[q].batch = poll[q].batch
  BY <1>2, <1>3
<1>5. cursor' \in 0..last
  BY <1>1 DEF StreamInv
<1>6. \A q \in Poll : poll'[q].from <= last /\ Piece(poll'[q].batch, poll'[q].from)
  BY <1>4 DEF StreamInv
<1> QED  BY <1>1, <1>3, <1>5, <1>6, PollsKeep

LEMMA ReadEventsKeeps ==
    ASSUME StreamInv, NEW p \in Poll, ReadEvents(p)
    PROVE  StreamInv'
<1>1. PICK batch \in Ascending(FirstOf(Visible(poll[p].from))) :
         poll' = [poll EXCEPT ![p] = [@ EXCEPT !.phase = "send", !.batch = batch]]
  BY DEF ReadEvents
<1> DEFINE x == [poll[p] EXCEPT !.phase = "send", !.batch = batch]
<1>2. /\ poll' = [poll EXCEPT ![p] = x]
      /\ UNCHANGED <<log, ended, cursor, shown, last, detailed>>
  BY <1>1 DEF ReadEvents, logVars
<1>3. Piece(batch, poll[p].from) /\ batch \in Seq(Nat)
  BY FirstIsPiece DEF StreamInv, Piece
<1>4. x \in PollRow /\ x.from = poll[p].from /\ x.batch = batch
  <2>1. poll[p] \in PollRow
    BY DEF StreamInv
  <2> QED  BY <1>3, <2>1, PollSet
<1> HIDE DEF x
<1>5. poll' \in [Poll -> PollRow] /\ poll'[p] = x /\ \A q \in Poll \ {p} : poll'[q] = poll[q]
  BY <1>2, <1>4 DEF StreamInv
<1>6. ASSUME NEW q \in Poll  PROVE poll'[q].from <= last /\ Piece(poll'[q].batch, poll'[q].from)
  <2>1. CASE q = p
    BY <1>3, <1>4, <1>5, <2>1 DEF StreamInv
  <2>2. CASE q # p
    BY <1>5, <2>2 DEF StreamInv
  <2> QED  BY <2>1, <2>2
<1>7. cursor' \in 0..last
  BY <1>2 DEF StreamInv
<1> QED  BY <1>2, <1>5, <1>6, <1>7, PollsKeep

\* The client has more, and every poll keeps what it has, or has nothing any more.
LEMMA MoreShown ==
    ASSUME StreamInv, UNCHANGED <<log, ended, detailed>>,
           ShowsPrefix', last' \in last..Len(log), cursor' \in 0..last',
           poll' \in [Poll -> PollRow], \A q \in Poll : poll'[q] \in {poll[q], Idle}
    PROVE  StreamInv'
<1>1. last \in Nat /\ last' \in Nat /\ last <= last' /\ last' \in 0..Len(log)
  BY DEF StreamInv
<1>3. ASSUME NEW q \in Poll  PROVE poll'[q].from <= last' /\ Piece(poll'[q].batch, poll'[q].from)
  <2>1. CASE poll'[q] = poll[q]
    <3>1. poll[q].from \in Nat /\ poll[q].from <= last /\ Piece(poll[q].batch, poll[q].from)
      BY DEF StreamInv, PollRow
    <3> QED  BY <1>1, <2>1, <3>1
  <2>2. CASE poll'[q] = Idle
    BY <1>1, <2>2, IdleIsPoll, EmptyIsPiece
  <2> QED  BY <2>1, <2>2
<1>4. \A q \in Poll : Piece(poll[q].batch, poll[q].from)'
  BY <1>3, PieceStays
<1> QED  BY <1>1, <1>3, <1>4 DEF StreamInv

LEMMA SendKeeps ==
    ASSUME StreamInv, NEW p \in Poll, Send(p)
    PROVE  StreamInv'
<1> DEFINE batch == poll[p].batch
           from == poll[p].from
<1>1. /\ cursor' = IF batch = <<>> THEN cursor ELSE Last(batch)
      /\ Receive(batch) /\ UNCHANGED <<log, ended, detailed>>
      /\ Disconnect \/ poll' = [poll EXCEPT ![p] = Idle]
  BY DEF Send, logVars
<1>2. from \in Nat /\ from <= last /\ Piece(batch, from) /\ cursor \in 0..last
  BY DEF StreamInv, PollRow
<1> HIDE DEF batch, from
<1>3. /\ ShowsPrefix' /\ last' \in last..Len(log)
      /\ batch # <<>> => Last(batch) \in 0..last'
  BY <1>1, <1>2, ReceiveShows
<1>4. cursor' \in 0..last'
  <2>1. CASE batch = <<>>
    <3>1. cursor' = cursor /\ cursor \in Nat /\ cursor <= last /\ last \in Nat
          /\ last' \in Nat /\ last <= last'
      BY <1>1, <1>2, <1>3, <2>1 DEF StreamInv
    <3> QED  BY <3>1
  <2>2. CASE batch # <<>>
    BY <1>1, <1>3, <2>2
  <2> QED  BY <2>1, <2>2
<1>5. poll' \in [Poll -> PollRow] /\ \A q \in Poll : poll'[q] \in {poll[q], Idle}
  BY <1>1, IdleIsPoll DEF Disconnect, StreamInv
<1> QED  BY <1>1, <1>3, <1>4, <1>5, MoreShown

LEMMA LoseKeeps ==
    ASSUME StreamInv, LoseConnection
    PROVE  StreamInv'
<1>1. /\ UNCHANGED <<log, ended, cursor, detailed>>
      /\ poll' = [p \in Poll |-> Idle]
  BY DEF LoseConnection, Disconnect, logVars
<1>2. poll' \in [Poll -> PollRow] /\ \A q \in Poll : poll'[q] \in {poll[q], Idle}
  BY <1>1, IdleIsPoll
<1>3. last \in Nat /\ Len(log) \in Nat /\ last <= Len(log) /\ cursor \in 0..last
  BY DEF StreamInv
<1>4. ShowsPrefix' /\ last' \in last..Len(log)
  <2>1. CASE UNCHANGED <<shown, last, done>>
    BY <1>1, <1>3, <2>1 DEF StreamInv, ShowsPrefix, Visible
  <2>2. ASSUME NEW p \in Poll, NEW k \in 1..Len(poll[p].batch),
               Receive(SubSeq(poll[p].batch, 1, k))
        PROVE  ShowsPrefix' /\ last' \in last..Len(log)
    <3>1. /\ poll[p].from \in Nat /\ poll[p].from <= last
          /\ Piece(poll[p].batch, poll[p].from) /\ log \in Seq(Kind)
      BY DEF StreamInv, PollRow
    <3>2. Piece(SubSeq(poll[p].batch, 1, k), poll[p].from)
      BY <3>1, CutIsPiece
    <3> QED  BY <1>1, <2>2, <3>1, <3>2, ReceiveShows
  <2> QED  BY <2>1, <2>2 DEF LoseConnection
<1>5. cursor' \in 0..last'
  BY <1>1, <1>3, <1>4
<1> QED  BY <1>1, <1>2, <1>4, <1>5, MoreShown

\* A reader that has nothing shows what there is up to no row.
LEMMA NothingShown == shown = <<>> /\ last = 0 => ShowsPrefix
<1> SUFFICES ASSUME shown = <<>>, last = 0  PROVE shown \in Ascending({i \in Visible(0) : i <= 0})
  BY DEF ShowsPrefix
<1>1. {i \in Visible(0) : i <= 0} = {}
  BY DEF Visible
<1>2. Cardinality({}) = 0
  BY FS_EmptySet
<1>3. <<>> \in Ascending({})
  BY <1>2 DEF Ascending
<1> QED  BY <1>1, <1>3

NothingRead ==
    /\ shown = <<>> /\ last = 0 /\ cursor = 0 /\ poll = [p \in Poll |-> Idle]
    /\ log \in Seq(Kind) /\ ended \in BOOLEAN

LEMMA FromNothing == NothingRead => StreamInv
<1> SUFFICES ASSUME NothingRead  PROVE StreamInv
  OBVIOUS
<1>1. poll \in [Poll -> PollRow] /\ \A p \in Poll : poll[p] = Idle
  BY IdleIsPoll DEF NothingRead
<1>2. \A p \in Poll : poll[p].from <= last /\ Piece(poll[p].batch, poll[p].from)
  BY <1>1, IdleIsPoll, EmptyIsPiece DEF NothingRead
<1>3. Len(log) \in Nat
  BY DEF NothingRead
<1> QED  BY <1>1, <1>2, <1>3, NothingShown DEF StreamInv, NothingRead

LEMMA StartOverKeeps ==
    ASSUME StartOver, log' \in Seq(Kind), ended' \in BOOLEAN
    PROVE  StreamInv'
<1>1. NothingRead'
  BY DEF StartOver, Disconnect, NothingRead
<1> QED  BY <1>1, FromNothing, PTL

\* A piece of a log is one of a longer log.
LEMMA PieceGrows ==
    ASSUME NEW b, NEW f, Piece(b, f), log \in Seq(Kind),
           Visible(f) \subseteq Visible(f)',
           \A i \in Visible(f)' : i \in Nat /\ (i <= Len(log) => i \in Visible(f))
    PROVE  Piece(b, f)'
<1>1. ASSUME NEW i \in ToSet(b), NEW j \in Visible(f)', j <= i  PROVE j \in ToSet(b)
  <2>1. i \in Nat /\ i <= Len(log) /\ Len(log) \in Nat /\ j \in Nat
    BY VisibleIsFinite DEF Piece
  <2>2. j <= Len(log)
    BY <1>1, <2>1
  <2> QED  BY <1>1, <2>2 DEF Piece
<1> QED  BY <1>1 DEF Piece

\* The ledger only grows at its end, which no reader has got to.
LEMMA ProduceKeeps ==
    ASSUME StreamInv, Produce
    PROVE  StreamInv'
<1>1. UNCHANGED <<cursor, poll, shown, last, detailed>>
  BY DEF Produce, streamVars
<1>2. PICK batch \in Seq(Kind) : log' = log \o batch
  <2>1. Batches \subseteq Seq(Kind) /\ <<"end">> \in Seq(Kind) /\ <<"hidden">> \in Seq(Kind)
    BY StreamAssumption DEF Kind
  <2> QED  BY <2>1 DEF Produce, LogNext, Write, End, FailClosed, Append1
<1>3. ended' \in BOOLEAN
  BY DEF Produce, LogNext, Write, End, FailClosed, StreamInv
<1>4. /\ log \in Seq(Kind) /\ Len(log) \in Nat /\ log' \in Seq(Kind) /\ Len(log') \in Nat
      /\ Len(log) <= Len(log') /\ \A i \in 1..Len(log) : log'[i] = log[i]
  BY <1>2 DEF StreamInv
<1>5. ASSUME NEW from
      PROVE  /\ Visible(from) \subseteq Visible(from)'
             /\ \A i \in Visible(from)' : i \in Nat /\ (i <= Len(log) => i \in Visible(from))
  BY <1>1, <1>4 DEF Visible
<1>6. ASSUME NEW p \in Poll  PROVE Piece(poll[p].batch, poll[p].from)'
  <2>1. Piece(poll[p].batch, poll[p].from)
    BY DEF StreamInv
  <2>2. \A b, f : Piece(b, f) => Piece(b, f)'
    BY <1>4, <1>5, PieceGrows
  <2>3. UNCHANGED poll
    BY <1>1
  <2>4. ASSUME NEW b, NEW f, b = poll'[p].batch, f = poll'[p].from, Piece(b, f)'
        PROVE  Piece(poll[p].batch, poll[p].from)'
    <3>1. Visible(poll[p].from)' = Visible(f)'
      BY <2>4 DEF Visible
    <3> QED  BY <2>4, <3>1 DEF Piece
  <2> QED  BY <2>1, <2>2, <2>3, <2>4
<1>7. ShowsPrefix'
  <2>1. last \in Nat /\ last <= Len(log)
    BY <1>4 DEF StreamInv
  <2>2. {i \in Visible(0)' : i <= last} = {i \in Visible(0) : i <= last}
    <3>1. \A i \in Visible(0)' : i <= last => i <= Len(log)
      BY <1>4, <1>5, <2>1
    <3> QED  BY <1>5, <3>1
  <2> QED  BY <1>1, <2>2 DEF StreamInv, ShowsPrefix
<1>8. last' \in 0..Len(log)' /\ cursor' \in 0..last'
  BY <1>1, <1>4 DEF StreamInv
<1> QED  BY <1>1, <1>3, <1>4, <1>6, <1>7, <1>8 DEF StreamInv

LEMMA StreamKeeps == StreamInv /\ [Next]_vars => StreamInv'
<1> SUFFICES ASSUME StreamInv, [Next]_vars  PROVE StreamInv'
  OBVIOUS
<1>1. CASE Produce
  BY <1>1, ProduceKeeps
<1>2. ASSUME NEW p \in Poll, Connect(p) \/ Tick(p) \/ Handler(p)  PROVE StreamInv'
  BY <1>2, StartKeeps, ReadRunKeeps, ReadEventsKeeps, SendKeeps DEF Handler
<1>3. CASE LoseConnection
  BY <1>3, LoseKeeps
<1>4. CASE ToggleDetail
  <2>1. StartOver /\ log' \in Seq(Kind) /\ ended' \in BOOLEAN
    BY <1>4 DEF ToggleDetail, logVars, StreamInv
  <2> QED  BY <2>1, StartOverKeeps
<1>5. CASE UNCHANGED vars
  BY <1>5 DEF vars, logVars, streamVars, StreamInv, ShowsPrefix, Visible, Piece
<1> QED  BY <1>1, <1>2, <1>3, <1>4, <1>5 DEF Next

\* The page only ever steps its stream, or gives it another run's empty log.
LEMMA PageStreamKeeps == StreamInv /\ [PageNext]_allVars => StreamInv'
<1> SUFFICES ASSUME StreamInv, [PageNext]_allVars  PROVE StreamInv'
  OBVIOUS
<1>1. ASSUME NEW r, Follow(r)  PROVE StreamInv'
  <2>1. CASE UNCHANGED vars
    BY <2>1, StreamKeeps
  <2>2. CASE StartOver /\ log' = <<>> /\ ended' = FALSE
    <3>1. <<>> \in Seq(Kind)
      OBVIOUS
    <3> QED  BY <2>2, <3>1, StartOverKeeps
  <2> QED  BY <1>1, <2>1, <2>2 DEF Follow
<1>2. CASE UNCHANGED vars
  BY <1>2, StreamKeeps
<1>3. CASE Next
  BY <1>3, StreamKeeps
<1>4. PageNext => UNCHANGED vars \/ Next \/ \E r : Follow(r)
  BY DEF PageNext, SendMessage, Retry, Post, Duplicate, Accepted, Failed, SetActive, Stream
<1> QED  BY <1>1, <1>2, <1>3, <1>4 DEF allVars

-----------------------------------------------------------------------------
(* Theorems *)

\* The invariant holds in every reachable state.
THEOREM Invariance == PageSpec => []IInv
BY InitIInv, StepKeeps, PTL DEF PageSpec

\* However often and however close together submissions are delivered, a person and
\* a key have one run, and who was told of acceptance was told of that one.
THEOREM OneRun == PageSpec => []OneRunPerKey
<1>1. IInv => OneRunPerKey
  <2> SUFFICES ASSUME IInv, NEW q \in Request, At(q, "accepted")
               PROVE  RunsOf(request[q].person, request[q].key) = {request[q].run}
    BY DEF OneRunPerKey
  <2>1. request[q].run \in RunsOf(request[q].person, request[q].key)
    BY DEF IInv, SubmitInv, HasRun
  <2>2. \A r, s \in RunsOf(request[q].person, request[q].key) : r = s
    BY DEF IInv, SubmitInv, UniqueRun, RunsOf
  <2> QED  BY <2>1, <2>2
<1> QED  BY <1>1, Invariance, PTL

\* Every run has its prompt stored, in a conversation of the run's owner.
THEOREM PromptIsStored == PageSpec => []RunHasItsPrompt
<1>1. IInv => RunHasItsPrompt
  BY DEF IInv, SubmitInv
<1> QED  BY <1>1, Invariance, PTL

\* The page shows exactly the visible rows of the run it follows, up to its cursor, in
\* order and once each, whatever polls overlap, connections are lost and answers come
\* late (streamEvents, useAgentRunEvents, AgentChatPage).
THEOREM PrefixIsShown == PageSpec => []ShowsPrefix
<1>1. PageInit => StreamInv
  <2>1. <<>> \in Seq(Kind)
    OBVIOUS
  <2>2. PageInit => NothingRead
    BY <2>1 DEF PageInit, Init, LogInit, NothingRead
  <2> QED  BY <2>2, FromNothing
<1>2. StreamInv => ShowsPrefix
  BY DEF StreamInv
<1> QED  BY <1>1, <1>2, PageStreamKeeps, PTL DEF PageSpec

=============================================================================
