---------------------------- MODULE RunSubmission ----------------------------
(***************************************************************************)
(* What the control plane does with POST /a2a/chat (agent-run.service.ts   *)
(* createRun): the prompt goes into a conversation of the caller, the run  *)
(* and the snapshot of what the caller may do into the agents' database,   *)
(* and the run's id to the orchestrator.                                   *)
(*                                                                         *)
(* Each step is a query or a call of its own and requests overlap, those   *)
(* of one submission that is delivered twice included.  Conversations,     *)
(* messages and runs are named after the request that makes them.          *)
(***************************************************************************)
EXTENDS Naturals, FiniteSets

CONSTANTS
    Request,      \* requests
    Person,
    Given,        \* conversations there are, [SUBSET Conversation -> Person]
    None

Conversation == Request \cup DOMAIN Given

\* A key is named after the request that carried it first.
RequestRow == [person : Person, key : Request, conv : Conversation \cup {None},
               run : Request \cup {None},
               phase : {"find", "conversation", "message", "run", "enqueue", "accepted",
                        "refused"}]
MessageRow == [conv : Conversation, sender : Person]
RunRow     == [owner : Person, key : Request, conv : Conversation, prompt : Request]

ASSUME SubmissionAssumption ==
    /\ Given \in [DOMAIN Given -> Person]
    /\ Request \cap DOMAIN Given = {}
    /\ None \notin Person /\ None \notin Request /\ None \notin Conversation
    /\ None \notin RequestRow /\ None \notin MessageRow /\ None \notin RunRow

VARIABLES
    request,      \* [Request -> a request or None]
    convOwner,    \* [Conversation -> Person \cup {None}]
    message,      \* [Request -> [conv, sender] or None]: prompts stored
    run,          \* [Request -> a run or None]
    handed        \* runs the orchestrator was handed

submitVars == <<request, convOwner, message, run, handed>>

SubmitInit ==
    /\ request = [q \in Request |-> None]
    /\ convOwner = [c \in Conversation |-> IF c \in DOMAIN Given THEN Given[c] ELSE None]
    /\ message = [q \in Request |-> None]
    /\ run = [q \in Request |-> None]
    /\ handed = {}

\* agent_runs: the rows of one owner and one idempotency key.
RunsOf(person, key) == {r \in Request : run[r] # None /\ run[r].owner = person /\ run[r].key = key}

At(q, phase) == request[q] # None /\ request[q].phase = phase

GoTo(q, phase) == request' = [request EXCEPT ![q].phase = phase]

Answered(q) == At(q, "accepted") \/ At(q, "refused")

-----------------------------------------------------------------------------
(* The steps of createRun *)

\* A request arrives.  Its owner is resolved to a profile first (UserProvisioning).
Submit(q, person, key, conv) ==
    /\ request[q] = None
    /\ request' = [request EXCEPT ![q] =
          [person |-> person, key |-> key, conv |-> conv, run |-> None, phase |-> "find"]]
    /\ UNCHANGED <<convOwner, message, run, handed>>

\* A key that has a run already is answered with it.
FindRun(q) ==
    /\ At(q, "find")
    /\ LET found == RunsOf(request[q].person, request[q].key) IN
         IF found = {} THEN GoTo(q, "conversation")
         ELSE \E r \in found :
                request' = [request EXCEPT ![q].phase = "accepted", ![q].run = r]
    /\ UNCHANGED <<convOwner, message, run, handed>>

\* Mutant of FindForUser: any conversation there is.
FindForUser_Any(c, person) == convOwner[c] # None

\* Only the caller's own conversations are found.
FindForUser(c, person) == convOwner[c] = person

\* The conversation that is named, or a new one.
OpenConversation(q) ==
    LET c == request[q].conv IN
    /\ At(q, "conversation")
    /\ IF c = None
       THEN /\ convOwner' = [convOwner EXCEPT ![q] = request[q].person]
            /\ request' = [request EXCEPT ![q].conv = q, ![q].phase = "message"]
       ELSE /\ GoTo(q, IF FindForUser(c, request[q].person) THEN "message" ELSE "refused")
            /\ UNCHANGED convOwner
    /\ UNCHANGED <<message, run, handed>>

AddMessage(q) ==
    /\ At(q, "message")
    /\ message' = [message EXCEPT ![q] = [conv |-> request[q].conv, sender |-> request[q].person]]
    /\ GoTo(q, "run")
    /\ UNCHANGED <<convOwner, run, handed>>

\* Mutant of Taken: the index is not unique.
Taken_Never(q) == FALSE

\* The unique index of owner and key.
Taken(q) == RunsOf(request[q].person, request[q].key) # {}

\* Snapshot and run in one transaction; the message stays if the index refuses them.
CreateRun(q) ==
    /\ At(q, "run")
    /\ IF Taken(q)
       THEN GoTo(q, "refused") /\ UNCHANGED run
       ELSE /\ run' = [run EXCEPT ![q] = [owner |-> request[q].person, key |-> request[q].key,
                                          conv |-> request[q].conv, prompt |-> q]]
            /\ request' = [request EXCEPT ![q].phase = "enqueue", ![q].run = q]
    /\ UNCHANGED <<convOwner, message, handed>>

\* enqueueRun: without a token or an answer in time the run may have arrived or not.
EnqueueRun(q) == handed' \in {handed, handed \cup {q}}

\* The orchestrator is handed the run, or is not; the caller is told the same.
Enqueue(q) ==
    /\ At(q, "enqueue")
    /\ EnqueueRun(q)
    /\ GoTo(q, "accepted")
    /\ UNCHANGED <<convOwner, message, run>>

Serve(q) ==
    FindRun(q) \/ OpenConversation(q) \/ AddMessage(q) \/ CreateRun(q) \/ Enqueue(q)

-----------------------------------------------------------------------------
(* Properties *)

\* However often and however close together a submission is delivered, there is
\* one run of it, and whoever was told that it was accepted was told of that one.
OneRunPerKey ==
    \A q \in Request : At(q, "accepted") =>
        RunsOf(request[q].person, request[q].key) = {request[q].run}

\* A run the orchestrator may execute has its prompt stored, in a conversation that
\* belongs to the run's owner: finalize will put the answer there.
RunHasItsPrompt ==
    \A r \in Request : run[r] # None =>
        LET p == run[r].prompt IN
        /\ message[p] = [conv |-> run[r].conv, sender |-> run[r].owner]
        /\ convOwner[run[r].conv] = run[r].owner

(* What the repository says of the program, and the code refutes *)

\* agent-run.service.ts:200-201 "the run is durably `queued` and can be dispatched by
\* the gateway": nothing dispatches it.
AcceptedIsHanded == \A q \in Request : At(q, "accepted") => request[q].run \in handed

=============================================================================
