------------------------------ MODULE ChatPage ------------------------------
(***************************************************************************)
(* The chat page of one person (AgentChatPage.tsx) with the two things it  *)
(* is built on: the submission of runs and the stream of one run's events. *)
(*                                                                         *)
(* The page holds one pending turn and follows one run.  What it submitted *)
(* may be answered, late or never, after the user has turned to another    *)
(* conversation; the same submission may be delivered twice on its way.    *)
(* The callbacks of a submission see the page as it was drawn last while   *)
(* that submission was the newest one.                                     *)
(***************************************************************************)
EXTENDS RunSubmission, EventStream

CONSTANTS
    User,           \* the person at the page
    MaxSwitches,    \* bound: conversations the user turns to
    MaxDuplicates   \* bound: submissions delivered twice

ASSUME PageAssumption == User \in Person /\ {MaxSwitches, MaxDuplicates} \subseteq Nat

VARIABLES
    active,      \* the conversation in the page's address, whoever's that is
    pending,     \* the turn that is sent: [of, text, failed] or None
    following,   \* the run whose events are streamed
    waiting,     \* requests the page waits for
    newest,      \* the last of them
    seen,        \* [Request -> the active conversation its callbacks see]
    switches, duplicates

pageVars == <<active, pending, following, waiting, newest, seen, switches, duplicates>>
allVars  == <<submitVars, vars, pageVars>>

PageInit ==
    /\ SubmitInit
    /\ Init
    /\ active \in {None} \cup DOMAIN Given
    /\ pending = None /\ following = None /\ waiting = {}
    /\ newest = None /\ seen = [q \in Request |-> None]
    /\ switches = MaxSwitches /\ duplicates = MaxDuplicates

\* The page is drawn again with conversation c.
Redraw(c) ==
    /\ active' = c
    /\ seen' = IF newest \in waiting THEN [seen EXCEPT ![newest] = c] ELSE seen

RunActive == following # None /\ ~done

\* The hook is given another run (or none), whose ledger is empty or not read yet.
Follow(r) ==
    IF r = following THEN UNCHANGED <<following, vars>>
    ELSE following' = r /\ StartOver /\ log' = <<>> /\ ended' = FALSE
         /\ UNCHANGED <<detailed, bounds>>

-----------------------------------------------------------------------------
\* mutate: the text goes to the active conversation under a key of its own.
Post(q, text) ==
    /\ Submit(q, User, q, active)
    /\ pending' = [of |-> q, text |-> text, failed |-> FALSE]
    /\ waiting' = waiting \cup {q}
    /\ newest' = q /\ seen' = [seen EXCEPT ![q] = active]
    /\ UNCHANGED <<active, following, switches, duplicates, vars>>

SendMessage(q) ==
    /\ ~RunActive
    /\ pending # None => pending.failed
    /\ Post(q, q)

Retry(q) == pending # None /\ pending.failed /\ Post(q, pending.text)

\* The same submission reaches the API a second time; nobody waits for that answer.
Duplicate(q, original) ==
    /\ duplicates > 0
    /\ request[original] # None
    /\ duplicates' = duplicates - 1
    /\ Submit(q, User, request[original].key,
              IF request[original].conv = original THEN None ELSE request[original].conv)
    /\ UNCHANGED <<active, pending, following, waiting, newest, seen, switches, vars>>

\* onSuccess: whatever is pending is done, the run is followed, and the page goes to
\* its conversation if that is not the one the callback sees.
Accepted(q) ==
    LET r == request[q].run IN
    /\ q \in waiting /\ At(q, "accepted")
    /\ waiting' = waiting \ {q}
    /\ pending' = None
    /\ Redraw(IF run[r].conv # seen[q] THEN run[r].conv ELSE active)
    /\ Follow(r)
    /\ UNCHANGED <<submitVars, newest, switches, duplicates>>

\* onError: refused, or the answer is lost on its way.
Failed(q) ==
    /\ q \in waiting
    /\ waiting' = waiting \ {q}
    /\ pending' = IF pending = None THEN None ELSE [pending EXCEPT !.failed = TRUE]
    /\ UNCHANGED <<submitVars, vars, active, following, newest, seen, switches, duplicates>>

\* The user turns to one of their conversations, or to a new one.
SetActive(c) ==
    /\ switches > 0
    /\ c # None => convOwner[c] = User
    /\ switches' = switches - 1
    /\ pending' = None
    /\ Redraw(c)
    /\ Follow(None)
    /\ UNCHANGED <<submitVars, waiting, newest, duplicates>>

\* The stream of the run that is followed; only a run that was handed over writes.
Stream ==
    /\ following # None
    /\ Next
    /\ following \notin handed => UNCHANGED logVars
    /\ UNCHANGED <<submitVars, pageVars>>

PageNext ==
    \/ \E q \in Request :
          \/ SendMessage(q) \/ Retry(q)
          \/ \E o \in Request : Duplicate(q, o)
          \/ Accepted(q) \/ Failed(q)
          \/ Serve(q) /\ UNCHANGED <<vars, pageVars>>
    \/ \E c \in {None} \cup Conversation : SetActive(c)
    \/ Stream

PageSpec == PageInit /\ [][PageNext]_allVars

\* The stream's fairness, while a run is followed.
PageFairness ==
    /\ \A p \in Poll : WF_allVars(following # None /\ Handler(p) /\ UNCHANGED <<submitVars, pageVars>>)
    /\ WF_allVars(following # None /\ (\E p \in Poll : Tick(p)) /\ UNCHANGED <<submitVars, pageVars>>)
    /\ WF_allVars(following # None /\ (\E p \in Poll : Connect(p)) /\ UNCHANGED <<submitVars, pageVars>>)

FairPageSpec == PageSpec /\ PageFairness

-----------------------------------------------------------------------------
(* Properties *)

\* The end of the run that is followed is shown, unless the page turns away (its
\* log is another one then): nothing a late answer, a second delivery, a lost
\* connection or a changed level of detail does leaves the page waiting.
EndReachesPage == []<>(done \/ \A i \in 1..Len(log) : log[i] # "end")

(* What the repository says of the program, and the code refutes *)

\* agentRuns.api.ts:13 "A stable per-submission key so retries never enqueue a
\* duplicate run": the key is made anew for every attempt.
RetryNeverDuplicates ==
    \A q \in Request : pending # None /\ pending.of = q /\ pending.text # q =>
        run[pending.text] = None

\* The run that is followed is one of the conversation that is shown: not after an
\* older submission is answered, whose callback sees a conversation long left.
FollowsWhatItShows == following # None => run[following].conv = active

\* AgentChatPage.tsx:24-30 "the terminal frame's type is `run.{status}` ...
\* accurate for failed/canceled runs": a run that fails closed writes no such frame.
EndedRunStopsPage == []<>(done \/ ~ended)

\* A turn that is shown as failed is one that failed.
FailureIsOwn == pending # None /\ pending.failed => pending.of \notin waiting

=============================================================================
