---------------------------- MODULE EventStream ----------------------------
(***************************************************************************)
(* A browser follows one run's events (agent-run.controller.ts             *)
(* streamEvents, useAgentRunEvents.ts).                                    *)
(*                                                                         *)
(* The server sends an initial batch and then polls on a timer; a poll     *)
(* reads the run, then the events, and a slow poll may overlap the next.   *)
(* It ends the response once a poll saw a terminal status.  The client     *)
(* remembers the largest sequence number it saw and reconnects from there  *)
(* until it has seen a terminal row.  The user may ask for the technical   *)
(* detail as well, or no longer: the client then starts from nothing.      *)
(***************************************************************************)
EXTENDS RunLog, FiniteSets, SequencesExt

CONSTANTS
    Poll,        \* polls that may be under way at a time
    BatchLimit,  \* MAX_EVENT_BATCH
    MaxEvents,   \* bound: rows in the ledger
    MaxDrops,    \* bound: connections lost
    MaxToggles   \* bound: changes of the detail level

ASSUME StreamAssumption ==
    /\ BatchLimit \in Nat \ {0}
    /\ {MaxEvents, MaxDrops, MaxToggles} \subseteq Nat
    /\ Batches \subseteq Seq(Kind)

VARIABLES
    conn,        \* the response: "none", "opening" (initial batch), "open"
    cursor,      \* the handler's cursor
    poll,        \* [Poll -> PollState]
    shown,       \* sequence numbers the client shows, in order of arrival
    last,        \* the client's cursor
    done,        \* the client saw a terminal row
    detailed,    \* the technical events are asked for as well
    drops, toggles

bounds     == <<drops, toggles>>
streamVars == <<conn, cursor, poll, shown, last, done, detailed, bounds>>
vars       == <<logVars, streamVars>>

Idle == [phase |-> "idle", from |-> 0, sawEnd |-> FALSE, batch |-> <<>>]

PollState == [phase : {"idle", "run", "events", "send"}, from : 0..MaxEvents,
              sawEnd : BOOLEAN, batch : Seq(1..MaxEvents)]

\* Sequence numbers the client may see at its level of detail, after a cursor.
Visible(from) == {i \in 1..Len(log) : i > from /\ (detailed \/ log[i] # "hidden")}

\* The first of these rows, as many as fit a batch.
FirstOf(S) == {i \in S : Cardinality({j \in S : j < i}) < BatchLimit}

\* Rows in the order of their sequence numbers: the one sequence that has them.
Ascending(S) ==
    {s \in [1..Cardinality(S) -> S] : \A i, j \in DOMAIN s : i < j => s[i] < s[j]}

Init ==
    /\ LogInit
    /\ conn = "none"
    /\ cursor = 0
    /\ poll = [p \in Poll |-> Idle]
    /\ shown = <<>>
    /\ last = 0
    /\ done = FALSE
    /\ detailed = FALSE
    /\ drops = MaxDrops /\ toggles = MaxToggles

\* The run's workers go on writing.
Produce == LogNext /\ Len(log') <= MaxEvents /\ UNCHANGED streamVars

-----------------------------------------------------------------------------
(* The request handler *)

StartPoll(p, from) ==
    [poll EXCEPT ![p] = [phase |-> "run", from |-> from, sawEnd |-> FALSE, batch |-> <<>>]]

\* Mutant of Connect: the client does not say where it stopped.
Connect_FromStart(p) ==
    /\ conn = "none"
    /\ ~done
    /\ conn' = "opening"
    /\ cursor' = 0
    /\ poll' = StartPoll(p, 0)
    /\ UNCHANGED <<logVars, shown, last, done, detailed, bounds>>

\* The client connects with Last-Event-ID; the handler reads an initial batch.
Connect(p) ==
    /\ conn = "none"
    /\ ~done
    /\ conn' = "opening"
    /\ cursor' = last
    /\ poll' = StartPoll(p, last)
    /\ UNCHANGED <<logVars, shown, last, done, detailed, bounds>>

\* The timer fires, whether or not an earlier poll is still under way.
Tick(p) ==
    /\ conn = "open"
    /\ poll[p].phase = "idle"
    /\ poll' = StartPoll(p, cursor)
    /\ UNCHANGED <<logVars, conn, cursor, shown, last, done, detailed, bounds>>

\* getEventBatch: the run first ...
ReadRun(p) ==
    /\ poll[p].phase = "run"
    /\ poll' = [poll EXCEPT ![p] = [@ EXCEPT !.phase = "events", !.sawEnd = ended]]
    /\ UNCHANGED <<logVars, conn, cursor, shown, last, done, detailed, bounds>>

\* Mutant of ReadEvents: the newest events instead of the oldest.
ReadEvents_Newest(p) ==
    LET S == Visible(poll[p].from) IN
    /\ poll[p].phase = "events"
    /\ \E batch \in Ascending({i \in S : Cardinality({j \in S : j > i}) < BatchLimit}) :
          poll' = [poll EXCEPT ![p] = [@ EXCEPT !.phase = "send", !.batch = batch]]
    /\ UNCHANGED <<logVars, conn, cursor, shown, last, done, detailed, bounds>>

\* ... then the oldest events after the cursor the poll started from.
ReadEvents(p) ==
    /\ poll[p].phase = "events"
    /\ \E batch \in Ascending(FirstOf(Visible(poll[p].from))) :
          poll' = [poll EXCEPT ![p] = [@ EXCEPT !.phase = "send", !.batch = batch]]
    /\ UNCHANGED <<logVars, conn, cursor, shown, last, done, detailed, bounds>>

\* The client takes in a batch: known events are skipped, the cursor only grows.
Receive(batch) ==
    /\ \E new \in Ascending(ToSet(batch) \ ToSet(shown)) : shown' = shown \o new
    /\ last' = IF batch = <<>> \/ Last(batch) < last THEN last ELSE Last(batch)
    /\ done' = (done \/ \E i \in ToSet(batch) : log[i] = "end")

\* The connection is gone, and what its polls still send goes nowhere.
Disconnect == conn' = "none" /\ poll' = [p \in Poll |-> Idle]

\* The poll moves the shared cursor to the end of its own batch (backwards if a
\* later poll was faster) and ends the response if it saw the run ended.
Send(p) ==
    LET batch == poll[p].batch IN
    /\ poll[p].phase = "send"
    /\ cursor' = IF batch = <<>> THEN cursor ELSE Last(batch)
    /\ Receive(batch)
    /\ IF poll[p].sawEnd
         THEN Disconnect
         ELSE conn' = "open" /\ poll' = [poll EXCEPT ![p] = Idle]
    /\ UNCHANGED <<logVars, detailed, bounds>>

\* The connection is lost; the client may have got a part of a batch.
LoseConnection ==
    /\ conn # "none"
    /\ drops > 0
    /\ drops' = drops - 1
    /\ Disconnect
    /\ \/ UNCHANGED <<shown, last, done>>
       \/ \E p \in Poll : \E k \in 1..Len(poll[p].batch) : Receive(SubSeq(poll[p].batch, 1, k))
    /\ UNCHANGED <<logVars, cursor, detailed, toggles>>

\* The hook is given another run or another level of detail: it drops what it has,
\* aborts its request and begins with no cursor.
StartOver == Disconnect /\ shown' = <<>> /\ last' = 0 /\ done' = FALSE /\ cursor' = 0

\* The control is part of the live trace, which goes when the run is over.
ToggleDetail ==
    /\ toggles > 0
    /\ ~done
    /\ toggles' = toggles - 1
    /\ detailed' = ~detailed
    /\ StartOver
    /\ UNCHANGED <<logVars, drops>>

-----------------------------------------------------------------------------
Handler(p) == ReadRun(p) \/ ReadEvents(p) \/ Send(p)

Next ==
    \/ Produce
    \/ \E p \in Poll : Connect(p) \/ Tick(p) \/ Handler(p)
    \/ LoseConnection
    \/ ToggleDetail

Spec == Init /\ [][Next]_vars

\* Database reads answer, the timer keeps firing, the client keeps reconnecting.
Fairness ==
    /\ \A p \in Poll : WF_vars(Handler(p))
    /\ WF_vars(\E p \in Poll : Tick(p))
    /\ WF_vars(\E p \in Poll : Connect(p))

FairSpec == Spec /\ Fairness

-----------------------------------------------------------------------------
(* Properties *)

\* Every variable has its type.
TypeOK ==
    /\ log \in Seq(Kind)
    /\ ended \in BOOLEAN
    /\ conn \in {"none", "opening", "open"}
    /\ cursor \in 0..MaxEvents
    /\ poll \in [Poll -> PollState]
    /\ shown \in Seq(1..MaxEvents)
    /\ last \in 0..MaxEvents
    /\ done \in BOOLEAN
    /\ detailed \in BOOLEAN
    /\ drops \in 0..MaxDrops /\ toggles \in 0..MaxToggles

\* The client shows exactly the visible events up to its cursor, in order and
\* once each, through overlapping polls that move the server's cursor back,
\* lost connections, partly delivered batches and a changed level of detail.
ShowsPrefix == shown \in Ascending({i \in Visible(0) : i <= last})

\* A run that ends with a terminal row is shown to its end, also when more
\* events than one batch were left as the server closed the stream.
EndIsShown == (\E i \in 1..Len(log) : log[i] = "end") ~> done

=============================================================================
