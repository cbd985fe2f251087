----------------------------- MODULE AgentTrace -----------------------------
(***************************************************************************)
(* What the browser makes of a run's ledger (traceModel.ts): lifecycle     *)
(* lines, and one invocation for each agent call, with the operations the  *)
(* agent performed as its sub-steps.                                       *)
(*                                                                         *)
(* The view is rebuilt from the events in their order and from their types *)
(* alone: nothing in an event names the call it belongs to.                *)
(*                                                                         *)
(* An agent's sub-events are the start and the end of its queries: an odd  *)
(* one is agent.query.started, the next one agent.query.completed.         *)
(***************************************************************************)
EXTENDS EventLedger

EventAt(n) == (CHOOSE row \in rows : row.seq = n).ev

\* The rows a reader is given: with the technical ones, or without.
TraceRow(n, detailed) == detailed \/ KindOf(EventAt(n)) # "hidden"

IsAgentInternal(e) == e.type = "sub"
TerminalStatus(e)  == IF e.type = "answered" THEN "completed" ELSE "failed"
SubstepStatus(e)   == IF e.n % 2 = 1 THEN "running" ELSE "completed"

\* Technical lines are left out of the plain view.
Described(e, detailed) == detailed \/ e.type # "authz"

NoView == [lifecycle |-> <<>>, calls |-> <<>>, open |-> FALSE, running |-> 0]
LastCall(view) == Len(view.calls)

PushLifecycle(view, e, detailed) ==
    IF Described(e, detailed) THEN [view EXCEPT !.lifecycle = Append(@, e)] ELSE view

\* A start is remembered, an end is merged into the start it finds.
AddSubstep(view, e) ==
    LET last  == LastCall(view)
        steps == view.calls[last].steps
    IN  CASE SubstepStatus(e) = "running" ->
               [view EXCEPT !.calls[last].steps = Append(@, "running"),
                            !.running = Len(steps) + 1]
          [] SubstepStatus(e) # "running" /\ view.running # 0 ->
               [view EXCEPT !.calls[last].steps[view.running] = SubstepStatus(e),
                            !.running = 0]
          [] OTHER ->
               [view EXCEPT !.calls[last].steps = Append(@, SubstepStatus(e))]

CallStarted(view, e) ==
    [view EXCEPT !.calls   = Append(@, [by |-> e.by, status |-> "running", steps |-> <<>>]),
                 !.open    = TRUE,
                 !.running = 0]

\* Mutant of CallEnded: the call stays open.
CallEnded_StaysOpen(view, e) ==
    IF view.open
    THEN [view EXCEPT !.calls[LastCall(view)].status = TerminalStatus(e)]
    ELSE [view EXCEPT !.calls = Append(@, [by |-> e.by, status |-> TerminalStatus(e), steps |-> <<>>])]

\* The report goes to the open call, which is the last one, whoever made it.
CallEnded(view, e) ==
    IF view.open
    THEN [view EXCEPT !.calls[LastCall(view)].status = TerminalStatus(e), !.open = FALSE]
    ELSE [view EXCEPT !.calls = Append(@, [by |-> e.by, status |-> TerminalStatus(e), steps |-> <<>>])]

ViewEvent(view, e, detailed) ==
    CASE e.type = "called"                        -> CallStarted(view, e)
      [] e.type \in {"answered", "failed"}        -> CallEnded(view, e)
      [] IsAgentInternal(e) /\ view.open          -> AddSubstep(view, e)
      [] OTHER                                    -> PushLifecycle(view, e, detailed)

\* The view once a row was added, if the reader is given it.
AddRow(view, n, detailed) ==
    IF TraceRow(n, detailed) THEN ViewEvent(view, EventAt(n), detailed) ELSE view

\* The view of the rows up to each number, and of them all.
ViewUpTo(detailed) ==
    LET view[n \in 0..LastSeq] == IF n = 0 THEN NoView ELSE AddRow(view[n - 1], n, detailed)
    IN  view

TraceView(detailed) == ViewUpTo(detailed)[LastSeq]

\* The badge: operations, calls, and everything that is listed.
Summary(detailed) ==
    LET view  == TraceView(detailed)
        steps == FoldLeft(LAMBDA n, call : n + Len(call.steps), 0, view.calls)
    IN  [tools  |-> steps,
         agents |-> Len(view.calls),
         steps  |-> Len(view.lifecycle) + Len(view.calls) + steps]

-----------------------------------------------------------------------------
(* Properties *)

NumbersOf(e) == {row.seq : row \in {r \in rows : r.ev = e}}

\* A worker's reported call that no other worker's call or sub-event falls into.
Alone(w) ==
    \E a \in NumbersOf(Ev("called", w)), z \in NumbersOf(Ev("answered", w)) \cup NumbersOf(Ev("failed", w)) :
        \A row \in rows : row.seq \in a..z /\ row.ev.by # w => row.ev.type \in {"authz", "started", "ended"}

\* The sub-events of the worker's agent are in the order they happened in: no
\* dropped frame was written after a later one.
InOrder(w) ==
    \A n \in 1..Frames, m \in 1..Frames :
        n < m => \A i \in NumbersOf(Sub(w, n)), j \in NumbersOf(Sub(w, m)) : i < j

OutcomeOf(w) == IF NumbersOf(Ev("answered", w)) # {} THEN "completed" ELSE "failed"

\* A call is shown once and as it ended, whatever the other workers of the run
\* wrote before and after it; a completed one whose sub-events are in order
\* shows each operation once, ended; and the badge counts each call once when
\* no two calls overlap, with the technical details or without.
TraceIsFaithful ==
    /\ \A w \in Worker : Alone(w) =>
          LET calls == TraceView(FALSE).calls
          IN  \E i \in DOMAIN calls :
                 /\ \A j \in DOMAIN calls : calls[j].by = w <=> j = i
                 /\ calls[i].status = OutcomeOf(w)
                 /\ calls[i].status = "completed" /\ InOrder(w) =>
                       calls[i].steps = [k \in 1..(Frames \div 2) |-> "completed"]
    /\ (\A w \in Worker : NumbersOf(Ev("called", w)) # {} => Alone(w)) =>
          \A detailed \in BOOLEAN :
              Summary(detailed).agents
                  = Cardinality({w \in Worker : NumbersOf(Ev("called", w)) # {}})

\* The comment on buildTraceView taken for operations too: a call that is over
\* shows none of them as running.  A dropped frame that is written after a later
\* one breaks it (EventLedger_reordered.cfg).
NoOperationRunsOn ==
    \A w \in Worker : Alone(w) =>
        \A call \in ToSet(TraceView(FALSE).calls) :
            call.by = w /\ call.status = "completed" => "running" \notin ToSet(call.steps)

=============================================================================
