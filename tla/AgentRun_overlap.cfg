SPECIFICATION Spec
CONSTANTS
    Run = {r1}
    Worker = {w1, w2}
    Capability = {read}
    Input = {x}
    Entitled = {read}
    Routed = {read}
    MaxSteps = 2
    MaxCrashes = 1
    MaxRedeliveries = 1
    MaxErrors = 0
    MaxEnqueueLosses = 0
    NoRun = NoRun
    NoCall = NoCall
SYMMETRY WorkerSymmetry
CHECK_DEADLOCK FALSE
INVARIANTS
    HopSentOnce
    SoleOwner
    StatusMatchesLog
    TurnOnlyIfCompleted
PROPERTIES
    TerminalIsFinal
    RefinesLifecycle
