SPECIFICATION FairSpec
CONSTANTS
    Run = {r1}
    Worker = {w1, w2}
    Capability = {read, sales, write}
    Input = {x}
    Entitled = {read, write}
    Routed = {read, sales}
    MaxSteps = 1
    MaxCrashes = 0
    MaxRedeliveries = 1
    MaxErrors = 1
    MaxEnqueueLosses = 1
    NoRun = NoRun
    NoCall = NoCall
CHECK_DEADLOCK FALSE
PROPERTIES
    EnqueuedRunEnds
