SPECIFICATION FairSpec
CONSTANTS
    Run = {r1}
    Worker = {w1, w2}
    Capability = {read}
    Input = {x}
    Entitled = {read}
    Routed = {read}
    MaxSteps = 1
    MaxCrashes = 1
    MaxRedeliveries = 0
    MaxErrors = 0
    MaxEnqueueLosses = 0
    NoRun = NoRun
    NoCall = NoCall
CHECK_DEADLOCK FALSE
PROPERTIES
    RedeliveredRunEnds
