SPECIFICATION Spec
CONSTANTS
    Worker = {w1}
    Frames = 2
    MaxLosses = 0
    NoTx = NoTx
    NoWorker = NoWorker
CHECK_DEADLOCK FALSE
INVARIANTS
    NoOperationRunsOn
