SPECIFICATION FairSpec
CONSTANTS
    Worker = {w1, w2}
    Frames = 2
    MaxLosses = 1
    NoTx = NoTx
    NoWorker = NoWorker
CHECK_DEADLOCK FALSE
INVARIANTS
    SubEventOnce
    NothingMissing
    TraceIsFaithful
PROPERTIES
    ImplementsRunLog
    TransactionsEnd
