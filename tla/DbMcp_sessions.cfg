SPECIFICATION McpFairSpec
CONSTANTS
    Run <- MCRun
    SnapshotOf <- MCSnapshotOf
    Query <- MCQuery
    Stored <- MCStored
    Connection = {c1}
    MaxRows = 3
    MaxBytes = 2
    MaxSessions = 2
    MaxExpiries = 1
    MaxRestarts = 1
    None = None
CHECK_DEADLOCK FALSE
INVARIANTS
    AnswersAreOwnRows
    UncutIsComplete
PROPERTIES
    EveryQueryIsAnswered
