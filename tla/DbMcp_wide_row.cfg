SPECIFICATION McpFairSpec
CONSTANTS
    Run <- MCRun
    SnapshotOf <- MCSnapshotOf
    Query <- MCQuery
    Stored <- MCWide
    Connection = {c1}
    MaxRows = 3
    MaxBytes = 2
    MaxSessions = 3
    MaxExpiries = 1
    MaxRestarts = 1
    None = None
CHECK_DEADLOCK FALSE
INVARIANTS
    NeverStuck
