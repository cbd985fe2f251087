SPECIFICATION RegistryFairSpec
CONSTANTS
    NoRow = NoRow
    Agent = {a1}
    Handler = {h1, h2}
    Sweeper = {s1, s2}
    Threshold = 2
    Seeded = {a1}
    OnboardModes = {TRUE, FALSE}
    MaxOps = 2
    MaxTurns = 2
CHECK_DEADLOCK FALSE
INVARIANTS
    OperatorsLastWord
PROPERTIES
    DeadAgentLeaves
    LiveAgentReturns
    ReplicasAreFollowed
