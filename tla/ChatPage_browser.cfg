SPECIFICATION FairPageSpec
CONSTANTS
    Batches <- SmallBatches
    Poll = {p1, p2}
    BatchLimit = 1
    MaxEvents = 2
    MaxDrops = 1
    MaxToggles = 1
    Request = {q1, q2}
    Person = {alice, bob}
    bob = bob
    theirs = theirs
    User = alice
    Given <- MCGiven
    MaxSwitches = 1
    MaxDuplicates = 1
    None = None
CHECK_DEADLOCK FALSE
INVARIANTS
    ShowsPrefix
    OneRunPerKey
    RunHasItsPrompt
PROPERTIES
    EndReachesPage
