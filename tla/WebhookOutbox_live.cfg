SPECIFICATION FairSpec
CONSTANTS
    d1 = d1
    d2 = d2
    d3 = d3
    t1 = t1
    t2 = t2
    Delivery = {d1, d3}
    DestOf <- TwoDests
    Dispatcher = {p1, p2}
    ClaimLimit = 2
    ChunkLimit = 2
    Attempts = 2
    MaxCrashes = 1
    MaxDisables = 1
CHECK_DEADLOCK FALSE
PROPERTIES
    HeardIsNotResent
    SettledIsFinal
    EveryDeliverySettles
