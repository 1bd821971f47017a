CONSTANTS
    Names = {s1, s2}
    NoName = none
    Orders <- MCOrders
    Offsets <- MCOffsets
    IntMax = 7
    MaxRequests = 3
SPECIFICATION FairFeedSpec
INVARIANTS
    FeedTypeOK
    NoLostUpdate
    NoSelfDeadlock
PROPERTIES
    RoundRobinPlaysAll
    StopEndsLoop
CHECK_DEADLOCK FALSE
