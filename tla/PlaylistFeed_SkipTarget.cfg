CONSTANTS
    Names = {s1, s2}
    NoName = none
    Orders <- MCOrders
    Offsets <- MCOffsets
    IntMax = 7
    MaxRequests = 3
SPECIFICATION FeedSpec
CHECK_DEADLOCK FALSE
PROPERTIES
    SkipTargetPlayed
