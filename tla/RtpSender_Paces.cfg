CONSTANTS
    Capacity = 2
    MinAdvance = 1
    MaxAdvance = 2
    FrameSize = 3
    TimestampRange = 16
    FirstTimestamp = 9
    MaxFrames = 4
    MaxTime = 2
    MaxRequests = 3
SPECIFICATION FairSpec
INVARIANTS
    SenderTypeOK
    LeadIsBounded
    TimestampFollowsIndex
PROPERTIES
    SentInOrder
    RingDrains
    StopEndsSender
CHECK_DEADLOCK FALSE
