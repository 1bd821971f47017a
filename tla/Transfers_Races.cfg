CONSTANTS
    Jobs = {j1, j2}
    Handles = {h1, h2, h3}
    NoHandle = NoHandle
    NoJob = NoJob
    MaxTransfers <- MCTransfersOf
    j1 = j1
    j2 = j2
    MaxCancels = 1
    MayStop = TRUE
SPECIFICATION FairTransfersSpec
INVARIANTS
    TransfersTypeOK
    OneAnswer
    HandlesAlive
    StaleOnlyAfterCancel
PROPERTIES
    Answered
CHECK_DEADLOCK FALSE
