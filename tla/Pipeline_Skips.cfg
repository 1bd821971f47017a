CONSTANTS
    Songs <- OneCached
    SongSize = 2
    ProbeSize = 1
    FeedSize = 1
    MaxErrors = 0
    MaxSkips = 1
    MayStop = FALSE
    Faults = TRUE
    DownloadAhead = FALSE
SPECIFICATION FairSpec
PROPERTIES
    DoSkipEndsCycle
CHECK_DEADLOCK FALSE
