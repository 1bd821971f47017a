CONSTANTS
    Songs <- OneSong
    SongSize = 2
    ProbeSize = 1
    FeedSize = 1
    MaxErrors = 3
    MaxSkips = 0
    MayStop = TRUE
    Faults = FALSE
    DownloadAhead = TRUE
SPECIFICATION FairSpec
PROPERTIES
    StopEnds
CHECK_DEADLOCK FALSE
