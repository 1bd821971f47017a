CONSTANTS
    Songs <- MixedSongs
    SongSize = 3
    ProbeSize = 1
    FeedSize = 2
    MaxErrors = 3
    MaxSkips = 0
    MayStop = FALSE
    Faults = FALSE
    DownloadAhead = TRUE
SPECIFICATION FairSpec
INVARIANTS
    TypeOK
    PlayedWhole
    LoopWaitsForCycle
    OverlapOnlyAtEof
    NoLeftOverFinish
PROPERTIES
    ArrivedIsHeard
    PlaysLikePlayer
CHECK_DEADLOCK FALSE
