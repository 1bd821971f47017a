CONSTANTS
    Songs <- OddLast
    SongSize = 1
    ProbeSize = 1
    FeedSize = 1
    MaxErrors = 3
    MaxSkips = 0
    MayStop = TRUE
    Faults = FALSE
    DownloadAhead = FALSE
SPECIFICATION FairSpec
PROPERTIES
    AllReleased
    StopWhilePlayingEnds
    SenderStops
CHECK_DEADLOCK FALSE
