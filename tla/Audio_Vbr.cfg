CONSTANTS
    Half = 3
    Packs = 1
    MinSample <- Lowest
    MaxSample = 5
    Formats <- OneSong
    SongSize = 5
    MaxSongs = 1
    MaxChunk = 2
    FlushSize = 1
    QueueLimit = 1
    OpenSize = 2
    AvioSize = 2
    ReadSize = 2
    OpusFrame = 2
    EncodedSizes = {1, 2}
    Volumes = {1, 4}
    MaxDisturbances = 0
    Stale = Stale
SPECIFICATION AudioSpec
INVARIANTS
    PacketsAreWhole
CHECK_DEADLOCK FALSE
