CONSTANTS
    Half = 3
    Packs = 1
    MinSample <- Lowest
    MaxSample = 5
    Formats <- AllSongs
    SongSize = 5
    MaxSongs = 2
    MaxChunk = 2
    FlushSize = 1
    QueueLimit = 1
    OpenSize = 2
    AvioSize = 3
    ReadSize = 2
    OpusFrame = 3
    EncodedSizes = {1}
    Volumes = {3}
    MaxDisturbances = 1
    Stale = Stale
SPECIFICATION FairAudioSpec
INVARIANTS
    AudioTypeOK
    HeardAsDecoded
    DecodedInOrder
PROPERTIES
    PauseEnds
CHECK_DEADLOCK FALSE
