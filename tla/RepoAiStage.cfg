SPECIFICATION Spec
CONSTANTS
    Sizes = {1, 2, 4}
    MaxFiles = 5
    MaxUnread = 1
    Budget = 3
    KeylessChunks = 1
    MaxChunks = 3
    Retries = 1
    MaxStrikes = 2
INVARIANTS
    FilesPlannedOnce
    ChunkLedger
    WasteBounded
    SilenceMeansComplete
    BannerIsHonest
PROPERTIES
    StageEnds
CHECK_DEADLOCK FALSE
