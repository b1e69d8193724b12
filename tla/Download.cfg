CONSTANTS
    Bytes <- MCBytes
    MAX_URL_SIZE = 5
    OVERHEAD = 2
    READ = 3
    MIN_CHUNK = 1
    MAX_CHUNK = 3
    NoLength = NoLength
    Sources <- MCSources
    MaxFile = 7
    ChunkSizes = {0, 2, 3}
SPECIFICATION FairSpec
INVARIANTS
    AcceptedIsTheFile
    FittingFileIsNotRefused
    DiskBounded
    MemoryBounded
PROPERTY DownloadEnds
CHECK_DEADLOCK FALSE
