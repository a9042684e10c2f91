SPECIFICATION Spec
CONSTANTS
    NULL = NULL
    num_blocks = 2
    per_gen = 1
    FileInfoThreads = {t1}
    DataThreads = {t1, t2, t3}
    RequestThreads = {t3}
    PeersBreakOff = TRUE
INVARIANTS
    TypeOK
    DecodedOnce
    ServerModeHasFile
    DropsOnlyWhenComplete
    MutexKeptOnlyAfterDecode
    TempFilesUntilDecoded
PROPERTIES
    NothingStoredAfterDecode
    BecomesServer
    StoreIsSequential
CHECK_DEADLOCK FALSE
