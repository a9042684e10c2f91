SPECIFICATION Spec
CONSTANTS
    NULL = NULL
    num_blocks = 2
    per_gen = 1
    FileInfoThreads = {t1, t2}
    DataThreads = {t1}
    RequestThreads = {}
    PeersBreakOff = FALSE
PROPERTY
    JustInitOnce
CHECK_DEADLOCK FALSE
