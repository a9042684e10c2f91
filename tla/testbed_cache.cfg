SPECIFICATION Spec
CONSTANTS
    num_blocks_gen = 2
    Limit = 2
    Keep = 0
    generator = generator
    SeedThreads = {r1, r2}
    ClientThreads = {r1}
    DataThreads = {d1}
INVARIANTS
    TypeOK
    TornOnlyByOverlap
    HandedOutOnce
    FaultsOnlyByOverlap
CHECK_DEADLOCK FALSE
