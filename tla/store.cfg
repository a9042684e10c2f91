SPECIFICATION Spec
CONSTANTS
    Symbol <- GF4
    Add <- Add4
    Sub <- Add4
    Mul <- Mul4
    Div <- Div4
    num_blocks = 5
    per_gen = 2
    Data <- MCData
    Incoming <- FewVectors
    Weights = {2}
    MaxRestarts = 1
INVARIANTS
    TypeOK
    Accounting
    BufferBound
    CompletionCount
    DecodeHasAllBlocks
    GetRankIsRankWhenFresh

    
CHECK_DEADLOCK FALSE
