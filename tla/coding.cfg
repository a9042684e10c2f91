SPECIFICATION Spec
CONSTANTS
    Symbol <- GF4
    Add <- Add4
    Sub <- Add4
    Mul <- Mul4
    Div <- Div4
    num_blocks = 3
    per_gen = 3
    Data <- MCData
    Incoming <- TripleVectors
    Weights = {1, 2}
    MaxRestarts = 1
INVARIANTS
    EchelonForm
    HelpfulIffInnovative
    
    DecodedIsFile
CHECK_DEADLOCK FALSE
