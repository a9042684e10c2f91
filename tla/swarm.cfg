SPECIFICATION Spec
CONSTANTS
    Seeds = {s1}
    Clients = {c1}
    num_blocks = 3
    per_gen = 2
    UpdateThreads = {u1}
    RequestThreads = {r1}
    MaxPackets = 1
    ConnectsFail = TRUE
    ThreadsRunOut = TRUE
INVARIANTS
    TypeOK
    RequestsWereAnnounced

    
    
CHECK_DEADLOCK FALSE
