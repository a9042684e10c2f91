SPECIFICATION Spec
CONSTANTS
    Seeds = {s1}
    Clients = {c1, c2}
    num_blocks = 1
    per_gen = 1
    UpdateThreads = {u1}
    RequestThreads = {r1}
    MaxPackets = 1
    ConnectsFail = FALSE
    ThreadsRunOut = FALSE
INVARIANTS
    DroppedGossipIsOwn
CHECK_DEADLOCK FALSE
