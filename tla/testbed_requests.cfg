SPECIFICATION Spec
CONSTANTS
    Peers = {s1}
    Seeds = {s1}
    num_blocks_gen = 2
    MaxRelease = 1
    GossipThreads = {g1}
    PacketThreads = {d1}
INVARIANTS
    TypeOK
PROPERTIES
    Completes
CHECK_DEADLOCK FALSE
