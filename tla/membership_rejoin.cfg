SPECIFICATION FairSpec
CONSTANTS
    a = a
    b = b
    c = c
    None = None
    Node = {a, b}
    Seeds <- MutualSeeds
    Allowed <- AllowAll
    GossipLimit = 10
    MaxMembers = 256
    Timely = TRUE
    MaxFaults = 1
    MaxInc = 1
CHECK_DEADLOCK FALSE
PROPERTIES
    Rejoins
