SPECIFICATION FairSpec
CONSTANTS
    a = a
    b = b
    c = c
    None = None
    Node = {a, b}
    Seeds <- JoinThroughA
    Allowed <- AllowAll
    GossipLimit = 10
    MaxMembers = 256
    Timely = FALSE
    MaxFaults = 1
    MaxInc = 1
CHECK_DEADLOCK FALSE
INVARIANTS
    TypeOK
PROPERTIES
    BeliefMonotone
    
