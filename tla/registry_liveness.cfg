SPECIFICATION FairSpec
CONSTANTS
    k1 = k1
    k2 = k2
    k3 = k3
    n1 = n1
    n2 = n2
    d1 = d1
    d2 = d2
    NoLog = NoLog
    Live = Live
    Key = {k1, k2}
    Namespace = {n1}
    NamespaceOf <- OneNamespace
    MaxPerNamespace = 1
    MaxStreams = 2
    MaxTombstones = 2
    Deleter = {d1, d2}
    Backend = "omnikv"
    Mesh = TRUE
    MaxClock = 3
INVARIANTS
    TypeOK
    NoAckedLoss
    
PROPERTIES
    FlushPersists
    LockReleased
