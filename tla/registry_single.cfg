SPECIFICATION Spec
CONSTANTS
    k1 = k1
    k2 = k2
    k3 = k3
    n1 = n1
    n2 = n2
    d1 = d1
    d2 = d2
    NoLog = NoLog
    Live = Live
    Key = {k1, k2, k3}
    Namespace = {n1, n2}
    NamespaceOf <- TwoNamespaces
    MaxPerNamespace = 1
    MaxStreams = 1
    MaxTombstones = 0
    Deleter = {d1}
    Backend = "omnikv"
    Mesh = FALSE
    MaxClock = 3
INVARIANTS
    CapacityRespected
