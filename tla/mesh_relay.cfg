SPECIFICATION Spec
CONSTANTS
    a = a
    b = b
    c = c
    NoLog = NoLog
    Live = Live
    Node = {a, b, c}
    Origin = {a}
    Crasher = {a, b, c}
    Stream = {"s1"}
    MaxStreams = 1
    MaxOrigins = 1
    MaxClock = 3
    MaxMessages = 1
    Faults = {"crash", "rollback", "lose", "forget"}
    MaxFaults = 2
SYMMETRY Relays
INVARIANTS
    TypeOK
    VersionCovers
    TombstoneDominates
PROPERTIES
    ImplementsRegister
