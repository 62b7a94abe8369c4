SPECIFICATION FairSpec
CONSTANTS
    a = a
    b = b
    c = c
    NoLog = NoLog
    Live = Live
    Node = {a, b}
    Origin = {a}
    Crasher = {b}
    Stream = {"s1"}
    MaxStreams = 1
    MaxOrigins = 1
    MaxClock = 3
    MaxMessages = 1
    Faults = {}
    MaxFaults = 0
PROPERTIES
    DeletionReachesPeers
