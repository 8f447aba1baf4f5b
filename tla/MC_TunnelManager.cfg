SPECIFICATION FairSpec
CONSTANTS
    p1 = p1
    p2 = p2
    i1 = i1
    i2 = i2
    n1 = n1
    Procs <- MCProcs
    Names <- MCNames
    Ids <- MCIds
    NoTunnel = NoTunnel
    NoName = NoName
    EventCap = 1
    MaxRequests = 1
INVARIANTS
    TypeOK
    IndexConsistent
    SerialEventsTellStatus
    RestartLeavesNoneStopped
    AtMostOneLateEvent
PROPERTY
    RegistrySpec
    CallsReturn
CHECK_DEADLOCK FALSE
