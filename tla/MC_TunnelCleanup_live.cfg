SPECIFICATION CFairSpec
CONSTANTS
    cl = cl
    h1 = h1
    h2 = h2
    i1 = i1
    i2 = i2
    n1 = n1
    n2 = n2
    Procs <- TwoHandlers
    Names <- OneName
    Ids <- OneId
    NoTunnel = NoTunnel
    NoName = NoName
    EventCap = 1
    MaxRequests = 0
    Cleaner = cl
    OperatorOps = {"start", "stop", "restart", "enable", "disable"}
    DisableAfter = 1
    DeleteAfter = 2
PROPERTY
    IdleDisabled
