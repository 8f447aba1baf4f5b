SPECIFICATION CSpec
CONSTANTS
    cl = cl
    h1 = h1
    h2 = h2
    i1 = i1
    i2 = i2
    n1 = n1
    n2 = n2
    Procs <- OneHandler
    Names <- TwoNames
    Ids <- TwoIds
    NoTunnel = NoTunnel
    NoName = NoName
    EventCap = 1
    MaxRequests = 0
    Cleaner = cl
    OperatorOps = {"enable", "disable"}
    DisableAfter = 1
    DeleteAfter = 2
INVARIANTS
    CTypeOK
    OnlyIdleTouched
    PassComplete
PROPERTY
    ManagerSpec
SYMMETRY MCSymmetry
