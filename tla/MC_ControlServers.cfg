SPECIFICATION FairSpec
CONSTANTS
    m1 = m1
    m2 = m2
    s1 = s1
    i1 = i1
    n1 = n1
    MCPConns <- MCMCPConns
    SSHConns <- MCSSHConns
    Names <- MCNames
    Ids <- MCIds
    Requests <- MCRequests
    NoName = NoName
    NoArgument = NoArgument
    MaxRequests = 1
    TokenSet = TRUE
    MaxSends = 2
    SocketCap = 1
    ReqCap = 1
    OutCap = 1
    MaxPackets = 4
    MaxConns = 2
    MaxInputs = 4
INVARIANTS
    TypeOK
    AnswersFaithful
PROPERTIES
    HungForGood
    SessionsServed
    SessionsEnd
CHECK_DEADLOCK FALSE
