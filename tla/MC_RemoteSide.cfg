SPECIFICATION FairSpec
CONSTANTS
    e1 = e1
    e2 = e2
    e3 = e3
    x1 = x1
    v1 = v1
    n1 = n1
    Names <- MCNames
    NoName = NoName
    Callers <- MCCallers
    TLSCallers <- MCEntries
    Entries <- MCEntries
    Name <- MCName
    Protocol <- MCProtocol
    Visitors <- MCVisitors
    CLIs <- MCCLIs
    Invocations <- MCInvocations
    MaxLosses = 1
    MaxCrashes = 1
    MaxStarts = 2
    MaxCommands = 1
    MaxInputs = 1
INVARIANTS
    TypeOK
    ListensOnlyAccepted
    ExitTellsTruth
PROPERTIES
    AgentSettles
CHECK_DEADLOCK FALSE
