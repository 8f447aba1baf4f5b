SPECIFICATION FairSpec
CONSTANTS
    MaxConns <- MCMaxConns
INVARIANTS
    TypeOK
    ServersDrained
    NeverSpins
PROPERTY
    ShutdownEnds
CHECK_DEADLOCK FALSE
