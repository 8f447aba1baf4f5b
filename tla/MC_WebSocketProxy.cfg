SPECIFICATION FairSpec
CONSTANTS
    MaxMessages <- MCMaxMessages
    Capacity <- MCCapacity
INVARIANTS
    TypeOK
    StreamsKept
PROPERTY
    ServiceEndsSession
CHECK_DEADLOCK FALSE
