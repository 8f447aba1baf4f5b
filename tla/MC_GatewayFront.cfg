SPECIFICATION Spec
CONSTANTS
    c1 = c1
    l1 = l1
    l2 = l2
    Clients <- MCClients
    Links <- MCLinks
    RateLimit = 1
    ShortenerRateLimit = 1
    ShortenerPeriod = 2
    CleanupFreq = 1
    Enabled = TRUE
    Minute = 1
    Hour = 3
    ConfigTTLs <- MCConfigTTLs
    RequestTTLs <- MCRequestTTLs
    DefaultDefault = 1
    DefaultMax = 3
    MaxTime = 4
INVARIANTS
    TypeOK
    LinksWithinQuota
    LinkKept
PROPERTY
    LimiterSpecs
CHECK_DEADLOCK FALSE
