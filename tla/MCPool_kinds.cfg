SPECIFICATION FairSpec
CONSTANTS
    p1 = p1
    p2 = p2
    p3 = p3
    c1 = c1
    c2 = c2
    c3 = c3
    None = None
    Dead = Dead
    Procs <- TwoProcs
    Conns <- TwoConns
    Requests = {"UDP", "IPv6"}
    DialKinds <- AllKinds
    MaxConnections = 1
    MaxIdleConnections = 1
    CreateLimit = 1
    QueueCap = 2
    MaxAttempts = 2
    MaxMismatches = 1
    MaxCreateFails = 2
    EnableHealthCheck = TRUE
    Deadline = TRUE
    Expiring = FALSE
    UserCloses = FALSE
    ShutsDown = FALSE
INVARIANT TypeOK
INVARIANT RequestHonoured
PROPERTY CallsReturn
