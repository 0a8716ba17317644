SPECIFICATION FairUpkeep
CONSTANTS
    p1 = p1
    p2 = p2
    p3 = p3
    c1 = c1
    c2 = c2
    c3 = c3
    None = None
    Dead = Dead
    Procs <- TwoProcs
    Conns <- OneConn
    Requests = {"Any"}
    DialKinds <- OneKind
    MaxConnections = 0
    MaxIdleConnections = 1
    CreateLimit = 2
    QueueCap = 2
    MaxAttempts = 2
    MaxMismatches = 1
    MaxCreateFails = 1
    EnableHealthCheck = TRUE
    Deadline = FALSE
    Expiring = TRUE
    UserCloses = FALSE
    ShutsDown = TRUE
    EnableStats = FALSE
    Idling = TRUE
PROPERTY ExpiredReclaimed
PROPERTY ManagedCloseCompletes
INVARIANT ClosedPoolDrained
