SPECIFICATION StatsSpec
CONSTANTS
    p1 = p1
    p2 = p2
    p3 = p3
    c1 = c1
    c2 = c2
    c3 = c3
    None = None
    Dead = Dead
    Procs <- TwoProcs
    Conns <- ThreeConns
    Requests = {"IPv6"}
    DialKinds <- AllKinds
    MaxConnections = 0
    MaxIdleConnections = 1
    CreateLimit = 2
    QueueCap = 2
    MaxAttempts = 4
    MaxMismatches = 3
    MaxCreateFails = 1
    EnableHealthCheck = TRUE
    Deadline = TRUE
    Expiring = FALSE
    UserCloses = FALSE
    ShutsDown = FALSE
SYMMETRY Perms23
INVARIANT BorrowedCounted
