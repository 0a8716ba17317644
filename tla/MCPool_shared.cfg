SPECIFICATION Spec
CONSTANTS
    p1 = p1
    p2 = p2
    p3 = p3
    c1 = c1
    c2 = c2
    c3 = c3
    None = None
    Dead = Dead
    Procs <- ThreeProcs
    Conns <- ThreeConns
    Requests = {"Any"}
    DialKinds <- OneKind
    MaxConnections = 1
    MaxIdleConnections = 1
    CreateLimit = 2
    QueueCap = 2
    MaxAttempts = 2
    MaxMismatches = 1
    MaxCreateFails = 1
    EnableHealthCheck = TRUE
    Deadline = TRUE
    Expiring = FALSE
    UserCloses = FALSE
    ShutsDown = FALSE
SYMMETRY Perms3
INVARIANT SoleBorrower
