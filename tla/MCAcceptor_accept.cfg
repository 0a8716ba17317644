SPECIFICATION FairSpec
CONSTANTS
    a1 = a1
    a2 = a2
    a3 = a3
    c1 = c1
    c2 = c2
    c3 = c3
    Nothing = Nothing
    Error = Error
    Calls <- ThreeCalls
    Conns <- ThreeConns
CHECK_DEADLOCK FALSE
INVARIANT OneLossPerTimeout
INVARIANT DeliveredOpen
PROPERTY AcceptReturns
