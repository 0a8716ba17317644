------------------------------ MODULE MCStartup ------------------------------
(* Instances of PoolStartup for TLC: configurations around each limit.     *)
EXTENDS PoolStartup

Usual ==
    [Mode |-> "client", Dialer |-> TRUE, Listener |-> FALSE, Acceptor |-> "nil",
     MaxConnections |-> 2, MinConnections |-> 1, MaxIdleConnections |-> 2,
     ConnectionTimeout |-> 1, HealthCheckInterval |-> 4, HealthCheckTimeout |-> 1,
     ConnectionLeakTimeout |-> 6, LeakDetectionInterval |-> 0,
     MaxBufferClearPackets |-> 0, EnableHealthCheck |-> TRUE]

Modes ==
    {[Usual EXCEPT !.Mode = m, !.Dialer = d, !.Listener = l, !.Acceptor = a] :
        m \in {"client", "server", "other"}, d \in BOOLEAN, l \in BOOLEAN,
        a \in {"nil", "own"}}
Sizes ==
    {[Usual EXCEPT !.MaxConnections = x, !.MinConnections = n,
                   !.MaxIdleConnections = i, !.ConnectionTimeout = t] :
        x \in {0, 1, 3}, n \in -1..4, i \in 0..4, t \in {0, 1, 4, 6, 12}}
Times ==
    {[Usual EXCEPT !.HealthCheckInterval = i, !.HealthCheckTimeout = t,
                   !.EnableHealthCheck = e, !.ConnectionLeakTimeout = l,
                   !.LeakDetectionInterval = d, !.MaxBufferClearPackets = b] :
        i \in {0, 1, 4}, t \in {0, 1, 5, 10}, e \in BOOLEAN,
        l \in {0, 1, 6, 20}, d \in {0, 3}, b \in {0, 7}}

Tried == Modes \cup Sizes \cup Times

=============================================================================
