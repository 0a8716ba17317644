------------------------------- MODULE MCPool -------------------------------
(* Instances of Pool for TLC.                                              *)
EXTENDS PoolProperties, TLC

CONSTANTS p1, p2, p3, c1, c2, c3

tcp4 == [proto |-> "TCP", ip |-> "IPv4"]
udp6 == [proto |-> "UDP", ip |-> "IPv6"]
misc == [proto |-> "Unknown", ip |-> "Unknown"]

TwoProcs   == {p1, p2}
ThreeProcs == {p1, p2, p3}
OneConn    == {c1}
TwoConns   == {c1, c2}
ThreeConns == {c1, c2, c3}

OneKind  == {tcp4}
AllKinds == {tcp4, udp6, misc}

Perms2 == Permutations(TwoProcs) \cup Permutations(TwoConns)
Perms23 == Permutations(TwoProcs) \cup Permutations(ThreeConns)
Perms3 == Permutations(ThreeProcs) \cup Permutations(ThreeConns)

=============================================================================
