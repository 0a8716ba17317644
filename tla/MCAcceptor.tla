------------------------------ MODULE MCAcceptor ------------------------------
(* Instances of Acceptor for TLC.                                          *)
EXTENDS Acceptor

CONSTANTS a1, a2, a3, c1, c2, c3

ThreeCalls == {a1, a2, a3}
ThreeConns == {c1, c2, c3}

=============================================================================
