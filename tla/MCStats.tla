------------------------------- MODULE MCStats -------------------------------
(* Instances of PoolStats for TLC.                                         *)
EXTENDS MCPool, PoolStats

=============================================================================
