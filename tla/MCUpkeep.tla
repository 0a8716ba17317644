------------------------------ MODULE MCUpkeep ------------------------------
(* Instances of PoolUpkeep for TLC.                                        *)
EXTENDS MCPool, PoolUpkeep

=============================================================================
