------------------------------- MODULE MCSocket -------------------------------
(* Instances of SharedSocket for TLC.                                      *)
EXTENDS SharedSocket

CONSTANTS h1, h2, d1, d2, d3

OneProbe    == {h1}
TwoProbes   == {h1, h2}
TwoDrains   == {d1, d2}
ThreeDrains == {d1, d2, d3}

=============================================================================
