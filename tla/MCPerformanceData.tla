------------------------- MODULE MCPerformanceData -------------------------
(* Instances of PerformanceData for TLC.                                   *)
EXTENDS PerformanceData, TLC

CONSTANTS a, b
KeySymmetry == Permutations({a, b})
=============================================================================
