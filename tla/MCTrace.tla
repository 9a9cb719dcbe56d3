------------------------------ MODULE MCTrace ------------------------------
(* Instances of Trace for TLC.                                             *)
EXTENDS Trace, TLC

CONSTANTS a, p, q
TraceSymmetry == Permutations({p, q})
=============================================================================
