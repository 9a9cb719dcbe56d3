------------------------------- MODULE MCDump -------------------------------
(* Instances of Dump for TLC.                                              *)
EXTENDS Dump, TLC

CONSTANTS a, b
=============================================================================
