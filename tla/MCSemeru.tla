------------------------------ MODULE MCSemeru ------------------------------
(* Instances of Semeru for TLC.  The images and the ports are              *)
(* interchangeable, so one initial resource stands for all.                *)
EXTENDS Semeru

CONSTANTS i1, i2, p, q

MCInitialSpecs == {[enable |-> TRUE, image |-> i1, port |-> p]}
=============================================================================
