--------------------------- MODULE MCApplication ----------------------------
(* An instance of Application for model checking.                          *)
EXTENDS Application, TLC
CONSTANTS i1, i2, d1, d2, is

Base == [kind |-> "Deployment", image |-> i1, expose |-> TRUE, autoscaling |-> FALSE,
         monitoring |-> FALSE, networkPolicy |-> TRUE, storage |-> "none", fileProbes |-> FALSE]
MCSpecs ==
    {Base,
     [Base EXCEPT !.kind = "StatefulSet", !.autoscaling = TRUE, !.storage = "own"],
     [Base EXCEPT !.kind = "KnativeService", !.fileProbes = TRUE],
     [Base EXCEPT !.image = i2, !.fileProbes = TRUE, !.monitoring = TRUE, !.networkPolicy = FALSE],
     [Base EXCEPT !.image = is, !.fileProbes = TRUE, !.expose = FALSE],
     [Base EXCEPT !.storage = "invalid"]}
MCFirst == {s \in MCSpecs : s.storage = "none" /\ s.image # i2}
MCVersion == i1 :> "new" @@ i2 :> "old" @@ d1 :> "new" @@ d2 :> "old"
MCClusters == {Optional, {"Ingress"}}
=============================================================================
