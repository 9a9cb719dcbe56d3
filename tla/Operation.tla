----------------------------- MODULE Operation ------------------------------
(***************************************************************************)
(* What a resource for an operation in a pod (OpenLibertyDump) promises to *)
(* the user who creates it: its conditions tell whether the operation has  *)
(* started and how it ended, the operation is performed once, after it was *)
(* reported started, and an outcome is reported of an operation that was   *)
(* performed, and is final.  Once a report has been lost only the promises *)
(* about the outcome remain.                                               *)
(***************************************************************************)
EXTENDS Naturals

CONSTANT Key              \* resources

VARIABLES phase,          \* what the conditions of each resource say
          performed,      \* how often its operation has been performed
          lost            \* a report has been lost

vars == << phase, performed, lost >>

Open == {"requested", "refused"}
Ended == {"completed", "failed"}

Init ==
    /\ phase = [k \in Key |-> "requested"]
    /\ performed = [k \in Key |-> 0]
    /\ lost = FALSE

Report(k, to) == phase' = [phase EXCEPT ![k] = to] /\ UNCHANGED performed

Refuse(k) == phase[k] \in Open /\ Report(k, "refused")

Start(k) == phase[k] \in Open /\ Report(k, "started")

Perform(k) ==
    /\ ~lost => phase[k] = "started" /\ performed[k] = 0
    /\ performed' = [performed EXCEPT ![k] = @ + 1]
    /\ UNCHANGED phase

End(k) ==
    /\ performed[k] > 0 /\ phase[k] \notin Ended
    /\ \E outcome \in Ended : Report(k, outcome)

Next ==
    /\ \/ \E k \in Key : Refuse(k) \/ Start(k) \/ Perform(k) \/ End(k)
       \/ UNCHANGED << phase, performed >>
    /\ lost' \in {lost, TRUE}

Spec == Init /\ [][Next]_vars
=============================================================================
