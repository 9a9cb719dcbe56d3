------------------------------- MODULE Trace -------------------------------
(***************************************************************************)
(* The controller of OpenLibertyTrace resources                            *)
(* (internal/controller/openlibertytrace_controller.go).  A trace is       *)
(* enabled by writing one configuration file in the container of a pod,    *)
(* and stopped by removing that file; which pod has it is remembered only  *)
(* in the status of the resource.                                          *)
(*                                                                         *)
(* The controller has one worker.  A reconcile is a sequence of steps: the *)
(* read of the resource, commands run in pods, the write of the status.  A *)
(* status written after a user has changed the resource conflicts.         *)
(***************************************************************************)
EXTENDS Integers, FiniteSets

CONSTANTS Key,             \* OpenLibertyTrace resources
          Pod,             \* names of pods
          MaxUserEdits,    \* bound: edits by users
          MaxPodChanges,   \* bound: pods that stop or start
          MaxFaults        \* bound: failed calls, restarts, conflicting edits

ASSUME TraceAssumption ==
    /\ "none" \notin Pod
    /\ MaxUserEdits \in Nat
    /\ MaxPodChanges \in Nat
    /\ MaxFaults \in Nat

VARIABLES life,    \* life cycle of each resource
          spec,    \* pod to trace, and whether the trace is disabled
          status,  \* condition Enabled and the pod last operated on
          running, \* pods that exist
          traced,  \* pods that have the trace configuration file
          queue,   \* resources to reconcile
          rec,     \* the reconcile in progress
          edits, podChanges, faults   \* how many there have been

userVars == << edits, podChanges >>
vars == << life, spec, status, running, traced, queue, rec, edits, podChanges, faults >>

-----------------------------------------------------------------------------
Specs == [pod : Pod, disable : BOOLEAN]
Statuses == [enabled : {"none", "True", "False"}, pod : Pod \union {"none"}, error : BOOLEAN]
NoSpec == [pod |-> "none", disable |-> FALSE]
NoStatus == [enabled |-> "none", pod |-> "none", error |-> FALSE]

(* prev is the status read at the start, new the one to be written,        *)
(* returned whether the caller returns what UpdateStatus returns.          *)
NoRec == [pc |-> "idle", key |-> "none", spec |-> NoSpec,
          prev |-> NoStatus, new |-> NoStatus, returned |-> FALSE, fresh |-> TRUE]

Fault == faults < MaxFaults /\ faults' = faults + 1

Take(k) == rec.pc = "idle" /\ k \in queue
Goto(pc) == rec' = [rec EXCEPT !.pc = pc]

(* A command in a pod succeeds, or fails before or after it took effect.   *)
Run(after, succeeded, failed) ==
    \/ traced' = after /\ succeeded /\ UNCHANGED faults
    \/ traced' \in {traced, after} /\ failed /\ Fault

-----------------------------------------------------------------------------
(* Reconcile.                                                              *)

NotFound(k) ==
    /\ Take(k)
    /\ life[k] = "gone"
    /\ queue' = queue \ {k}
    /\ UNCHANGED << life, spec, status, running, traced, rec, userVars, faults >>

(* Mutant: leaves the previous pod alone.                                  *)
AfterStart_NoPrevious(k) == "lookup"

(* Tracing on the previous pod is stopped first, if it was enabled there.  *)
AfterStart(k) ==
    IF status[k].pod # spec[k].pod /\ status[k].enabled = "True"
    THEN "disablePrev" ELSE "lookup"

(* Reads the resource and adds the finalizer.                              *)
StartReconcile(k) ==
    /\ Take(k)
    /\ life[k] \in {"new", "live"}
    /\ life' = [life EXCEPT ![k] = "live"]
    /\ rec' = [NoRec EXCEPT !.pc = AfterStart(k), !.key = k,
                            !.spec = spec[k], !.prev = status[k]]
    /\ queue' = queue \ {k}
    /\ UNCHANGED << spec, status, running, traced, userVars, faults >>

StartFinalize(k) ==
    /\ Take(k)
    /\ life[k] = "deleting"
    /\ rec' = [NoRec EXCEPT !.pc = IF status[k].enabled = "True" THEN "finalize"
                                                                ELSE "dropFinalizer",
                            !.key = k, !.prev = status[k]]
    /\ queue' = queue \ {k}
    /\ UNCHANGED << life, spec, status, running, traced, userVars, faults >>

(* The finalizer cannot be added; the error brings the resource back.      *)
AddFinalizerFails(k) ==
    /\ Take(k)
    /\ life[k] = "new"
    /\ Fault
    /\ UNCHANGED << life, spec, status, running, traced, queue, rec, userVars >>

(* disableTraceOnPrevPod; its caller does not learn that it failed.        *)
DisableTraceOnPrevPod ==
    /\ rec.pc \in {"disablePrev", "finalize"}
    /\ LET next == Goto(IF rec.pc = "finalize" THEN "dropFinalizer" ELSE "lookup")
       IN  IF rec.prev.pod \in running
           THEN Run(traced \ {rec.prev.pod}, next, next)
           ELSE next /\ UNCHANGED << traced, faults >>
    /\ UNCHANGED << life, spec, status, running, queue, userVars >>

DropFinalizer ==
    /\ rec.pc = "dropFinalizer"
    /\ \/ /\ life' = [life EXCEPT ![rec.key] = "gone"]
          /\ UNCHANGED << queue, faults >>
       \/ /\ Fault
          /\ queue' = queue \union {rec.key}
          /\ UNCHANGED life
    /\ rec' = NoRec
    /\ UNCHANGED << spec, status, running, traced, userVars >>

(* The status to be written, and whether a failed write is retried.        *)
Report(enabled, error, returned) ==
    rec' = [rec EXCEPT !.pc = "update", !.returned = returned,
                       !.new = [enabled |-> enabled, pod |-> rec.spec.pod, error |-> error]]

PodNotFound ==
    /\ rec.pc = "lookup"
    /\ rec.spec.pod \notin running
    /\ Report("False", TRUE, TRUE)
    /\ UNCHANGED << life, spec, status, running, traced, queue, userVars, faults >>

DisableTrace ==
    /\ rec.pc = "lookup"
    /\ rec.spec.pod \in running
    /\ rec.spec.disable
    /\ IF rec.prev.pod = rec.spec.pod /\ rec.prev.enabled = "True"
       THEN Run(traced \ {rec.spec.pod}, Report("False", FALSE, FALSE), Report("True", TRUE, TRUE))
       ELSE Report("False", FALSE, FALSE) /\ UNCHANGED << traced, faults >>
    /\ UNCHANGED << life, spec, status, running, queue, userVars >>

(* Mutant: goes on without the pod.                                        *)
EnableTrace_NoLookup ==
    /\ rec.pc = "lookup"
    /\ ~rec.spec.disable
    /\ Run(traced \union {rec.spec.pod}, Report("True", FALSE, FALSE), Report("False", TRUE, TRUE))
    /\ UNCHANGED << life, spec, status, running, queue, userVars >>

(* Mutant: does not care whether the error could be reported.              *)
EnableTrace_NoRetry ==
    /\ rec.pc = "lookup"
    /\ rec.spec.pod \in running
    /\ ~rec.spec.disable
    /\ Run(traced \union {rec.spec.pod}, Report("True", FALSE, FALSE), Report("False", TRUE, FALSE))
    /\ UNCHANGED << life, spec, status, running, queue, userVars >>

EnableTrace ==
    /\ rec.pc = "lookup"
    /\ rec.spec.pod \in running
    /\ ~rec.spec.disable
    /\ Run(traced \union {rec.spec.pod}, Report("True", FALSE, FALSE), Report("False", TRUE, TRUE))
    /\ UNCHANGED << life, spec, status, running, queue, userVars >>

UpdateStatus ==
    /\ rec.pc = "update"
    /\ \/ /\ rec.fresh
          /\ status' = [status EXCEPT ![rec.key] = rec.new]
          /\ UNCHANGED << queue, faults >>
       \/ /\ \/ ~rec.fresh /\ UNCHANGED faults
             \/ Fault
          /\ queue' = IF rec.returned THEN queue \union {rec.key} ELSE queue
          /\ UNCHANGED status
    /\ rec' = NoRec
    /\ UNCHANGED << life, spec, running, traced, userVars >>

-----------------------------------------------------------------------------
(* Users, pods and the operator process.                                   *)

UserEdit(k) ==
    /\ edits < MaxUserEdits /\ edits' = edits + 1
    /\ life[k] \in {"new", "live"}
    /\ queue' = queue \union {k}
    /\ \/ rec.key # k /\ UNCHANGED << rec, faults >>
       \/ rec.key = k /\ rec' = [rec EXCEPT !.fresh = FALSE] /\ Fault
    /\ UNCHANGED << status, running, traced, podChanges >>

EditCR(k) ==
    /\ \E s \in Specs \ {spec[k]} : spec' = [spec EXCEPT ![k] = s]
    /\ UserEdit(k)
    /\ UNCHANGED life

(* Without the finalizer the resource is gone at once.                     *)
DeleteCR(k) ==
    /\ life' = [life EXCEPT ![k] = IF @ = "new" THEN "gone" ELSE "deleting"]
    /\ UserEdit(k)
    /\ UNCHANGED spec

(* A pod loses its files when it stops.                                    *)
ChangePod(p) ==
    /\ podChanges < MaxPodChanges /\ podChanges' = podChanges + 1
    /\ running' = IF p \in running THEN running \ {p} ELSE running \union {p}
    /\ traced' = traced \ {p}
    /\ UNCHANGED << life, spec, status, queue, rec, edits, faults >>

RestartOperator ==
    /\ rec' = NoRec
    /\ queue' = {k \in Key : life[k] # "gone"}
    /\ Fault
    /\ UNCHANGED << life, spec, status, running, traced, userVars >>

-----------------------------------------------------------------------------
Init ==
    /\ life = [k \in Key |-> "new"]
    /\ spec \in [Key -> Specs]
    /\ status = [k \in Key |-> NoStatus]
    /\ running = Pod
    /\ traced = {}
    /\ queue = Key
    /\ rec = NoRec
    /\ edits = 0 /\ podChanges = 0 /\ faults = 0

Next ==
    \/ \E k \in Key : NotFound(k) \/ StartReconcile(k) \/ StartFinalize(k) \/ AddFinalizerFails(k)
    \/ DisableTraceOnPrevPod
    \/ DropFinalizer
    \/ PodNotFound
    \/ DisableTrace
    \/ EnableTrace
    \/ UpdateStatus
    \/ \E k \in Key : EditCR(k) \/ DeleteCR(k)
    \/ \E p \in Pod : ChangePod(p)
    \/ RestartOperator

Spec == Init /\ [][Next]_vars

-----------------------------------------------------------------------------
(* Properties.                                                             *)

(* The variables hold what the code keeps in them.                         *)
TypeOK ==
    /\ life \in [Key -> {"new", "live", "deleting", "gone"}]
    /\ spec \in [Key -> Specs]
    /\ status \in [Key -> Statuses]
    /\ running \subseteq Pod
    /\ traced \subseteq running
    /\ queue \subseteq Key
    /\ rec \in [pc : {"idle", "disablePrev", "finalize", "dropFinalizer", "lookup", "update"},
                key : Key \union {"none"}, spec : Specs \union {NoSpec},
                prev : Statuses, new : Statuses, returned : BOOLEAN, fresh : BOOLEAN]
    /\ edits \in 0 .. MaxUserEdits
    /\ podChanges \in 0 .. MaxPodChanges
    /\ faults \in 0 .. MaxFaults

(* As long as no call fails and no edit conflicts, the status of some      *)
(* resource, or the reconcile in progress, knows of every trace: however   *)
(* pods and specs change, none is left that nobody would stop.             *)
NoOrphanTrace ==
    faults = 0 => \A p \in traced : \E k \in Key :
        /\ life[k] # "gone"
        /\ rec.key = k \/ (status[k].enabled = "True" /\ status[k].pod = p)

Settled == queue = {} /\ rec.pc = "idle"

(* Once everything is reconciled, a pod is traced only if a resource asks  *)
(* for it (user guide: "Deleting the CR will also stop the tracing";       *)
(* "Changing the podName will first stop the tracing on the old Pod").     *)
NoUnwantedTrace ==
    Settled => \A p \in traced : \E k \in Key :
                  life[k] = "live" /\ spec[k].pod = p /\ ~spec[k].disable

(* Once everything is reconciled, a pod that the resource asks to trace is *)
(* traced, or the status reports an error for it, whatever failed on the   *)
(* way (UpdateStatus asks for a retry if the error cannot be reported), as *)
(* long as no pod is restarted (user guide: the operator doesn't monitor   *)
(* the pods).                                                              *)
WantedIsTracedOrError ==
    Settled /\ podChanges = 0 => \A k \in Key : life[k] = "live" /\ ~spec[k].disable =>
                  \/ spec[k].pod \in traced
                  \/ status[k].error /\ status[k].pod = spec[k].pod

(* The finalizer is removed only once the trace the status tells of is     *)
(* stopped ("If the finalization logic fails, don't remove the finalizer").*)
FinalizerStopsTrace ==
    [][rec.pc = "dropFinalizer" /\ life' # life /\ rec.prev.enabled = "True"
          => rec.prev.pod \notin traced]_vars

=============================================================================
