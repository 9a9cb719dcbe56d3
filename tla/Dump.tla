-------------------------------- MODULE Dump --------------------------------
(***************************************************************************)
(* The controller of OpenLibertyDump resources                             *)
(* (internal/controller/openlibertydump_controller.go): it marks the       *)
(* resource as started, runs the server dump in the pod, which may take    *)
(* minutes, and reports the outcome.  The errors of all its writes of the  *)
(* status are ignored, and nothing makes it look at a resource again but a *)
(* change of the resource.                                                 *)
(***************************************************************************)
EXTENDS Integers, FiniteSets

CONSTANTS Key,             \* OpenLibertyDump resources
          MaxUserEdits,    \* bound: edits by users and changes of pods
          MaxFaults,       \* bound: failed calls and conflicting edits
          MaxRestarts      \* bound: restarts of the operator

ASSUME DumpAssumption ==
    /\ MaxUserEdits \in Nat
    /\ MaxFaults \in Nat
    /\ MaxRestarts \in Nat

VARIABLES life,     \* life cycle of each resource
          status,   \* conditions Started and Completed, and the dump's file
          running,  \* resources whose pod is running
          dumps,    \* server dumps run for each resource
          queue,    \* resources to reconcile
          rec,      \* the reconcile in progress
          edits, faults, restarts   \* how many there have been

counters == << edits, faults, restarts >>
vars == << life, status, running, dumps, queue, rec, edits, faults, restarts >>

-----------------------------------------------------------------------------
Conditions == [started : {"none", "True", "False"}, completed : {"none", "True", "False"},
               file : BOOLEAN]
NoConditions == [started |-> "none", completed |-> "none", file |-> FALSE]
NoRec == [pc |-> "idle", key |-> "none", mem |-> NoConditions, fresh |-> TRUE]

Fault == faults < MaxFaults /\ faults' = faults + 1

(* Status().Update of the copy in memory; its error is not looked at.      *)
UpdateStatus(conditions) ==
    \/ /\ status' = IF rec.fresh THEN [status EXCEPT ![rec.key] = conditions] ELSE status
       /\ UNCHANGED faults
    \/ Fault /\ UNCHANGED status

-----------------------------------------------------------------------------
(* Reconcile.                                                              *)

Take(k) == rec.pc = "idle" /\ k \in queue /\ queue' = queue \ {k}

(* Mutant: looks at what has completed, not at what has started.           *)
AlreadyStarted_Completed(k) == status[k].completed = "True"

AlreadyStarted(k) == status[k].started = "True"

Ignore(k) ==
    /\ Take(k)
    /\ life[k] = "gone" \/ AlreadyStarted(k)
    /\ UNCHANGED << life, status, running, dumps, rec, counters >>

Begin(k) ==
    /\ Take(k)
    /\ life[k] = "live"
    /\ ~AlreadyStarted(k)
    /\ rec' = [NoRec EXCEPT !.pc = "lookup", !.key = k, !.mem = status[k]]
    /\ UNCHANGED << life, status, running, dumps, counters >>

(* No retry: the pod may start without the controller noticing.            *)
PodNotRunning ==
    /\ rec.pc = "lookup"
    /\ rec.key \notin running
    /\ UpdateStatus([rec.mem EXCEPT !.started = "False"])
    /\ rec' = NoRec
    /\ UNCHANGED << life, running, dumps, queue, edits, restarts >>

(* Whatever the error of the lookup, it counts as no running pod.          *)
LookupFails ==
    /\ rec.pc = "lookup"
    /\ Fault
    /\ status' = IF rec.fresh THEN [status EXCEPT ![rec.key].started = "False"] ELSE status
    /\ rec' = NoRec
    /\ UNCHANGED << life, running, dumps, queue, edits, restarts >>

(* Mutant: does not know whether the dump starts.                          *)
MarkStarted_Unknown ==
    /\ rec.pc = "lookup"
    /\ rec.key \in running
    /\ LET mem == [rec.mem EXCEPT !.started = "Unknown"]
       IN  UpdateStatus(mem) /\ rec' = [rec EXCEPT !.pc = "dump", !.mem = mem]
    /\ UNCHANGED << life, running, dumps, queue, edits, restarts >>

MarkStarted ==
    /\ rec.pc = "lookup"
    /\ rec.key \in running
    /\ LET mem == [rec.mem EXCEPT !.started = "True"]
       IN  UpdateStatus(mem) /\ rec' = [rec EXCEPT !.pc = "dump", !.mem = mem]
    /\ UNCHANGED << life, running, dumps, queue, edits, restarts >>

(* The command starts in the pod.                                          *)
RunDump ==
    /\ rec.pc = "dump"
    /\ dumps' = [dumps EXCEPT ![rec.key] = @ + 1]
    /\ rec' = [rec EXCEPT !.pc = "await"]
    /\ UNCHANGED << life, status, running, queue, counters >>

(* Mutant: the error of the command is not reported.                       *)
ReportDump_NoError ==
    /\ rec.pc = "await"
    /\ \/ UpdateStatus([rec.mem EXCEPT !.completed = "True", !.file = TRUE])
       \/ UNCHANGED << status, faults >>
    /\ rec' = NoRec
    /\ UNCHANGED << life, running, dumps, queue, edits, restarts >>

ReportDump ==
    /\ rec.pc = "await"
    /\ \/ UpdateStatus([rec.mem EXCEPT !.completed = "True", !.file = TRUE])
       \/ UpdateStatus([rec.mem EXCEPT !.completed = "False"])
    /\ rec' = NoRec
    /\ UNCHANGED << life, running, dumps, queue, edits, restarts >>

-----------------------------------------------------------------------------
(* Users, pods and the operator process.                                   *)

UserEdit(k) ==
    /\ edits < MaxUserEdits /\ edits' = edits + 1
    /\ life[k] = "live"
    /\ queue' = queue \union {k}
    /\ \/ rec.key # k /\ UNCHANGED << rec, faults >>
       \/ rec.key = k /\ rec' = [rec EXCEPT !.fresh = FALSE] /\ Fault
    /\ UNCHANGED << status, running, dumps, restarts >>

EditCR(k) == UserEdit(k) /\ UNCHANGED life

DeleteCR(k) == UserEdit(k) /\ life' = [life EXCEPT ![k] = "gone"]

ChangePod(k) ==
    /\ edits < MaxUserEdits /\ edits' = edits + 1
    /\ running' = IF k \in running THEN running \ {k} ELSE running \union {k}
    /\ UNCHANGED << life, status, dumps, queue, rec, faults, restarts >>

RestartOperator ==
    /\ restarts < MaxRestarts /\ restarts' = restarts + 1
    /\ rec' = NoRec
    /\ queue' = {k \in Key : life[k] = "live"}
    /\ UNCHANGED << life, status, running, dumps, edits, faults >>

-----------------------------------------------------------------------------
Init ==
    /\ life = [k \in Key |-> "live"]
    /\ status = [k \in Key |-> NoConditions]
    /\ running \in SUBSET Key
    /\ dumps = [k \in Key |-> 0]
    /\ queue = Key
    /\ rec = NoRec
    /\ edits = 0 /\ faults = 0 /\ restarts = 0

Continue == PodNotRunning \/ MarkStarted \/ RunDump \/ ReportDump

Next ==
    \/ \E k \in Key : Ignore(k) \/ Begin(k)
    \/ Continue
    \/ LookupFails
    \/ \E k \in Key : EditCR(k) \/ DeleteCR(k) \/ ChangePod(k)
    \/ RestartOperator

Spec == Init /\ [][Next]_vars

(* The worker takes every queued resource in turn, and a command ends.     *)
Fairness ==
    /\ \A k \in Key : SF_vars(Begin(k))
    /\ WF_vars(Continue)

FairSpec == Spec /\ Fairness

-----------------------------------------------------------------------------
(* Properties.                                                             *)

(* The variables hold what the code keeps in them.                         *)
TypeOK ==
    /\ life \in [Key -> {"live", "gone"}]
    /\ status \in [Key -> Conditions]
    /\ running \subseteq Key
    /\ dumps \in [Key -> Nat]
    /\ queue \subseteq Key
    /\ rec \in [pc : {"idle", "lookup", "dump", "await"}, key : Key \union {"none"},
                mem : Conditions, fresh : BOOLEAN]
    /\ edits \in 0 .. MaxUserEdits
    /\ faults \in 0 .. MaxFaults
    /\ restarts \in 0 .. MaxRestarts

(* One resource, one dump (user guide: "Once the dump has started, the CR  *)
(* can not be re-used to take more dumps").                                *)
OneDumpPerCR == \A k \in Key : dumps[k] <= 1

(* The resource keeps what Operation promises: however edits, failed calls *)
(* and restarts interleave with a dump, an outcome is that of a dump that  *)
(* was run, and is final, so that the file name a user needs to find the   *)
(* dump is never overwritten; as long as every write of the status is made *)
(* there is one dump, which was reported started before.                   *)
Phase(c) ==
    CASE c.completed = "True" -> "completed"
      [] c.completed = "False" -> "failed"
      [] c.completed = "none" /\ c.started = "True" -> "started"
      [] c.completed = "none" /\ c.started = "False" -> "refused"
      [] OTHER -> "requested"

Op == INSTANCE Operation WITH phase <- [k \in Key |-> Phase(status[k])],
                              performed <- dumps, lost <- faults > 0

KeepsPromise == Op!Spec

(* A dump that has been run is reported, as completed or as failed, unless *)
(* its resource is deleted, the operator restarts or a write of the status *)
(* is lost (user guide: "You can check the status of a dump operation      *)
(* using the status field").                                               *)
DumpIsReported ==
    \A k \in Key :
        dumps[k] > 0 ~> \/ status[k].completed # "none"
                        \/ life[k] = "gone"
                        \/ restarts > 0 \/ faults > 0

=============================================================================
