-------------------------- MODULE PerformanceData --------------------------
(***************************************************************************)
(* The controller of OpenLibertyPerformanceData resources                  *)
(* (internal/controller/openlibertyperformancedata_controller.go) with the *)
(* pod injector it drives.                                                 *)
(*                                                                         *)
(* The controller has one worker, so there is one reconcile at a time; its *)
(* calls to the injector and its writes to the API server are steps of     *)
(* their own.  The status a reconcile writes is the copy it read at its    *)
(* start, changed in memory; a write made after a user has changed the     *)
(* resource conflicts, and the controller ignores that.  A Completed       *)
(* condition is represented by its reason when it is false.                *)
(***************************************************************************)
EXTENDS PodInjector

CONSTANTS DesiredWorkers,   \* values users give performanceDataMaxWorkers
          PodPhases,        \* phases the pods go through
          MaxUserEdits,     \* bound: edits by users and changes of pods
          MaxFaults         \* bound: failed calls and restarts

ASSUME PerformanceDataAssumption ==
    /\ DesiredWorkers \subseteq Nat
    /\ DefaultMax \in DesiredWorkers
    /\ "running" \in PodPhases
    /\ MaxUserEdits \in Nat
    /\ MaxFaults \in Nat

VARIABLES life,     \* life cycle of each resource
          status,   \* its stored status
          pod,      \* phase of the pod its spec names
          queue,    \* resources to reconcile
          rec,      \* the reconcile in progress
          desired,  \* performanceDataMaxWorkers in the operator's ConfigMap
          edits,    \* edits made so far
          faults    \* calls that have failed and restarts so far

crVars == << life, status, pod, queue, desired, edits >>
vars == << injectorVars, life, status, pod, queue, rec, desired, edits, faults >>

-----------------------------------------------------------------------------
(* State.                                                                  *)

Conditions == [started : {"none", "True", "False"},
               completed : {"none", "False", "Error", "InProgress", "TooManyWorkers", "True"},
               failed : {"none", "Error", "ConnectionLost"},
               file : BOOLEAN]
NoConditions == [started |-> "none", completed |-> "none", failed |-> "none", file |-> FALSE]

NoRec == [pc |-> "idle", key |-> "none", mem |-> NoConditions, answer |-> "none", fresh |-> TRUE]

isPerformanceDataRunning(conditions) ==
    /\ conditions.started = "True"
    /\ conditions.completed = "InProgress"
    /\ conditions.failed = "none"

Fault == faults < MaxFaults /\ faults' = faults + 1

(* Status().Update; its error is not looked at.                            *)
UpdateStatus(k, conditions, fresh) ==
    \/ /\ status' = IF fresh THEN [status EXCEPT ![k] = conditions] ELSE status
       /\ UNCHANGED faults
    \/ Fault /\ UNCHANGED status

Take(k) == rec.pc = "idle" /\ k \in queue
Requeue(k) == queue' = queue \union {k}
Forget(k) == queue' = queue \ {k}

-----------------------------------------------------------------------------
(* Reconcile.                                                              *)

NotFound(k) ==
    /\ Take(k)
    /\ life[k] = "gone"
    /\ Forget(k)
    /\ UNCHANGED << injectorVars, life, status, pod, rec, desired, edits, faults >>

(* The finalizer sends Complete and then removes itself.                   *)
Finalize(k) ==
    /\ Take(k)
    /\ life[k] = "deleting"
    /\ Send(k, "complete")
    /\ \/ /\ life' = [life EXCEPT ![k] = "gone"]
          /\ Forget(k)
          /\ UNCHANGED faults
       \/ Fault /\ UNCHANGED << life, queue >>
    /\ UNCHANGED << op, session, workerVars, currentMaxWorkers, mapVars,
                    status, pod, rec, desired, edits >>

(* The finalizer cannot connect, or the finalizer cannot be added.         *)
RetryFinalizer(k) ==
    /\ Take(k)
    /\ life[k] \in {"new", "deleting"}
    /\ Fault
    /\ UNCHANGED << injectorVars, crVars, rec >>

(* Mutant: forgets that the collection has completed.                      *)
Collecting_Again(k) == Take(k) /\ life[k] \in {"new", "live"}

(* Neither deleted nor completed: the finalizer is added if need be.       *)
Collecting(k) == /\ Take(k)
                 /\ life[k] \in {"new", "live"}
                 /\ status[k].completed # "True"

AlreadyCompleted(k) ==
    /\ Take(k)
    /\ life[k] \in {"new", "live"}
    /\ status[k].completed = "True"
    /\ life' = [life EXCEPT ![k] = "live"]
    /\ Forget(k)
    /\ UNCHANGED << injectorVars, status, pod, rec, desired, edits, faults >>

PodNotFound(k) ==
    /\ Collecting(k)
    /\ pod[k] = "gone"
    /\ life' = [life EXCEPT ![k] = "live"]
    /\ UpdateStatus(k, [status[k] EXCEPT !.started = "True", !.completed = "Error"], TRUE)
    /\ IF isPerformanceDataRunning(status[k]) THEN Forget(k) ELSE Requeue(k)
    /\ UNCHANGED << injectorVars, pod, rec, desired, edits >>

PodNotRunning(k) ==
    /\ Collecting(k)
    /\ pod[k] = "pending"
    /\ life' = [life EXCEPT ![k] = "live"]
    /\ UpdateStatus(k, [status[k] EXCEPT !.started = "False"], TRUE)
    /\ UNCHANGED << injectorVars, pod, queue, rec, desired, edits >>

ConnectFails(k) ==
    /\ Collecting(k)
    /\ pod[k] = "running"
    /\ life' = [life EXCEPT ![k] = "live"]
    /\ status' \in {status, [status EXCEPT ![k].started = "False"]}
    /\ Forget(k)
    /\ Fault
    /\ UNCHANGED << injectorVars, pod, rec, desired, edits >>

Connect(k) ==
    /\ Collecting(k)
    /\ pod[k] = "running"
    /\ life' = [life EXCEPT ![k] = "live"]
    /\ LET mem == [status[k] EXCEPT !.started = "True"]
       IN  /\ UpdateStatus(k, mem, TRUE)
           /\ rec' = [NoRec EXCEPT !.pc = "setMax", !.key = k, !.mem = mem]
    /\ Forget(k)
    /\ UNCHANGED << injectorVars, pod, desired, edits >>

RequestMaxWorkers ==
    /\ rec.pc = "setMax"
    /\ SetMaxWorkers(desired)
    /\ rec' = [rec EXCEPT !.pc = "poll"]
    /\ UNCHANGED << crVars, faults >>

PollStatus ==
    /\ rec.pc = "poll"
    /\ op.pc = "idle"
    /\ rec' = [rec EXCEPT !.pc = IF Status(rec.key) = "done" THEN "fileName" ELSE "act",
                          !.answer = Status(rec.key)]
    /\ UNCHANGED << injectorVars, crVars, faults >>

ConnectionLost(answer, conditions) ==
    answer # "writing" /\ isPerformanceDataRunning(conditions)

ReportError ==
    /\ rec.pc = "act"
    /\ rec.answer = "error"
    /\ UpdateStatus(rec.key, [rec.mem EXCEPT !.completed = "False", !.failed = "Error"], rec.fresh)
    /\ rec' = NoRec
    /\ UNCHANGED << injectorVars, life, pod, queue, desired, edits >>

ReportConnectionLost ==
    /\ rec.pc = "act"
    /\ rec.answer # "error"
    /\ ConnectionLost(rec.answer, rec.mem)
    /\ UpdateStatus(rec.key, [rec.mem EXCEPT !.completed = "False", !.failed = "ConnectionLost"],
                    rec.fresh)
    /\ rec' = NoRec
    /\ UNCHANGED << injectorVars, life, pod, queue, desired, edits >>

(* StartScript if the injector is idle; look again in five seconds.        *)
AwaitCollection ==
    /\ rec.pc = "act"
    /\ rec.answer # "error"
    /\ ~ConnectionLost(rec.answer, rec.mem)
    /\ IF rec.answer = "idle" THEN Send(rec.key, "start") ELSE UNCHANGED pending
    /\ UpdateStatus(rec.key,
                    [rec.mem EXCEPT !.completed = IF rec.answer = "toomanyworkers"
                                                  THEN "TooManyWorkers" ELSE "InProgress"],
                    rec.fresh)
    /\ Requeue(rec.key)
    /\ rec' = NoRec
    /\ UNCHANGED << op, session, workerVars, currentMaxWorkers, mapVars,
                    life, pod, desired, edits >>

PollLinperfFileName ==
    /\ rec.pc = "fileName"
    /\ op.pc = "idle"
    /\ rec' = [rec EXCEPT !.pc = "complete", !.mem.file = rec.key \in linperfFileNames]
    /\ UNCHANGED << injectorVars, crVars, faults >>

(* Complete is sent only if the status could be written.                   *)
ReportCompleted ==
    /\ rec.pc = "complete"
    /\ \/ /\ rec.fresh
          /\ status' = [status EXCEPT ![rec.key] = [rec.mem EXCEPT !.completed = "True"]]
          /\ Send(rec.key, "complete")
          /\ UNCHANGED faults
       \/ /\ \/ ~rec.fresh /\ UNCHANGED faults
             \/ Fault
          /\ UNCHANGED << status, pending >>
    /\ rec' = NoRec
    /\ UNCHANGED << op, session, workerVars, currentMaxWorkers, mapVars,
                    life, pod, queue, desired, edits >>

-----------------------------------------------------------------------------
(* Users, pods and the operator process.                                   *)

UserEdit == edits < MaxUserEdits /\ edits' = edits + 1 /\ UNCHANGED << injectorVars, faults >>

(* The copy a reconcile holds is out of date.                              *)
Outdate(k) == rec' = IF rec.key = k THEN [rec EXCEPT !.fresh = FALSE] ELSE rec

(* The interval or the timespan changes, and with it the generation.       *)
EditCR(k) ==
    /\ life[k] \in {"new", "live"}
    /\ Requeue(k)
    /\ Outdate(k)
    /\ UserEdit
    /\ UNCHANGED << life, status, pod, desired >>

(* Without the finalizer the resource is gone at once.                     *)
DeleteCR(k) ==
    /\ life[k] \in {"new", "live"}
    /\ life' = [life EXCEPT ![k] = IF @ = "new" THEN "gone" ELSE "deleting"]
    /\ Requeue(k)
    /\ Outdate(k)
    /\ UserEdit
    /\ UNCHANGED << status, pod, desired >>

EditConfigMap ==
    /\ \E d \in DesiredWorkers \ {desired} : desired' = d
    /\ UserEdit
    /\ UNCHANGED << life, status, pod, queue, rec >>

ChangePod(k) ==
    /\ \E phase \in PodPhases \ {pod[k]} : pod' = [pod EXCEPT ![k] = phase]
    /\ UserEdit
    /\ UNCHANGED << life, status, queue, rec, desired >>

(* Started again, the controller gets an event for every resource.         *)
Restart ==
    /\ InjectorRestart
    /\ rec' = NoRec
    /\ queue' = {k \in Key : life[k] # "gone"}
    /\ UNCHANGED << life, status, pod, desired, edits >>

RestartOperator == Restart /\ Fault
Panic == IndexOutOfRange /\ Restart /\ UNCHANGED faults

-----------------------------------------------------------------------------
Init ==
    /\ InjectorInit
    /\ life = [k \in Key |-> "new"]
    /\ status = [k \in Key |-> NoConditions]
    /\ pod \in [Key -> PodPhases]
    /\ queue = Key
    /\ rec = NoRec
    /\ desired \in DesiredWorkers
    /\ edits = 0
    /\ faults = 0

Begin(k) == \/ NotFound(k) \/ Finalize(k) \/ AlreadyCompleted(k) \/ PodNotFound(k)
            \/ PodNotRunning(k) \/ Connect(k)

Continue == \/ RequestMaxWorkers \/ PollStatus \/ ReportError \/ ReportConnectionLost
            \/ AwaitCollection \/ PollLinperfFileName \/ ReportCompleted

ControllerUnchanged == UNCHANGED << crVars, rec, faults >>

Next ==
    \/ \E k \in Key : Begin(k) \/ RetryFinalizer(k) \/ ConnectFails(k)
    \/ Continue
    \/ Process /\ ControllerUnchanged
    \/ \E k \in Key : StartFails(k) /\ Fault /\ UNCHANGED << crVars, rec >>
    \/ \E s \in Session : (ScriptEnds(s) \/ Callback(s)) /\ ControllerUnchanged
    \/ \E k \in Key : EditCR(k) \/ DeleteCR(k) \/ ChangePod(k)
    \/ EditConfigMap
    \/ RestartOperator
    \/ Panic

Spec == Init /\ [][Next]_vars

(* The worker takes every queued resource in turn and its reconciles end;  *)
(* the injector serves every connection; a script ends, at the latest when *)
(* its timespan is over, and so does its callback.                         *)
Fairness ==
    /\ \A k \in Key : SF_vars(Begin(k))
    /\ WF_vars(Continue)
    /\ \A k \in Key : SF_vars((RefuseStart(k) \/ Start(k)) /\ ControllerUnchanged)
    /\ \A k \in Key : SF_vars(Complete(k) /\ ControllerUnchanged)
    /\ WF_vars((AppendRead \/ AppendWrite \/ CompleteCut \/ CompleteShift) /\ ControllerUnchanged)
    /\ \A s \in 1 .. MaxSessions :
          WF_vars(s \in Session /\ (ScriptEnds(s) \/ Callback(s)) /\ ControllerUnchanged)
    /\ WF_vars(Panic)

FairSpec == Spec /\ Fairness

-----------------------------------------------------------------------------
(* Properties.                                                             *)

SessionPC == {"running", "find", "cut", "shift", "store", "name", "over", "dead", "past"}
SessionRecord == [key : Key, pc : SessionPC, ok : BOOLEAN, index : 0 .. MaxSessions,
                  count : 0 .. MaxSessions, cancelled : BOOLEAN]
Slots == [1 .. MaxSessions -> 0 .. MaxSessions]

(* The variables hold what the code keeps in them.                         *)
TypeOK ==
    /\ pending \in [Key -> [start : Nat, complete : Nat]]
    /\ op \in [pc : {"idle", "append", "appendWrite", "cut", "shift"}, key : Key \union {"none"},
               session : 0 .. MaxSessions, index : 0 .. MaxSessions, count : 0 .. MaxSessions,
               saved : Slots]
    /\ session \in Seq(SessionRecord) /\ Len(session) <= MaxSessions
    /\ slots \in Slots
    /\ count \in 0 .. MaxSessions
    /\ currentMaxWorkers \in MinWorkers .. MaxWorkers
    /\ completedPods \in [Key -> {"absent", "FALSE", "TRUE"}]
    /\ erroringPods \subseteq Key
    /\ linperfFileNames \subseteq Key
    /\ life \in [Key -> {"new", "live", "deleting", "gone"}]
    /\ status \in [Key -> Conditions]
    /\ pod \in [Key -> PodPhases]
    /\ queue \subseteq Key
    /\ rec \in [pc : {"idle", "setMax", "poll", "act", "fileName", "complete"},
                key : Key \union {"none"}, mem : Conditions, fresh : BOOLEAN,
                answer : {"none", "writing", "error", "done", "toomanyworkers", "idle"}]
    /\ desired \in DesiredWorkers
    /\ edits \in 0 .. MaxUserEdits
    /\ faults \in 0 .. MaxFaults

Collected(k) == \E s \in Session : session[s].key = k /\ session[s].ok

(* A resource is reported completed only if a script run for it ended      *)
(* without an error, whatever request, callback or restart came between    *)
(* the end of the script and the report.                                   *)
CompletedMeansCollected == \A k \in Key : status[k].completed = "True" => Collected(k)

(* A completed resource stays so: no reconcile that began before the       *)
(* completion, and no later event, overwrites it.                          *)
CompletedIsFinal ==
    [][\A k \in Key : status[k].completed = "True" => status'[k] = status[k]]_vars

Active == {s \in Session : session[s].pc = "running" /\ ~session[s].cancelled}

(* No more scripts run than the injector allows workers (user guide: "a    *)
(* global maximum number of concurrent workers").                          *)
RunningWithinMax == Cardinality(Active) <= currentMaxWorkers

(* With one worker allowed they keep to it as long as nobody edits or       *)
(* deletes a resource and no call fails, however starts and ends of        *)
(* scripts interleave.                                                     *)
UndisturbedOneWorker ==
    edits = 0 /\ faults = 0 /\ currentMaxWorkers = 1 => RunningWithinMax

(* A completed resource names its file (user guide: "The performance data  *)
(* file name is added to the CR status").                                  *)
FileNameRecorded == \A k \in Key : status[k].completed = "True" => status[k].file

(* A poll does not make the controller report a lost connection when a     *)
(* collection of the resource had already ended without an error.          *)
NoFalseConnectionLost ==
    [][rec.pc = "poll" /\ rec'.pc = "act" /\ Collected(rec.key)
          => ~ConnectionLost(rec'.answer, rec.mem)]_vars

(* It does so only in the moments in which the callback of that collection *)
(* has removed the worker, or is about to, and has not stored the outcome  *)
(* yet: apart from this window, nobody editing, no call failing and no     *)
(* panic, an injector that looks idle is one that knows of no success.     *)
InCallback(k) ==
    \E s \in Session : session[s].key = k /\ session[s].pc \in {"find", "cut", "shift", "store"}

(* The operator process is the one every script was started by.            *)
SameProcess == \A s \in Session : session[s].pc \notin {"dead", "past"}

LostOnlyInCallback ==
    [][rec.pc = "poll" /\ rec'.pc = "act" /\ ConnectionLost(rec'.answer, rec.mem)
       /\ Collected(rec.key) /\ edits = 0 /\ faults = 0 /\ SameProcess
          => InCallback(rec.key)]_vars

(* One resource, one collection (user guide: "the CR can not be re-used    *)
(* to take more data").                                                    *)
OneGatherPerCR == \A s, t \in Session : session[s].key = session[t].key => s = t

(* So it is while nobody edits, no call fails and nothing panics, however  *)
(* requests, polls and callbacks interleave.                               *)
UndisturbedOneGather == edits = 0 /\ faults = 0 /\ SameProcess => OneGatherPerCR

(* The index removeWorker has found still denotes a worker when it is used *)
(* (removeWorker: "exit if worker is not found").                          *)
IndexInRange == ~IndexOutOfRange

Started(s) == s \in Session
Registered(s) == \E n \in 1 .. count : slots[n] = s

(* The status tells the outcome, or resource, pod or operator went away, a *)
(* call failed, or another script was started for the resource.            *)
ReportedOrExcused(s) ==
    /\ Started(s)
    /\ \/ status[session[s].key].completed \in {"True", "Error"}
       \/ status[session[s].key].failed # "none"
       \/ session[s].pc = "dead"
       \/ faults > 0
       \/ life[session[s].key] # "live"
       \/ pod[session[s].key] # "running"
       \/ \E t \in Session : t > s /\ session[t].key = session[s].key

(* A script that ends after its worker was registered is reported, as      *)
(* completed or as failed, while its resource and its pod are there and no *)
(* call fails.                                                             *)
RegisteredIsReported ==
    \A s \in 1 .. MaxSessions :
        (Started(s) /\ Registered(s) /\ session[s].pc = "running") ~> ReportedOrExcused(s)

(* Every script that has ended is reported (user guide: "You can check the *)
(* status of a performance data operation using the status field").        *)
EndedIsReported ==
    \A s \in 1 .. MaxSessions :
        (Started(s) /\ session[s].pc = "over") ~> ReportedOrExcused(s)

=============================================================================
