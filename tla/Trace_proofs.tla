---------------------------- MODULE Trace_proofs ----------------------------
(***************************************************************************)
(* Proofs about Trace: its variables keep their types and no trace is      *)
(* forgotten, for any number of resources, pods, edits, faults and         *)
(* restarts; and a wanted trace is on, or an error reported, if there is   *)
(* one resource.                                                           *)
(***************************************************************************)
EXTENDS Trace, TLAPS

Finalizing == rec.pc \in {"finalize", "dropFinalizer"}
Updating(k) == rec.pc # "idle" /\ rec.key = k

(* The reconcile in progress is that of a resource that has the finalizer, *)
(* and until then nothing is in its status.                                *)
RecordInv ==
    /\ rec.pc # "idle" => rec.key \in Key /\ life[rec.key] \in {"live", "deleting"}
    /\ Finalizing => life[rec.key] = "deleting"
    /\ rec.pc \in {"disablePrev", "lookup", "update"} => rec.spec \in Specs
    /\ \A k \in Key : life[k] = "new" => status[k].enabled # "True"

(* Whether the trace on pod p can be told from the status of k or, when k  *)
(* is being reconciled, is still to be stopped or to be reported.          *)
Knows(k, p) ==
    IF Updating(k)
    THEN CASE rec.pc \in {"disablePrev", "finalize"} -> status[k].enabled = "True" /\ status[k].pod = p
           [] rec.pc = "lookup" -> /\ status[k].enabled = "True" /\ status[k].pod = p
                                   /\ rec.spec.pod = p
           [] rec.pc = "update" -> rec.new.enabled = "True" /\ rec.new.pod = p
           [] OTHER -> FALSE
    ELSE status[k].enabled = "True" /\ status[k].pod = p

(* While nothing fails, a reconcile works on the status as it is stored,   *)
(* and some resource knows of every trace.                                 *)
KnownInv ==
    faults = 0 =>
        /\ rec.pc # "idle" => rec.fresh /\ rec.prev = status[rec.key]
        /\ \A p \in traced : \E k \in Key : life[k] # "gone" /\ Knows(k, p)

IInv == TypeOK /\ RecordInv /\ KnownInv

(* What is wanted of a resource that is enabled: its pod is traced or the  *)
(* status tells of an error, and a reconcile that works on the resource as *)
(* it is now reports one or the other, and returns an error it reports.    *)
Served(k) ==
    IF Updating(k)
    THEN /\ rec.fresh /\ rec.spec = spec[k]
         /\ rec.pc = "update" =>
              \/ spec[k].pod \in traced /\ ~rec.new.error
              \/ rec.new.error /\ rec.new.pod = spec[k].pod /\ rec.returned
    ELSE spec[k].pod \in traced \/ (status[k].error /\ status[k].pod = spec[k].pod)

WantedInv ==
    podChanges = 0 =>
        /\ running = Pod
        /\ \A k \in Key : k \notin queue /\ life[k] = "live" /\ ~spec[k].disable => Served(k)

WantedIInv == TypeOK /\ RecordInv /\ WantedInv

-----------------------------------------------------------------------------
(* The reconciles there are, and those that the steps of one lead to.      *)
PCs == {"idle", "disablePrev", "finalize", "dropFinalizer", "lookup", "update"}
Recs == [pc : PCs, key : Key \union {"none"}, spec : Specs \union {NoSpec},
         prev : Statuses, new : Statuses, returned : BOOLEAN, fresh : BOOLEAN]

(* The parts of the record of a reconcile have their types, and it keeps   *)
(* its type when it moves on.                                              *)
LEMMA RecType ==
    ASSUME TypeOK
    PROVE  /\ rec \in Recs
           /\ rec.pc \in PCs /\ rec.key \in Key \union {"none"}
           /\ rec.spec.pod \in Pod \union {"none"}
           /\ rec.prev \in Statuses /\ rec.new \in Statuses
           /\ \A pc \in PCs : [rec EXCEPT !.pc = pc] \in Recs
           /\ [rec EXCEPT !.fresh = FALSE] \in Recs
           /\ \A new \in Statuses, returned \in BOOLEAN :
                [rec EXCEPT !.pc = "update", !.returned = returned, !.new = new] \in Recs
<1>1. rec \in Recs
      BY DEF TypeOK, Recs, PCs
<1>2. rec.pc \in PCs /\ rec.key \in Key \union {"none"} /\ rec.prev \in Statuses /\ rec.new \in Statuses
      BY <1>1 DEF Recs
<1>3. rec.spec.pod \in Pod \union {"none"}
      BY <1>1 DEF Recs, Specs, NoSpec
<1>4. \A pc \in PCs : [rec EXCEPT !.pc = pc] \in Recs
      BY <1>1 DEF Recs
<1>5. [rec EXCEPT !.fresh = FALSE] \in Recs
      BY <1>1 DEF Recs
<1>6. \A new \in Statuses, returned \in BOOLEAN :
         [rec EXCEPT !.pc = "update", !.returned = returned, !.new = new] \in Recs
      BY <1>1 DEF Recs, PCs
<1> QED BY <1>1, <1>2, <1>3, <1>4, <1>5, <1>6

(* At the end of a reconcile nothing is left of it.                        *)
LEMMA NoRecType == NoRec \in Recs /\ NoRec.pc = "idle" /\ NoRec.fresh
BY DEF NoRec, Recs, PCs, Statuses, NoStatus, NoSpec

(* A reconcile holds the specification and the status of its resource.     *)
LEMMA StartLemma ==
    ASSUME TypeOK, NEW k \in Key, StartReconcile(k)
    PROVE  /\ rec' \in Recs /\ rec'.pc \in {"disablePrev", "lookup"} /\ rec'.key = k /\ rec'.fresh
           /\ rec'.spec = spec[k] /\ rec'.spec \in Specs /\ rec'.prev = status[k]
           /\ rec'.pc = "lookup" => status[k].pod = spec[k].pod \/ status[k].enabled # "True"
           /\ rec'.pc = "disablePrev" => status[k].enabled = "True"
<1>1. spec[k] \in Specs /\ status[k] \in Statuses /\ AfterStart(k) \in PCs
      BY DEF TypeOK, AfterStart, PCs
<1>2. rec' = [NoRec EXCEPT !.pc = AfterStart(k), !.key = k, !.spec = spec[k], !.prev = status[k]]
      BY DEF StartReconcile
<1>3. /\ rec' \in Recs /\ rec'.pc = AfterStart(k) /\ rec'.key = k /\ rec'.spec = spec[k]
      /\ rec'.prev = status[k] /\ rec'.fresh
      BY <1>1, <1>2, NoRecType DEF Recs
<1> QED BY <1>1, <1>3 DEF AfterStart

(* So does one of a resource that is being deleted.                        *)
LEMMA FinalizeLemma ==
    ASSUME TypeOK, NEW k \in Key, StartFinalize(k)
    PROVE  /\ rec' \in Recs /\ rec'.pc \in {"finalize", "dropFinalizer"} /\ rec'.key = k /\ rec'.fresh
           /\ rec'.prev = status[k]
           /\ (rec'.pc = "finalize") = (status[k].enabled = "True")
<1> DEFINE pc == IF status[k].enabled = "True" THEN "finalize" ELSE "dropFinalizer"
<1>1. status[k] \in Statuses /\ pc \in PCs
      BY DEF TypeOK, PCs
<1>2. rec' = [NoRec EXCEPT !.pc = pc, !.key = k, !.prev = status[k]]
      BY DEF StartFinalize
<1>3. rec' \in Recs /\ rec'.pc = pc /\ rec'.key = k /\ rec'.prev = status[k] /\ rec'.fresh
      BY <1>1, <1>2, NoRecType DEF Recs
<1> QED BY <1>1, <1>3

(* When the trace on the previous pod is stopped, or cannot be, the        *)
(* reconcile goes on.                                                      *)
LEMMA StopLemma ==
    ASSUME TypeOK, DisableTraceOnPrevPod
    PROVE  /\ rec' \in Recs /\ rec'.pc = IF rec.pc = "finalize" THEN "dropFinalizer" ELSE "lookup"
           /\ rec'.key = rec.key /\ rec'.spec = rec.spec /\ rec'.prev = rec.prev /\ rec'.fresh = rec.fresh
           /\ faults' = faults => traced' = traced \ {rec.prev.pod}
           /\ faults' = faults \/ faults' = faults + 1
<1> DEFINE pc == IF rec.pc = "finalize" THEN "dropFinalizer" ELSE "lookup"
<1>1. rec' = [rec EXCEPT !.pc = pc]
      BY DEF DisableTraceOnPrevPod, Run, Goto
<1>2. pc \in PCs
      BY DEF PCs
<1>3. rec' \in Recs /\ rec'.pc = pc
      BY <1>1, <1>2, RecType DEF Recs
<1>4. rec'.key = rec.key /\ rec'.spec = rec.spec /\ rec'.prev = rec.prev /\ rec'.fresh = rec.fresh
      BY <1>1, RecType DEF Recs
<1>5. /\ faults' = faults => traced' = traced \ {rec.prev.pod}
      /\ faults' = faults \/ faults' = faults + 1
      BY DEF DisableTraceOnPrevPod, Run, Fault, TypeOK
<1> QED BY <1>3, <1>4, <1>5

(* A report is a status, of the pod of the reconcile.                      *)
LEMMA ReportType ==
    ASSUME TypeOK, NEW enabled \in {"True", "False"}, NEW error \in BOOLEAN,
           NEW returned \in BOOLEAN, Report(enabled, error, returned)
    PROVE  /\ rec' \in Recs
           /\ rec'.pc = "update" /\ rec'.key = rec.key /\ rec'.spec = rec.spec
           /\ rec'.prev = rec.prev /\ rec'.fresh = rec.fresh /\ rec'.returned = returned
           /\ rec'.new.enabled = enabled /\ rec'.new.pod = rec.spec.pod /\ rec'.new.error = error
<1> DEFINE new == [enabled |-> enabled, pod |-> rec.spec.pod, error |-> error]
<1>1. new \in Statuses
      BY RecType DEF Statuses
<1>2. rec' = [rec EXCEPT !.pc = "update", !.returned = returned, !.new = new]
      BY DEF Report
<1>3. new.enabled = enabled /\ new.pod = rec.spec.pod /\ new.error = error
      OBVIOUS
<1> HIDE DEF new
<1>4. rec' \in Recs
      BY <1>1, <1>2, RecType
<1>5. /\ rec'.pc = "update" /\ rec'.key = rec.key /\ rec'.spec = rec.spec
      /\ rec'.prev = rec.prev /\ rec'.fresh = rec.fresh /\ rec'.returned = returned /\ rec'.new = new
      BY <1>2, RecType DEF Recs
<1> QED BY <1>3, <1>4, <1>5

(* An edit makes the copy of a reconcile of the same resource out of date, *)
(* which counts as a fault, and brings the resource back.                  *)
LEMMA EditLemma ==
    ASSUME TypeOK, NEW k \in Key, UserEdit(k)
    PROVE  /\ life[k] \in {"new", "live"}
           /\ queue' = queue \union {k}
           /\ edits' \in 0 .. MaxUserEdits /\ faults' \in 0 .. MaxFaults
           /\ UNCHANGED << status, running, traced, podChanges >>
           /\ rec'.pc = rec.pc /\ rec'.key = rec.key /\ rec'.spec = rec.spec /\ rec'.prev = rec.prev
           /\ rec'.new = rec.new /\ rec'.returned = rec.returned
           /\ \/ rec.key # k /\ rec' = rec /\ faults' = faults
              \/ rec.key = k /\ rec' = [rec EXCEPT !.fresh = FALSE] /\ faults' > 0
<1>1. edits' \in 0 .. MaxUserEdits
      BY TraceAssumption DEF UserEdit, TypeOK
<1>2. faults' = faults \/ (faults' = faults + 1 /\ faults' \in 0 .. MaxFaults)
      BY TraceAssumption DEF UserEdit, Fault, TypeOK
<1>3. faults \in 0 .. MaxFaults
      BY DEF TypeOK
<1>4. \/ rec.key # k /\ rec' = rec /\ faults' = faults
      \/ rec.key = k /\ rec' = [rec EXCEPT !.fresh = FALSE] /\ faults' = faults + 1
      BY DEF UserEdit, Fault
<1>5. /\ rec'.pc = rec.pc /\ rec'.key = rec.key /\ rec'.spec = rec.spec /\ rec'.prev = rec.prev
      /\ rec'.new = rec.new /\ rec'.returned = rec.returned
      BY <1>4, RecType DEF Recs
<1> QED BY <1>1, <1>2, <1>3, <1>4, <1>5 DEF UserEdit

-----------------------------------------------------------------------------
(* Types.                                                                  *)

(* Every step keeps the types.                                             *)
LEMMA TypeStep == ASSUME TypeOK, RecordInv, [Next]_vars PROVE TypeOK'
<1>1. rec' \in Recs
  <2> USE RecType, NoRecType DEF PCs
  <2>1. ASSUME NEW k \in Key, NotFound(k) \/ AddFinalizerFails(k) PROVE rec' \in Recs
        BY <2>1 DEF NotFound, AddFinalizerFails
  <2>2. ASSUME NEW k \in Key, StartReconcile(k) PROVE rec' \in Recs
        BY <2>2, StartLemma
  <2>3. ASSUME NEW k \in Key, StartFinalize(k) PROVE rec' \in Recs
        BY <2>3, FinalizeLemma
  <2>4. CASE DisableTraceOnPrevPod
        BY <2>4, StopLemma
  <2>5. CASE DropFinalizer \/ UpdateStatus \/ RestartOperator
        BY <2>5 DEF DropFinalizer, UpdateStatus, RestartOperator
  <2>6. CASE PodNotFound
        BY <2>6, ReportType DEF PodNotFound
  <2>7. CASE DisableTrace
        BY <2>7, ReportType DEF DisableTrace, Run
  <2>8. CASE EnableTrace
        BY <2>8, ReportType DEF EnableTrace, Run
  <2>9. ASSUME NEW k \in Key, EditCR(k) \/ DeleteCR(k) PROVE rec' \in Recs
        BY <2>9, EditLemma DEF EditCR, DeleteCR
  <2>10. CASE (\E p \in Pod : ChangePod(p)) \/ UNCHANGED vars
        BY <2>10 DEF ChangePod, vars
  <2> QED BY <2>1, <2>2, <2>3, <2>4, <2>5, <2>6, <2>7, <2>8, <2>9, <2>10 DEF Next
<1>2. /\ edits' \in 0 .. MaxUserEdits
      /\ podChanges' \in 0 .. MaxPodChanges
      /\ faults' \in 0 .. MaxFaults
  <2>1. /\ edits' = edits \/ (edits < MaxUserEdits /\ edits' = edits + 1)
        /\ podChanges' = podChanges \/ (podChanges < MaxPodChanges /\ podChanges' = podChanges + 1)
        /\ faults' = faults \/ (faults < MaxFaults /\ faults' = faults + 1)
    <3> USE DEF userVars, Run, Fault
    <3>1. CASE \E k \in Key : NotFound(k) \/ StartReconcile(k) \/ StartFinalize(k) \/ AddFinalizerFails(k)
          BY <3>1 DEF NotFound, StartReconcile, StartFinalize, AddFinalizerFails
    <3>2. CASE DisableTraceOnPrevPod \/ DropFinalizer
          BY <3>2 DEF DisableTraceOnPrevPod, DropFinalizer
    <3>3. CASE PodNotFound \/ DisableTrace \/ EnableTrace \/ UpdateStatus
          BY <3>3 DEF PodNotFound, DisableTrace, EnableTrace, UpdateStatus
    <3>4. CASE \E k \in Key : EditCR(k) \/ DeleteCR(k)
          BY <3>4 DEF EditCR, DeleteCR, UserEdit
    <3>5. CASE (\E p \in Pod : ChangePod(p)) \/ RestartOperator \/ UNCHANGED vars
          BY <3>5 DEF ChangePod, RestartOperator, vars
    <3> QED BY <3>1, <3>2, <3>3, <3>4, <3>5 DEF Next
  <2> QED BY <2>1, TraceAssumption DEF TypeOK
<1>3. /\ life' \in [Key -> {"new", "live", "deleting", "gone"}]
      /\ spec' \in [Key -> Specs]
      /\ queue' \subseteq Key
  <2> USE DEF TypeOK
  <2>1. CASE \E k \in Key : NotFound(k) \/ StartReconcile(k) \/ StartFinalize(k) \/ AddFinalizerFails(k)
        BY <2>1 DEF NotFound, StartReconcile, StartFinalize, AddFinalizerFails
  <2>2. CASE DisableTraceOnPrevPod
        BY <2>2 DEF DisableTraceOnPrevPod
  <2>3. CASE DropFinalizer \/ UpdateStatus
        BY <2>3 DEF DropFinalizer, UpdateStatus, RecordInv
  <2>4. CASE PodNotFound \/ DisableTrace \/ EnableTrace
        BY <2>4 DEF PodNotFound, DisableTrace, EnableTrace
  <2>5. CASE \E k \in Key : EditCR(k) \/ DeleteCR(k)
        BY <2>5 DEF EditCR, DeleteCR, UserEdit
  <2>6. CASE (\E p \in Pod : ChangePod(p)) \/ RestartOperator \/ UNCHANGED vars
        BY <2>6 DEF ChangePod, RestartOperator, vars
  <2> QED BY <2>1, <2>2, <2>3, <2>4, <2>5, <2>6 DEF Next
<1>4. status' \in [Key -> Statuses]
  <2>1. \/ status' = status
        \/ status' = [status EXCEPT ![rec.key] = rec.new]
        BY DEF Next, vars, userVars, NotFound, StartReconcile, StartFinalize,
         AddFinalizerFails, DisableTraceOnPrevPod, DropFinalizer, PodNotFound, DisableTrace,
         EnableTrace, UpdateStatus, UserEdit, EditCR, DeleteCR, ChangePod, RestartOperator
  <2> QED BY <2>1, RecType DEF TypeOK
<1>5. running' \subseteq Pod /\ traced' \subseteq running'
  <2> USE DEF TypeOK, Run
  <2>1. CASE \E k \in Key : NotFound(k) \/ StartReconcile(k) \/ StartFinalize(k) \/ AddFinalizerFails(k)
        BY <2>1 DEF NotFound, StartReconcile, StartFinalize, AddFinalizerFails
  <2>2. CASE DisableTraceOnPrevPod \/ DropFinalizer
        BY <2>2 DEF DisableTraceOnPrevPod, DropFinalizer
  <2>3. CASE PodNotFound \/ DisableTrace \/ EnableTrace \/ UpdateStatus
        BY <2>3 DEF PodNotFound, DisableTrace, EnableTrace, UpdateStatus
  <2>4. CASE \E k \in Key : EditCR(k) \/ DeleteCR(k)
        BY <2>4 DEF EditCR, DeleteCR, UserEdit
  <2>5. CASE (\E p \in Pod : ChangePod(p)) \/ RestartOperator \/ UNCHANGED vars
        BY <2>5 DEF ChangePod, RestartOperator, vars
  <2> QED BY <2>1, <2>2, <2>3, <2>4, <2>5 DEF Next
<1> QED BY <1>1, <1>2, <1>3, <1>4, <1>5 DEF TypeOK, Recs, PCs

(* A resource is reconciled only once it has the finalizer.                *)
LEMMA RecordStep == ASSUME TypeOK, RecordInv, [Next]_vars PROVE RecordInv'
<1> USE RecType DEF RecordInv, Finalizing, PCs, userVars
<1>1. CASE \E k \in Key : NotFound(k) \/ AddFinalizerFails(k)
      BY <1>1 DEF NotFound, AddFinalizerFails, Take
<1>2. ASSUME NEW k \in Key, StartReconcile(k) PROVE RecordInv'
  <2>1. life' = [life EXCEPT ![k] = "live"] /\ status' = status
        BY <1>2 DEF StartReconcile
  <2>2. rec'.pc \in {"disablePrev", "lookup"} /\ rec'.key = k /\ rec'.spec \in Specs
        BY <1>2, StartLemma
  <2> QED BY <2>1, <2>2 DEF TypeOK
<1>3. ASSUME NEW k \in Key, StartFinalize(k) PROVE RecordInv'
      BY <1>3, FinalizeLemma DEF StartFinalize, Take, TypeOK
<1>4. CASE DisableTraceOnPrevPod
      BY <1>4, StopLemma DEF DisableTraceOnPrevPod
<1>5. CASE DropFinalizer
      BY <1>5, NoRecType DEF DropFinalizer, TypeOK
<1>6. CASE PodNotFound \/ DisableTrace \/ EnableTrace
  <2>1. rec'.pc = "update" /\ rec'.key = rec.key /\ rec'.spec = rec.spec
        BY <1>6, ReportType DEF PodNotFound, DisableTrace, EnableTrace, Run
  <2>2. rec.pc = "lookup" /\ UNCHANGED << life, status >>
        BY <1>6 DEF PodNotFound, DisableTrace, EnableTrace
  <2> QED BY <2>1, <2>2
<1>7. CASE UpdateStatus
      BY <1>7, NoRecType DEF UpdateStatus, TypeOK
<1>8. ASSUME NEW k \in Key, EditCR(k) PROVE RecordInv'
  <2>1. UserEdit(k) /\ life' = life
        BY <1>8 DEF EditCR
  <2> QED BY <2>1, EditLemma
<1>9. ASSUME NEW k \in Key, DeleteCR(k) PROVE RecordInv'
  <2>1. UserEdit(k) /\ life' = [life EXCEPT ![k] = IF @ = "new" THEN "gone" ELSE "deleting"]
        BY <1>9 DEF DeleteCR
  <2> QED BY <2>1, EditLemma DEF TypeOK
<1>10. CASE (\E p \in Pod : ChangePod(p)) \/ RestartOperator \/ UNCHANGED vars
      BY <1>10, NoRecType DEF ChangePod, RestartOperator, vars
<1> QED BY <1>1, <1>2, <1>3, <1>4, <1>5, <1>6, <1>7, <1>8, <1>9, <1>10 DEF Next

-----------------------------------------------------------------------------
(* While nothing fails every trace is known of: the pod with it is stopped *)
(* first, or reported by the reconcile that left it on.                    *)

(* Calls that have failed are never forgotten.                             *)
LEMMA FaultsLemma == ASSUME TypeOK, [Next]_vars, faults' = 0 PROVE faults = 0
<1> USE DEF userVars, Run, Fault
<1>1. faults' = faults \/ faults' = faults + 1
  <2>1. CASE \E k \in Key : NotFound(k) \/ StartReconcile(k) \/ StartFinalize(k) \/ AddFinalizerFails(k)
        BY <2>1 DEF NotFound, StartReconcile, StartFinalize, AddFinalizerFails
  <2>2. CASE DisableTraceOnPrevPod \/ DropFinalizer
        BY <2>2 DEF DisableTraceOnPrevPod, DropFinalizer
  <2>3. CASE PodNotFound \/ DisableTrace \/ EnableTrace \/ UpdateStatus
        BY <2>3 DEF PodNotFound, DisableTrace, EnableTrace, UpdateStatus
  <2>4. CASE \E k \in Key : EditCR(k) \/ DeleteCR(k)
        BY <2>4 DEF EditCR, DeleteCR, UserEdit
  <2>5. CASE (\E p \in Pod : ChangePod(p)) \/ RestartOperator \/ UNCHANGED vars
        BY <2>5 DEF ChangePod, RestartOperator, vars
  <2> QED BY <2>1, <2>2, <2>3, <2>4, <2>5 DEF Next
<1> QED BY <1>1 DEF TypeOK

(* The step of each action.                                                *)
LEMMA KnownStep == ASSUME TypeOK, RecordInv, KnownInv, [Next]_vars PROVE KnownInv'
<1> SUFFICES ASSUME faults' = 0
             PROVE  /\ rec'.pc # "idle" => rec'.fresh /\ rec'.prev = status'[rec'.key]
                    /\ \A p \in traced' : \E k \in Key : life'[k] # "gone" /\ Knows(k, p)'
    BY DEF KnownInv
<1> DEFINE Kept == /\ rec'.pc # "idle" => rec'.fresh /\ rec'.prev = status'[rec'.key]
                   /\ \A p \in traced' : \E k \in Key : life'[k] # "gone" /\ Knows(k, p)'
<1>0. /\ faults = 0
      /\ rec.pc # "idle" => rec.fresh /\ rec.prev = status[rec.key] /\ rec.key \in Key
      /\ \A p \in traced : \E k \in Key : life[k] # "gone" /\ Knows(k, p)
      BY FaultsLemma DEF KnownInv, RecordInv
<1>1. ASSUME NEW k \in Key, NotFound(k) PROVE Kept
      BY <1>0, <1>1 DEF NotFound, Knows, Updating, Take
<1>2. ASSUME NEW k \in Key, StartReconcile(k) PROVE Kept
  <2>1. /\ rec.pc = "idle" /\ life' = [life EXCEPT ![k] = "live"] /\ UNCHANGED << status, traced >>
        BY <1>2 DEF StartReconcile, Take
  <2>2. \A l \in Key : \A p : Knows(l, p) => Knows(l, p)'
        BY <1>2, <2>1, StartLemma DEF Knows, Updating
  <2> QED BY <1>0, <1>2, <2>1, <2>2, StartLemma DEF TypeOK
<1>3. ASSUME NEW k \in Key, StartFinalize(k) PROVE Kept
  <2>1. rec.pc = "idle" /\ UNCHANGED << life, status, traced >>
        BY <1>3 DEF StartFinalize, Take
  <2>2. \A l \in Key : \A p : Knows(l, p) => Knows(l, p)'
        BY <1>3, <2>1, FinalizeLemma DEF Knows, Updating
  <2> QED BY <1>0, <1>3, <2>1, <2>2, FinalizeLemma
<1>4. ASSUME NEW k \in Key, AddFinalizerFails(k) PROVE Kept
      BY <1>0, <1>4 DEF AddFinalizerFails, Fault
<1>5. CASE DisableTraceOnPrevPod
  <2>1. /\ rec.pc \in {"disablePrev", "finalize"} /\ UNCHANGED << life, status >>
        /\ traced' = traced \ {rec.prev.pod}
        BY <1>0, <1>5, StopLemma DEF DisableTraceOnPrevPod
  <2>2. \A l \in Key : \A p \in traced' : Knows(l, p) => Knows(l, p)'
        BY <1>0, <1>5, <2>1, StopLemma DEF Knows, Updating
  <2> QED BY <1>0, <1>5, <2>1, <2>2, StopLemma
<1>6. CASE DropFinalizer
  <2>1. /\ rec.pc = "dropFinalizer" /\ rec'.pc = "idle" /\ UNCHANGED << status, traced >>
        /\ life' = [life EXCEPT ![rec.key] = "gone"]
        BY <1>0, <1>6, NoRecType DEF DropFinalizer, Fault
  <2>2. \A l \in Key : \A p : Knows(l, p) => l # rec.key /\ Knows(l, p)'
        BY <2>1 DEF Knows, Updating
  <2> QED BY <1>0, <2>1, <2>2 DEF TypeOK
<1>7. CASE PodNotFound \/ DisableTrace \/ EnableTrace
  <2>1. /\ rec.pc = "lookup" /\ UNCHANGED << life, status, faults >>
        /\ rec'.pc = "update" /\ rec'.key = rec.key /\ rec'.fresh = rec.fresh /\ rec'.prev = rec.prev
        /\ rec'.new.pod = rec.spec.pod
        BY <1>0, <1>7, ReportType DEF PodNotFound, DisableTrace, EnableTrace, Run, Fault
  <2>2. \A l \in Key : \A p : l # rec.key /\ Knows(l, p) => Knows(l, p)'
        BY <2>1 DEF Knows, Updating
  <2>3. \A p : Knows(rec.key, p) =>
             status[rec.key].enabled = "True" /\ status[rec.key].pod = p /\ rec.spec.pod = p
        BY <2>1 DEF Knows, Updating
  <2>4. \A p : rec'.new.enabled = "True" /\ rec.spec.pod = p => Knows(rec.key, p)'
        BY <2>1 DEF Knows, Updating
  <2>5. life[rec.key] # "gone"
        BY <2>1 DEF RecordInv
  <2>6. CASE PodNotFound
    <3>1. rec.spec.pod \notin traced /\ traced' = traced
          BY <2>6 DEF PodNotFound, TypeOK
    <3> QED BY <1>0, <2>1, <2>2, <2>3, <3>1
  <2>7. CASE DisableTrace
    <3>1. \/ traced' = traced \ {rec.spec.pod}
          \/ traced' = traced /\ ~(rec.prev.pod = rec.spec.pod /\ rec.prev.enabled = "True")
      <4>1. faults' # faults + 1
            BY <1>0
      <4> QED BY <2>7, <4>1 DEF DisableTrace, Run, Fault, Report
    <3> QED BY <1>0, <2>1, <2>2, <2>3, <3>1
  <2>8. CASE EnableTrace
    <3>1. traced' = traced \union {rec.spec.pod} /\ rec'.new.enabled = "True"
      <4>1. faults' # faults + 1
            BY <1>0
      <4>2. traced' = traced \union {rec.spec.pod} /\ Report("True", FALSE, FALSE)
            BY <2>8, <4>1 DEF EnableTrace, Run, Fault
      <4> QED BY <4>2, ReportType
    <3> QED BY <1>0, <2>1, <2>2, <2>3, <2>4, <2>5, <3>1
  <2> QED BY <1>7, <2>6, <2>7, <2>8
<1>8. CASE UpdateStatus
  <2>1. /\ rec.pc = "update" /\ rec'.pc = "idle" /\ UNCHANGED << life, traced >>
        /\ status' = [status EXCEPT ![rec.key] = rec.new]
        BY <1>0, <1>8, NoRecType DEF UpdateStatus, Fault
  <2>2. \A l \in Key : \A p : Knows(l, p) => Knows(l, p)'
        BY <1>0, <2>1 DEF Knows, Updating, TypeOK
  <2> QED BY <1>0, <2>1, <2>2
<1>9. ASSUME NEW k \in Key, EditCR(k) PROVE Kept
  <2>1. UserEdit(k) /\ life' = life
        BY <1>9 DEF EditCR
  <2>2. rec' = rec /\ UNCHANGED << status, traced >>
        BY <2>1, EditLemma
  <2> QED BY <1>0, <2>1, <2>2 DEF Knows, Updating
<1>10. ASSUME NEW k \in Key, DeleteCR(k) PROVE Kept
  <2>1. UserEdit(k) /\ life' = [life EXCEPT ![k] = IF @ = "new" THEN "gone" ELSE "deleting"]
        BY <1>10 DEF DeleteCR
  <2>2. rec' = rec /\ UNCHANGED << status, traced >>
        BY <2>1, EditLemma
  <2>3. \A l \in Key : \A p : Knows(l, p)' = Knows(l, p)
        BY <2>2 DEF Knows, Updating
  <2>4. \A l \in Key : \A p : Knows(l, p) => life[l] # "new"
        BY DEF Knows, Updating, RecordInv
  <2>5. \A l \in Key : life[l] \notin {"new", "gone"} => life'[l] # "gone"
        BY <2>1 DEF TypeOK
  <2> QED BY <1>0, <2>2, <2>3, <2>4, <2>5
<1>11. ASSUME NEW p \in Pod, ChangePod(p) PROVE Kept
      BY <1>0, <1>11 DEF ChangePod, Knows, Updating
<1>12. CASE RestartOperator
      BY <1>0, <1>12 DEF RestartOperator, Fault
<1>13. CASE UNCHANGED vars
      BY <1>0, <1>13 DEF vars, Knows, Updating
<1> QED BY <1>1, <1>2, <1>3, <1>4, <1>5, <1>6, <1>7, <1>8, <1>9, <1>10, <1>11, <1>12, <1>13 DEF Next

-----------------------------------------------------------------------------
(* An edit queues the resource, so one that is not queued is served as it  *)
(* is now.  Another resource could stop the trace it wants: there is none. *)

(* The step of each action, for the only resource k.                       *)
LEMMA WantedStep ==
    ASSUME NEW k, Key = {k}, TypeOK, RecordInv, WantedInv, [Next]_vars
    PROVE  WantedInv'
<1> SUFFICES ASSUME podChanges' = 0
             PROVE  /\ running' = Pod
                    /\ k \notin queue' /\ life'[k] = "live" /\ ~spec'[k].disable => Served(k)'
    BY DEF WantedInv
<1> DEFINE Kept == /\ running' = Pod
                   /\ k \notin queue' /\ life'[k] = "live" /\ ~spec'[k].disable => Served(k)'
           Due == podChanges = 0 =>
                     /\ running = Pod
                     /\ k \notin queue /\ life[k] = "live" /\ ~spec[k].disable => Served(k)
<1>0. /\ k \in Key /\ Due
      /\ rec.pc # "idle" => rec.key = k
      BY DEF WantedInv, RecordInv
<1> USE DEF userVars
<1>1. CASE NotFound(k) \/ AddFinalizerFails(k)
      BY <1>0, <1>1 DEF NotFound, AddFinalizerFails, Served, Updating
<1>2. CASE StartReconcile(k)
  <2>1. /\ UNCHANGED << spec, status, traced, running, podChanges >>
        /\ life' = [life EXCEPT ![k] = "live"]
        BY <1>2 DEF StartReconcile
  <2> QED BY <1>0, <1>2, <2>1, StartLemma DEF Served, Updating
<1>3. CASE StartFinalize(k)
      BY <1>0, <1>3 DEF StartFinalize
<1>4. CASE DisableTraceOnPrevPod
  <2>1. rec.pc \in {"disablePrev", "finalize"} /\ UNCHANGED << life, spec, queue, running, podChanges >>
        BY <1>4 DEF DisableTraceOnPrevPod
  <2>2. Served(k) /\ rec.pc = "disablePrev" => Served(k)'
        BY <1>0, <1>4, <2>1, StopLemma DEF Served, Updating
  <2> QED BY <1>0, <2>1, <2>2 DEF RecordInv, Finalizing
<1>5. CASE DropFinalizer
  <2>1. rec.key = k /\ life[k] = "deleting" /\ UNCHANGED << running, podChanges >>
        BY <1>0, <1>5 DEF DropFinalizer, RecordInv, Finalizing
  <2>2. life'[k] # "live"
        BY <1>5, <2>1 DEF DropFinalizer, TypeOK
  <2> QED BY <1>0, <2>1, <2>2
<1>6. CASE PodNotFound \/ DisableTrace \/ EnableTrace
  <2>1. /\ rec.pc = "lookup" /\ rec.key = k /\ rec.spec \in Specs
        /\ UNCHANGED << life, spec, queue, running, podChanges >>
        BY <1>0, <1>6 DEF PodNotFound, DisableTrace, EnableTrace, RecordInv
  <2>2. running = Pod
        BY <1>0, <2>1
  <2>3. CASE PodNotFound
        BY <2>1, <2>2, <2>3 DEF PodNotFound, Specs
  <2>4. CASE DisableTrace
    <3>1. rec.spec.disable
          BY <2>4 DEF DisableTrace
    <3> QED BY <1>0, <2>1, <3>1 DEF Served, Updating
  <2>5. CASE EnableTrace
    <3>1. \/ traced' = traced \union {rec.spec.pod} /\ Report("True", FALSE, FALSE)
          \/ Report("False", TRUE, TRUE)
          BY <2>5 DEF EnableTrace, Run
    <3>2. \/ rec.spec.pod \in traced' /\ ~rec'.new.error
          \/ rec'.new.error /\ rec'.new.pod = rec.spec.pod /\ rec'.returned
          BY <3>1, ReportType
    <3>3. rec'.pc = "update" /\ rec'.key = k /\ rec'.spec = rec.spec /\ rec'.fresh = rec.fresh
          BY <2>1, <3>1, ReportType
    <3> QED BY <1>0, <2>1, <3>2, <3>3 DEF Served, Updating
  <2> QED BY <1>6, <2>3, <2>4, <2>5
<1>7. CASE UpdateStatus
  <2>1. /\ rec.pc = "update" /\ rec.key = k /\ rec'.pc = "idle"
        /\ UNCHANGED << life, spec, running, traced, podChanges >>
        BY <1>0, <1>7, NoRecType DEF UpdateStatus
  <2>2. \/ status'[k] = rec.new /\ queue' = queue
        \/ ~rec.fresh /\ k \in queue'
        \/ ~rec.fresh /\ queue' = queue
        \/ rec.returned /\ k \in queue'
        \/ ~rec.returned /\ queue' = queue
        BY <1>0, <1>7, <2>1 DEF UpdateStatus, TypeOK
  <2> QED BY <1>0, <2>1, <2>2 DEF Served, Updating
<1>8. CASE EditCR(k) \/ DeleteCR(k)
  <2>1. UserEdit(k)
        BY <1>8 DEF EditCR, DeleteCR
  <2> QED BY <1>0, <2>1, EditLemma
<1>9. CASE \E p \in Pod : ChangePod(p)
  <2>1. podChanges \in Nat
        BY <1>0, TraceAssumption DEF TypeOK
  <2> QED BY <1>9, <2>1 DEF ChangePod
<1>10. CASE RestartOperator
      BY <1>0, <1>10 DEF RestartOperator
<1>11. CASE UNCHANGED vars
      BY <1>0, <1>11 DEF vars, Served, Updating
<1> QED BY <1>1, <1>2, <1>3, <1>4, <1>5, <1>6, <1>7, <1>8, <1>9, <1>10, <1>11 DEF Next

-----------------------------------------------------------------------------
(* All of it, for every behaviour.                                         *)
THEOREM Invariance == Spec => []IInv
<1>1. Init => IInv
  <2>1. Init => TypeOK
        BY TraceAssumption, NoRecType DEF Init, TypeOK, Recs, PCs, Statuses, NoStatus
  <2> QED BY <2>1, NoRecType DEF Init, IInv, RecordInv, KnownInv, Finalizing, NoStatus
<1>2. IInv /\ [Next]_vars => IInv'
      BY TypeStep, RecordStep, KnownStep DEF IInv
<1> QED BY <1>1, <1>2, PTL DEF Spec

(* Type correctness of the trace controller, among it that only pods that  *)
(* exist are traced (openlibertytrace_controller.go 113-214).              *)
THEOREM TypeCorrect == Spec => []TypeOK
BY Invariance, PTL DEF IInv

(* As long as no call fails and no edit conflicts, no trace is left that   *)
(* nothing would stop: disableTraceOnPrevPod runs before another pod is    *)
(* traced (openlibertytrace_controller.go 113-122), for any number of      *)
(* resources, pods and edits.                                              *)
THEOREM NoTraceForgotten == Spec => []NoOrphanTrace
<1>1. IInv => NoOrphanTrace
      BY DEF IInv, KnownInv, Knows, Updating, NoOrphanTrace
<1> QED BY <1>1, Invariance, PTL

(* Of a single resource: once it is reconciled the pod it wants traced is  *)
(* traced or its status reports an error, whatever failed, because         *)
(* UpdateStatus returns the error it could not report                      *)
(* (openlibertytrace_controller.go 160-222).                               *)
THEOREM WantedIsServed == ASSUME NEW k, Key = {k} PROVE Spec => []WantedIsTracedOrError
<1>1. Init => WantedIInv
  <2>1. Init => TypeOK
        BY TraceAssumption, NoRecType DEF Init, TypeOK, Recs, PCs, Statuses, NoStatus
  <2> QED BY <2>1, NoRecType DEF Init, WantedIInv, RecordInv, WantedInv, Finalizing, NoStatus
<1>2. WantedIInv /\ [Next]_vars => WantedIInv'
      BY TypeStep, RecordStep, WantedStep DEF WantedIInv
<1>3. WantedIInv => WantedIsTracedOrError
      BY DEF WantedIInv, WantedInv, WantedIsTracedOrError, Settled, Served, Updating
<1> QED BY <1>1, <1>2, <1>3, PTL DEF Spec

=============================================================================
