----------------------------- MODULE Dump_proofs ----------------------------
(***************************************************************************)
(* Proofs about Dump: its variables keep their types, and it implements    *)
(* Operation, for any number of resources, edits, faults and restarts.     *)
(***************************************************************************)
EXTENDS Dump, TLAPS

(* The reconcile in progress holds a copy of conditions without outcome,   *)
(* those of the resource itself as long as nobody else has changed it.     *)
RecordInv ==
    rec.pc # "idle" =>
        /\ rec.key \in Key
        /\ rec.mem.completed = "none"
        /\ rec.pc = "lookup" => rec.mem.started # "True"
        /\ rec.pc \in {"dump", "await"} => rec.mem.started = "True"
        /\ rec.pc = "await" => dumps[rec.key] > 0
        /\ rec.fresh => status[rec.key].completed = "none"
        /\ rec.fresh /\ rec.pc = "lookup" => status[rec.key] = rec.mem

(* Outcomes are those of dumps that were started and run.                  *)
OutcomeInv ==
    \A k \in Key : status[k].completed # "none" => status[k].started = "True" /\ dumps[k] > 0

(* While no write is lost, what is not reported started has not been run.  *)
UndisturbedInv ==
    faults = 0 =>
        /\ rec.pc # "idle" => rec.fresh
        /\ rec.pc \in {"dump", "await"} => status[rec.key].started = "True"
        /\ rec.pc = "dump" => dumps[rec.key] = 0
        /\ \A k \in Key : status[k].started # "True" => dumps[k] = 0

IInv == TypeOK /\ RecordInv /\ OutcomeInv /\ UndisturbedInv

-----------------------------------------------------------------------------
(* The invariant holds at first and every action keeps it: a reconcile     *)
(* works on a copy without outcome, and a write by someone else makes its  *)
(* own writes fail.                                                        *)

(* The initial states satisfy the inductive invariant.                     *)
LEMMA InitInv == ASSUME Init PROVE IInv
BY DumpAssumption DEF Init, IInv, TypeOK, RecordInv, OutcomeInv, UndisturbedInv, NoRec, NoConditions, Conditions

(* What a write of the status does, whether it is made or lost.            *)
LEMMA UpdateLemma ==
    ASSUME TypeOK, NEW c \in Conditions, UpdateStatus(c), rec.key \in Key
    PROVE  /\ status' \in [Key -> Conditions]
           /\ faults' \in 0 .. MaxFaults
           /\ faults' = 0 => faults = 0
           /\ \/ status' = status
              \/ rec.fresh /\ status' = [status EXCEPT ![rec.key] = c]
BY DumpAssumption DEF TypeOK, UpdateStatus, Fault

(* The last write of a reconcile reports an outcome of a started dump.     *)
LEMMA ReportLemma ==
    ASSUME TypeOK, RecordInv, ReportDump
    PROVE  /\ rec.key \in Key /\ rec.pc = "await" /\ dumps[rec.key] > 0
           /\ rec.fresh => status[rec.key].completed = "none"
           /\ \E c \in Conditions : /\ UpdateStatus(c)
                                   /\ c.started = "True" /\ c.completed \in {"True", "False"}
<1> DEFINE done == [rec.mem EXCEPT !.completed = "True", !.file = TRUE]
           failed == [rec.mem EXCEPT !.completed = "False"]
<1>1. rec.pc = "await" /\ rec.mem \in Conditions
      BY DEF ReportDump, TypeOK
<1>2. rec.mem.started = "True"
      BY <1>1 DEF RecordInv
<1>3. done \in Conditions /\ done.started = "True" /\ done.completed = "True"
      BY <1>1, <1>2 DEF Conditions
<1>4. failed \in Conditions /\ failed.started = "True" /\ failed.completed = "False"
      BY <1>1, <1>2 DEF Conditions
<1>5. UpdateStatus(done) \/ UpdateStatus(failed)
      BY DEF ReportDump
<1>6. \E c \in Conditions : /\ UpdateStatus(c)
                           /\ c.started = "True" /\ c.completed \in {"True", "False"}
  <2> HIDE DEF done, failed
  <2> QED BY <1>3, <1>4, <1>5
<1> QED BY <1>1, <1>6 DEF RecordInv

(* Every action keeps the types.                                           *)
LEMMA TypeStep == ASSUME TypeOK, RecordInv, [Next]_vars PROVE TypeOK'
<1> USE DumpAssumption DEF TypeOK, Conditions, counters
<1>1. ASSUME NEW k \in Key, Ignore(k) \/ Begin(k) PROVE TypeOK'
  <2>1. status[k] \in Conditions
        OBVIOUS
  <2> QED BY <1>1, <2>1 DEF Ignore, Begin, Take, NoRec
<1>2. CASE PodNotRunning
      BY <1>2 DEF PodNotRunning, UpdateStatus, Fault, NoRec, NoConditions, RecordInv
<1>3. CASE MarkStarted
  <2>1. [rec.mem EXCEPT !.started = "True"] \in Conditions
        OBVIOUS
  <2>2. UpdateStatus([rec.mem EXCEPT !.started = "True"]) /\ rec.key \in Key
        BY <1>3 DEF MarkStarted, RecordInv
  <2>3. status' \in [Key -> Conditions] /\ faults' \in 0 .. MaxFaults
        BY <2>1, <2>2, UpdateLemma
  <2>4. rec' = [rec EXCEPT !.pc = "dump", !.mem = [rec.mem EXCEPT !.started = "True"]]
        BY <1>3 DEF MarkStarted
  <2>5. UNCHANGED << life, running, dumps, queue, edits, restarts >>
        BY <1>3 DEF MarkStarted
  <2> QED BY <2>1, <2>3, <2>4, <2>5
<1>4. CASE RunDump
      BY <1>4 DEF RunDump, RecordInv
<1>5. CASE ReportDump
  <2>1. /\ [rec.mem EXCEPT !.completed = "True", !.file = TRUE] \in Conditions
        /\ [rec.mem EXCEPT !.completed = "False"] \in Conditions
        OBVIOUS
  <2>2. NoRec \in [pc : {"idle", "lookup", "dump", "await"}, key : Key \union {"none"},
                   mem : Conditions, fresh : BOOLEAN]
        BY DEF NoRec, NoConditions
  <2>3. status' \in [Key -> Conditions] /\ faults' \in 0 .. MaxFaults
        BY <1>5, <2>1, UpdateLemma DEF ReportDump, RecordInv
  <2> QED BY <1>5, <2>2, <2>3 DEF ReportDump
<1>6. CASE LookupFails
      BY <1>6 DEF LookupFails, Fault, NoRec, NoConditions, RecordInv
<1>7. ASSUME NEW k \in Key, EditCR(k) \/ DeleteCR(k) PROVE TypeOK'
  <2>1. [rec EXCEPT !.fresh = FALSE]
          \in [pc : {"idle", "lookup", "dump", "await"}, key : Key \union {"none"},
              mem : Conditions, fresh : BOOLEAN]
        OBVIOUS
  <2>2. rec' = rec \/ rec' = [rec EXCEPT !.fresh = FALSE]
        BY <1>7 DEF EditCR, DeleteCR, UserEdit
  <2>3. faults' \in 0 .. MaxFaults /\ edits' \in 0 .. MaxUserEdits
        BY <1>7 DEF EditCR, DeleteCR, UserEdit, Fault
  <2>4. life' \in [Key -> {"live", "gone"}] /\ queue' \subseteq Key
        BY <1>7 DEF EditCR, DeleteCR, UserEdit
  <2>5. UNCHANGED << status, running, dumps, restarts >>
        BY <1>7 DEF EditCR, DeleteCR, UserEdit
  <2> QED BY <2>1, <2>2, <2>3, <2>4, <2>5
<1>8. CASE \E k \in Key : ChangePod(k)
      BY <1>8 DEF ChangePod
<1>9. CASE RestartOperator
      BY <1>9 DEF RestartOperator, NoRec, NoConditions
<1>10. CASE UNCHANGED vars
      BY <1>10 DEF vars
<1> QED BY <1>1, <1>2, <1>3, <1>4, <1>5, <1>6, <1>7, <1>8, <1>9, <1>10 DEF Next, Continue

(* Every action keeps what is known of the copy a reconcile holds.         *)
LEMMA RecordStep == ASSUME TypeOK, RecordInv, OutcomeInv, [Next]_vars PROVE RecordInv'
<1> USE DumpAssumption DEF TypeOK, Conditions, RecordInv, counters
<1>1. CASE \E k \in Key : Ignore(k)
      BY <1>1 DEF Ignore, Take
<1>2. ASSUME NEW k \in Key, Begin(k) PROVE RecordInv'
      BY <1>2 DEF Begin, Take, AlreadyStarted, NoRec, OutcomeInv
<1>3. CASE PodNotRunning \/ ReportDump \/ LookupFails \/ RestartOperator
      BY <1>3 DEF PodNotRunning, ReportDump, LookupFails, RestartOperator, NoRec
<1>4. CASE MarkStarted
      BY <1>4 DEF MarkStarted, UpdateStatus, Fault
<1>5. CASE RunDump
      BY <1>5 DEF RunDump
<1>6. CASE \E k \in Key : EditCR(k) \/ DeleteCR(k)
      BY <1>6 DEF EditCR, DeleteCR, UserEdit, Fault
<1>7. CASE \E k \in Key : ChangePod(k)
      BY <1>7 DEF ChangePod
<1>8. CASE UNCHANGED vars
      BY <1>8 DEF vars
<1> QED BY <1>1, <1>2, <1>3, <1>4, <1>5, <1>6, <1>7, <1>8 DEF Next, Continue

(* An outcome is only ever written by the reconcile that ran the dump.     *)
LEMMA OutcomeStep == ASSUME TypeOK, RecordInv, OutcomeInv, [Next]_vars PROVE OutcomeInv'
<1> USE DumpAssumption DEF TypeOK, Conditions, RecordInv, OutcomeInv, counters
<1>1. CASE \E k \in Key : Ignore(k) \/ Begin(k) \/ EditCR(k) \/ DeleteCR(k) \/ ChangePod(k)
      BY <1>1 DEF Ignore, Begin, EditCR, DeleteCR, ChangePod, UserEdit
<1>2. CASE PodNotRunning \/ MarkStarted \/ LookupFails
      BY <1>2 DEF PodNotRunning, MarkStarted, LookupFails, UpdateStatus
<1>3. CASE RunDump
      BY <1>3 DEF RunDump
<1>4. CASE ReportDump
  <2>1. PICK c \in Conditions : UpdateStatus(c) /\ c.started = "True"
        BY <1>4, ReportLemma
  <2>2. dumps' = dumps /\ rec.key \in Key /\ dumps[rec.key] > 0
        BY <1>4, ReportLemma DEF ReportDump
  <2>3. \/ status' = status
        \/ status' = [status EXCEPT ![rec.key] = c]
        BY <2>1, <2>2, UpdateLemma DEF TypeOK, Conditions
  <2> QED BY <2>1, <2>2, <2>3
<1>5. CASE RestartOperator \/ UNCHANGED vars
      BY <1>5 DEF RestartOperator, vars
<1> QED BY <1>1, <1>2, <1>3, <1>4, <1>5 DEF Next, Continue

(* While no write is lost, a dump is run after the status says started.    *)
LEMMA UndisturbedStep == ASSUME IInv, [Next]_vars PROVE UndisturbedInv'
<1> USE DumpAssumption DEF IInv, TypeOK, Conditions, RecordInv, UndisturbedInv, counters
<1>1. CASE \E k \in Key : Ignore(k)
      BY <1>1 DEF Ignore, Take
<1>2. ASSUME NEW k \in Key, Begin(k) PROVE UndisturbedInv'
      BY <1>2 DEF Begin, Take, AlreadyStarted, NoRec
<1>3. CASE PodNotRunning
      BY <1>3 DEF PodNotRunning, UpdateStatus, Fault, NoRec
<1>4. CASE MarkStarted
      BY <1>4 DEF MarkStarted, UpdateStatus, Fault
<1>5. CASE RunDump
      BY <1>5 DEF RunDump
<1>6. CASE ReportDump
  <2>1. rec'.pc = "idle" /\ dumps' = dumps
        BY <1>6 DEF ReportDump, NoRec
  <2>2. faults' = 0 => faults = 0
        BY <1>6 DEF ReportDump, UpdateStatus, Fault
  <2>3. \A k \in Key : faults' = 0 /\ status'[k].started # "True" => status[k].started # "True"
    <3>1. PICK c \in Conditions : UpdateStatus(c) /\ c.started = "True"
          BY <1>6, ReportLemma
    <3>2. rec.key \in Key
          BY <1>6, ReportLemma
    <3>3. status' = status \/ status' = [status EXCEPT ![rec.key] = c]
          BY <3>1, <3>2, UpdateLemma DEF TypeOK, Conditions
    <3> QED BY <3>1, <3>2, <3>3
  <2> QED BY <2>1, <2>2, <2>3
<1>7. CASE LookupFails
      BY <1>7 DEF LookupFails, Fault
<1>8. CASE \E k \in Key : EditCR(k) \/ DeleteCR(k)
      BY <1>8 DEF EditCR, DeleteCR, UserEdit, Fault
<1>9. CASE (\E k \in Key : ChangePod(k)) \/ RestartOperator
      BY <1>9 DEF ChangePod, RestartOperator, NoRec
<1>10. CASE UNCHANGED vars
      BY <1>10 DEF vars
<1> QED BY <1>1, <1>2, <1>3, <1>4, <1>5, <1>6, <1>7, <1>8, <1>9, <1>10 DEF Next, Continue

(* All of it, for every behaviour.                                         *)
THEOREM Invariance == Spec => []IInv
<1>1. Init => IInv
      BY InitInv
<1>2. IInv /\ [Next]_vars => IInv'
      BY TypeStep, RecordStep, OutcomeStep, UndisturbedStep DEF IInv
<1> QED BY <1>1, <1>2, PTL DEF Spec

(* The variables keep their types (openlibertydump_controller.go 60-143).  *)
THEOREM TypeCorrect == Spec => []TypeOK
<1>1. IInv => TypeOK
      BY DEF IInv
<1> QED BY <1>1, Invariance, PTL

-----------------------------------------------------------------------------
(* The controller implements Operation: every step of it is one of the     *)
(* operation, or changes nothing the user can see.                         *)

(* At first nothing is reported and nothing performed.                     *)
LEMMA InitPromise == ASSUME Init PROVE Op!Init
BY DumpAssumption DEF Init, Op!Init, Phase, NoConditions

(* A write of the status that is made reports one phase.                   *)
LEMMA WriteLemma ==
    ASSUME TypeOK, NEW k \in Key, NEW c \in Conditions,
           status' = [status EXCEPT ![k] = c], dumps' = dumps
    PROVE  Op!Report(k, Phase(c))
<1>1. status'[k] = c /\ \A j \in Key \ {k} : status'[j] = status[j]
      BY DEF TypeOK
<1>2. Phase(status'[k]) = Phase(c) /\ \A j \in Key \ {k} : Phase(status'[j]) = Phase(status[j])
      BY <1>1
<1>3. [j \in Key |-> Phase(status'[j])]
        = [[j \in Key |-> Phase(status[j])] EXCEPT ![k] = Phase(c)]
      BY <1>2
<1> QED BY <1>3 DEF Op!Report

(* The phases of conditions.                                               *)
LEMMA PhaseLemma ==
    ASSUME NEW c \in Conditions
    PROVE  /\ c.completed = "none" => Phase(c) \notin Op!Ended
           /\ c.completed = "none" /\ c.started # "True" => Phase(c) \in Op!Open
           /\ c.completed = "none" /\ c.started = "False" => Phase(c) = "refused"
           /\ c.completed = "none" /\ c.started = "True" => Phase(c) = "started"
           /\ c.completed # "none" => Phase(c) \in Op!Ended
BY DEF Conditions, Phase, Op!Ended, Op!Open

(* A report that is lost stays lost.                                       *)
LEMMA LostForGood == ASSUME TypeOK, [Next]_vars PROVE (faults > 0)' \in {faults > 0, TRUE}
<1>1. faults' = faults \/ Fault
  <2>1. CASE \E k \in Key : Ignore(k) \/ Begin(k) \/ EditCR(k) \/ DeleteCR(k) \/ ChangePod(k)
        BY <2>1 DEF Ignore, Begin, EditCR, DeleteCR, ChangePod, UserEdit, counters
  <2>2. CASE Continue \/ LookupFails
        BY <2>2 DEF Continue, PodNotRunning, MarkStarted, RunDump, ReportDump, LookupFails,
           UpdateStatus, counters
  <2>3. CASE RestartOperator \/ UNCHANGED vars
        BY <2>3 DEF RestartOperator, vars
  <2> QED BY <2>1, <2>2, <2>3 DEF Next
<1>2. CASE faults' = faults
      BY <1>2
<1>3. CASE Fault
  <2>1. (faults > 0)' = TRUE
        BY <1>3, DumpAssumption DEF Fault, TypeOK
  <2> QED BY <2>1
<1> QED BY <1>1, <1>2, <1>3

(* Every step of the controller is one of the abstract operation.          *)
LEMMA StepKeepsPromise == ASSUME IInv, [Next]_vars PROVE [Op!Next]_(Op!vars)
<1> DEFINE phase == [j \in Key |-> Phase(status[j])]
<1>1. (faults > 0)' \in {faults > 0, TRUE}
      BY LostForGood DEF IInv
<1>2. SUFFICES \/ \E k \in Key : Op!Refuse(k) \/ Op!Start(k) \/ Op!Perform(k) \/ Op!End(k)
               \/ phase' = phase /\ dumps' = dumps
      BY <1>1 DEF Op!Next
<1>3. CASE status' = status /\ dumps' = dumps
      BY <1>3
<1>4. ASSUME NEW to \in {"False", "True"}, rec.pc = "lookup", dumps' = dumps,
             status' = [status EXCEPT ![rec.key] = [rec.mem EXCEPT !.started = to]], rec.fresh
      PROVE  Op!Refuse(rec.key) \/ Op!Start(rec.key)
  <2> DEFINE c == [rec.mem EXCEPT !.started = to]
  <2>1. /\ rec.key \in Key /\ status[rec.key] = rec.mem
        /\ rec.mem.completed = "none" /\ rec.mem.started # "True"
        BY <1>4 DEF IInv, RecordInv
  <2>2. rec.mem \in Conditions
        BY DEF IInv, TypeOK
  <2>3. c \in Conditions /\ c.completed = "none" /\ c.started = to
        BY <2>1, <2>2 DEF Conditions
  <2>4. phase[rec.key] \in Op!Open
        BY <2>1, <2>2, PhaseLemma
  <2>5. Op!Report(rec.key, Phase(c))
    <3> HIDE DEF c
    <3> QED BY <1>4, <2>1, <2>3, WriteLemma DEF IInv, c
  <2>6. Phase(c) \in {"refused", "started"}
    <3> HIDE DEF c
    <3> QED BY <2>3, PhaseLemma
  <2> QED BY <2>4, <2>5, <2>6 DEF Op!Refuse, Op!Start
<1>5. CASE PodNotRunning \/ MarkStarted \/ LookupFails
  <2>1. rec.pc = "lookup" /\ dumps' = dumps
        BY <1>5 DEF PodNotRunning, MarkStarted, LookupFails
  <2>2. rec.key \in Key /\ (rec.fresh => status[rec.key] = rec.mem)
        BY <2>1 DEF IInv, RecordInv
  <2>3. \/ status' = status
        \/ rec.fresh /\ \E to \in {"False", "True"} :
              status' = [status EXCEPT ![rec.key] = [rec.mem EXCEPT !.started = to]]
        BY <1>5, <2>2 DEF PodNotRunning, MarkStarted, LookupFails, UpdateStatus
  <2> QED BY <1>3, <1>4, <2>1, <2>2, <2>3
<1>6. CASE RunDump
  <2>1. rec.pc = "dump" /\ rec.key \in Key /\ status' = status
        BY <1>6 DEF RunDump, IInv, RecordInv
  <2>2. dumps' = [dumps EXCEPT ![rec.key] = @ + 1]
        BY <1>6 DEF RunDump
  <2>3. ASSUME ~(faults > 0) PROVE phase[rec.key] = "started" /\ dumps[rec.key] = 0
    <3>1. faults = 0
          BY <2>3, DumpAssumption DEF IInv, TypeOK
    <3>2. /\ status[rec.key].started = "True" /\ dumps[rec.key] = 0
          /\ status[rec.key].completed = "none"
          BY <2>1, <3>1 DEF IInv, UndisturbedInv, RecordInv
    <3>3. status[rec.key] \in Conditions
          BY <2>1 DEF IInv, TypeOK
    <3> QED BY <2>1, <3>2, <3>3, PhaseLemma
  <2>4. Op!Perform(rec.key)
        BY <2>1, <2>2, <2>3 DEF Op!Perform
  <2> QED BY <2>1, <2>4
<1>7. CASE ReportDump
  <2>1. PICK c \in Conditions : /\ UpdateStatus(c)
                                /\ c.started = "True" /\ c.completed \in {"True", "False"}
        BY <1>7, ReportLemma DEF IInv
  <2>2. /\ rec.key \in Key /\ dumps[rec.key] > 0 /\ dumps' = dumps
        /\ rec.fresh => status[rec.key].completed = "none"
        BY <1>7, ReportLemma DEF IInv, ReportDump
  <2>3. CASE status' = status
        BY <1>3, <2>2, <2>3
  <2>4. CASE rec.fresh /\ status' = [status EXCEPT ![rec.key] = c]
    <3>1. status[rec.key] \in Conditions
          BY <2>2 DEF IInv, TypeOK
    <3>2. phase[rec.key] \notin Op!Ended
          BY <2>2, <2>4, <3>1, PhaseLemma
    <3>3. Op!Report(rec.key, Phase(c)) /\ Phase(c) \in Op!Ended
          BY <2>1, <2>2, <2>4, WriteLemma, PhaseLemma DEF IInv
    <3>4. Op!End(rec.key)
          BY <2>2, <3>2, <3>3 DEF Op!End
    <3> QED BY <2>2, <3>4
  <2> QED BY <2>1, <2>2, <2>3, <2>4, UpdateLemma DEF IInv
<1>8. CASE \E k \in Key : Ignore(k) \/ Begin(k) \/ EditCR(k) \/ DeleteCR(k) \/ ChangePod(k)
      BY <1>3, <1>8 DEF Ignore, Begin, EditCR, DeleteCR, ChangePod, UserEdit
<1>9. CASE RestartOperator \/ UNCHANGED vars
      BY <1>3, <1>9 DEF RestartOperator, vars
<1> QED BY <1>5, <1>6, <1>7, <1>8, <1>9 DEF Next, Continue

(* A dump is run once, after it was reported started, while no report is   *)
(* lost; an outcome is that of a dump that was run, and is final           *)
(* (openlibertydump_controller.go 66-143).                                 *)
THEOREM Implements == Spec => KeepsPromise
<1>1. Init => Op!Init
      BY InitPromise
<1>2. IInv /\ [Next]_vars => [Op!Next]_(Op!vars)
      BY StepKeepsPromise
<1> QED BY <1>1, <1>2, Invariance, PTL DEF Spec, KeepsPromise, Op!Spec
=============================================================================
