---------------------- MODULE PerformanceData_proofs ----------------------
(***************************************************************************)
(* Proofs about PerformanceData and the PodInjector it drives: the         *)
(* variables keep their types, a resource is reported completed only if a  *)
(* script of its own succeeded, completion is final; and, as long as       *)
(* nobody edits anything and nothing fails, no two scripts run at a time   *)
(* with a maximum of one worker, and with any maximum a resource has one   *)
(* script, whose success is not missed once its callback has stored it.    *)
(* All of it for any number of resources, sessions, edits and restarts.    *)
(***************************************************************************)
EXTENDS PerformanceData, TLAPS, WellFoundedInduction, FiniteSetTheorems

(* A set of positions that is not empty has a least one.                   *)
LEMMA SmallestIndex ==
    ASSUME NEW S \in SUBSET Nat, S # {}
    PROVE  \E n \in S : \A m \in S : n <= m
<1>1. PICK n \in S : \A m \in S : << m, n >> \notin OpToRel(<, Nat)
  <2>1. IsWellFoundedOn(OpToRel(<, Nat), Nat)
        BY NatLessThanWellFounded, Zenon
  <2> QED BY <2>1, WFMin, Zenon
<1>2. \A m \in S : ~(m < n)
      BY <1>1 DEF OpToRel
<1> QED BY <1>2

(* getWorkerIndex returns a position of the slice, that of a worker of the *)
(* resource if there is one, and 0 otherwise.                              *)
LEMMA IndexType ==
    ASSUME count \in Nat, NEW k
    PROVE  /\ IndexOf(k) \in 0 .. count
           /\ hasWorker(k) => IndexOf(k) \in WorkersOf(k)
<1>1. CASE hasWorker(k)
  <2>1. WorkersOf(k) \in SUBSET Nat /\ WorkersOf(k) # {} /\ WorkersOf(k) \subseteq 1 .. count
        BY <1>1 DEF WorkersOf, hasWorker
  <2>2. \E n \in WorkersOf(k) : \A m \in WorkersOf(k) : n <= m
        BY <2>1, SmallestIndex
  <2>3. IndexOf(k) \in WorkersOf(k)
        BY <1>1, <2>2 DEF IndexOf
  <2> QED BY <2>1, <2>3
<1>2. CASE ~hasWorker(k)
      BY <1>2 DEF IndexOf
<1> QED BY <1>1, <1>2

(* Zero is a bound that every counter of sessions admits.                  *)
LEMMA ZeroInBounds == 0 \in 0 .. MaxSessions /\ MaxSessions \in Nat
BY WorkerAssumption

(* A function on the positions of the sessions is a sequence of sessions   *)
(* of the same length.                                                     *)
LEMMA SessionFunction ==
    ASSUME session \in Seq(SessionRecord), NEW f \in [Session -> SessionRecord]
    PROVE  f \in Seq(SessionRecord) /\ Len(f) = Len(session)
BY DEF Session

(* The fields of a session.                                                *)
LEMMA SessionFields ==
    ASSUME session \in Seq(SessionRecord), NEW s \in Session
    PROVE  /\ session[s] \in SessionRecord
           /\ session[s].key \in Key /\ session[s].pc \in SessionPC /\ session[s].ok \in BOOLEAN
           /\ session[s].index \in 0 .. MaxSessions /\ session[s].count \in 0 .. MaxSessions
           /\ session[s].cancelled \in BOOLEAN
<1>1. session[s] \in SessionRecord
      BY DEF Session
<1> QED BY <1>1 DEF SessionRecord

(* One session changes.                                                    *)
LEMMA SessionUpdate ==
    ASSUME session \in Seq(SessionRecord), NEW s \in Session, NEW r \in SessionRecord,
           session' = [session EXCEPT ![s] = r]
    PROVE  /\ session' \in [Session -> SessionRecord]
           /\ session'[s] = r
           /\ \A t \in Session \ {s} : session'[t] = session[t]
<1>1. session \in [Session -> SessionRecord]
      BY DEF Session
<1> QED BY <1>1

(* Session t stays what it is, except that it may be cancelled.            *)
Steady(t) == /\ session'[t].key = session[t].key /\ session'[t].pc = session[t].pc
             /\ session'[t].ok = session[t].ok /\ session'[t].index = session[t].index
             /\ session'[t].count = session[t].count

(* The steps of a script and of its callback, except the one that cancels. *)
LEMMA SessionStep ==
    ASSUME session \in Seq(SessionRecord), count \in 0 .. MaxSessions, NEW s \in Session,
           \/ ScriptEnds(s) \/ CallbackFind(s) \/ CallbackShift(s)
           \/ CallbackStore(s) \/ CallbackName(s)
    PROVE  /\ session' \in [Session -> SessionRecord]
           /\ \A t \in Session \ {s} : session'[t] = session[t]
           /\ session'[s].key = session[s].key /\ session'[s].cancelled = session[s].cancelled
           /\ session'[s].ok = session[s].ok \/ ScriptEnds(s)
           /\ session'[s].pc \in (CASE ScriptEnds(s)    -> {"find"}
                                    [] CallbackFind(s)  -> {IF hasWorker(session[s].key) THEN "cut" ELSE "store"}
                                    [] CallbackShift(s) -> {"store"}
                                    [] OTHER            -> {"name", "over"})
           /\ session'[s].index = IF CallbackFind(s) THEN IndexOf(session[s].key)
                                  ELSE IF CallbackShift(s) THEN 0 ELSE session[s].index
           /\ session'[s].count = IF CallbackShift(s) THEN 0 ELSE session[s].count
<1>0. session[s] \in SessionRecord /\ IndexOf(session[s].key) \in 0 .. MaxSessions
      BY SessionFields, IndexType, WorkerAssumption
<1>1. CASE ScriptEnds(s)
  <2>1. PICK ok \in BOOLEAN : session' = [session EXCEPT ![s].pc = "find", ![s].ok = ok]
        BY <1>1 DEF ScriptEnds
  <2> DEFINE r == [session[s] EXCEPT !.pc = "find", !.ok = ok]
  <2>2. /\ r \in SessionRecord /\ r.key = session[s].key /\ r.cancelled = session[s].cancelled
        /\ r.pc = "find" /\ r.index = session[s].index /\ r.count = session[s].count
        BY <1>0 DEF SessionRecord, SessionPC
  <2>3. session' = [session EXCEPT ![s] = r]
        BY <1>0, <2>1
  <2>4. session[s].pc = "running"
        BY <1>1 DEF ScriptEnds
  <2> HIDE DEF r
  <2> QED BY <1>1, <2>2, <2>3, <2>4, SessionUpdate DEF CallbackFind, CallbackShift
<1>2. CASE CallbackFind(s)
  <2> DEFINE r == [session[s] EXCEPT !.index = IndexOf(session[s].key),
                                     !.pc = IF hasWorker(session[s].key) THEN "cut" ELSE "store"]
  <2>2. /\ r \in SessionRecord /\ r.key = session[s].key /\ r.cancelled = session[s].cancelled
        /\ r.ok = session[s].ok /\ r.index = IndexOf(session[s].key) /\ r.count = session[s].count
        /\ r.pc = IF hasWorker(session[s].key) THEN "cut" ELSE "store"
        BY <1>0 DEF SessionRecord, SessionPC
  <2>3. session' = [session EXCEPT ![s] = r] /\ session[s].pc = "find"
        BY <1>0, <1>2 DEF CallbackFind
  <2> HIDE DEF r
  <2> QED BY <1>2, <2>2, <2>3, SessionUpdate DEF ScriptEnds, CallbackShift
<1>3. CASE CallbackShift(s)
  <2> DEFINE r == [session[s] EXCEPT !.pc = "store", !.index = 0, !.count = 0]
  <2>2. /\ r \in SessionRecord /\ r.key = session[s].key /\ r.cancelled = session[s].cancelled
        /\ r.ok = session[s].ok /\ r.index = 0 /\ r.count = 0 /\ r.pc = "store"
        BY <1>0, ZeroInBounds DEF SessionRecord, SessionPC
  <2>3. session' = [session EXCEPT ![s] = r] /\ session[s].pc = "shift"
        BY <1>0, <1>3 DEF CallbackShift
  <2> HIDE DEF r
  <2> QED BY <1>3, <2>2, <2>3, SessionUpdate DEF ScriptEnds, CallbackFind
<1>4. CASE CallbackStore(s) \/ CallbackName(s)
  <2>1. PICK pc \in {"name", "over"} : session' = [session EXCEPT ![s].pc = pc]
        BY <1>4 DEF CallbackStore, CallbackName
  <2> DEFINE r == [session[s] EXCEPT !.pc = pc]
  <2>2. /\ r \in SessionRecord /\ r.key = session[s].key /\ r.cancelled = session[s].cancelled
        /\ r.ok = session[s].ok /\ r.index = session[s].index /\ r.count = session[s].count
        /\ r.pc = pc
        BY <1>0 DEF SessionRecord, SessionPC
  <2>3. session' = [session EXCEPT ![s] = r] /\ session[s].pc \in {"store", "name"}
        BY <1>0, <1>4, <2>1 DEF CallbackStore, CallbackName
  <2> HIDE DEF r
  <2> QED BY <1>4, <2>2, <2>3, SessionUpdate DEF ScriptEnds, CallbackFind, CallbackShift
<1> QED BY <1>1, <1>2, <1>3, <1>4

(* Cancelling a worker, whichever the slot names, leaves the rest.         *)
LEMMA CancelLemma ==
    ASSUME session \in Seq(SessionRecord), NEW x,
           session' = [session EXCEPT ![x].cancelled = TRUE]
    PROVE  session' \in [Session -> SessionRecord] /\ \A t \in Session : Steady(t)
<1>1. session \in [Session -> SessionRecord] /\ DOMAIN session = Session
      BY DEF Session
<1>2. CASE x \in Session
  <2> DEFINE r == [session[x] EXCEPT !.cancelled = TRUE]
  <2>1. /\ r \in SessionRecord /\ r.key = session[x].key /\ r.pc = session[x].pc
        /\ r.ok = session[x].ok /\ r.index = session[x].index /\ r.count = session[x].count
        BY <1>2, SessionFields DEF SessionRecord
  <2>2. session' = [session EXCEPT ![x] = r]
        BY <1>1, <1>2
  <2> HIDE DEF r
  <2> QED BY <1>2, <2>1, <2>2, SessionUpdate DEF Steady
<1>3. CASE x \notin Session
  <2>1. session' = session
        BY <1>1, <1>3
  <2> QED BY <1>1, <2>1 DEF Steady
<1> QED BY <1>2, <1>3

(* A cut keeps the slots a prefix of the slice and shortens it by no more  *)
(* than the worker it removes.                                             *)
LEMMA CutLemma ==
    ASSUME session \in Seq(SessionRecord), count \in 0 .. MaxSessions, NEW s \in Session, CallbackCut(s)
    PROVE  /\ session' \in [Session -> SessionRecord]
           /\ \A t \in Session \ {s} : Steady(t)
           /\ session'[s].key = session[s].key /\ session'[s].pc = "shift"
           /\ session'[s].ok = session[s].ok /\ session'[s].index = session[s].index
           /\ session'[s].count = count
<1> DEFINE x == slots[session[s].index]
           r == [session[s] EXCEPT !.pc = "shift", !.count = count]
           f == [session EXCEPT ![s] = r]
<1>1. session \in [Session -> SessionRecord] /\ DOMAIN session = Session /\ session[s] \in SessionRecord
      BY SessionFields DEF Session
<1>2. /\ r \in SessionRecord /\ r.key = session[s].key /\ r.pc = "shift" /\ r.ok = session[s].ok
      /\ r.index = session[s].index /\ r.count = count
      BY <1>1 DEF SessionRecord, SessionPC
<1>3. session' = [f EXCEPT ![x].cancelled = TRUE]
      BY <1>1 DEF CallbackCut
<1> HIDE DEF r, x
<1>4. f \in [Session -> SessionRecord] /\ DOMAIN f = Session /\ f[s] = r
      /\ \A t \in Session \ {s} : f[t] = session[t]
      BY <1>1, <1>2
<1> HIDE DEF f
<1>5. CASE x \in Session
  <2> DEFINE q == [f[x] EXCEPT !.cancelled = TRUE]
  <2>0. f[x] \in SessionRecord
        BY <1>4, <1>5
  <2>1. /\ q \in SessionRecord /\ q.key = f[x].key /\ q.pc = f[x].pc
        /\ q.ok = f[x].ok /\ q.index = f[x].index /\ q.count = f[x].count
        BY <2>0 DEF SessionRecord
  <2>2. session' = [f EXCEPT ![x] = q]
        BY <1>3, <1>4, <1>5
  <2> HIDE DEF q
  <2>3. session' \in [Session -> SessionRecord] /\ session'[x] = q /\ \A t \in Session \ {x} : session'[t] = f[t]
        BY <1>4, <1>5, <2>1, <2>2
  <2> QED BY <1>2, <1>4, <2>1, <2>3 DEF Steady
<1>6. CASE x \notin Session
  <2>1. session' = f
        BY <1>3, <1>4, <1>6
  <2> QED BY <1>2, <1>4, <2>1 DEF Steady
<1> QED BY <1>5, <1>6
-----------------------------------------------------------------------------
(* The requests and the reconciles there can be in progress, by type.      *)
OpPC == {"idle", "append", "appendWrite", "cut", "shift"}
Ops == [pc : OpPC, key : Key \union {"none"}, session : 0 .. MaxSessions,
        index : 0 .. MaxSessions, count : 0 .. MaxSessions, saved : Slots]
RecPC == {"idle", "setMax", "poll", "act", "fileName", "complete"}
Answers == {"none", "writing", "error", "done", "toomanyworkers", "idle"}
Recs == [pc : RecPC, key : Key \union {"none"}, mem : Conditions, fresh : BOOLEAN, answer : Answers]

(* Elements there can be in the slice: never more than scripts have been   *)
(* started, the one still to be appended aside.                            *)
Room == IF op.pc \in {"append", "appendWrite"} THEN Len(session) - 1 ELSE Len(session)
Fits(n) == n <= Room /\ n <= MaxWorkers

(* The lengths read by the steps that rewrite the slice, now or before an  *)
(* interruption, are within that bound, and within the largest maximum.    *)
CountInv ==
    /\ Fits(count) /\ Fits(op.count) /\ \A s \in Session : Fits(session[s].count)
    /\ op.pc = "append" => count < MaxWorkers
    /\ op.pc = "appendWrite" => op.count < MaxWorkers
    /\ op.pc = "cut" => op.index > 0
    /\ op.pc = "shift" => op.count > 0
    /\ \A s \in Session : /\ session[s].pc = "cut" => session[s].index > 0
                          /\ session[s].pc = "shift" => session[s].count > 0

(* Sending a request changes nothing else of the injector.                 *)
OthersUnchanged == UNCHANGED << op, session, slots, count, currentMaxWorkers, completedPods,
                                erroringPods, linperfFileNames >>

(* What a step does in the injector.                                       *)
InjectorStep ==
    \/ UNCHANGED injectorVars
    \/ \E k \in Key : (Send(k, "start") \/ Send(k, "complete")) /\ OthersUnchanged
    \/ SetMaxWorkers(desired)
    \/ \E k \in Key : RefuseStart(k) \/ Start(k) \/ StartFails(k) \/ Complete(k)
    \/ AppendRead \/ AppendWrite \/ CompleteCut \/ CompleteShift
    \/ \E s \in Session : CallbackCut(s)
    \/ \E s \in Session : \/ ScriptEnds(s) \/ CallbackFind(s) \/ CallbackShift(s)
                          \/ CallbackStore(s) \/ CallbackName(s)
    \/ InjectorRestart

(* The reconcile in progress is that of a resource.                        *)
RecInv == rec.pc # "idle" => /\ rec.key \in Key
                             /\ rec.mem.completed # "True"
                             /\ status[rec.key].completed # "True"

(* A step of the whole system is one of these in the injector.             *)
LEMMA InjectorLemma == ASSUME TypeOK, RecInv, [Next]_vars PROVE InjectorStep
<1> USE DEF InjectorStep, OthersUnchanged, injectorVars, workerVars, mapVars
<1>1. CASE \E k \in Key : Begin(k) \/ RetryFinalizer(k) \/ ConnectFails(k)
      BY <1>1 DEF Begin, NotFound, Finalize, AlreadyCompleted, PodNotFound, PodNotRunning, Connect,
                  RetryFinalizer, ConnectFails
<1>2. CASE Continue
  <2>1. CASE RequestMaxWorkers
        BY <2>1 DEF RequestMaxWorkers
  <2>2. CASE PollStatus \/ ReportError \/ ReportConnectionLost \/ PollLinperfFileName
        BY <2>2 DEF PollStatus, ReportError, ReportConnectionLost, PollLinperfFileName
  <2>3. CASE AwaitCollection
        BY <2>3 DEF AwaitCollection, RecInv
  <2>4. CASE ReportCompleted
        BY <2>4 DEF ReportCompleted, RecInv
  <2> QED BY <1>2, <2>1, <2>2, <2>3, <2>4 DEF Continue
<1>3. CASE Process
      BY <1>3 DEF Process
<1>4. CASE \E k \in Key : StartFails(k)
      BY <1>4
<1>5. CASE \E s \in Session : ScriptEnds(s) \/ Callback(s)
      BY <1>5 DEF Callback
<1>6. CASE \E k \in Key : EditCR(k) \/ DeleteCR(k) \/ ChangePod(k)
      BY <1>6 DEF EditCR, DeleteCR, ChangePod, UserEdit
<1>7. CASE EditConfigMap
      BY <1>7 DEF EditConfigMap, UserEdit
<1>8. CASE RestartOperator \/ Panic
      BY <1>8 DEF RestartOperator, Panic, Restart
<1>9. CASE UNCHANGED vars
      BY <1>9 DEF vars
<1> QED BY <1>1, <1>2, <1>3, <1>4, <1>5, <1>6, <1>7, <1>8, <1>9 DEF Next

(* No request in progress.                                                 *)
LEMMA IdleOpType == IdleOp \in Ops /\ IdleOp.pc = "idle" /\ IdleOp.count = 0
BY WorkerAssumption DEF IdleOp, Ops, OpPC, Slots

(* A start that is accepted adds one session, a running one, and leaves    *)
(* the slice to the steps that append.                                     *)
LEMMA StartLemma ==
    ASSUME TypeOK, NEW k \in Key, Start(k)
    PROVE  /\ Len(session') = Len(session) + 1 /\ Len(session') <= MaxSessions
           /\ session' \in Seq(SessionRecord)
           /\ \A s \in Session : session'[s] = session[s]
           /\ session'[Len(session')] = NewSession(k) /\ NewSession(k) \in SessionRecord
           /\ op' \in Ops /\ op'.pc = "append" /\ op'.count = 0 /\ op'.session = Len(session')
<1>1. NewSession(k) \in SessionRecord
      BY WorkerAssumption DEF NewSession, SessionRecord, SessionPC
<1>2. session \in Seq(SessionRecord) /\ Len(session) \in Nat /\ Len(session) < MaxSessions
      BY DEF TypeOK, Start
<1>3. session' = Append(session, NewSession(k))
      BY DEF Start
<1>4. Len(session) + 1 \in 0 .. MaxSessions
      BY <1>2, WorkerAssumption
<1>5. op' = [IdleOp EXCEPT !.pc = "append", !.key = k, !.session = Len(session) + 1]
      BY DEF Start
<1>6. op' \in Ops /\ op'.pc = "append" /\ op'.count = 0 /\ op'.session = Len(session) + 1
      BY <1>4, <1>5, IdleOpType DEF Ops, OpPC
<1>7. Len(session') = Len(session) + 1 /\ session' \in Seq(SessionRecord)
      BY <1>1, <1>2, <1>3
<1>8. /\ session'[Len(session) + 1] = NewSession(k)
      /\ \A s \in Session : session'[s] = session[s]
      BY <1>1, <1>2, <1>3 DEF Session
<1> QED BY <1>1, <1>2, <1>6, <1>7, <1>8, WorkerAssumption

(* A restart of the operator ends every session and keeps the outcomes.    *)
LEMMA RestartLemma ==
    ASSUME TypeOK, InjectorRestart
    PROVE  /\ session' \in [Session -> SessionRecord]
           /\ \A s \in Session : /\ session'[s].key = session[s].key /\ session'[s].ok = session[s].ok
                                 /\ session'[s].pc \in {"past", "dead"}
                                 /\ session'[s].index = 0 /\ session'[s].count = 0
<1>1. \A s \in Session : session[s] \in SessionRecord
      BY SessionFields DEF TypeOK
<1> DEFINE r(s) == [session[s] EXCEPT !.pc = IF @ \in {"over", "past"} THEN "past" ELSE "dead",
                                      !.index = 0, !.count = 0, !.cancelled = FALSE]
<1>2. \A s \in Session : /\ r(s) \in SessionRecord /\ r(s).key = session[s].key /\ r(s).ok = session[s].ok
                         /\ r(s).pc \in {"past", "dead"} /\ r(s).index = 0 /\ r(s).count = 0
      BY <1>1, ZeroInBounds DEF SessionRecord, SessionPC
<1>3. session' = [s \in Session |-> r(s)]
      BY DEF InjectorRestart
<1> HIDE DEF r
<1> QED BY <1>2, <1>3

(* The shift that ends a removal shortens the slice by one.                *)
LEMMA ShiftLemma ==
    ASSUME TypeOK, NEW index \in 0 .. MaxSessions, NEW n \in 0 .. MaxSessions, n > 0, Shift(index, n)
    PROVE  slots' \in Slots /\ count' \in 0 .. MaxSessions /\ count' = n - 1
<1>1. slots \in [1 .. MaxSessions -> 0 .. MaxSessions]
      BY DEF TypeOK, Slots
<1>2. \A m \in 1 .. MaxSessions : m < n => m + 1 \in 1 .. MaxSessions
      BY WorkerAssumption
<1>3. slots' \in [1 .. MaxSessions -> 0 .. MaxSessions]
      BY <1>1, <1>2 DEF Shift
<1> QED BY <1>3, WorkerAssumption DEF Slots, Shift

(* The fields of the request in progress.                                  *)
LEMMA OpFields ==
    ASSUME TypeOK
    PROVE  /\ op \in Ops /\ op.pc \in OpPC /\ op.key \in Key \union {"none"}
           /\ op.session \in 0 .. MaxSessions /\ op.index \in 0 .. MaxSessions
           /\ op.count \in 0 .. MaxSessions /\ op.saved \in Slots
<1>1. op \in Ops
      BY DEF TypeOK, Ops, OpPC
<1> QED BY <1>1 DEF Ops

(* How the steps of the injector change the request in progress.           *)
LEMMA OpStep ==
    ASSUME TypeOK, InjectorStep
    PROVE  /\ op' \in Ops
           /\ \/ op' = op
              \/ op'.pc = "idle" /\ op'.count = 0
              \/ \E k \in Key : Start(k)
              \/ AppendRead /\ op'.pc = "appendWrite" /\ op'.count = count
              \/ /\ op.pc = "idle" /\ op'.pc = "cut" /\ op'.index > 0 /\ op'.count = 0
                 /\ \E k \in Key : Complete(k) /\ op'.key = k
              \/ /\ CompleteCut /\ op'.pc = "shift" /\ op'.index = op.index /\ op'.count = count
                 /\ op'.key = op.key
<1> USE OpFields
<1>0. count \in 0 .. MaxSessions /\ count \in Nat
      BY WorkerAssumption DEF TypeOK
<1>1. CASE \E k \in Key : Start(k)
      BY <1>1, StartLemma
<1>2. CASE AppendRead
  <2>1. op' = [op EXCEPT !.pc = "appendWrite", !.count = count, !.saved = slots]
        BY <1>2 DEF AppendRead
  <2>2. slots \in Slots
        BY DEF TypeOK
  <2>3. op' \in Ops /\ op'.pc = "appendWrite" /\ op'.count = count
        BY <1>0, <2>1, <2>2 DEF Ops, OpPC
  <2> QED BY <1>2, <2>3
<1>3. CASE CompleteCut
  <2>1. op' = [op EXCEPT !.pc = "shift", !.count = count]
        BY <1>3 DEF CompleteCut
  <2>2. op' \in Ops /\ op'.pc = "shift" /\ op'.index = op.index /\ op'.count = count /\ op'.key = op.key
        BY <1>0, <2>1 DEF Ops, OpPC
  <2> QED BY <1>3, <2>2
<1>4. ASSUME NEW k \in Key, Complete(k)
      PROVE  /\ op' \in Ops
             /\ \/ op' = op
                \/ op.pc = "idle" /\ op'.pc = "cut" /\ op'.index > 0 /\ op'.count = 0 /\ op'.key = k
  <2>1. op.pc = "idle" /\ (op' = op \/ (hasWorker(k) /\ op' = [IdleOp EXCEPT !.pc = "cut", !.key = k, !.index = IndexOf(k)]))
        BY <1>4 DEF Complete, Receive
  <2>2. hasWorker(k) => IndexOf(k) \in 0 .. MaxSessions /\ IndexOf(k) > 0
        BY <1>0, IndexType, WorkerAssumption DEF WorkersOf
  <2>3. CASE hasWorker(k) /\ op' = [IdleOp EXCEPT !.pc = "cut", !.key = k, !.index = IndexOf(k)]
    <3>1. op' \in Ops /\ op'.pc = "cut" /\ op'.index = IndexOf(k) /\ op'.count = 0 /\ op'.key = k
          BY <2>2, <2>3, IdleOpType DEF Ops, OpPC
    <3> QED BY <2>1, <2>2, <3>1
  <2> QED BY <2>1, <2>3
<1>5. CASE AppendWrite \/ CompleteShift \/ InjectorRestart
      BY <1>5, IdleOpType DEF AppendWrite, CompleteShift, InjectorRestart
<1>6. CASE UNCHANGED injectorVars
      BY <1>6 DEF injectorVars
<1>7. CASE \E k \in Key : RefuseStart(k) \/ StartFails(k)
      BY <1>7 DEF RefuseStart, StartFails
<1>8. CASE \/ SetMaxWorkers(desired)
           \/ \E k \in Key : (Send(k, "start") \/ Send(k, "complete")) /\ OthersUnchanged
           \/ \E s \in Session : \/ CallbackCut(s) \/ ScriptEnds(s) \/ CallbackFind(s)
                                 \/ CallbackShift(s) \/ CallbackStore(s) \/ CallbackName(s)
      BY <1>8 DEF SetMaxWorkers, OthersUnchanged, CallbackCut, ScriptEnds, CallbackFind,
                  CallbackShift, CallbackStore, CallbackName
<1> QED BY <1>1, <1>2, <1>3, <1>4, <1>5, <1>6, <1>7, <1>8 DEF InjectorStep

(* How they change the sessions.                                           *)
LEMMA SessionsStep ==
    ASSUME TypeOK, InjectorStep
    PROVE  /\ session' \in Seq(SessionRecord) /\ Len(session') \in 0 .. MaxSessions
           /\ Len(session') = Len(session) \/ \E k \in Key : Start(k)
           /\ Len(session') >= Len(session)
<1> USE WorkerAssumption
<1>0. session \in Seq(SessionRecord) /\ Len(session) \in 0 .. MaxSessions /\ count \in 0 .. MaxSessions
      BY DEF TypeOK
<1>1. CASE session' = session
      BY <1>0, <1>1
<1>2. CASE session' \in [Session -> SessionRecord]
      BY <1>0, <1>2, SessionFunction
<1>3. CASE \E k \in Key : Start(k)
      BY <1>0, <1>3, StartLemma
<1>4. CASE \E s \in Session : \/ ScriptEnds(s) \/ CallbackFind(s)
                              \/ CallbackShift(s) \/ CallbackStore(s) \/ CallbackName(s)
      BY <1>0, <1>2, <1>4, SessionStep
<1>5. CASE \E s \in Session : CallbackCut(s)
      BY <1>0, <1>2, <1>5, CutLemma
<1>6. CASE CompleteCut
      BY <1>0, <1>2, <1>6, CancelLemma DEF CompleteCut
<1>7. CASE InjectorRestart
      BY <1>2, <1>7, RestartLemma
<1>8. CASE \/ UNCHANGED injectorVars \/ SetMaxWorkers(desired)
           \/ \E k \in Key : (Send(k, "start") \/ Send(k, "complete")) /\ OthersUnchanged
           \/ \E k \in Key : RefuseStart(k) \/ StartFails(k) \/ Complete(k)
           \/ AppendRead \/ AppendWrite \/ CompleteShift
      BY <1>1, <1>8 DEF injectorVars, SetMaxWorkers, OthersUnchanged, RefuseStart, StartFails, Complete,
                  AppendRead, AppendWrite, CompleteShift
<1> QED BY <1>3, <1>4, <1>5, <1>6, <1>7, <1>8 DEF InjectorStep

(* How they change the slice.                                              *)
LEMMA SliceStep ==
    ASSUME TypeOK, CountInv, InjectorStep
    PROVE  /\ slots' \in Slots
           /\ \/ count' = count
              \/ count' = 0
              \/ AppendWrite /\ count' = op.count + 1 /\ op'.pc = "idle" /\ op'.count = 0
              \/ op.pc = "shift" /\ op'.pc = "idle" /\ count' = op.count - 1 /\ op.count > 0 /\ UNCHANGED session
              \/ \E s \in Session : /\ CallbackShift(s) /\ op' = op
                                    /\ count' = session[s].count - 1 /\ session[s].count > 0
<1> USE OpFields, WorkerAssumption
<1>0. slots \in Slots /\ session \in Seq(SessionRecord)
      BY DEF TypeOK
<1>1. CASE AppendWrite
  <2>1. PICK base \in {slots, op.saved} : slots' = [base EXCEPT ![op.count + 1] = op.session]
        BY <1>1 DEF AppendWrite
  <2>2. base \in [1 .. MaxSessions -> 0 .. MaxSessions]
        BY <1>0, <2>1 DEF Slots
  <2>3. slots' \in Slots
        BY <2>1, <2>2 DEF Slots
  <2>4. count' = op.count + 1 /\ op' = IdleOp
        BY <1>1 DEF AppendWrite
  <2> QED BY <1>1, <2>3, <2>4, IdleOpType
<1>2. CASE CompleteShift
  <2>1. op.pc = "shift" /\ op.count > 0 /\ Shift(op.index, op.count) /\ op' = IdleOp /\ UNCHANGED session
        BY <1>2 DEF CompleteShift, CountInv
  <2> QED BY <2>1, ShiftLemma, IdleOpType
<1>3. ASSUME NEW s \in Session, CallbackShift(s)
      PROVE  slots' \in Slots /\ count' = session[s].count - 1 /\ session[s].count > 0 /\ op' = op
  <2>1. Shift(session[s].index, session[s].count) /\ session[s].count > 0 /\ op' = op
        BY <1>3 DEF CallbackShift, CountInv
  <2>2. session[s].index \in 0 .. MaxSessions /\ session[s].count \in 0 .. MaxSessions
        BY <1>0, SessionFields
  <2> QED BY <2>1, <2>2, ShiftLemma
<1>4. CASE InjectorRestart
      BY <1>4, ZeroInBounds DEF InjectorRestart, Slots
<1>5. CASE UNCHANGED << slots, count >>
      BY <1>0, <1>5
<1>6. CASE \/ UNCHANGED injectorVars \/ SetMaxWorkers(desired)
           \/ \E k \in Key : (Send(k, "start") \/ Send(k, "complete")) /\ OthersUnchanged
           \/ \E k \in Key : RefuseStart(k) \/ Start(k) \/ StartFails(k) \/ Complete(k)
           \/ AppendRead \/ CompleteCut
      BY <1>5, <1>6 DEF injectorVars, SetMaxWorkers, OthersUnchanged, RefuseStart, Start, StartFails,
                  Complete, AppendRead, CompleteCut, workerVars
<1>7. CASE \E s \in Session : \/ CallbackCut(s) \/ ScriptEnds(s) \/ CallbackFind(s)
                              \/ CallbackStore(s) \/ CallbackName(s)
      BY <1>5, <1>7 DEF CallbackCut, ScriptEnds, CallbackFind, CallbackStore, CallbackName, workerVars
<1> QED BY <1>1, <1>2, <1>3, <1>4, <1>6, <1>7 DEF InjectorStep

(* No step makes the slice longer than there are sessions, or than the     *)
(* largest maximum, and none removes from an empty one.                    *)
LEMMA CountStep == ASSUME TypeOK, CountInv, InjectorStep PROVE CountInv'
<1> USE WorkerAssumption
<1>0. /\ session \in Seq(SessionRecord) /\ Len(session) \in 0 .. MaxSessions
      /\ session' \in Seq(SessionRecord) /\ Len(session') \in 0 .. MaxSessions
      /\ count \in 0 .. MaxSessions /\ currentMaxWorkers \in MinWorkers .. MaxWorkers
      BY SessionsStep DEF TypeOK
<1>1. /\ op \in Ops /\ op.count \in 0 .. MaxSessions
      /\ \A s \in Session : session[s].count \in 0 .. MaxSessions /\ session[s].index \in 0 .. MaxSessions
      BY <1>0, OpFields, SessionFields
<1>14. Room \in Int
      BY <1>0 DEF Room
<1>2. ASSUME NEW k \in Key, Start(k) PROVE CountInv'
  <2>1. count < MaxWorkers /\ op.pc = "idle" /\ count' = count
        BY <1>0, <1>2 DEF Start, StartRefused, Receive, workerVars
  <2>2. /\ Len(session') = Len(session) + 1 /\ op'.pc = "append" /\ op'.count = 0
        /\ \A s \in Session : session'[s] = session[s]
        /\ session'[Len(session')] = NewSession(k)
        BY <1>2, StartLemma
  <2>4. session'[Len(session) + 1].count = 0 /\ session'[Len(session) + 1].pc = "running"
        BY <2>2 DEF NewSession
  <2>3. \A s \in Session' : s \in Session \/ s = Len(session) + 1
        BY <1>0, <2>2 DEF Session
  <2> QED BY <1>0, <1>1, <2>1, <2>2, <2>3, <2>4 DEF CountInv, Fits, Room
<1>3. ASSUME Len(session') = Len(session) PROVE Session' = Session
      BY <1>3 DEF Session
<1> DEFINE OpSteady == op'.pc = op.pc /\ op'.count = op.count /\ op'.index = op.index
<1>4. CASE AppendRead
  <2>1. op.pc = "append" /\ op'.pc = "appendWrite" /\ op'.count = count /\ session' = session /\ count' = count
        BY <1>4, OpStep DEF AppendRead, workerVars, InjectorRestart, IdleOp, CompleteCut, Start, Receive
  <2> QED BY <1>0, <1>1, <1>3, <2>1 DEF CountInv, Fits, Room
<1>5. CASE AppendWrite
  <2>1. op.pc = "appendWrite" /\ op'.pc = "idle" /\ op'.count = 0 /\ session' = session /\ count' = op.count + 1
        BY <1>5, IdleOpType DEF AppendWrite
  <2> QED BY <1>0, <1>1, <1>3, <2>1 DEF CountInv, Fits, Room
<1>6. CASE CompleteCut
  <2>1. op.pc = "cut" /\ op.index <= count /\ op'.pc = "shift" /\ op'.count = count /\ count' = count
        BY <1>6, <1>1, <1>0 DEF CompleteCut, workerVars, Ops, OpPC
  <2>4. Fits(count) /\ op.index > 0
        BY <2>1 DEF CountInv
  <2>2. session' \in [Session -> SessionRecord] /\ \A t \in Session : Steady(t)
        BY <1>0, <1>6, CancelLemma DEF CompleteCut
  <2>3. Len(session') = Len(session)
        BY <1>0, <2>2, SessionFunction
  <2>5. Session' = Session /\ Room' = Room
        BY <1>3, <2>1, <2>3 DEF Room
  <2>6. ASSUME NEW t \in Session
        PROVE  /\ Fits(session[t].count)'
               /\ session'[t].pc = "cut" => session'[t].index > 0
               /\ session'[t].pc = "shift" => session'[t].count > 0
        BY <2>2, <2>5 DEF Steady, CountInv, Fits
  <2>8. op'.count > 0
        BY <1>0, <2>1, <2>4, OpFields
  <2>7. Fits(count)' /\ Fits(op.count)'
        BY <2>1, <2>4, <2>5 DEF Fits
  <2> QED BY <2>1, <2>5, <2>6, <2>7, <2>8 DEF CountInv
<1>7. CASE CompleteShift
  <2>1. op.pc = "shift" /\ op'.pc = "idle" /\ op'.count = 0 /\ session' = session /\ count' = op.count - 1
        BY <1>7, IdleOpType DEF CompleteShift, Shift
  <2> QED BY <1>0, <1>1, <1>3, <2>1 DEF CountInv, Fits, Room
<1>8. ASSUME NEW s \in Session, CallbackCut(s) PROVE CountInv'
  <2>1. op' = op /\ count' = count /\ session[s].pc = "cut" /\ session[s].index <= count
        BY <1>8 DEF CallbackCut, workerVars
  <2>2. /\ session' \in [Session -> SessionRecord] /\ \A t \in Session \ {s} : Steady(t)
        /\ session'[s].pc = "shift" /\ session'[s].count = count
        BY <1>0, <1>8, CutLemma
  <2>3. Len(session') = Len(session)
        BY <1>0, <2>2, SessionFunction
  <2>4. Session' = Session /\ Room' = Room
        BY <1>3, <2>1, <2>3 DEF Room
  <2>5. Fits(count) /\ session[s].index > 0
        BY <2>1 DEF CountInv
  <2>6. ASSUME NEW t \in Session
        PROVE  /\ Fits(session[t].count)'
               /\ session'[t].pc = "cut" => session'[t].index > 0
               /\ session'[t].pc = "shift" => session'[t].count > 0
    <3>1. CASE t = s
          BY <1>0, <1>1, <2>1, <2>2, <2>4, <2>5, <3>1 DEF Fits
    <3>2. CASE t # s
          BY <2>2, <2>4, <3>2 DEF Steady, CountInv, Fits
    <3> QED BY <3>1, <3>2
  <2> QED BY <2>1, <2>4, <2>6 DEF CountInv, Fits
<1>9. ASSUME NEW s \in Session,
             \/ ScriptEnds(s) \/ CallbackFind(s) \/ CallbackShift(s) \/ CallbackStore(s) \/ CallbackName(s)
      PROVE  CountInv'
  <2>1. op' = op
        BY <1>9 DEF ScriptEnds, CallbackFind, CallbackShift, CallbackStore, CallbackName
  <2>2. /\ session' \in [Session -> SessionRecord] /\ \A t \in Session \ {s} : session'[t] = session[t]
        /\ session'[s].count = session[s].count \/ session'[s].count = 0
        /\ session'[s].pc # "shift"
        /\ session'[s].pc = "cut" => CallbackFind(s) /\ hasWorker(session[s].key)
                                     /\ session'[s].index = IndexOf(session[s].key)
        BY <1>0, <1>9, SessionStep
  <2>3. Len(session') = Len(session)
        BY <1>0, <2>2, SessionFunction
  <2>4. hasWorker(session[s].key) => IndexOf(session[s].key) > 0
        BY <1>0, IndexType DEF WorkersOf
  <2>5. count' = count \/ (count' = session[s].count - 1 /\ session[s].count > 0)
        BY <1>9 DEF ScriptEnds, CallbackFind, CallbackShift, CallbackStore, CallbackName, workerVars, Shift, CountInv
  <2>6. Fits(session[s].count) /\ Fits(count) /\ Room' = Room
        BY <1>3, <2>1, <2>3 DEF CountInv, Room
  <2>7. count' <= count \/ (count' < session[s].count)
        BY <1>0, <1>1, <2>5
  <2>8. ASSUME NEW t \in Session
        PROVE  /\ Fits(session[t].count)'
               /\ session'[t].pc = "cut" => session'[t].index > 0
               /\ session'[t].pc = "shift" => session'[t].count > 0
    <3>1. CASE t = s
          BY <1>0, <1>1, <1>14, <2>2, <2>4, <2>6, <3>1 DEF Fits
    <3>2. CASE t # s
          BY <2>2, <2>6, <3>2 DEF CountInv, Fits
    <3> QED BY <3>1, <3>2
  <2>9. Session' = Session
        BY <1>3, <2>3
  <2>10. Fits(count)' /\ (op.pc = "append" => count' < MaxWorkers)
        BY <1>0, <1>1, <1>14, <2>5, <2>6 DEF CountInv, Fits
  <2> QED BY <2>1, <2>6, <2>8, <2>9, <2>10 DEF CountInv, Fits
<1>10. CASE InjectorRestart
  <2>1. op'.pc = "idle" /\ op'.count = 0 /\ count' = 0
        BY <1>10, IdleOpType DEF InjectorRestart
  <2>2. /\ session' \in [Session -> SessionRecord]
        /\ \A s \in Session : session'[s].count = 0 /\ session'[s].pc \in {"past", "dead"}
        BY <1>10, RestartLemma
  <2>3. Len(session') = Len(session)
        BY <1>0, <2>2, SessionFunction
  <2> QED BY <1>0, <1>3, <2>1, <2>2, <2>3 DEF CountInv, Fits, Room
<1>11. ASSUME NEW k \in Key, Complete(k) PROVE CountInv'
  <2>1. session' = session /\ count' = count /\ op.pc = "idle"
        BY <1>11 DEF Complete, workerVars, Receive
  <2>3. ~\E j \in Key : Start(j)
    <3>1. ASSUME NEW j \in Key, Start(j) PROVE FALSE
          BY <1>0, <2>1, <3>1, StartLemma
    <3> QED BY <3>1
  <2>2. op' = op \/ (op'.pc = "cut" /\ op'.index > 0 /\ op'.count = 0) \/ (op'.pc = "idle" /\ op'.count = 0)
        BY <2>1, <2>3, OpStep DEF AppendRead, CompleteCut
  <2> QED BY <1>0, <1>1, <1>3, <2>1, <2>2 DEF CountInv, Fits, Room
<1>12. CASE UNCHANGED << op, session, count >>
      BY <1>12 DEF CountInv, Fits, Room, Session
<1>13. CASE \/ UNCHANGED injectorVars \/ SetMaxWorkers(desired)
            \/ \E k \in Key : (Send(k, "start") \/ Send(k, "complete")) /\ OthersUnchanged
            \/ \E k \in Key : RefuseStart(k) \/ StartFails(k)
      BY <1>12, <1>13 DEF injectorVars, SetMaxWorkers, OthersUnchanged, RefuseStart, StartFails, workerVars
<1> QED BY <1>2, <1>4, <1>5, <1>6, <1>7, <1>8, <1>9, <1>10, <1>11, <1>13 DEF InjectorStep
-----------------------------------------------------------------------------
(* The fields of the reconcile in progress.                                *)
LEMMA RecFields ==
    ASSUME TypeOK
    PROVE  /\ rec \in Recs /\ rec.pc \in RecPC /\ rec.key \in Key \union {"none"}
           /\ rec.mem \in Conditions /\ rec.fresh \in BOOLEAN /\ rec.answer \in Answers
<1>1. rec \in Recs
      BY DEF TypeOK, Recs, RecPC, Answers
<1> QED BY <1>1 DEF Recs

(* No reconcile in progress.                                               *)
LEMMA NoRecType == NoRec \in Recs /\ NoRec.pc = "idle"
BY DEF NoRec, Recs, RecPC, Answers, Conditions, NoConditions

(* getStatus answers "done" only of a completed pod.                       *)
LEMMA StatusType == ASSUME NEW k PROVE Status(k) \in Answers /\ (Status(k) = "done" => completedPods[k] = "TRUE")
BY DEF Status, Answers

(* The conditions that a reconcile changes stay conditions.                *)
LEMMA ConditionsType ==
    ASSUME NEW c \in Conditions
    PROVE  /\ \A v \in {"True", "False"} : /\ [c EXCEPT !.started = v] \in Conditions
                                           /\ [c EXCEPT !.started = v].completed = c.completed
           /\ [c EXCEPT !.started = "True", !.completed = "Error"] \in Conditions
           /\ [c EXCEPT !.started = "True", !.completed = "Error"].completed = "Error"
           /\ \A v \in {"Error", "ConnectionLost"} :
                /\ [c EXCEPT !.completed = "False", !.failed = v] \in Conditions
                /\ [c EXCEPT !.completed = "False", !.failed = v].completed = "False"
           /\ \A v \in {"TooManyWorkers", "InProgress", "True"} :
                /\ [c EXCEPT !.completed = v] \in Conditions
                /\ [c EXCEPT !.completed = v].completed = v
           /\ \A b \in BOOLEAN : /\ [c EXCEPT !.file = b] \in Conditions
                                 /\ [c EXCEPT !.file = b].completed = c.completed
BY DEF Conditions

(* How a step changes the reconcile in progress.                           *)
LEMMA RecStep ==
    ASSUME TypeOK, [Next]_vars
    PROVE  /\ rec' \in Recs
           /\ \/ rec' = rec
              \/ rec'.pc = "idle"
              \/ rec'.pc = rec.pc /\ rec'.key = rec.key /\ rec'.mem = rec.mem /\ ~rec'.fresh
              \/ RequestMaxWorkers /\ rec'.pc = "poll" /\ rec'.key = rec.key /\ rec'.mem = rec.mem
              \/ /\ PollStatus /\ rec'.key = rec.key /\ rec'.mem = rec.mem
                 /\ rec'.pc = IF Status(rec.key) = "done" THEN "fileName" ELSE "act"
              \/ /\ PollLinperfFileName /\ rec'.pc = "complete" /\ rec'.key = rec.key
                 /\ rec'.mem.completed = rec.mem.completed
              \/ \E k \in Key : /\ Connect(k) /\ rec'.pc = "setMax" /\ rec'.key = k
                                /\ rec'.mem.completed = status[k].completed
<1> USE RecFields
<1>1. ASSUME NEW k \in Key, Connect(k)
      PROVE  rec' \in Recs /\ rec'.pc = "setMax" /\ rec'.key = k /\ rec'.mem.completed = status[k].completed
  <2> DEFINE mem == [status[k] EXCEPT !.started = "True"]
  <2>1. rec' = [NoRec EXCEPT !.pc = "setMax", !.key = k, !.mem = mem]
        BY <1>1 DEF Connect
  <2>2. mem \in Conditions /\ mem.completed = status[k].completed
    <3>1. status[k] \in Conditions
          BY DEF TypeOK
    <3> QED BY <3>1 DEF Conditions
  <2> HIDE DEF mem
  <2>3. rec' \in Recs /\ rec'.pc = "setMax" /\ rec'.key = k /\ rec'.mem = mem
        BY <2>1, <2>2, NoRecType DEF Recs, RecPC
  <2> QED BY <2>2, <2>3
<1>2. CASE RequestMaxWorkers
  <2>1. rec' = [rec EXCEPT !.pc = "poll"]
        BY <1>2 DEF RequestMaxWorkers
  <2>2. rec' \in Recs /\ rec'.pc = "poll" /\ rec'.key = rec.key /\ rec'.mem = rec.mem
        BY <2>1 DEF Recs, RecPC
  <2> QED BY <1>2, <2>2
<1>3. CASE PollStatus
  <2> DEFINE pc == IF Status(rec.key) = "done" THEN "fileName" ELSE "act"
  <2>1. rec' = [rec EXCEPT !.pc = pc, !.answer = Status(rec.key)]
        BY <1>3 DEF PollStatus
  <2>2. pc \in RecPC
        BY DEF RecPC
  <2>3. Status(rec.key) \in Answers
        BY StatusType
  <2>4. rec' \in Recs /\ rec'.pc = pc /\ rec'.key = rec.key /\ rec'.mem = rec.mem
        BY <2>1, <2>2, <2>3 DEF Recs
  <2> QED BY <1>3, <2>4
<1>4. CASE PollLinperfFileName
  <2>0. (rec.key \in linperfFileNames) \in BOOLEAN
        OBVIOUS
  <2>1. PICK b \in BOOLEAN : rec' = [rec EXCEPT !.pc = "complete", !.mem.file = b]
        BY <1>4, <2>0, Zenon DEF PollLinperfFileName
  <2> DEFINE mem == [rec.mem EXCEPT !.file = b]
  <2>2. mem \in Conditions /\ mem.completed = rec.mem.completed
        BY DEF Conditions
  <2>3. rec' = [rec EXCEPT !.pc = "complete", !.mem = mem]
        BY <2>1 DEF Recs
  <2> HIDE DEF mem
  <2>4. rec' \in Recs /\ rec'.pc = "complete" /\ rec'.key = rec.key /\ rec'.mem = mem
        BY <2>2, <2>3 DEF Recs, RecPC
  <2> QED BY <1>4, <2>2, <2>4
<1>5. CASE ReportError \/ ReportConnectionLost \/ AwaitCollection \/ ReportCompleted \/ RestartOperator \/ Panic
      BY <1>5, NoRecType DEF ReportError, ReportConnectionLost, AwaitCollection, ReportCompleted,
                             RestartOperator, Panic, Restart
<1>6. ASSUME NEW k \in Key, EditCR(k) \/ DeleteCR(k)
      PROVE  /\ rec' \in Recs
             /\ \/ rec' = rec
                \/ rec'.pc = rec.pc /\ rec'.key = rec.key /\ rec'.mem = rec.mem /\ ~rec'.fresh
  <2>1. rec' = rec \/ rec' = [rec EXCEPT !.fresh = FALSE]
        BY <1>6 DEF EditCR, DeleteCR, Outdate
  <2> QED BY <2>1 DEF Recs
<1>7. CASE \E k \in Key : \/ NotFound(k) \/ Finalize(k) \/ AlreadyCompleted(k) \/ PodNotFound(k)
                          \/ PodNotRunning(k) \/ RetryFinalizer(k) \/ ConnectFails(k)
      BY <1>7 DEF NotFound, Finalize, AlreadyCompleted, PodNotFound, PodNotRunning, RetryFinalizer, ConnectFails
<1>8. CASE \/ (Process \/ \E s \in Session : (ScriptEnds(s) \/ Callback(s))) /\ ControllerUnchanged
           \/ \E k \in Key : StartFails(k) /\ Fault /\ UNCHANGED << crVars, rec >>
           \/ \E k \in Key : ChangePod(k)
           \/ EditConfigMap \/ UNCHANGED vars
      BY <1>8 DEF ControllerUnchanged, ChangePod, EditConfigMap, vars
<1> QED BY <1>1, <1>2, <1>3, <1>4, <1>5, <1>6, <1>7, <1>8 DEF Next, Begin, Continue

(* How it changes the statuses.                                            *)
LEMMA StatusStep ==
    ASSUME TypeOK, RecInv, [Next]_vars
    PROVE  /\ status' \in [Key -> Conditions]
           /\ \/ status' = status
              \/ \E k \in Key : /\ status[k].completed # "True"
                                /\ \A j \in Key \ {k} : status'[j] = status[j]
                                /\ \/ rec.pc = "idle" /\ status'[k].completed \in {status[k].completed, "Error"}
                                   \/ /\ rec.pc \in {"act", "complete"} /\ rec.key = k /\ rec'.pc = "idle"
                                      /\ status'[k].completed = "True" => rec.pc = "complete"
<1> USE RecFields
<1>0. status \in [Key -> Conditions]
      BY DEF TypeOK
<1>1. ASSUME NEW k \in Key, PodNotFound(k) \/ PodNotRunning(k) \/ ConnectFails(k) \/ Connect(k), status' # status
      PROVE  /\ rec.pc = "idle" /\ status[k].completed # "True"
             /\ \E c \in Conditions : /\ status' = [status EXCEPT ![k] = c]
                                      /\ c.completed \in {status[k].completed, "Error"}
  <2>1. rec.pc = "idle" /\ status[k].completed # "True"
        BY <1>1 DEF PodNotFound, PodNotRunning, ConnectFails, Connect, Collecting, Take
  <2>2. \/ status' = [status EXCEPT ![k] = [status[k] EXCEPT !.started = "True", !.completed = "Error"]]
        \/ \E v \in {"True", "False"} : status' = [status EXCEPT ![k] = [status[k] EXCEPT !.started = v]]
    <3>1. CASE PodNotFound(k)
          BY <1>1, <3>1 DEF PodNotFound, UpdateStatus
    <3>2. CASE PodNotRunning(k)
          BY <1>1, <3>2 DEF PodNotRunning, UpdateStatus
    <3>3. CASE Connect(k)
          BY <1>1, <3>3 DEF Connect, UpdateStatus
    <3>4. CASE ConnectFails(k)
          BY <1>0, <1>1, <3>4 DEF ConnectFails
    <3> QED BY <1>1, <3>1, <3>2, <3>3, <3>4
  <2>3. status[k] \in Conditions
        BY <1>0
  <2>4. \E c \in Conditions : /\ status' = [status EXCEPT ![k] = c]
                              /\ c.completed \in {status[k].completed, "Error"}
    <3>1. CASE status' = [status EXCEPT ![k] = [status[k] EXCEPT !.started = "True", !.completed = "Error"]]
      <4> DEFINE c == [status[k] EXCEPT !.started = "True", !.completed = "Error"]
      <4>1. c \in Conditions /\ c.completed = "Error"
            BY <2>3 DEF Conditions
      <4> HIDE DEF c
      <4> QED BY <3>1, <4>1 DEF c
    <3>2. ASSUME NEW v \in {"True", "False"}, status' = [status EXCEPT ![k] = [status[k] EXCEPT !.started = v]]
          PROVE  \E c \in Conditions : /\ status' = [status EXCEPT ![k] = c]
                                       /\ c.completed \in {status[k].completed, "Error"}
      <4> DEFINE c == [status[k] EXCEPT !.started = v]
      <4>1. c \in Conditions /\ c.completed = status[k].completed
            BY <2>3 DEF Conditions
      <4> QED BY <3>2, <4>1
    <3> QED BY <2>2, <3>1, <3>2
  <2> QED BY <2>1, <2>4
<1>2. ASSUME ReportError \/ ReportConnectionLost \/ AwaitCollection \/ ReportCompleted, status' # status
      PROVE  /\ rec.pc \in {"act", "complete"} /\ rec.key \in Key /\ rec' = NoRec
             /\ status[rec.key].completed # "True"
             /\ \E c \in Conditions : /\ status' = [status EXCEPT ![rec.key] = c]
                                      /\ c.completed = "True" => rec.pc = "complete"
  <2>1. rec.pc \in {"act", "complete"} /\ rec' = NoRec
        BY <1>2 DEF ReportError, ReportConnectionLost, AwaitCollection, ReportCompleted
  <2>2. rec.key \in Key /\ status[rec.key].completed # "True"
        BY <2>1 DEF RecInv
  <2>3. \/ \E v \in {"Error", "ConnectionLost"} :
             status' = [status EXCEPT ![rec.key] = [rec.mem EXCEPT !.completed = "False", !.failed = v]]
        \/ \E v \in {"TooManyWorkers", "InProgress"} :
             status' = [status EXCEPT ![rec.key] = [rec.mem EXCEPT !.completed = v]]
        \/ rec.pc = "complete" /\ status' = [status EXCEPT ![rec.key] = [rec.mem EXCEPT !.completed = "True"]]
    <3>1. CASE ReportError
          BY <1>2, <3>1 DEF ReportError, UpdateStatus
    <3>2. CASE ReportConnectionLost
          BY <1>2, <3>2 DEF ReportConnectionLost, UpdateStatus
    <3>3. CASE AwaitCollection
          BY <1>2, <3>3 DEF AwaitCollection, UpdateStatus
    <3>4. CASE ReportCompleted
          BY <1>2, <3>4 DEF ReportCompleted
    <3> QED BY <1>2, <3>1, <3>2, <3>3, <3>4
  <2>4. \E c \in Conditions : /\ status' = [status EXCEPT ![rec.key] = c]
                              /\ c.completed = "True" => rec.pc = "complete"
    <3> DEFINE Goal == \E c \in Conditions :
                         /\ status' = [status EXCEPT ![rec.key] = c]
                         /\ c.completed = "True" => rec.pc = "complete"
    <3>1. ASSUME NEW v \in {"Error", "ConnectionLost"},
                 status' = [status EXCEPT ![rec.key] = [rec.mem EXCEPT !.completed = "False", !.failed = v]]
          PROVE  Goal
      <4> DEFINE c == [rec.mem EXCEPT !.completed = "False", !.failed = v]
      <4>1. c \in Conditions /\ c.completed = "False"
            BY DEF Conditions
      <4> QED BY <3>1, <4>1
    <3>2. ASSUME NEW v \in {"TooManyWorkers", "InProgress"},
                 status' = [status EXCEPT ![rec.key] = [rec.mem EXCEPT !.completed = v]]
          PROVE  Goal
      <4> DEFINE c == [rec.mem EXCEPT !.completed = v]
      <4>1. c \in Conditions /\ c.completed = v
            BY DEF Conditions
      <4> QED BY <3>2, <4>1
    <3>3. ASSUME rec.pc = "complete", status' = [status EXCEPT ![rec.key] = [rec.mem EXCEPT !.completed = "True"]]
          PROVE  Goal
      <4> DEFINE c == [rec.mem EXCEPT !.completed = "True"]
      <4>1. c \in Conditions
            BY DEF Conditions
      <4> QED BY <3>3, <4>1
    <3> HIDE DEF Goal
    <3>4. Goal
          BY <2>3, <3>1, <3>2, <3>3
    <3> QED BY <3>4 DEF Goal
  <2> QED BY <2>1, <2>2, <2>4
<1>3. CASE \E k \in Key : PodNotFound(k) \/ PodNotRunning(k) \/ ConnectFails(k) \/ Connect(k)
      BY <1>0, <1>1, <1>3
<1>4. CASE ReportError \/ ReportConnectionLost \/ AwaitCollection \/ ReportCompleted
      BY <1>0, <1>2, <1>4, NoRecType
<1>5. CASE \E k \in Key : NotFound(k) \/ Finalize(k) \/ AlreadyCompleted(k) \/ RetryFinalizer(k)
      BY <1>0, <1>5 DEF NotFound, Finalize, AlreadyCompleted, RetryFinalizer, crVars
<1>6. CASE RequestMaxWorkers \/ PollStatus \/ PollLinperfFileName
      BY <1>0, <1>6 DEF RequestMaxWorkers, PollStatus, PollLinperfFileName, crVars
<1>7. CASE \/ (Process \/ \E s \in Session : (ScriptEnds(s) \/ Callback(s))) /\ ControllerUnchanged
           \/ \E k \in Key : StartFails(k) /\ Fault /\ UNCHANGED << crVars, rec >>
           \/ \E k \in Key : EditCR(k) \/ DeleteCR(k) \/ ChangePod(k)
           \/ EditConfigMap \/ RestartOperator \/ Panic \/ UNCHANGED vars
      BY <1>0, <1>7 DEF ControllerUnchanged, crVars, EditCR, DeleteCR, ChangePod, EditConfigMap,
                        RestartOperator, Panic, Restart, vars
<1> QED BY <1>3, <1>4, <1>5, <1>6, <1>7 DEF Next, Begin, Continue

(* A reconcile that collects stays one of a resource that is not           *)
(* completed.                                                              *)
LEMMA RecInvStep == ASSUME TypeOK, RecInv, [Next]_vars PROVE RecInv'
<1>1. CASE rec'.pc = "idle"
      BY <1>1 DEF RecInv
<1>2. CASE \E k \in Key : Connect(k) /\ rec'.key = k /\ rec'.mem.completed = status[k].completed
  <2>1. PICK k \in Key : Connect(k) /\ rec'.key = k /\ rec'.mem.completed = status[k].completed
        BY <1>2
  <2>2. rec.pc = "idle" /\ status[k].completed # "True"
        BY <2>1 DEF Connect, Collecting, Take
  <2>3. status'[k].completed # "True"
        BY <2>2, StatusStep
  <2> QED BY <2>1, <2>2, <2>3 DEF RecInv
<1>3. CASE rec'.pc # "idle" /\ rec'.key = rec.key /\ rec'.mem.completed = rec.mem.completed /\ rec.pc # "idle"
  <2>1. status'[rec.key].completed # "True"
        BY <1>3, StatusStep DEF RecInv
  <2> QED BY <1>3, <2>1 DEF RecInv
<1>4. RequestMaxWorkers \/ PollStatus \/ PollLinperfFileName => rec.pc # "idle"
      BY DEF RequestMaxWorkers, PollStatus, PollLinperfFileName
<1> QED BY <1>1, <1>2, <1>3, <1>4, RecStep
-----------------------------------------------------------------------------
(* The requests sent and not yet received, counted.                        *)
Requests == [start : Nat, complete : Nat]

(* Counting them keeps the counts natural numbers.                         *)
LEMMA PendingStep == ASSUME TypeOK, InjectorStep PROVE pending' \in [Key -> Requests]
<1>0. pending \in [Key -> Requests]
      BY DEF TypeOK, Requests
<1>1. ASSUME NEW k \in Key, NEW n \in Nat,
             pending' = [pending EXCEPT ![k]["start"] = n] \/ pending' = [pending EXCEPT ![k]["complete"] = n]
      PROVE  pending' \in [Key -> Requests]
  <2>1. pending[k] \in Requests
        BY <1>0
  <2>2. [pending[k] EXCEPT !["start"] = n] \in Requests /\ [pending[k] EXCEPT !["complete"] = n] \in Requests
        BY <2>1 DEF Requests
  <2> QED BY <1>0, <1>1, <2>2
<1>2. \A k \in Key : pending[k]["start"] \in Nat /\ pending[k]["complete"] \in Nat
      BY <1>0 DEF Requests
<1>3. ASSUME NEW k \in Key, Send(k, "start") \/ Send(k, "complete")
      PROVE  pending' \in [Key -> Requests]
      BY <1>1, <1>2, <1>3 DEF Send
<1>4. ASSUME NEW k \in Key, Receive(k, "start") \/ Receive(k, "complete")
      PROVE  pending' \in [Key -> Requests]
  <2>1. CASE Receive(k, "start")
    <3>1. pending[k]["start"] - 1 \in Nat
          BY <1>2, <2>1 DEF Receive
    <3> QED BY <1>1, <2>1, <3>1 DEF Receive
  <2>2. CASE Receive(k, "complete")
    <3>1. pending[k]["complete"] - 1 \in Nat
          BY <1>2, <2>2 DEF Receive
    <3> QED BY <1>1, <2>2, <3>1 DEF Receive
  <2> QED BY <1>4, <2>1, <2>2
<1>5. CASE \E k \in Key : (Send(k, "start") \/ Send(k, "complete")) /\ OthersUnchanged
      BY <1>3, <1>5
<1>6. CASE \E k \in Key : RefuseStart(k) \/ Start(k) \/ StartFails(k) \/ Complete(k)
      BY <1>4, <1>6 DEF RefuseStart, Start, StartFails, Complete
<1>7. CASE InjectorRestart
      BY <1>7 DEF InjectorRestart, Requests
<1>8. CASE \/ UNCHANGED injectorVars \/ SetMaxWorkers(desired)
           \/ AppendRead \/ AppendWrite \/ CompleteCut \/ CompleteShift
           \/ \E s \in Session : \/ CallbackCut(s) \/ ScriptEnds(s) \/ CallbackFind(s)
                                 \/ CallbackShift(s) \/ CallbackStore(s) \/ CallbackName(s)
      BY <1>0, <1>8 DEF injectorVars, SetMaxWorkers, AppendRead, AppendWrite, CompleteCut, CompleteShift,
                  CallbackCut, ScriptEnds, CallbackFind, CallbackShift, CallbackStore, CallbackName
<1> QED BY <1>5, <1>6, <1>7, <1>8 DEF InjectorStep

(* The maximum stays in the range that processAction accepts.              *)
LEMMA MaxWorkersStep ==
    ASSUME TypeOK, CountInv, InjectorStep PROVE currentMaxWorkers' \in MinWorkers .. MaxWorkers
<1> USE WorkerAssumption
<1>0. count \in Nat /\ currentMaxWorkers \in MinWorkers .. MaxWorkers /\ desired \in Nat
      BY PerformanceDataAssumption DEF TypeOK
<1>1. CASE SetMaxWorkers(desired)
  <2>1. count <= MaxWorkers
        BY DEF CountInv, Fits
  <2> QED BY <1>0, <1>1, <2>1 DEF SetMaxWorkers
<1>2. CASE InjectorRestart
  <2>1. currentMaxWorkers' = DefaultMax
        BY <1>2 DEF InjectorRestart
  <2> QED BY <2>1
<1>3. CASE currentMaxWorkers' = currentMaxWorkers
      BY <1>0, <1>3
<1>4. CASE \/ UNCHANGED injectorVars
           \/ \E k \in Key : (Send(k, "start") \/ Send(k, "complete")) /\ OthersUnchanged
           \/ \E k \in Key : RefuseStart(k) \/ Start(k) \/ StartFails(k) \/ Complete(k)
           \/ AppendRead \/ AppendWrite \/ CompleteCut \/ CompleteShift
           \/ \E s \in Session : \/ CallbackCut(s) \/ ScriptEnds(s) \/ CallbackFind(s)
                                 \/ CallbackShift(s) \/ CallbackStore(s) \/ CallbackName(s)
      BY <1>3, <1>4 DEF injectorVars, OthersUnchanged, RefuseStart, Start, StartFails, Complete, AppendRead,
                  AppendWrite, CompleteCut, CompleteShift, CallbackCut, ScriptEnds, CallbackFind,
                  CallbackShift, CallbackStore, CallbackName
<1> QED BY <1>1, <1>2, <1>4 DEF InjectorStep

(* What the injector remembers of the pods.                                *)
LEMMA MapsStep ==
    ASSUME TypeOK, InjectorStep
    PROVE  /\ completedPods' \in [Key -> {"absent", "FALSE", "TRUE"}]
           /\ erroringPods' \subseteq Key /\ linperfFileNames' \subseteq Key
           /\ \A k \in Key : completedPods'[k] = "TRUE" =>
                 \/ completedPods[k] = "TRUE"
                 \/ \E s \in Session : CallbackStore(s) /\ session[s].ok /\ session[s].key = k
<1>0. /\ completedPods \in [Key -> {"absent", "FALSE", "TRUE"}]
      /\ erroringPods \subseteq Key /\ linperfFileNames \subseteq Key
      /\ \A s \in Session : session[s].key \in Key
      BY SessionFields DEF TypeOK
<1>1. CASE \E s \in Session : CallbackStore(s)
      BY <1>0, <1>1 DEF CallbackStore
<1>2. CASE \E s \in Session : CallbackName(s)
      BY <1>0, <1>2 DEF CallbackName
<1>3. CASE \E k \in Key : Start(k) \/ StartFails(k) \/ Complete(k)
      BY <1>0, <1>3 DEF Start, StartFails, Complete, ForgetPod, mapVars
<1>4. CASE CompleteShift
      BY <1>0, <1>4 DEF CompleteShift, ForgetPod
<1>5. CASE InjectorRestart
      BY <1>0, <1>5 DEF InjectorRestart
<1>6. CASE UNCHANGED mapVars
      BY <1>0, <1>6 DEF mapVars
<1>7. CASE \/ UNCHANGED injectorVars \/ SetMaxWorkers(desired)
           \/ \E k \in Key : (Send(k, "start") \/ Send(k, "complete")) /\ OthersUnchanged
           \/ \E k \in Key : RefuseStart(k)
           \/ AppendRead \/ AppendWrite \/ CompleteCut
           \/ \E s \in Session : CallbackCut(s) \/ ScriptEnds(s) \/ CallbackFind(s) \/ CallbackShift(s)
      BY <1>6, <1>7 DEF injectorVars, mapVars, OthersUnchanged, SetMaxWorkers, RefuseStart, AppendRead,
                  AppendWrite, CompleteCut, CallbackCut, ScriptEnds, CallbackFind, CallbackShift
<1> QED BY <1>1, <1>2, <1>3, <1>4, <1>5, <1>7 DEF InjectorStep

(* Resources, pods and counters.                                           *)
LEMMA WorldStep ==
    ASSUME TypeOK, RecInv, [Next]_vars
    PROVE  /\ life' \in [Key -> {"new", "live", "deleting", "gone"}]
           /\ pod' \in [Key -> PodPhases]
           /\ queue' \subseteq Key
           /\ desired' \in DesiredWorkers
           /\ edits' \in 0 .. MaxUserEdits
           /\ faults' \in 0 .. MaxFaults
<1> DEFINE Counters == /\ edits' = edits \/ (edits < MaxUserEdits /\ edits' = edits + 1)
                       /\ faults' = faults \/ (faults < MaxFaults /\ faults' = faults + 1)
           World == /\ life' \in [Key -> {"new", "live", "deleting", "gone"}]
                    /\ pod' \in [Key -> PodPhases]
                    /\ queue' \subseteq Key
                    /\ desired' \in DesiredWorkers
<1>0. /\ life \in [Key -> {"new", "live", "deleting", "gone"}] /\ pod \in [Key -> PodPhases]
      /\ queue \subseteq Key /\ desired \in DesiredWorkers
      BY DEF TypeOK
<1>1. Counters /\ World
  <2> USE <1>0 DEF Fault, Requeue, Forget, crVars
  <2>1. CASE \E k \in Key : NotFound(k) \/ Finalize(k) \/ AlreadyCompleted(k) \/ RetryFinalizer(k) \/ ConnectFails(k)
        BY <2>1 DEF NotFound, Finalize, AlreadyCompleted, RetryFinalizer, ConnectFails
  <2>2. CASE \E k \in Key : PodNotFound(k) \/ PodNotRunning(k) \/ Connect(k)
        BY <2>2 DEF PodNotFound, PodNotRunning, Connect, UpdateStatus
  <2>3. CASE RequestMaxWorkers \/ PollStatus \/ PollLinperfFileName
        BY <2>3 DEF RequestMaxWorkers, PollStatus, PollLinperfFileName
  <2>4. CASE ReportError \/ ReportConnectionLost \/ ReportCompleted
        BY <2>4 DEF ReportError, ReportConnectionLost, ReportCompleted, UpdateStatus
  <2>5. CASE AwaitCollection
        BY <2>5 DEF AwaitCollection, UpdateStatus, RecInv
  <2>6. CASE \/ (Process \/ \E s \in Session : (ScriptEnds(s) \/ Callback(s))) /\ ControllerUnchanged
             \/ \E k \in Key : StartFails(k) /\ Fault /\ UNCHANGED << crVars, rec >>
             \/ UNCHANGED vars
        BY <2>6 DEF ControllerUnchanged, vars
  <2>7. CASE \/ \E k \in Key : EditCR(k) \/ DeleteCR(k) \/ ChangePod(k)
             \/ EditConfigMap
        BY <2>7 DEF EditCR, DeleteCR, ChangePod, EditConfigMap, UserEdit
  <2>8. CASE RestartOperator \/ Panic
        BY <2>8 DEF RestartOperator, Panic, Restart
  <2> QED BY <2>1, <2>2, <2>3, <2>4, <2>5, <2>6, <2>7, <2>8 DEF Next, Begin, Continue
<1>2. edits \in 0 .. MaxUserEdits /\ faults \in 0 .. MaxFaults
      BY DEF TypeOK
<1> QED BY <1>1, <1>2, PerformanceDataAssumption

(* Every step keeps the types.                                             *)
LEMMA TypeStep == ASSUME TypeOK, CountInv, RecInv, [Next]_vars PROVE TypeOK'
<1>1. InjectorStep
      BY InjectorLemma
<1>2. count' \in 0 .. MaxSessions
  <2>1. CountInv' /\ Len(session') \in 0 .. MaxSessions /\ session \in Seq(SessionRecord)
        BY <1>1, CountStep, SessionsStep DEF TypeOK
  <2>2. count' \in Int
    <3>1. count \in Nat /\ op.count \in Nat /\ \A s \in Session : session[s].count \in Nat
          BY <2>1, OpFields, SessionFields, WorkerAssumption DEF TypeOK
    <3> QED BY <1>1, <3>1, SliceStep
  <2>3. count' >= 0
    <3>1. count \in Nat /\ op.count \in Nat /\ \A s \in Session : session[s].count \in Nat
          BY <2>1, OpFields, SessionFields, WorkerAssumption DEF TypeOK
    <3> QED BY <1>1, <3>1, SliceStep
  <2>4. count' <= Room' /\ Room' <= Len(session')
        BY <2>1 DEF CountInv, Fits, Room
  <2>5. Room' \in Int
        BY <2>1 DEF Room
  <2> QED BY <2>1, <2>2, <2>3, <2>4, <2>5, WorkerAssumption
<1>3. pending' \in [Key -> [start : Nat, complete : Nat]]
      BY <1>1, PendingStep DEF Requests
<1>4. op' \in Ops /\ rec' \in Recs
      BY <1>1, OpStep, RecStep
<1>5. session' \in Seq(SessionRecord) /\ Len(session') <= MaxSessions
      BY <1>1, SessionsStep, WorkerAssumption
<1>6. slots' \in Slots /\ currentMaxWorkers' \in MinWorkers .. MaxWorkers
      BY <1>1, SliceStep, MaxWorkersStep
<1> QED BY <1>1, <1>2, <1>3, <1>4, <1>5, <1>6, MapsStep, StatusStep, WorldStep
        DEF TypeOK, Ops, OpPC, Recs, RecPC, Answers
-----------------------------------------------------------------------------
(* A script that is running has no outcome yet; what the injector, the     *)
(* reconcile in progress and the status say is completed was collected.    *)
CollectedInv ==
    /\ \A s \in Session : session[s].pc = "running" => ~session[s].ok
    /\ \A k \in Key : completedPods[k] = "TRUE" => Collected(k)
    /\ rec.pc \in {"fileName", "complete"} => Collected(rec.key)
    /\ CompletedMeansCollected

(* Outcomes are never taken back.                                          *)
LEMMA OutcomeStep ==
    ASSUME TypeOK, InjectorStep, \A s \in Session : session[s].pc = "running" => ~session[s].ok
    PROVE  /\ \A s \in Session : /\ s \in Session' /\ session'[s].key = session[s].key
                                 /\ session[s].ok => session'[s].ok
           /\ \A s \in Session' : session'[s].pc = "running" => ~session'[s].ok
<1> DEFINE Old == \A s \in Session : /\ session'[s].key = session[s].key
                                     /\ session[s].ok => session'[s].ok
                                     /\ session'[s].pc = "running" => ~session'[s].ok
<1>0. /\ session \in Seq(SessionRecord) /\ count \in 0 .. MaxSessions
      /\ Len(session) \in Nat /\ Len(session') \in Nat
      BY SessionsStep, WorkerAssumption DEF TypeOK
<1>1. CASE \E k \in Key : Start(k)
  <2>1. PICK k \in Key : Start(k)
        BY <1>1
  <2>2. /\ Len(session') = Len(session) + 1 /\ \A s \in Session : session'[s] = session[s]
        /\ session'[Len(session')] = NewSession(k)
        BY <2>1, StartLemma
  <2>3. ~NewSession(k).ok
        BY DEF NewSession
  <2>4. \A s \in Session' : s \in Session \/ s = Len(session')
        BY <1>0, <2>2 DEF Session
  <2>5. \A s \in Session : s \in Session'
        BY <1>0, <2>2 DEF Session
  <2> QED BY <2>2, <2>3, <2>4, <2>5
<1>2. CASE ~\E k \in Key : Start(k)
  <2>1. Session' = Session
        BY <1>2, SessionsStep DEF Session
  <2>2. Old
    <3>1. ASSUME NEW s \in Session,
                 \/ ScriptEnds(s) \/ CallbackFind(s) \/ CallbackShift(s) \/ CallbackStore(s) \/ CallbackName(s)
          PROVE  Old
      <4>1. /\ \A t \in Session \ {s} : session'[t] = session[t]
            /\ session'[s].key = session[s].key
            /\ session'[s].ok = session[s].ok \/ ScriptEnds(s)
            /\ session'[s].pc # "running"
            BY <1>0, <3>1, SessionStep
      <4>2. ScriptEnds(s) => ~session[s].ok
            BY DEF ScriptEnds
      <4> QED BY <4>1, <4>2
    <3>2. ASSUME NEW s \in Session, CallbackCut(s) PROVE Old
      <4>1. /\ \A t \in Session \ {s} : Steady(t)
            /\ session'[s].key = session[s].key /\ session'[s].pc = "shift" /\ session'[s].ok = session[s].ok
            BY <1>0, <3>2, CutLemma
      <4> QED BY <4>1 DEF Steady
    <3>3. CASE CompleteCut
      <4>1. \A t \in Session : Steady(t)
            BY <1>0, <3>3, CancelLemma DEF CompleteCut
      <4> QED BY <4>1 DEF Steady
    <3>4. CASE InjectorRestart
          BY <3>4, RestartLemma
    <3>5. CASE session' = session
          BY <3>5
    <3>6. CASE \/ UNCHANGED injectorVars \/ SetMaxWorkers(desired)
               \/ \E k \in Key : (Send(k, "start") \/ Send(k, "complete")) /\ OthersUnchanged
               \/ \E k \in Key : RefuseStart(k) \/ StartFails(k) \/ Complete(k)
               \/ AppendRead \/ AppendWrite \/ CompleteShift
          BY <3>5, <3>6 DEF injectorVars, SetMaxWorkers, OthersUnchanged, RefuseStart, StartFails, Complete,
                      AppendRead, AppendWrite, CompleteShift
    <3> HIDE DEF Old
    <3> QED BY <1>2, <3>1, <3>2, <3>3, <3>4, <3>6 DEF InjectorStep
  <2> QED BY <2>1, <2>2
<1> QED BY <1>1, <1>2

(* No step reports a completion that was not collected.                    *)
LEMMA CollectedStep == ASSUME TypeOK, RecInv, CollectedInv, [Next]_vars PROVE CollectedInv'
<1>0. InjectorStep
      BY InjectorLemma
<1>1. /\ \A s \in Session : /\ s \in Session' /\ session'[s].key = session[s].key
                            /\ session[s].ok => session'[s].ok
      /\ \A s \in Session' : session'[s].pc = "running" => ~session'[s].ok
      BY <1>0, OutcomeStep DEF CollectedInv
<1>2. \A k : Collected(k) => Collected(k)'
      BY <1>1 DEF Collected
<1>3. \A k \in Key : completedPods'[k] = "TRUE" => Collected(k)
      BY <1>0, MapsStep DEF CollectedInv, Collected
<1>4. rec'.pc \in {"fileName", "complete"} => Collected(rec'.key)
  <2>1. CASE PollStatus /\ rec'.key = rec.key /\ rec'.pc = IF Status(rec.key) = "done" THEN "fileName" ELSE "act"
    <3>1. rec.key \in Key
          BY <2>1 DEF PollStatus, RecInv
    <3> QED BY <2>1, <3>1, StatusType DEF CollectedInv
  <2>2. CASE PollLinperfFileName /\ rec'.key = rec.key
        BY <2>2 DEF PollLinperfFileName, CollectedInv
  <2> QED BY <2>1, <2>2, RecStep DEF CollectedInv
<1>5. \A k \in Key : status'[k].completed = "True" => Collected(k)
      BY StatusStep DEF CollectedInv, CompletedMeansCollected
<1>6. CompletedMeansCollected'
      BY <1>2, <1>5 DEF CompletedMeansCollected
<1>7. rec'.pc \in {"fileName", "complete"} => Collected(rec.key)'
      BY <1>2, <1>4 DEF Collected
<1> QED BY <1>1, <1>2, <1>3, <1>6, <1>7 DEF CollectedInv

-----------------------------------------------------------------------------
(* One worker.                                                             *)
Undisturbed == edits = 0 /\ faults = 0

(* What RequestMaxWorkers makes of the maximum.                            *)
Maximum == IF desired \in MinWorkers .. MaxWorkers THEN desired ELSE DefaultMax

(* No start has been requested since the operator was started.             *)
NothingAsked ==
    /\ currentMaxWorkers = DefaultMax
    /\ \A k \in Key : pending[k].start = 0
    /\ op.pc = "idle" /\ count = 0 /\ rec.pc \in {"idle", "setMax"}
    /\ \A s \in Session : session[s].pc \in {"over", "past", "dead"}

MaximumInv == Undisturbed => currentMaxWorkers = Maximum \/ NothingAsked

Appending == op.pc \in {"append", "appendWrite"}
Busy(k) == rec.pc # "idle" /\ rec.key = k
Asked(k) == pending[k].start > 0 \/ \E s \in Session : session[s].key = k
Over(k) == /\ \E s \in Session : session[s].key = k
           /\ ~hasWorker(k)
           /\ Appending => op.key # k

(* A collection that was asked for is reconciled only as one that runs, so *)
(* it is not asked for again.                                              *)
ReconcileInv ==
    /\ \A k \in Key : /\ life[k] \in {"new", "live"}
                      /\ k \in queue => ~Busy(k) /\ status[k].failed = "none"
                      /\ Asked(k) => /\ pod[k] = "running"
                                     /\ k \in queue => isPerformanceDataRunning(status[k])
                                     /\ Busy(k) => isPerformanceDataRunning(rec.mem)
    /\ rec.pc # "idle" => /\ rec.fresh /\ pod[rec.key] = "running"
                          /\ rec.mem.started = "True" /\ rec.mem.failed = "none"

(* There is one script of a resource.                                      *)
OneScriptInv ==
    /\ \A k \in Key : /\ pending[k].start <= 1
                      /\ pending[k].start = 1 => \A s \in Session : session[s].key # k
    /\ \A s, t \in Session : session[s].key = session[t].key => s = t

(* One script is a worker or about to become one, and only that one        *)
(* changes the slice.                                                      *)
OneWorkerInv ==
    /\ count = 0 \/ (count = 1 /\ slots[1] \in Session /\ op.pc = "idle")
    /\ op.pc \in {"idle", "append", "appendWrite"} /\ op.count = 0
    /\ Appending => op.session \in Session /\ session[op.session].key = op.key
    /\ \A s \in Session :
          /\ session[s].pc = "running" => (Appending /\ op.session = s) \/ (count = 1 /\ slots[1] = s)
          /\ session[s].pc \in {"cut", "shift"} => count = 1 /\ slots[1] = s /\ session[s].index = 1
          /\ session[s].pc = "shift" => session[s].count = 1

(* A collection is reported complete only once its script is not a worker  *)
(* any more.                                                               *)
OverInv ==
    /\ rec.pc \in {"fileName", "complete"} => Over(rec.key)
    /\ \A k \in Key : pending[k].complete > 0 => Over(k)

OneInv == Undisturbed /\ Maximum = 1 => ReconcileInv /\ OneScriptInv /\ OneWorkerInv /\ OverInv

(* The states nobody has disturbed, in which no collection is asked for    *)
(* twice, whatever the maximum.                                            *)
CalmState == TypeOK /\ CountInv /\ RecInv /\ CollectedInv /\ Undisturbed /\ ReconcileInv /\ OneScriptInv

(* Steps in which nobody edits anything and nothing fails.                 *)
QuietNext ==
    \/ \E k \in Key : \/ NotFound(k) \/ Finalize(k) \/ AlreadyCompleted(k) \/ PodNotFound(k)
                      \/ PodNotRunning(k) \/ Connect(k)
    \/ Continue
    \/ Process /\ ControllerUnchanged
    \/ \E s \in Session : (ScriptEnds(s) \/ Callback(s)) /\ ControllerUnchanged
    \/ Panic
    \/ UNCHANGED vars

(* As long as nobody has edited anything and nothing has failed, every     *)
(* step is such a step.                                                    *)
LEMMA QuietLemma ==
    ASSUME TypeOK, [Next]_vars, Undisturbed'
    PROVE  Undisturbed /\ QuietNext /\ UNCHANGED << desired, pod, edits, faults >>
<1>0. edits \in Nat /\ faults \in Nat /\ edits' = 0 /\ faults' = 0
      BY PerformanceDataAssumption DEF TypeOK, Undisturbed
<1>1. ~Fault
      BY <1>0 DEF Fault
<1>2. ~UserEdit
      BY <1>0 DEF UserEdit
<1> USE <1>0, <1>1 DEF Undisturbed, QuietNext, crVars
<1>3. CASE \E k \in Key : RetryFinalizer(k) \/ ConnectFails(k) \/ (StartFails(k) /\ Fault)
      BY <1>3 DEF RetryFinalizer, ConnectFails
<1>4. CASE (\E k \in Key : EditCR(k) \/ DeleteCR(k) \/ ChangePod(k)) \/ EditConfigMap
      BY <1>2, <1>4 DEF EditCR, DeleteCR, ChangePod, EditConfigMap
<1>5. CASE RestartOperator
      BY <1>5 DEF RestartOperator
<1>6. CASE \E k \in Key : NotFound(k) \/ Finalize(k) \/ AlreadyCompleted(k)
      BY <1>6 DEF NotFound, Finalize, AlreadyCompleted
<1>7. CASE \E k \in Key : PodNotFound(k) \/ PodNotRunning(k) \/ Connect(k)
      BY <1>7 DEF PodNotFound, PodNotRunning, Connect, UpdateStatus
<1>8. CASE Continue
      BY <1>8 DEF Continue, RequestMaxWorkers, PollStatus, ReportError, ReportConnectionLost,
                  AwaitCollection, PollLinperfFileName, ReportCompleted, UpdateStatus
<1>9. CASE \/ Process /\ ControllerUnchanged
           \/ \E s \in Session : (ScriptEnds(s) \/ Callback(s)) /\ ControllerUnchanged
      BY <1>9 DEF ControllerUnchanged
<1>10. CASE Panic \/ UNCHANGED vars
      BY <1>10 DEF Panic, Restart, vars
<1> QED BY <1>3, <1>4, <1>5, <1>6, <1>7, <1>8, <1>9, <1>10 DEF Next, Begin

(* Nobody's maximum but the one configured is in force once a start can be *)
(* requested.                                                              *)
LEMMA MaximumStep == ASSUME TypeOK, RecInv, CountInv, MaximumInv, [Next]_vars PROVE MaximumInv'
<1> SUFFICES ASSUME Undisturbed' PROVE (currentMaxWorkers = Maximum \/ NothingAsked)'
    BY DEF MaximumInv
<1>1. /\ QuietNext /\ UNCHANGED << desired, pod, edits, faults >>
      /\ currentMaxWorkers = Maximum \/ NothingAsked
      BY QuietLemma DEF MaximumInv
<1>2. Maximum' = Maximum
      BY <1>1 DEF Maximum
<1>3. CASE currentMaxWorkers' = Maximum
      BY <1>2, <1>3
<1>4. CASE RequestMaxWorkers
  <2>1. SetMaxWorkers(desired)
        BY <1>4 DEF RequestMaxWorkers
  <2>2. count \in Nat /\ desired \in Nat
        BY PerformanceDataAssumption, WorkerAssumption DEF TypeOK
  <2>3. NothingAsked => count = 0 /\ currentMaxWorkers = DefaultMax
        BY DEF NothingAsked
  <2>4. currentMaxWorkers' =
           IF desired \in MinWorkers .. MaxWorkers /\ desired # currentMaxWorkers
           THEN IF count > desired THEN count ELSE desired
           ELSE currentMaxWorkers
        BY <2>1 DEF SetMaxWorkers
  <2>5. CASE currentMaxWorkers = Maximum
        BY <1>3, <2>4, <2>5 DEF Maximum
  <2>6. CASE NothingAsked
    <3>1. ~(count > desired)
          BY <2>2, <2>3, <2>6
    <3> QED BY <1>3, <2>3, <2>4, <2>6, <3>1 DEF Maximum
  <2> QED BY <1>1, <2>5, <2>6
<1>5. CASE Panic
  <2>1. InjectorRestart /\ rec' = NoRec
        BY <1>5 DEF Panic, Restart
  <2>2. /\ currentMaxWorkers' = DefaultMax /\ count' = 0 /\ op'.pc = "idle"
        /\ \A k \in Key : pending'[k].start = 0
        BY <2>1, IdleOpType DEF InjectorRestart
  <2>3. Session' = Session /\ \A s \in Session : session'[s].pc \in {"over", "past", "dead"}
        BY <2>1, RestartLemma, SessionFunction DEF TypeOK, Session
  <2> QED BY <2>1, <2>2, <2>3, NoRecType DEF NothingAsked
<1>6. CASE ~RequestMaxWorkers /\ ~Panic
  <2>1. currentMaxWorkers' = currentMaxWorkers
    <3> USE DEF injectorVars
    <3>1. CASE \E k \in Key : \/ NotFound(k) \/ Finalize(k) \/ AlreadyCompleted(k) \/ PodNotFound(k)
                              \/ PodNotRunning(k) \/ Connect(k)
          BY <3>1 DEF NotFound, Finalize, AlreadyCompleted, PodNotFound, PodNotRunning, Connect
    <3>2. CASE Continue
          BY <1>6, <3>2 DEF Continue, PollStatus, ReportError, ReportConnectionLost,
                            AwaitCollection, PollLinperfFileName, ReportCompleted
    <3>3. CASE Process
          BY <3>3 DEF Process, RefuseStart, Start, Complete, AppendRead, AppendWrite, CompleteCut, CompleteShift
    <3>4. CASE \E s \in Session : (ScriptEnds(s) \/ Callback(s))
          BY <3>4 DEF Callback, ScriptEnds, CallbackFind, CallbackCut, CallbackShift, CallbackStore, CallbackName
    <3>5. CASE UNCHANGED vars
          BY <3>5 DEF vars
    <3> QED BY <1>1, <1>6, <3>1, <3>2, <3>3, <3>4, <3>5 DEF QuietNext
  <2>2. CASE NothingAsked
    <3>1. CASE \E k \in Key : \/ NotFound(k) \/ AlreadyCompleted(k) \/ PodNotFound(k)
                              \/ PodNotRunning(k) \/ Connect(k)
      <4>1. UNCHANGED injectorVars /\ rec'.pc \in {"idle", "setMax"}
            BY <2>2, <3>1, RecStep DEF NotFound, AlreadyCompleted, PodNotFound, PodNotRunning, Connect,
               NothingAsked, RequestMaxWorkers, PollStatus, PollLinperfFileName, Take, Collecting
      <4> QED BY <2>2, <4>1 DEF NothingAsked, injectorVars, Session
    <3>2. ASSUME NEW k \in Key, Finalize(k) PROVE NothingAsked'
      <4>1. UNCHANGED << op, session, count, currentMaxWorkers, rec >> /\ Send(k, "complete")
            BY <3>2 DEF Finalize, workerVars
      <4>2. \A j \in Key : pending'[j].start = pending[j].start
            BY <4>1 DEF Send, TypeOK
      <4> QED BY <2>2, <4>1, <4>2 DEF NothingAsked, Session
    <3>3. ~Continue
          BY <1>6, <2>2 DEF Continue, NothingAsked, PollStatus, ReportError, ReportConnectionLost,
                       AwaitCollection, PollLinperfFileName, ReportCompleted
    <3>4. CASE Process /\ ControllerUnchanged
      <4>1. PICK k \in Key : Complete(k)
        <5>1. \A k \in Key : ~RefuseStart(k) /\ ~Start(k)
              BY <2>2 DEF RefuseStart, Start, Receive, NothingAsked
        <5> QED BY <2>2, <3>4, <5>1 DEF Process, AppendRead, AppendWrite, CompleteCut, CompleteShift, NothingAsked
      <4>2. ~hasWorker(k)
            BY <2>2 DEF hasWorker, WorkersOf, NothingAsked
      <4>3. UNCHANGED << op, session, count, currentMaxWorkers, rec >> /\ Receive(k, "complete")
            BY <3>4, <4>1, <4>2 DEF Complete, workerVars, ControllerUnchanged
      <4>4. \A j \in Key : pending'[j].start = pending[j].start
            BY <4>3 DEF Receive, TypeOK
      <4> QED BY <2>2, <4>3, <4>4 DEF NothingAsked, Session
    <3>5. ~\E s \in Session : ScriptEnds(s) \/ Callback(s)
          BY <2>2 DEF NothingAsked, Callback, ScriptEnds, CallbackFind, CallbackCut, CallbackShift,
                      CallbackStore, CallbackName
    <3>6. CASE UNCHANGED vars
          BY <2>2, <3>6 DEF vars, injectorVars, NothingAsked, Session
    <3> QED BY <1>1, <1>6, <3>1, <3>2, <3>3, <3>4, <3>5, <3>6 DEF QuietNext
  <2>3. CASE currentMaxWorkers = Maximum
        BY <1>2, <2>1, <2>3
  <2> QED BY <1>1, <2>2, <2>3
<1> QED BY <1>4, <1>5, <1>6

(* The states in which no more than one worker is allowed.                 *)
OneState == CalmState /\ MaximumInv /\ Maximum = 1 /\ OneWorkerInv /\ OverInv

(* With one slot, a resource has a worker if the session in it is its own. *)
LEMMA WorkerKey ==
    ASSUME NEW k
    PROVE  /\ OneWorkerInv => (hasWorker(k) <=> (count = 1 /\ session[slots[1]].key = k))
           /\ OneWorkerInv' => (hasWorker(k)' <=> (count' = 1 /\ session'[slots'[1]].key = k))
<1>1. ASSUME OneWorkerInv PROVE hasWorker(k) <=> (count = 1 /\ session[slots[1]].key = k)
  <2>1. CASE count = 0
        BY <2>1 DEF hasWorker, WorkersOf
  <2>2. CASE count = 1
        BY <2>2 DEF hasWorker, WorkersOf, KeyAt
  <2> QED BY <1>1, <2>1, <2>2 DEF OneWorkerInv
<1>2. ASSUME OneWorkerInv' PROVE hasWorker(k)' <=> (count' = 1 /\ session'[slots'[1]].key = k)
  <2>1. CASE count' = 0
        BY <2>1 DEF hasWorker, WorkersOf
  <2>2. CASE count' = 1
        BY <2>2 DEF hasWorker, WorkersOf, KeyAt
  <2> QED BY <1>2, <2>1, <2>2 DEF OneWorkerInv
<1> QED BY <1>1, <1>2

(* No worker is removed by a request, and no index is out of range.        *)
LEMMA OneStepLemma ==
    ASSUME OneState, QuietNext
    PROVE  \/ UNCHANGED << op, session, slots, count >>
           \/ \E k \in Key : Start(k)
           \/ AppendRead \/ AppendWrite
           \/ \E s \in Session : CallbackCut(s)
           \/ \E s \in Session : \/ ScriptEnds(s) \/ CallbackFind(s) \/ CallbackShift(s)
                                 \/ CallbackStore(s) \/ CallbackName(s)
<1>1. ~CompleteCut /\ ~CompleteShift
      BY DEF OneState, OneWorkerInv, CompleteCut, CompleteShift
<1>2. ~Panic
      BY DEF Panic, IndexOutOfRange, OneState, OneWorkerInv
<1>3. ASSUME NEW k \in Key, Complete(k) PROVE UNCHANGED << op, session, slots, count >>
  <2>1. pending[k].complete > 0
        BY <1>3 DEF Complete, Receive
  <2>2. ~hasWorker(k)
        BY <2>1 DEF OneState, OverInv, Over
  <2> QED BY <1>3, <2>2 DEF Complete, workerVars
<1>4. ASSUME NEW k \in Key, RefuseStart(k) PROVE UNCHANGED << op, session, slots, count >>
      BY <1>4 DEF RefuseStart, workerVars
<1>5. CASE \E k \in Key : \/ NotFound(k) \/ Finalize(k) \/ AlreadyCompleted(k) \/ PodNotFound(k)
                          \/ PodNotRunning(k) \/ Connect(k)
      BY <1>5 DEF NotFound, Finalize, AlreadyCompleted, PodNotFound, PodNotRunning, Connect, injectorVars, workerVars
<1>6. CASE Continue
      BY <1>6 DEF Continue, RequestMaxWorkers, SetMaxWorkers, PollStatus, ReportError, ReportConnectionLost,
                  AwaitCollection, PollLinperfFileName, ReportCompleted, injectorVars, workerVars
<1>7. CASE Process
      BY <1>1, <1>3, <1>4, <1>7 DEF Process
<1>8. CASE \E s \in Session : ScriptEnds(s) \/ Callback(s)
      BY <1>8 DEF Callback
<1>9. CASE UNCHANGED vars
      BY <1>9 DEF vars, injectorVars
<1> QED BY <1>2, <1>5, <1>6, <1>7, <1>8, <1>9 DEF QuietNext

(* A start is received only for a key that has no script.                  *)
LEMMA StartCalm ==
    ASSUME CalmState, NEW k \in Key, Start(k)
    PROVE  /\ pending[k].start = 1 /\ op.pc = "idle" /\ UNCHANGED << slots, count >>
           /\ \A s \in Session : session[s].key # k /\ session'[s] = session[s]
           /\ Session' = Session \union {Len(session')} /\ Len(session') \notin Session
           /\ session'[Len(session')].key = k /\ session'[Len(session')].pc = "running"
           /\ ~session'[Len(session')].ok
           /\ op'.pc = "append" /\ op'.session = Len(session') /\ op'.key = k /\ op'.count = 0
<1>1. TypeOK /\ pending[k].start \in Nat
      BY DEF CalmState, TypeOK
<1>2. pending[k].start = 1
      BY <1>1 DEF Start, Receive, CalmState, OneScriptInv
<1>3. op.pc = "idle" /\ UNCHANGED << slots, count >>
      BY DEF Start, Receive, workerVars
<1>4. /\ Len(session') = Len(session) + 1
      /\ \A s \in Session : session'[s] = session[s]
      /\ session'[Len(session')] = NewSession(k)
      /\ op'.pc = "append" /\ op'.count = 0 /\ op'.session = Len(session')
      BY <1>1, StartLemma
<1>5. Session' = Session \union {Len(session')} /\ Len(session') \notin Session
  <2>1. Len(session) \in Nat
        BY <1>1 DEF TypeOK
  <2> QED BY <1>4, <2>1 DEF Session
<1>6. op'.key = k
      BY IdleOpType DEF Start, Ops
<1>7. /\ session'[Len(session')].key = k /\ session'[Len(session')].pc = "running"
      /\ ~session'[Len(session')].ok
      BY <1>4 DEF NewSession
<1>8. \A s \in Session : session[s].key # k
      BY <1>2 DEF CalmState, OneScriptInv
<1> QED BY <1>2, <1>3, <1>4, <1>5, <1>6, <1>7, <1>8

(* With a maximum of one it is received when there is no worker.           *)
LEMMA StartReceived ==
    ASSUME OneState, NEW k \in Key, Start(k)
    PROVE  /\ count = 0 /\ op.pc = "idle" /\ UNCHANGED << slots, count >>
           /\ \A s \in Session : session[s].key # k /\ session'[s] = session[s]
           /\ Session' = Session \union {Len(session')} /\ Len(session') \notin Session
           /\ session'[Len(session')].key = k /\ session'[Len(session')].pc = "running"
           /\ op'.pc = "append" /\ op'.session = Len(session') /\ op'.key = k /\ op'.count = 0
<1>1. CalmState
      BY DEF OneState
<1>2. pending[k].start = 1
      BY <1>1, StartCalm
<1>3. currentMaxWorkers = 1
      BY <1>2 DEF OneState, CalmState, MaximumInv, NothingAsked
<1>4. count = 0
      BY <1>3 DEF Start, StartRefused, OneState, OneWorkerInv
<1> QED BY <1>1, <1>4, StartCalm

(* The worker in the only slot, or about to enter it, stays the only one.  *)
LEMMA OneWorkerStep == ASSUME OneState, QuietNext PROVE OneWorkerInv'
<1> USE DEF Appending
<1>0. /\ TypeOK /\ OneWorkerInv /\ session \in Seq(SessionRecord) /\ count \in 0 .. MaxSessions
      /\ slots \in Slots
      BY DEF OneState, CalmState, TypeOK
<1>1. CASE UNCHANGED << op, session, slots, count >>
      BY <1>0, <1>1 DEF OneWorkerInv, Session
<1>2. ASSUME NEW k \in Key, Start(k) PROVE OneWorkerInv'
      BY <1>0, <1>2, StartReceived DEF OneWorkerInv
<1>3. CASE AppendRead
  <2>1. op' = [op EXCEPT !.pc = "appendWrite", !.count = count, !.saved = slots]
        BY <1>3 DEF AppendRead
  <2>2. op'.pc = "appendWrite" /\ op'.count = count /\ op'.session = op.session /\ op'.key = op.key
        BY <1>0, <2>1, OpFields DEF Ops
  <2>3. UNCHANGED << session, slots, count, Session >> /\ op.pc = "append"
        BY <1>3 DEF AppendRead, workerVars, Session
  <2> QED BY <1>0, <2>2, <2>3 DEF OneWorkerInv
<1>4. CASE AppendWrite
  <2>1. PICK base \in {slots, op.saved} : slots' = [base EXCEPT ![op.count + 1] = op.session]
        BY <1>4 DEF AppendWrite
  <2>2. /\ op.pc = "appendWrite" /\ op.count = 0 /\ count' = 1 /\ op' = IdleOp
        /\ session' = session /\ Session' = Session
        BY <1>0, <1>4 DEF AppendWrite, OneWorkerInv, Session
  <2>3. base \in [1 .. MaxSessions -> 0 .. MaxSessions] /\ 1 \in 1 .. MaxSessions
    <3>1. op.session \in Session /\ Len(session) <= MaxSessions /\ Len(session) \in Nat
          BY <1>0, <2>2 DEF OneWorkerInv, TypeOK
    <3>2. 1 \in 1 .. MaxSessions
          BY <3>1, WorkerAssumption DEF Session
    <3>3. op.saved \in Slots
          BY <1>0, OpFields
    <3> QED BY <1>0, <2>1, <3>2, <3>3 DEF Slots
  <2>4. slots'[1] = op.session
        BY <2>1, <2>2, <2>3
  <2>5. count = 0
        BY <1>0, <2>2 DEF OneWorkerInv
  <2> QED BY <1>0, <2>2, <2>4, <2>5, IdleOpType DEF OneWorkerInv
<1>5. ASSUME NEW s \in Session, CallbackCut(s) PROVE OneWorkerInv'
  <2>1. UNCHANGED << op, slots, count >> /\ session[s].pc = "cut"
        BY <1>5 DEF CallbackCut, workerVars
  <2>2. /\ session' \in [Session -> SessionRecord] /\ \A t \in Session \ {s} : Steady(t)
        /\ session'[s].pc = "shift" /\ session'[s].index = session[s].index /\ session'[s].count = count
        /\ session'[s].key = session[s].key
        BY <1>0, <1>5, CutLemma
  <2>3. Session' = Session
        BY <1>0, <2>2, SessionFunction DEF Session
  <2> QED BY <1>0, <2>1, <2>2, <2>3 DEF OneWorkerInv, Steady
<1>6. ASSUME NEW s \in Session,
             \/ ScriptEnds(s) \/ CallbackFind(s) \/ CallbackShift(s) \/ CallbackStore(s) \/ CallbackName(s)
      PROVE  OneWorkerInv'
  <2>1. /\ session' \in [Session -> SessionRecord] /\ \A t \in Session \ {s} : session'[t] = session[t]
        /\ session'[s].key = session[s].key /\ session'[s].pc \notin {"running", "shift"}
        /\ session'[s].pc = "cut" => CallbackFind(s) /\ hasWorker(session[s].key)
                                     /\ session'[s].index = IndexOf(session[s].key)
        BY <1>0, <1>6, SessionStep
  <2>2. Session' = Session /\ op' = op
        BY <1>0, <1>6, <2>1, SessionFunction
           DEF Session, ScriptEnds, CallbackFind, CallbackShift, CallbackStore, CallbackName
  <2>3. CASE CallbackShift(s)
    <3>1. session[s].pc = "shift" /\ Shift(session[s].index, session[s].count)
          BY <2>3 DEF CallbackShift
    <3>2. count = 1 /\ slots[1] = s /\ session[s].index = 1 /\ session[s].count = 1
          BY <1>0, <3>1 DEF OneWorkerInv
    <3>3. count' = 0
          BY <3>1, <3>2 DEF Shift
    <3>4. op.pc = "idle"
          BY <1>0, <3>2 DEF OneWorkerInv
    <3>5. \A t \in Session \ {s} : session[t].pc \notin {"running", "cut", "shift"}
          BY <1>0, <3>2, <3>4 DEF OneWorkerInv
    <3>6. session'[s].pc = "store"
          BY <2>3 DEF CallbackShift, Session
    <3> QED BY <1>0, <2>1, <2>2, <2>3, <3>3, <3>4, <3>5, <3>6 DEF OneWorkerInv
  <2>4. CASE ~CallbackShift(s)
    <3>1. UNCHANGED << slots, count >>
          BY <1>6, <2>4 DEF ScriptEnds, CallbackFind, CallbackStore, CallbackName, workerVars
    <3>2. session'[s].pc = "cut" => count = 1 /\ slots[1] = s /\ session'[s].index = 1
      <4> SUFFICES ASSUME session'[s].pc = "cut" PROVE count = 1 /\ slots[1] = s /\ session'[s].index = 1
          OBVIOUS
      <4>1. count = 1 /\ session[slots[1]].key = session[s].key /\ slots[1] \in Session
            BY <1>0, <2>1, WorkerKey DEF OneWorkerInv
      <4>2. slots[1] = s
            BY <4>1 DEF OneState, CalmState, OneScriptInv
      <4>3. IndexOf(session[s].key) \in 1 .. 1
            BY <2>1, <4>1, IndexType DEF WorkersOf
      <4> QED BY <2>1, <4>1, <4>2, <4>3
    <3> QED BY <1>0, <2>1, <2>2, <3>1, <3>2 DEF OneWorkerInv
  <2> QED BY <2>3, <2>4
<1> QED BY <1>1, <1>2, <1>3, <1>4, <1>5, <1>6, OneStepLemma

(* Once there is no worker of a resource any more, there is none again.    *)
LEMMA OverStep == ASSUME OneState, QuietNext, NEW k \in Key, Over(k) PROVE Over(k)'
<1> USE DEF Appending
<1>0. /\ TypeOK /\ OneWorkerInv /\ OneWorkerInv' /\ session \in Seq(SessionRecord)
      /\ count \in 0 .. MaxSessions /\ slots \in Slots
      BY OneWorkerStep DEF OneState, CalmState, TypeOK
<1>1. /\ hasWorker(k) <=> (count = 1 /\ session[slots[1]].key = k)
      /\ hasWorker(k)' <=> (count' = 1 /\ session'[slots'[1]].key = k)
      BY <1>0, WorkerKey
<1>2. PICK s \in Session : session[s].key = k
      BY DEF Over
<1>3. ~(count = 1 /\ session[slots[1]].key = k) /\ (Appending => op.key # k)
      BY <1>1 DEF Over
<1> SUFFICES /\ \E t \in Session' : session'[t].key = k
             /\ ~(count' = 1 /\ session'[slots'[1]].key = k)
             /\ Appending' => op'.key # k
    BY <1>1 DEF Over
<1>4. CASE UNCHANGED << op, session, slots, count >>
      BY <1>2, <1>3, <1>4 DEF Session
<1>5. ASSUME NEW j \in Key, Start(j)
      PROVE  /\ \E t \in Session' : session'[t].key = k
             /\ count' = 0 /\ op'.key # k
      BY <1>2, <1>5, StartReceived
<1>6. CASE AppendRead
  <2>1. op' = [op EXCEPT !.pc = "appendWrite", !.count = count, !.saved = slots]
        BY <1>6 DEF AppendRead
  <2>2. op'.key = op.key
        BY <1>0, <2>1, OpFields DEF Ops
  <2>3. UNCHANGED << session, slots, count, Session >> /\ op.pc = "append"
        BY <1>6 DEF AppendRead, workerVars, Session
  <2> QED BY <1>2, <1>3, <2>2, <2>3
<1>7. CASE AppendWrite
  <2>1. PICK base \in {slots, op.saved} : slots' = [base EXCEPT ![op.count + 1] = op.session]
        BY <1>7 DEF AppendWrite
  <2>2. /\ op.pc = "appendWrite" /\ op.count = 0 /\ op' = IdleOp
        /\ session' = session /\ Session' = Session
        /\ op.session \in Session /\ session[op.session].key = op.key
        BY <1>0, <1>7 DEF AppendWrite, OneWorkerInv, Session
  <2>3. 1 \in 1 .. MaxSessions
    <3>1. Len(session) <= MaxSessions /\ Len(session) \in Nat
          BY <1>0 DEF TypeOK
    <3> QED BY <2>2, <3>1, WorkerAssumption DEF Session
  <2>4. base \in [1 .. MaxSessions -> 0 .. MaxSessions]
    <3>1. op.saved \in Slots
          BY <1>0, OpFields
    <3> QED BY <1>0, <2>1, <3>1 DEF Slots
  <2>5. slots'[1] = op.session
        BY <2>1, <2>2, <2>3, <2>4
  <2> QED BY <1>2, <1>3, <2>2, <2>5, IdleOpType
<1>8. ASSUME NEW s1 \in Session, CallbackCut(s1)
      PROVE  /\ UNCHANGED << op, slots, count, Session >>
             /\ \A t \in Session : session'[t].key = session[t].key
  <2>1. UNCHANGED << op, slots, count >>
        BY <1>8 DEF CallbackCut, workerVars
  <2>2. /\ session' \in [Session -> SessionRecord] /\ \A t \in Session \ {s1} : Steady(t)
        /\ session'[s1].key = session[s1].key
        BY <1>0, <1>8, CutLemma
  <2> QED BY <1>0, <2>1, <2>2, SessionFunction DEF Session, Steady
<1>9. ASSUME NEW s1 \in Session,
             \/ ScriptEnds(s1) \/ CallbackFind(s1) \/ CallbackShift(s1)
             \/ CallbackStore(s1) \/ CallbackName(s1)
      PROVE  /\ UNCHANGED << op, Session >>
             /\ \A t \in Session : session'[t].key = session[t].key
             /\ UNCHANGED << slots, count >> \/ count' = 0
  <2>1. /\ session' \in [Session -> SessionRecord]
        /\ \A t \in Session \ {s1} : session'[t] = session[t]
        /\ session'[s1].key = session[s1].key
        BY <1>0, <1>9, SessionStep
  <2>2. op' = op
        BY <1>9 DEF ScriptEnds, CallbackFind, CallbackShift, CallbackStore, CallbackName
  <2>3. UNCHANGED << slots, count >> \/ count' = 0
    <3>1. CallbackShift(s1) => count' = session[s1].count - 1 /\ session[s1].count = 1
          BY <1>0 DEF CallbackShift, Shift, OneWorkerInv
    <3> QED BY <1>9, <3>1 DEF ScriptEnds, CallbackFind, CallbackStore, CallbackName, workerVars
  <2> QED BY <1>0, <2>1, <2>2, <2>3, SessionFunction DEF Session
<1>10. slots[1] \in Session \/ count = 0
      BY <1>0 DEF OneWorkerInv
<1>11. CASE \E s1 \in Session : CallbackCut(s1)
      BY <1>2, <1>3, <1>8, <1>10, <1>11
<1>12. CASE \E s1 \in Session : \/ ScriptEnds(s1) \/ CallbackFind(s1) \/ CallbackShift(s1)
                                \/ CallbackStore(s1) \/ CallbackName(s1)
      BY <1>2, <1>3, <1>9, <1>10, <1>12
<1> QED BY <1>4, <1>5, <1>6, <1>7, <1>11, <1>12, OneStepLemma

(* Requests are counted per resource.                                      *)
LEMMA RequestCounts ==
    ASSUME TypeOK, NEW k \in Key
    PROVE  /\ \A j \in Key : pending[j].start \in Nat /\ pending[j].complete \in Nat
           /\ Send(k, "start") =>
                 /\ pending'[k].start = pending[k].start + 1
                 /\ \A j \in Key : /\ pending'[j].complete = pending[j].complete
                                   /\ j # k => pending'[j].start = pending[j].start
           /\ Send(k, "complete") =>
                 \A j \in Key : /\ pending'[j].start = pending[j].start
                                /\ j # k => pending'[j].complete = pending[j].complete
           /\ Receive(k, "start") =>
                 /\ pending[k].start > 0 /\ pending'[k].start = pending[k].start - 1
                 /\ \A j \in Key : /\ pending'[j].complete = pending[j].complete
                                   /\ j # k => pending'[j].start = pending[j].start
           /\ Receive(k, "complete") =>
                 /\ pending[k].complete > 0
                 /\ \A j \in Key : /\ pending'[j].start = pending[j].start
                                   /\ pending'[j].complete > 0 => pending[j].complete > 0
<1>0. pending \in [Key -> Requests] /\ \A j \in Key : pending[j] \in Requests
      BY DEF TypeOK, Requests
<1>1. \A j \in Key : pending[j].start \in Nat /\ pending[j].complete \in Nat
      BY <1>0 DEF Requests
<1>2. ASSUME Send(k, "start")
      PROVE  /\ pending'[k].start = pending[k].start + 1
             /\ \A j \in Key : /\ pending'[j].complete = pending[j].complete
                               /\ j # k => pending'[j].start = pending[j].start
      BY <1>0, <1>2 DEF Send, Requests
<1>3. ASSUME Send(k, "complete")
      PROVE  \A j \in Key : /\ pending'[j].start = pending[j].start
                            /\ j # k => pending'[j].complete = pending[j].complete
      BY <1>0, <1>3 DEF Send, Requests
<1>4. ASSUME Receive(k, "start")
      PROVE  /\ pending[k].start > 0 /\ pending'[k].start = pending[k].start - 1
             /\ \A j \in Key : /\ pending'[j].complete = pending[j].complete
                               /\ j # k => pending'[j].start = pending[j].start
      BY <1>0, <1>4 DEF Receive, Requests
<1>5. ASSUME Receive(k, "complete")
      PROVE  /\ pending[k].complete > 0
             /\ \A j \in Key : /\ pending'[j].start = pending[j].start
                               /\ pending'[j].complete > 0 => pending[j].complete > 0
  <2>1. /\ \A j \in Key : pending'[j].start = pending[j].start
        /\ \A j \in Key : j # k => pending'[j].complete = pending[j].complete
        /\ pending[k].complete > 0 /\ pending'[k].complete = pending[k].complete - 1
        BY <1>0, <1>5 DEF Receive, Requests
  <2> QED BY <1>1, <2>1
<1> QED BY <1>1, <1>2, <1>3, <1>4, <1>5

(* Scripts keep their keys, and only Start adds one.                       *)
LEMMA KeysStep ==
    ASSUME CalmState, [Next]_vars, ~\E k \in Key : Start(k)
    PROVE  Session' = Session /\ \A s \in Session : session'[s].key = session[s].key
<1>1. TypeOK /\ InjectorStep /\ \A s \in Session : session[s].pc = "running" => ~session[s].ok
      BY InjectorLemma DEF CalmState, CollectedInv
<1>2. Len(session') = Len(session)
      BY <1>1, SessionsStep
<1> QED BY <1>1, <1>2, OutcomeStep DEF Session

(* What becomes of the requests.                                           *)
LEMMA RequestsStep ==
    ASSUME CalmState, QuietNext, ~Panic
    PROVE  \/ UNCHANGED pending /\ ~\E k \in Key : Start(k)
           \/ AwaitCollection /\ rec.key \in Key /\ Send(rec.key, "start") /\ ~Asked(rec.key)
           \/ /\ ReportCompleted /\ rec.key \in Key /\ Send(rec.key, "complete")
              /\ status' = [status EXCEPT ![rec.key] = [rec.mem EXCEPT !.completed = "True"]]
              /\ ~\E k \in Key : Start(k)
           \/ \E k \in Key : Receive(k, "start") /\ (Start(k) \/ UNCHANGED session)
           \/ \E k \in Key : Receive(k, "complete") /\ ~\E j \in Key : Start(j)
<1> USE DEF CalmState
<1>0. (ReportError \/ ReportConnectionLost \/ AwaitCollection \/ ReportCompleted \/ PollStatus
       \/ PollLinperfFileName \/ RequestMaxWorkers)
      => rec.pc # "idle" /\ rec.key \in Key
      BY DEF RecInv, ReportError, ReportConnectionLost, AwaitCollection, ReportCompleted, PollStatus,
             PollLinperfFileName, RequestMaxWorkers
<1>1. \A k \in Key : Start(k) => Receive(k, "start")
      BY DEF Start
<1>2. UNCHANGED pending => ~\E k \in Key : Receive(k, "start")
  <2>1. ASSUME NEW k \in Key, Receive(k, "start"), UNCHANGED pending PROVE FALSE
        BY <2>1, RequestCounts
  <2> QED BY <2>1
<1>3. CASE AwaitCollection
  <2>1. CASE rec.answer = "idle"
    <3>1. Send(rec.key, "start") /\ ~isPerformanceDataRunning(rec.mem)
          BY <1>3, <2>1 DEF AwaitCollection, ConnectionLost
    <3>2. ~Asked(rec.key)
          BY <1>0, <1>3, <3>1 DEF ReconcileInv, Busy
    <3> QED BY <1>0, <1>3, <3>1, <3>2
  <2>2. CASE rec.answer # "idle"
        BY <1>1, <1>2, <1>3, <2>2 DEF AwaitCollection
  <2> QED BY <2>1, <2>2
<1>4. CASE ReportCompleted
  <2>1. ~\E k \in Key : Start(k)
    <3>1. ASSUME NEW k \in Key, Start(k) PROVE FALSE
      <4>1. pending'[k].start < pending[k].start
            BY <3>1, RequestCounts DEF Start
      <4>2. pending'[k].start = pending[k].start
            BY <1>0, <1>4, RequestCounts DEF ReportCompleted
      <4> QED BY <4>1, <4>2, RequestCounts
    <3> QED BY <3>1
  <2> QED BY <1>0, <1>4, <2>1 DEF ReportCompleted
<1>5. ASSUME NEW k \in Key, Finalize(k) PROVE FALSE
      BY <1>5 DEF Finalize, ReconcileInv
<1>6. CASE \E k \in Key : RefuseStart(k) \/ Start(k)
      BY <1>6 DEF RefuseStart, Start
<1>7. ASSUME NEW k \in Key, Complete(k)
      PROVE  Receive(k, "complete") /\ ~\E j \in Key : Start(j)
  <2>1. Receive(k, "complete") /\ UNCHANGED session
        BY <1>7 DEF Complete
  <2>2. ASSUME NEW j \in Key, Start(j) PROVE FALSE
        BY <2>1, <2>2, StartCalm DEF Session
  <2> QED BY <2>1, <2>2
<1>8. CASE UNCHANGED pending
      BY <1>1, <1>2, <1>8
<1>9. CASE \E k \in Key : NotFound(k) \/ AlreadyCompleted(k) \/ PodNotFound(k) \/ PodNotRunning(k) \/ Connect(k)
      BY <1>8, <1>9 DEF NotFound, AlreadyCompleted, PodNotFound, PodNotRunning, Connect, injectorVars
<1>10. CASE RequestMaxWorkers \/ PollStatus \/ PollLinperfFileName \/ ReportError \/ ReportConnectionLost
      BY <1>8, <1>10 DEF RequestMaxWorkers, SetMaxWorkers, PollStatus, PollLinperfFileName, ReportError,
                         ReportConnectionLost, injectorVars
<1>11. CASE \/ AppendRead \/ AppendWrite \/ CompleteCut \/ CompleteShift
            \/ \E s \in Session : ScriptEnds(s) \/ Callback(s)
      BY <1>8, <1>11 DEF AppendRead, AppendWrite, CompleteCut, CompleteShift, Callback, ScriptEnds,
                  CallbackFind, CallbackCut, CallbackShift, CallbackStore, CallbackName
<1>12. CASE UNCHANGED vars
      BY <1>8, <1>12 DEF vars, injectorVars
<1> QED BY <1>3, <1>4, <1>5, <1>6, <1>7, <1>9, <1>10, <1>11, <1>12 DEF QuietNext, Continue, Process

(* No second script is started for a resource.                             *)
LEMMA OneScriptStep == ASSUME CalmState, QuietNext, ~Panic, [Next]_vars PROVE OneScriptInv'
<1> USE RequestCounts DEF OneScriptInv
<1>0. TypeOK /\ OneScriptInv
      BY DEF CalmState
<1>1. ASSUME Session' = Session, \A s \in Session : session'[s].key = session[s].key,
             \A k \in Key : pending'[k].start <= pending[k].start /\ pending'[k].start \in Nat
      PROVE  OneScriptInv'
      BY <1>0, <1>1
<1>2. CASE UNCHANGED pending /\ ~\E k \in Key : Start(k)
      BY <1>0, <1>1, <1>2, KeysStep
<1>3. CASE AwaitCollection /\ rec.key \in Key /\ Send(rec.key, "start") /\ ~Asked(rec.key)
  <2>1. UNCHANGED session /\ Session' = Session
        BY <1>3 DEF AwaitCollection, Session
  <2>2. pending[rec.key].start = 0 /\ \A s \in Session : session[s].key # rec.key
        BY <1>0, <1>3 DEF Asked
  <2> QED BY <1>0, <1>3, <2>1, <2>2
<1>4. CASE rec.key \in Key /\ Send(rec.key, "complete") /\ ~\E k \in Key : Start(k)
      BY <1>0, <1>1, <1>4, KeysStep
<1>5. ASSUME NEW k \in Key, Receive(k, "start"), Start(k) PROVE OneScriptInv'
  <2>1. /\ \A s \in Session : session[s].key # k /\ session'[s] = session[s]
        /\ Session' = Session \union {Len(session')} /\ Len(session') \notin Session
        /\ session'[Len(session')].key = k
        BY <1>5, StartCalm
  <2>2. pending'[k].start = 0
        BY <1>0, <1>5
  <2>3. ASSUME NEW j \in Key, pending'[j].start = 1 PROVE \A s \in Session' : session'[s].key # j
        BY <1>0, <1>5, <2>1, <2>2, <2>3
  <2>4. \A j \in Key : pending'[j].start <= 1
        BY <1>0, <1>5, <2>2
  <2>5. \A s, t \in Session' : session'[s].key = session'[t].key => s = t
        BY <1>0, <2>1
  <2> QED BY <2>3, <2>4, <2>5
<1>6. ASSUME NEW k \in Key, Receive(k, "start"), UNCHANGED session PROVE OneScriptInv'
  <2>1. Session' = Session
        BY <1>6 DEF Session
  <2> QED BY <1>0, <1>1, <1>6, <2>1
<1>7. ASSUME NEW k \in Key, Receive(k, "complete"), ~\E j \in Key : Start(j) PROVE OneScriptInv'
  <2>1. Session' = Session /\ \A s \in Session : session'[s].key = session[s].key
        BY <1>7, KeysStep
  <2>2. \A j \in Key : pending'[j].start = pending[j].start
        BY <1>0, <1>7
  <2> QED BY <1>0, <1>1, <2>1, <2>2
<1> QED BY <1>2, <1>3, <1>4, <1>5, <1>6, <1>7, RequestsStep

(* A collection is asked for only by the reconcile that was told that      *)
(* nothing runs.                                                           *)
LEMMA AskedStep ==
    ASSUME CalmState, QuietNext, ~Panic, [Next]_vars, NEW k \in Key, Asked(k)'
    PROVE  \/ Asked(k)
           \/ AwaitCollection /\ rec.key = k /\ rec.answer = "idle"
<1> USE RequestCounts DEF Asked
<1>0. TypeOK
      BY DEF CalmState
<1>1. CASE UNCHANGED pending /\ ~\E j \in Key : Start(j)
      BY <1>1, KeysStep
<1>2. CASE AwaitCollection /\ rec.key \in Key /\ Send(rec.key, "start")
  <2>1. UNCHANGED << session, Session >>
        BY <1>2 DEF AwaitCollection, Session
  <2>2. rec.answer = "idle"
    <3>1. pending'[rec.key].start # pending[rec.key].start
          BY <1>0, <1>2
    <3> QED BY <1>2, <3>1 DEF AwaitCollection
  <2> QED BY <1>0, <1>2, <2>1, <2>2
<1>3. CASE rec.key \in Key /\ Send(rec.key, "complete") /\ ~\E i \in Key : Start(i)
  <2>1. pending'[k].start = pending[k].start
        BY <1>0, <1>3
  <2> QED BY <1>3, <2>1, KeysStep
<1>4. ASSUME NEW j \in Key, Receive(j, "start"), Start(j) PROVE Asked(k)
  <2>1. /\ \A s \in Session : session[s].key # j /\ session'[s] = session[s]
        /\ Session' = Session \union {Len(session')}
        /\ session'[Len(session')].key = j
        BY <1>4, StartCalm
  <2> QED BY <1>0, <1>4, <2>1
<1>5. ASSUME NEW j \in Key, Receive(j, "start"), UNCHANGED session PROVE Asked(k)
  <2>1. Session' = Session
        BY <1>5 DEF Session
  <2> QED BY <1>0, <1>5, <2>1
<1>6. ASSUME NEW j \in Key, Receive(j, "complete"), ~\E i \in Key : Start(i) PROVE Asked(k)
  <2>1. pending'[k].start = pending[k].start
        BY <1>0, <1>6
  <2> QED BY <1>6, <2>1, KeysStep
<1> QED BY <1>1, <1>2, <1>3, <1>4, <1>5, <1>6, RequestsStep

(* A collection that was asked for is not asked for again.                 *)
LEMMA ReconcileStep ==
    ASSUME CalmState, QuietNext, ~Panic, [Next]_vars, UNCHANGED << desired, pod, edits, faults >>
    PROVE  ReconcileInv'
<1> USE DEF Busy, isPerformanceDataRunning
<1>0. /\ TypeOK /\ RecInv /\ ReconcileInv /\ NoRec.pc = "idle"
      /\ status \in [Key -> Conditions] /\ life \in [Key -> {"new", "live", "deleting", "gone"}]
      /\ queue \subseteq Key
      BY NoRecType DEF CalmState, TypeOK
<1>1. rec \in Recs /\ rec.mem \in Conditions
      BY <1>0, RecFields
<1>2. faults' # faults + 1 /\ pod' = pod /\ ~Fault
      BY <1>0, PerformanceDataAssumption DEF TypeOK, Fault
<1>3. ~AwaitCollection => \A k \in Key : Asked(k)' => Asked(k)
      BY AskedStep
<1>4. CASE UNCHANGED << life, status, queue, rec >>
  <2>1. ~AwaitCollection
    <3>1. AwaitCollection => rec' = NoRec /\ rec.pc = "act"
          BY DEF AwaitCollection
    <3> QED BY <1>0, <1>4, <3>1
  <2> QED BY <1>0, <1>2, <1>3, <1>4, <2>1 DEF ReconcileInv, RecInv
<1>5. ASSUME NEW k \in Key, NotFound(k) \/ Finalize(k) PROVE FALSE
      BY <1>0, <1>5 DEF NotFound, Finalize, ReconcileInv
<1>6. ASSUME NEW k \in Key, AlreadyCompleted(k) PROVE ReconcileInv'
  <2>1. /\ rec.pc = "idle" /\ rec' = rec /\ status' = status
        /\ life' = [life EXCEPT ![k] = "live"] /\ queue' = queue \ {k}
        BY <1>6 DEF AlreadyCompleted, Take, Forget
  <2>2. ~AwaitCollection
        BY <2>1 DEF AwaitCollection
  <2> QED BY <1>0, <1>2, <1>3, <2>1, <2>2 DEF ReconcileInv
<1>7. ASSUME NEW k \in Key, PodNotFound(k) \/ PodNotRunning(k) PROVE ReconcileInv'
  <2>1. /\ rec.pc = "idle" /\ rec' = rec /\ pod[k] # "running" /\ k \in queue
        /\ life' = [life EXCEPT ![k] = "live"] /\ queue' \subseteq queue \union {k}
        BY <1>7 DEF PodNotFound, PodNotRunning, Collecting, Take, Requeue, Forget
  <2>2. ~AwaitCollection
        BY <2>1 DEF AwaitCollection
  <2>3. /\ \A j \in Key \ {k} : status'[j] = status[j]
        /\ status'[k].failed = status[k].failed
    <3>1. \/ status' = [status EXCEPT ![k] = [status[k] EXCEPT !.started = "True", !.completed = "Error"]]
          \/ status' = [status EXCEPT ![k] = [status[k] EXCEPT !.started = "False"]]
          BY <1>2, <1>7 DEF PodNotFound, PodNotRunning, UpdateStatus
    <3>2. /\ status[k] \in Conditions
          /\ [status[k] EXCEPT !.started = "True", !.completed = "Error"].failed = status[k].failed
          /\ [status[k] EXCEPT !.started = "False"].failed = status[k].failed
          BY <1>0 DEF Conditions
    <3> QED BY <1>0, <3>1, <3>2
  <2>4. ~Asked(k)
        BY <1>0, <2>1 DEF ReconcileInv
  <2> QED BY <1>0, <1>2, <1>3, <2>1, <2>2, <2>3, <2>4 DEF ReconcileInv
<1>8. ASSUME NEW k \in Key, Connect(k) PROVE ReconcileInv'
  <2> DEFINE mem == [status[k] EXCEPT !.started = "True"]
  <2>1. /\ rec.pc = "idle" /\ pod[k] = "running" /\ k \in queue
        /\ life' = [life EXCEPT ![k] = "live"] /\ queue' = queue \ {k}
        /\ rec' = [NoRec EXCEPT !.pc = "setMax", !.key = k, !.mem = mem]
        BY <1>8 DEF Connect, Collecting, Take, Forget
  <2>2. status' = [status EXCEPT ![k] = mem]
        BY <1>2, <1>8 DEF Connect, UpdateStatus
  <2>3. /\ mem \in Conditions /\ mem.started = "True" /\ mem.completed = status[k].completed
        /\ mem.failed = status[k].failed
        BY <1>0 DEF Conditions
  <2>4. ~AwaitCollection
        BY <2>1 DEF AwaitCollection
  <2> HIDE DEF mem
  <2>5. rec'.pc = "setMax" /\ rec'.key = k /\ rec'.mem = mem /\ rec'.fresh
        BY <2>1 DEF NoRec
  <2> QED BY <1>0, <1>2, <1>3, <2>1, <2>2, <2>3, <2>4, <2>5 DEF ReconcileInv
<1>9. CASE RequestMaxWorkers \/ PollStatus \/ PollLinperfFileName
  <2>1. UNCHANGED << life, status, queue >> /\ ~AwaitCollection /\ rec.pc # "idle" /\ rec.key \in Key
        BY <1>0, <1>9 DEF RequestMaxWorkers, PollStatus, PollLinperfFileName, AwaitCollection, crVars, RecInv
  <2>2. /\ rec'.key = rec.key /\ rec'.fresh = rec.fresh /\ rec'.mem.started = rec.mem.started
        /\ rec'.mem.completed = rec.mem.completed /\ rec'.mem.failed = rec.mem.failed
    <3>1. CASE RequestMaxWorkers
      <4>1. rec' = [rec EXCEPT !.pc = "poll"]
            BY <3>1 DEF RequestMaxWorkers
      <4> QED BY <1>1, <4>1 DEF Recs
    <3>2. CASE PollStatus
      <4> DEFINE pc == IF Status(rec.key) = "done" THEN "fileName" ELSE "act"
      <4>1. rec' = [rec EXCEPT !.pc = pc, !.answer = Status(rec.key)]
            BY <3>2 DEF PollStatus
      <4> QED BY <1>1, <4>1 DEF Recs
    <3>3. CASE PollLinperfFileName
      <4>1. PICK b \in BOOLEAN : rec' = [rec EXCEPT !.pc = "complete", !.mem.file = b]
        <5>1. (rec.key \in linperfFileNames) \in BOOLEAN
              OBVIOUS
        <5> QED BY <3>3, <5>1, Zenon DEF PollLinperfFileName
      <4> DEFINE mem == [rec.mem EXCEPT !.file = b]
      <4>2. mem.started = rec.mem.started /\ mem.completed = rec.mem.completed /\ mem.failed = rec.mem.failed
            BY <1>1 DEF Conditions
      <4>3. rec' = [rec EXCEPT !.pc = "complete", !.mem = mem]
            BY <1>1, <4>1 DEF Recs
      <4> HIDE DEF mem
      <4>4. rec'.key = rec.key /\ rec'.fresh = rec.fresh /\ rec'.mem = mem
            BY <1>1, <4>3 DEF Recs
      <4> QED BY <4>2, <4>4
    <3> QED BY <1>9, <3>1, <3>2, <3>3
  <2> QED BY <1>0, <1>2, <1>3, <2>1, <2>2 DEF ReconcileInv
<1>10. CASE ReportError \/ ReportConnectionLost \/ ReportCompleted
  <2>1. /\ UNCHANGED << life, queue >> /\ rec' = NoRec /\ rec.pc # "idle" /\ rec.key \in Key
        /\ ~AwaitCollection
    <3>1. UNCHANGED << life, queue >> /\ rec' = NoRec /\ rec.pc # "idle"
          BY <1>10 DEF ReportError, ReportConnectionLost, ReportCompleted
    <3>2. ~AwaitCollection
          BY <1>0, <1>10 DEF ReportError, ReportConnectionLost, ReportCompleted, AwaitCollection
    <3> QED BY <1>0, <3>1, <3>2 DEF RecInv
  <2>2. \A j \in Key \ {rec.key} : status'[j] = status[j]
        BY <1>0, <1>10 DEF ReportError, ReportConnectionLost, ReportCompleted, UpdateStatus
  <2>3. rec.key \notin queue
        BY <1>0, <2>1 DEF ReconcileInv
  <2> QED BY <1>0, <1>2, <1>3, <2>1, <2>2, <2>3 DEF ReconcileInv
<1>11. CASE AwaitCollection
  <2>0. PICK k \in Key : k = rec.key
        BY <1>0, <1>11 DEF AwaitCollection, RecInv
  <2> DEFINE completed == IF rec.answer = "toomanyworkers" THEN "TooManyWorkers" ELSE "InProgress"
             c == [rec.mem EXCEPT !.completed = completed]
  <2>1. rec.pc = "act" /\ rec' = NoRec /\ life' = life /\ queue' = queue \union {k}
        BY <1>0, <1>11, <2>0 DEF AwaitCollection, Requeue
  <2>2. status' = [status EXCEPT ![k] = c]
        BY <1>0, <1>2, <1>11, <2>0, <2>1 DEF AwaitCollection, UpdateStatus, ReconcileInv
  <2>3. /\ c \in Conditions /\ c.started = rec.mem.started /\ c.failed = rec.mem.failed
        /\ c.completed = completed
        BY <1>1 DEF Conditions
  <2> HIDE DEF c
  <2>4. status'[k] = c /\ \A j \in Key \ {k} : status'[j] = status[j]
        BY <1>0, <2>2
  <2>5. Asked(k)' => completed = "InProgress"
    <3>1. Asked(k) => rec.answer = "writing"
          BY <1>0, <1>11, <2>0, <2>1 DEF AwaitCollection, ConnectionLost, ReconcileInv
    <3> QED BY <3>1, AskedStep
  <2>6. \A j \in Key \ {k} : Asked(j)' => Asked(j)
        BY <2>0, AskedStep
  <2>7. c.started = "True" /\ c.failed = "none" /\ pod[k] = "running"
        BY <1>0, <2>0, <2>1, <2>3 DEF ReconcileInv
  <2>8. ASSUME NEW j \in Key
        PROVE  /\ life'[j] \in {"new", "live"}
               /\ j \in queue' => status'[j].failed = "none"
               /\ Asked(j)' => /\ pod'[j] = "running"
                               /\ j \in queue' => isPerformanceDataRunning(status[j])'
    <3>1. CASE j = k
          BY <1>0, <1>2, <2>1, <2>3, <2>4, <2>5, <2>7, <3>1 DEF ReconcileInv
    <3>2. CASE j # k
          BY <1>0, <1>2, <2>1, <2>4, <2>6, <3>2 DEF ReconcileInv
    <3> QED BY <3>1, <3>2
  <2> QED BY <1>0, <2>1, <2>8 DEF ReconcileInv
<1>13. CASE (Process \/ \E s \in Session : (ScriptEnds(s) \/ Callback(s))) /\ ControllerUnchanged
      BY <1>4, <1>13 DEF ControllerUnchanged, crVars
<1>14. CASE UNCHANGED vars
      BY <1>4, <1>14 DEF vars
<1> QED BY <1>5, <1>6, <1>7, <1>8, <1>9, <1>10, <1>11, <1>13, <1>14 DEF QuietNext, Continue

(* Once reported complete, the script is not a worker.                     *)
LEMMA OverInvStep == ASSUME OneState, QuietNext, ~Panic, [Next]_vars PROVE OverInv'
<1>0. /\ CalmState /\ TypeOK /\ RecInv /\ CollectedInv /\ OverInv
      /\ \A k \in Key : Over(k) => Over(k)'
      BY OverStep DEF OneState, CalmState
<1>1. ASSUME rec'.pc \in {"fileName", "complete"} PROVE Over(rec.key)'
  <2>1. CASE PollStatus /\ rec'.key = rec.key /\ rec'.pc = IF Status(rec.key) = "done" THEN "fileName" ELSE "act"
    <3>1. rec.key \in Key /\ op.pc = "idle"
          BY <1>0, <2>1 DEF PollStatus, RecInv
    <3>2. Status(rec.key) = "done"
          BY <1>1, <2>1
    <3>3. completedPods[rec.key] = "TRUE" /\ ~hasWorker(rec.key)
          BY <3>2 DEF Status
    <3>4. Over(rec.key)
          BY <1>0, <3>1, <3>3 DEF CollectedInv, Collected, Over, Appending
    <3> QED BY <1>0, <2>1, <3>1, <3>4 DEF Over
  <2>2. CASE PollLinperfFileName /\ rec'.key = rec.key
    <3>1. rec.key \in Key /\ Over(rec.key)
          BY <1>0, <2>2 DEF PollLinperfFileName, RecInv, OverInv
    <3> QED BY <1>0, <2>2, <3>1 DEF Over
  <2>3. CASE rec'.pc = rec.pc /\ rec'.key = rec.key
    <3>1. rec.key \in Key /\ Over(rec.key)
          BY <1>0, <1>1, <2>3 DEF RecInv, OverInv
    <3> QED BY <1>0, <2>3, <3>1 DEF Over
  <2> QED BY <1>0, <1>1, <2>1, <2>2, <2>3, RecStep
<1>2. ASSUME NEW k \in Key, pending'[k].complete > 0 PROVE Over(k)
  <2>1. CASE pending[k].complete > 0
        BY <1>0, <2>1 DEF OverInv
  <2>2. CASE ReportCompleted /\ k = rec.key
        BY <1>0, <2>2 DEF ReportCompleted, OverInv
  <2> QED BY <1>0, <1>2, <2>1, <2>2, RequestsStep, RequestCounts
<1> QED BY <1>0, <1>1, <1>2 DEF OverInv

(* Every step keeps the three of them, while nothing has disturbed the     *)
(* system and the maximum is one.                                          *)
LEMMA OneInvStep ==
    ASSUME TypeOK, CountInv, RecInv, CollectedInv, MaximumInv, OneInv, [Next]_vars PROVE OneInv'
<1> SUFFICES ASSUME Undisturbed', Maximum' = 1 PROVE (ReconcileInv /\ OneScriptInv /\ OneWorkerInv /\ OverInv)'
    BY DEF OneInv
<1>1. Undisturbed /\ QuietNext /\ UNCHANGED << desired, pod, edits, faults >>
      BY QuietLemma
<1>2. OneState /\ CalmState
      BY <1>1 DEF OneState, CalmState, OneInv, Maximum
<1>3. ~Panic
      BY <1>2 DEF Panic, IndexOutOfRange, OneState, OneWorkerInv
<1> QED BY <1>1, <1>2, <1>3, OneWorkerStep, OneScriptStep, ReconcileStep, OverInvStep
-----------------------------------------------------------------------------
(* Any maximum.                                                            *)

(* The callback of the session has stored the outcome.                     *)
Ended(s) == session[s].pc \in {"name", "over"}

(* A pod is forgotten only after its collection is reported completed: as  *)
(* long as it is not, the injector knows of the success, and an error it   *)
(* knows of is that of a script of the same resource.                      *)
OutcomeInv ==
    /\ \A k \in Key : pending[k].complete > 0 => status[k].completed = "True"
    /\ op.pc \in {"cut", "shift"} => op.key \in Key /\ status[op.key].completed = "True"
    /\ \A s \in Session : session[s].ok /\ Ended(s) => \/ completedPods[session[s].key] = "TRUE"
                                                       \/ status[session[s].key].completed = "True"
    /\ \A k \in erroringPods : \E s \in Session : session[s].key = k /\ Ended(s) /\ ~session[s].ok

KeptInv == Undisturbed /\ SameProcess => ReconcileInv /\ OneScriptInv /\ OutcomeInv

(* What a step does to a session, unless the operator is restarted.        *)
Keeps(s) ==
    /\ session'[s].key = session[s].key
    /\ Ended(s) => session'[s].pc \in {"name", "over"} /\ session'[s].ok = session[s].ok
    /\ session'[s].ok /\ session'[s].pc \in {"name", "over"} => session[s].ok /\ (Ended(s) \/ CallbackStore(s))
    /\ session[s].pc \in {"dead", "past"} => session'[s].pc \in {"dead", "past"}

(* Outcomes stay, and one is stored by the callback only.                  *)
LEMMA KeepsStep ==
    ASSUME TypeOK, InjectorStep
    PROVE  InjectorRestart \/ \A s \in Session : Keeps(s)
<1> USE DEF Keeps, Ended
<1>0. session \in Seq(SessionRecord) /\ count \in 0 .. MaxSessions
      BY DEF TypeOK
<1>1. CASE \E k \in Key : Start(k)
  <2>1. PICK k \in Key : Start(k)
        BY <1>1
  <2> QED BY <2>1, StartLemma
<1>2. ASSUME NEW s \in Session,
             \/ ScriptEnds(s) \/ CallbackFind(s) \/ CallbackShift(s) \/ CallbackStore(s) \/ CallbackName(s)
      PROVE  \A t \in Session : Keeps(t)
  <2>1. /\ \A t \in Session \ {s} : session'[t] = session[t]
        /\ session'[s].key = session[s].key
        /\ session'[s].ok = session[s].ok \/ ScriptEnds(s)
        BY <1>0, <1>2, SessionStep
  <2>2. CASE ScriptEnds(s)
    <3>0. session[s].pc = "running" /\ ~CallbackFind(s) /\ ~CallbackShift(s)
          BY <2>2 DEF ScriptEnds, CallbackFind, CallbackShift
    <3>1. session'[s].pc = "find"
          BY <1>0, <2>2, <3>0, SessionStep
    <3> QED BY <2>1, <3>0, <3>1
  <2>3. CASE CallbackFind(s)
    <3>0. session[s].pc = "find" /\ ~ScriptEnds(s) /\ ~CallbackShift(s)
          BY <2>3 DEF ScriptEnds, CallbackFind, CallbackShift
    <3>1. session'[s].pc \in {"cut", "store"}
          BY <1>0, <2>3, <3>0, SessionStep
    <3> QED BY <2>1, <3>0, <3>1
  <2>4. CASE CallbackShift(s)
    <3>0. session[s].pc = "shift" /\ ~ScriptEnds(s) /\ ~CallbackFind(s)
          BY <2>4 DEF ScriptEnds, CallbackFind, CallbackShift
    <3>1. session'[s].pc = "store"
          BY <1>0, <2>4, <3>0, SessionStep
    <3> QED BY <2>1, <3>0, <3>1
  <2>5. CASE CallbackStore(s) \/ CallbackName(s)
    <3>1. session[s].pc \in {"store", "name"} /\ (session[s].pc = "name" \/ CallbackStore(s))
          BY <2>5 DEF CallbackStore, CallbackName
    <3>0. ~ScriptEnds(s) /\ ~CallbackFind(s) /\ ~CallbackShift(s)
          BY <3>1 DEF ScriptEnds, CallbackFind, CallbackShift
    <3>2. session'[s].ok = session[s].ok /\ session'[s].pc \in {"name", "over"}
          BY <1>0, <2>1, <2>5, <3>0, SessionStep
    <3> QED BY <2>1, <3>1, <3>2
  <2> QED BY <1>2, <2>2, <2>3, <2>4, <2>5
<1>3. ASSUME NEW s \in Session, CallbackCut(s) PROVE \A t \in Session : Keeps(t)
  <2>1. /\ \A t \in Session \ {s} : Steady(t)
        /\ session'[s].key = session[s].key /\ session'[s].pc = "shift" /\ session'[s].ok = session[s].ok
        BY <1>0, <1>3, CutLemma
  <2>2. session[s].pc = "cut"
        BY <1>3 DEF CallbackCut
  <2> QED BY <2>1, <2>2 DEF Steady
<1>4. CASE CompleteCut
  <2>1. \A t \in Session : Steady(t)
        BY <1>0, <1>4, CancelLemma DEF CompleteCut
  <2> QED BY <2>1 DEF Steady
<1>5. CASE session' = session
      BY <1>5
<1>6. CASE \/ UNCHANGED injectorVars \/ SetMaxWorkers(desired)
           \/ \E k \in Key : (Send(k, "start") \/ Send(k, "complete")) /\ OthersUnchanged
           \/ \E k \in Key : RefuseStart(k) \/ StartFails(k) \/ Complete(k)
           \/ AppendRead \/ AppendWrite \/ CompleteShift
      BY <1>5, <1>6 DEF injectorVars, SetMaxWorkers, OthersUnchanged, RefuseStart, StartFails, Complete,
                  AppendRead, AppendWrite, CompleteShift
<1> HIDE DEF Keeps, Ended
<1> QED BY <1>1, <1>2, <1>3, <1>4, <1>6 DEF InjectorStep

(* What the injector knows of a pod: a success is forgotten by a start or  *)
(* a completion of the same resource, an error comes from a callback.      *)
LEMMA MemoryStep ==
    ASSUME TypeOK, InjectorStep, ~InjectorRestart, NEW k \in Key
    PROVE  /\ \/ completedPods[k] # "TRUE"
              \/ completedPods'[k] = "TRUE"
              \/ Receive(k, "start")
              \/ Receive(k, "complete")
              \/ (op.pc = "shift" /\ op.key = k)
           /\ \/ k \notin erroringPods'
              \/ k \in erroringPods
              \/ \E s \in Session : CallbackStore(s) /\ session[s].key = k /\ ~session[s].ok
           /\ \A s \in Session : (CallbackStore(s) /\ session[s].key = k /\ session[s].ok)
                                 => completedPods'[k] = "TRUE"
<1>0. /\ completedPods \in [Key -> {"absent", "FALSE", "TRUE"}]
      /\ \A s \in Session : session[s].key \in Key
      BY SessionFields DEF TypeOK
<1>1. \A s \in Session : CallbackStore(s) /\ session[s].key = k /\ session[s].ok => completedPods'[k] = "TRUE"
      BY <1>0 DEF CallbackStore
<1>2. CASE \E s \in Session : CallbackStore(s)
      BY <1>0, <1>1, <1>2 DEF CallbackStore
<1>3. CASE \E j \in Key : Start(j) \/ StartFails(j)
      BY <1>0, <1>1, <1>3 DEF Start, StartFails
<1>4. CASE \E j \in Key : Complete(j)
      BY <1>0, <1>1, <1>4 DEF Complete, ForgetPod, mapVars
<1>5. CASE CompleteShift
      BY <1>0, <1>1, <1>5 DEF CompleteShift, ForgetPod
<1>6. CASE UNCHANGED << completedPods, erroringPods >>
      BY <1>0, <1>1, <1>6
<1>7. CASE \/ UNCHANGED injectorVars \/ SetMaxWorkers(desired)
           \/ \E j \in Key : (Send(j, "start") \/ Send(j, "complete")) /\ OthersUnchanged
           \/ \E j \in Key : RefuseStart(j)
           \/ AppendRead \/ AppendWrite \/ CompleteCut
           \/ \E s \in Session : \/ CallbackCut(s) \/ ScriptEnds(s) \/ CallbackFind(s) \/ CallbackShift(s)
                                 \/ CallbackName(s)
      BY <1>6, <1>7 DEF injectorVars, mapVars, OthersUnchanged, SetMaxWorkers, RefuseStart, AppendRead, AppendWrite,
                  CompleteCut, CallbackCut, ScriptEnds, CallbackFind, CallbackShift, CallbackName
<1> QED BY <1>2, <1>3, <1>4, <1>5, <1>7 DEF InjectorStep

(* A restart shows in every session there was.                             *)
LEMMA RestartShows ==
    ASSUME TypeOK, InjectorRestart
    PROVE  Session' = Session /\ (SameProcess' => Session = {})
<1>1. /\ session' \in [Session -> SessionRecord]
      /\ \A s \in Session : session'[s].pc \in {"past", "dead"}
      BY RestartLemma
<1>2. Session' = Session
      BY <1>1, SessionFunction DEF Session, TypeOK
<1> QED BY <1>1, <1>2 DEF SameProcess

(* The operator process that is the same after a step was so before it.    *)
LEMMA ProcessStep == ASSUME TypeOK, InjectorStep, SameProcess' PROVE SameProcess
<1>1. CASE InjectorRestart
      BY <1>1, RestartShows DEF SameProcess
<1>2. CASE \A s \in Session : Keeps(s)
  <2>1. \A s \in Session : s \in Session'
    <3>1. Len(session) \in Nat /\ Len(session') \in Nat /\ Len(session') >= Len(session)
          BY SessionsStep, WorkerAssumption DEF TypeOK
    <3> QED BY <3>1 DEF Session
  <2> QED BY <1>2, <2>1 DEF SameProcess, Keeps
<1> QED BY <1>1, <1>2, KeepsStep

(* A panic shows, because it takes a session to get there.                 *)
LEMMA PanicShows == ASSUME TypeOK, CollectedInv, OutcomeInv, Panic PROVE ~SameProcess'
<1>1. InjectorRestart
      BY DEF Panic, Restart
<1>2. Session # {}
  <2>1. CASE op.pc = "cut"
        BY <2>1 DEF OutcomeInv, CollectedInv, CompletedMeansCollected, Collected
  <2>2. CASE \E s \in Session : session[s].pc = "cut" /\ session[s].index > count
        BY <2>2
  <2> QED BY <2>1, <2>2 DEF Panic, IndexOutOfRange
<1> QED BY <1>1, <1>2, RestartShows

(* No success is forgotten before it is reported.                          *)
LEMMA RememberedStep ==
    ASSUME CalmState, OutcomeInv, QuietNext, ~Panic, [Next]_vars, SameProcess'
    PROVE  OutcomeInv'
<1>0. TypeOK /\ RecInv /\ OneScriptInv /\ InjectorStep /\ \A k \in Key : pending[k].start \in Nat
      BY InjectorLemma, RequestCounts DEF CalmState
<1>1. CASE InjectorRestart
  <2>1. Session' = {} /\ op'.pc = "idle" /\ erroringPods' = {} /\ \A k \in Key : pending'[k].complete = 0
        BY <1>0, <1>1, RestartShows, IdleOpType DEF InjectorRestart
  <2> QED BY <2>1 DEF OutcomeInv
<1>2. CASE ~InjectorRestart
  <2>1. \A k \in Key : status[k].completed = "True" => status'[k].completed = "True"
        BY <1>0, StatusStep
  <2>2. \A s \in Session : Keeps(s) /\ session[s].key \in Key
        BY <1>0, <1>2, KeepsStep, SessionFields DEF TypeOK
  <2>3. ASSUME NEW k \in Key, pending'[k].complete > 0 PROVE status'[k].completed = "True"
    <3>1. CASE pending[k].complete > 0
          BY <2>1, <3>1 DEF OutcomeInv
    <3>2. CASE rec.key = k /\ status' = [status EXCEPT ![rec.key] = [rec.mem EXCEPT !.completed = "True"]]
          BY <1>0, <3>2, RecFields, ConditionsType DEF TypeOK
    <3> QED BY <1>0, <2>3, <3>1, <3>2, RequestsStep, RequestCounts
  <2>4. ASSUME op'.pc \in {"cut", "shift"} PROVE op'.key \in Key /\ status'[op'.key].completed = "True"
    <3>1. CASE op.pc \in {"cut", "shift"} /\ op'.key = op.key
          BY <2>1, <3>1 DEF OutcomeInv
    <3>2. ASSUME NEW k \in Key, Complete(k), op'.key = k PROVE status'[k].completed = "True"
      <4>1. pending[k].complete > 0
            BY <3>2 DEF Complete, Receive
      <4> QED BY <2>1, <4>1 DEF OutcomeInv
    <3>3. ~\E k \in Key : Start(k)
      <4>1. ASSUME NEW k \in Key, Start(k) PROVE op'.pc = "append"
            BY <4>1, StartCalm
      <4> QED BY <2>4, <4>1
    <3> QED BY <1>0, <2>4, <3>1, <3>2, <3>3, OpStep DEF CompleteCut
  <2>5. ASSUME NEW s \in Session', session'[s].ok, Ended(s)'
        PROVE  completedPods'[session'[s].key] = "TRUE" \/ status'[session'[s].key].completed = "True"
    <3>1. s \in Session
      <4>1. CASE \E k \in Key : Start(k)
            BY <2>5, <4>1, StartCalm
      <4>2. CASE ~\E k \in Key : Start(k)
            BY <4>2, KeysStep
      <4> QED BY <4>1, <4>2
    <3>2. PICK k \in Key : k = session[s].key /\ k = session'[s].key
          BY <2>2, <3>1 DEF Keeps
    <3>3. session[s].ok /\ (Ended(s) \/ CallbackStore(s))
          BY <2>2, <2>5, <3>1 DEF Keeps, Ended
    <3>4. CASE CallbackStore(s)
      <4>1. completedPods'[k] = "TRUE"
        <5>1. session[s].key = k /\ session[s].ok
              BY <3>2, <3>3
        <5> QED BY <1>0, <1>2, <3>1, <3>4, <5>1, MemoryStep
      <4> QED BY <3>2, <4>1
    <3>5. CASE status[k].completed = "True"
          BY <2>1, <3>2, <3>5
    <3>6. CASE completedPods[k] = "TRUE"
      <4>1. ~Receive(k, "start")
        <5>1. Receive(k, "start") => pending[k].start = 1
              BY <1>0 DEF Receive, OneScriptInv
        <5> QED BY <1>0, <3>1, <3>2, <5>1 DEF OneScriptInv
      <4>2. Receive(k, "complete") \/ (op.pc = "shift" /\ op.key = k) => status[k].completed = "True"
            BY DEF Receive, OutcomeInv
      <4> QED BY <1>0, <1>2, <3>2, <3>5, <3>6, <4>1, <4>2, MemoryStep
    <3> QED BY <3>1, <3>2, <3>3, <3>4, <3>5, <3>6 DEF OutcomeInv
  <2>6. ASSUME NEW k \in erroringPods'
        PROVE  \E s \in Session' : session'[s].key = k /\ Ended(s)' /\ ~session'[s].ok
    <3>1. \A s \in Session : s \in Session'
      <4>1. Len(session) \in Nat /\ Len(session') \in Nat /\ Len(session') >= Len(session)
            BY <1>0, SessionsStep, WorkerAssumption DEF TypeOK
      <4> QED BY <4>1 DEF Session
    <3>2. k \in Key
          BY <1>0, MapsStep
    <3>3. CASE k \in erroringPods
      <4>1. PICK s \in Session : session[s].key = k /\ Ended(s) /\ ~session[s].ok
            BY <3>3 DEF OutcomeInv
      <4> QED BY <2>2, <3>1, <4>1 DEF Keeps, Ended
    <3>4. ASSUME NEW s \in Session, CallbackStore(s), session[s].key = k, ~session[s].ok
          PROVE  session'[s].key = k /\ Ended(s)' /\ ~session'[s].ok
      <4>1. ~ScriptEnds(s) /\ ~CallbackFind(s) /\ ~CallbackShift(s)
            BY <3>4 DEF CallbackStore, ScriptEnds, CallbackFind, CallbackShift
      <4> QED BY <1>0, <3>4, <4>1, SessionStep DEF Ended, TypeOK
    <3> QED BY <1>0, <1>2, <3>1, <3>2, <3>3, <3>4, MemoryStep
  <2> QED BY <2>3, <2>4, <2>5, <2>6 DEF OutcomeInv
<1> QED BY <1>1, <1>2

(* Every step keeps them, while nothing has disturbed the system.          *)
LEMMA KeptStep ==
    ASSUME TypeOK, CountInv, RecInv, CollectedInv, KeptInv, [Next]_vars PROVE KeptInv'
<1> SUFFICES ASSUME Undisturbed', SameProcess' PROVE (ReconcileInv /\ OneScriptInv /\ OutcomeInv)'
    BY DEF KeptInv
<1>1. Undisturbed /\ QuietNext /\ UNCHANGED << desired, pod, edits, faults >>
      BY QuietLemma
<1>2. SameProcess
      BY InjectorLemma, ProcessStep
<1>3. CalmState /\ OutcomeInv
      BY <1>1, <1>2 DEF KeptInv, CalmState
<1>4. ~Panic
      BY <1>3, PanicShows
<1> QED BY <1>1, <1>3, <1>4, OneScriptStep, ReconcileStep, RememberedStep
-----------------------------------------------------------------------------
(* The inductive invariant.                                                *)
IInv == TypeOK /\ CountInv /\ RecInv /\ CollectedInv /\ MaximumInv /\ OneInv /\ KeptInv

(* The inductive invariant holds in every state, whatever scripts,         *)
(* requests, callbacks, faults and restarts interleave.                    *)
THEOREM Invariance == Spec => []IInv
<1>1. Init => IInv
  <2> SUFFICES ASSUME Init PROVE IInv
      OBVIOUS
  <2>1. session = << >> /\ Len(session) = 0 /\ Session = {} /\ op = IdleOp /\ count = 0
        BY DEF Init, InjectorInit, Session
  <2>2. TypeOK
    <3>1. rec \in Recs /\ op \in Ops /\ session \in Seq(SessionRecord) /\ slots \in Slots
          BY <2>1, NoRecType, IdleOpType, ZeroInBounds DEF Init, InjectorInit, Slots
    <3>2. currentMaxWorkers \in MinWorkers .. MaxWorkers /\ count \in 0 .. MaxSessions
          BY WorkerAssumption DEF Init, InjectorInit
    <3>3. status \in [Key -> Conditions]
          BY DEF Init, Conditions, NoConditions
    <3>4. pending \in [Key -> [start : Nat, complete : Nat]]
          BY DEF Init, InjectorInit
    <3> QED BY <2>1, <3>1, <3>2, <3>3, <3>4, PerformanceDataAssumption, WorkerAssumption
            DEF TypeOK, Init, InjectorInit, Ops, OpPC, Recs, RecPC, Answers
  <2>3. CountInv
        BY <2>1, IdleOpType, WorkerAssumption DEF CountInv, Fits, Room
  <2>4. RecInv /\ CollectedInv
        BY <2>1, NoRecType DEF Init, InjectorInit, RecInv, CollectedInv, CompletedMeansCollected, NoConditions
  <2>5. MaximumInv
        BY <2>1, NoRecType, IdleOpType DEF Init, InjectorInit, MaximumInv, NothingAsked
  <2>6. OneInv /\ KeptInv
    <3>1. \A k \in Key : ~Asked(k) /\ pending[k].start = 0 /\ pending[k].complete = 0
          BY <2>1 DEF Init, InjectorInit, Asked
    <3>2. ReconcileInv
          BY <3>1, NoRecType DEF Init, ReconcileInv, Busy, NoConditions
    <3>3. OneScriptInv /\ OneWorkerInv /\ OverInv
          BY <2>1, <3>1, IdleOpType, NoRecType DEF Init, OneScriptInv, OneWorkerInv, OverInv, Appending
    <3>4. OutcomeInv
          BY <2>1, <3>1, IdleOpType DEF Init, InjectorInit, OutcomeInv
    <3> QED BY <3>2, <3>3, <3>4 DEF OneInv, KeptInv
  <2> QED BY <2>2, <2>3, <2>4, <2>5, <2>6 DEF IInv
<1>2. IInv /\ [Next]_vars => IInv'
  <2> SUFFICES ASSUME IInv, [Next]_vars PROVE IInv'
      OBVIOUS
  <2>1. TypeOK /\ CountInv /\ RecInv /\ CollectedInv /\ MaximumInv /\ OneInv /\ KeptInv
        /\ InjectorStep
        BY InjectorLemma DEF IInv
  <2> QED BY <2>1, TypeStep, CountStep, RecInvStep, CollectedStep, MaximumStep, OneInvStep, KeptStep DEF IInv
<1> QED BY <1>1, <1>2, PTL DEF Spec

(* Type correctness of the injector and its controller: among it that the  *)
(* slice never holds more workers than scripts were started, nor a maximum *)
(* outside the range processAction accepts (pod_injector.go 221-293,       *)
(* 341-372).                                                               *)
THEOREM TypeCorrect == Spec => []TypeOK
BY Invariance, PTL DEF IInv

(* A resource is reported completed only if a script run for it ended      *)
(* without an error: the status written by a reconcile comes from the      *)
(* answer getStatus gave after a callback had stored the outcome           *)
(* (pod_injector.go 256-290, openlibertyperformancedata_controller.go      *)
(* 208-302).                                                               *)
THEOREM OnlyCollectedIsCompleted == Spec => []CompletedMeansCollected
<1>1. IInv => CompletedMeansCollected
      BY DEF IInv, CollectedInv
<1> QED BY <1>1, Invariance, PTL

(* No reconcile, callback or restart overwrites the conditions of a        *)
(* completed resource: Reconcile returns before it connects, and a         *)
(* reconcile that began earlier is that of the same resource               *)
(* (openlibertyperformancedata_controller.go 88-98, 208-302).              *)
THEOREM CompletionIsFinal == Spec => CompletedIsFinal
<1> DEFINE Final == \A k \in Key : status[k].completed = "True" => status'[k] = status[k]
<1>1. IInv /\ [Next]_vars => [Final]_vars
  <2> SUFFICES ASSUME IInv, [Next]_vars PROVE Final
      OBVIOUS
  <2> QED BY StatusStep DEF IInv
<1> QED BY <1>1, Invariance, PTL DEF Spec, CompletedIsFinal

(* With a maximum of one, no two scripts run at a time while nobody edits  *)
(* anything and nothing fails: no start is received before the worker in   *)
(* the slot is removed, and only the callback of that worker removes it    *)
(* (pod_injector.go 221-293, 341-372).                                     *)
THEOREM OneWorkerSuffices == Spec => []UndisturbedOneWorker
<1>1. ASSUME IInv PROVE UndisturbedOneWorker
  <2> SUFFICES ASSUME Undisturbed, currentMaxWorkers = 1 PROVE Cardinality(Active) <= 1
      BY DEF UndisturbedOneWorker, RunningWithinMax, Undisturbed
  <2>1. \E x : Active \subseteq {x}
    <3>1. CASE Maximum = 1
      <4>1. OneWorkerInv
            BY <1>1, <3>1 DEF IInv, OneInv
      <4> QED BY <4>1 DEF OneWorkerInv, Active, Appending
    <3>2. CASE Maximum # 1
      <4>1. NothingAsked
            BY <1>1, <3>2 DEF IInv, MaximumInv
      <4> QED BY <4>1 DEF NothingAsked, Active
    <3> QED BY <3>1, <3>2
  <2>2. PICK x : Active \subseteq {x}
        BY <2>1
  <2>3. IsFiniteSet({x}) /\ Cardinality({x}) = 1
        BY FS_Singleton
  <2>4. Cardinality(Active) <= Cardinality({x})
        BY <2>2, <2>3, FS_Subset
  <2> QED BY <2>3, <2>4
<1> QED BY <1>1, Invariance, PTL

(* With nobody editing, no call failing and no panic, a successful         *)
(* collection is taken for a lost connection only between the moment its   *)
(* callback removes the worker and the moment it stores the outcome: from  *)
(* then on getStatus answers "done" until Complete is processed, which is  *)
(* sent only after the completion was reported (pod_injector.go 256-290,   *)
(* linperf.go 120-156, openlibertyperformancedata_controller.go 225-302).  *)
THEOREM LostWithinCallback == Spec => LostOnlyInCallback
<1> DEFINE Lost == rec.pc = "poll" /\ rec'.pc = "act" /\ ConnectionLost(rec'.answer, rec.mem)
                   /\ Collected(rec.key) /\ edits = 0 /\ faults = 0 /\ SameProcess
           Within == Lost => InCallback(rec.key)
<1>1. IInv /\ [Next]_vars => [Within]_vars
  <2> SUFFICES ASSUME IInv, [Next]_vars, Lost, ~InCallback(rec.key) PROVE FALSE
      OBVIOUS
  <2>0. /\ TypeOK /\ RecInv /\ CollectedInv /\ OneScriptInv /\ OutcomeInv
        /\ rec.key \in Key /\ status[rec.key].completed # "True"
        BY DEF IInv, KeptInv, Undisturbed, RecInv
  <2>1. PollStatus /\ rec'.pc = IF Status(rec.key) = "done" THEN "fileName" ELSE "act"
        BY <2>0, RecStep
  <2>2. rec'.answer = Status(rec.key)
    <3> DEFINE pc == IF Status(rec.key) = "done" THEN "fileName" ELSE "act"
    <3>1. rec' = [rec EXCEPT !.pc = pc, !.answer = Status(rec.key)] /\ rec \in Recs
          BY <2>0, <2>1, RecFields DEF PollStatus
    <3> HIDE DEF pc
    <3> QED BY <3>1 DEF Recs
  <2>3. PICK s \in Session : session[s].key = rec.key /\ session[s].ok
        BY DEF Collected
  <2>4. Ended(s)
    <3>1. session[s].pc \in SessionPC /\ session[s].pc # "running"
          BY <2>0, <2>3, SessionFields DEF CollectedInv, TypeOK
    <3> QED BY <2>3, <3>1 DEF SessionPC, SameProcess, InCallback, Ended
  <2>5. completedPods[rec.key] = "TRUE"
        BY <2>0, <2>3, <2>4 DEF OutcomeInv
  <2>6. rec.key \notin erroringPods
        BY <2>0, <2>3 DEF OutcomeInv, OneScriptInv
  <2>7. Status(rec.key) \in {"writing", "done"}
        BY <2>5, <2>6 DEF Status
  <2> QED BY <2>1, <2>2, <2>7 DEF ConnectionLost
<1>2. Spec => [][Within]_vars
      BY <1>1, Invariance, PTL DEF Spec
<1> QED BY <1>2 DEF LostOnlyInCallback

(* With nobody editing, no call failing and no panic, one script is run    *)
(* for a resource: Start is sent only by a reconcile that found nothing    *)
(* running, and not again by one that reads the status the first has       *)
(* written (openlibertyperformancedata_controller.go 225-262).             *)
THEOREM UndisturbedOneScript == Spec => []UndisturbedOneGather
<1>1. IInv => UndisturbedOneGather
      BY DEF IInv, KeptInv, OneScriptInv, Undisturbed, UndisturbedOneGather, OneGatherPerCR
<1> QED BY <1>1, Invariance, PTL
===========================================================================
