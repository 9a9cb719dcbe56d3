---------------------------- MODULE PodInjector ----------------------------
(***************************************************************************)
(* The pod injector (utils/socket/pod_injector.go, linperf.go): a server   *)
(* in the operator process that copies the linperf script into a pod, runs *)
(* it there and remembers how it ended.                                    *)
(*                                                                         *)
(* A key stands for the pod and the uid of the OpenLibertyPerformanceData  *)
(* resource that asks for the collection.  Requests come over a unix       *)
(* socket, one connection per reconcile; processAction runs them one at a  *)
(* time under a mutex.  Polls are answered within the reconcile; Start and *)
(* Complete are sent without waiting for the answer, and a connection has  *)
(* a goroutine of its own, so they are processed some time later, in any   *)
(* order across connections.                                               *)
(*                                                                         *)
(* The script runs in a goroutine, a session, that calls doneCallback      *)
(* WITHOUT the mutex.  The slice of workers is therefore shared without    *)
(* synchronisation: its header (count) is read and written back in         *)
(* separate steps, and elements are shifted in the backing array (slots).  *)
(***************************************************************************)
EXTENDS Integers, Sequences, FiniteSets

CONSTANTS Key,          \* collections that may be asked for
          MinWorkers,   \* least accepted value of performanceDataMaxWorkers
          MaxWorkers,   \* greatest accepted value
          DefaultMax,   \* value of currentMaxWorkers when the operator starts
          MaxSessions,  \* bound: scripts started, over all restarts
          MaxPending    \* bound: requests of a kind for a key not yet processed

ASSUME WorkerAssumption ==
    /\ MinWorkers \in Nat \ {0}
    /\ MaxWorkers \in Nat
    /\ MinWorkers <= DefaultMax /\ DefaultMax <= MaxWorkers
    /\ DefaultMax \in Nat
    /\ MaxSessions \in Nat
    /\ MaxPending \in Nat

VARIABLES pending,           \* requests sent and not processed yet
          op,                \* the request processAction is in, if any
          session,           \* the goroutines that run scripts, oldest first
          slots,             \* backing array of the slice workers
          count,             \* length of the slice workers
          currentMaxWorkers,
          completedPods,     \* per key: absent, FALSE or TRUE
          erroringPods,      \* keys with a stored error
          linperfFileNames   \* keys with a stored file name

workerVars == << slots, count >>
mapVars == << completedPods, erroringPods, linperfFileNames >>
injectorVars == << pending, op, session, slots, count, currentMaxWorkers,
                   completedPods, erroringPods, linperfFileNames >>

Session == 1 .. Len(session)
IdleOp == [pc |-> "idle", key |-> "none", session |-> 0, index |-> 0, count |-> 0,
           saved |-> [n \in 1 .. MaxSessions |-> 0]]
NewSession(k) == [key |-> k, pc |-> "running", ok |-> FALSE, index |-> 0, count |-> 0,
                  cancelled |-> FALSE]

KeyAt(n) == session[slots[n]].key
WorkersOf(k) == {n \in 1 .. count : KeyAt(n) = k}
hasWorker(k) == WorkersOf(k) # {}

(* The loop of removeWorker: index of the first worker, 0 if there is none. *)
IndexOf(k) ==
    IF hasWorker(k) THEN CHOOSE n \in WorkersOf(k) : \A m \in WorkersOf(k) : n <= m ELSE 0

(* append(workers[:index], workers[index+1:]...) for a header of length n:  *)
(* the elements after index move down one slot.                             *)
Shift(index, n) ==
    /\ slots' = [m \in DOMAIN slots |->
                   IF index <= m /\ m < n THEN slots[m + 1] ELSE slots[m]]
    /\ count' = n - 1

Send(k, action) ==
    /\ pending[k][action] < MaxPending
    /\ pending' = [pending EXCEPT ![k][action] = @ + 1]
Receive(k, action) ==
    /\ op.pc = "idle"
    /\ pending[k][action] > 0
    /\ pending' = [pending EXCEPT ![k][action] = @ - 1]

-----------------------------------------------------------------------------
(* processAction, under the mutex.                                         *)

InjectorInit ==
    /\ pending = [k \in Key |-> [start |-> 0, complete |-> 0]]
    /\ op = IdleOp
    /\ session = << >>
    /\ slots = [n \in 1 .. MaxSessions |-> 0]
    /\ count = 0
    /\ currentMaxWorkers = DefaultMax
    /\ completedPods = [k \in Key |-> "absent"]
    /\ erroringPods = {}
    /\ linperfFileNames = {}

(* Mutant: accepts any number.                                             *)
SetMaxWorkers_Unchecked(desiredWorkers) ==
    /\ op.pc = "idle"
    /\ currentMaxWorkers' = IF count > desiredWorkers THEN count ELSE desiredWorkers
    /\ UNCHANGED << pending, op, session, workerVars, mapVars >>

(* Lowered below the number of active workers it only goes down to that.   *)
SetMaxWorkers(desiredWorkers) ==
    /\ op.pc = "idle"
    /\ currentMaxWorkers' =
         IF desiredWorkers \in MinWorkers .. MaxWorkers /\ desiredWorkers # currentMaxWorkers
         THEN IF count > desiredWorkers THEN count ELSE desiredWorkers
         ELSE currentMaxWorkers
    /\ UNCHANGED << pending, op, session, workerVars, mapVars >>

(* Mutant: starts whatever the number of workers.                          *)
StartRefused_NoLimit(k) == hasWorker(k)

StartRefused(k) == hasWorker(k) \/ count >= currentMaxWorkers

RefuseStart(k) ==
    /\ Receive(k, "start")
    /\ StartRefused(k)
    /\ UNCHANGED << op, session, workerVars, currentMaxWorkers, mapVars >>

(* The goroutine runs from here on, before it is one of the workers.       *)
Start(k) ==
    /\ Receive(k, "start")
    /\ ~StartRefused(k)
    /\ Len(session) < MaxSessions
    /\ completedPods' = [completedPods EXCEPT ![k] = "FALSE"]
    /\ linperfFileNames' = linperfFileNames \ {k}
    /\ session' = Append(session, NewSession(k))
    /\ op' = [IdleOp EXCEPT !.pc = "append", !.key = k, !.session = Len(session) + 1]
    /\ UNCHANGED << workerVars, currentMaxWorkers, erroringPods >>

(* CopyAndRunLinperf returns an error: the answer is "writing" all the same. *)
StartFails(k) ==
    /\ Receive(k, "start")
    /\ ~StartRefused(k)
    /\ completedPods' = [completedPods EXCEPT ![k] = "FALSE"]
    /\ linperfFileNames' = linperfFileNames \ {k}
    /\ UNCHANGED << op, session, workerVars, currentMaxWorkers, erroringPods >>

AppendRead ==
    /\ op.pc = "append"
    /\ op' = [op EXCEPT !.pc = "appendWrite", !.count = count, !.saved = slots]
    /\ UNCHANGED << pending, session, workerVars, currentMaxWorkers, mapVars >>

(* In place, or in an array allocated for more capacity, which got a copy  *)
(* of the elements that were read.                                         *)
AppendWrite ==
    /\ op.pc = "appendWrite"
    /\ \E base \in {slots, op.saved} :
          slots' = [base EXCEPT ![op.count + 1] = op.session]
    /\ count' = op.count + 1
    /\ op' = IdleOp
    /\ UNCHANGED << pending, session, currentMaxWorkers, mapVars >>

ForgetPod(k) ==
    /\ completedPods' = [completedPods EXCEPT ![k] = "absent"]
    /\ erroringPods' = erroringPods \ {k}
    /\ UNCHANGED linperfFileNames

(* Complete: removeWorker, then the pod is forgotten.                      *)
Complete(k) ==
    /\ Receive(k, "complete")
    /\ \/ /\ ~hasWorker(k)
          /\ ForgetPod(k)
          /\ UNCHANGED op
       \/ /\ hasWorker(k)
          /\ op' = [IdleOp EXCEPT !.pc = "cut", !.key = k, !.index = IndexOf(k)]
          /\ UNCHANGED mapVars
    /\ UNCHANGED << session, workerVars, currentMaxWorkers >>

CompleteCut ==
    /\ op.pc = "cut"
    /\ op.index <= count
    /\ session' = [session EXCEPT ![slots[op.index]].cancelled = TRUE]
    /\ op' = [op EXCEPT !.pc = "shift", !.count = count]
    /\ UNCHANGED << pending, workerVars, currentMaxWorkers, mapVars >>

CompleteShift ==
    /\ op.pc = "shift"
    /\ Shift(op.index, op.count)
    /\ ForgetPod(op.key)
    /\ op' = IdleOp
    /\ UNCHANGED << pending, session, currentMaxWorkers >>

(* The answer to a status poll.                                            *)
Status(k) ==
    CASE hasWorker(k) -> "writing"
      [] ~hasWorker(k) /\ k \in erroringPods -> "error"
      [] ~hasWorker(k) /\ k \notin erroringPods /\ completedPods[k] = "TRUE" -> "done"
      [] OTHER -> IF count >= currentMaxWorkers THEN "toomanyworkers" ELSE "idle"

-----------------------------------------------------------------------------
(* A session: the script ends, with an error or not, or its context is     *)
(* cancelled; doneCallback runs without the mutex.                         *)

ScriptEnds(s) ==
    /\ session[s].pc = "running"
    /\ \E ok \in BOOLEAN : session' = [session EXCEPT ![s].pc = "find", ![s].ok = ok]
    /\ UNCHANGED << pending, op, workerVars, currentMaxWorkers, mapVars >>

(* Mutant: leaves the worker in the list.                                  *)
CallbackFind_Kept(s) ==
    /\ session[s].pc = "find"
    /\ session' = [session EXCEPT ![s].pc = "store"]
    /\ UNCHANGED << pending, op, workerVars, currentMaxWorkers, mapVars >>

CallbackFind(s) ==
    /\ session[s].pc = "find"
    /\ session' = [session EXCEPT ![s].index = IndexOf(session[s].key),
                                  ![s].pc = IF hasWorker(session[s].key) THEN "cut" ELSE "store"]
    /\ UNCHANGED << pending, op, workerVars, currentMaxWorkers, mapVars >>

(* What is cancelled is what the index denotes now.                        *)
CallbackCut(s) ==
    /\ session[s].pc = "cut"
    /\ session[s].index <= count
    /\ session' = [session EXCEPT ![s].pc = "shift", ![s].count = count,
                                  ![slots[session[s].index]].cancelled = TRUE]
    /\ UNCHANGED << pending, op, workerVars, currentMaxWorkers, mapVars >>

CallbackShift(s) ==
    /\ session[s].pc = "shift"
    /\ Shift(session[s].index, session[s].count)
    /\ session' = [session EXCEPT ![s].pc = "store", ![s].index = 0, ![s].count = 0]
    /\ UNCHANGED << pending, op, currentMaxWorkers, mapVars >>

(* Mutant: a failed collection is completed too.                           *)
CallbackStore_Always(s) ==
    /\ session[s].pc = "store"
    /\ completedPods' = [completedPods EXCEPT ![session[s].key] = "TRUE"]
    /\ session' = [session EXCEPT ![s].pc = "name"]
    /\ UNCHANGED << pending, op, workerVars, currentMaxWorkers, erroringPods, linperfFileNames >>

(* Mutant: the callback leaves before it stores that the script succeeded. *)
CallbackStore_ErrorsOnly(s) ==
    /\ session[s].pc = "store"
    /\ erroringPods' = IF session[s].ok THEN erroringPods ELSE erroringPods \union {session[s].key}
    /\ session' = [session EXCEPT ![s].pc = "over"]
    /\ UNCHANGED << pending, op, workerVars, currentMaxWorkers, completedPods, linperfFileNames >>

CallbackStore(s) ==
    /\ session[s].pc = "store"
    /\ \/ /\ session[s].ok
          /\ completedPods' = [completedPods EXCEPT ![session[s].key] = "TRUE"]
          /\ session' = [session EXCEPT ![s].pc = "name"]
          /\ UNCHANGED erroringPods
       \/ /\ ~session[s].ok
          /\ erroringPods' = erroringPods \union {session[s].key}
          /\ session' = [session EXCEPT ![s].pc = "over"]
          /\ UNCHANGED completedPods
    /\ UNCHANGED << pending, op, workerVars, currentMaxWorkers, linperfFileNames >>

CallbackName(s) ==
    /\ session[s].pc = "name"
    /\ linperfFileNames' = linperfFileNames \union {session[s].key}
    /\ session' = [session EXCEPT ![s].pc = "over"]
    /\ UNCHANGED << pending, op, workerVars, currentMaxWorkers, completedPods, erroringPods >>

(* workers[deleteIndex] is out of range: the operator process panics.      *)
IndexOutOfRange ==
    \/ op.pc = "cut" /\ op.index > count
    \/ \E s \in Session : session[s].pc = "cut" /\ session[s].index > count

(* The operator process ends; what it kept in memory is gone.  A session   *)
(* whose goroutine had ended before is past, another one is dead.          *)
InjectorRestart ==
    /\ pending' = [k \in Key |-> [start |-> 0, complete |-> 0]]
    /\ op' = IdleOp
    /\ session' = [s \in Session |->
                     [session[s] EXCEPT !.pc = IF @ \in {"over", "past"} THEN "past" ELSE "dead",
                                        !.index = 0, !.count = 0, !.cancelled = FALSE]]
    /\ slots' = [n \in 1 .. MaxSessions |-> 0]
    /\ count' = 0
    /\ currentMaxWorkers' = DefaultMax
    /\ completedPods' = [k \in Key |-> "absent"]
    /\ erroringPods' = {}
    /\ linperfFileNames' = {}

Process == \/ \E k \in Key : RefuseStart(k) \/ Start(k) \/ Complete(k)
           \/ AppendRead \/ AppendWrite \/ CompleteCut \/ CompleteShift

Callback(s) == CallbackFind(s) \/ CallbackCut(s) \/ CallbackShift(s)
               \/ CallbackStore(s) \/ CallbackName(s)

=============================================================================
