---------------------------- MODULE Application -----------------------------
(***************************************************************************)
(* The reconcile of an OpenLibertyApplication                              *)
(* (internal/controller/openlibertyapplication_controller.go): finalizer   *)
(* and validation, the image and the Liberty version found in it, and the  *)
(* resources of the application, which are made or deleted one after the   *)
(* other.  The user edits or deletes the application at any point of a     *)
(* reconcile, calls to the API server fail, the operator is restarted.     *)
(* The protocols that Reconcile calls have modules of their own; here they *)
(* are steps that may fail: LTPA and encryption keys (ResourceSharing,     *)
(* KeyRotation), the Semeru compiler (Semeru).                             *)
(***************************************************************************)
EXTENDS Integers, Sequences, FiniteSets

CONSTANTS Specs,         \* specifications the user may give
          FirstSpecs,    \* those the application may be created with
          Clusters,      \* sets of supported kinds of resources
          Streams,       \* images that are tags of an image stream
          Tags,          \* other images, given by tag
          Digests,       \* images the tags of streams point to
          Version,       \* reference -> Liberty version: "old", "new", "unlabelled"
          MaxUserEdits,  \* bound: edits, deletions and pushes to a stream
          MaxFaults      \* bound: failed calls and restarts

Refs == Tags \union Digests
Owned == {"Service", "Headless", "Deployment", "StatefulSet", "Autoscaler", "NetworkPolicy",
          "Route", "Ingress", "KnativeService", "ServiceMonitor"}
Optional == {"Route", "Ingress", "KnativeService", "ServiceMonitor"}
AllSpecs == [kind : {"Deployment", "StatefulSet", "KnativeService"}, image : Tags \union Streams,
             expose : BOOLEAN, autoscaling : BOOLEAN, monitoring : BOOLEAN, networkPolicy : BOOLEAN,
             storage : {"none", "own", "invalid"}, fileProbes : BOOLEAN]
None == "none"

ASSUME ApplicationAssumption ==
    /\ FirstSpecs \subseteq Specs /\ Specs \subseteq AllSpecs
    /\ Clusters \subseteq SUBSET Optional
    /\ Version \in [Refs -> {"old", "new", "unlabelled"}]
    /\ Streams \intersect Refs = {} /\ None \notin Refs \union Streams
    /\ MaxUserEdits \in Nat /\ MaxFaults \in Nat

VARIABLES supported,   \* kinds of resources the cluster supports
          stream,      \* image stream tag -> the image it points to
          app,         \* the resource: exists, deleting, finalizer, gen, spec
          status,      \* .status: image, version, lastPull, semeru, observed
          res,         \* kind -> generation it was last written for, 0 if there is none
          pvc,         \* the claim for serviceability: "absent", "pending", "bound"
          queued,      \* a reconcile is due
          rec,         \* the reconcile in progress
          edits, faults

vars == << supported, stream, app, status, res, pvc, queued, rec, edits, faults >>
cluster == << supported, stream, edits >>

-----------------------------------------------------------------------------
(* .status.semeru is the image for which the Semeru generation is.         *)
NoStatus == [image |-> None, version |-> "unset", lastPull |-> "never", semeru |-> None, observed |-> 0]
NoRec == [pc |-> "idle"]
MaxGen == MaxUserEdits + 1

NoFault == UNCHANGED faults
Fault == faults < MaxFaults /\ faults' = faults + 1

(* The resource is not what the reconcile read: its updates are refused.   *)
Stale == ~app.exists \/ app.gen # rec.gen

Goto(pc, mem) == rec' = [rec EXCEPT !.pc = pc, !.mem = mem]
Return == rec' = NoRec
(* ManageError and ManageSuccess store all of the status, and the queue    *)
(* repeats the reconcile after an interval.                                *)
StoreStatus(mem) == status' = IF Stale THEN status ELSE mem

(* Mutant: the reconcile is not repeated.                                  *)
ManageError_NoRetry(mem) == StoreStatus(mem) /\ UNCHANGED queued /\ Return

ManageError(mem) == StoreStatus(mem) /\ queued' = TRUE /\ Return
ReturnError == queued' = TRUE /\ Return /\ UNCHANGED status

-----------------------------------------------------------------------------
(* Reading, finalizer, validation.                                         *)

(* Mutant: the finalizer is not added.                                     *)
Start_NoFinalizer ==
    /\ rec.pc = "idle" /\ queued
    /\ queued' = FALSE /\ NoFault
    /\ rec' = IF ~app.exists \/ (app.deleting /\ ~app.finalizer) THEN NoRec
              ELSE [pc |-> IF app.deleting THEN "finalize" ELSE "validate",
                    gen |-> app.gen, spec |-> app.spec, old |-> status.image, mem |-> status,
                    streamed |-> FALSE, plan |-> << >>]
    /\ UNCHANGED << cluster, app, status, res, pvc >>

(* A failure to read the resource or the cluster's names repeats it.       *)
Start ==
    /\ rec.pc = "idle" /\ queued
    /\ \/ /\ queued' = FALSE /\ NoFault
          /\ rec' = IF ~app.exists \/ (app.deleting /\ ~app.finalizer) THEN NoRec
                    ELSE [pc |-> IF app.deleting THEN "finalize"
                                 ELSE IF app.finalizer THEN "validate" ELSE "addFinalizer",
                          gen |-> app.gen, spec |-> app.spec, old |-> status.image, mem |-> status,
                          streamed |-> FALSE, plan |-> << >>]
       \/ Fault /\ UNCHANGED << queued, rec >>
    /\ UNCHANGED << cluster, app, status, res, pvc >>

(* finalizeOpenLibertyApplication: a claim that is not bound is deleted;   *)
(* errors of that are ignored.                                             *)
Finalize ==
    /\ rec.pc = "finalize"
    /\ \/ pvc' = (IF pvc = "pending" THEN "absent" ELSE pvc) /\ NoFault
       \/ pvc = "pending" /\ Fault /\ UNCHANGED pvc
    /\ Goto("removeFinalizer", rec.mem)
    /\ UNCHANGED << cluster, app, status, res, queued >>

RemoveFinalizer ==
    /\ rec.pc = "removeFinalizer"
    /\ \/ app' = [app EXCEPT !.exists = FALSE] /\ Return /\ NoFault /\ UNCHANGED << status, queued >>
       \/ Fault /\ ReturnError /\ UNCHANGED app
    /\ UNCHANGED << cluster, res, pvc >>

AddFinalizer ==
    /\ rec.pc = "addFinalizer"
    /\ \/ ~Stale /\ NoFault /\ app' = [app EXCEPT !.finalizer = TRUE]
          /\ Goto("validate", rec.mem) /\ UNCHANGED << status, queued >>
       \/ (Fault \/ (Stale /\ NoFault)) /\ ReturnError /\ UNCHANGED app
    /\ UNCHANGED << cluster, res, pvc >>

(* Nothing is repeated when the specification is not valid.  Otherwise the *)
(* resource is updated.                                                    *)
Validate ==
    /\ rec.pc = "validate"
    /\ IF rec.spec.storage = "invalid"
       THEN StoreStatus(rec.mem) /\ Return /\ NoFault /\ UNCHANGED queued
       ELSE \/ ~Stale /\ NoFault /\ Goto("image", rec.mem) /\ UNCHANGED << status, queued >>
            \/ (Fault \/ (Stale /\ NoFault)) /\ ManageError(rec.mem)
    /\ UNCHANGED << cluster, app, res, pvc >>

-----------------------------------------------------------------------------
(* The image and its Liberty version.                                      *)

IsLibertyVersionCheckNeeded == rec.spec.fileProbes
FromStream == rec.spec.image \in Streams
NilLibertyVersion == "0.0.0.0"
Label(ref) == IF Version[ref] = "unlabelled" THEN NilLibertyVersion ELSE Version[ref]

(* What the tag of the image stream says of image and version.             *)
ReadStream(mem) ==
    LET image == stream[rec.spec.image]
        read == [mem EXCEPT !.image = image]
    IN  IF ~IsLibertyVersionCheckNeeded \/ mem.version = Label(image) THEN read
        ELSE [read EXCEPT !.version = Label(image), !.lastPull = "recent"]

(* Mutant: the time of the last pull is kept.                              *)
Clear_VersionOnly(mem) == [mem EXCEPT !.version = "unset"]

Clear(mem) == [mem EXCEPT !.version = "unset", !.lastPull = "never"]

(* Mutant: the version is kept when the image changes.                     *)
Outdated_Unneeded(mem) == ~IsLibertyVersionCheckNeeded

Outdated(mem) == ~IsLibertyVersionCheckNeeded \/ mem.image # rec.old

(* A stream that cannot be read is taken for no stream at all: the image   *)
(* is then the name of the tag.                                            *)
ReadImage ==
    /\ rec.pc = "image"
    /\ \/ /\ FromStream /\ NoFault
          /\ LET mem == ReadStream(rec.mem)
             IN  rec' = [rec EXCEPT !.pc = "account", !.streamed = TRUE,
                                    !.mem = IF IsLibertyVersionCheckNeeded THEN mem ELSE Clear(mem)]
       \/ /\ IF FromStream THEN Fault ELSE NoFault
          /\ LET mem == [rec.mem EXCEPT !.image = rec.spec.image]
             IN  Goto("account", IF Outdated(mem) THEN Clear(mem) ELSE mem)
    /\ UNCHANGED << cluster, app, status, res, pvc, queued >>

(* The service account and its pull secret.                                *)
ReconcileAccount ==
    /\ rec.pc = "account"
    /\ \/ NoFault /\ Goto("pull", rec.mem) /\ UNCHANGED << status, queued >>
       \/ Fault /\ ManageError(rec.mem)
    /\ UNCHANGED << cluster, app, res, pvc >>

(* Mutant: only a known version is pulled again.                           *)
PullDue_Known(mem) ==
    mem.version = "unset" \/ (mem.lastPull = "old" /\ mem.version # NilLibertyVersion)

(* Images are given by tag, so the interval counts from the last pull.     *)
PullDue(mem) == mem.version = "unset" \/ mem.lastPull = "old"

(* pullLibertyVersionFromManifest; a registry knows no tag of a stream.     *)
HasLabel(image) == image \in Tags /\ Version[image] # "unlabelled"

(* A pull that fails leaves the time of the last one as it is; so does one *)
(* that finds no version.                                                  *)
PullVersion ==
    /\ rec.pc = "pull"
    /\ IF ~IsLibertyVersionCheckNeeded \/ rec.streamed \/ ~PullDue(rec.mem)
       THEN Goto("guards", rec.mem) /\ NoFault
       ELSE \/ HasLabel(rec.spec.image) /\ NoFault
               /\ Goto("guards", [rec.mem EXCEPT !.version = Version[rec.spec.image],
                                                 !.lastPull = "recent"])
            \/ (IF HasLabel(rec.spec.image) THEN Fault ELSE NoFault)
               /\ Goto("guards", [rec.mem EXCEPT !.version = NilLibertyVersion])
    /\ UNCHANGED << cluster, app, status, res, pvc, queued >>

(* checkLibertyVersionGuards.                                              *)
TooOld(mem) == IsLibertyVersionCheckNeeded /\ mem.version = "old"

CheckGuards ==
    /\ rec.pc = "guards"
    /\ \/ ~TooOld(rec.mem) /\ NoFault /\ Goto("status", rec.mem) /\ UNCHANGED << status, queued >>
       \/ ((TooOld(rec.mem) /\ NoFault) \/ Fault) /\ ManageError(rec.mem)
    /\ UNCHANGED << cluster, app, res, pvc >>

(* A new image starts a new Semeru generation.  imageReferenceOld is what  *)
(* the reconcile read from the status.                                     *)
UpdateStatus ==
    /\ rec.pc = "status"
    /\ LET mem == IF rec.old = rec.mem.image THEN rec.mem
                  ELSE [rec.mem EXCEPT !.semeru = rec.mem.image]
       IN  \/ NoFault /\ (rec.old # rec.mem.image => ~Stale)
              /\ status' = (IF rec.old = rec.mem.image THEN status ELSE mem)
              /\ Goto("plan", mem) /\ UNCHANGED queued
           \/ (Fault \/ (Stale /\ rec.old # rec.mem.image /\ NoFault)) /\ ManageError(mem)
    /\ UNCHANGED << cluster, app, res, pvc >>

-----------------------------------------------------------------------------
(* The resources.  A step makes or deletes one kind, or calls a protocol   *)
(* ("call"); onError says what an error may lead to: the reconcile stops,  *)
(* reports it and goes on, or ignores it.                                  *)

Step(op, kind, onError) == [op |-> op, kind |-> kind, onError |-> onError]
Make(kind) == Step("make", kind, {"stop"})
Drop(kind) == Step("drop", kind, {"stop"})
Call == Step("call", None, {"stop"})
MakeIf(condition, kind) == << IF condition THEN Make(kind) ELSE Drop(kind) >>
When(condition, steps) == IF condition THEN steps ELSE << >>
(* The reconcile also goes on when it cannot tell whether the kind is      *)
(* supported.                                                              *)
MakeOptional(condition, kind) ==
    << Step(IF condition THEN "make" ELSE "drop", kind, {"stop", "report"}) >>

KnativePlan(s) ==
    << Drop("Service"), Drop("Headless"), Drop("Deployment"), Drop("StatefulSet"),
       Drop("Autoscaler"), Drop("NetworkPolicy") >>
    \o When("Ingress" \in supported, << Step("drop", "Ingress", {"ignore"}) >>)
    \o When("Route" \in supported, << Drop("Route") >>)
    \o << IF "KnativeService" \in supported THEN Make("KnativeService") ELSE Step("refuse", None, {"stop"}) >>

StoragePlan(s) == << Step(IF s.storage = "own" THEN "claim" ELSE "unclaim", None, {"stop"}) >>

(* Mutant: the new workload is made before the former one is deleted.      *)
WorkloadPlan_MakeFirst(s) ==
    IF s.kind = "StatefulSet"
    THEN << Make("Headless"), Make("StatefulSet"), Drop("Deployment") >>
    ELSE << Drop("Headless"), Make("Deployment"), Drop("StatefulSet") >>

WorkloadPlan(s) ==
    IF s.kind = "StatefulSet"
    THEN << Drop("Deployment"), Make("Headless"), Make("StatefulSet") >>
    ELSE << Drop("StatefulSet"), Drop("Headless"), Make("Deployment") >>

ExposePlan(s) ==
    IF "Route" \in supported THEN MakeOptional(s.expose, "Route")
    ELSE When("Ingress" \in supported, MakeOptional(s.expose, "Ingress"))

(* Mutant: the reconcile goes on when the autoscaler cannot be written.    *)
ScalePlan_GoOn(s) == << Step(IF s.autoscaling THEN "make" ELSE "drop", "Autoscaler", {"report"}) >>

ScalePlan(s) == MakeIf(s.autoscaling, "Autoscaler")

MonitorPlan(s) ==
    When("ServiceMonitor" \in supported, MakeOptional(s.monitoring, "ServiceMonitor"))

(* Calls: the Semeru compiler; bindings and keys.                          *)
Plan(s) ==
    IF s.kind = "KnativeService" THEN << Call >> \o KnativePlan(s)
    ELSE << Call >>
         \o When("KnativeService" \in supported, << Step("drop", "KnativeService", {"report"}) >>)
         \o << Make("Service") >> \o MakeIf(s.networkPolicy, "NetworkPolicy")
         \o StoragePlan(s) \o << Call >> \o WorkloadPlan(s) \o ScalePlan(s) \o ExposePlan(s)
         \o MonitorPlan(s)

MakePlan ==
    /\ rec.pc = "plan" /\ NoFault
    /\ rec' = [rec EXCEPT !.pc = "steps", !.plan = Plan(rec.spec)]
    /\ UNCHANGED << cluster, app, status, res, pvc, queued >>

NextStep == Head(rec.plan)
EndStep == rec' = [rec EXCEPT !.plan = Tail(@)]

TakeStep ==
    /\ rec.pc = "steps" /\ rec.plan # << >> /\ NoFault
    /\ NextStep.op \in {"make", "drop", "call"}
    /\ res' = CASE NextStep.op = "make" -> [res EXCEPT ![NextStep.kind] = rec.gen]
                [] NextStep.op = "drop" -> [res EXCEPT ![NextStep.kind] = 0]
                [] OTHER -> res
    /\ EndStep
    /\ UNCHANGED << cluster, app, status, pvc, queued >>

StepFails ==
    /\ rec.pc = "steps" /\ rec.plan # << >> /\ NextStep.op # "unclaim"
    /\ IF NextStep.op = "refuse" THEN NoFault ELSE Fault
    /\ \/ "stop" \in NextStep.onError /\ ManageError(rec.mem)
       \/ "report" \in NextStep.onError /\ StoreStatus(rec.mem) /\ EndStep /\ UNCHANGED queued
       \/ "ignore" \in NextStep.onError /\ EndStep /\ UNCHANGED << status, queued >>
    /\ UNCHANGED << cluster, app, res, pvc >>

(* The claim has no owner; an existing one is left as it is.               *)
MakeClaim ==
    /\ rec.pc = "steps" /\ rec.plan # << >> /\ NextStep.op = "claim" /\ NoFault
    /\ pvc' = (IF pvc = "absent" THEN "pending" ELSE pvc)
    /\ EndStep
    /\ UNCHANGED << cluster, app, status, res, queued >>

(* deletePVC; errors are ignored.                                          *)
DropClaim ==
    /\ rec.pc = "steps" /\ rec.plan # << >> /\ NextStep.op = "unclaim"
    /\ \/ pvc' = (IF pvc = "pending" THEN "absent" ELSE pvc) /\ NoFault
       \/ pvc = "pending" /\ Fault /\ UNCHANGED pvc
    /\ EndStep
    /\ UNCHANGED << cluster, app, status, res, queued >>

ManageSuccess ==
    /\ rec.pc = "steps" /\ rec.plan = << >> /\ NoFault
    /\ StoreStatus([rec.mem EXCEPT !.observed = rec.gen])
    /\ queued' = TRUE /\ Return
    /\ UNCHANGED << cluster, app, res, pvc >>

-----------------------------------------------------------------------------
(* The others.                                                             *)

UserEdit == edits < MaxUserEdits /\ edits' = edits + 1

(* The watch of the application enqueues it.                               *)
EditSpec(s) ==
    /\ UserEdit /\ NoFault /\ app.exists /\ ~app.deleting /\ s # app.spec
    /\ app' = [app EXCEPT !.spec = s, !.gen = @ + 1]
    /\ queued' = TRUE
    /\ UNCHANGED << supported, stream, status, res, pvc, rec >>

Delete ==
    /\ UserEdit /\ NoFault /\ app.exists /\ ~app.deleting
    /\ app' = IF app.finalizer THEN [app EXCEPT !.deleting = TRUE, !.gen = @ + 1]
              ELSE [app EXCEPT !.exists = FALSE]
    /\ queued' = TRUE
    /\ UNCHANGED << supported, stream, status, res, pvc, rec >>

(* The watch of image streams enqueues the applications of that image, if  *)
(* it can list them.                                                       *)
PushToStream(image, ref) ==
    /\ UserEdit /\ stream[image] # ref
    /\ stream' = [stream EXCEPT ![image] = ref]
    /\ \/ queued' = (queued \/ (app.exists /\ app.spec.image = image)) /\ NoFault
       \/ Fault /\ UNCHANGED queued
    /\ UNCHANGED << supported, app, status, res, pvc, rec >>

(* Kubernetes: the claim is bound; what an application owned is collected. *)
Bind ==
    /\ pvc = "pending" /\ pvc' = "bound" /\ NoFault
    /\ UNCHANGED << cluster, app, status, res, queued, rec >>

Collect ==
    /\ ~app.exists /\ NoFault
    /\ \E kind \in Owned : res[kind] # 0 /\ res' = [res EXCEPT ![kind] = 0]
    /\ UNCHANGED << cluster, app, status, pvc, queued, rec >>

(* imageVersionChecksRefreshIntervalMinutes pass, much longer than a       *)
(* reconcile takes.                                                        *)
Elapse ==
    /\ rec.pc = "idle" /\ status.lastPull = "recent" /\ NoFault
    /\ status' = [status EXCEPT !.lastPull = "old"]
    /\ UNCHANGED << cluster, app, res, pvc, queued, rec >>

(* The operator lists all applications when it starts.                     *)
Restart ==
    /\ rec.pc # "idle" /\ Fault
    /\ Return /\ queued' = TRUE
    /\ UNCHANGED << cluster, app, status, res, pvc >>

Init ==
    /\ supported \in Clusters
    /\ stream \in [Streams -> Digests]
    /\ app \in [exists : {TRUE}, deleting : {FALSE}, finalizer : {FALSE}, gen : {1}, spec : FirstSpecs]
    /\ status = NoStatus
    /\ res = [kind \in Owned |-> 0] /\ pvc = "absent"
    /\ queued = TRUE /\ rec = NoRec
    /\ edits = 0 /\ faults = 0

Reconcile ==
    \/ Start \/ Finalize \/ RemoveFinalizer \/ AddFinalizer \/ Validate
    \/ ReadImage \/ ReconcileAccount \/ PullVersion \/ CheckGuards \/ UpdateStatus
    \/ MakePlan \/ TakeStep \/ StepFails \/ MakeClaim \/ DropClaim \/ ManageSuccess

Next ==
    \/ Reconcile
    \/ \E s \in Specs : EditSpec(s)
    \/ Delete
    \/ \E image \in Streams, ref \in Digests : PushToStream(image, ref)
    \/ Bind \/ Collect \/ Elapse \/ Restart

Spec == Init /\ [][Next]_vars

(* The queue repeats the reconcile, time passes, garbage is collected.     *)
FairSpec == Spec /\ WF_vars(Reconcile) /\ WF_vars(Collect) /\ WF_vars(Elapse)

-----------------------------------------------------------------------------
(* Properties.                                                             *)

Workloads == {"Deployment", "StatefulSet", "KnativeService"}
Wanted(s) ==
    {s.kind} \union
    (IF s.kind = "KnativeService" THEN {}
     ELSE {"Service"} \union (IF s.kind = "StatefulSet" THEN {"Headless"} ELSE {})
          \union (IF s.networkPolicy THEN {"NetworkPolicy"} ELSE {})
          \union (IF s.autoscaling THEN {"Autoscaler"} ELSE {})
          \union (IF s.monitoring THEN {"ServiceMonitor"} \cap supported ELSE {})
          \union (IF ~s.expose THEN {}
                  ELSE IF "Route" \in supported THEN {"Route"} ELSE {"Ingress"} \cap supported))

AsWanted(kinds) ==
    \A kind \in kinds : res[kind] = IF kind \in Wanted(app.spec) THEN app.gen ELSE 0

(* The variables hold what the code and the cluster keep in them.          *)
TypeOK ==
    /\ supported \in Clusters /\ stream \in [Streams -> Digests]
    /\ app \in [exists : BOOLEAN, deleting : BOOLEAN, finalizer : BOOLEAN,
                gen : 1 .. MaxGen, spec : Specs]
    /\ status \in [image : Refs \union Streams \union {None}, version : {"unset", NilLibertyVersion, "old", "new"},
                   lastPull : {"never", "recent", "old"}, semeru : Refs \union Streams \union {None},
                   observed : 0 .. MaxGen]
    /\ status.version = "unset" => status.lastPull = "never"
    /\ res \in [Owned -> 0 .. MaxGen] /\ pvc \in {"absent", "pending", "bound"}
    /\ queued \in BOOLEAN
    /\ edits \in 0 .. MaxUserEdits /\ faults \in 0 .. MaxFaults

(* However often the user changes the kind of the workload, and wherever a *)
(* reconcile stops: an application never has a Deployment and a            *)
(* StatefulSet, nor a Knative Service besides them unless a call failed.   *)
OneWorkload ==
    /\ res["Deployment"] = 0 \/ res["StatefulSet"] = 0
    /\ faults = 0 => Cardinality({kind \in Workloads : res[kind] # 0}) <= 1

(* A generation is reported as observed only when every resource whose     *)
(* errors stop a reconcile is as that generation asks, and none is left    *)
(* that it does not ask for.                                               *)
ObservedIsComplete ==
    [][status'.observed # status.observed =>
         /\ AsWanted(Owned \ Optional)'
         /\ app'.spec.kind = "KnativeService" => AsWanted({"KnativeService"})'
         /\ app'.spec.storage = "own" /\ app'.spec.kind # "KnativeService" => pvc' # "absent"]_vars

(* Once an application is gone no reconcile makes anything for it: the     *)
(* claim, which nothing owns, would stay for good.                         *)
NothingAfterDeletion ==
    [][~app.exists => /\ \A kind \in Owned : res'[kind] \in {0, res[kind]}
                      /\ pvc = "absent" => pvc' = "absent"]_vars

(* The Liberty version in the status is that of the image next to it:      *)
(* the guards never judge an image by the version of a former one.         *)
VersionIsOfImage ==
    status.version \in {"old", "new"} =>
        /\ status.image \in Refs
        /\ status.version = Version[status.image]

(* When the edits and the failures end, everything is as the last          *)
(* specification asks, and reported; and nothing is left of an application *)
(* that is gone.  What a change to a Knative Service leaves behind is not  *)
(* looked at.                                                              *)
Rejected ==
    \/ app.spec.storage = "invalid"
    \/ app.spec.fileProbes /\ status.version = "old"
    \/ app.spec.kind = "KnativeService" /\ "KnativeService" \notin supported

Settled ==
    IF ~app.exists THEN \A kind \in Owned : res[kind] = 0
    ELSE ~app.deleting /\ (Rejected \/
           /\ status.observed = app.gen
           /\ AsWanted(Owned \ (IF app.spec.kind = "KnativeService" THEN {"ServiceMonitor"} ELSE {}))
           /\ app.spec.kind # "KnativeService" =>
                 IF app.spec.storage = "own" THEN pvc # "absent" ELSE pvc # "pending")

Settles == <>[]Settled

(* A version that could not be pulled again is pulled once the registry    *)
(* answers, if one was pulled of the same image before.                    *)
NotPulled(ref) ==
    status.version = NilLibertyVersion /\ status.image = ref /\ Version[ref] # "unlabelled"
Reconcilable == app.exists /\ app.spec.storage # "invalid"

PulledAgain ==
    \A ref \in Tags :
      (NotPulled(ref) /\ status.lastPull # "never") ~> (~NotPulled(ref) \/ ~Reconcilable)
=============================================================================
