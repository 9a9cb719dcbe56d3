------------------------- MODULE Application_proofs -------------------------
(***************************************************************************)
(* Proofs about Application: the variables keep their types, an            *)
(* application has one workload at a time, its version is that of its      *)
(* image, a generation is observed only when its resources are as it asks, *)
(* and nothing is made for an application that is gone; for any            *)
(* specifications, clusters, images, edits, failed calls and restarts.     *)
(***************************************************************************)
EXTENDS Application, SequencesExt, FiniteSetTheorems, TLAPS

(* The ranges of the variables and of the reconcile in progress.           *)
Sources == Refs \union Streams \union {None}
Versions == {"unset", NilLibertyVersion, "old", "new"}
Statuses == [image : Sources, version : Versions, lastPull : {"never", "recent", "old"},
             semeru : Sources, observed : 0 .. MaxGen]
PCs == {"finalize", "removeFinalizer", "addFinalizer", "validate", "image", "account", "pull",
        "guards", "status", "plan", "steps"}
Steps == [op : {"make", "drop", "call", "refuse", "claim", "unclaim"}, kind : Owned \union {None},
          onError : SUBSET {"stop", "report", "ignore"}]
Recs == [pc : PCs, gen : 1 .. MaxGen, spec : Specs, old : Sources, mem : Statuses,
         streamed : BOOLEAN, plan : Seq(Steps)]
Apps == [exists : BOOLEAN, deleting : BOOLEAN, finalizer : BOOLEAN, gen : 1 .. MaxGen, spec : Specs]

(* The image and the version of a status belong together, and there is no  *)
(* time of a pull without a version.                                       *)
Reads(mem) ==
    /\ mem.version = "unset" => mem.lastPull = "never"
    /\ mem.version \in {"old", "new"} => mem.image \in Refs /\ mem.version = Version[mem.image]

(* A reconcile works on the resource as it was at one of its generations,  *)
(* and one past the finalizer on a resource that the finalizer still       *)
(* holds.                                                                  *)
RecInv ==
    /\ rec = NoRec \/ rec \in Recs
    /\ app.gen <= edits + 1
    /\ rec # NoRec =>
         /\ rec.gen <= app.gen
         /\ rec.gen = app.gen => rec.spec = app.spec
         /\ rec.pc # "addFinalizer" => app.exists /\ app.finalizer

(* What a reconcile carries reads as well as what is stored, and belongs   *)
(* to the image it has read: until it reads one, the image of the status   *)
(* it began with; then, unless a stream told it, the image of the          *)
(* specification.                                                          *)
StatusInv ==
    /\ Reads(status)
    /\ rec # NoRec =>
         /\ Reads(rec.mem) /\ rec.mem.observed = status.observed
         /\ rec.pc \in {"finalize", "removeFinalizer", "addFinalizer", "validate", "image"} =>
              rec.mem.image = rec.old
         /\ rec.pc \in {"account", "pull"} /\ ~rec.streamed => rec.mem.image = rec.spec.image

(* No reconcile in progress.                                               *)
LEMMA NoRecLemma == NoRec.pc = "idle" /\ NoRec \notin Recs
BY DEF NoRec, Recs, PCs

(* The fields of the reconcile in progress.                                *)
LEMMA RecFields ==
    ASSUME NEW r \in Recs
    PROVE  /\ r.pc \in PCs /\ r.gen \in 1 .. MaxGen /\ r.spec \in Specs /\ r.old \in Sources
           /\ r.mem \in Statuses /\ r.streamed \in BOOLEAN /\ r.plan \in Seq(Steps)
           /\ r.pc # "idle" /\ r # NoRec
BY NoRecLemma DEF Recs, PCs

(* Only a reconcile in progress has a position.                            *)
LEMMA Busy == ASSUME RecInv PROVE rec.pc # "idle" => rec \in Recs /\ rec # NoRec
BY NoRecLemma, RecFields DEF RecInv

(* The fields of a status.                                                 *)
LEMMA StatusFields ==
    ASSUME NEW s \in Statuses
    PROVE  /\ s.image \in Sources /\ s.version \in Versions /\ s.semeru \in Sources
           /\ s.lastPull \in {"never", "recent", "old"} /\ s.observed \in 0 .. MaxGen
BY DEF Statuses

(* The fields of a specification.                                          *)
LEMMA SpecFields ==
    ASSUME NEW s \in Specs
    PROVE  /\ s.kind \in Workloads /\ s.image \in Tags \union Streams /\ s.image \in Sources
           /\ s.storage \in {"none", "own", "invalid"} /\ s.expose \in BOOLEAN
           /\ s.autoscaling \in BOOLEAN /\ s.monitoring \in BOOLEAN
           /\ s.networkPolicy \in BOOLEAN /\ s.fileProbes \in BOOLEAN
BY ApplicationAssumption DEF AllSpecs, Workloads, Sources, Refs

(* The fields of the resource.                                             *)
LEMMA AppFields ==
    ASSUME NEW a \in Apps
    PROVE  /\ a.exists \in BOOLEAN /\ a.deleting \in BOOLEAN /\ a.finalizer \in BOOLEAN
           /\ a.gen \in 1 .. MaxGen /\ a.spec \in Specs
BY DEF Apps

(* Going on changes only the position and the status carried.              *)
LEMMA GotoLemma ==
    ASSUME NEW pc \in PCs, NEW mem \in Statuses, rec \in Recs, Goto(pc, mem)
    PROVE  /\ rec' \in Recs /\ rec'.pc = pc /\ rec'.mem = mem /\ rec'.gen = rec.gen
           /\ rec'.spec = rec.spec /\ rec'.old = rec.old /\ rec'.streamed = rec.streamed
           /\ rec'.plan = rec.plan
BY DEF Goto, Recs

(* The changes that a reconcile and time make to a status leave the        *)
(* version next to its image.                                              *)
LEMMA StatusChanges ==
    ASSUME NEW s \in Statuses, Reads(s)
    PROVE  /\ Clear(s) \in Statuses /\ Reads(Clear(s)) /\ Clear(s).image = s.image
           /\ Clear(s).observed = s.observed
           /\ \A i \in Sources : /\ [s EXCEPT !.semeru = i] \in Statuses
                                 /\ Reads([s EXCEPT !.semeru = i])
                                 /\ [s EXCEPT !.semeru = i].observed = s.observed
           /\ \A n \in 0 .. MaxGen : /\ [s EXCEPT !.observed = n] \in Statuses
                                      /\ Reads([s EXCEPT !.observed = n])
                                      /\ [s EXCEPT !.observed = n].observed = n
           /\ [s EXCEPT !.version = NilLibertyVersion] \in Statuses
           /\ Reads([s EXCEPT !.version = NilLibertyVersion])
           /\ [s EXCEPT !.version = NilLibertyVersion].observed = s.observed
           /\ s.lastPull = "recent" => /\ [s EXCEPT !.lastPull = "old"] \in Statuses
                                       /\ Reads([s EXCEPT !.lastPull = "old"])
                                       /\ [s EXCEPT !.lastPull = "old"].observed = s.observed
BY DEF Clear, Reads, Statuses, Versions, NilLibertyVersion

(* What the tag of an image stream says of image and version belongs       *)
(* together.                                                               *)
LEMMA ReadStreamLemma ==
    ASSUME TypeOK, RecInv, rec \in Recs, FromStream, NEW s \in Statuses, Reads(s)
    PROVE  /\ ReadStream(s) \in Statuses
           /\ IsLibertyVersionCheckNeeded => Reads(ReadStream(s))
           /\ Reads(Clear(ReadStream(s))) /\ Clear(ReadStream(s)) \in Statuses
           /\ ReadStream(s).observed = s.observed /\ Clear(ReadStream(s)).observed = s.observed
<1> DEFINE image == stream[rec.spec.image]
<1>1. image \in Refs /\ image \in Sources
      BY DEF TypeOK, FromStream, Refs, Sources
<1>2. Label(image) \in Versions \ {"unset"} /\ (Label(image) \in {"old", "new"} => Label(image) = Version[image])
      BY <1>1, ApplicationAssumption DEF Label, Versions, NilLibertyVersion
<1> DEFINE r == [s EXCEPT !.image = image]
           v == [r EXCEPT !.version = Label(image), !.lastPull = "recent"]
<1>3. r \in Statuses /\ r.image = image /\ r.version = s.version /\ r.lastPull = s.lastPull /\ r.observed = s.observed
      BY <1>1 DEF Statuses
<1>4. /\ v \in Statuses /\ v.image = image /\ v.version = Label(image) /\ v.lastPull = "recent"
      /\ v.observed = s.observed
      BY <1>1, <1>2 DEF Statuses
<1>5. ReadStream(s) = IF ~IsLibertyVersionCheckNeeded \/ s.version = Label(image) THEN r ELSE v
      BY DEF ReadStream
<1> HIDE DEF r, v, image
<1>6. ReadStream(s) \in {r, v}
      BY <1>5
<1>7. \A x \in {r, v} : Clear(x) \in Statuses /\ Clear(x).version = "unset" /\ Clear(x).lastPull = "never"
                          /\ Clear(x).observed = s.observed
      BY <1>3, <1>4 DEF Clear, Statuses, Versions
<1>8. IsLibertyVersionCheckNeeded => Reads(ReadStream(s))
      BY <1>1, <1>2, <1>3, <1>4, <1>5 DEF Reads
<1>9. Reads(Clear(ReadStream(s)))
      BY <1>6, <1>7 DEF Reads
<1> QED BY <1>3, <1>4, <1>6, <1>7, <1>8, <1>9

(* The types under the names used here.                                    *)
LEMMA TypeState ==
    ASSUME TypeOK
    PROVE  /\ status \in Statuses /\ app \in Apps /\ NoStatus \in Statuses
           /\ res \in [Owned -> 0 .. MaxGen] /\ MaxGen \in Nat /\ MaxGen = MaxUserEdits + 1
BY ApplicationAssumption DEF TypeOK, Statuses, Versions, Sources, Apps, MaxGen, NoStatus, None

(* The plans are sequences of steps.                                       *)
LEMMA StepLemma ==
    ASSUME NEW k \in Owned
    PROVE  /\ Make(k) \in Steps /\ Drop(k) \in Steps /\ Call \in Steps
           /\ \A b \in BOOLEAN : MakeIf(b, k) \in Seq(Steps) /\ MakeOptional(b, k) \in Seq(Steps)
<1>1. Make(k) \in Steps /\ Drop(k) \in Steps /\ Call \in Steps
      BY DEF Make, Drop, Call, Step, Steps, None
<1>2. ASSUME NEW b \in BOOLEAN PROVE MakeIf(b, k) \in Seq(Steps)
      BY <1>1 DEF MakeIf
<1>3. ASSUME NEW b \in BOOLEAN PROVE MakeOptional(b, k) \in Seq(Steps)
  <2>1. Step(IF b THEN "make" ELSE "drop", k, {"stop", "report"}) \in Steps
        BY DEF Step, Steps
  <2> QED BY <2>1 DEF MakeOptional
<1> QED BY <1>1, <1>2, <1>3

(* A plan is a sequence of steps.                                          *)
LEMMA PlanType == ASSUME NEW s \in Specs PROVE Plan(s) \in Seq(Steps)
<1>0. "Service" \in Owned /\ "Headless" \in Owned /\ "Deployment" \in Owned /\ "StatefulSet" \in Owned
      /\ "Autoscaler" \in Owned /\ "NetworkPolicy" \in Owned /\ "Route" \in Owned /\ "Ingress" \in Owned
      /\ "KnativeService" \in Owned /\ "ServiceMonitor" \in Owned
      BY DEF Owned
<1>1. /\ Step("drop", "Ingress", {"ignore"}) \in Steps /\ Step("refuse", None, {"stop"}) \in Steps
      /\ Step("drop", "KnativeService", {"report"}) \in Steps
      /\ Step("claim", None, {"stop"}) \in Steps /\ Step("unclaim", None, {"stop"}) \in Steps
      BY <1>0 DEF Step, Steps
<1>2. \A k \in Owned : Make(k) \in Steps /\ Drop(k) \in Steps /\ Call \in Steps
      BY StepLemma
<1> HIDE DEF Steps
<1>3. KnativePlan(s) \in Seq(Steps)
      BY <1>0, <1>1, <1>2 DEF KnativePlan, When
<1>4. StoragePlan(s) \in Seq(Steps)
      BY <1>1 DEF StoragePlan
<1>5. WorkloadPlan(s) \in Seq(Steps)
      BY <1>0, <1>2 DEF WorkloadPlan
<1>6. ScalePlan(s) \in Seq(Steps) /\ ExposePlan(s) \in Seq(Steps) /\ MonitorPlan(s) \in Seq(Steps)
      BY <1>0, StepLemma, SpecFields DEF ScalePlan, ExposePlan, MonitorPlan, When
<1>7. MakeIf(s.networkPolicy, "NetworkPolicy") \in Seq(Steps)
      BY <1>0, StepLemma, SpecFields
<1>8. << Call >> \in Seq(Steps) /\ << Make("Service") >> \in Seq(Steps)
      /\ When("KnativeService" \in supported, << Step("drop", "KnativeService", {"report"}) >>) \in Seq(Steps)
      BY <1>0, <1>1, <1>2 DEF When
<1> QED BY <1>3, <1>4, <1>5, <1>6, <1>7, <1>8 DEF Plan

(* The image that a reconcile has read, and where, stays.                  *)
Same == rec'.mem = rec.mem /\ rec'.streamed = rec.streamed

(* How a reconcile proceeds.                                               *)
Begun ==
    /\ rec.pc = "idle" /\ rec' \in Recs /\ rec'.pc \in {"finalize", "addFinalizer", "validate"}
    /\ rec'.gen = app.gen /\ rec'.spec = app.spec /\ rec'.mem = status /\ rec'.old = status.image
    /\ app.exists /\ (rec'.pc # "addFinalizer" => app.finalizer)
    /\ app' = app /\ status' = status

Proceeds ==
    \/ Finalize /\ rec'.pc = "removeFinalizer" /\ Same
    \/ AddFinalizer /\ rec'.pc = "validate" /\ Same /\ app' = [app EXCEPT !.finalizer = TRUE] /\ ~Stale
    \/ Validate /\ rec'.pc = "image" /\ Same
    \/ ReadImage /\ rec'.pc = "account" /\ (rec'.streamed \/ rec'.mem.image = rec.spec.image)
    \/ ReconcileAccount /\ rec'.pc = "pull" /\ Same
    \/ PullVersion /\ rec'.pc = "guards"
    \/ CheckGuards /\ rec'.pc = "status" /\ Same
    \/ UpdateStatus /\ rec'.pc = "plan"
    \/ MakePlan /\ rec'.pc = "steps" /\ Same /\ rec'.plan = Plan(rec.spec)
    \/ /\ TakeStep \/ StepFails \/ MakeClaim \/ DropClaim
       /\ rec'.pc = "steps" /\ Same /\ rec'.plan = Tail(rec.plan) /\ rec.plan # << >>

(* A step leaves the reconcile, ends it, begins one or takes it further.   *)
RecChange ==
    \/ rec' = rec
    \/ rec' = NoRec
    \/ Begun
    \/ /\ rec \in Recs /\ rec' \in Recs /\ rec'.gen = rec.gen /\ rec'.spec = rec.spec /\ rec'.old = rec.old
       /\ Reads(rec'.mem) /\ rec'.mem.observed = rec.mem.observed /\ Proceeds

(* No step changes it in another way.                                      *)
LEMMA RecStep == ASSUME TypeOK, RecInv, StatusInv, [Next]_vars PROVE RecChange
<1> USE DEF RecChange, Proceeds, Same
<1>0. /\ status \in Statuses /\ app \in Apps
      /\ rec.pc # "idle" => rec \in Recs /\ rec.mem \in Statuses /\ rec.spec \in Specs /\ Reads(rec.mem)
      BY TypeState, Busy, RecFields DEF StatusInv
<1>1. CASE Start
  <2> DEFINE r == [pc |-> IF app.deleting THEN "finalize"
                          ELSE IF app.finalizer THEN "validate" ELSE "addFinalizer",
                   gen |-> app.gen, spec |-> app.spec, old |-> status.image, mem |-> status,
                   streamed |-> FALSE, plan |-> << >>]
  <2>1. rec' = rec \/ rec' = NoRec \/ (rec' = r /\ app.exists /\ ~(app.deleting /\ ~app.finalizer))
        BY <1>1 DEF Start
  <2>2. /\ r \in Recs /\ r.pc \in {"finalize", "addFinalizer", "validate"}
        /\ r.gen = app.gen /\ r.spec = app.spec /\ r.mem = status /\ r.old = status.image
        /\ (r.pc # "addFinalizer" => app.deleting \/ app.finalizer)
    <3>1. << >> \in Seq(Steps) /\ status.image \in Sources /\ app.gen \in 1 .. MaxGen /\ app.spec \in Specs
          BY <1>0, StatusFields, AppFields
    <3> QED BY <1>0, <3>1 DEF Recs, PCs
  <2> HIDE DEF r
  <2>3. app' = app /\ status' = status /\ rec.pc = "idle"
        BY <1>1 DEF Start
  <2> QED BY <2>1, <2>2, <2>3 DEF Begun
<1>2. CASE Finalize \/ Validate \/ ReconcileAccount \/ CheckGuards \/ AddFinalizer
  <2>1. \A pc \in PCs : Goto(pc, rec.mem) => /\ rec' \in Recs /\ rec'.pc = pc /\ rec'.mem = rec.mem
                                             /\ rec'.gen = rec.gen /\ rec'.spec = rec.spec
                                             /\ rec'.old = rec.old /\ rec'.streamed = rec.streamed
        BY <1>0, <1>2, GotoLemma DEF Finalize, Validate, ReconcileAccount, CheckGuards, AddFinalizer
  <2>2. rec \in Recs /\ Reads(rec.mem)
        BY <1>0, <1>2 DEF Finalize, Validate, ReconcileAccount, CheckGuards, AddFinalizer
  <2>3. CASE Finalize
        BY <2>1, <2>2, <2>3 DEF Finalize, PCs
  <2>4. CASE Validate
        BY <2>1, <2>2, <2>4 DEF Validate, PCs, Return, ManageError
  <2>5. CASE ReconcileAccount
        BY <2>1, <2>2, <2>5 DEF ReconcileAccount, PCs, ManageError, Return
  <2>6. CASE CheckGuards
        BY <2>1, <2>2, <2>6 DEF CheckGuards, PCs, ManageError, Return
  <2>7. CASE AddFinalizer
        BY <2>1, <2>2, <2>7 DEF AddFinalizer, PCs, ReturnError, Return
  <2> QED BY <1>2, <2>3, <2>4, <2>5, <2>6, <2>7
<1>3. CASE ReadImage
  <2>1. /\ rec.pc = "image" /\ rec \in Recs /\ rec.mem \in Statuses /\ Reads(rec.mem) /\ rec.mem.image = rec.old
        /\ rec.spec.image \in Sources
        BY <1>0, <1>3, SpecFields, NoRecLemma DEF ReadImage, StatusInv
  <2>2. CASE /\ FromStream
             /\ LET mem == ReadStream(rec.mem)
                IN  rec' = [rec EXCEPT !.pc = "account", !.streamed = TRUE,
                                    !.mem = IF IsLibertyVersionCheckNeeded THEN mem ELSE Clear(mem)]
    <3> DEFINE m == IF IsLibertyVersionCheckNeeded THEN ReadStream(rec.mem) ELSE Clear(ReadStream(rec.mem))
    <3>1. m \in Statuses /\ Reads(m) /\ m.observed = rec.mem.observed
          BY <2>1, <2>2, ReadStreamLemma
    <3>2. rec' = [rec EXCEPT !.pc = "account", !.streamed = TRUE, !.mem = m]
          BY <2>2
    <3> HIDE DEF m
    <3>3. rec' \in Recs /\ rec'.pc = "account" /\ rec'.streamed = TRUE /\ rec'.mem = m
          /\ rec'.gen = rec.gen /\ rec'.spec = rec.spec /\ rec'.old = rec.old
          BY <2>1, <3>1, <3>2 DEF Recs, PCs
    <3> QED BY <1>3, <2>1, <3>1, <3>3
  <2>3. CASE LET mem == [rec.mem EXCEPT !.image = rec.spec.image]
             IN  Goto("account", IF Outdated(mem) THEN Clear(mem) ELSE mem)
    <3> DEFINE mem == [rec.mem EXCEPT !.image = rec.spec.image]
               m == IF Outdated(mem) THEN Clear(mem) ELSE mem
    <3>1. mem \in Statuses /\ mem.image = rec.spec.image /\ mem.version = rec.mem.version /\ mem.lastPull = rec.mem.lastPull
          /\ mem.observed = rec.mem.observed
          BY <2>1 DEF Statuses
    <3>2. ~Outdated(mem) => Reads(mem)
          BY <2>1, <3>1 DEF Outdated, Reads
    <3>3. Clear(mem) \in Statuses /\ Clear(mem).image = mem.image /\ Reads(Clear(mem))
          /\ Clear(mem).observed = mem.observed
          BY <3>1 DEF Clear, Statuses, Versions, Reads
    <3>4. m \in Statuses /\ m.image = rec.spec.image /\ Reads(m) /\ m.observed = rec.mem.observed
          BY <3>1, <3>2, <3>3
    <3>5. Goto("account", m)
          BY <2>3
    <3> HIDE DEF m
    <3> QED BY <1>3, <2>1, <3>4, <3>5, GotoLemma DEF PCs
  <2> QED BY <1>3, <2>2, <2>3 DEF ReadImage
<1>4. CASE PullVersion
  <2>1. /\ rec.pc = "pull" /\ rec \in Recs /\ rec.mem \in Statuses /\ Reads(rec.mem) /\ rec.spec \in Specs
        /\ ~rec.streamed => rec.mem.image = rec.spec.image
        BY <1>0, <1>4, NoRecLemma DEF PullVersion, StatusInv
  <2>2. CASE Goto("guards", rec.mem)
        BY <1>4, <2>1, <2>2, GotoLemma DEF PCs
  <2>3. CASE Goto("guards", [rec.mem EXCEPT !.version = NilLibertyVersion])
        BY <1>4, <2>1, <2>3, GotoLemma, StatusChanges DEF PCs
  <2>4. CASE /\ ~rec.streamed /\ HasLabel(rec.spec.image)
             /\ Goto("guards", [rec.mem EXCEPT !.version = Version[rec.spec.image], !.lastPull = "recent"])
    <3> DEFINE m == [rec.mem EXCEPT !.version = Version[rec.spec.image], !.lastPull = "recent"]
    <3>1. rec.spec.image \in Refs /\ Version[rec.spec.image] \in {"old", "new"}
          BY <2>4, ApplicationAssumption DEF HasLabel, Refs
    <3>2. m \in Statuses /\ Reads(m) /\ m.observed = rec.mem.observed
          BY <2>1, <2>4, <3>1 DEF Statuses, Versions, Reads
    <3>3. Goto("guards", m)
          BY <2>4
    <3> HIDE DEF m
    <3> QED BY <1>4, <2>1, <3>2, <3>3, GotoLemma DEF PCs
  <2> QED BY <1>4, <2>2, <2>3, <2>4 DEF PullVersion
<1>5. CASE UpdateStatus
  <2>1. /\ rec.pc = "status" /\ rec \in Recs /\ rec.mem \in Statuses /\ Reads(rec.mem) /\ rec.mem.image \in Sources
        BY <1>0, <1>5, StatusFields DEF UpdateStatus
  <2> DEFINE m == IF rec.old = rec.mem.image THEN rec.mem ELSE [rec.mem EXCEPT !.semeru = rec.mem.image]
  <2>2. m \in Statuses /\ Reads(m) /\ m.observed = rec.mem.observed
        BY <2>1, StatusChanges
  <2>3. rec' = NoRec \/ Goto("plan", m)
        BY <1>5 DEF UpdateStatus, ManageError, Return
  <2> HIDE DEF m
  <2> QED BY <1>5, <2>1, <2>2, <2>3, GotoLemma DEF PCs
<1>6. CASE MakePlan
  <2>1. rec \in Recs /\ rec.spec \in Specs /\ Reads(rec.mem)
        BY <1>0, <1>6 DEF MakePlan
  <2>2. Plan(rec.spec) \in Seq(Steps)
        BY <2>1, PlanType
  <2>3. rec' = [rec EXCEPT !.pc = "steps", !.plan = Plan(rec.spec)]
        BY <1>6 DEF MakePlan
  <2>4. /\ rec' \in Recs /\ rec'.pc = "steps" /\ rec'.plan = Plan(rec.spec) /\ rec'.gen = rec.gen
        /\ rec'.spec = rec.spec /\ rec'.old = rec.old /\ rec'.mem = rec.mem /\ rec'.streamed = rec.streamed
        BY <2>1, <2>2, <2>3 DEF Recs, PCs
  <2> QED BY <1>6, <2>1, <2>4
<1>7. CASE TakeStep \/ StepFails \/ MakeClaim \/ DropClaim
  <2>1. rec.pc = "steps" /\ rec \in Recs /\ rec.plan # << >> /\ Reads(rec.mem) /\ rec.plan \in Seq(Steps)
        BY <1>0, <1>7, RecFields DEF TakeStep, StepFails, MakeClaim, DropClaim
  <2>2. rec' = NoRec \/ EndStep
        BY <1>7 DEF TakeStep, StepFails, MakeClaim, DropClaim, ManageError, Return
  <2>3. Tail(rec.plan) \in Seq(Steps)
        BY <2>1
  <2>4. ASSUME EndStep PROVE /\ rec' \in Recs /\ rec'.pc = "steps" /\ rec'.plan = Tail(rec.plan) /\ rec'.gen = rec.gen
                             /\ rec'.spec = rec.spec /\ rec'.old = rec.old /\ rec'.mem = rec.mem
                             /\ rec'.streamed = rec.streamed
        BY <2>1, <2>3, <2>4 DEF EndStep, Recs, PCs
  <2> QED BY <1>7, <2>1, <2>2, <2>4
<1>8. CASE RemoveFinalizer \/ ManageSuccess \/ Restart
      BY <1>8 DEF RemoveFinalizer, ManageSuccess, Restart, ReturnError, Return
<1>9. CASE \/ \E s \in Specs : EditSpec(s)
           \/ \E image \in Streams, ref \in Digests : PushToStream(image, ref)
           \/ Delete \/ Bind \/ Collect \/ Elapse \/ UNCHANGED vars
      BY <1>9 DEF EditSpec, PushToStream, Delete, Bind, Collect, Elapse, vars
<1> QED BY <1>1, <1>2, <1>3, <1>4, <1>5, <1>6, <1>7, <1>8, <1>9 DEF Next, Reconcile

(* A change of the specification is a change of the generation, and the    *)
(* finalizer is taken away only by the reconcile that ends.                *)
AppChange ==
    /\ app' \in Apps /\ app'.gen <= edits' + 1 /\ edits' \in 0 .. MaxUserEdits
    /\ app.gen <= app'.gen
    /\ app'.gen = app.gen => app'.spec = app.spec
    /\ rec' = NoRec \/ (app.exists /\ app.finalizer => app'.exists /\ app'.finalizer)
    /\ AddFinalizer /\ rec' # NoRec => app'.exists /\ app'.finalizer

(* No step changes the resource in another way.                            *)
LEMMA AppStep == ASSUME TypeOK, RecInv, [Next]_vars PROVE AppChange
<1> USE DEF AppChange
<1>0. /\ app \in Apps /\ app.gen \in 1 .. MaxGen /\ app.gen <= edits + 1 /\ edits \in 0 .. MaxUserEdits
      /\ MaxUserEdits \in Nat /\ MaxGen = MaxUserEdits + 1
      BY TypeState, AppFields, ApplicationAssumption DEF TypeOK, RecInv
<1>1. CASE RemoveFinalizer
  <2> DEFINE a == [app EXCEPT !.exists = FALSE]
  <2>1. rec' = NoRec /\ edits' = edits /\ app' \in {app, a}
        BY <1>1 DEF RemoveFinalizer, ReturnError, Return, cluster
  <2>2. a \in Apps /\ a.gen = app.gen /\ a.spec = app.spec
        BY <1>0 DEF Apps
  <2> HIDE DEF a
  <2> QED BY <1>0, <2>1, <2>2
<1>2. CASE AddFinalizer
  <2> DEFINE a == [app EXCEPT !.finalizer = TRUE]
  <2>1. /\ edits' = edits
        /\ \/ rec' = NoRec /\ app' = app
           \/ app' = a /\ app.exists
        BY <1>2 DEF AddFinalizer, ReturnError, Return, cluster, Stale
  <2>2. a \in Apps /\ a.gen = app.gen /\ a.spec = app.spec /\ a.finalizer /\ (app.exists => a.exists)
        BY <1>0 DEF Apps
  <2> HIDE DEF a
  <2> QED BY <1>0, <2>1, <2>2
<1>3. ASSUME NEW s \in Specs, EditSpec(s) PROVE AppChange
  <2> DEFINE a == [app EXCEPT !.spec = s, !.gen = app.gen + 1]
  <2>1. edits' = edits + 1 /\ edits < MaxUserEdits
        BY <1>3 DEF EditSpec, UserEdit
  <2>2. app' = a
        BY <1>3 DEF EditSpec
  <2>3. ~AddFinalizer
        BY <1>0, <2>1 DEF AddFinalizer, cluster
  <2>4. app.gen + 1 \in 1 .. MaxGen
        BY <1>0, <2>1
  <2>5. a \in Apps /\ a.gen = app.gen + 1 /\ (app.exists => a.exists) /\ (app.finalizer => a.finalizer)
        BY <1>0, <2>4 DEF Apps
  <2> HIDE DEF a
  <2> QED BY <1>0, <2>1, <2>2, <2>3, <2>5
<1>4. CASE Delete
  <2> DEFINE a == [app EXCEPT !.deleting = TRUE, !.gen = app.gen + 1]
             b == [app EXCEPT !.exists = FALSE]
  <2>1. edits' = edits + 1 /\ edits < MaxUserEdits
        BY <1>4 DEF Delete, UserEdit
  <2>2. app' = (IF app.finalizer THEN a ELSE b)
        BY <1>4 DEF Delete
  <2>3. ~AddFinalizer
        BY <1>0, <2>1 DEF AddFinalizer, cluster
  <2>4. app.gen + 1 \in 1 .. MaxGen
        BY <1>0, <2>1
  <2>5. /\ a \in Apps /\ a.gen = app.gen + 1 /\ (app.exists => a.exists) /\ (app.finalizer => a.finalizer)
        /\ b \in Apps /\ b.gen = app.gen /\ b.spec = app.spec
        BY <1>0, <2>4 DEF Apps
  <2> HIDE DEF a, b
  <2> QED BY <1>0, <2>1, <2>2, <2>3, <2>5
<1>5. ASSUME app' = app, ~AddFinalizer, edits' \in {edits} \union (IF edits < MaxUserEdits THEN {edits + 1} ELSE {})
      PROVE AppChange
      BY <1>0, <1>5
<1>6. CASE Start \/ Finalize \/ Validate \/ ReadImage \/ ReconcileAccount \/ PullVersion \/ CheckGuards \/ UpdateStatus
      BY <1>5, <1>6 DEF Start, Finalize, Validate, ReadImage, ReconcileAccount, PullVersion, CheckGuards, UpdateStatus,
         cluster, AddFinalizer
<1>7. CASE MakePlan \/ TakeStep \/ StepFails \/ MakeClaim \/ DropClaim \/ ManageSuccess
      BY <1>5, <1>7 DEF MakePlan, TakeStep, StepFails, MakeClaim, DropClaim, ManageSuccess, cluster, AddFinalizer
<1>8. CASE \E image \in Streams, ref \in Digests : PushToStream(image, ref)
  <2>1. app' = app /\ edits < MaxUserEdits /\ edits' = edits + 1 /\ rec' = rec
        BY <1>8 DEF PushToStream, UserEdit
  <2> QED BY <1>0, <2>1, NoRecLemma, Busy DEF AddFinalizer, ReturnError, Return, Goto, UserEdit, cluster
<1>9. CASE Bind \/ Collect \/ Elapse \/ Restart \/ UNCHANGED vars
  <2>1. app' = app /\ edits' = edits /\ (rec' = rec \/ rec' = NoRec)
        BY <1>9 DEF Bind, Collect, Elapse, Restart, vars, cluster, Return
  <2>2. CASE AddFinalizer /\ rec' # NoRec
    <3>1. app.exists /\ rec.pc = "addFinalizer" /\ rec \in Recs /\ rec' = [rec EXCEPT !.pc = "validate", !.mem = rec.mem]
          BY <2>2, Busy DEF AddFinalizer, ReturnError, Return, Goto, Stale
    <3>2. rec'.pc = "validate"
          BY <3>1 DEF Recs
    <3> QED BY <2>1, <2>2, <3>1, <3>2
  <2> QED BY <1>0, <2>1, <2>2
<1> QED BY <1>1, <1>2, <1>3, <1>4, <1>6, <1>7, <1>8, <1>9 DEF Next, Reconcile

(* Edits may overtake a reconcile, but a reconcile of the present          *)
(* generation has the present specification.                               *)
LEMMA RecInvStep == ASSUME TypeOK, RecInv, StatusInv, [Next]_vars PROVE RecInv'
<1> USE DEF RecInv
<1>0. RecChange /\ AppChange /\ app.gen \in Nat /\ app'.gen \in Nat /\ app \in Apps
      BY RecStep, AppStep, AppFields, TypeState DEF AppChange
<1>1. CASE rec' = NoRec
      BY <1>0, <1>1 DEF AppChange
<1>2. CASE rec' = rec /\ rec # NoRec
  <2>1. rec.gen \in Nat /\ rec.pc # "idle"
        BY <1>2, RecFields
  <2>2. rec.gen <= app'.gen /\ (rec.gen = app'.gen => rec.spec = app'.spec)
        BY <1>0, <1>2, <2>1 DEF AppChange
  <2> QED BY <1>0, <1>2, <2>2 DEF AppChange
<1>3. CASE Begun
      BY <1>0, <1>3, RecFields DEF AppChange, Begun
<1>4. CASE /\ rec \in Recs /\ rec' \in Recs /\ rec'.gen = rec.gen /\ rec'.spec = rec.spec /\ Proceeds
  <2>1. rec.gen \in Nat /\ rec # NoRec /\ rec' # NoRec
        BY <1>4, RecFields
  <2>2. rec.gen <= app'.gen /\ (rec.gen = app'.gen => rec.spec = app'.spec)
        BY <1>0, <1>4, <2>1 DEF AppChange
  <2>3. AddFinalizer \/ rec.pc # "addFinalizer"
        BY <1>4 DEF Proceeds, Finalize, Validate, ReadImage, ReconcileAccount, PullVersion, CheckGuards,
              UpdateStatus, MakePlan, TakeStep, StepFails, MakeClaim, DropClaim
  <2> QED BY <1>0, <1>4, <2>1, <2>2, <2>3 DEF AppChange
<1> QED BY <1>0, <1>1, <1>2, <1>3, <1>4 DEF RecChange

(* Only the success of a reconcile that nothing has overtaken changes the  *)
(* observed generation.                                                    *)
StatusChange ==
    /\ status' \in Statuses /\ Reads(status')
    /\ \/ status'.observed = status.observed
       \/ ManageSuccess /\ ~Stale /\ rec' = NoRec /\ status'.observed = rec.gen

(* No step changes the status in another way.                              *)
LEMMA StatusStep == ASSUME TypeOK, RecInv, StatusInv, [Next]_vars PROVE StatusChange
<1> USE DEF StatusChange
<1>0. /\ status \in Statuses /\ Reads(status)
      /\ rec.pc # "idle" => /\ rec \in Recs /\ rec.mem \in Statuses /\ Reads(rec.mem)
                            /\ rec.mem.observed = status.observed /\ rec.gen \in 0 .. MaxGen
                            /\ rec.mem.image \in Sources
      BY TypeState, Busy, RecFields, StatusFields DEF StatusInv
<1>1. CASE UNCHANGED status
      BY <1>0, <1>1
<1>2. CASE rec.pc # "idle" /\ StoreStatus(rec.mem)
      BY <1>0, <1>2 DEF StoreStatus
<1>3. CASE UpdateStatus
  <2> DEFINE m == IF rec.old = rec.mem.image THEN rec.mem ELSE [rec.mem EXCEPT !.semeru = rec.mem.image]
  <2>1. rec.pc # "idle" /\ status' \in {status, m}
        BY <1>3 DEF UpdateStatus, ManageError, StoreStatus
  <2>2. m \in Statuses /\ Reads(m) /\ m.observed = rec.mem.observed
        BY <1>0, <2>1, StatusChanges
  <2> HIDE DEF m
  <2> QED BY <1>0, <2>1, <2>2
<1>4. CASE ManageSuccess
  <2> DEFINE m == [rec.mem EXCEPT !.observed = rec.gen]
  <2>1. rec.pc # "idle" /\ rec' = NoRec /\ status' = IF Stale THEN status ELSE m
        BY <1>4 DEF ManageSuccess, StoreStatus, Return
  <2>2. m \in Statuses /\ Reads(m) /\ m.observed = rec.gen
        BY <1>0, <2>1, StatusChanges
  <2> HIDE DEF m
  <2> QED BY <1>0, <1>4, <2>1, <2>2
<1>5. CASE Elapse
  <2> DEFINE m == [status EXCEPT !.lastPull = "old"]
  <2>1. status.lastPull = "recent" /\ status' = m
        BY <1>5 DEF Elapse
  <2>2. m \in Statuses /\ Reads(m) /\ m.observed = status.observed
        BY <1>0, <2>1, StatusChanges
  <2> HIDE DEF m
  <2> QED BY <2>1, <2>2
<1>6. CASE Start \/ Finalize \/ RemoveFinalizer \/ AddFinalizer \/ Validate \/ ReadImage \/ ReconcileAccount
      BY <1>1, <1>2, <1>6 DEF Start, Finalize, RemoveFinalizer, AddFinalizer, Validate, ReadImage,
         ReconcileAccount, ManageError, ReturnError
<1>7. CASE PullVersion \/ CheckGuards \/ MakePlan \/ TakeStep \/ StepFails \/ MakeClaim \/ DropClaim
      BY <1>1, <1>2, <1>7 DEF PullVersion, CheckGuards, MakePlan, TakeStep, StepFails, MakeClaim, DropClaim, ManageError
<1>8. CASE \/ \E s \in Specs : EditSpec(s)
           \/ \E image \in Streams, ref \in Digests : PushToStream(image, ref)
           \/ Delete \/ Bind \/ Collect \/ Restart \/ UNCHANGED vars
      BY <1>1, <1>8 DEF EditSpec, PushToStream, Delete, Bind, Collect, Restart, vars
<1> QED BY <1>3, <1>4, <1>5, <1>6, <1>7, <1>8 DEF Next, Reconcile

(* Every step keeps image and version together.                            *)
LEMMA StatusInvStep == ASSUME TypeOK, RecInv, StatusInv, [Next]_vars PROVE StatusInv'
<1> USE DEF StatusInv
<1>0. StatusChange /\ RecChange
      BY StatusStep, RecStep
<1>1. CASE rec' = NoRec
      BY <1>0, <1>1 DEF StatusChange
<1>2. CASE rec' = rec
      BY <1>0, <1>2 DEF StatusChange
<1>3. CASE Begun
      BY <1>0, <1>3, RecFields DEF StatusChange, Begun
<1>4. CASE /\ rec \in Recs /\ rec' \in Recs /\ rec'.spec = rec.spec /\ rec'.old = rec.old
           /\ Reads(rec'.mem) /\ rec'.mem.observed = rec.mem.observed /\ Proceeds
  <2>1. rec # NoRec /\ rec' # NoRec
        BY <1>4, NoRecLemma
  <2>2. rec'.pc = "removeFinalizer" => rec.pc = "finalize" /\ Same
        BY <1>4 DEF Proceeds, Finalize
  <2>3. rec'.pc = "validate" => rec.pc = "addFinalizer" /\ Same
        BY <1>4 DEF Proceeds, AddFinalizer
  <2>4. rec'.pc = "image" => rec.pc = "validate" /\ Same
        BY <1>4 DEF Proceeds, Validate
  <2>5. rec'.pc = "account" => rec'.streamed \/ rec'.mem.image = rec.spec.image
        BY <1>4 DEF Proceeds
  <2>6. rec'.pc = "pull" => rec.pc = "account" /\ Same
        BY <1>4 DEF Proceeds, ReconcileAccount
  <2>7. rec'.pc \notin {"finalize", "addFinalizer"}
        BY <1>4 DEF Proceeds
  <2> QED BY <1>0, <1>4, <2>1, <2>2, <2>3, <2>4, <2>5, <2>6, <2>7 DEF StatusChange, Same
<1> QED BY <1>0, <1>1, <1>2, <1>3, <1>4 DEF RecChange

(* What the application owns: a step makes or deletes one kind.            *)
ResChange ==
    \/ res' = res
    \/ /\ TakeStep /\ NextStep.op = "make" /\ res' = [res EXCEPT ![NextStep.kind] = rec.gen]
    \/ /\ TakeStep /\ NextStep.op = "drop" /\ res' = [res EXCEPT ![NextStep.kind] = 0]
    \/ Collect /\ \E kind \in Owned : res' = [res EXCEPT ![kind] = 0]

(* No step changes what is owned in another way.                           *)
LEMMA ResStep == ASSUME [Next]_vars PROVE ResChange
<1> USE DEF ResChange
<1>1. CASE TakeStep
      BY <1>1 DEF TakeStep
<1>2. CASE Collect
      BY <1>2 DEF Collect
<1>3. CASE Start \/ Finalize \/ RemoveFinalizer \/ AddFinalizer \/ Validate \/ ReadImage \/ ReconcileAccount
      BY <1>3 DEF Start, Finalize, RemoveFinalizer, AddFinalizer, Validate, ReadImage, ReconcileAccount
<1>4. CASE PullVersion \/ CheckGuards \/ UpdateStatus \/ MakePlan \/ StepFails \/ MakeClaim \/ DropClaim \/ ManageSuccess
      BY <1>4 DEF PullVersion, CheckGuards, UpdateStatus, MakePlan, StepFails, MakeClaim, DropClaim, ManageSuccess
<1>5. CASE \/ \E s \in Specs : EditSpec(s)
           \/ \E image \in Streams, ref \in Digests : PushToStream(image, ref)
           \/ Delete \/ Bind \/ Elapse \/ Restart \/ UNCHANGED vars
      BY <1>5 DEF EditSpec, PushToStream, Delete, Bind, Elapse, Restart, vars
<1> QED BY <1>1, <1>2, <1>3, <1>4, <1>5 DEF Next, Reconcile

(* The claim.                                                              *)
PvcChange ==
    \/ pvc' = pvc
    \/ Finalize /\ pvc' = "absent"
    \/ DropClaim /\ pvc' = "absent"
    \/ MakeClaim /\ pvc' = "pending"
    \/ Bind /\ pvc = "pending" /\ pvc' = "bound"

(* No step changes the claim in another way.                               *)
LEMMA PvcStep == ASSUME [Next]_vars PROVE PvcChange
<1> USE DEF PvcChange
<1>1. CASE Finalize \/ DropClaim \/ MakeClaim \/ Bind
      BY <1>1 DEF Finalize, DropClaim, MakeClaim, Bind
<1>2. CASE Start \/ RemoveFinalizer \/ AddFinalizer \/ Validate \/ ReadImage \/ ReconcileAccount
      BY <1>2 DEF Start, RemoveFinalizer, AddFinalizer, Validate, ReadImage, ReconcileAccount
<1>3. CASE PullVersion \/ CheckGuards \/ UpdateStatus \/ MakePlan \/ TakeStep \/ StepFails \/ ManageSuccess
      BY <1>3 DEF PullVersion, CheckGuards, UpdateStatus, MakePlan, TakeStep, StepFails, ManageSuccess
<1>4. CASE \/ \E s \in Specs : EditSpec(s)
           \/ \E image \in Streams, ref \in Digests : PushToStream(image, ref)
           \/ Delete \/ Collect \/ Elapse \/ Restart \/ UNCHANGED vars
      BY <1>4 DEF EditSpec, PushToStream, Delete, Collect, Elapse, Restart, vars
<1> QED BY <1>1, <1>2, <1>3, <1>4 DEF Next, Reconcile

(* Kubernetes, the queue and the counters.                                 *)
LEMMA ClusterStep ==
    ASSUME TypeOK, [Next]_vars
    PROVE  /\ supported' = supported /\ stream' \in [Streams -> Digests]
           /\ queued' \in BOOLEAN /\ faults' \in 0 .. MaxFaults /\ faults <= faults'
<1> USE ApplicationAssumption
<1>0. stream \in [Streams -> Digests] /\ queued \in BOOLEAN /\ faults \in 0 .. MaxFaults
      BY DEF TypeOK
<1>1. CASE supported' = supported /\ stream' = stream /\ queued' \in {queued, TRUE, FALSE} /\ (NoFault \/ Fault)
  <2>1. queued' \in BOOLEAN
        BY <1>0, <1>1, Zenon
  <2> QED BY <1>0, <1>1, <2>1 DEF NoFault, Fault
<1>2. CASE Start \/ Finalize \/ RemoveFinalizer \/ AddFinalizer \/ Validate \/ ReadImage \/ ReconcileAccount
      BY <1>1, <1>2 DEF Start, Finalize, RemoveFinalizer, AddFinalizer, Validate, ReadImage,
         ReconcileAccount, ManageError, ReturnError, cluster
<1>3. CASE PullVersion \/ CheckGuards \/ UpdateStatus \/ MakePlan \/ TakeStep
      BY <1>1, <1>3 DEF PullVersion, CheckGuards, UpdateStatus, MakePlan, TakeStep, ManageError, cluster
<1>4. CASE StepFails \/ MakeClaim \/ DropClaim \/ ManageSuccess \/ Bind \/ Collect \/ Elapse \/ Restart
      BY <1>1, <1>4 DEF StepFails, MakeClaim, DropClaim, ManageSuccess, ManageError, Bind, Collect, Elapse, Restart, cluster
<1>5. ASSUME NEW image \in Streams, NEW ref \in Digests, PushToStream(image, ref)
      PROVE  /\ supported' = supported /\ stream' \in [Streams -> Digests]
             /\ queued' \in BOOLEAN /\ faults' \in 0 .. MaxFaults /\ faults <= faults'
  <2>1. queued' = (queued \/ (app.exists /\ app.spec.image = image)) \/ queued' = queued
        BY <1>5 DEF PushToStream
  <2>2. queued' \in BOOLEAN
        BY <1>0, <2>1, Zenon
  <2>3. NoFault \/ Fault
        BY <1>5 DEF PushToStream
  <2>4. supported' = supported /\ stream' \in [Streams -> Digests]
        BY <1>0, <1>5 DEF PushToStream
  <2> QED BY <1>0, <2>2, <2>3, <2>4 DEF NoFault, Fault
<1>6. CASE \/ \E s \in Specs : EditSpec(s)
           \/ Delete \/ UNCHANGED vars
      BY <1>1, <1>6 DEF EditSpec, Delete, vars, NoFault
<1> QED BY <1>2, <1>3, <1>4, <1>5, <1>6 DEF Next, Reconcile

(* Every step keeps the types.                                             *)
LEMMA TypeStep == ASSUME TypeOK, RecInv, StatusInv, [Next]_vars PROVE TypeOK'
<1>1. StatusChange /\ AppChange /\ ResChange /\ PvcChange
      BY StatusStep, AppStep, ResStep, PvcStep
<1>2. res' \in [Owned -> 0 .. MaxGen]
  <2>1. res \in [Owned -> 0 .. MaxGen] /\ 0 \in 0 .. MaxGen
        BY TypeState
  <2>2. TakeStep => rec.gen \in 0 .. MaxGen
        BY Busy, RecFields DEF TakeStep
  <2> QED BY <1>1, <2>1, <2>2 DEF ResChange
<1>3. pvc' \in {"absent", "pending", "bound"}
      BY <1>1 DEF TypeOK, PvcChange
<1>4. app' \in [exists : BOOLEAN, deleting : BOOLEAN, finalizer : BOOLEAN, gen : 1 .. MaxGen, spec : Specs]
      /\ edits' \in 0 .. MaxUserEdits
      BY <1>1 DEF AppChange, Apps
<1>5. /\ status' \in [image : Refs \union Streams \union {None}, version : {"unset", NilLibertyVersion, "old", "new"},
                      lastPull : {"never", "recent", "old"}, semeru : Refs \union Streams \union {None},
                      observed : 0 .. MaxGen]
      /\ status'.version = "unset" => status'.lastPull = "never"
      BY <1>1 DEF StatusChange, Statuses, Versions, Sources, Reads
<1>6. supported' \in Clusters
      BY ClusterStep DEF TypeOK
<1> QED BY <1>2, <1>3, <1>4, <1>5, <1>6, ClusterStep DEF TypeOK

-----------------------------------------------------------------------------
(* The elements of two sequences put together, and of one without its      *)
(* first.                                                                  *)
LEMMA ToSetLemma ==
    ASSUME NEW S, NEW s \in Seq(S), NEW r \in Seq(S)
    PROVE  /\ ToSet(s \o r) = ToSet(s) \union ToSet(r)
           /\ s # << >> => ToSet(s) = {Head(s)} \union ToSet(Tail(s)) /\ Head(s) \in S
           /\ ToSet(<< >>) = {}
<1>1. ToSet(s \o r) = ToSet(s) \union ToSet(r)
  <2> DEFINE q == s \o r
  <2>1. \A i \in DOMAIN s : i \in DOMAIN q /\ q[i] = s[i]
        OBVIOUS
  <2>2. \A i \in DOMAIN r : i + Len(s) \in DOMAIN q /\ q[i + Len(s)] = r[i]
        OBVIOUS
  <2>3. \A i \in DOMAIN q : i \in DOMAIN s \/ (i - Len(s) \in DOMAIN r /\ q[i] = r[i - Len(s)])
        OBVIOUS
  <2> HIDE DEF q
  <2>4. ToSet(q) = ToSet(s) \union ToSet(r)
    <3>1. ASSUME NEW x \in ToSet(q) PROVE x \in ToSet(s) \union ToSet(r)
      <4>1. PICK i \in DOMAIN q : x = q[i]
            BY DEF ToSet
      <4>2. ASSUME NEW j \in DOMAIN r, x = r[j] PROVE x \in ToSet(r)
            BY <4>2 DEF ToSet
      <4>3. ASSUME NEW j \in DOMAIN s, x = s[j] PROVE x \in ToSet(s)
            BY <4>3 DEF ToSet
      <4>4. i \in DOMAIN s => q[i] = s[i]
            BY <2>1
      <4> QED BY <2>3, <4>1, <4>2, <4>3, <4>4
    <3>2. ASSUME NEW x \in ToSet(s) PROVE x \in ToSet(q)
          BY <2>1 DEF ToSet
    <3>3. ASSUME NEW x \in ToSet(r) PROVE x \in ToSet(q)
          BY <2>2 DEF ToSet
    <3> QED BY <3>1, <3>2, <3>3
  <2> QED BY <2>4 DEF q
<1>2. ASSUME s # << >> PROVE ToSet(s) = {Head(s)} \union ToSet(Tail(s)) /\ Head(s) \in S
  <2>1. Head(s) = s[1] /\ 1 \in DOMAIN s /\ Head(s) \in S
        BY <1>2
  <2> DEFINE q == Tail(s)
  <2>2. \A i \in DOMAIN q : i + 1 \in DOMAIN s /\ q[i] = s[i + 1]
        BY <1>2
  <2>3. \A i \in DOMAIN s : i = 1 \/ (i - 1 \in DOMAIN q /\ s[i] = q[i - 1])
        BY <1>2
  <2> HIDE DEF q
  <2>4. ToSet(s) = {s[1]} \union ToSet(q)
    <3>1. ASSUME NEW x \in ToSet(q) PROVE x \in ToSet(s)
          BY <2>2 DEF ToSet
    <3>2. ASSUME NEW x \in ToSet(s) PROVE x = s[1] \/ x \in ToSet(q)
      <4>1. PICK i \in DOMAIN s : x = s[i]
            BY DEF ToSet
      <4> QED BY <2>3, <4>1 DEF ToSet
    <3>3. s[1] \in ToSet(s)
          BY <2>1 DEF ToSet
    <3> QED BY <3>1, <3>2, <3>3
  <2> QED BY <2>1, <2>4 DEF q
<1>3. ToSet(<< >>) = {}
      BY DEF ToSet
<1> QED BY <1>1, <1>2, <1>3

(* The plan with nothing left to do.                                       *)
LEMMA NoSteps == ToSet(<< >>) = {} /\ << >> \in Seq(Steps)
BY DEF ToSet

(* Plans are put together.                                                 *)
LEMMA Concat ==
    ASSUME NEW p \in Seq(Steps), NEW q \in Seq(Steps)
    PROVE  /\ p \o q \in Seq(Steps)
           /\ ToSet(p \o q) = ToSet(p) \union ToSet(q)
           /\ \A r \in Seq(Steps) : (p \o q) \o r = p \o (q \o r)
<1>1. ToSet(p \o q) = ToSet(p) \union ToSet(q)
      BY ToSetLemma
<1>2. ASSUME NEW r \in Seq(Steps) PROVE (p \o q) \o r = p \o (q \o r)
      OBVIOUS
<1> QED BY <1>1, <1>2

(* No other workload is made, and the others are deleted before, unless    *)
(* they are among those that are not there.                                *)
Makes(e) == e.op = "make" /\ e.kind \in Workloads
Drops(e, k) == e.op = "drop" /\ e.kind = k /\ (k # "KnativeService" => e.onError = {"stop"})
Dropped(p) == {k \in Workloads : \E e \in ToSet(p) : Drops(e, k)}
Ordered(p, absent, kind) ==
    \A i \in 1 .. Len(p) : Makes(p[i]) =>
        /\ p[i].kind = kind
        /\ \A k \in Workloads \ {kind} : k \in absent \/ \E j \in 1 .. i - 1 : Drops(p[j], k)

(* A plan in order is in order when more is absent, and once its first     *)
(* step is taken.                                                          *)
LEMMA OrderedLemma ==
    ASSUME NEW p \in Seq(Steps), NEW absent, NEW kind, Ordered(p, absent, kind)
    PROVE  /\ \A more : absent \ {kind} \subseteq more => Ordered(p, more, kind)
           /\ p # << >> => /\ Makes(Head(p)) => Head(p).kind = kind /\ Workloads \ {kind} \subseteq absent
                           /\ Ordered(Tail(p), absent \union {k \in Workloads : Drops(Head(p), k)}, kind)
<1>1. \A more : absent \ {kind} \subseteq more => Ordered(p, more, kind)
      BY DEF Ordered
<1>2. ASSUME p # << >>, Makes(Head(p)) PROVE Head(p).kind = kind /\ Workloads \ {kind} \subseteq absent
  <2>1. Head(p) = p[1] /\ 1 \in 1 .. Len(p) /\ 1 .. 1 - 1 = {}
        BY <1>2
  <2> QED BY <1>2, <2>1 DEF Ordered
<1>3. ASSUME p # << >> PROVE Ordered(Tail(p), absent \union {k \in Workloads : Drops(Head(p), k)}, kind)
  <2> SUFFICES ASSUME NEW i \in 1 .. Len(Tail(p)), Makes(Tail(p)[i])
               PROVE  /\ Tail(p)[i].kind = kind
                      /\ \A k \in Workloads \ {kind} :
                            \/ k \in absent \union {d \in Workloads : Drops(Head(p), d)}
                            \/ \E j \in 1 .. i - 1 : Drops(Tail(p)[j], k)
      BY DEF Ordered
  <2>1. Tail(p)[i] = p[i + 1] /\ i + 1 \in 1 .. Len(p) /\ Head(p) = p[1] /\ i \in Nat
        BY <1>3
  <2>2. Makes(p[i + 1])
        BY <2>1
  <2>3. ASSUME NEW k \in Workloads \ {kind}, k \notin absent, ~Drops(Head(p), k)
        PROVE  \E j \in 1 .. i - 1 : Drops(Tail(p)[j], k)
    <3>1. PICK j \in 1 .. (i + 1) - 1 : Drops(p[j], k)
          BY <2>1, <2>2, <2>3 DEF Ordered
    <3>2. j # 1
          BY <2>1, <2>3, <3>1
    <3>3. j - 1 \in 1 .. i - 1 /\ Tail(p)[j - 1] = p[j]
          BY <1>3, <2>1, <3>1, <3>2
    <3> QED BY <3>1, <3>3
  <2> QED BY <2>1, <2>2, <2>3 DEF Ordered
<1> QED BY <1>1, <1>2, <1>3

(* A plan in order, followed by one that counts on what the former         *)
(* deletes.                                                                *)
LEMMA OrderedConcat ==
    ASSUME NEW p \in Seq(Steps), NEW q \in Seq(Steps), NEW absent, NEW kind,
           Ordered(p, absent, kind), Ordered(q, absent \union Dropped(p), kind)
    PROVE  Ordered(p \o q, absent, kind)
<1> SUFFICES ASSUME NEW i \in 1 .. Len(p \o q), Makes((p \o q)[i])
             PROVE  /\ (p \o q)[i].kind = kind
                    /\ \A k \in Workloads \ {kind} :
                          k \in absent \/ \E j \in 1 .. i - 1 : Drops((p \o q)[j], k)
    BY DEF Ordered
<1>1. \A j \in 1 .. Len(p) : (p \o q)[j] = p[j]
      OBVIOUS
<1>2. CASE i \in 1 .. Len(p)
      BY <1>1, <1>2 DEF Ordered
<1>3. CASE i \notin 1 .. Len(p)
  <2> DEFINE n == i - Len(p)
  <2>1. n \in 1 .. Len(q) /\ (p \o q)[i] = q[n] /\ i = n + Len(p) /\ Len(p) \in Nat
        BY <1>3
  <2>2. \A j \in 1 .. n - 1 : j + Len(p) \in 1 .. i - 1 /\ (p \o q)[j + Len(p)] = q[j]
        BY <2>1
  <2> HIDE DEF n
  <2>3. \A j \in 1 .. Len(p) : j \in 1 .. i - 1
        BY <2>1
  <2>4. q[n].kind = kind
        BY <2>1 DEF Ordered
  <2>5. ASSUME NEW k \in Workloads \ {kind}, k \notin absent
        PROVE  \E j \in 1 .. i - 1 : Drops((p \o q)[j], k)
    <3>1. CASE k \in Dropped(p)
      <4>1. PICK j \in 1 .. Len(p) : Drops(p[j], k)
            BY <3>1 DEF Dropped, ToSet
      <4> QED BY <1>1, <2>3, <4>1
    <3>2. CASE k \notin Dropped(p)
      <4>1. PICK j \in 1 .. n - 1 : Drops(q[j], k)
            BY <2>1, <2>5, <3>2 DEF Ordered
      <4> QED BY <2>2, <4>1
    <3> QED BY <3>1, <3>2
  <2> QED BY <2>1, <2>4, <2>5
<1> QED BY <1>2, <1>3

(* What makes no workload is in order.                                     *)
LEMMA OrderedQuiet ==
    ASSUME NEW p \in Seq(Steps), NEW absent, NEW kind, \A e \in ToSet(p) : ~Makes(e)
    PROVE  Ordered(p, absent, kind)
BY DEF Ordered, ToSet

-----------------------------------------------------------------------------
(* The steps of a plan are those that the specification asks for, and      *)
(* there is one for every resource whose errors stop a reconcile.          *)
Mandatory == {"Service", "Headless", "Deployment", "StatefulSet", "Autoscaler", "NetworkPolicy"}
Right(e, s) ==
    /\ e.kind \in Mandatory =>
         e.onError = {"stop"} /\ e.op = IF e.kind \in Wanted(s) THEN "make" ELSE "drop"
    /\ Makes(e) => e.kind = s.kind
    /\ Makes(e) /\ e.kind = "KnativeService" => "KnativeService" \in supported
    /\ s.kind = "KnativeService" /\ e.kind = "KnativeService" => e.op = "make" /\ e.onError = {"stop"}
    /\ e.op \in {"refuse", "claim"} => e.onError = {"stop"}
    /\ e.op = "unclaim" => s.kind = "KnativeService" \/ s.storage # "own"

(* The fields of a step.                                                   *)
LEMMA StepOf ==
    ASSUME NEW o, NEW k, NEW onError
    PROVE  Step(o, k, onError).op = o /\ Step(o, k, onError).kind = k /\ Step(o, k, onError).onError = onError
BY DEF Step

(* The elements of the short plans.                                        *)
LEMMA TupleElements ==
    /\ \A a : ToSet(<< a >>) = {a}
    /\ \A a, b, c : ToSet(<< a, b, c >>) = {a, b, c}
    /\ \A a, b, c, d, e, f : ToSet(<< a, b, c, d, e, f >>) = {a, b, c, d, e, f}
<1>1. \A a : ToSet(<< a >>) = {a}
      BY DEF ToSet
<1>2. \A a, b, c : ToSet(<< a, b, c >>) = {a, b, c}
      BY DEF ToSet
<1>3. \A a, b, c, d, e, f : ToSet(<< a, b, c, d, e, f >>) = {a, b, c, d, e, f}
      BY DEF ToSet
<1> QED BY <1>1, <1>2, <1>3

(* What a specification asks for of the resources whose errors stop a      *)
(* reconcile.                                                              *)
LEMMA WantedLemma ==
    ASSUME NEW s \in Specs
    PROVE  /\ s.kind = "KnativeService" => \A k \in Mandatory : k \notin Wanted(s)
           /\ s.kind # "KnativeService" =>
                /\ "Service" \in Wanted(s)
                /\ "Headless" \in Wanted(s) <=> s.kind = "StatefulSet"
                /\ "StatefulSet" \in Wanted(s) <=> s.kind = "StatefulSet"
                /\ "Deployment" \in Wanted(s) <=> s.kind = "Deployment"
                /\ "NetworkPolicy" \in Wanted(s) <=> s.networkPolicy
                /\ "Autoscaler" \in Wanted(s) <=> s.autoscaling
<1>1. s.kind \in {"Deployment", "StatefulSet", "KnativeService"}
      BY SpecFields DEF Workloads
<1>2. CASE s.kind = "KnativeService"
      BY <1>2 DEF Wanted, Mandatory
<1>3. CASE s.kind # "KnativeService"
      BY <1>1, <1>3 DEF Wanted, Mandatory
<1> QED BY <1>2, <1>3

(* The steps that are right.                                               *)
LEMMA RightSteps ==
    ASSUME NEW s \in Specs
    PROVE  /\ Right(Call, s)
           /\ \A k \in Mandatory : k \in Wanted(s) /\ (k \in Workloads => k = s.kind) => Right(Make(k), s)
           /\ \A k \in Mandatory : k \notin Wanted(s) => Right(Drop(k), s)
           /\ \A k \in Optional \ {"KnativeService"}, o \in {"make", "drop"} :
                \A onError : Right(Step(o, k, onError), s)
           /\ \A onError : s.kind # "KnativeService" => Right(Step("drop", "KnativeService", onError), s)
           /\ s.kind = "KnativeService" /\ "KnativeService" \in supported => Right(Make("KnativeService"), s)
           /\ Right(Step("refuse", None, {"stop"}), s)
           /\ Right(Step("claim", None, {"stop"}), s)
           /\ s.storage # "own" => Right(Step("unclaim", None, {"stop"}), s)
<1> USE StepOf DEF Right, Makes, Workloads, Mandatory
<1>1. Right(Call, s)
      BY DEF Call, None
<1>2. \A k \in Mandatory : k \in Wanted(s) /\ (k \in Workloads => k = s.kind) => Right(Make(k), s)
      BY DEF Make
<1>3. \A k \in Mandatory : k \notin Wanted(s) => Right(Drop(k), s)
      BY DEF Drop
<1>4. \A k \in Optional \ {"KnativeService"}, o \in {"make", "drop"} : \A onError : Right(Step(o, k, onError), s)
      BY DEF Optional
<1>5. \A onError : s.kind # "KnativeService" => Right(Step("drop", "KnativeService", onError), s)
      OBVIOUS
<1>6. s.kind = "KnativeService" /\ "KnativeService" \in supported => Right(Make("KnativeService"), s)
      BY DEF Make
<1>7. /\ Right(Step("refuse", None, {"stop"}), s) /\ Right(Step("claim", None, {"stop"}), s)
      /\ s.storage # "own" => Right(Step("unclaim", None, {"stop"}), s)
      BY DEF None
<1> QED BY <1>1, <1>2, <1>3, <1>4, <1>5, <1>6, <1>7

(* There is a step for everything that has to be there.                    *)
Covers(S, s) ==
    /\ \A k \in Mandatory : \E e \in S : e.kind = k
    /\ s.kind = "KnativeService" => \E e \in S : e.op = "refuse" \/ e.kind = "KnativeService"
    /\ s.kind # "KnativeService" /\ s.storage = "own" => \E e \in S : e.op = "claim"

(* The plan of a Knative Service: it deletes the other workloads first.    *)
LEMMA KnativePlanLemma ==
    ASSUME NEW s \in Specs, s.kind = "KnativeService"
    PROVE  /\ \A e \in ToSet(Plan(s)) : Right(e, s)
           /\ Covers(ToSet(Plan(s)), s)
           /\ \A absent : Ordered(Plan(s), absent, s.kind)
<1> DEFINE first == << Call >>
           drops == << Drop("Service"), Drop("Headless"), Drop("Deployment"), Drop("StatefulSet"),
                       Drop("Autoscaler"), Drop("NetworkPolicy") >>
           ingress == When("Ingress" \in supported, << Step("drop", "Ingress", {"ignore"}) >>)
           route == When("Route" \in supported, << Drop("Route") >>)
           last == << IF "KnativeService" \in supported THEN Make("KnativeService")
                      ELSE Step("refuse", None, {"stop"}) >>
           rest == ingress \o route \o last
<1>1. Plan(s) = first \o (drops \o ingress \o route \o last)
      BY DEF Plan, KnativePlan
<1>2. /\ \A k \in Owned : Drop(k) \in Steps
      /\ Call \in Steps /\ Make("KnativeService") \in Steps
      /\ Step("drop", "Ingress", {"ignore"}) \in Steps /\ Step("refuse", None, {"stop"}) \in Steps
      BY StepLemma DEF Owned, Step, Steps
<1>3. /\ first \in Seq(Steps) /\ drops \in Seq(Steps) /\ ingress \in Seq(Steps) /\ route \in Seq(Steps)
      /\ last \in Seq(Steps)
      BY <1>2 DEF When, Owned
<1>4. ToSet(drops) = {Drop("Service"), Drop("Headless"), Drop("Deployment"), Drop("StatefulSet"),
                      Drop("Autoscaler"), Drop("NetworkPolicy")}
      BY TupleElements
<1>5. ToSet(first) = {Call}
      BY TupleElements
<1>6. /\ ToSet(ingress) \subseteq {Step("drop", "Ingress", {"ignore"})}
      /\ ToSet(route) \subseteq {Drop("Route")}
      BY TupleElements, ToSetLemma, <1>3 DEF When
<1>7. ToSet(last) = {IF "KnativeService" \in supported THEN Make("KnativeService")
                     ELSE Step("refuse", None, {"stop"})}
      BY TupleElements
<1> HIDE DEF first, drops, ingress, route, last
<1>8. /\ ingress \o route \in Seq(Steps) /\ rest \in Seq(Steps) /\ drops \o rest \in Seq(Steps)
      /\ Plan(s) = first \o (drops \o rest)
  <2> DEFINE middle == ingress \o route
  <2>1. middle \in Seq(Steps) /\ middle \o last \in Seq(Steps) /\ drops \o (middle \o last) \in Seq(Steps)
        BY <1>3
  <2>2. (drops \o ingress) \o route = drops \o middle
        BY <1>3
  <2> HIDE DEF middle
  <2>3. (drops \o middle) \o last = drops \o (middle \o last)
        BY <1>3, <2>1
  <2>4. Plan(s) = first \o (drops \o (middle \o last))
        BY <1>1, <2>2, <2>3, Zenon
  <2> QED BY <2>1, <2>4 DEF middle
<1>9. ToSet(rest) = ToSet(ingress) \union ToSet(route) \union ToSet(last)
  <2> DEFINE middle == ingress \o route
  <2>1. middle \in Seq(Steps) /\ ToSet(middle) = ToSet(ingress) \union ToSet(route)
        BY <1>3, Concat
  <2> HIDE DEF middle
  <2>2. ToSet(middle \o last) = ToSet(middle) \union ToSet(last)
        BY <1>3, <2>1, Concat
  <2> QED BY <2>1, <2>2 DEF middle
<1> HIDE DEF rest
<1>10. ToSet(Plan(s)) = ToSet(first) \union ToSet(drops) \union ToSet(rest)
  <2> DEFINE tail == drops \o rest
  <2>1. tail \in Seq(Steps) /\ ToSet(tail) = ToSet(drops) \union ToSet(rest)
        BY <1>3, <1>8, Concat
  <2>2. Plan(s) = first \o tail
        BY <1>8
  <2> HIDE DEF tail
  <2>3. ToSet(first \o tail) = ToSet(first) \union ToSet(tail)
        BY <1>3, <2>1, Concat
  <2> QED BY <2>1, <2>2, <2>3
<1>11. \A k \in Mandatory : Right(Drop(k), s) /\ Drop(k) \in ToSet(drops)
       BY <1>4, RightSteps, WantedLemma DEF Mandatory
<1>12. \A e \in ToSet(drops) : Right(e, s)
       BY <1>4, <1>11 DEF Mandatory
<1>13. /\ \A e \in ToSet(rest) : Right(e, s)
       /\ \E e \in ToSet(rest) : e.op = "refuse" \/ e.kind = "KnativeService"
  <2>1. Right(Step("drop", "Ingress", {"ignore"}), s) /\ Right(Drop("Route"), s)
        BY RightSteps DEF Drop, Optional
  <2>2. \A e \in ToSet(last) : Right(e, s) /\ (e.op = "refuse" \/ e.kind = "KnativeService")
        BY <1>7, RightSteps, StepOf DEF Make
  <2>3. \E e \in ToSet(last) : TRUE
        BY <1>7
  <2> QED BY <1>6, <1>9, <2>1, <2>2, <2>3
<1>14. \A e \in ToSet(Plan(s)) : Right(e, s)
       BY <1>5, <1>10, <1>12, <1>13, RightSteps
<1>15. Covers(ToSet(Plan(s)), s)
  <2>1. \A k \in Mandatory : Drop(k).kind = k
        BY StepOf DEF Drop
  <2> QED BY <1>10, <1>11, <1>13, <2>1 DEF Covers
<1>16. \A absent : Ordered(Plan(s), absent, s.kind)
  <2>1. TAKE absent
  <2>2. Workloads \ {s.kind} \subseteq Dropped(drops)
    <3>1. \A k \in {"Deployment", "StatefulSet"} : Drops(Drop(k), k) /\ Drop(k) \in ToSet(drops)
          BY <1>4, StepOf DEF Drops, Drop
    <3> QED BY <3>1 DEF Dropped, Workloads
  <2>3. Ordered(rest, absent \union Dropped(first) \union Dropped(drops), s.kind)
    <3>1. \A j \in 1 .. Len(rest) : Makes(rest[j]) => rest[j].kind = s.kind
          BY <1>13 DEF Right, ToSet
    <3> QED BY <2>2, <3>1 DEF Ordered
  <2>4. Ordered(drops, absent \union Dropped(first), s.kind)
    <3>1. \A e \in ToSet(drops) : ~Makes(e)
          BY <1>4, StepOf DEF Makes, Drop
    <3> QED BY <1>3, <3>1, OrderedQuiet
  <2>5. Ordered(first, absent, s.kind)
    <3>1. \A e \in ToSet(first) : ~Makes(e)
          BY <1>5, StepOf DEF Makes, Call
    <3> QED BY <1>3, <3>1, OrderedQuiet
  <2>6. Ordered(drops \o rest, absent \union Dropped(first), s.kind)
        BY <1>3, <1>8, <2>3, <2>4, OrderedConcat
  <2> QED BY <1>3, <1>8, <2>5, <2>6, OrderedConcat
<1> QED BY <1>14, <1>15, <1>16

(* What is right of the parts of a plan is right of the plan.              *)
Sound(p, absent, s) ==
    /\ p \in Seq(Steps)
    /\ \A e \in ToSet(p) : Right(e, s)
    /\ Ordered(p, absent, s.kind)

(* A sound plan, followed by one that is sound after it.                   *)
LEMMA Extend ==
    ASSUME NEW p, NEW q, NEW absent, NEW s,
           Sound(p, absent, s), Sound(q, absent \union Dropped(p), s)
    PROVE  /\ Sound(p \o q, absent, s)
           /\ ToSet(p \o q) = ToSet(p) \union ToSet(q)
           /\ Dropped(p \o q) = Dropped(p) \union Dropped(q)
<1>1. p \in Seq(Steps) /\ q \in Seq(Steps)
      BY DEF Sound
<1>2. p \o q \in Seq(Steps) /\ ToSet(p \o q) = ToSet(p) \union ToSet(q)
      BY <1>1, Concat
<1>3. Ordered(p \o q, absent, s.kind)
      BY <1>1, OrderedConcat DEF Sound
<1>4. Dropped(p \o q) = Dropped(p) \union Dropped(q)
  <2> DEFINE r == p \o q
  <2>1. ToSet(r) = ToSet(p) \union ToSet(q)
        BY <1>2
  <2> HIDE DEF r
  <2>2. Dropped(r) = Dropped(p) \union Dropped(q)
        BY <2>1 DEF Dropped
  <2> QED BY <2>2 DEF r
<1> QED BY <1>2, <1>3, <1>4 DEF Sound

(* Right steps that make no workload are sound.                            *)
LEMMA QuietSound ==
    ASSUME NEW p \in Seq(Steps), NEW s, \A e \in ToSet(p) : Right(e, s) /\ ~Makes(e), NEW absent
    PROVE  Sound(p, absent, s)
BY OrderedQuiet DEF Sound

(* Three steps that delete one workload and make another are sound.        *)
LEMMA ThreeSteps ==
    ASSUME NEW s, NEW absent, NEW a \in Steps, NEW b \in Steps, NEW c \in Steps, NEW k,
           Right(a, s), Right(b, s), Right(c, s), ~Makes(a), ~Makes(b), c.kind = s.kind,
           Drops(a, k), Workloads \subseteq absent \union {s.kind, k}
    PROVE  Sound(<< a, b, c >>, absent, s) /\ ToSet(<< a, b, c >>) = {a, b, c}
<1> DEFINE plan == << a, b, c >>
<1>1. ToSet(plan) = {a, b, c}
      BY TupleElements
<1>2. plan \in Seq(Steps) /\ Len(plan) = 3 /\ plan[1] = a /\ plan[2] = b /\ plan[3] = c
      OBVIOUS
<1> HIDE DEF plan
<1>3. Ordered(plan, absent, s.kind)
  <2> SUFFICES ASSUME NEW i \in 1 .. Len(plan), Makes(plan[i])
               PROVE  /\ plan[i].kind = s.kind
                      /\ \A d \in Workloads \ {s.kind} : d \in absent \/ \E j \in 1 .. i - 1 : Drops(plan[j], d)
      BY DEF Ordered
  <2>1. i = 3
        BY <1>2
  <2>2. 1 \in 1 .. i - 1
        BY <2>1
  <2> QED BY <1>2, <2>1, <2>2
<1>4. Sound(plan, absent, s)
      BY <1>1, <1>2, <1>3 DEF Sound
<1> QED BY <1>1, <1>4 DEF plan

(* The Deployment is deleted before the StatefulSet is made, and the other *)
(* way round.                                                              *)
LEMMA WorkloadPlanLemma ==
    ASSUME NEW s \in Specs, s.kind # "KnativeService", NEW absent, "KnativeService" \in absent
    PROVE  /\ Sound(WorkloadPlan(s), absent, s)
           /\ \A k \in {"Headless", "Deployment", "StatefulSet"} : \E e \in ToSet(WorkloadPlan(s)) : e.kind = k
<1>0. s.kind \in {"Deployment", "StatefulSet"}
      BY SpecFields DEF Workloads
<1>1. \A k \in {"Headless", "Deployment", "StatefulSet"} :
         /\ Make(k) \in Steps /\ Drop(k) \in Steps /\ Make(k).kind = k /\ Drop(k).kind = k
         /\ ~Makes(Drop(k)) /\ (k # "Headless" => Drops(Drop(k), k))
         /\ k \in Wanted(s) => Right(Make(k), s)
         /\ k \notin Wanted(s) => Right(Drop(k), s)
  <2>1. \A k \in {"Headless", "Deployment", "StatefulSet"} : Make(k) \in Steps /\ Drop(k) \in Steps
        BY StepLemma DEF Owned
  <2>2. \A k \in {"Headless", "Deployment", "StatefulSet"} :
           /\ Make(k).kind = k /\ Drop(k).kind = k
           /\ ~Makes(Drop(k)) /\ (k # "Headless" => Drops(Drop(k), k))
        BY StepOf DEF Make, Drop, Makes, Drops
  <2>3. \A k \in {"Headless", "Deployment", "StatefulSet"} :
           /\ k \in Wanted(s) => Right(Make(k), s)
           /\ k \notin Wanted(s) => Right(Drop(k), s)
        BY <1>0, RightSteps, WantedLemma DEF Mandatory, Workloads
  <2> QED BY <2>1, <2>2, <2>3
<1>2. ~Makes(Make("Headless"))
      BY StepOf DEF Make, Makes, Workloads
<1>3. CASE s.kind = "StatefulSet"
  <2> DEFINE a == Drop("Deployment")
             b == Make("Headless")
             c == Make("StatefulSet")
  <2>1. WorkloadPlan(s) = << a, b, c >>
        BY <1>3 DEF WorkloadPlan
  <2>2. /\ a \in Steps /\ b \in Steps /\ c \in Steps /\ ~Makes(a) /\ ~Makes(b) /\ Drops(a, "Deployment")
        /\ Right(a, s) /\ Right(b, s) /\ Right(c, s)
        /\ a.kind = "Deployment" /\ b.kind = "Headless" /\ c.kind = "StatefulSet"
        BY <1>1, <1>2, <1>3, WantedLemma
  <2> HIDE DEF a, b, c
  <2>3. Workloads \subseteq absent \union {s.kind, "Deployment"}
        BY <1>3 DEF Workloads
  <2>4. Sound(<< a, b, c >>, absent, s) /\ ToSet(<< a, b, c >>) = {a, b, c}
        BY <1>3, <2>2, <2>3, ThreeSteps
  <2> QED BY <2>1, <2>2, <2>4
<1>4. CASE s.kind = "Deployment"
  <2> DEFINE a == Drop("StatefulSet")
             b == Drop("Headless")
             c == Make("Deployment")
  <2>1. WorkloadPlan(s) = << a, b, c >>
        BY <1>4 DEF WorkloadPlan
  <2>2. /\ a \in Steps /\ b \in Steps /\ c \in Steps /\ ~Makes(a) /\ ~Makes(b) /\ Drops(a, "StatefulSet")
        /\ Right(a, s) /\ Right(b, s) /\ Right(c, s)
        /\ a.kind = "StatefulSet" /\ b.kind = "Headless" /\ c.kind = "Deployment"
        BY <1>1, <1>4, WantedLemma
  <2> HIDE DEF a, b, c
  <2>3. Workloads \subseteq absent \union {s.kind, "StatefulSet"}
        BY <1>4 DEF Workloads
  <2>4. Sound(<< a, b, c >>, absent, s) /\ ToSet(<< a, b, c >>) = {a, b, c}
        BY <1>4, <2>2, <2>3, ThreeSteps
  <2> QED BY <2>1, <2>2, <2>4
<1> QED BY <1>0, <1>3, <1>4

(* Route, Ingress and ServiceMonitor touch no workload.                    *)
LEMMA OptionalSteps ==
    ASSUME NEW s \in Specs
    PROVE  \A absent : Sound(ExposePlan(s), absent, s) /\ Sound(MonitorPlan(s), absent, s)
<1>1. ASSUME NEW k \in {"Route", "Ingress", "ServiceMonitor"}, NEW condition \in BOOLEAN
      PROVE  /\ MakeOptional(condition, k) \in Seq(Steps)
             /\ \A e \in ToSet(MakeOptional(condition, k)) : Right(e, s) /\ ~Makes(e)
  <2> DEFINE e == Step(IF condition THEN "make" ELSE "drop", k, {"stop", "report"})
  <2>1. k \in Owned /\ k \in Optional \ {"KnativeService"} /\ k \notin Workloads
        BY DEF Owned, Optional, Workloads
  <2>2. Right(e, s)
        BY <2>1, RightSteps
  <2>3. ~Makes(e)
        BY <2>1, StepOf DEF Makes
  <2> HIDE DEF e
  <2>4. ToSet(<< e >>) = {e}
        BY TupleElements
  <2> QED BY <2>1, <2>2, <2>3, <2>4, StepLemma DEF MakeOptional, e
<1>2. /\ ExposePlan(s) \in Seq(Steps) /\ \A e \in ToSet(ExposePlan(s)) : Right(e, s) /\ ~Makes(e)
      /\ MonitorPlan(s) \in Seq(Steps) /\ \A e \in ToSet(MonitorPlan(s)) : Right(e, s) /\ ~Makes(e)
  <2>1. ToSet(<< >>) = {} /\ << >> \in Seq(Steps)
        BY NoSteps
  <2> QED BY <1>1, <2>1, SpecFields DEF ExposePlan, MonitorPlan, When
<1> QED BY <1>2, QuietSound

(* A plan of one step.                                                     *)
LEMMA SingleStep ==
    ASSUME NEW e \in Steps, NEW s, Right(e, s), ~Makes(e)
    PROVE  ToSet(<< e >>) = {e} /\ \A absent : Sound(<< e >>, absent, s)
<1>1. ToSet(<< e >>) = {e} /\ << e >> \in Seq(Steps)
      BY TupleElements
<1> QED BY <1>1, QuietSound

(* What comes before the workload: the Knative Service is deleted, and     *)
(* service, network policy and claim are as asked.                         *)
LEMMA ServicePlanLemma ==
    ASSUME NEW s \in Specs, s.kind # "KnativeService", NEW absent,
           "KnativeService" \in supported \/ "KnativeService" \in absent
    PROVE  LET knative == When("KnativeService" \in supported, << Step("drop", "KnativeService", {"report"}) >>)
               plan == << Call >> \o knative \o << Make("Service") >> \o MakeIf(s.networkPolicy, "NetworkPolicy")
                       \o StoragePlan(s) \o << Call >>
           IN  /\ Sound(plan, absent, s) /\ "KnativeService" \in absent \union Dropped(plan)
               /\ \A k \in {"Service", "NetworkPolicy"} : \E e \in ToSet(plan) : e.kind = k
               /\ s.storage = "own" => \E e \in ToSet(plan) : e.op = "claim"
<1> DEFINE knative == When("KnativeService" \in supported, << Step("drop", "KnativeService", {"report"}) >>)
           policy == IF s.networkPolicy THEN Make("NetworkPolicy") ELSE Drop("NetworkPolicy")
           storage == Step(IF s.storage = "own" THEN "claim" ELSE "unclaim", None, {"stop"})
<1>1. /\ Call \in Steps /\ Make("Service") \in Steps /\ policy \in Steps /\ storage \in Steps
      /\ Step("drop", "KnativeService", {"report"}) \in Steps
  <2>1. Call \in Steps /\ Make("Service") \in Steps /\ Make("NetworkPolicy") \in Steps /\ Drop("NetworkPolicy") \in Steps
        BY StepLemma DEF Owned
  <2> QED BY <2>1 DEF Step, Steps, None, Owned
<1>2. Right(Call, s) /\ Right(Make("Service"), s) /\ Right(policy, s) /\ Right(storage, s)
  <2>1. Right(Make("Service"), s)
        BY RightSteps, WantedLemma DEF Mandatory, Workloads
  <2>2. Right(policy, s)
        BY RightSteps, WantedLemma DEF Mandatory, Workloads
  <2> QED BY <2>1, <2>2, RightSteps
<1>3. /\ ~Makes(Call) /\ ~Makes(Make("Service")) /\ ~Makes(policy) /\ ~Makes(storage)
      /\ Make("Service").kind = "Service" /\ policy.kind = "NetworkPolicy"
      /\ s.storage = "own" => storage.op = "claim"
      BY StepOf DEF Call, Make, Drop, Makes, Workloads
<1>4. /\ \A a : Sound(knative, a, s)
      /\ "KnativeService" \in supported => "KnativeService" \in Dropped(knative)
  <2>1. CASE "KnativeService" \in supported
    <3> DEFINE e == Step("drop", "KnativeService", {"report"})
    <3>1. e \in Steps /\ Right(e, s) /\ ~Makes(e) /\ Drops(e, "KnativeService")
          BY <1>1, RightSteps, StepOf DEF Makes, Drops
    <3> HIDE DEF e
    <3>2. ToSet(<< e >>) = {e} /\ \A a : Sound(<< e >>, a, s)
          BY <3>1, SingleStep
    <3>3. knative = << e >>
          BY <2>1 DEF When, e
    <3> QED BY <3>1, <3>2, <3>3 DEF Dropped, Workloads
  <2>2. CASE "KnativeService" \notin supported
    <3>1. knative = << >> /\ ToSet(<< >>) = {} /\ << >> \in Seq(Steps)
          BY <2>2, NoSteps DEF When
    <3> QED BY <2>2, <3>1, QuietSound
  <2> QED BY <2>1, <2>2
<1>5. MakeIf(s.networkPolicy, "NetworkPolicy") = << policy >> /\ StoragePlan(s) = << storage >>
      BY DEF MakeIf, StoragePlan
<1> HIDE DEF knative, policy, storage
<1>6. /\ ToSet(<< Call >>) = {Call} /\ \A a : Sound(<< Call >>, a, s)
      /\ ToSet(<< Make("Service") >>) = {Make("Service")} /\ \A a : Sound(<< Make("Service") >>, a, s)
      /\ ToSet(<< policy >>) = {policy} /\ \A a : Sound(<< policy >>, a, s)
      /\ ToSet(<< storage >>) = {storage} /\ \A a : Sound(<< storage >>, a, s)
      BY <1>1, <1>2, <1>3, SingleStep
<1> DEFINE call == << Call >>
           service == << Make("Service") >>
           network == << policy >>
           claim == << storage >>
           p1 == call \o knative
           p2 == p1 \o service
           p3 == p2 \o network
           p4 == p3 \o claim
           p5 == p4 \o call
<1>7. /\ \A a : Sound(call, a, s) /\ Sound(service, a, s) /\ Sound(network, a, s) /\ Sound(claim, a, s)
      /\ Make("Service") \in ToSet(service) /\ policy \in ToSet(network) /\ storage \in ToSet(claim)
      BY <1>6
<1> HIDE DEF call, service, network, claim
<1>8. Sound(p1, absent, s) /\ Dropped(knative) \subseteq Dropped(p1)
      BY <1>4, <1>7, Extend
<1> HIDE DEF p1
<1>9. /\ Sound(p2, absent, s) /\ ToSet(p2) = ToSet(p1) \union ToSet(service)
      /\ Dropped(p2) = Dropped(p1) \union Dropped(service)
      BY <1>7, <1>8, Extend
<1> HIDE DEF p2
<1>10. /\ Sound(p3, absent, s) /\ ToSet(p3) = ToSet(p2) \union ToSet(network)
       /\ Dropped(p3) = Dropped(p2) \union Dropped(network)
      BY <1>7, <1>9, Extend
<1> HIDE DEF p3
<1>11. /\ Sound(p4, absent, s) /\ ToSet(p4) = ToSet(p3) \union ToSet(claim)
       /\ Dropped(p4) = Dropped(p3) \union Dropped(claim)
      BY <1>7, <1>10, Extend
<1> HIDE DEF p4
<1>12. /\ Sound(p5, absent, s) /\ ToSet(p5) = ToSet(p4) \union ToSet(call)
       /\ Dropped(p5) = Dropped(p4) \union Dropped(call)
      BY <1>7, <1>11, Extend
<1> HIDE DEF p5
<1>13. /\ "KnativeService" \in absent \union Dropped(p5)
       /\ Make("Service") \in ToSet(p5) /\ policy \in ToSet(p5) /\ storage \in ToSet(p5)
       BY <1>4, <1>7, <1>8, <1>9, <1>10, <1>11, <1>12
<1>14. /\ \A k \in {"Service", "NetworkPolicy"} : \E e \in ToSet(p5) : e.kind = k
       /\ s.storage = "own" => \E e \in ToSet(p5) : e.op = "claim"
       BY <1>3, <1>13
<1> QED BY <1>5, <1>12, <1>13, <1>14 DEF p1, p2, p3, p4, p5, call, service, network, claim, knative

(* Every plan is right and complete, and in order if the Knative Service   *)
(* is absent or can be deleted.                                            *)
LEMMA PlanLemma ==
    ASSUME NEW s \in Specs, NEW absent,
           "KnativeService" \in supported \/ "KnativeService" \in absent
    PROVE  /\ \A e \in ToSet(Plan(s)) : Right(e, s)
           /\ Covers(ToSet(Plan(s)), s)
           /\ Ordered(Plan(s), absent, s.kind)
<1>1. CASE s.kind = "KnativeService"
      BY <1>1, KnativePlanLemma
<1>2. CASE s.kind # "KnativeService"
  <2> DEFINE knative == When("KnativeService" \in supported, << Step("drop", "KnativeService", {"report"}) >>)
             p1 == << Call >> \o knative \o << Make("Service") >> \o MakeIf(s.networkPolicy, "NetworkPolicy")
                   \o StoragePlan(s) \o << Call >>
             workload == WorkloadPlan(s)
             scale == ScalePlan(s)
             expose == ExposePlan(s)
             monitor == MonitorPlan(s)
             p2 == p1 \o workload
             p3 == p2 \o scale
             p4 == p3 \o expose
             p5 == p4 \o monitor
  <2>1. Plan(s) = p5
        BY <1>2 DEF Plan
  <2>2. /\ Sound(p1, absent, s) /\ "KnativeService" \in absent \union Dropped(p1)
        /\ \A k \in {"Service", "NetworkPolicy"} : \E e \in ToSet(p1) : e.kind = k
        /\ s.storage = "own" => \E e \in ToSet(p1) : e.op = "claim"
        BY <1>2, ServicePlanLemma
  <2> HIDE DEF p1
  <2>3. /\ Sound(workload, absent \union Dropped(p1), s)
        /\ \A k \in {"Headless", "Deployment", "StatefulSet"} : \E e \in ToSet(workload) : e.kind = k
        BY <1>2, <2>2, WorkloadPlanLemma
  <2>4. /\ \A a : Sound(scale, a, s)
        /\ \E e \in ToSet(scale) : e.kind = "Autoscaler"
    <3> DEFINE e == IF s.autoscaling THEN Make("Autoscaler") ELSE Drop("Autoscaler")
    <3>1. e \in Steps
          BY StepLemma DEF Owned
    <3>2. Right(e, s)
          BY <1>2, RightSteps, WantedLemma DEF Mandatory, Workloads
    <3>3. ~Makes(e) /\ e.kind = "Autoscaler"
          BY StepOf DEF Make, Drop, Makes, Workloads
    <3>4. scale = << e >>
          BY DEF ScalePlan, MakeIf
    <3> HIDE DEF e
    <3> QED BY <3>1, <3>2, <3>3, <3>4, SingleStep
  <2>5. \A a : Sound(expose, a, s) /\ Sound(monitor, a, s)
        BY OptionalSteps
  <2> HIDE DEF workload, scale, expose, monitor
  <2>6. Sound(p2, absent, s) /\ ToSet(p2) = ToSet(p1) \union ToSet(workload)
        BY <2>2, <2>3, Extend
  <2> HIDE DEF p2
  <2>7. Sound(p3, absent, s) /\ ToSet(p3) = ToSet(p2) \union ToSet(scale)
        BY <2>4, <2>6, Extend
  <2> HIDE DEF p3
  <2>8. Sound(p4, absent, s) /\ ToSet(p4) = ToSet(p3) \union ToSet(expose)
        BY <2>5, <2>7, Extend
  <2> HIDE DEF p4
  <2>9. Sound(p5, absent, s) /\ ToSet(p5) = ToSet(p4) \union ToSet(monitor)
        BY <2>5, <2>8, Extend
  <2> HIDE DEF p5
  <2>10. Covers(ToSet(p5), s)
    <3>1. ToSet(p5) = ToSet(p1) \union ToSet(workload) \union ToSet(scale) \union ToSet(expose) \union ToSet(monitor)
          BY <2>6, <2>7, <2>8, <2>9
    <3>2. \A k \in Mandatory : \E e \in ToSet(p5) : e.kind = k
          BY <2>2, <2>3, <2>4, <3>1 DEF Mandatory
    <3> QED BY <1>2, <2>2, <3>1, <3>2 DEF Covers
  <2> QED BY <2>1, <2>9, <2>10 DEF Sound
<1> QED BY <1>1, <1>2

-----------------------------------------------------------------------------
(* The workloads that are not there.  Once a call has failed, a Knative    *)
(* Service may be left besides another workload.                           *)
Absent == {k \in Workloads : res[k] = 0} \union (IF faults = 0 THEN {} ELSE {"KnativeService"})

(* Of two workloads one is absent, and there is no Knative Service where   *)
(* none is supported.                                                      *)
OnlyInv ==
    /\ \A k, d \in Workloads : k # d => k \in Absent \/ d \in Absent
    /\ "KnativeService" \notin supported => res["KnativeService"] = 0

(* What is left of a plan is right, and in order for what is absent now.   *)
PlanInv ==
    rec.pc = "steps" =>
      /\ \A e \in ToSet(rec.plan) : Right(e, rec.spec)
      /\ Ordered(rec.plan, Absent, rec.spec.kind)

(* The first of the steps that are left.                                   *)
LEMMA NextStepLemma ==
    ASSUME RecInv, PlanInv, rec.pc = "steps", rec.plan # << >>
    PROVE  /\ rec \in Recs /\ rec.plan \in Seq(Steps) /\ NextStep \in Steps /\ rec.spec \in Specs
           /\ ToSet(rec.plan) = {NextStep} \union ToSet(Tail(rec.plan)) /\ Tail(rec.plan) \in Seq(Steps)
           /\ Right(NextStep, rec.spec)
           /\ Makes(NextStep) => NextStep.kind = rec.spec.kind /\ Workloads \ {rec.spec.kind} \subseteq Absent
           /\ Ordered(Tail(rec.plan), Absent \union {k \in Workloads : Drops(NextStep, k)}, rec.spec.kind)
<1>1. rec \in Recs /\ rec.plan \in Seq(Steps) /\ rec.spec \in Specs
      BY Busy, RecFields
<1>2. ToSet(rec.plan) = {NextStep} \union ToSet(Tail(rec.plan)) /\ NextStep \in Steps
      BY <1>1, ToSetLemma DEF NextStep
<1>3. Ordered(rec.plan, Absent, rec.spec.kind) /\ Right(NextStep, rec.spec)
      BY <1>2 DEF PlanInv
<1>4. Tail(rec.plan) \in Seq(Steps)
      BY <1>1
<1>5. /\ Makes(NextStep) => NextStep.kind = rec.spec.kind /\ Workloads \ {rec.spec.kind} \subseteq Absent
      /\ Ordered(Tail(rec.plan), Absent \union {k \in Workloads : Drops(NextStep, k)}, rec.spec.kind)
      BY <1>1, <1>3, OrderedLemma DEF NextStep
<1> QED BY <1>1, <1>2, <1>3, <1>4, <1>5

(* A workload that is absent or deleted stays so until it is made, unless  *)
(* a failed call let the reconcile pass over a Knative Service.            *)
LEMMA AbsentStep ==
    ASSUME TypeOK, RecInv, PlanInv, [Next]_vars
    PROVE  /\ \A k \in Absent : k \in Absent' \/ (TakeStep /\ NextStep.op = "make" /\ NextStep.kind = k)
           /\ TakeStep \/ StepFails \/ MakeClaim \/ DropClaim =>
                rec' = NoRec \/ {k \in Workloads : Drops(NextStep, k)} \subseteq Absent'
<1>1. /\ ResChange /\ faults \in Nat /\ faults' \in Nat /\ faults <= faults'
      /\ res \in [Owned -> 0 .. MaxGen] /\ Workloads \subseteq Owned
      BY ResStep, ClusterStep, TypeState, ApplicationAssumption DEF TypeOK, Workloads, Owned
<1>2. faults # 0 => faults' # 0
      BY <1>1
<1>3. \A k \in Workloads : res[k] = 0 => res'[k] = 0 \/ (TakeStep /\ NextStep.op = "make" /\ NextStep.kind = k)
      BY <1>1 DEF ResChange
<1>4. ASSUME NEW k \in Workloads, Drops(NextStep, k), TakeStep PROVE res'[k] = 0
  <2>1. res' = [res EXCEPT ![k] = 0]
        BY <1>4 DEF TakeStep, Drops
  <2> QED BY <1>1, <2>1
<1>5. ASSUME NEW k \in Workloads, Drops(NextStep, k), StepFails, rec' # NoRec PROVE k \in Absent'
  <2>1. Fault
        BY <1>5 DEF StepFails, Drops
  <2>2. faults' # 0
        BY <1>1, <2>1 DEF Fault
  <2>3. k = "KnativeService"
    <3>1. NextStep.onError # {"stop"}
          BY <1>5 DEF StepFails, ManageError, Return
    <3> QED BY <1>5, <3>1 DEF Drops
  <2> QED BY <2>2, <2>3 DEF Absent
<1>6. MakeClaim \/ DropClaim => \A k \in Workloads : ~Drops(NextStep, k)
      BY DEF MakeClaim, DropClaim, Drops
<1> QED BY <1>2, <1>3, <1>4, <1>5, <1>6 DEF Absent, Workloads

(* A workload is made only when the others are absent.                     *)
LEMMA OnlyInvStep == ASSUME TypeOK, RecInv, OnlyInv, PlanInv, [Next]_vars PROVE OnlyInv'
<1>1. /\ ResChange /\ res \in [Owned -> 0 .. MaxGen] /\ Workloads \subseteq Owned /\ supported' = supported
      BY ResStep, ClusterStep, TypeState DEF Workloads, Owned
<1>2. \A k \in Absent : k \in Absent' \/ (TakeStep /\ NextStep.op = "make" /\ NextStep.kind = k)
      BY AbsentStep
<1>3. CASE TakeStep /\ Makes(NextStep)
  <2>1. rec.pc = "steps" /\ rec.plan # << >>
        BY <1>3 DEF TakeStep
  <2>2. /\ NextStep.kind = rec.spec.kind /\ Workloads \ {rec.spec.kind} \subseteq Absent
        /\ NextStep.kind = "KnativeService" => "KnativeService" \in supported
        BY <1>3, <2>1, NextStepLemma DEF Right
  <2>3. res' = [res EXCEPT ![NextStep.kind] = rec.gen]
        BY <1>3 DEF TakeStep, Makes
  <2>4. "KnativeService" \notin supported => res'["KnativeService"] = 0
        BY <1>1, <2>2, <2>3 DEF OnlyInv, Workloads
  <2> QED BY <1>1, <1>2, <2>2, <2>4 DEF OnlyInv
<1>4. CASE ~(TakeStep /\ Makes(NextStep))
  <2>1. \A k \in Absent : k \in Workloads
        BY DEF Absent, Workloads
  <2>2. Absent \subseteq Absent'
        BY <1>2, <1>4, <2>1 DEF Makes
  <2>3. "KnativeService" \notin supported => res'["KnativeService"] = 0
        BY <1>1, <1>4 DEF ResChange, Makes, OnlyInv, Workloads
  <2> QED BY <1>1, <2>2, <2>3 DEF OnlyInv
<1> QED BY <1>3, <1>4

(* A plan that is in order when it is made stays in order.                 *)
LEMMA PlanInvStep == ASSUME TypeOK, RecInv, StatusInv, OnlyInv, PlanInv, [Next]_vars PROVE PlanInv'
<1>1. RecChange /\ supported' = supported
      BY RecStep, ClusterStep
<1>2. (\A e \in ToSet(rec'.plan) : Right(e, rec'.spec)) => (\A e \in ToSet(rec.plan) : Right(e, rec.spec))'
      BY <1>1 DEF Right, Wanted, Makes
<1>3. SUFFICES ASSUME rec'.pc = "steps"
               PROVE  /\ \A e \in ToSet(rec'.plan) : Right(e, rec'.spec)
                      /\ Ordered(rec'.plan, Absent', rec'.spec.kind)
      BY <1>2 DEF PlanInv
<1>4. CASE TakeStep \/ StepFails \/ MakeClaim \/ DropClaim
  <2>1. /\ rec.pc = "steps" /\ rec.plan # << >> /\ rec \in Recs
        /\ \A k \in Absent : k \in Absent' \/ (TakeStep /\ NextStep.op = "make" /\ NextStep.kind = k)
        /\ {k \in Workloads : Drops(NextStep, k)} \subseteq Absent'
    <3>1. rec.pc = "steps" /\ rec.plan # << >>
          BY <1>4 DEF TakeStep, StepFails, MakeClaim, DropClaim
    <3>2. rec' # NoRec /\ rec \in Recs
          BY <1>3, <3>1, Busy, NoRecLemma
    <3> QED BY <1>4, <3>1, <3>2, AbsentStep
  <2>2. rec' = [rec EXCEPT !.plan = Tail(rec.plan)]
        BY <1>3, <1>4, NoRecLemma DEF TakeStep, StepFails, MakeClaim, DropClaim, EndStep, ManageError, Return
  <2>3. rec'.plan = Tail(rec.plan) /\ rec'.spec = rec.spec
        BY <2>1, <2>2 DEF Recs
  <2> DEFINE dropped == {k \in Workloads : Drops(NextStep, k)}
  <2>4. /\ ToSet(rec.plan) = {NextStep} \union ToSet(Tail(rec.plan)) /\ Tail(rec.plan) \in Seq(Steps)
        /\ Makes(NextStep) => NextStep.kind = rec.spec.kind
        /\ Ordered(Tail(rec.plan), Absent \union dropped, rec.spec.kind)
        BY <2>1, NextStepLemma
  <2>5. Absent \subseteq Workloads /\ dropped \subseteq Absent'
        BY <2>1 DEF Absent, Workloads
  <2> HIDE DEF dropped
  <2>6. (Absent \union dropped) \ {rec.spec.kind} \subseteq Absent'
        BY <2>1, <2>4, <2>5 DEF Makes
  <2> DEFINE p == Tail(rec.plan)
  <2> HIDE DEF p
  <2>7. Ordered(p, Absent', rec.spec.kind)
        BY <2>4, <2>6, OrderedLemma DEF p
  <2>8. \A e \in ToSet(p) : Right(e, rec.spec)
        BY <2>1, <2>4 DEF PlanInv, p
  <2> QED BY <2>3, <2>7, <2>8 DEF p
<1>5. CASE ~(TakeStep \/ StepFails \/ MakeClaim \/ DropClaim)
  <2>1. Absent \subseteq Absent'
        BY <1>5, AbsentStep
  <2>2. CASE rec' = rec
    <3>1. rec \in Recs /\ rec.plan \in Seq(Steps)
          BY <1>3, <2>2, Busy, RecFields
    <3>2. Ordered(rec.plan, Absent', rec.spec.kind)
          BY <1>3, <2>1, <2>2, <3>1, OrderedLemma DEF PlanInv
    <3>3. \A e \in ToSet(rec.plan) : Right(e, rec.spec)
          BY <1>3, <2>2 DEF PlanInv
    <3> QED BY <2>2, <3>2, <3>3
  <2>3. CASE MakePlan /\ rec \in Recs /\ rec'.spec = rec.spec /\ rec'.plan = Plan(rec.spec)
    <3> DEFINE p == Plan(rec.spec)
    <3>1. rec.spec \in Specs /\ p \in Seq(Steps)
          BY <2>3, RecFields, PlanType
    <3>2. "KnativeService" \in supported \/ "KnativeService" \in Absent
          BY DEF OnlyInv, Absent, Workloads
    <3>3. (\A e \in ToSet(p) : Right(e, rec.spec)) /\ Ordered(p, Absent, rec.spec.kind)
          BY <3>1, <3>2, PlanLemma
    <3> HIDE DEF p
    <3>4. Ordered(p, Absent', rec.spec.kind)
          BY <2>1, <3>1, <3>3, OrderedLemma
    <3> QED BY <2>3, <3>3, <3>4 DEF p
  <2> QED BY <1>1, <1>3, <1>5, <2>2, <2>3, NoRecLemma DEF RecChange, Begun, Proceeds
<1> QED BY <1>4, <1>5

-----------------------------------------------------------------------------
(* What of a plan is not done is still to be done.                         *)
Written(k, s, gen) == res[k] = IF k \in Wanted(s) THEN gen ELSE 0

CompleteInv ==
    rec.pc = "steps" =>
      /\ \A k \in Mandatory : Written(k, rec.spec, rec.gen) \/ \E e \in ToSet(rec.plan) : e.kind = k
      /\ rec.spec.kind = "KnativeService" =>
           \/ res["KnativeService"] = rec.gen
           \/ \E e \in ToSet(rec.plan) : e.op = "refuse" \/ e.kind = "KnativeService"
      /\ rec.spec.kind # "KnativeService" /\ rec.spec.storage = "own" =>
           pvc # "absent" \/ \E e \in ToSet(rec.plan) : e.op = "claim"

(* A step is left only when it is done: one that must not be passed over   *)
(* ends the reconcile when it fails.                                       *)
LEMMA CompleteInvStep ==
    ASSUME TypeOK, RecInv, StatusInv, OnlyInv, PlanInv, CompleteInv, [Next]_vars
    PROVE  CompleteInv'
<1>1. /\ RecChange /\ supported' = supported /\ ResChange /\ PvcChange
      /\ res \in [Owned -> 0 .. MaxGen] /\ Mandatory \subseteq Owned /\ "KnativeService" \in Owned
      BY RecStep, ClusterStep, ResStep, PvcStep, TypeState DEF Mandatory, Owned
<1> DEFINE wanted == Wanted(rec.spec)
           done(k, r, gen) == r[k] = IF k \in wanted THEN gen ELSE 0
<1>2. SUFFICES ASSUME rec'.pc = "steps", rec' # NoRec
               PROVE  /\ rec'.spec = rec.spec /\ rec'.gen = rec.gen
                      /\ \A k \in Mandatory :
                           done(k, res', rec.gen) \/ \E e \in ToSet(rec'.plan) : e.kind = k
                      /\ rec.spec.kind = "KnativeService" =>
                           \/ res'["KnativeService"] = rec.gen
                           \/ \E e \in ToSet(rec'.plan) : e.op = "refuse" \/ e.kind = "KnativeService"
                      /\ rec.spec.kind # "KnativeService" /\ rec.spec.storage = "own" =>
                           pvc' # "absent" \/ \E e \in ToSet(rec'.plan) : e.op = "claim"
      BY <1>1, NoRecLemma DEF CompleteInv, Written, Wanted
<1>3. rec.pc = "steps" =>
        /\ \A k \in Mandatory : done(k, res, rec.gen) \/ \E e \in ToSet(rec.plan) : e.kind = k
        /\ rec \in Recs /\ app.exists
      BY Busy, RecFields DEF CompleteInv, Written, RecInv
<1> HIDE DEF wanted
<1>4. CASE TakeStep \/ StepFails \/ MakeClaim \/ DropClaim
  <2>1. rec.pc = "steps" /\ rec.plan # << >>
        BY <1>4 DEF TakeStep, StepFails, MakeClaim, DropClaim
  <2>2. EndStep /\ (StepFails => NextStep.onError # {"stop"})
        BY <1>2, <1>4 DEF TakeStep, StepFails, MakeClaim, DropClaim, ManageError, Return
  <2>3. rec'.plan = Tail(rec.plan) /\ rec'.spec = rec.spec /\ rec'.gen = rec.gen
        BY <1>3, <2>1, <2>2 DEF EndStep, Recs
  <2> DEFINE p == Tail(rec.plan)
  <2>4. ToSet(rec.plan) = {NextStep} \union ToSet(p)
        BY <2>1, NextStepLemma
  <2>5. Right(NextStep, rec.spec) /\ (NextStep.kind \in Mandatory =>
           NextStep.onError = {"stop"} /\ NextStep.op = IF NextStep.kind \in wanted THEN "make" ELSE "drop")
        BY <2>1, NextStepLemma DEF Right, wanted
  <2> HIDE DEF p
  <2>6. ~Collect
        BY <1>3, <2>1 DEF Collect
  <2>7. ASSUME NEW k \in Mandatory
        PROVE  done(k, res', rec.gen) \/ \E e \in ToSet(p) : e.kind = k
    <3>1. CASE NextStep.kind = k
      <4>1. NextStep.op \in {"make", "drop"} /\ TakeStep
            BY <1>4, <2>2, <2>5, <2>7, <3>1 DEF MakeClaim, DropClaim, TakeStep, StepFails
      <4>2. res' = IF k \in wanted THEN [res EXCEPT ![k] = rec.gen] ELSE [res EXCEPT ![k] = 0]
            BY <2>5, <2>7, <3>1, <4>1 DEF TakeStep
      <4> QED BY <1>1, <2>7, <4>2
    <3>2. CASE NextStep.kind # k
      <4>1. res'[k] = res[k]
            BY <1>1, <2>6, <3>2 DEF ResChange
      <4> QED BY <1>3, <2>1, <2>4, <2>7, <3>2, <4>1
    <3> QED BY <3>1, <3>2
  <2>8. ASSUME rec.spec.kind = "KnativeService"
        PROVE  \/ res'["KnativeService"] = rec.gen
               \/ \E e \in ToSet(p) : e.op = "refuse" \/ e.kind = "KnativeService"
    <3>1. CASE NextStep.kind = "KnativeService"
      <4>1. NextStep.op = "make" /\ TakeStep
            BY <1>4, <2>2, <2>5, <2>8, <3>1 DEF Right, MakeClaim, DropClaim, TakeStep, StepFails
      <4>2. res' = [res EXCEPT !["KnativeService"] = rec.gen]
            BY <3>1, <4>1 DEF TakeStep
      <4> QED BY <1>1, <4>2
    <3>2. CASE NextStep.kind # "KnativeService"
      <4>1. res'["KnativeService"] = res["KnativeService"]
            BY <1>1, <2>6, <3>2 DEF ResChange
      <4>2. NextStep.op # "refuse"
            BY <1>4, <2>2, <2>5 DEF Right, TakeStep, StepFails, MakeClaim, DropClaim
      <4> QED BY <2>1, <2>4, <2>8, <3>2, <4>1, <4>2 DEF CompleteInv
    <3> QED BY <3>1, <3>2
  <2>9. ASSUME rec.spec.kind # "KnativeService", rec.spec.storage = "own"
        PROVE  pvc' # "absent" \/ \E e \in ToSet(p) : e.op = "claim"
    <3>1. ~DropClaim /\ ~Finalize
          BY <2>1, <2>5, <2>9 DEF DropClaim, Finalize, Right
    <3>2. pvc # "absent" => pvc' # "absent"
          BY <1>1, <3>1 DEF PvcChange
    <3>3. NextStep.op = "claim" => pvc' # "absent"
          BY <1>4, <2>2, <2>5, <3>1 DEF Right, TakeStep, StepFails, MakeClaim
    <3> QED BY <2>1, <2>4, <2>9, <3>2, <3>3 DEF CompleteInv
  <2> QED BY <2>3, <2>7, <2>8, <2>9 DEF p
<1>5. CASE MakePlan /\ rec \in Recs /\ rec'.spec = rec.spec /\ rec'.gen = rec.gen /\ rec'.plan = Plan(rec.spec)
  <2>1. rec.spec \in Specs
        BY <1>5, RecFields
  <2>2. "KnativeService" \in supported \/ "KnativeService" \in Absent
        BY DEF OnlyInv, Absent, Workloads
  <2>3. Covers(ToSet(Plan(rec.spec)), rec.spec)
        BY <2>1, <2>2, PlanLemma
  <2> QED BY <1>5, <2>3 DEF Covers
<1>6. CASE rec' = rec /\ ~(TakeStep \/ StepFails \/ MakeClaim \/ DropClaim)
  <2>1. res' = res
        BY <1>1, <1>2, <1>3, <1>6 DEF ResChange, Collect
  <2>2. pvc # "absent" => pvc' # "absent"
        BY <1>1, <1>2, <1>6 DEF PvcChange, Finalize
  <2> QED BY <1>2, <1>3, <1>6, <2>1, <2>2 DEF CompleteInv
<1> QED BY <1>1, <1>2, <1>4, <1>5, <1>6 DEF RecChange, Begun, Proceeds

-----------------------------------------------------------------------------
(* The inductive invariant.                                                *)
IInv == TypeOK /\ RecInv /\ StatusInv /\ OnlyInv /\ PlanInv /\ CompleteInv

(* Nothing is owned, reported or in progress at first.                     *)
LEMMA InitIInv == Init => IInv
<1> SUFFICES ASSUME Init PROVE IInv
    OBVIOUS
<1> USE ApplicationAssumption
<1>1. MaxGen \in Nat /\ 1 \in 1 .. MaxGen /\ 0 \in 0 .. MaxGen
      BY DEF MaxGen
<1>2. status = NoStatus /\ NoStatus \in Statuses /\ Reads(NoStatus)
      BY <1>1 DEF Init, NoStatus, Statuses, Sources, Versions, Reads, None, NilLibertyVersion
<1>3. /\ app \in Apps /\ app.gen = 1
      /\ app \in [exists : BOOLEAN, deleting : BOOLEAN, finalizer : BOOLEAN, gen : 1 .. MaxGen, spec : Specs]
      BY <1>1 DEF Init, Apps
<1>4. /\ res = [kind \in Owned |-> 0] /\ rec = NoRec /\ edits = 0 /\ faults = 0 /\ pvc = "absent" /\ queued = TRUE
      /\ supported \in Clusters /\ stream \in [Streams -> Digests]
      BY DEF Init
<1>5. TypeOK
  <2>1. /\ status \in [image : Refs \union Streams \union {None}, version : {"unset", NilLibertyVersion, "old", "new"},
                       lastPull : {"never", "recent", "old"}, semeru : Refs \union Streams \union {None},
                       observed : 0 .. MaxGen]
        /\ status.version = "unset" => status.lastPull = "never"
        BY <1>2 DEF Statuses, Sources, Versions, Reads
  <2> QED BY <1>1, <1>3, <1>4, <2>1 DEF TypeOK
<1>6. RecInv
      BY <1>3, <1>4 DEF RecInv
<1>7. StatusInv
      BY <1>2, <1>4 DEF StatusInv
<1>8. OnlyInv
      BY <1>4 DEF OnlyInv, Absent, Workloads, Owned
<1>9. PlanInv /\ CompleteInv
      BY <1>4, NoRecLemma DEF PlanInv, CompleteInv
<1> QED BY <1>5, <1>6, <1>7, <1>8, <1>9 DEF IInv

(* Every step keeps it.                                                    *)
LEMMA NextIInv == IInv /\ [Next]_vars => IInv'
BY TypeStep, RecInvStep, StatusInvStep, OnlyInvStep, PlanInvStep, CompleteInvStep DEF IInv

(* The inductive invariant holds in every state, whatever edits, failed    *)
(* calls and restarts interleave with the reconciles.                      *)
THEOREM Invariance == Spec => []IInv
BY InitIInv, NextIInv, PTL DEF Spec

(* Type correctness, with the status as SetReference and its removal leave *)
(* it: no time of a pull without a version                                 *)
(* (openlibertyapplication_controller.go 230-365).                         *)
THEOREM TypeCorrect == Spec => []TypeOK
<1>1. IInv => TypeOK
      BY DEF IInv
<1> QED BY <1>1, Invariance, PTL

(* However edits, failures and restarts interleave, no reconcile leaves a  *)
(* Deployment and a StatefulSet, nor a Knative Service besides them unless *)
(* a call failed: every plan deletes the workloads of the other kinds      *)
(* before it makes its own, and stops when it cannot                       *)
(* (openlibertyapplication_controller.go 459-510, 630-779).                *)
THEOREM OneWorkloadAtATime == Spec => []OneWorkload
<1>1. IInv => OneWorkload
  <2> SUFFICES ASSUME IInv PROVE OneWorkload
      OBVIOUS
  <2>1. \A k, d \in Workloads : k # d => k \in Absent \/ d \in Absent
        BY DEF IInv, OnlyInv
  <2>2. res["Deployment"] = 0 \/ res["StatefulSet"] = 0
        BY <2>1 DEF Absent, Workloads
  <2> DEFINE made == {kind \in Workloads : res[kind] # 0}
  <2>3. ASSUME faults = 0 PROVE Cardinality(made) <= 1
    <3>1. \A k, d \in made : k = d
          BY <2>1, <2>3 DEF Absent
    <3>2. CASE made = {}
          BY <3>2, FS_EmptySet
    <3>3. CASE made # {}
      <4>1. PICK k : k \in made
            BY <3>3
      <4>2. made = {k}
            BY <3>1, <4>1
      <4> HIDE DEF made
      <4> QED BY <4>2, FS_Singleton
    <3> QED BY <3>2, <3>3
  <2> QED BY <2>2, <2>3 DEF OneWorkload
<1> QED BY <1>1, Invariance, PTL

(* The Liberty version in the status is that of the image next to it,      *)
(* whichever of stream, specification and registry told the image and the  *)
(* version (openlibertyapplication_controller.go 230-288, 320-365,         *)
(* 427-437).                                                               *)
THEOREM VersionBelongsToImage == Spec => []VersionIsOfImage
<1>1. IInv => VersionIsOfImage
      BY DEF IInv, StatusInv, Reads, VersionIsOfImage
<1> QED BY <1>1, Invariance, PTL

(* A generation reported as observed has everything whose errors stop a    *)
(* reconcile, and nothing of that kind it does not ask for: no step of     *)
(* that plan was passed over, and nothing overtook the reconcile           *)
(* (openlibertyapplication_controller.go 459-958).                         *)
THEOREM ObservedIsTrue == Spec => ObservedIsComplete
<1>1. ASSUME IInv, [Next]_vars, status'.observed # status.observed
      PROVE  /\ AsWanted(Owned \ Optional)'
             /\ app'.spec.kind = "KnativeService" => AsWanted({"KnativeService"})'
             /\ app'.spec.storage = "own" /\ app'.spec.kind # "KnativeService" => pvc' # "absent"
  <2>1. ManageSuccess /\ ~Stale /\ rec' = NoRec
        BY <1>1, StatusStep DEF StatusChange, IInv
  <2>2. rec.pc = "steps" /\ rec.plan = << >> /\ ToSet(rec.plan) = {}
        BY <2>1, NoSteps DEF ManageSuccess
  <2>3. /\ rec # NoRec /\ app.exists /\ app.gen = rec.gen /\ app.spec = rec.spec
        BY <1>1, <2>1, <2>2, Busy DEF IInv, RecInv, Stale
  <2>4. /\ app' = app /\ res' = res /\ pvc' = pvc /\ supported' = supported
        BY <2>1 DEF ManageSuccess, cluster
  <2>5. /\ \A k \in Mandatory : res[k] = IF k \in Wanted(app.spec) THEN app.gen ELSE 0
        /\ app.spec.kind = "KnativeService" => res["KnativeService"] = app.gen
        /\ app.spec.kind # "KnativeService" /\ app.spec.storage = "own" => pvc # "absent"
        BY <1>1, <2>2, <2>3 DEF IInv, CompleteInv, Written
  <2>6. Owned \ Optional = Mandatory
        BY DEF Owned, Optional, Mandatory
  <2>7. AsWanted(Mandatory)'
        BY <2>4, <2>5 DEF AsWanted, Wanted
  <2>8. app.spec.kind = "KnativeService" => "KnativeService" \in Wanted(app.spec)
        BY DEF Wanted
  <2>9. app'.spec.kind = "KnativeService" => AsWanted({"KnativeService"})'
        BY <2>4, <2>5, <2>8 DEF AsWanted, Wanted
  <2> QED BY <2>4, <2>5, <2>6, <2>7, <2>9
<1> QED BY <1>1, Invariance, PTL DEF Spec, ObservedIsComplete

(* Nothing is made for an application that is gone: the finalizer holds it *)
(* until the only reconcile ends (openlibertyapplication_controller.go     *)
(* 106-182, 1105-1138).                                                    *)
THEOREM NothingMadeAfterDeletion == Spec => NothingAfterDeletion
<1>1. ASSUME IInv, [Next]_vars, ~app.exists
      PROVE  (\A kind \in Owned : res'[kind] \in {0, res[kind]}) /\ (pvc = "absent" => pvc' = "absent")
  <2>1. rec.pc # "steps"
        BY <1>1, NoRecLemma DEF IInv, RecInv
  <2>2. ResChange /\ PvcChange /\ res \in [Owned -> 0 .. MaxGen]
        BY <1>1, ResStep, PvcStep, TypeState DEF IInv
  <2>3. ~TakeStep /\ ~MakeClaim
        BY <2>1 DEF TakeStep, MakeClaim
  <2> QED BY <2>2, <2>3 DEF ResChange, PvcChange
<1> QED BY <1>1, Invariance, PTL DEF Spec, NothingAfterDeletion
=============================================================================
