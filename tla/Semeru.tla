------------------------------- MODULE Semeru -------------------------------
(***************************************************************************)
(* The Semeru cloud compiler of an OpenLibertyApplication                  *)
(* (internal/controller/semeru_compiler.go and the parts of Reconcile in   *)
(* openlibertyapplication_controller.go that call it).  Every change of    *)
(* the image or of the health port starts a new generation of the          *)
(* compiler, with a Service, a Certificate, a TLS Secret and a Deployment  *)
(* of its own; the application is moved to it when it is ready, and the    *)
(* older generations are deleted once the application runs on the new one. *)
(* The number of the generation and the list of the completed generations  *)
(* are kept in the status of the application, which is written at the end  *)
(* of a reconcile and whose write may be lost.                             *)
(***************************************************************************)
EXTENDS Integers, FiniteSets, SequencesExt

CONSTANTS Images,          \* container images of the application
          Ports,           \* health ports a user may ask for
          InitialSpecs,    \* what the resource may say when it is created
          Platforms,       \* subset of {"cert-manager", "openshift"}
          MaxGen,          \* bound: generations of the compiler
          MaxUserEdits,    \* bound: edits of the resource and of the issuer
          MaxFaults        \* bound: failed calls, conflicts and restarts

ASSUME SemeruAssumption ==
    /\ InitialSpecs \subseteq [enable : BOOLEAN, image : Images, port : Ports]
    /\ Platforms \subseteq {"cert-manager", "openshift"}
    /\ "none" \notin Images \union Ports
    /\ MaxGen \in Nat \ {0}
    /\ MaxUserEdits \in Nat
    /\ MaxFaults \in Nat

VARIABLES platform,   \* who issues the TLS certificates
          issuer,     \* version of the issuer of cert-manager
          spec,       \* the resource: enable, image, health port
          status,     \* its status, as stored by the API server
          service,    \* generations that have a Service
          cert,       \* issuer's version each generation's Certificate records
          secret,     \* issuer's version that signed each TLS Secret, 0: no Secret
          deploy,     \* Deployment of each generation
          compiler,   \* what the pods of each generation run
          ready,      \* generations whose Deployment's status says ready
          template,   \* compiler and certificate in the application's pod template
          pods,       \* templates the application's pods run
          rec,        \* the reconcile in progress
          edits, faults

cluster == << platform, issuer, service, cert, secret, deploy, compiler, ready >>
vars == << platform, issuer, spec, status, service, cert, secret, deploy, compiler, ready,
           template, pods, rec, edits, faults >>

-----------------------------------------------------------------------------
Gen == 1 .. MaxGen
Specs == [enable : BOOLEAN, image : Images, port : Ports]
(* A Deployment: image, health port, and the generation whose TLS Secret   *)
(* it mounts with the version of that Secret.                              *)
Deployments == [image : Images, port : Ports, cert : Gen, tls : 1 .. MaxUserEdits + 1]
None == [image |-> "none", port |-> "none", cert |-> 0, tls |-> 0]

(* .status: image and Semeru references, .status.semeruCompiler (host and  *)
(* TLS Secret, as generations; 0 when absent) and the condition Ready.     *)
Statuses == [image : Images \union {"none"}, gen : 0 .. MaxGen,
             completed : UNION {[1 .. n -> Gen] : n \in 0 .. MaxGen},
             host : 0 .. MaxGen, tls : 0 .. MaxGen, ready : BOOLEAN]
NoStatus == [image |-> "none", gen |-> 0, completed |-> << >>, host |-> 0, tls |-> 0,
             ready |-> FALSE]
Templates == [host : 0 .. MaxGen, tls : 0 .. MaxUserEdits + 1]
NoTemplate == [host |-> -1, tls |-> 0]
NoSpec == [enable |-> FALSE, image |-> "none", port |-> "none"]
NoRec == [pc |-> "idle", spec |-> NoSpec, mem |-> NoStatus, fresh |-> TRUE,
          marked |-> FALSE, n |-> 0]

Fault == faults < MaxFaults /\ faults' = faults + 1
NoFault == UNCHANGED faults
Goto(pc) == rec' = [rec EXCEPT !.pc = pc]
StatusUnchanged == UNCHANGED << spec, status, edits >>
AppUnchanged == UNCHANGED << template, pods >>

(* getGeneration: the recorded generation, 1 when there is none.           *)
getGeneration(mem) == IF mem.gen = 0 THEN 1 ELSE mem.gen
gen == rec.mem.gen

(* createNewSemeruGeneration                                               *)
createNewSemeruGeneration(mem) == [mem EXCEPT !.gen = @ + 1]

(* ManageError: the copy in memory becomes the status, no longer ready; a  *)
(* conflicting write leaves the status as it was.                          *)
ManageError ==
    /\ status' = IF rec.fresh THEN [rec.mem EXCEPT !.ready = FALSE] ELSE status
    /\ rec' = NoRec

(* A call that fails: the reconcile ends with ManageError.                 *)
CallFails(pc) ==
    /\ rec.pc = pc
    /\ Fault
    /\ ManageError
    /\ UNCHANGED << cluster, spec, edits >> /\ AppUnchanged

-----------------------------------------------------------------------------
(* Reconcile.                                                              *)

(* A change of the image starts a new generation, which UpdateStatus       *)
(* stores before anything is created.                                      *)
UpdateImage ==
    /\ rec.pc = "idle"
    /\ LET mem == IF status.image = spec.image THEN status
                  ELSE [createNewSemeruGeneration(status) EXCEPT !.image = spec.image]
       IN  /\ mem.gen <= MaxGen
           /\ \/ status' = mem /\ NoFault
                 /\ rec' = [NoRec EXCEPT !.pc = "ports", !.spec = spec, !.mem = mem]
              \/ /\ status.image # spec.image /\ Fault   \* the write fails: ManageError
                 /\ status' \in {status, [mem EXCEPT !.ready = FALSE]}
                 /\ UNCHANGED rec
    /\ UNCHANGED << cluster, spec, edits >> /\ AppUnchanged

(* upgradeSemeruHealthPorts: the Deployment has another health port.       *)
upgradeSemeruHealthPorts(mem) ==
    LET d == deploy[getGeneration(mem)] IN d # None /\ d.port # rec.spec.port

CheckPorts ==
    /\ rec.pc = "ports"
    /\ LET mem == [rec.mem EXCEPT !.gen = getGeneration(rec.mem)]
           new == IF rec.spec.enable /\ upgradeSemeruHealthPorts(rec.mem)
                  THEN createNewSemeruGeneration(mem) ELSE mem
       IN  /\ new.gen <= MaxGen
           /\ rec' = [rec EXCEPT !.mem = new,
                                 !.pc = IF rec.spec.enable THEN "service" ELSE "disable"]
    /\ NoFault /\ StatusUnchanged /\ UNCHANGED cluster /\ AppUnchanged

(* reconcileSemeruService: the name of the Service becomes the address of  *)
(* the compiler.                                                           *)
reconcileSemeruService(mem) == [mem EXCEPT !.host = mem.gen]

(* The Service.  On OpenShift a Service without the annotation is given    *)
(* it, and only then is the name of the TLS Secret recorded.               *)
ReconcileService ==
    /\ rec.pc = "service"
    /\ service' = service \union {gen}
    /\ LET mem == reconcileSemeruService(rec.mem)
       IN  rec' = [rec EXCEPT !.pc = IF platform = "openshift" THEN "secret" ELSE "certificate",
                              !.mem = IF platform = "openshift" /\ gen \notin service
                                      THEN [mem EXCEPT !.tls = gen] ELSE mem]
    /\ NoFault /\ StatusUnchanged /\ AppUnchanged
    /\ UNCHANGED << platform, issuer, cert, secret, deploy, compiler, ready >>

(* Mutant: the name of the TLS Secret is recorded only when there is none. *)
ReconcileCertificate_First ==
    /\ rec.pc = "certificate"
    /\ cert' = [cert EXCEPT ![gen] = issuer]
    /\ secret' = IF cert[gen] = issuer THEN secret ELSE [secret EXCEPT ![gen] = 0]
    /\ rec' = [rec EXCEPT !.pc = "secret", !.mem.tls = IF @ = 0 THEN gen ELSE @]
    /\ NoFault /\ StatusUnchanged /\ AppUnchanged
    /\ UNCHANGED << platform, issuer, service, deploy, compiler, ready >>

(* reconcileSemeruCMCertificate: when the issuer has another version than  *)
(* the Certificate records, the Secret is deleted for cert-manager to      *)
(* issue it anew; the error of that deletion is ignored.                   *)
ReconcileCertificate ==
    /\ rec.pc = "certificate"
    /\ cert' = [cert EXCEPT ![gen] = issuer]
    /\ \/ secret' = (IF cert[gen] = issuer THEN secret ELSE [secret EXCEPT ![gen] = 0]) /\ NoFault
       \/ cert[gen] # issuer /\ secret[gen] # 0 /\ Fault /\ UNCHANGED secret
    /\ rec' = [rec EXCEPT !.pc = "secret", !.mem.tls = gen]
    /\ StatusUnchanged /\ AppUnchanged
    /\ UNCHANGED << platform, issuer, service, deploy, compiler, ready >>

SecretFound == rec.mem.tls # 0 /\ secret[rec.mem.tls] # 0

ReadSecret ==
    /\ rec.pc = "secret"
    /\ \/ SecretFound /\ Goto("deployment") /\ UNCHANGED status
       \/ ~SecretFound /\ ManageError
    /\ NoFault /\ UNCHANGED << cluster, spec, edits >> /\ AppUnchanged

(* Mutant: the generation is added by every reconcile.                     *)
MarkCompleted_Always(mem) == [mem EXCEPT !.completed = Append(@, gen)]

(* Adds the generation to the list of completed ones.                      *)
MarkCompleted(mem) ==
    IF gen \in Range(mem.completed) THEN mem ELSE [mem EXCEPT !.completed = Append(@, gen)]

(* reconcileSemeruDeployment                                               *)
Wanted == [image |-> rec.spec.image, port |-> rec.spec.port, cert |-> rec.mem.tls,
           tls |-> secret[rec.mem.tls]]

(* Mutant: the new generation is put in front of the older ones.           *)
ReconcileDeployment_Prepend ==
    /\ rec.pc = "deployment"
    /\ deploy' = [deploy EXCEPT ![gen] = Wanted]
    /\ rec' = [rec EXCEPT !.pc = "ready", !.marked = rec.mem.completed \notin {<< >>, << gen >>},
                          !.mem.completed = IF gen \in Range(@) THEN @ ELSE << gen >> \o @]
    /\ NoFault /\ StatusUnchanged /\ AppUnchanged
    /\ UNCHANGED << platform, issuer, service, cert, secret, compiler, ready >>

(* Mutant: older generations are noticed only by the reconcile that adds   *)
(* the new one.                                                            *)
ReconcileDeployment_MarkOnce ==
    /\ rec.pc = "deployment"
    /\ deploy' = [deploy EXCEPT ![gen] = Wanted]
    /\ rec' = [rec EXCEPT !.pc = "ready", !.mem = MarkCompleted(rec.mem),
                          !.marked = rec.mem.completed # << >> /\ gen \notin Range(rec.mem.completed)]
    /\ NoFault /\ StatusUnchanged /\ AppUnchanged
    /\ UNCHANGED << platform, issuer, service, cert, secret, compiler, ready >>

(* Mutant: a Deployment that exists is left as it is.                      *)
ReconcileDeployment_CreateOnly ==
    /\ rec.pc = "deployment"
    /\ deploy' = IF deploy[gen] = None THEN [deploy EXCEPT ![gen] = Wanted] ELSE deploy
    /\ rec' = [rec EXCEPT !.pc = "ready", !.mem = MarkCompleted(rec.mem),
                          !.marked = rec.mem.completed \notin {<< >>, << gen >>}]
    /\ NoFault /\ StatusUnchanged /\ AppUnchanged
    /\ UNCHANGED << platform, issuer, service, cert, secret, compiler, ready >>

ReconcileDeployment ==
    /\ rec.pc = "deployment"
    /\ deploy' = [deploy EXCEPT ![gen] = Wanted]
    /\ rec' = [rec EXCEPT !.pc = "ready", !.mem = MarkCompleted(rec.mem),
                          !.marked = rec.mem.completed \notin {<< >>, << gen >>}]
    /\ NoFault /\ StatusUnchanged /\ AppUnchanged
    /\ UNCHANGED << platform, issuer, service, cert, secret, compiler, ready >>

(* areSemeruCompilerResourcesReady: what the status of the Deployment      *)
(* says, which may be about the pods before the last update.               *)
areSemeruCompilerResourcesReady == deploy[gen] # None /\ gen \in ready

CheckReady ==
    /\ rec.pc = "ready"
    /\ \/ areSemeruCompilerResourcesReady /\ Goto("workload") /\ UNCHANGED status
       \/ ~areSemeruCompilerResourcesReady /\ ManageError
    /\ NoFault /\ UNCHANGED << cluster, spec, edits >> /\ AppUnchanged

(* The Secret of OpenShift's service CA goes with its Service.             *)
DropService(g) ==
    /\ service' = service \ {g}
    /\ secret' = IF platform = "openshift" THEN [secret EXCEPT ![g] = 0] ELSE secret

(* Without the compiler, the Service and the Deployment of the current     *)
(* generation are deleted, in this order.                                  *)
DeleteService ==
    /\ rec.pc = "disable"
    /\ DropService(gen)
    /\ Goto("disable2")
    /\ NoFault /\ StatusUnchanged /\ AppUnchanged
    /\ UNCHANGED << platform, issuer, cert, deploy, compiler, ready >>

DeleteDeployment(g) ==
    /\ deploy' = [deploy EXCEPT ![g] = None]
    /\ compiler' = [compiler EXCEPT ![g] = None]
    /\ ready' = ready \ {g}

DisableCompiler ==
    /\ rec.pc = "disable2"
    /\ DeleteDeployment(gen)
    /\ rec' = [rec EXCEPT !.pc = "workload", !.mem.host = 0, !.mem.tls = 0]
    /\ NoFault /\ StatusUnchanged /\ AppUnchanged
    /\ UNCHANGED << platform, issuer, service, cert, secret >>

(* The pod template of the application: the address of the compiler        *)
(* (getSemeruJavaOptions) and the hash of its TLS Secret, which is mounted *)
(* unless OpenShift's own certificate authority signs it.                  *)
PodTemplate ==
    [host |-> IF rec.spec.enable THEN rec.mem.host ELSE 0,
     tls  |-> IF rec.spec.enable /\ platform = "cert-manager" THEN secret[rec.mem.tls] ELSE 0]

ReconcileWorkload ==
    /\ rec.pc = "workload"
    /\ \/ /\ rec.spec.enable /\ platform = "cert-manager" => SecretFound
          /\ template' = PodTemplate /\ Goto("cleanup") /\ UNCHANGED status
       \/ /\ rec.spec.enable /\ platform = "cert-manager" /\ ~SecretFound
          /\ ManageError /\ UNCHANGED template
    /\ NoFault /\ UNCHANGED << cluster, spec, edits, pods >>

(* isOpenLibertyApplicationReady: the application was reported ready, and  *)
(* all its pods run the present template.                                  *)
isOpenLibertyApplicationReady == rec.mem.ready /\ pods = {template}

(* The elements of the sequence s that are in S, in the order of s:        *)
(* SelectSeq, as a function that can be reasoned about.                    *)
Among(s, S) ==
    LET among[i \in 0 .. Len(s)] ==
            IF i = 0 THEN << >>
            ELSE IF s[i] \in S THEN Append(among[i - 1], s[i]) ELSE among[i - 1]
    IN  among[Len(s)]

(* The completed generations that are older than the current one, in the   *)
(* order of the list, with four objects to delete for each.                *)
Old == Among(rec.mem.completed, 1 .. gen - 1)
Kinds == << "deployment", "service", "certificate", "secret" >>
CleanupDone == rec.n = 4 * Len(Old)

(* Mutant: the older generations are deleted as soon as the template has   *)
(* been updated.                                                           *)
CleanupDue_Early == rec.marked

CleanupDue == rec.marked /\ isOpenLibertyApplicationReady

StartCleanup ==
    /\ rec.pc = "cleanup"
    /\ IF CleanupDue THEN Goto("delete") ELSE Goto("success")
    /\ NoFault /\ StatusUnchanged /\ UNCHANGED cluster /\ AppUnchanged

(* deleteCompletedSemeruInstances: the next object.  On OpenShift without  *)
(* cert-manager the last two are not there.                                *)
DeleteNext ==
    /\ rec.pc = "delete" /\ ~CleanupDone
    /\ LET g == Old[(rec.n \div 4) + 1]
           kind == Kinds[(rec.n % 4) + 1]
       IN  /\ CASE kind = "service" -> DropService(g)
                [] kind = "secret" /\ platform = "cert-manager" ->
                       UNCHANGED service /\ secret' = [secret EXCEPT ![g] = 0]
                [] OTHER -> UNCHANGED << service, secret >>
           /\ cert' = IF kind = "certificate" THEN [cert EXCEPT ![g] = 0] ELSE cert
           /\ IF kind = "deployment" THEN DeleteDeployment(g)
              ELSE UNCHANGED << deploy, compiler, ready >>
    /\ rec' = [rec EXCEPT !.n = @ + 1]
    /\ NoFault /\ StatusUnchanged /\ AppUnchanged /\ UNCHANGED << platform, issuer >>

(* Mutant: the generations are taken off the list before their objects are *)
(* deleted.                                                                *)
EndCleanup_First ==
    /\ rec.pc = "delete" /\ rec.n = 0
    /\ rec' = [rec EXCEPT !.pc = "success",
                          !.mem.completed = Among(@, gen .. MaxGen)]
    /\ NoFault /\ StatusUnchanged /\ UNCHANGED cluster /\ AppUnchanged

EndCleanup ==
    /\ rec.pc = "delete" /\ CleanupDone
    /\ rec' = [rec EXCEPT !.pc = "success",
                          !.mem.completed = Among(@, gen .. MaxGen)]
    /\ NoFault /\ StatusUnchanged /\ UNCHANGED cluster /\ AppUnchanged

(* ManageSuccess: the status is written, with the condition Ready of the   *)
(* application.                                                            *)
ManageSuccess ==
    /\ rec.pc = "success"
    /\ \/ /\ status' = IF rec.fresh THEN [rec.mem EXCEPT !.ready = (pods = {template})]
                       ELSE status
          /\ NoFault
       \/ rec.fresh /\ Fault /\ UNCHANGED status
    /\ rec' = NoRec
    /\ UNCHANGED << cluster, spec, edits >> /\ AppUnchanged

(* The calls that may fail.  One whose ManageError cannot write the status *)
(* either is covered by RestartOperator.                                   *)
ReconcileFails ==
    \E pc \in {"service", "certificate", "secret", "deployment", "disable", "disable2",
               "workload", "delete"} : CallFails(pc)

(* The operator stops at any step; the copy in memory is lost.             *)
RestartOperator ==
    /\ rec.pc # "idle"
    /\ Fault
    /\ rec' = NoRec
    /\ StatusUnchanged /\ UNCHANGED cluster /\ AppUnchanged

-----------------------------------------------------------------------------
(* Users, cert-manager or the service CA, and the Deployment controller.   *)

UserEdit(s) ==
    /\ edits < MaxUserEdits /\ edits' = edits + 1
    /\ s # spec /\ spec' = s
    /\ \/ rec.pc = "idle" /\ NoFault /\ UNCHANGED rec
       \/ rec.pc # "idle" /\ Fault /\ rec' = [rec EXCEPT !.fresh = FALSE]
    /\ UNCHANGED << cluster, status >> /\ AppUnchanged

RotateIssuer ==
    /\ platform = "cert-manager"
    /\ edits < MaxUserEdits /\ edits' = edits + 1
    /\ issuer' = issuer + 1
    /\ UNCHANGED << platform, service, cert, secret, deploy, compiler, ready,
                    spec, status, rec, faults >> /\ AppUnchanged

IssueSecret(g) ==
    /\ secret[g] = 0
    /\ \/ platform = "cert-manager" /\ cert[g] # 0 /\ secret' = [secret EXCEPT ![g] = issuer]
       \/ platform = "openshift" /\ g \in service /\ secret' = [secret EXCEPT ![g] = 1]
    /\ UNCHANGED << platform, issuer, service, cert, deploy, compiler, ready, rec, faults >>
    /\ StatusUnchanged /\ AppUnchanged

(* The strategy is Recreate: the old pods stop before the new ones start.  *)
StopCompiler(g) ==
    /\ compiler[g] \notin {None, deploy[g]}
    /\ compiler' = [compiler EXCEPT ![g] = None]
    /\ ready' = ready \ {g}
    /\ UNCHANGED << platform, issuer, service, cert, secret, deploy, rec, faults >>
    /\ StatusUnchanged /\ AppUnchanged

StartCompiler(g) ==
    /\ deploy[g] # None /\ compiler[g] = None
    /\ compiler' = [compiler EXCEPT ![g] = deploy[g]]
    /\ ready' = ready \union {g}
    /\ UNCHANGED << platform, issuer, service, cert, secret, deploy, rec, faults >>
    /\ StatusUnchanged /\ AppUnchanged

(* A rolling update of the application.                                    *)
RollPods ==
    /\ template # NoTemplate /\ pods # {template}
    /\ pods' \in {{template}, pods \union {template}} \ {pods}
    /\ UNCHANGED << cluster, template, rec, faults >> /\ StatusUnchanged

-----------------------------------------------------------------------------
Init ==
    /\ platform \in Platforms
    /\ issuer = 1
    /\ spec \in InitialSpecs
    /\ status = NoStatus
    /\ service = {} /\ ready = {}
    /\ cert = [g \in Gen |-> 0] /\ secret = [g \in Gen |-> 0]
    /\ deploy = [g \in Gen |-> None] /\ compiler = [g \in Gen |-> None]
    /\ template = NoTemplate /\ pods = {}
    /\ rec = NoRec
    /\ edits = 0 /\ faults = 0

Continue ==
    \/ CheckPorts \/ ReconcileService \/ ReconcileCertificate \/ ReadSecret
    \/ ReconcileDeployment \/ CheckReady \/ DeleteService \/ DisableCompiler
    \/ ReconcileWorkload \/ StartCleanup \/ DeleteNext \/ EndCleanup \/ ManageSuccess

Settle == (\E g \in Gen : IssueSecret(g) \/ StopCompiler(g) \/ StartCompiler(g)) \/ RollPods

Next ==
    \/ UpdateImage
    \/ Continue
    \/ ReconcileFails
    \/ RestartOperator
    \/ \E s \in Specs : UserEdit(s)
    \/ RotateIssuer
    \/ Settle

Spec == Init /\ [][Next]_vars

(* The queue repeats a reconcile after an interval, whether it succeeded   *)
(* or failed; certificates are issued and Deployments rolled out.          *)
Fairness ==
    /\ WF_vars(UpdateImage) /\ WF_vars(Continue)
    /\ \A g \in Gen : WF_vars(IssueSecret(g)) /\ WF_vars(StopCompiler(g)) /\ WF_vars(StartCompiler(g))
    /\ WF_vars(pods' = {template} /\ RollPods)

FairSpec == Spec /\ Fairness

-----------------------------------------------------------------------------
(* Properties.                                                             *)

(* The variables hold what the code and the cluster keep in them.          *)
TypeOK ==
    /\ platform \in Platforms /\ issuer \in 1 .. MaxUserEdits + 1
    /\ spec \in Specs /\ status \in Statuses
    /\ service \subseteq Gen /\ ready \subseteq Gen
    /\ cert \in [Gen -> 0 .. MaxUserEdits + 1] /\ secret \in [Gen -> 0 .. MaxUserEdits + 1]
    /\ deploy \in [Gen -> Deployments \union {None}]
    /\ compiler \in [Gen -> Deployments \union {None}]
    /\ template \in Templates \union {NoTemplate} /\ pods \subseteq Templates
    /\ rec.mem \in Statuses

(* The list of completed generations is kept in ascending order without    *)
(* repetitions and without generations to come, whatever writes are lost.  *)
(* The code searches and edits it as a string with strings.Contains and    *)
(* strings.Replace, which is right for such lists only ("1," also occurs   *)
(* in "11,", and "1" in "12").                                             *)
CompletedInOrder ==
    \A s \in {status, rec.mem} :
        /\ \A i \in DOMAIN s.completed : s.completed[i] <= s.gen
        /\ \A i, j \in DOMAIN s.completed : i < j => s.completed[i] < s.completed[j]

(* While the compiler is enabled the Service of a generation is deleted    *)
(* only when no pod of the application and not its template connects to    *)
(* it, whatever the order of edits, failures and rollouts ("because all    *)
(* pods now point to the newest Semeru service").                          *)
UsedCompilerKept ==
    [][\A g \in service \ service' :
           rec.spec.enable => \A t \in pods \union {template} : t.host # g]_vars

(* Between reconciles every Deployment of a compiler is in the list from   *)
(* which the older ones are deleted, as long as no call fails and no write *)
(* of the status is lost.                                                  *)
DeploymentsListed ==
    faults = 0 /\ rec.pc = "idle" =>
        \A g \in Gen : deploy[g] # None => g \in Range(status.completed)

(* A compiler presents the certificate issued for its own Service, across  *)
(* changes of generation and lost writes.  On OpenShift's service CA this  *)
(* needs every write of the status: the name of the Secret is recorded     *)
(* only by the reconcile that annotates the Service.                       *)
OwnCertificate ==
    platform = "cert-manager" \/ faults = 0 =>
        \A g \in Gen : deploy[g] # None => deploy[g].cert = g

(* What the application and its compiler come to.                          *)
Settled ==
    LET g == status.gen
    IN  /\ g \in service
        /\ deploy[g] = [image |-> spec.image, port |-> spec.port, cert |-> g, tls |-> secret[g]]
        /\ compiler[g] = deploy[g]
        /\ template.host = g /\ pods = {template}
        /\ platform = "cert-manager" => template.tls = secret[g]

(* Once users leave the resource and the issuer alone, an enabled compiler *)
(* runs the image and the port asked for, with the certificate the         *)
(* application's pods trust, and all of them use it.  With cert-manager it *)
(* is so after any failures.                                               *)
Converges ==
    <>[](spec.enable /\ (platform = "cert-manager" \/ faults = 0) => Settled)

(* As long as no call fails, only the current generation is left in the    *)
(* end.                                                                    *)
OldGenerationsGo ==
    <>[](spec.enable /\ faults = 0 =>
             /\ \A g \in Gen : deploy[g] # None => g = status.gen
             /\ status.completed = << status.gen >>)

(* Disabled, no compiler is left in the end (comment at the call of        *)
(* reconcileSemeruCompiler: "Otherwise, delete the Semeru Compiler         *)
(* deployment and service").                                               *)
DisabledMeansDeleted ==
    <>[](~spec.enable /\ faults = 0 => \A g \in Gen : deploy[g] = None)

=============================================================================
