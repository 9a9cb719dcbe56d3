-------------------------- MODULE ResourceSharing --------------------------
(***************************************************************************)
(* How the reconcilers of the OpenLibertyApplication instances of one      *)
(* namespace agree, through the leader-tracking Secret of type "ltpa", on  *)
(* the names of the shared LTPA Secrets and on who generates each of them  *)
(* (internal/controller/resource_sharing.go, the election and naming part  *)
(* of ltpa_keys_sharing.go and the finalizer of the application            *)
(* controller).                                                            *)
(*                                                                         *)
(* A reconcile is a sequence of API calls; each is a step, so the          *)
(* reconciles of different instances interleave, up to                     *)
(* MaxConcurrentReconciles at a time.  Every read goes to the manager's    *)
(* informer cache, every write to the API server.  The Secrets of a        *)
(* namespace share one watch, so the cache is an earlier state of them     *)
(* all: variable `log' holds the states from the one the cache shows (its  *)
(* head) to the one the API server holds (its last element).               *)
(*                                                                         *)
(* The per-type mutex is held inside GetLeaderTracker and inside           *)
(* SaveLeaderTracker, not from one to the other: each of them is one step. *)
(* What the Secrets contain, and the waiting of followers for it, is left  *)
(* out; which of them exist is what matters here.                          *)
(***************************************************************************)
EXTENDS LeaderTracker, FiniteSets

CONSTANTS KeyPath,                  \* path of the LTPA key
          ConfigPath,               \* paths of the Liberty configuration
          PathOf,                   \* path each suffix may be drawn for
          InitialResources,         \* sets of resources left by an earlier installation
          Disabled,                 \* .spec.manageLTPA is not true
          MaxConcurrentReconciles,  \* workers of the controller
          MaxLag,                   \* bound: watch events not yet delivered
          MaxUserEdits,             \* bound: edits made by users
          MaxFaults                 \* bound: failed API calls and restarts

(* Suffixes are drawn from 36^5: draws for different paths do not collide. *)
ASSUME NameAssumption == PathOf \in [Name -> Path] /\ IsFiniteSet(Name)
ASSUME TreeAssumption ==
    /\ KeyPath \in Path
    /\ ConfigPath \subseteq Path \ {KeyPath}
    /\ Disabled \notin ConfigPath
    /\ InitialResources \subseteq SUBSET Name
ASSUME BoundAssumption ==
    /\ MaxConcurrentReconciles \in Nat \ {0}
    /\ MaxLag \in Nat
    /\ MaxUserEdits \in Nat
    /\ MaxFaults \in Nat

VARIABLES log,    \* states of the Secrets, from the cached one to the stored one
          life,   \* life cycle of the custom resource of each instance
          want,   \* what its spec asks for: a configuration path or Disabled
          job,    \* the reconcile of the instance in progress, if any
          edits,  \* edits users have made so far
          faults  \* API calls that have failed and restarts so far

vars == << log, life, want, job, edits, faults >>

-----------------------------------------------------------------------------
(* State.                                                                  *)

Tracker == [exists : BOOLEAN, version : {"outdated", "current"},
            data : [owners : Seq(Owner), names : Seq(Name \union {""}), paths : Seq(Path)]]
Snapshot == [tracker : Tracker, res : SUBSET Name]

NoTracker == [exists |-> FALSE, version |-> "outdated",
              data |-> CustomizeLeaderTracker(<< >>)]

Cached == Head(log)
Stored == log[Len(log)]

PC == {"idle", "track", "list", "create", "metaKey", "metaConfig", "keyGet",
       "leadGet", "leadSave", "keyCreate", "configKeyGet", "configGet",
       "configCreate", "configDelete", "removeGet", "removeSave", "removeDelete", "dropFinalizer"}
Call == {"none", "key", "keyPeek", "config", "config2", "keysOff", "configOff", "finalize"}

IdleJob == [pc |-> "idle", conf |-> Disabled, key |-> "", config |-> "",
            call |-> "none", found |-> FALSE, list |-> << >>, leader |-> ""]

Busy == {i \in Instance : job[i].pc # "idle"}

(* The reconcile returns; an error makes it retried like any other event.  *)
Return(i) == job' = [job EXCEPT ![i] = IdleJob]
Goto(i, pc) == job' = [job EXCEPT ![i].pc = pc]

(* A write reaches the API server and waits for its watch event.           *)
Push(snapshot) ==
    /\ MaxLag = 0 \/ Len(log) <= MaxLag
    /\ log' = IF MaxLag = 0 THEN << snapshot >> ELSE Append(log, snapshot)

DeleteTracker == Push([Stored EXCEPT !.tracker = NoTracker])

-----------------------------------------------------------------------------
(* SaveLeaderTracker: CreateOrUpdate reads the cache, lets                 *)
(* CustomizeLeaderTracker replace the data, and writes if that changed     *)
(* anything.  The update carries the resource version that was read, so it *)
(* fails if the tracker has changed since; a create fails if the tracker   *)
(* exists, or if the object still carries the version of an earlier read.  *)

Changed(list) == Cached.tracker.data # CustomizeLeaderTracker(list)

TrackerIsFresh == \A k \in DOMAIN log : log[k].tracker = Cached.tracker

SaveNothing(list) ==
    /\ Cached.tracker.exists
    /\ ~Changed(list)
    /\ UNCHANGED log

SaveUpdate(list) ==
    /\ Cached.tracker.exists
    /\ Changed(list)
    /\ TrackerIsFresh
    /\ Push([Stored EXCEPT !.tracker.data = CustomizeLeaderTracker(list)])

SaveSucceeds(list) == SaveNothing(list) \/ SaveUpdate(list)

SaveFails(list) ==
    \/ ~Cached.tracker.exists
    \/ Changed(list) /\ ~TrackerIsFresh

-----------------------------------------------------------------------------
(* reconcileLeaderWithState: who leads, what is saved, if anything.        *)

(* Mutant: does not clean up the old leadership of the instance.           *)
ReconcileLeaderWithState_NoCleanup(list, instance, name, path, shouldElectNewLeader) ==
    LET at == {k \in DOMAIN list : list[k].name = name}
        index == CHOOSE k \in at : \A j \in at : j <= k
        newLeader == [name |-> name, owner |-> instance, path |-> path]
        taken == [list EXCEPT ![index].owner = instance]
        none == [saves |-> FALSE, leader |-> "", list |-> list]
    IN  CASE at = {} /\ shouldElectNewLeader ->
                [saves |-> TRUE, leader |-> instance, list |-> Append(list, newLeader)]
          [] at # {} /\ list[index].owner # "" ->
                [saves |-> TRUE, leader |-> list[index].owner, list |-> list]
          [] at # {} /\ list[index].owner = "" /\ shouldElectNewLeader ->
                [saves |-> TRUE, leader |-> instance, list |-> taken]
          [] OTHER -> none

(* Mutant: an entry without owner is not reused, a second one is appended. *)
ReconcileLeaderWithState_Append(list, instance, name, path, shouldElectNewLeader) ==
    LET at == {k \in DOMAIN list : list[k].name = name /\ list[k].owner # ""}
        index == CHOOSE k \in at : \A j \in at : j <= k
        cleared == [k \in DOMAIN list |->
                      ClearOwnerIfMatchingAndSharesLastPathParent(list[k], instance, path)]
        newLeader == [name |-> name, owner |-> instance, path |-> path]
    IN  CASE at = {} /\ shouldElectNewLeader ->
                [saves |-> TRUE, leader |-> instance, list |-> Append(cleared, newLeader)]
          [] at # {} ->
                [saves |-> TRUE, leader |-> list[index].owner,
                 list |-> IF list[index].owner = instance THEN list ELSE cleared]
          [] OTHER -> [saves |-> FALSE, leader |-> "", list |-> list]

(* Mutant: nobody takes over an entry that has lost its owner.             *)
ReconcileLeaderWithState_NoTakeover(list, instance, name, path, shouldElectNewLeader) ==
    LET at == {k \in DOMAIN list : list[k].name = name}
        index == CHOOSE k \in at : \A j \in at : j <= k
        cleared == [k \in DOMAIN list |->
                      ClearOwnerIfMatchingAndSharesLastPathParent(list[k], instance, path)]
        newLeader == [name |-> name, owner |-> instance, path |-> path]
    IN  IF at = {}
        THEN [saves |-> shouldElectNewLeader, leader |-> instance,
              list |-> Append(cleared, newLeader)]
        ELSE [saves |-> TRUE, leader |-> list[index].owner,
              list |-> IF list[index].owner = instance THEN list ELSE cleared]

ReconcileLeaderWithState(list, instance, name, path, shouldElectNewLeader) ==
    LET at == {k \in DOMAIN list : list[k].name = name}
        index == CHOOSE k \in at : \A j \in at : j <= k
        cleared == [k \in DOMAIN list |->
                      ClearOwnerIfMatchingAndSharesLastPathParent(list[k], instance, path)]
        taken == [k \in DOMAIN list |->
                    IF k = index THEN SetOwner(list[k], instance) ELSE cleared[k]]
        newLeader == [name |-> name, owner |-> instance, path |-> path]
        none == [saves |-> FALSE, leader |-> "", list |-> list]
    IN  CASE at = {} /\ shouldElectNewLeader ->
                [saves |-> TRUE, leader |-> instance, list |-> Append(cleared, newLeader)]
          [] at = {} /\ ~shouldElectNewLeader -> none
          [] at # {} /\ list[index].owner = instance ->
                [saves |-> TRUE, leader |-> instance, list |-> list]
          [] at # {} /\ list[index].owner \notin {instance, ""} ->
                [saves |-> TRUE, leader |-> list[index].owner, list |-> cleared]
          [] at # {} /\ list[index].owner = "" /\ shouldElectNewLeader ->
                [saves |-> TRUE, leader |-> instance, list |-> taken]
          [] at # {} /\ list[index].owner = "" /\ ~shouldElectNewLeader -> none

-----------------------------------------------------------------------------
(* What one reconcile does: the start.  The custom resource is written     *)
(* back with the version it was read at before anything below, so what was *)
(* read is current when the steps begin.                                   *)

StartReconcile(i) ==
    /\ life[i] \in {"created", "active"}
    /\ job[i].pc = "idle"
    /\ Cardinality(Busy) < MaxConcurrentReconciles
    /\ life' = [life EXCEPT ![i] = "active"]
    /\ job' = [job EXCEPT ![i] =
                IF want[i] = Disabled
                THEN [IdleJob EXCEPT !.pc = "removeGet", !.call = "keysOff"]
                ELSE [IdleJob EXCEPT !.pc = "track", !.conf = want[i]]]
    /\ UNCHANGED << log, want, edits, faults >>

StartFinalize(i) ==
    /\ life[i] = "deleting"
    /\ job[i].pc = "idle"
    /\ Cardinality(Busy) < MaxConcurrentReconciles
    /\ job' = [job EXCEPT ![i] = [IdleJob EXCEPT !.pc = "removeGet", !.call = "finalize"]]
    /\ UNCHANGED << log, life, want, edits, faults >>

(* GetLeaderTracker, wherever it is called, deletes a tracker whose        *)
(* columns disagree and returns an error; only the finalizer ignores it.   *)
DeleteOutOfSync(i) ==
    /\ job[i].pc \in {"track", "metaKey", "metaConfig", "leadGet", "removeGet"}
    /\ Cached.tracker.exists
    /\ ~InSync(Cached.tracker.data)
    /\ DeleteTracker
    /\ IF job[i].call = "finalize" THEN Goto(i, "dropFinalizer") ELSE Return(i)
    /\ UNCHANGED << life, want, edits, faults >>

Readable == Cached.tracker.exists /\ InSync(Cached.tracker.data)
Read == GetLeaderTracker(Cached.tracker.data)

-----------------------------------------------------------------------------
(* reconcileLeaderTracker.                                                 *)

ReconcileLeaderTracker(i) ==
    /\ job[i].pc = "track"
    /\ \/ /\ ~Cached.tracker.exists
          /\ Goto(i, "list")
          /\ UNCHANGED log
       \/ /\ Readable
          /\ Cached.tracker.version = "outdated"
          /\ DeleteTracker
          /\ Goto(i, "metaKey")
       \/ /\ Readable
          /\ Cached.tracker.version = "current"
          /\ Goto(i, "metaKey")
          /\ UNCHANGED log
    /\ UNCHANGED << life, want, edits, faults >>

(* createNewLeaderTrackerList: one entry without owner per existing        *)
(* resource.  The cache lists them in no particular order and              *)
(* InsertIntoSortedLeaderTrackers does not sort them.                      *)
RebuiltLists(res) ==
    {list \in UNION {[1 .. n -> [name : res, owner : {""}, path : Path]] : n \in {Cardinality(res)}} :
        /\ NamesOf(list) = res
        /\ \A j, k \in DOMAIN list : list[j].name = list[k].name => j = k
        /\ \A k \in DOMAIN list : list[k].path = PathOf[list[k].name]}

CreateNewLeaderTrackerList(i) ==
    /\ job[i].pc = "list"
    /\ \E list \in RebuiltLists(Cached.res) :
          job' = [job EXCEPT ![i].pc = "create", ![i].list = list]
    /\ UNCHANGED << log, life, want, edits, faults >>

(* The object saved here has no resource version.                          *)
CreateLeaderTracker(i) ==
    /\ job[i].pc = "create"
    /\ \/ /\ ~Cached.tracker.exists
          /\ ~Stored.tracker.exists
          /\ Push([Stored EXCEPT !.tracker =
                     [exists |-> TRUE, version |-> "current",
                      data |-> CustomizeLeaderTracker(job[i].list)]])
          /\ job' = [job EXCEPT ![i].pc = "metaKey", ![i].list = << >>]
       \/ /\ SaveSucceeds(job[i].list)
          /\ job' = [job EXCEPT ![i].pc = "metaKey", ![i].list = << >>]
       \/ /\ \/ ~Cached.tracker.exists /\ Stored.tracker.exists
             \/ Cached.tracker.exists /\ SaveFails(job[i].list)
          /\ Return(i)
          /\ UNCHANGED log
    /\ UNCHANGED << life, want, edits, faults >>

-----------------------------------------------------------------------------
(* reconcileLTPAMetadata: the name of the key, then of the configuration.  *)

Usable == Readable /\ Cached.tracker.version = "current"

(* getLTPAMetadataName: a suffix is drawn until it is not tracked and some *)
(* draw, not necessarily the last one, was not the suffix of a key Secret  *)
(* in the cluster; it is the name of a key that is looked up even when a   *)
(* configuration is being named.                                           *)
KeyFound(n) == n \in Cached.res /\ PathOf[n] = KeyPath
RandomSuffixes(path) ==
    {n \in Name : /\ PathOf[n] = path
                  /\ n \notin NamesOf(Read)
                  /\ \E drawn \in NamesOf(Read) \union {n} : ~KeyFound(drawn)}

(* Mutant: reads the wrong column.                                         *)
MetadataNames_WrongColumn(path) ==
    LET data == Cached.tracker.data
        loc == CommaSeparatedStringContains(data.paths, path)
    IN  IF loc # 0
        THEN {GetCommaSeparatedString(data.paths, loc)}
        ELSE RandomSuffixes(path)

(* Mutant: draws a new suffix although the path is tracked.                *)
MetadataNames_AlwaysNew(path) == RandomSuffixes(path)

(* The name tracked first for the path, if there is one.                   *)
MetadataNames(path) ==
    LET data == Cached.tracker.data
        loc == CommaSeparatedStringContains(data.paths, path)
    IN  IF loc # 0
        THEN {GetCommaSeparatedString(data.names, loc)}
        ELSE RandomSuffixes(path)

ReconcileMetadataKey(i) ==
    /\ job[i].pc = "metaKey"
    /\ Usable
    /\ \E n \in MetadataNames(KeyPath) :
          job' = [job EXCEPT ![i].pc = "metaConfig", ![i].key = n]
    /\ UNCHANGED << log, life, want, edits, faults >>

ReconcileMetadataConfig(i) ==
    /\ job[i].pc = "metaConfig"
    /\ Usable
    /\ \E n \in MetadataNames(job[i].conf) :
          job' = [job EXCEPT ![i].pc = "keyGet", ![i].config = n]
    /\ UNCHANGED << log, life, want, edits, faults >>

(* No tracker in the cache, or one of another version: try again later.    *)
(* Bound: so it is when the finitely many suffixes of a path are used up.  *)
WaitForLeaderTracker(i) ==
    /\ \/ /\ job[i].pc \in {"metaKey", "metaConfig"}
          /\ ~Cached.tracker.exists \/ (Readable /\ Cached.tracker.version = "outdated")
       \/ job[i].pc = "metaKey" /\ Usable /\ MetadataNames(KeyPath) = {}
       \/ job[i].pc = "metaConfig" /\ Usable /\ MetadataNames(job[i].conf) = {}
    /\ Return(i)
    /\ UNCHANGED << log, life, want, edits, faults >>

-----------------------------------------------------------------------------
(* generateLTPAKeys and generateLTPAConfig: look the Secret up, find or    *)
(* become its leader, create it if leading and if it was not found.        *)

GenerateLTPAKeys(i) ==
    /\ job[i].pc = "keyGet"
    /\ job' = [job EXCEPT ![i].pc = "leadGet", ![i].call = "key",
                          ![i].found = (job[i].key \in Cached.res)]
    /\ UNCHANGED << log, life, want, edits, faults >>

(* Without the key Secret the configuration only asks who leads the key.   *)
GenerateLTPAConfig(i) ==
    /\ job[i].pc = "configKeyGet"
    /\ job' = [job EXCEPT ![i].pc = "leadGet",
                          ![i].call = IF job[i].key \in Cached.res THEN "config" ELSE "keyPeek"]
    /\ UNCHANGED << log, life, want, edits, faults >>

(* A configuration that was made for an older key, or with an older        *)
(* encryption key, is deleted; which ones were is not modelled.            *)
GetLTPAConfig(i) ==
    /\ job[i].pc = "configGet"
    /\ \/ /\ job[i].config \in Cached.res
          /\ Return(i) \/ Goto(i, "configDelete")
       \/ /\ job[i].config \notin Cached.res
          /\ job' = [job EXCEPT ![i].pc = "leadGet", ![i].call = "config2"]
    /\ UNCHANGED << log, life, want, edits, faults >>

DeleteOutdatedConfig(i) ==
    /\ job[i].pc = "configDelete"
    /\ IF job[i].config \in Stored.res
       THEN Push([Stored EXCEPT !.res = @ \ {job[i].config}])
       ELSE UNCHANGED log
    /\ Return(i)
    /\ UNCHANGED << life, want, edits, faults >>

(* reconcileLeader up to SaveLeaderTracker.                                *)
CallName(i) == IF job[i].call \in {"key", "keyPeek"} THEN job[i].key ELSE job[i].config
CallPath(i) == IF job[i].call \in {"key", "keyPeek"} THEN KeyPath ELSE job[i].conf

ReconcileLeader(i) ==
    /\ job[i].pc = "leadGet"
    /\ \/ /\ ~Cached.tracker.exists
          /\ Return(i)
       \/ /\ Readable
          /\ LET r == ReconcileLeaderWithState(Read, i, CallName(i), CallPath(i),
                                               job[i].call # "keyPeek")
             IN  IF r.saves
                 THEN job' = [job EXCEPT ![i].pc = "leadSave", ![i].list = r.list,
                                         ![i].leader = r.leader]
                 ELSE Return(i)
    /\ UNCHANGED << log, life, want, edits, faults >>

(* What the caller does once reconcileLeader has told it who leads.  A     *)
(* follower whose Secret is missing waits; a reconcile that only wanted to *)
(* know who leads the missing key ends in an error either way.             *)
(* Mutant: a follower creates the missing Secret too.                      *)
AfterReconcileLeader_Follower(j, i) ==
    CASE j.call = "key" /\ j.found -> "configKeyGet"
      [] j.call = "key" /\ ~j.found -> "keyCreate"
      [] j.call = "config" /\ j.leader = i -> "configGet"
      [] j.call = "config2" -> "configCreate"
      [] OTHER -> "idle"

AfterReconcileLeader(j, i) ==
    CASE j.call = "key" /\ j.found -> "configKeyGet"
      [] j.call = "key" /\ ~j.found /\ j.leader = i -> "keyCreate"
      [] j.call = "config" /\ j.leader = i -> "configGet"
      [] j.call = "config2" /\ j.leader = i -> "configCreate"
      [] OTHER -> "idle"

SaveLeader(i) ==
    /\ job[i].pc = "leadSave"
    /\ \/ /\ SaveSucceeds(job[i].list)
          /\ LET next == AfterReconcileLeader(job[i], i)
             IN  job' = [job EXCEPT ![i] =
                          IF next = "idle" THEN IdleJob
                          ELSE [@ EXCEPT !.pc = next, !.call = "none", !.found = FALSE,
                                         !.list = << >>, !.leader = ""]]
       \/ /\ SaveFails(job[i].list)
          /\ Return(i)
          /\ UNCHANGED log
    /\ UNCHANGED << life, want, edits, faults >>

(* CreateOrUpdate with a mutate function that does nothing: an existing    *)
(* Secret is kept as it is.                                                *)
CreateResource(i, n, next) ==
    \/ /\ n \in Cached.res
       /\ IF next = "idle" THEN Return(i) ELSE Goto(i, next)
       /\ UNCHANGED log
    \/ /\ n \notin Cached.res
       /\ n \notin Stored.res
       /\ Push([Stored EXCEPT !.res = @ \union {n}])
       /\ IF next = "idle" THEN Return(i) ELSE Goto(i, next)
    \/ /\ n \notin Cached.res
       /\ n \in Stored.res
       /\ Return(i)
       /\ UNCHANGED log

CreateLTPAKey(i) ==
    /\ job[i].pc = "keyCreate"
    /\ CreateResource(i, job[i].key, "configKeyGet")
    /\ UNCHANGED << life, want, edits, faults >>

CreateLTPAConfig(i) ==
    /\ job[i].pc = "configCreate"
    /\ CreateResource(i, job[i].config, "idle")
    /\ UNCHANGED << life, want, edits, faults >>

-----------------------------------------------------------------------------
(* RemoveLeaderTrackerReference, called twice by a reconcile of an         *)
(* instance that does not share LTPA keys and once by the finalizer, which *)
(* goes on whatever it returns.                                            *)

AfterRemoval(i) ==
    CASE job[i].call = "keysOff" ->
            job' = [job EXCEPT ![i] = [IdleJob EXCEPT !.pc = "removeGet", !.call = "configOff"]]
      [] job[i].call = "configOff" -> Return(i)
      [] job[i].call = "finalize" -> Goto(i, "dropFinalizer")

AfterFailedRemoval(i) ==
    IF job[i].call = "finalize" THEN Goto(i, "dropFinalizer") ELSE Return(i)

(* RemoveLeader up to its write.                                           *)
RemoveLeader(i) ==
    /\ job[i].pc = "removeGet"
    /\ \/ /\ ~Cached.tracker.exists
          /\ AfterRemoval(i)
       \/ /\ Readable
          /\ LET list == [k \in DOMAIN Read |-> ClearOwnerIfMatching(Read[k], i)]
             IN  \/ /\ OwnersOf(list) = {}
                    /\ Goto(i, "removeDelete")
                 \/ /\ OwnersOf(list) # {}
                    /\ list # Read
                    /\ job' = [job EXCEPT ![i].pc = "removeSave", ![i].list = list]
                 \/ /\ OwnersOf(list) # {}
                    /\ list = Read
                    /\ AfterRemoval(i)
    /\ UNCHANGED << log, life, want, edits, faults >>

RemoveLeaderDelete(i) ==
    /\ job[i].pc = "removeDelete"
    /\ IF Stored.tracker.exists THEN DeleteTracker ELSE UNCHANGED log
    /\ AfterRemoval(i)
    /\ UNCHANGED << life, want, edits, faults >>

RemoveLeaderSave(i) ==
    /\ job[i].pc = "removeSave"
    /\ \/ SaveSucceeds(job[i].list) /\ AfterRemoval(i)
       \/ SaveFails(job[i].list) /\ AfterFailedRemoval(i) /\ UNCHANGED log
    /\ UNCHANGED << life, want, edits, faults >>

DropFinalizer(i) ==
    /\ job[i].pc = "dropFinalizer"
    /\ life' = [life EXCEPT ![i] = "absent"]
    /\ want' = [want EXCEPT ![i] = Disabled]
    /\ Return(i)
    /\ UNCHANGED << log, edits, faults >>

-----------------------------------------------------------------------------
(* Failures and the environment.                                           *)

Fault == faults < MaxFaults /\ faults' = faults + 1

(* An API call fails, or a step this model leaves out does.                *)
ApiError(i) ==
    /\ job[i].pc # "idle"
    /\ IF job[i].call = "finalize" /\ job[i].pc # "dropFinalizer"
       THEN Goto(i, "dropFinalizer")
       ELSE Return(i)
    /\ Fault
    /\ UNCHANGED << log, life, want, edits >>

(* The operator restarts, with an empty cache that it fills by a list.     *)
RestartOperator ==
    /\ log' = << Stored >>
    /\ job' = [i \in Instance |-> IdleJob]
    /\ Fault
    /\ UNCHANGED << life, want, edits >>

(* The informer applies the next watch event.                              *)
DeliverEvent ==
    /\ Len(log) > 1
    /\ log' = Tail(log)
    /\ UNCHANGED << life, want, job, edits, faults >>

UserEdit == edits < MaxUserEdits /\ edits' = edits + 1 /\ UNCHANGED faults

CreateInstance(i) ==
    /\ life[i] = "absent"
    /\ \E w \in ConfigPath \union {Disabled} : want' = [want EXCEPT ![i] = w]
    /\ life' = [life EXCEPT ![i] = "created"]
    /\ UserEdit
    /\ UNCHANGED << log, job >>

EditInstance(i) ==
    /\ life[i] \in {"created", "active"}
    /\ \E w \in (ConfigPath \union {Disabled}) \ {want[i]} : want' = [want EXCEPT ![i] = w]
    /\ UserEdit
    /\ UNCHANGED << log, life, job >>

(* Without the finalizer the custom resource is gone at once.              *)
DeleteInstance(i) ==
    /\ \/ /\ life[i] = "created"
          /\ life' = [life EXCEPT ![i] = "absent"]
          /\ want' = [want EXCEPT ![i] = Disabled]
       \/ /\ life[i] = "active"
          /\ life' = [life EXCEPT ![i] = "deleting"]
          /\ UNCHANGED want
    /\ UserEdit
    /\ UNCHANGED << log, job >>

DeleteSharedResource(n) ==
    /\ n \in Stored.res
    /\ Push([Stored EXCEPT !.res = @ \ {n}])
    /\ UserEdit
    /\ UNCHANGED << life, want, job >>

-----------------------------------------------------------------------------
(* Before the operator starts there is no tracker, one of an older         *)
(* operator, or one whose columns were edited out of step; resources of an *)
(* earlier installation may exist.                                         *)

OutOfSyncData == [owners |-> << >>, names |-> << "", "" >>, paths |-> << >>]

InitialTrackers ==
    {NoTracker,
     [NoTracker EXCEPT !.exists = TRUE],
     [NoTracker EXCEPT !.exists = TRUE, !.data = OutOfSyncData]}

Init ==
    /\ \E t \in InitialTrackers, res \in InitialResources :
          log = << [tracker |-> t, res |-> res] >>
    /\ life \in [Instance -> {"absent", "created"}]
    /\ want \in [Instance -> ConfigPath \union {Disabled}]
    /\ \A i \in Instance : life[i] = "absent" => want[i] = Disabled
    /\ job = [i \in Instance |-> IdleJob]
    /\ edits = 0
    /\ faults = 0

Step(i) ==
    \/ DeleteOutOfSync(i)
    \/ ReconcileLeaderTracker(i)
    \/ CreateNewLeaderTrackerList(i)
    \/ CreateLeaderTracker(i)
    \/ ReconcileMetadataKey(i)
    \/ ReconcileMetadataConfig(i)
    \/ WaitForLeaderTracker(i)
    \/ GenerateLTPAKeys(i)
    \/ GenerateLTPAConfig(i)
    \/ GetLTPAConfig(i)
    \/ DeleteOutdatedConfig(i)
    \/ ReconcileLeader(i)
    \/ SaveLeader(i)
    \/ CreateLTPAKey(i)
    \/ CreateLTPAConfig(i)
    \/ RemoveLeader(i)
    \/ RemoveLeaderDelete(i)
    \/ RemoveLeaderSave(i)
    \/ DropFinalizer(i)

User(i) == CreateInstance(i) \/ EditInstance(i) \/ DeleteInstance(i)

Next ==
    \/ \E i \in Instance :
          StartReconcile(i) \/ StartFinalize(i) \/ Step(i) \/ ApiError(i) \/ User(i)
    \/ RestartOperator
    \/ DeliverEvent
    \/ \E n \in Name : DeleteSharedResource(n)

Spec == Init /\ [][Next]_vars

(* The work queue hands every instance to a worker again after a success,  *)
(* an error or an event, in the order of arrival, and a reconcile ends; a  *)
(* watch event is delivered in the end.                                    *)
Fairness ==
    /\ \A i \in Instance : /\ SF_vars(StartReconcile(i))
                           /\ SF_vars(StartFinalize(i))
                           /\ WF_vars(Step(i))
    /\ WF_vars(DeliverEvent)

FairSpec == Spec /\ Fairness

-----------------------------------------------------------------------------
(* Properties.                                                             *)

Job == [pc : PC, conf : ConfigPath \union {Disabled}, key : Name \union {""},
        config : Name \union {""}, call : Call, found : BOOLEAN,
        list : Seq(Entry), leader : Owner]

(* The variables hold what the code keeps in them.                         *)
TypeOK ==
    /\ log \in Seq(Snapshot) /\ log # << >>
    /\ life \in [Instance -> {"absent", "created", "active", "deleting"}]
    /\ want \in [Instance -> ConfigPath \union {Disabled}]
    /\ job \in [Instance -> Job]
    /\ edits \in 0 .. MaxUserEdits
    /\ faults \in 0 .. MaxFaults

TrackerLists == {GetLeaderTracker(log[k].tracker.data) :
                    k \in {k \in DOMAIN log : InSync(log[k].tracker.data)}}
Lists == TrackerLists \union {job[i].list : i \in Instance}

OneLeadershipPerParent(list) ==
    \A j, k \in DOMAIN list :
        /\ list[j].owner # ""
        /\ list[j].owner = list[k].owner
        /\ SharesLastPathParent(list[j].path, list[k].path)
        => j = k

(* No "resource owner cycle" (resource_sharing.go, reconcileLeader): in    *)
(* the tracker as stored, as cached and as held by any reconcile, an       *)
(* instance leads at most one of the resources whose paths share a parent, *)
(* however reads and writes of different reconciles interleave.            *)
NoOwnerCycle == \A list \in Lists : OneLeadershipPerParent(list)

HasUniqueNames(list) ==
    \A j, k \in DOMAIN list : list[j].name = list[k].name => j = k

(* No tracker, stored, cached or held, has two entries for one resource:   *)
(* an election never appends a name that the list it read already has,     *)
(* and a rebuilt list has one entry per resource.                          *)
UniqueNames == \A list \in Lists : HasUniqueNames(list)

(* What makes the two properties inductive: every entry has the path its   *)
(* name was drawn for, data in sync is exactly what some good list is      *)
(* written as, and a reconcile that has names has them for its own paths.  *)
GoodList(list) ==
    /\ OneLeadershipPerParent(list)
    /\ HasUniqueNames(list)
    /\ \A k \in DOMAIN list : list[k].path = PathOf[list[k].name]

GoodData(data) ==
    InSync(data) => /\ GetLeaderTracker(data) \in Seq(Entry)
                    /\ data = CustomizeLeaderTracker(GetLeaderTracker(data))
                    /\ GoodList(GetLeaderTracker(data))

Sharing == {"track", "list", "create", "metaKey"}
Named == {"keyGet", "leadGet", "leadSave", "keyCreate", "configKeyGet",
          "configGet", "configCreate"}
Removing == {"removeGet", "removeSave", "removeDelete"}

GoodJob(j) ==
    /\ GoodList(j.list)
    /\ j.pc \in Sharing \union Named \union {"metaConfig"} => j.conf \in ConfigPath
    /\ j.pc \in Named \union {"metaConfig"} => j.key \in Name /\ PathOf[j.key] = KeyPath
    /\ j.pc \in Named => j.config \in Name /\ PathOf[j.config] = j.conf
    /\ j.pc \in Removing => j.call \in {"keysOff", "configOff", "finalize"}

GoodState ==
    /\ \A k \in DOMAIN log : GoodData(log[k].tracker.data)
    /\ \A i \in Instance : GoodJob(job[i])

IInv == TypeOK /\ GoodState

StoredList == IF Stored.tracker.exists /\ InSync(Stored.tracker.data)
              THEN GetLeaderTracker(Stored.tracker.data) ELSE << >>

(* Once the finalizer is removed and the custom resource is gone, the      *)
(* stored tracker no longer names the instance as the leader of anything:  *)
(* nobody would wait for an instance that does not exist.                  *)
NoDeadOwner == \A i \in Instance : life[i] = "absent" => i \notin OwnersOf(StoredList)

(* A reconcile that is about to create a shared Secret is the leader the   *)
(* stored tracker names for it.                                            *)
CreatesOnlyAsLeader ==
    \A i \in Instance : \A n \in Name :
        \/ job[i].pc = "keyCreate" /\ job[i].key = n
        \/ job[i].pc = "configCreate" /\ job[i].config = n
        => \E k \in DOMAIN StoredList : StoredList[k].name = n /\ StoredList[k].owner = i

(* A Secret is created for a path only while none exists for that path:    *)
(* the instances of a namespace share one LTPA key.                        *)
OneResourcePerPath ==
    [][\A n \in Stored'.res \ Stored.res : \A m \in Stored.res : PathOf[n] # PathOf[m]]_vars

(* Who leads what, as stored.                                              *)
EntriesOf(list) == {list[k] : k \in DOMAIN list}
LedIn(list) == {<< entry.owner, entry.name >> :
                  entry \in {entry \in EntriesOf(list) : entry.owner # ""}}

Promise == INSTANCE Leadership WITH member <- {i \in Instance : life[i] # "absent"},
                                    leads <- LedIn(StoredList),
                                    secrets <- Stored.res,
                                    lost <- faults > 0

(* What the protocol is for: nobody takes a Secret from its leader, an     *)
(* instance that asks for one gives up its alternatives, one that is gone  *)
(* leads nothing unless a call failed, and a Secret is created only while  *)
(* somebody leads its name, for a path that has none (Leadership).         *)
KeepsLeadership == Promise!Spec

HasResource(path) == \E n \in Stored.res : PathOf[n] = path

(* A key Secret that no tracker entry stands for is not taken over by an   *)
(* instance that draws a new suffix.                                       *)
NewNameUnused ==
    [][\A i \in Instance :
          /\ job[i].pc = "metaKey"
          /\ job'[i].pc = "metaConfig"
          /\ job'[i].key \notin NamesOf(Read)
          => job'[i].key \notin Cached.res]_vars

Served(i) == life[i] = "active" /\ want[i] # Disabled
                => HasResource(KeyPath) /\ HasResource(want[i])

(* Users end their edits (MaxUserEdits), and then every instance that asks *)
(* for a configuration has its LTPA key and its configuration again and    *)
(* again, whoever was to create them and whatever became of that instance. *)
SharedResourcesProvided == \A i \in Instance : []<>Served(i)

=============================================================================
