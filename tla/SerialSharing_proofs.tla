------------------------- MODULE SerialSharing_proofs -------------------------
(* What ResourceSharing keeps when one reconcile runs at a time and the    *)
(* cache is up to date (the controller's default of one worker, with its   *)
(* events delivered before the next call), for any number of instances,    *)
(* names, edits and faults: only the tracked leader creates a Secret, one  *)
(* Secret exists per path, until a call fails no instance that is gone is  *)
(* tracked as a leader, and every step is one that Leadership allows.      *)
EXTENDS ResourceSharing_proofs

Tracked == Stored.tracker.exists /\ InSync(Stored.tracker.data)

Leads(i, n, list) == \E k \in DOMAIN list : list[k].name = n /\ list[k].owner = i

(* No two of the names are for one path.                                   *)
OnePerPath(names) == \A m, n \in names : PathOf[m] = PathOf[n] => m = n

(* One reconcile at a time, of an instance that exists, and one state of   *)
(* the Secrets.                                                            *)
AloneInv ==
    /\ Len(log) = 1
    /\ \A i, j \in Instance : job[i].pc # "idle" /\ job[j].pc # "idle" => i = j
    /\ \A i \in Instance : job[i].pc # "idle" => life[i] \in {"active", "deleting"}

(* Secrets and entries are one per path, a tracker of the present version  *)
(* has an entry for every Secret, and one of another version no leader.    *)
PathInv ==
    /\ OnePerPath(Stored.res) /\ OnePerPath(NamesOf(StoredList))
    /\ Tracked /\ Stored.tracker.version = "current" => Stored.res \subseteq NamesOf(StoredList)
    /\ Stored.tracker.version # "current" => OwnersOf(StoredList) = {}

(* What the protocol makes of the stored list, when an instance is elected *)
(* and when it is removed.                                                 *)
Election(i, elect) == ReconcileLeaderWithState(StoredList, i, CallName(i), CallPath(i), elect)
Removal(list, i) == [k \in DOMAIN list |-> ClearOwnerIfMatching(list[k], i)]

(* What a reconcile has read of leaders still holds, because nobody else   *)
(* wrote: a list to be saved is the stored one but for the change the      *)
(* reconcile makes.                                                        *)
LeadInv(i) ==
    /\ job[i].pc \in {"list", "create"} => ~Stored.tracker.exists
    /\ job[i].pc = "create" => OwnersOf(job[i].list) = {}
    /\ job[i].pc \in Named \union {"metaConfig", "removeSave"} => Tracked
    /\ job[i].pc = "leadSave"
         => /\ OwnersOf(job[i].list) \subseteq OwnersOf(StoredList) \union {i}
            /\ job[i].leader = i => Leads(i, CallName(i), job[i].list)
            /\ \E elect \in BOOLEAN : /\ Election(i, elect).saves
                                     /\ job[i].list = Election(i, elect).list
    /\ job[i].pc = "removeSave" => /\ OwnersOf(job[i].list) \subseteq OwnersOf(StoredList) \ {i}
                                   /\ job[i].list = Removal(StoredList, i)
    /\ job[i].pc = "removeDelete" => OwnersOf(StoredList) \subseteq {i}
    /\ job[i].pc = "keyCreate" => Leads(i, job[i].key, StoredList)
    /\ job[i].pc = "configCreate" => Leads(i, job[i].config, StoredList)

(* The same of names: those a reconcile has are one per path with those    *)
(* that are tracked.                                                       *)
NamesInv(i) ==
    /\ job[i].pc = "create" => /\ OnePerPath(NamesOf(job[i].list))
                               /\ Stored.res \subseteq NamesOf(job[i].list)
    /\ job[i].pc \in Named \union {"metaConfig"} => Stored.tracker.version = "current"
    /\ job[i].pc = "metaConfig" => OnePerPath(NamesOf(StoredList) \union {job[i].key})
    /\ job[i].pc \in Named => OnePerPath(NamesOf(StoredList) \union {job[i].key, job[i].config})
    /\ job[i].pc = "leadSave"
         => /\ NamesOf(StoredList) \subseteq NamesOf(job[i].list)
            /\ NamesOf(job[i].list) \subseteq NamesOf(StoredList) \union {CallName(i)}
    /\ job[i].pc = "removeSave" => NamesOf(job[i].list) = NamesOf(StoredList)

(* While no call fails, no instance that is gone, or is about to go, leads.*)
AliveInv ==
    faults = 0 => \A i \in Instance :
        life[i] \in {"absent", "created"} \/ job[i].pc = "dropFinalizer"
            => i \notin OwnersOf(StoredList)

SerialInv == AloneInv /\ (\A i \in Instance : LeadInv(i)) /\ AliveInv
SharedInv == PathInv /\ \A i \in Instance : NamesInv(i)

-----------------------------------------------------------------------------
(* Lists.                                                                  *)

(* Entries that keep their names, and whose owners are those they had,     *)
(* none or instance i, have the names and at most that owner more.         *)
LEMMA KeptShape ==
    ASSUME NEW list, NEW new, NEW i, DOMAIN new = DOMAIN list,
           \A k \in DOMAIN list : /\ new[k].name = list[k].name
                                  /\ new[k].owner \in {list[k].owner, "", i}
    PROVE  NamesOf(new) = NamesOf(list) /\ OwnersOf(new) \subseteq OwnersOf(list) \union {i}
  BY DEF NamesOf, OwnersOf

(* The entries an instance that asks for a path gives up.                  *)
Cleared(list, i, path) ==
    [k \in DOMAIN list |-> ClearOwnerIfMatchingAndSharesLastPathParent(list[k], i, path)]

LEMMA ClearedShape ==
    ASSUME NEW list \in Seq(Entry), GoodList(list), NEW i \in Instance, NEW path \in Path
    PROVE  /\ Cleared(list, i, path) \in Seq(Entry)
           /\ Len(Cleared(list, i, path)) = Len(list)
           /\ DOMAIN Cleared(list, i, path) = DOMAIN list
           /\ \A k \in DOMAIN list :
                 /\ Cleared(list, i, path)[k].name = list[k].name
                 /\ Cleared(list, i, path)[k].owner =
                       IF list[k].owner = i /\ SharesLastPathParent(path, list[k].path)
                       THEN "" ELSE list[k].owner
  <1>1. \A k \in DOMAIN list : list[k] \in Entry
    BY LenProperties, ElementOfSeq
  <1>2. Cleared(list, i, path) \in Seq(Entry) /\ Len(Cleared(list, i, path)) = Len(list)
    BY ClearedGood DEF Cleared
  <1>3. DOMAIN Cleared(list, i, path) = DOMAIN list
    BY DEF Cleared
  <1>4. \A k \in DOMAIN list :
           /\ Cleared(list, i, path)[k].name = list[k].name
           /\ Cleared(list, i, path)[k].owner =
                 IF list[k].owner = i /\ SharesLastPathParent(path, list[k].path)
                 THEN "" ELSE list[k].owner
    BY <1>1 DEF Cleared, ClearOwnerIfMatchingAndSharesLastPathParent, Entry
  <1> QED
    BY <1>2, <1>3, <1>4

(* What an election that is saved makes of a list: the instance is added   *)
(* for a name that nobody has asked for, or it leads already, or somebody  *)
(* else does, or it becomes the owner of an entry that has none.           *)
Taken(list, i, path, index) ==
    [k \in DOMAIN list |-> IF k = index THEN SetOwner(list[k], i) ELSE Cleared(list, i, path)[k]]

Added(list, i, name, path) ==
    Append(Cleared(list, i, path), [name |-> name, owner |-> i, path |-> path])

Elects(list, i, name, path, r) ==
    \/ /\ \A k \in DOMAIN list : list[k].name # name
       /\ r.list = Added(list, i, name, path)
    \/ \E index \in DOMAIN list :
          /\ list[index].name = name
          /\ \A k \in DOMAIN list : list[k].name = name => k = index
          /\ \/ list[index].owner = i /\ r.list = list
             \/ /\ list[index].owner \in Instance \ {i} /\ r.leader # i
                /\ r.list = Cleared(list, i, path)
             \/ list[index].owner = "" /\ r.list = Taken(list, i, path, index)

LEMMA ElectionCases ==
    ASSUME NEW list \in Seq(Entry), GoodList(list), NEW i \in Instance,
           NEW name \in Name, NEW path \in Path, NEW elect \in BOOLEAN,
           ReconcileLeaderWithState(list, i, name, path, elect).saves
    PROVE  Elects(list, i, name, path, ReconcileLeaderWithState(list, i, name, path, elect))
  <1> DEFINE at == {k \in DOMAIN list : list[k].name = name}
             index == CHOOSE k \in at : \A j \in at : j <= k
             cleared == Cleared(list, i, path)
             taken == Taken(list, i, path, index)
             added == Added(list, i, name, path)
             none == [saves |-> FALSE, leader |-> "", list |-> list]
             r == ReconcileLeaderWithState(list, i, name, path, elect)
  <1>1. \A k \in DOMAIN list : k \in Nat /\ list[k].owner \in Instance \union {""}
    <2>1. /\ Len(list) \in Nat /\ DOMAIN list = 1 .. Len(list)
          /\ \A k \in DOMAIN list : list[k] \in Entry
      BY LenProperties, ElementOfSeq
    <2>2. \A k \in DOMAIN list : k \in Nat
      BY <2>1
    <2> QED
      BY <2>1, <2>2 DEF Entry, Owner
  <1>2. \A j, k \in at : j = k
    BY DEF GoodList, HasUniqueNames
  <1>3. at # {} => index \in at
    <2>1. \A j \in at : j \in Nat
      BY <1>1
    <2>2. at # {} => \E k \in at : \A j \in at : j <= k
      BY <1>2, <2>1
    <2> HIDE DEF at
    <2> QED
      BY <2>2, Zenon
  <1>4. r = CASE at = {} /\ elect ->
                [saves |-> TRUE, leader |-> i, list |-> added]
              [] at = {} /\ ~elect -> none
              [] at # {} /\ list[index].owner = i ->
                [saves |-> TRUE, leader |-> i, list |-> list]
              [] at # {} /\ list[index].owner \notin {i, ""} ->
                [saves |-> TRUE, leader |-> list[index].owner, list |-> cleared]
              [] at # {} /\ list[index].owner = "" /\ elect ->
                [saves |-> TRUE, leader |-> i, list |-> taken]
              [] at # {} /\ list[index].owner = "" /\ ~elect -> none
    BY DEF ReconcileLeaderWithState, Cleared, Taken, Added
  <1>5. /\ at # {} => index \in DOMAIN list /\ list[index].name = name
        /\ \A k \in DOMAIN list : list[k].name = name => k \in at
    BY <1>3
  <1>6. r.saves
    OBVIOUS
  <1>7. CASE at = {}
    <2> HIDE DEF at, index, cleared, taken, added, r
    <2>1. elect /\ r = [saves |-> TRUE, leader |-> i, list |-> added]
      BY <1>4, <1>6, <1>7
    <2>2. r.list = added /\ \A k \in DOMAIN list : list[k].name # name
      BY <1>5, <1>7, <2>1
    <2> QED
      BY <2>2 DEF r, added, Elects
  <1>8. CASE at # {}
    <2>1. \/ list[index].owner = i /\ r.list = list
          \/ /\ list[index].owner \in Instance \ {i}
             /\ r.leader # i /\ r.list = cleared
          \/ list[index].owner = "" /\ r.list = taken
      <3> HIDE DEF at, index, cleared, taken, added, r
      <3>1. CASE list[index].owner = i
        BY <1>4, <1>8, <3>1, InstanceAssumption
      <3>2. CASE list[index].owner \notin {i, ""}
        <4>1. r = [saves |-> TRUE, leader |-> list[index].owner, list |-> cleared]
          BY <1>4, <1>8, <3>2
        <4> QED
          BY <1>1, <1>5, <1>8, <3>2, <4>1
      <3>3. CASE list[index].owner = ""
        <4>1. r = [saves |-> TRUE, leader |-> i, list |-> taken]
          BY <1>4, <1>6, <1>8, <3>3, InstanceAssumption
        <4> QED
          BY <3>3, <4>1
      <3> QED
        BY <3>1, <3>2, <3>3
    <2>2. \A k \in DOMAIN list : list[k].name = name => k = index
      BY <1>2, <1>3, <1>8
    <2>3. index \in DOMAIN list /\ list[index].name = name
      BY <1>5, <1>8
    <2> HIDE DEF index, r
    <2> QED
      BY <2>1, <2>2, <2>3 DEF Elects, r
  <1> QED
    BY <1>7, <1>8

(* It adds at most the name asked for and the instance that asks, and if   *)
(* that is told it leads then the list says so.                            *)
LEMMA ElectionShape ==
    ASSUME NEW list \in Seq(Entry), GoodList(list), NEW i \in Instance,
           NEW name \in Name, NEW path \in Path, NEW elect \in BOOLEAN,
           ReconcileLeaderWithState(list, i, name, path, elect).saves
    PROVE  LET r == ReconcileLeaderWithState(list, i, name, path, elect)
           IN  /\ NamesOf(list) \subseteq NamesOf(r.list)
               /\ NamesOf(r.list) \subseteq NamesOf(list) \union {name}
               /\ OwnersOf(r.list) \subseteq OwnersOf(list) \union {i}
               /\ r.leader = i => Leads(i, name, r.list)
  <1> DEFINE cleared == Cleared(list, i, path)
             newLeader == [name |-> name, owner |-> i, path |-> path]
             new == Append(cleared, newLeader)
             r == ReconcileLeaderWithState(list, i, name, path, elect)
  <1>1. DOMAIN list = 1 .. Len(list) /\ Len(list) \in Nat
    BY LenProperties
  <1>2. cleared \in Seq(Entry) /\ Len(cleared) = Len(list) /\ DOMAIN cleared = DOMAIN list
    BY ClearedShape
  <1>3. \A k \in DOMAIN list : /\ cleared[k].name = list[k].name
                              /\ cleared[k].owner \in {list[k].owner, "", i}
    BY ClearedShape
  <1>4. newLeader \in Entry /\ newLeader.name = name /\ newLeader.owner = i
    BY DEF Entry, Owner
  <1>5. Elects(list, i, name, path, r)
    BY ElectionCases
  <1>6. new = Added(list, i, name, path)
    BY DEF Added
  <1> SUFFICES /\ NamesOf(list) \subseteq NamesOf(r.list)
               /\ NamesOf(r.list) \subseteq NamesOf(list) \union {name}
               /\ OwnersOf(r.list) \subseteq OwnersOf(list) \union {i}
               /\ r.leader = i => Leads(i, name, r.list)
    OBVIOUS
  <1> HIDE DEF cleared, newLeader, r
  <1>7. CASE r.list = new
    <2>1. /\ DOMAIN new = 1 .. Len(list) + 1
          /\ new[Len(list) + 1] = newLeader
          /\ \A k \in 1 .. Len(list) : new[k] = cleared[k]
      BY <1>1, <1>2, <1>4
    <2> HIDE DEF new
    <2>2. Len(list) + 1 \in DOMAIN new /\ \A k \in DOMAIN new : k \in DOMAIN list \/ k = Len(list) + 1
      BY <1>1, <2>1
    <2>3. \A k \in DOMAIN list : /\ k \in DOMAIN new /\ new[k].name = list[k].name
                                 /\ new[k].owner \in {list[k].owner, "", i}
      <3>1. \A k \in DOMAIN list : k \in DOMAIN new /\ new[k] = cleared[k]
        BY <1>1, <2>1
      <3> QED
        BY <1>3, <3>1, Zenon
    <2>4. NamesOf(list) \subseteq NamesOf(new) /\ NamesOf(new) \subseteq NamesOf(list) \union {name}
      BY <1>4, <2>1, <2>2, <2>3 DEF NamesOf
    <2>5. OwnersOf(new) \subseteq OwnersOf(list) \union {i}
      BY <1>4, <2>1, <2>2, <2>3 DEF OwnersOf
    <2>6. Leads(i, name, new)
      BY <1>4, <2>1, <2>2 DEF Leads
    <2> QED
      BY <1>7, <2>4, <2>5, <2>6
  <1>8. ASSUME NEW index \in DOMAIN list, list[index].name = name,
               \/ list[index].owner = i /\ r.list = list
               \/ r.leader # i /\ r.list = cleared
               \/ r.list = Taken(list, i, path, index)
        PROVE  /\ NamesOf(list) \subseteq NamesOf(r.list)
               /\ NamesOf(r.list) \subseteq NamesOf(list) \union {name}
               /\ OwnersOf(r.list) \subseteq OwnersOf(list) \union {i}
               /\ r.leader = i => Leads(i, name, r.list)
    <2>1. CASE list[index].owner = i /\ r.list = list
      BY <1>8, <2>1 DEF Leads
    <2>2. CASE r.leader # i /\ r.list = cleared
      BY <1>2, <1>3, <2>2, KeptShape
    <2> DEFINE taken == Taken(list, i, path, index)
    <2>3. CASE r.list = taken
      <3>1. \A k \in DOMAIN list : list[k] \in Entry
        BY ElementOfSeq
      <3>2. /\ DOMAIN taken = DOMAIN list
            /\ \A k \in DOMAIN list : taken[k] = IF k = index THEN SetOwner(list[k], i) ELSE cleared[k]
        BY DEF Taken, cleared
      <3> HIDE DEF taken
      <3>3. \A k \in DOMAIN list : /\ taken[k].name = list[k].name
                                  /\ taken[k].owner \in {list[k].owner, "", i}
        BY <1>3, <3>1, <3>2 DEF SetOwner, Entry
      <3>4. taken[index].owner = i
        BY <1>8, <3>1, <3>2 DEF SetOwner, Entry
      <3>5. Leads(i, name, taken)
        BY <1>8, <3>2, <3>3, <3>4 DEF Leads
      <3>6. NamesOf(taken) = NamesOf(list) /\ OwnersOf(taken) \subseteq OwnersOf(list) \union {i}
        BY <3>2, <3>3, KeptShape
      <3> QED
        BY <2>3, <3>5, <3>6
    <2> QED
      BY <1>8, <2>1, <2>2, <2>3
  <1> HIDE DEF new
  <1> QED
    BY <1>5, <1>6, <1>7, <1>8 DEF Elects, cleared

(* Removing an instance keeps the names and takes that owner away.         *)
LEMMA RemovalShape ==
    ASSUME NEW list \in Seq(Entry), NEW i \in Instance
    PROVE  /\ DOMAIN Removal(list, i) = DOMAIN list
           /\ \A k \in DOMAIN list :
                 /\ Removal(list, i)[k].name = list[k].name
                 /\ Removal(list, i)[k].owner = IF list[k].owner = i THEN "" ELSE list[k].owner
           /\ NamesOf(Removal(list, i)) = NamesOf(list)
           /\ OwnersOf(Removal(list, i)) \subseteq OwnersOf(list) \ {i}
  <1> DEFINE new == Removal(list, i)
  <1>1. \A k \in DOMAIN list : list[k] \in Entry
    BY LenProperties, ElementOfSeq
  <1>2. \A k \in DOMAIN list : /\ new[k].name = list[k].name
                               /\ new[k].owner = IF list[k].owner = i THEN "" ELSE list[k].owner
    BY <1>1 DEF Removal, ClearOwnerIfMatching, Entry
  <1>3. DOMAIN new = DOMAIN list
    BY DEF Removal
  <1> HIDE DEF new
  <1>4. NamesOf(new) = NamesOf(list)
    BY <1>2, <1>3 DEF NamesOf
  <1>5. OwnersOf(new) \subseteq OwnersOf(list) \ {i}
    BY <1>2, <1>3 DEF OwnersOf
  <1> QED
    BY <1>2, <1>3, <1>4, <1>5 DEF new

(* No entry, no name and no owner.                                         *)
LEMMA EmptyShape == NamesOf(<< >>) = {} /\ OwnersOf(<< >>) = {}
  BY DEF NamesOf, OwnersOf

-----------------------------------------------------------------------------
(* One state of the Secrets.                                               *)

(* With one state of the Secrets the cache shows what is stored.           *)
LEMMA OneState ==
    ASSUME LogGood, Len(log) = 1
    PROVE  Cached = Stored
  BY DEF LogGood, Cached, Stored

(* A write to an up-to-date cache leaves one state: what was written.      *)
LEMMA PushOne ==
    ASSUME MaxLag = 0, NEW s, Push(s)
    PROVE  Len(log') = 1 /\ Stored' = s
  BY DEF Push, Stored

(* Without a write all that is said of the stored state stays.             *)
LEMMA SameLog ==
    ASSUME UNCHANGED log
    PROVE  Stored' = Stored /\ StoredList' = StoredList /\ Tracked' = Tracked
           /\ Len(log') = Len(log)
  BY DEF Stored, StoredList, Tracked

(* What is stored is a list, read back as it is.                           *)
LEMMA StoredListGood ==
    ASSUME LogGood
    PROVE  StoredList \in Seq(Entry) /\ GoodList(StoredList)
  BY EndsGood, EmptyGood DEF StoredList, GoodData

(* What a reconcile reads is the list that is stored.                      *)
LEMMA ReadIsStored ==
    ASSUME LogGood, Len(log) = 1, Readable
    PROVE  Tracked /\ Read = StoredList /\ Cached.tracker.version = Stored.tracker.version
  BY OneState DEF Readable, Read, Tracked, StoredList

(* No tracker that can be read names nothing and nobody.                   *)
LEMMA NoTracker_Empty ==
    ASSUME ~Tracked
    PROVE  StoredList = << >> /\ NamesOf(StoredList) = {} /\ OwnersOf(StoredList) = {}
  BY EmptyShape DEF Tracked, StoredList

(* A deleted tracker.                                                      *)
LEMMA Deleted ==
    ASSUME LogGood, MaxLag = 0, DeleteTracker
    PROVE  /\ Len(log') = 1 /\ Stored'.res = Stored.res
           /\ ~Stored'.tracker.exists /\ ~Tracked' /\ StoredList' = << >>
  <1> DEFINE s == [Stored EXCEPT !.tracker = NoTracker]
  <1>1. s.tracker = NoTracker /\ s.res = Stored.res
    BY EndsGood DEF Snapshot
  <1>2. Push(s)
    BY DEF DeleteTracker
  <1> HIDE DEF s
  <1>3. Len(log') = 1 /\ Stored' = s
    BY <1>2, PushOne
  <1>4. Stored'.res = Stored.res /\ ~Stored'.tracker.exists
    BY <1>1, <1>3 DEF NoTracker
  <1> QED
    BY <1>3, <1>4 DEF Tracked, StoredList

(* A tracker stored with the data of a list.                               *)
LEMMA StoredAs ==
    ASSUME MaxLag = 0, NEW list \in Seq(Entry), NEW s, Push(s), s.tracker.exists,
           s.tracker.data = CustomizeLeaderTracker(list)
    PROVE  Len(log') = 1 /\ Stored' = s /\ Tracked' /\ StoredList' = list
  <1>1. Len(log') = 1 /\ Stored' = s
    BY PushOne
  <1>2. InSync(s.tracker.data) /\ GetLeaderTracker(s.tracker.data) = list
    BY RoundTrip
  <1> QED
    BY <1>1, <1>2 DEF Tracked, StoredList

(* A successful SaveLeaderTracker stores the list it was given, and leaves *)
(* the Secrets and the version label alone.                                *)
LEMMA Saved ==
    ASSUME LogGood, Len(log) = 1, MaxLag = 0, NEW list \in Seq(Entry), SaveSucceeds(list)
    PROVE  /\ Len(log') = 1 /\ Stored'.res = Stored.res /\ Tracked' /\ StoredList' = list
           /\ Stored'.tracker.version = Stored.tracker.version
  <1>0. Stored \in Snapshot /\ Cached = Stored
    BY EndsGood, OneState
  <1>1. CASE SaveNothing(list)
    <2>1. /\ Stored.tracker.exists /\ UNCHANGED log
          /\ Stored.tracker.data = CustomizeLeaderTracker(list)
      BY <1>0, <1>1 DEF SaveNothing, Changed
    <2>2. InSync(Stored.tracker.data) /\ GetLeaderTracker(Stored.tracker.data) = list
      BY <2>1, RoundTrip
    <2>3. Stored' = Stored
      BY <2>1 DEF Stored
    <2> QED
      BY <2>1, <2>2, <2>3 DEF Tracked, StoredList
  <1>2. CASE SaveUpdate(list)
    <2> DEFINE s == [Stored EXCEPT !.tracker.data = CustomizeLeaderTracker(list)]
    <2>1. /\ s.tracker.data = CustomizeLeaderTracker(list)
          /\ s.tracker.exists = Stored.tracker.exists
          /\ s.tracker.version = Stored.tracker.version
          /\ s.res = Stored.res
      BY <1>0 DEF Snapshot, Tracker
    <2>2. Push(s) /\ Stored.tracker.exists
      BY <1>0, <1>2 DEF SaveUpdate
    <2> HIDE DEF s
    <2>3. Len(log') = 1 /\ Stored' = s /\ Tracked' /\ StoredList' = list
      BY <2>1, <2>2, StoredAs
    <2> QED
      BY <2>1, <2>3
  <1> QED
    BY <1>1, <1>2 DEF SaveSucceeds

(* SaveLeaderTracker fails only if there is no tracker: nobody else has    *)
(* changed it since it was read.                                           *)
LEMMA NotSaved ==
    ASSUME LogGood, Len(log) = 1, NEW list, SaveFails(list)
    PROVE  ~Tracked
  <1>1. Cached = Stored
    BY OneState
  <1>2. TrackerIsFresh
    <2>1. \A k \in DOMAIN log : k = 1
      BY DEF LogGood
    <2>2. log[1] = Cached
      BY DEF LogGood, Cached
    <2> QED
      BY <2>1, <2>2 DEF TrackerIsFresh
  <1> QED
    BY <1>1, <1>2 DEF SaveFails, Tracked

(* A write that leaves the tracker alone.                                  *)
LEMMA OnlyResources ==
    ASSUME MaxLag = 0, NEW s, Push(s), s.tracker = Stored.tracker
    PROVE  /\ Len(log') = 1 /\ Stored'.res = s.res /\ Stored'.tracker = Stored.tracker
           /\ Tracked' = Tracked /\ StoredList' = StoredList
  <1>1. Len(log') = 1 /\ Stored' = s
    BY PushOne
  <1> QED
    BY <1>1 DEF Tracked, StoredList

(* The path of an entry is in the column of paths, at its place.           *)
LEMMA EntryPath ==
    ASSUME NEW data \in Data, GoodData(data), InSync(data),
           NEW k \in DOMAIN GetLeaderTracker(data)
    PROVE  k \in DOMAIN data.paths /\ data.paths[k] = PathOf[GetLeaderTracker(data)[k].name]
  <1> DEFINE list == GetLeaderTracker(data)
  <1>1. list \in Seq(Entry) /\ GoodList(list)
    BY DEF GoodData
  <1>2. list[k] \in Entry /\ list[k].path = PathOf[list[k].name]
    <2> HIDE DEF list
    <2>1. list[k] \in Entry
      BY <1>1, LenProperties, ElementOfSeq DEF list
    <2> QED
      BY <1>1, <2>1 DEF GoodList, list
  <1>3. list # << >>
    BY EmptySeq
  <1>4. ~IsEmptyData(data)
    BY <1>3 DEF GetLeaderTracker
  <1>5. /\ k \in DOMAIN Split(data.owners)
        /\ list[k].path = Split(data.paths)[k]
    BY <1>4 DEF GetLeaderTracker
  <1>6. /\ data.owners \in Seq(Owner) /\ data.paths \in Seq(Path)
        /\ Len(Split(data.owners)) = Len(Split(data.paths))
    BY <1>4 DEF Data, InSync
  <1>7. Split(data.owners) \in Seq(Owner)
    <2>1. ASSUME NEW S, NEW x \in S
          PROVE  << x >> \in Seq(S)
      OBVIOUS
    <2>2. << "" >> \in Seq(Owner)
      BY <2>1, Zenon DEF Owner
    <2> QED
      BY <1>6, <2>2, Zenon DEF Split
  <1>8. data.paths # << >>
    <2> SUFFICES ASSUME data.paths = << >> PROVE FALSE
      OBVIOUS
    <2>1. Split(data.paths) = << "" >>
      BY DEF Split
    <2>2. Len(<< "" >>) = 1 /\ << "" >>[1] = ""
      OBVIOUS
    <2>3. Len(Split(data.owners)) = 1
      BY <1>6, <2>1, <2>2, Zenon
    <2>4. DOMAIN Split(data.owners) = 1 .. 1
      BY <1>7, <2>3, LenProperties
    <2>5. k = 1
      BY <1>5, <2>4
    <2>6. list[k].path = ""
      BY <1>5, <2>1, <2>2, <2>5, Zenon
    <2> QED
      BY <1>2, <2>6, PathAssumption DEF Entry
  <1>9. Split(data.paths) = data.paths
    BY <1>8 DEF Split
  <1>10. k \in DOMAIN data.paths
    BY <1>5, <1>6, <1>7, <1>9
  <1> QED
    BY <1>2, <1>5, <1>9, <1>10

(* The name found or drawn for a path is the only one tracked for it.      *)
LEMMA NameOfPath ==
    ASSUME LogGood, Len(log) = 1, Usable, OnePerPath(NamesOf(StoredList)),
           NEW path \in Path, NEW n \in MetadataNames(path)
    PROVE  /\ Tracked /\ Stored.tracker.version = "current"
           /\ n \in Name /\ PathOf[n] = path
           /\ \A m \in NamesOf(StoredList) : PathOf[m] = path => m = n
  <1> DEFINE data == Cached.tracker.data
  <1>1. /\ Readable /\ Tracked /\ Read = StoredList /\ Stored.tracker.version = "current"
        /\ n \in Name /\ PathOf[n] = path
    BY ReadIsStored, MetadataGood DEF Usable
  <1>2. data \in Data /\ GoodData(data) /\ InSync(data) /\ StoredList = GetLeaderTracker(data)
    BY <1>1, EndsGood DEF Readable, Snapshot, Tracker, Data, Read
  <1>3. \A k \in DOMAIN StoredList :
           k \in DOMAIN data.paths /\ data.paths[k] = PathOf[StoredList[k].name]
    BY <1>2, EntryPath DEF data
  <1>4. (\E k \in DOMAIN data.paths : data.paths[k] = path) => n \in NamesOf(StoredList)
    BY <1>1, MetadataGood
  <1> HIDE DEF data
  <1>5. ASSUME NEW m \in NamesOf(StoredList), PathOf[m] = path
        PROVE  m = n
    <2>1. PICK k \in DOMAIN StoredList : m = StoredList[k].name
      BY DEF NamesOf
    <2>2. n \in NamesOf(StoredList)
      BY <1>3, <1>4, <1>5, <2>1
    <2> QED
      BY <1>1, <1>5, <2>2 DEF OnePerPath
  <1> QED
    BY <1>1, <1>5

-----------------------------------------------------------------------------
(* Steps of the one reconcile.                                             *)

OnlyJob(i) == \A k \in Instance \ {i} : job'[k] = job[k]

(* Places of a reconcile that rely on nothing it has read.                 *)
Free == {"idle", "track", "metaKey", "removeGet", "configDelete", "dropFinalizer"}

(* An assignment to one reconcile leaves the others alone.                 *)
LEMMA JobChange ==
    ASSUME JobsGood, NEW i \in Instance, NEW j, job' = [job EXCEPT ![i] = j]
    PROVE  OnlyJob(i) /\ job'[i] = j
  BY DEF JobsGood, OnlyJob

(* A reconcile that returns is idle, and the others stay as they are.      *)
LEMMA ReturnChange ==
    ASSUME JobsGood, NEW i \in Instance, Return(i)
    PROVE  OnlyJob(i) /\ job'[i].pc = "idle"
  <1>1. IdleJob.pc = "idle"
    BY DEF IdleJob
  <1>2. job' = [job EXCEPT ![i] = IdleJob]
    BY DEF Return
  <1> QED
    BY <1>1, <1>2, JobChange

(* A reconcile that goes on keeps its names, its call and its list.        *)
LEMMA GotoChange ==
    ASSUME JobsGood, NEW i \in Instance, NEW pc, Goto(i, pc)
    PROVE  /\ OnlyJob(i) /\ job'[i].pc = pc
           /\ job'[i].key = job[i].key /\ job'[i].config = job[i].config
           /\ job'[i].call = job[i].call /\ job'[i].list = job[i].list
  <1>1. job[i] \in Job
    BY DEF JobsGood
  <1> DEFINE j == [job[i] EXCEPT !.pc = pc]
  <1>2. /\ j.pc = pc /\ j.key = job[i].key /\ j.config = job[i].config
        /\ j.call = job[i].call /\ j.list = job[i].list
    BY <1>1 DEF Job
  <1>3. job' = [job EXCEPT ![i] = j]
    BY DEF Goto, JobsGood
  <1> HIDE DEF j
  <1> QED
    BY <1>2, <1>3, JobChange

(* Nobody else is at work, so a step of the one reconcile has to keep only *)
(* what concerns itself.                                                   *)
LEMMA Frame ==
    ASSUME SerialInv, NEW i \in Instance, job[i].pc # "idle",
           OnlyJob(i), UNCHANGED life, faults' = 0 => faults = 0, Len(log') = 1,
           LeadInv(i)', SharedInv => PathInv' /\ NamesInv(i)',
           OwnersOf(StoredList)' \subseteq OwnersOf(StoredList) \union {i},
           faults' = 0 /\ job'[i].pc = "dropFinalizer" => i \notin OwnersOf(StoredList)'
    PROVE  SerialInv' /\ (SharedInv => SharedInv')
  <1>1. \A k \in Instance \ {i} : job[k].pc = "idle" /\ job'[k].pc = "idle"
    BY DEF SerialInv, AloneInv, OnlyJob
  <1>2. AloneInv'
    BY <1>1 DEF SerialInv, AloneInv
  <1>3. \A k \in Instance \ {i} : LeadInv(k)'
    BY <1>1 DEF LeadInv, Named
  <1>4. \A k \in Instance \ {i} : NamesInv(k)'
    BY <1>1 DEF NamesInv, Named
  <1>5. AliveInv'
    <2> SUFFICES ASSUME faults' = 0, NEW k \in Instance,
                        life'[k] \in {"absent", "created"} \/ job'[k].pc = "dropFinalizer"
                 PROVE  k \notin OwnersOf(StoredList)'
      BY DEF AliveInv
    <2>1. CASE k = i
      <3>1. life[i] \notin {"absent", "created"}
        BY DEF SerialInv, AloneInv
      <3> QED
        BY <2>1, <3>1
    <2>2. CASE k # i
      <3>1. k \notin OwnersOf(StoredList)
        BY <1>1, <2>2 DEF SerialInv, AliveInv
      <3> QED
        BY <2>2, <3>1
    <2> QED
      BY <2>1, <2>2
  <1>6. SerialInv'
    BY <1>2, <1>3, <1>5 DEF SerialInv
  <1>7. SharedInv => SharedInv'
    BY <1>4 DEF SharedInv
  <1> QED
    BY <1>6, <1>7

(* A step to a free place.                                                 *)
LEMMA FrameFree ==
    ASSUME SerialInv, NEW i \in Instance, job[i].pc # "idle",
           OnlyJob(i), UNCHANGED life, faults' = 0 => faults = 0, Len(log') = 1,
           job'[i].pc \in Free, SharedInv => PathInv',
           OwnersOf(StoredList)' \subseteq OwnersOf(StoredList) \union {i},
           faults' = 0 /\ job'[i].pc = "dropFinalizer" => i \notin OwnersOf(StoredList)'
    PROVE  SerialInv' /\ (SharedInv => SharedInv')
  <1>1. LeadInv(i)'
    BY DEF LeadInv, Named, Free
  <1>2. NamesInv(i)'
    BY DEF NamesInv, Named, Free
  <1> QED
    BY <1>1, <1>2, Frame

(* A step that writes nothing.                                             *)
LEMMA FrameRead ==
    ASSUME SerialInv, NEW i \in Instance, job[i].pc # "idle",
           OnlyJob(i), UNCHANGED << life, log >>, faults' = 0 => faults = 0,
           LeadInv(i)', SharedInv => NamesInv(i)',
           faults' = 0 /\ job'[i].pc = "dropFinalizer" => i \notin OwnersOf(StoredList)
    PROVE  SerialInv' /\ (SharedInv => SharedInv')
  <1>1. Stored' = Stored /\ StoredList' = StoredList /\ Tracked' = Tracked /\ Len(log') = 1
    BY SameLog DEF SerialInv, AloneInv
  <1>2. SharedInv => PathInv'
    BY <1>1 DEF SharedInv, PathInv
  <1> QED
    BY <1>1, <1>2, Frame

(* Nothing is written and the place is free.                               *)
LEMMA FrameIdle ==
    ASSUME SerialInv, NEW i \in Instance, job[i].pc # "idle",
           OnlyJob(i), UNCHANGED << life, log >>, faults' = 0 => faults = 0, job'[i].pc \in Free,
           faults' = 0 /\ job'[i].pc = "dropFinalizer" => i \notin OwnersOf(StoredList)
    PROVE  SerialInv' /\ (SharedInv => SharedInv')
  <1>1. LeadInv(i)'
    BY DEF LeadInv, Named, Free
  <1>2. NamesInv(i)'
    BY DEF NamesInv, Named, Free
  <1> QED
    BY <1>1, <1>2, FrameRead

(* Without a tracker and with the Secrets as they were.                    *)
LEMMA EmptyPaths ==
    ASSUME ~Tracked', Stored'.res \subseteq Stored.res
    PROVE  SharedInv => PathInv'
  <1>1. StoredList' = << >>
    BY DEF Tracked, StoredList
  <1>2. NamesOf(StoredList)' = {} /\ OwnersOf(StoredList)' = {}
    BY <1>1, EmptyShape
  <1> QED
    BY <1>2 DEF SharedInv, PathInv, OnePerPath

(* GetLeaderTracker deletes a tracker out of sync: nobody leads any more.  *)
LEMMA SerialDeleteOutOfSync ==
    ASSUME LogGood, JobsGood, SerialInv, MaxLag = 0, NEW i \in Instance, DeleteOutOfSync(i)
    PROVE  SerialInv' /\ (SharedInv => SharedInv')
  <1>1. job[i].pc # "idle" /\ UNCHANGED << life, faults >> /\ DeleteTracker
    BY DEF DeleteOutOfSync
  <1>2. Len(log') = 1 /\ Stored'.res = Stored.res /\ ~Tracked' /\ StoredList' = << >>
    BY <1>1, Deleted
  <1>3. OwnersOf(StoredList)' = {}
    BY <1>2, EmptyShape
  <1>4. OnlyJob(i) /\ job'[i].pc \in {"idle", "dropFinalizer"}
    BY ReturnChange, GotoChange DEF DeleteOutOfSync
  <1>5. SharedInv => PathInv'
    BY <1>2, EmptyPaths
  <1> QED
    BY <1>1, <1>2, <1>3, <1>4, <1>5, FrameFree DEF Free

(* reconcileLeaderTracker finds no tracker, deletes an outdated one, or    *)
(* goes on with a current one.                                             *)
LEMMA SerialReconcileLeaderTracker ==
    ASSUME LogGood, JobsGood, SerialInv, MaxLag = 0, NEW i \in Instance,
           ReconcileLeaderTracker(i)
    PROVE  SerialInv' /\ (SharedInv => SharedInv')
  <1>1. job[i].pc # "idle" /\ UNCHANGED << life, faults >>
    BY DEF ReconcileLeaderTracker
  <1>2. CASE ~Cached.tracker.exists /\ Goto(i, "list") /\ UNCHANGED log
    <2>1. OnlyJob(i) /\ job'[i].pc = "list"
      BY <1>2, GotoChange
    <2>2. ~Stored'.tracker.exists
      BY <1>2, OneState, SameLog DEF SerialInv, AloneInv
    <2>3. LeadInv(i)'
      BY <2>1, <2>2 DEF LeadInv, Named
    <2>4. NamesInv(i)'
      BY <2>1 DEF NamesInv, Named
    <2> QED
      BY <1>1, <1>2, <2>1, <2>3, <2>4, FrameRead
  <1>3. CASE DeleteTracker /\ Goto(i, "metaKey")
    <2>1. OnlyJob(i) /\ job'[i].pc = "metaKey"
      BY <1>3, GotoChange
    <2>2. Len(log') = 1 /\ Stored'.res = Stored.res /\ ~Tracked' /\ StoredList' = << >>
      BY <1>3, Deleted
    <2>3. OwnersOf(StoredList)' = {}
      BY <2>2, EmptyShape
    <2>4. SharedInv => PathInv'
      BY <2>2, EmptyPaths
    <2> QED
      BY <1>1, <2>1, <2>2, <2>3, <2>4, FrameFree DEF Free
  <1>4. CASE Goto(i, "metaKey") /\ UNCHANGED log
    <2>1. OnlyJob(i) /\ job'[i].pc = "metaKey"
      BY <1>4, GotoChange
    <2> QED
      BY <1>1, <1>4, <2>1, FrameIdle DEF Free
  <1> QED
    BY <1>2, <1>3, <1>4 DEF ReconcileLeaderTracker

(* createNewLeaderTrackerList: an entry without owner per Secret.          *)
LEMMA SerialCreateNewLeaderTrackerList ==
    ASSUME LogGood, JobsGood, SerialInv, NEW i \in Instance, CreateNewLeaderTrackerList(i)
    PROVE  SerialInv' /\ (SharedInv => SharedInv')
  <1>1. job[i].pc = "list" /\ UNCHANGED << log, life, faults >>
    BY DEF CreateNewLeaderTrackerList
  <1>2. PICK list \in RebuiltLists(Cached.res) :
           job' = [job EXCEPT ![i].pc = "create", ![i].list = list]
    BY DEF CreateNewLeaderTrackerList
  <1>3. Cached = Stored /\ Stored.res \subseteq Name
    BY OneState, EndsGood DEF SerialInv, AloneInv, Snapshot
  <1>4. NamesOf(list) = Stored.res /\ OwnersOf(list) = {}
    <2>1. list \in UNION {[1 .. n -> [name : Stored.res, owner : {""}, path : Path]] :
                             n \in {Cardinality(Stored.res)}} /\ NamesOf(list) = Stored.res
      BY <1>2, <1>3 DEF RebuiltLists
    <2>2. \A k \in DOMAIN list : list[k].owner = ""
      BY <2>1
    <2> QED
      BY <2>1, <2>2 DEF OwnersOf
  <1> DEFINE j == [job[i] EXCEPT !.pc = "create", !.list = list]
  <1>5. job[i] \in Job
    BY DEF JobsGood
  <1>6. j.pc = "create" /\ j.list = list
    BY <1>5 DEF Job
  <1>7. job' = [job EXCEPT ![i] = j]
    BY <1>2 DEF JobsGood
  <1> HIDE DEF j
  <1>8. OnlyJob(i) /\ job'[i].pc = "create" /\ job'[i].list = list
    BY <1>6, <1>7, JobChange
  <1>9. Stored' = Stored /\ ~Stored.tracker.exists
    BY <1>1, SameLog DEF SerialInv, LeadInv
  <1>10. LeadInv(i)'
    BY <1>4, <1>8, <1>9 DEF LeadInv, Named
  <1>11. SharedInv => NamesInv(i)'
    BY <1>4, <1>8, <1>9 DEF SharedInv, PathInv, NamesInv, Named
  <1> QED
    BY <1>1, <1>8, <1>10, <1>11, FrameRead

(* The tracker is created: it names every Secret, and no owner.            *)
LEMMA SerialCreateLeaderTracker ==
    ASSUME LogGood, JobsGood, SerialInv, MaxLag = 0, NEW i \in Instance,
           CreateLeaderTracker(i)
    PROVE  SerialInv' /\ (SharedInv => SharedInv')
  <1>1. job[i].pc = "create" /\ UNCHANGED << life, faults >>
    BY DEF CreateLeaderTracker
  <1>2. job[i] \in Job /\ job[i].list \in Seq(Entry)
    BY DEF JobsGood, Job
  <1>3. ~Stored.tracker.exists /\ ~Cached.tracker.exists
    BY <1>1, OneState DEF SerialInv, AloneInv, LeadInv
  <1>4. CASE Return(i) /\ UNCHANGED log
    BY <1>1, <1>4, ReturnChange, FrameIdle DEF Free
  <1> DEFINE t == [exists |-> TRUE, version |-> "current",
                   data |-> CustomizeLeaderTracker(job[i].list)]
             s == [Stored EXCEPT !.tracker = t]
             j == [job[i] EXCEPT !.pc = "metaKey", !.list = << >>]
  <1>5. CASE Push(s) /\ job' = [job EXCEPT ![i].pc = "metaKey", ![i].list = << >>]
    <2>1. /\ s.res = Stored.res /\ s.tracker.exists
          /\ s.tracker.data = CustomizeLeaderTracker(job[i].list)
      BY EndsGood DEF Snapshot
    <2>2. j.pc = "metaKey"
      BY <1>2 DEF Job
    <2>3. job' = [job EXCEPT ![i] = j] /\ Push(s)
      BY <1>5 DEF JobsGood
    <2> HIDE DEF s, t, j
    <2>4. OnlyJob(i) /\ job'[i].pc = "metaKey"
      BY <2>2, <2>3, JobChange
    <2>5. Len(log') = 1 /\ Stored'.res = Stored.res /\ StoredList' = job[i].list
      BY <1>2, <2>1, <2>3, StoredAs
    <2>6. OwnersOf(StoredList)' = {}
      BY <1>1, <2>5 DEF SerialInv, LeadInv
    <2>7. SharedInv => PathInv'
      BY <1>1, <2>5, <2>6 DEF SharedInv, PathInv, NamesInv
    <2> QED
      BY <1>1, <2>4, <2>5, <2>6, <2>7, FrameFree DEF Free
  <1>6. ~SaveSucceeds(job[i].list)
    BY <1>3 DEF SaveSucceeds, SaveNothing, SaveUpdate
  <1> QED
    BY <1>4, <1>5, <1>6 DEF CreateLeaderTracker

(* reconcileLTPAMetadata: the key is named, once per path.                 *)
LEMMA SerialReconcileMetadataKey ==
    ASSUME LogGood, JobsGood, SerialInv, NEW i \in Instance, ReconcileMetadataKey(i)
    PROVE  SerialInv' /\ (SharedInv => SharedInv')
  <1>1. job[i].pc = "metaKey" /\ Usable /\ UNCHANGED << log, life, faults >>
    BY DEF ReconcileMetadataKey
  <1>2. PICK n \in MetadataNames(KeyPath) :
           job' = [job EXCEPT ![i].pc = "metaConfig", ![i].key = n]
    BY DEF ReconcileMetadataKey
  <1> DEFINE j == [job[i] EXCEPT !.pc = "metaConfig", !.key = n]
  <1>3. job[i] \in Job
    BY DEF JobsGood
  <1>4. j.pc = "metaConfig" /\ j.key = n
    BY <1>3 DEF Job
  <1>5. job' = [job EXCEPT ![i] = j]
    BY <1>2 DEF JobsGood
  <1> HIDE DEF j
  <1>6. OnlyJob(i) /\ job'[i].pc = "metaConfig" /\ job'[i].key = n
    BY <1>4, <1>5, JobChange
  <1>7. Len(log) = 1 /\ Stored' = Stored /\ StoredList' = StoredList /\ Tracked' = Tracked
    BY <1>1, SameLog DEF SerialInv, AloneInv
  <1>8. Tracked
    BY <1>1, <1>7, ReadIsStored DEF Usable
  <1>9. LeadInv(i)'
    BY <1>6, <1>7, <1>8 DEF LeadInv, Named
  <1>10. ASSUME SharedInv PROVE NamesInv(i)'
    <2>1. OnePerPath(NamesOf(StoredList))
      BY <1>10 DEF SharedInv, PathInv
    <2>2. /\ Stored.tracker.version = "current" /\ PathOf[n] = KeyPath
          /\ \A m \in NamesOf(StoredList) : PathOf[m] = KeyPath => m = n
      BY <1>1, <1>2, <1>7, <2>1, NameOfPath, TreeAssumption
    <2>3. OnePerPath(NamesOf(StoredList) \union {n})
      BY <2>1, <2>2 DEF OnePerPath
    <2> QED
      BY <1>6, <1>7, <2>2, <2>3 DEF NamesInv, Named
  <1> QED
    BY <1>1, <1>6, <1>9, <1>10, FrameRead

(* reconcileLTPAMetadata: the configuration is named, once per path.       *)
LEMMA SerialReconcileMetadataConfig ==
    ASSUME LogGood, JobsGood, SerialInv, NEW i \in Instance, ReconcileMetadataConfig(i)
    PROVE  SerialInv' /\ (SharedInv => SharedInv')
  <1>1. job[i].pc = "metaConfig" /\ Usable /\ UNCHANGED << log, life, faults >>
    BY DEF ReconcileMetadataConfig
  <1>2. PICK n \in MetadataNames(job[i].conf) :
           job' = [job EXCEPT ![i].pc = "keyGet", ![i].config = n]
    BY DEF ReconcileMetadataConfig
  <1> DEFINE j == [job[i] EXCEPT !.pc = "keyGet", !.config = n]
  <1>3. job[i] \in Job /\ GoodJob(job[i])
    BY DEF JobsGood
  <1>4. j.pc = "keyGet" /\ j.config = n /\ j.key = job[i].key
    BY <1>3 DEF Job
  <1>5. job' = [job EXCEPT ![i] = j]
    BY <1>2 DEF JobsGood
  <1> HIDE DEF j
  <1>6. /\ OnlyJob(i) /\ job'[i].pc = "keyGet"
        /\ job'[i].config = n /\ job'[i].key = job[i].key
    BY <1>4, <1>5, JobChange
  <1>7. Len(log) = 1 /\ Stored' = Stored /\ StoredList' = StoredList /\ Tracked' = Tracked
    BY <1>1, SameLog DEF SerialInv, AloneInv
  <1>8. Tracked
    BY <1>1, <1>7, ReadIsStored DEF Usable
  <1>9. LeadInv(i)'
    BY <1>6, <1>7, <1>8 DEF LeadInv, Named
  <1>10. ASSUME SharedInv PROVE NamesInv(i)'
    <2>1. OnePerPath(NamesOf(StoredList)) /\ OnePerPath(NamesOf(StoredList) \union {job[i].key})
      BY <1>1, <1>10 DEF SharedInv, PathInv, NamesInv
    <2>2. /\ job[i].conf \in Path /\ job[i].conf # KeyPath
          /\ PathOf[job[i].key] = KeyPath
      BY <1>1, <1>3, TreeAssumption DEF GoodJob
    <2>3. /\ Stored.tracker.version = "current" /\ PathOf[n] = job[i].conf
          /\ \A m \in NamesOf(StoredList) : PathOf[m] = job[i].conf => m = n
      BY <1>1, <1>2, <1>7, <2>1, <2>2, NameOfPath
    <2>4. OnePerPath(NamesOf(StoredList) \union {job[i].key, n})
      BY <2>1, <2>2, <2>3 DEF OnePerPath
    <2> QED
      BY <1>6, <1>7, <2>3, <2>4 DEF NamesInv, Named
  <1> QED
    BY <1>1, <1>6, <1>9, <1>10, FrameRead

(* A reconcile that finds no usable tracker returns.                       *)
LEMMA SerialWaitForLeaderTracker ==
    ASSUME JobsGood, SerialInv, NEW i \in Instance, WaitForLeaderTracker(i)
    PROVE  SerialInv' /\ (SharedInv => SharedInv')
  <1>1. job[i].pc # "idle" /\ Return(i) /\ UNCHANGED << log, life, faults >>
    BY DEF WaitForLeaderTracker
  <1> QED
    BY <1>1, ReturnChange, FrameIdle DEF Free

(* A reconcile that keeps its names goes on to a look-up.                  *)
LEMMA FrameNamed ==
    ASSUME SerialInv, NEW i \in Instance, job[i].pc \in Named, OnlyJob(i),
           UNCHANGED << life, log >>, faults' = 0 => faults = 0,
           job'[i].pc \in {"keyGet", "leadGet", "configKeyGet", "configGet"},
           job'[i].key = job[i].key, job'[i].config = job[i].config
    PROVE  SerialInv' /\ (SharedInv => SharedInv')
  <1>1. Stored' = Stored /\ StoredList' = StoredList /\ Tracked' = Tracked
    BY SameLog
  <1>2. LeadInv(i)'
    <2>1. Tracked
      BY DEF SerialInv, LeadInv
    <2> QED
      BY <1>1, <2>1 DEF LeadInv
  <1>3. SharedInv => NamesInv(i)'
    <2> SUFFICES ASSUME SharedInv PROVE NamesInv(i)'
      OBVIOUS
    <2>1. /\ Stored.tracker.version = "current"
          /\ OnePerPath(NamesOf(StoredList) \union {job[i].key, job[i].config})
      BY DEF SharedInv, NamesInv
    <2> QED
      BY <1>1, <2>1 DEF NamesInv
  <1>4. job[i].pc # "idle"
    BY DEF Named
  <1> QED
    BY <1>2, <1>3, <1>4, FrameRead

(* The look-ups of generateLTPAKeys and generateLTPAConfig.                *)
LEMMA SerialGenerate ==
    ASSUME JobsGood, SerialInv, NEW i \in Instance,
           GenerateLTPAKeys(i) \/ GenerateLTPAConfig(i) \/ GetLTPAConfig(i)
    PROVE  SerialInv' /\ (SharedInv => SharedInv')
  <1>1. job[i].pc \in Named /\ job[i].pc # "idle" /\ UNCHANGED << life, log, faults >>
    BY DEF GenerateLTPAKeys, GenerateLTPAConfig, GetLTPAConfig, Named
  <1>2. CASE Return(i)
    BY <1>1, <1>2, ReturnChange, FrameIdle DEF Free
  <1>3. CASE Goto(i, "configDelete")
    <2>1. OnlyJob(i) /\ job'[i].pc = "configDelete"
      BY <1>3, GotoChange
    <2> QED
      BY <1>1, <2>1, FrameIdle DEF Free
  <1>4. job[i] \in Job
    BY DEF JobsGood
  <1>5. ASSUME NEW call, NEW found,
               job' = [job EXCEPT ![i].pc = "leadGet", ![i].call = call, ![i].found = found]
        PROVE  SerialInv' /\ (SharedInv => SharedInv')
    <2> DEFINE j == [job[i] EXCEPT !.pc = "leadGet", !.call = call, !.found = found]
    <2>1. j.pc = "leadGet" /\ j.key = job[i].key /\ j.config = job[i].config
      BY <1>4 DEF Job
    <2>2. job' = [job EXCEPT ![i] = j]
      BY <1>5 DEF JobsGood
    <2> HIDE DEF j
    <2>3. /\ OnlyJob(i) /\ job'[i].pc = "leadGet"
          /\ job'[i].key = job[i].key /\ job'[i].config = job[i].config
      BY <2>1, <2>2, JobChange
    <2> QED
      BY <1>1, <2>3, FrameNamed
  <1>6. ASSUME NEW call, job' = [job EXCEPT ![i].pc = "leadGet", ![i].call = call]
        PROVE  SerialInv' /\ (SharedInv => SharedInv')
    <2> DEFINE j == [job[i] EXCEPT !.pc = "leadGet", !.call = call]
    <2>1. j.pc = "leadGet" /\ j.key = job[i].key /\ j.config = job[i].config
      BY <1>4 DEF Job
    <2>2. job' = [job EXCEPT ![i] = j]
      BY <1>6 DEF JobsGood
    <2> HIDE DEF j
    <2>3. /\ OnlyJob(i) /\ job'[i].pc = "leadGet"
          /\ job'[i].key = job[i].key /\ job'[i].config = job[i].config
      BY <2>1, <2>2, JobChange
    <2> QED
      BY <1>1, <2>3, FrameNamed
  <1>7. CASE GenerateLTPAKeys(i)
    <2> DEFINE found == job[i].key \in Cached.res
    <2>1. job' = [job EXCEPT ![i].pc = "leadGet", ![i].call = "key", ![i].found = found]
      BY <1>7 DEF GenerateLTPAKeys
    <2> HIDE DEF found
    <2> QED
      BY <1>5, <2>1
  <1>8. CASE GenerateLTPAConfig(i)
    <2> DEFINE call == IF job[i].key \in Cached.res THEN "config" ELSE "keyPeek"
    <2>1. job' = [job EXCEPT ![i].pc = "leadGet", ![i].call = call]
      BY <1>8 DEF GenerateLTPAConfig
    <2> HIDE DEF call
    <2> QED
      BY <1>6, <2>1
  <1>9. CASE GetLTPAConfig(i)
    <2>1. \/ Return(i) \/ Goto(i, "configDelete")
          \/ job' = [job EXCEPT ![i].pc = "leadGet", ![i].call = "config2"]
      BY <1>9 DEF GetLTPAConfig
    <2> QED
      BY <1>2, <1>3, <1>6, <2>1
  <1> QED
    BY <1>7, <1>8, <1>9

(* The deletion of a configuration made for an older key.                  *)
LEMMA SerialDeleteOutdatedConfig ==
    ASSUME LogGood, JobsGood, SerialInv, MaxLag = 0, NEW i \in Instance,
           DeleteOutdatedConfig(i)
    PROVE  SerialInv' /\ (SharedInv => SharedInv')
  <1>1. job[i].pc # "idle" /\ Return(i) /\ UNCHANGED << life, faults >>
    BY DEF DeleteOutdatedConfig
  <1>2. OnlyJob(i) /\ job'[i].pc = "idle"
    BY <1>1, ReturnChange
  <1> DEFINE s == [Stored EXCEPT !.res = @ \ {job[i].config}]
  <1>3. CASE UNCHANGED log
    BY <1>1, <1>2, <1>3, FrameIdle DEF Free
  <1>4. CASE Push(s)
    <2>1. s.tracker = Stored.tracker /\ s.res \subseteq Stored.res
      BY EndsGood DEF Snapshot
    <2> HIDE DEF s
    <2>2. /\ Len(log') = 1 /\ Stored'.res \subseteq Stored.res
          /\ Stored'.tracker = Stored.tracker
          /\ Tracked' = Tracked /\ StoredList' = StoredList
      BY <1>4, <2>1, OnlyResources
    <2>3. SharedInv => PathInv'
      BY <2>2 DEF SharedInv, PathInv, OnePerPath
    <2> QED
      BY <1>1, <1>2, <2>2, <2>3, FrameFree DEF Free
  <1> QED
    BY <1>3, <1>4 DEF DeleteOutdatedConfig

(* reconcileLeader decides who leads; what it is to save follows from what *)
(* is stored.                                                              *)
LEMMA SerialReconcileLeader ==
    ASSUME LogGood, JobsGood, SerialInv, NEW i \in Instance, ReconcileLeader(i)
    PROVE  SerialInv' /\ (SharedInv => SharedInv')
  <1>1. job[i].pc = "leadGet" /\ job[i].pc # "idle" /\ UNCHANGED << log, life, faults >>
    BY DEF ReconcileLeader
  <1>2. CASE Return(i)
    BY <1>1, <1>2, ReturnChange, FrameIdle DEF Free
  <1>3. CASE ~Return(i)
    <2> DEFINE name == CallName(i)
               elect == job[i].call # "keyPeek"
               r == ReconcileLeaderWithState(Read, i, name, CallPath(i), elect)
               j == [job[i] EXCEPT !.pc = "leadSave", !.list = r.list, !.leader = r.leader]
    <2>1. /\ Readable /\ r.saves
          /\ job' = [job EXCEPT ![i].pc = "leadSave", ![i].list = r.list, ![i].leader = r.leader]
      BY <1>3 DEF ReconcileLeader
    <2>2. job[i] \in Job /\ GoodJob(job[i])
      BY DEF JobsGood
    <2>3. name \in Name /\ CallPath(i) \in Path /\ CallPath(i) = PathOf[name]
      BY <1>1, <2>2, TreeAssumption DEF GoodJob, Named, CallName, CallPath
    <2>4. name \in {job[i].key, job[i].config}
      BY DEF CallName
    <2>5. /\ Tracked /\ Read = StoredList /\ Stored' = Stored
          /\ StoredList' = StoredList /\ Tracked' = Tracked
      BY <1>1, <2>1, ReadIsStored, SameLog DEF SerialInv, AloneInv
    <2>6. Read \in Seq(Entry) /\ GoodList(Read) /\ elect \in BOOLEAN
      BY <2>1, ReadGood
    <2>7. /\ NamesOf(Read) \subseteq NamesOf(r.list)
          /\ NamesOf(r.list) \subseteq NamesOf(Read) \union {name}
          /\ OwnersOf(r.list) \subseteq OwnersOf(Read) \union {i}
          /\ r.leader = i => Leads(i, name, r.list)
      <3> HIDE DEF elect, name
      <3> QED BY <2>1, <2>3, <2>6, ElectionShape
    <2> HIDE DEF r
    <2>8. /\ j.pc = "leadSave" /\ j.list = r.list /\ j.leader = r.leader
          /\ j.key = job[i].key /\ j.config = job[i].config /\ j.call = job[i].call
          /\ j.conf = job[i].conf
      BY <2>2 DEF Job
    <2>9. job' = [job EXCEPT ![i] = j]
      BY <2>1 DEF JobsGood
    <2> HIDE DEF j
    <2>10. /\ OnlyJob(i) /\ job'[i].pc = "leadSave" /\ job'[i].list = r.list
           /\ job'[i].leader = r.leader /\ job'[i].key = job[i].key
           /\ job'[i].config = job[i].config /\ job'[i].call = job[i].call
           /\ job'[i].conf = job[i].conf
      BY <2>8, <2>9, JobChange
    <2>11. CallName(i)' = name
      BY <2>10 DEF CallName
    <2>12. LeadInv(i)'
      <3>1. r.saves /\ elect \in BOOLEAN
        BY <2>1, <2>6
      <3>2. CallPath(i)' = CallPath(i)
        BY <2>10 DEF CallPath
      <3>3. Election(i, elect)' = r
        <4>1. Election(i, elect)' = ReconcileLeaderWithState(StoredList', i, CallName(i)', CallPath(i)', elect)
          BY <2>10 DEF Election
        <4> HIDE DEF name, elect
        <4> QED
          BY <2>5, <2>11, <3>2, <4>1 DEF r
      <3>4. (\E e \in BOOLEAN : Election(i, e).saves /\ job[i].list = Election(i, e).list)'
        BY <2>10, <3>1, <3>3
      <3>5. /\ OwnersOf(job[i].list)' \subseteq OwnersOf(StoredList)' \union {i}
            /\ job'[i].leader = i => Leads(i, CallName(i)', job'[i].list)
        BY <2>5, <2>7, <2>10, <2>11
      <3> HIDE DEF name, elect
      <3> QED
        BY <2>5, <2>10, <3>4, <3>5 DEF LeadInv, Named
    <2> HIDE DEF name
    <2>13. ASSUME SharedInv PROVE NamesInv(i)'
      <3>1. /\ Stored.tracker.version = "current"
            /\ OnePerPath(NamesOf(StoredList) \union {job[i].key, job[i].config})
        BY <1>1, <2>13 DEF SharedInv, NamesInv, Named
      <3> QED
        BY <2>5, <2>7, <2>10, <2>11, <3>1 DEF NamesInv, Named
    <2> QED
      BY <1>1, <2>10, <2>12, <2>13, FrameRead
  <1> QED
    BY <1>2, <1>3

(* reconcileLeader saves; who goes on to create leads in what is stored.   *)
LEMMA SerialSaveLeader ==
    ASSUME LogGood, JobsGood, SerialInv, MaxLag = 0, NEW i \in Instance, SaveLeader(i)
    PROVE  SerialInv' /\ (SharedInv => SharedInv')
  <1>1. job[i].pc = "leadSave" /\ job[i].pc # "idle" /\ UNCHANGED << life, faults >>
    BY DEF SaveLeader
  <1>2. job[i] \in Job /\ job[i].list \in Seq(Entry) /\ Len(log) = 1
    BY DEF JobsGood, Job, SerialInv, AloneInv
  <1>3. CASE Return(i) /\ UNCHANGED log
    BY <1>1, <1>3, ReturnChange, FrameIdle DEF Free
  <1> DEFINE list == job[i].list
             next == AfterReconcileLeader(job[i], i)
             j == [job[i] EXCEPT !.pc = next, !.call = "none", !.found = FALSE,
                                 !.list = << >>, !.leader = ""]
  <1>4. CASE SaveSucceeds(list)
    <2>1. /\ Len(log') = 1 /\ Stored'.res = Stored.res /\ Tracked' /\ StoredList' = list
          /\ Stored'.tracker.version = Stored.tracker.version
      BY <1>2, <1>4, Saved
    <2>2. OwnersOf(StoredList)' \subseteq OwnersOf(StoredList) \union {i}
      BY <1>1, <2>1 DEF SerialInv, LeadInv
    <2>3. ASSUME SharedInv
          PROVE  /\ PathInv' /\ Stored'.tracker.version = "current"
                 /\ OnePerPath(NamesOf(list) \union {job[i].key, job[i].config})
      <3>1. /\ Tracked /\ Stored.tracker.version = "current"
            /\ Stored.res \subseteq NamesOf(StoredList) /\ OnePerPath(Stored.res)
        BY <1>1, <2>3 DEF SharedInv, NamesInv, PathInv, SerialInv, LeadInv, Named
      <3>2. /\ OnePerPath(NamesOf(StoredList) \union {job[i].key, job[i].config})
            /\ NamesOf(StoredList) \subseteq NamesOf(list)
            /\ NamesOf(list) \subseteq NamesOf(StoredList) \union {CallName(i)}
        BY <1>1, <2>3 DEF SharedInv, NamesInv, Named
      <3>3. CallName(i) \in {job[i].key, job[i].config}
        BY DEF CallName
      <3>4. OnePerPath(NamesOf(list) \union {job[i].key, job[i].config})
        BY <3>2, <3>3 DEF OnePerPath
      <3>5. OnePerPath(NamesOf(list))
        BY <3>4 DEF OnePerPath
      <3> HIDE DEF list
      <3> QED
        BY <2>1, <3>1, <3>2, <3>4, <3>5 DEF PathInv
    <2>4. CASE next = "idle"
      <3>1. job' = [job EXCEPT ![i] = IdleJob]
        BY <1>4, <2>4, NotSaved DEF SaveLeader, Return
      <3>2. OnlyJob(i) /\ job'[i].pc = "idle"
        BY <3>1, ReturnChange DEF Return
      <3> QED
        BY <1>1, <2>1, <2>2, <2>3, <3>2, FrameFree DEF Free
    <2>5. CASE next # "idle"
      <3>1. \/ Return(i) /\ UNCHANGED log
            \/ job' = [job EXCEPT ![i] = j]
        <4> HIDE DEF next
        <4> QED BY <2>5 DEF SaveLeader, next, JobsGood
      <3>2. /\ next \in {"configKeyGet", "keyCreate", "configGet", "configCreate"}
            /\ next = "keyCreate" => job[i].call = "key" /\ job[i].leader = i
            /\ next = "configCreate" => job[i].call = "config2" /\ job[i].leader = i
        BY <2>5 DEF AfterReconcileLeader
      <3> HIDE DEF next
      <3>3. j.pc = next /\ j.key = job[i].key /\ j.config = job[i].config
        BY <1>2 DEF Job
      <3> HIDE DEF j
      <3>4. CASE job' = [job EXCEPT ![i] = j]
        <4>1. /\ OnlyJob(i) /\ job'[i].pc = next
              /\ job'[i].key = job[i].key /\ job'[i].config = job[i].config
          BY <3>3, <3>4, JobChange
        <4>2. job[i].leader = i => Leads(i, CallName(i), list)
          BY <1>1 DEF SerialInv, LeadInv
        <4>3. /\ next = "keyCreate" => Leads(i, job[i].key, list)
              /\ next = "configCreate" => Leads(i, job[i].config, list)
          BY <3>2, <4>2 DEF CallName
        <4> HIDE DEF list
        <4>4. LeadInv(i)'
          BY <2>1, <3>2, <4>1, <4>3 DEF LeadInv
        <4>5. SharedInv => NamesInv(i)'
          BY <2>1, <2>3, <3>2, <4>1 DEF NamesInv
        <4> QED
          BY <1>1, <2>1, <2>2, <2>3, <3>2, <4>1, <4>4, <4>5, Frame
      <3> QED
        BY <1>3, <3>1, <3>4
    <2> QED
      BY <2>4, <2>5
  <1> QED
    BY <1>3, <1>4 DEF SaveLeader

(* The leader creates the Secret of a name that is tracked: no other is    *)
(* there for that path.                                                    *)
LEMMA TrackedLeader ==
    ASSUME NEW i \in Instance, NEW n, Leads(i, n, StoredList), SharedInv, Tracked,
           Stored.tracker.version = "current"
    PROVE  /\ OnePerPath(Stored.res \union {n})
           /\ Stored.res \union {n} \subseteq NamesOf(StoredList)
  <1>1. n \in NamesOf(StoredList)
    BY DEF Leads, NamesOf
  <1>2. Stored.res \subseteq NamesOf(StoredList) /\ OnePerPath(NamesOf(StoredList))
    BY DEF SharedInv, PathInv
  <1> QED
    BY <1>1, <1>2 DEF OnePerPath

(* CreateOrUpdate of a Secret by its leader.                               *)
LEMMA SerialCreateResource ==
    ASSUME LogGood, JobsGood, SerialInv, MaxLag = 0, NEW i \in Instance, NEW n,
           job[i].pc \in Named, Leads(i, n, StoredList),
           NEW next \in {"configKeyGet", "idle"}, CreateResource(i, n, next), UNCHANGED << life, faults >>
    PROVE  SerialInv' /\ (SharedInv => SharedInv')
  <1>1. Tracked /\ job[i].pc # "idle"
    BY DEF SerialInv, LeadInv, Named
  <1>2. Return(i) \/ (next = "configKeyGet" /\ Goto(i, "configKeyGet"))
    BY DEF CreateResource
  <1>3. /\ OnlyJob(i) /\ job'[i].pc \in {"idle", "configKeyGet"}
        /\ job'[i].pc = "configKeyGet"
             => job'[i].key = job[i].key /\ job'[i].config = job[i].config
    BY <1>2, ReturnChange, GotoChange
  <1> DEFINE s == [Stored EXCEPT !.res = @ \union {n}]
  <1>4. CASE UNCHANGED log
    BY <1>1, <1>3, <1>4, FrameIdle, FrameNamed DEF Free
  <1>5. CASE Push(s)
    <2>1. s.tracker = Stored.tracker /\ s.res = Stored.res \union {n}
      BY EndsGood DEF Snapshot
    <2> HIDE DEF s
    <2>2. /\ Len(log') = 1 /\ Stored'.res = Stored.res \union {n}
          /\ Stored'.tracker = Stored.tracker
          /\ Tracked' = Tracked /\ StoredList' = StoredList
      BY <1>5, <2>1, OnlyResources
    <2>3. LeadInv(i)'
      BY <1>1, <1>3, <2>2 DEF LeadInv, Named
    <2>4. ASSUME SharedInv PROVE PathInv' /\ NamesInv(i)'
      <3>1. /\ Stored.tracker.version = "current" /\ OnePerPath(NamesOf(StoredList))
            /\ OnePerPath(NamesOf(StoredList) \union {job[i].key, job[i].config})
        BY <2>4 DEF SharedInv, NamesInv, PathInv
      <3>2. /\ OnePerPath(Stored.res \union {n})
            /\ Stored.res \union {n} \subseteq NamesOf(StoredList)
        BY <1>1, <2>4, <3>1, TrackedLeader
      <3>3. PathInv'
        BY <2>2, <3>1, <3>2 DEF PathInv
      <3>4. NamesInv(i)'
        BY <1>3, <2>2, <3>1 DEF NamesInv, Named
      <3> QED
        BY <3>3, <3>4
    <2> QED
      BY <1>1, <1>3, <2>2, <2>3, <2>4, Frame
  <1> QED
    BY <1>4, <1>5 DEF CreateResource

(* The leader creates the key, or the configuration.                       *)
LEMMA SerialCreate ==
    ASSUME LogGood, JobsGood, SerialInv, MaxLag = 0, NEW i \in Instance,
           CreateLTPAKey(i) \/ CreateLTPAConfig(i)
    PROVE  SerialInv' /\ (SharedInv => SharedInv')
  <1>1. CASE CreateLTPAKey(i)
    <2>1. /\ job[i].pc = "keyCreate" /\ UNCHANGED << life, faults >>
          /\ CreateResource(i, job[i].key, "configKeyGet")
      BY <1>1 DEF CreateLTPAKey
    <2>2. Leads(i, job[i].key, StoredList)
      BY <2>1 DEF SerialInv, LeadInv
    <2> QED
      BY <2>1, <2>2, SerialCreateResource DEF Named
  <1>2. CASE CreateLTPAConfig(i)
    <2>1. /\ job[i].pc = "configCreate" /\ UNCHANGED << life, faults >>
          /\ CreateResource(i, job[i].config, "idle")
      BY <1>2 DEF CreateLTPAConfig
    <2>2. Leads(i, job[i].config, StoredList)
      BY <2>1 DEF SerialInv, LeadInv
    <2> QED
      BY <2>1, <2>2, SerialCreateResource DEF Named
  <1> QED
    BY <1>1, <1>2

(* After a removal: next is the other removal, the end or the finalizer.   *)
LEMMA AfterRemovalChange ==
    ASSUME JobsGood, NEW i \in Instance, job[i].pc \in Removing,
           AfterRemoval(i) \/ AfterFailedRemoval(i)
    PROVE  OnlyJob(i) /\ job'[i].pc \in {"idle", "removeGet", "dropFinalizer"}
  <1>1. job[i].call \in {"keysOff", "configOff", "finalize"}
    BY DEF JobsGood, GoodJob
  <1>2. CASE Return(i)
    BY <1>2, ReturnChange
  <1>3. CASE Goto(i, "dropFinalizer")
    BY <1>3, GotoChange
  <1> DEFINE j == [IdleJob EXCEPT !.pc = "removeGet", !.call = "configOff"]
  <1>4. CASE job' = [job EXCEPT ![i] = j]
    <2>1. j.pc = "removeGet"
      BY DEF IdleJob
    <2> HIDE DEF j
    <2> QED
      BY <1>4, <2>1, JobChange
  <1> QED
    BY <1>1, <1>2, <1>3, <1>4 DEF AfterRemoval, AfterFailedRemoval

(* RemoveLeader reads: an instance that goes on to the finalizer leads     *)
(* nothing.                                                                *)
LEMMA SerialRemoveLeader ==
    ASSUME LogGood, JobsGood, SerialInv, NEW i \in Instance, RemoveLeader(i)
    PROVE  SerialInv' /\ (SharedInv => SharedInv')
  <1>1. /\ job[i].pc = "removeGet" /\ job[i].pc # "idle" /\ job[i].pc \in Removing
        /\ UNCHANGED << log, life, faults >>
    BY DEF RemoveLeader, Removing
  <1>2. Len(log) = 1 /\ Cached = Stored
    BY OneState DEF SerialInv, AloneInv
  <1> DEFINE list == Removal(Read, i)
  <1>3. ASSUME Readable
        PROVE  /\ Tracked /\ Read = StoredList /\ list = Removal(StoredList, i)
               /\ NamesOf(list) = NamesOf(StoredList)
               /\ OwnersOf(list) \subseteq OwnersOf(StoredList) \ {i}
    BY <1>2, <1>3, ReadIsStored, ReadGood, RemovalShape
  <1>4. CASE ~Cached.tracker.exists /\ AfterRemoval(i)
    <2>1. i \notin OwnersOf(StoredList)
      BY <1>2, <1>4, NoTracker_Empty DEF Tracked
    <2> QED
      BY <1>1, <1>4, <2>1, AfterRemovalChange, FrameIdle DEF Free
  <1>5. CASE Readable /\ list = Read /\ AfterRemoval(i)
    <2>1. i \notin OwnersOf(StoredList)
      <3> HIDE DEF list
      <3> QED BY <1>3, <1>5
    <2> QED
      BY <1>1, <1>5, <2>1, AfterRemovalChange, FrameIdle DEF Free
  <1>6. CASE Readable /\ OwnersOf(list) = {} /\ Goto(i, "removeDelete")
    <2>1. OnlyJob(i) /\ job'[i].pc = "removeDelete"
      BY <1>6, GotoChange
    <2>2. Read \in Seq(Entry)
      BY <1>6, ReadGood
    <2>3. OwnersOf(Read) \subseteq {i}
      <3>1. /\ DOMAIN Removal(Read, i) = DOMAIN Read
            /\ \A k \in DOMAIN Read :
                  /\ Removal(Read, i)[k].name = Read[k].name
                  /\ Removal(Read, i)[k].owner = IF Read[k].owner = i THEN "" ELSE Read[k].owner
        <4> HIDE DEF list
        <4> QED
          BY <2>2, RemovalShape, Zenon
      <3>2. ASSUME NEW k \in DOMAIN Read, Read[k].owner \notin {i, ""} PROVE FALSE
        <4>1. k \in DOMAIN list /\ list[k].owner # ""
          BY <3>1, <3>2
        <4>2. list[k].owner \in OwnersOf(list)
          BY <4>1 DEF OwnersOf
        <4> QED
          BY <1>6, <4>2
      <3> QED
        BY <3>2 DEF OwnersOf
    <2>4. OwnersOf(StoredList)' \subseteq {i}
      BY <1>1, <1>3, <1>6, <2>3, SameLog
    <2>5. LeadInv(i)' /\ NamesInv(i)'
      BY <2>1, <2>4 DEF LeadInv, NamesInv, Named
    <2> QED
      BY <1>1, <2>1, <2>5, FrameRead
  <1>7. CASE Readable /\ job' = [job EXCEPT ![i].pc = "removeSave", ![i].list = list]
    <2> HIDE DEF list
    <2> DEFINE j == [job[i] EXCEPT !.pc = "removeSave", !.list = list]
    <2>1. j.pc = "removeSave" /\ j.list = list
      BY DEF JobsGood, Job
    <2>2. job' = [job EXCEPT ![i] = j]
      BY <1>7 DEF JobsGood
    <2> HIDE DEF j
    <2>3. OnlyJob(i) /\ job'[i].pc = "removeSave" /\ job'[i].list = list
      BY <2>1, <2>2, JobChange
    <2>4. StoredList' = StoredList /\ Tracked' = Tracked
      BY <1>1, SameLog
    <2>5. LeadInv(i)'
      BY <1>3, <1>7, <2>3, <2>4 DEF LeadInv, Named
    <2>6. NamesInv(i)'
      BY <1>3, <1>7, <2>3, <2>4 DEF NamesInv, Named
    <2> QED
      BY <1>1, <2>3, <2>5, <2>6, FrameRead
  <1> QED
    BY <1>4, <1>5, <1>6, <1>7 DEF RemoveLeader, Removal

(* RemoveLeader deletes the tracker of nobody.                             *)
LEMMA SerialRemoveLeaderDelete ==
    ASSUME LogGood, JobsGood, SerialInv, MaxLag = 0, NEW i \in Instance,
           RemoveLeaderDelete(i)
    PROVE  SerialInv' /\ (SharedInv => SharedInv')
  <1>1. /\ job[i].pc # "idle" /\ job[i].pc \in Removing /\ UNCHANGED << life, faults >> /\ AfterRemoval(i)
    BY DEF RemoveLeaderDelete, Removing
  <1>2. OnlyJob(i) /\ job'[i].pc \in {"idle", "removeGet", "dropFinalizer"}
    BY <1>1, AfterRemovalChange
  <1>3. CASE Stored.tracker.exists /\ DeleteTracker
    <2>1. Len(log') = 1 /\ Stored'.res = Stored.res /\ ~Tracked' /\ StoredList' = << >>
      BY <1>3, Deleted
    <2>2. OwnersOf(StoredList)' = {}
      BY <2>1, EmptyShape
    <2>3. SharedInv => PathInv'
      BY <2>1, EmptyPaths
    <2> QED
      BY <1>1, <1>2, <2>1, <2>2, <2>3, FrameFree DEF Free
  <1>4. CASE ~Stored.tracker.exists /\ UNCHANGED log
    <2>1. i \notin OwnersOf(StoredList)
      BY <1>4, NoTracker_Empty DEF Tracked
    <2> QED
      BY <1>1, <1>2, <1>4, <2>1, FrameIdle DEF Free
  <1> QED
    BY <1>3, <1>4 DEF RemoveLeaderDelete

(* RemoveLeader saves the list without the instance.                       *)
LEMMA SerialRemoveLeaderSave ==
    ASSUME LogGood, JobsGood, SerialInv, MaxLag = 0, NEW i \in Instance,
           RemoveLeaderSave(i)
    PROVE  SerialInv' /\ (SharedInv => SharedInv')
  <1>1. /\ job[i].pc = "removeSave" /\ job[i].pc # "idle" /\ job[i].pc \in Removing
        /\ UNCHANGED << life, faults >>
    BY DEF RemoveLeaderSave, Removing
  <1>2. job[i].list \in Seq(Entry) /\ Len(log) = 1 /\ Tracked
    BY <1>1 DEF JobsGood, Job, SerialInv, AloneInv, LeadInv
  <1>3. SaveSucceeds(job[i].list) /\ AfterRemoval(i)
    BY <1>2, NotSaved DEF RemoveLeaderSave
  <1>4. OnlyJob(i) /\ job'[i].pc \in {"idle", "removeGet", "dropFinalizer"}
    BY <1>1, <1>3, AfterRemovalChange
  <1>5. /\ Len(log') = 1 /\ Stored'.res = Stored.res /\ Tracked' /\ StoredList' = job[i].list
        /\ Stored'.tracker.version = Stored.tracker.version
    BY <1>2, <1>3, Saved
  <1>6. OwnersOf(StoredList)' \subseteq OwnersOf(StoredList) \ {i}
    BY <1>1, <1>5 DEF SerialInv, LeadInv
  <1>7. ASSUME SharedInv PROVE PathInv'
    <2>1. NamesOf(StoredList)' = NamesOf(StoredList)
      BY <1>1, <1>5, <1>7 DEF SharedInv, NamesInv
    <2> QED
      BY <1>2, <1>5, <1>6, <1>7, <2>1 DEF SharedInv, PathInv
  <1> QED
    BY <1>1, <1>4, <1>5, <1>6, <1>7, FrameFree DEF Free

(* The finalizer is removed and the custom resource is gone.               *)
LEMMA SerialDropFinalizer ==
    ASSUME JobsGood, RestGood, SerialInv, NEW i \in Instance, DropFinalizer(i)
    PROVE  SerialInv' /\ (SharedInv => SharedInv')
  <1>1. /\ job[i].pc = "dropFinalizer" /\ UNCHANGED << log, faults >>
        /\ life' = [life EXCEPT ![i] = "absent"] /\ Return(i)
    BY DEF DropFinalizer
  <1>2. OnlyJob(i) /\ job'[i].pc = "idle"
    BY <1>1, ReturnChange
  <1>3. \A k \in Instance : job'[k].pc = "idle"
    BY <1>1, <1>2 DEF SerialInv, AloneInv, OnlyJob
  <1>4. Stored' = Stored /\ StoredList' = StoredList /\ Tracked' = Tracked /\ Len(log') = 1
    BY <1>1, SameLog DEF SerialInv, AloneInv
  <1>5. AloneInv'
    BY <1>3, <1>4 DEF AloneInv
  <1>6. AliveInv'
    <2> SUFFICES ASSUME faults' = 0, NEW k \in Instance, life'[k] \in {"absent", "created"}
                 PROVE  k \notin OwnersOf(StoredList)
      BY <1>3, <1>4 DEF AliveInv
    <2>1. life[k] \in {"absent", "created"} \/ job[k].pc = "dropFinalizer"
      BY <1>1 DEF RestGood
    <2> QED
      BY <1>1, <2>1 DEF SerialInv, AliveInv
  <1>7. \A k \in Instance : LeadInv(k)'
    BY <1>3 DEF LeadInv, Named
  <1>8. \A k \in Instance : NamesInv(k)'
    BY <1>3 DEF NamesInv, Named
  <1>9. PathInv => PathInv'
    BY <1>4 DEF PathInv
  <1> QED
    BY <1>5, <1>6, <1>7, <1>8, <1>9 DEF SerialInv, SharedInv

(* Every step of a reconcile.                                              *)
LEMMA SerialStep ==
    ASSUME LogGood, JobsGood, RestGood, SerialInv, MaxLag = 0, NEW i \in Instance, Step(i)
    PROVE  SerialInv' /\ (SharedInv => SharedInv')
  BY SerialDeleteOutOfSync, SerialReconcileLeaderTracker, SerialCreateNewLeaderTrackerList,
     SerialCreateLeaderTracker, SerialReconcileMetadataKey, SerialReconcileMetadataConfig,
     SerialWaitForLeaderTracker, SerialGenerate, SerialDeleteOutdatedConfig,
     SerialReconcileLeader, SerialSaveLeader, SerialCreate, SerialRemoveLeader,
     SerialRemoveLeaderDelete, SerialRemoveLeaderSave, SerialDropFinalizer DEF Step

-----------------------------------------------------------------------------
(* What happens around the one reconcile.                                  *)

(* With one worker a reconcile starts only when none is in progress.       *)
LEMMA NobodyBusy ==
    ASSUME SerialInv, MaxConcurrentReconciles = 1, Cardinality(Busy) < MaxConcurrentReconciles
    PROVE  \A k \in Instance : job[k].pc = "idle"
  <1> SUFFICES ASSUME NEW k \in Instance, job[k].pc # "idle" PROVE FALSE
    OBVIOUS
  <1>1. Busy = {k}
    BY DEF Busy, SerialInv, AloneInv
  <1>2. Cardinality(Busy) = 1
    BY <1>1, FS_Singleton
  <1> QED
    BY <1>2

(* Steps in which the Secrets stay as they were and one reconcile, at a    *)
(* place that relies on nothing, is in progress at most.                   *)
LEMMA FrameAround ==
    ASSUME SerialInv, NEW i \in Instance, UNCHANGED log,
           \A k \in Instance \ {i} : job'[k].pc = "idle",
           job'[i].pc \in Free,
           job'[i].pc # "idle" => life'[i] \in {"active", "deleting"},
           faults' = 0 => faults = 0,
           faults' = 0 =>
             \A k \in Instance :
               life'[k] \in {"absent", "created"} \/ job'[k].pc = "dropFinalizer"
                 => life[k] \in {"absent", "created"} \/ job[k].pc = "dropFinalizer"
    PROVE  SerialInv' /\ (SharedInv => SharedInv')
  <1>1. Stored' = Stored /\ StoredList' = StoredList /\ Tracked' = Tracked /\ Len(log') = 1
    BY SameLog DEF SerialInv, AloneInv
  <1>2. AloneInv'
    BY <1>1 DEF AloneInv
  <1>3. AliveInv'
    BY <1>1 DEF SerialInv, AliveInv
  <1>4. \A k \in Instance : job'[k].pc \in Free
    BY DEF Free
  <1>5. \A k \in Instance : LeadInv(k)'
    BY <1>4 DEF LeadInv, Named, Free
  <1>6. \A k \in Instance : NamesInv(k)'
    BY <1>4 DEF NamesInv, Named, Free
  <1>7. PathInv => PathInv'
    BY <1>1 DEF PathInv
  <1> QED
    BY <1>2, <1>3, <1>5, <1>6, <1>7 DEF SerialInv, SharedInv

(* A worker takes up an instance.                                          *)
LEMMA SerialStart ==
    ASSUME JobsGood, RestGood, SerialInv, MaxConcurrentReconciles = 1, NEW i \in Instance,
           StartReconcile(i) \/ StartFinalize(i)
    PROVE  SerialInv' /\ (SharedInv => SharedInv')
  <1>1. \A k \in Instance : job[k].pc = "idle"
    BY NobodyBusy DEF StartReconcile, StartFinalize
  <1>2. /\ UNCHANGED << log, faults >> /\ life'[i] \in {"active", "deleting"}
        /\ \A k \in Instance \ {i} : life'[k] = life[k]
    BY DEF StartReconcile, StartFinalize, RestGood
  <1>3. \E j \in {[IdleJob EXCEPT !.pc = "removeGet", !.call = "keysOff"],
                  [IdleJob EXCEPT !.pc = "removeGet", !.call = "finalize"],
                  [IdleJob EXCEPT !.pc = "track", !.conf = want[i]]} :
           job' = [job EXCEPT ![i] = j]
    BY DEF StartReconcile, StartFinalize
  <1>4. OnlyJob(i) /\ job'[i].pc \in {"removeGet", "track"}
    <2>1. PICK j \in {[IdleJob EXCEPT !.pc = "removeGet", !.call = "keysOff"],
                      [IdleJob EXCEPT !.pc = "removeGet", !.call = "finalize"],
                      [IdleJob EXCEPT !.pc = "track", !.conf = want[i]]} :
             job' = [job EXCEPT ![i] = j]
      BY <1>3
    <2>2. j.pc \in {"removeGet", "track"}
      BY <2>1 DEF IdleJob
    <2> QED
      BY <2>1, <2>2, JobChange
  <1>5. \A k \in Instance \ {i} : job'[k].pc = "idle"
    BY <1>1, <1>4 DEF OnlyJob
  <1> QED
    BY <1>1, <1>2, <1>4, <1>5, FrameAround DEF Free

(* A failed call or a restart ends the reconcile; there is no event to     *)
(* deliver.                                                                *)
LEMMA SerialFaults ==
    ASSUME LogGood, JobsGood, RestGood, SerialInv,
           (\E i \in Instance : ApiError(i)) \/ RestartOperator \/ DeliverEvent
    PROVE  SerialInv' /\ (SharedInv => SharedInv')
  <1>1. ASSUME Fault PROVE faults' # 0
    BY <1>1, BoundAssumption DEF Fault, RestGood
  <1>2. CASE \E i \in Instance : ApiError(i)
    <2>1. PICK i \in Instance : ApiError(i)
      BY <1>2
    <2>2. job[i].pc # "idle" /\ UNCHANGED << log, life >> /\ faults' # 0
      BY <1>1, <2>1 DEF ApiError
    <2>3. Return(i) \/ Goto(i, "dropFinalizer")
      BY <2>1 DEF ApiError
    <2>4. OnlyJob(i) /\ job'[i].pc \in {"idle", "dropFinalizer"}
      BY <2>3, ReturnChange, GotoChange
    <2> QED
      BY <2>2, <2>4, FrameIdle DEF Free
  <1>3. CASE RestartOperator
    <2>1. UNCHANGED life /\ faults' # 0 /\ log' = << Stored >>
      BY <1>1, <1>3 DEF RestartOperator
    <2>2. UNCHANGED log
      BY <2>1 DEF SerialInv, AloneInv, LogGood, Stored
    <2>3. \A k \in Instance : job'[k].pc = "idle"
      BY <1>3 DEF RestartOperator, IdleJob
    <2>4. CASE Instance = {}
      BY <2>1, <2>2, <2>4, SameLog
         DEF SerialInv, AloneInv, AliveInv, SharedInv, PathInv
    <2>5. CASE Instance # {}
      <3>1. PICK i \in Instance : TRUE
        BY <2>5
      <3> QED
        BY <2>1, <2>2, <2>3, <3>1, FrameAround DEF Free
    <2> QED
      BY <2>4, <2>5
  <1>4. ~DeliverEvent
    BY DEF SerialInv, AloneInv, DeliverEvent
  <1> QED
    BY <1>2, <1>3, <1>4

(* Users edit custom resources and delete Secrets.                         *)
LEMMA SerialUsers ==
    ASSUME LogGood, JobsGood, RestGood, SerialInv, MaxLag = 0,
           (\E i \in Instance : User(i)) \/ (\E n \in Name : DeleteSharedResource(n))
    PROVE  SerialInv' /\ (SharedInv => SharedInv')
  <1>1. CASE \E i \in Instance : User(i)
    <2>1. PICK i \in Instance : CreateInstance(i) \/ EditInstance(i) \/ DeleteInstance(i)
      BY <1>1 DEF User
    <2>2. UNCHANGED << log, job, faults >>
      BY <2>1 DEF CreateInstance, EditInstance, DeleteInstance, UserEdit
    <2>3. /\ \A k \in Instance \ {i} : life'[k] = life[k]
          /\ life[i] \in {"active", "deleting"} => life'[i] \in {"active", "deleting"}
      BY <2>1 DEF CreateInstance, EditInstance, DeleteInstance, RestGood
    <2>4. /\ Stored' = Stored /\ StoredList' = StoredList /\ Tracked' = Tracked
          /\ Len(log') = Len(log)
      BY <2>2, SameLog
    <2>5. AloneInv'
      BY <2>2, <2>3 DEF SerialInv, AloneInv
    <2>6. AliveInv'
      <3> SUFFICES ASSUME faults' = 0, NEW k \in Instance,
                          life'[k] \in {"absent", "created"} \/ job'[k].pc = "dropFinalizer"
                   PROVE  k \notin OwnersOf(StoredList)
        BY <2>4 DEF AliveInv
      <3>1. life[k] \in {"absent", "created"} \/ job[k].pc = "dropFinalizer"
        BY <2>2, <2>3 DEF RestGood
      <3> QED
        BY <2>2, <3>1 DEF SerialInv, AliveInv
    <2>7. \A k \in Instance : LeadInv(k)'
      BY <2>2, <2>4 DEF SerialInv, LeadInv, Election, CallName, CallPath
    <2>8. (\A k \in Instance : NamesInv(k)) => \A k \in Instance : NamesInv(k)'
      BY <2>2, <2>4 DEF NamesInv, CallName
    <2>9. PathInv => PathInv'
      BY <2>4 DEF PathInv
    <2> QED
      BY <2>5, <2>6, <2>7, <2>8, <2>9 DEF SerialInv, SharedInv
  <1>2. CASE \E n \in Name : DeleteSharedResource(n)
    <2>1. PICK n \in Name : DeleteSharedResource(n)
      BY <1>2
    <2> DEFINE s == [Stored EXCEPT !.res = @ \ {n}]
    <2>2. s.tracker = Stored.tracker /\ s.res \subseteq Stored.res
      BY EndsGood DEF Snapshot
    <2>3. Push(s) /\ UNCHANGED << life, job, faults >>
      BY <2>1 DEF DeleteSharedResource, UserEdit
    <2> HIDE DEF s
    <2>4. /\ Len(log') = 1 /\ Stored'.res \subseteq Stored.res
          /\ Stored'.tracker = Stored.tracker
          /\ Tracked' = Tracked /\ StoredList' = StoredList
      BY <2>2, <2>3, OnlyResources
    <2>5. AloneInv' /\ AliveInv'
      BY <2>3, <2>4 DEF SerialInv, AloneInv, AliveInv
    <2>6. \A k \in Instance : LeadInv(k)'
      BY <2>3, <2>4 DEF SerialInv, LeadInv, Election, CallName, CallPath
    <2>7. (\A k \in Instance : NamesInv(k)) => \A k \in Instance : NamesInv(k)'
      BY <2>3, <2>4 DEF NamesInv, CallName
    <2>8. PathInv => PathInv'
      BY <2>4 DEF PathInv, OnePerPath
    <2> QED
      BY <2>5, <2>6, <2>7, <2>8 DEF SerialInv, SharedInv
  <1> QED
    BY <1>1, <1>2

(* The start: nothing is in progress, and a tracker left by an older       *)
(* operator has no entries.                                                *)
LEMMA SerialStartUp ==
    ASSUME Init
    PROVE  SerialInv /\ ((\A S \in InitialResources : OnePerPath(S)) => SharedInv)
  <1>1. PICK t \in InitialTrackers, res \in InitialResources :
           log = << [tracker |-> t, res |-> res] >>
    BY DEF Init
  <1>2. Stored = [tracker |-> t, res |-> res] /\ Len(log) = 1
    BY <1>1 DEF Stored
  <1>3. \A k \in Instance : job[k].pc = "idle"
    BY DEF Init, IdleJob
  <1>4. CASE t = NoTracker
    <2>1. ~Tracked
      BY <1>2, <1>4 DEF Tracked, NoTracker
    <2> QED
      BY <1>2, <1>3, <2>1, NoTracker_Empty
         DEF SerialInv, AloneInv, LeadInv, AliveInv, SharedInv, PathInv, NamesInv, Named,
             OnePerPath
  <1>5. CASE t # NoTracker
    <2>1. t.version = "outdated"
      BY <1>5 DEF InitialTrackers, NoTracker
    <2>2. StoredList = << >>
      <3>1. CASE t = [NoTracker EXCEPT !.exists = TRUE]
        <4>1. t.data = CustomizeLeaderTracker(<< >>)
          BY <3>1 DEF NoTracker
        <4> QED
          BY <1>2, <4>1, EmptyGood, RoundTrip DEF StoredList
      <3>2. CASE t = [NoTracker EXCEPT !.exists = TRUE, !.data = OutOfSyncData]
        <4>1. t.data = OutOfSyncData
          BY <3>2 DEF NoTracker
        <4>2. ~InSync(OutOfSyncData)
          BY OutOfSync
        <4> QED
          BY <1>2, <4>1, <4>2 DEF StoredList
      <3> QED
        BY <1>5, <3>1, <3>2 DEF InitialTrackers
    <2>3. NamesOf(StoredList) = {} /\ OwnersOf(StoredList) = {}
      BY <2>2, EmptyShape
    <2> QED
      BY <1>2, <1>3, <2>1, <2>3
         DEF SerialInv, AloneInv, LeadInv, AliveInv, SharedInv, PathInv, NamesInv, Named,
             OnePerPath
  <1> QED
    BY <1>4, <1>5

(* Every step there is.                                                    *)
LEMMA SerialNext ==
    ASSUME IInv, SerialInv, MaxConcurrentReconciles = 1, MaxLag = 0, [Next]_vars
    PROVE  SerialInv' /\ (SharedInv => SharedInv')
  <1>1. LogGood /\ JobsGood /\ RestGood
    BY Parts
  <1>2. CASE Next
    <2>1. CASE \E i \in Instance : StartReconcile(i) \/ StartFinalize(i)
      BY <1>1, <2>1, SerialStart
    <2>2. CASE \E i \in Instance : Step(i)
      BY <1>1, <2>2, SerialStep
    <2>3. CASE (\E i \in Instance : ApiError(i)) \/ RestartOperator \/ DeliverEvent
      BY <1>1, <2>3, SerialFaults
    <2>4. CASE (\E i \in Instance : User(i)) \/ (\E n \in Name : DeleteSharedResource(n))
      BY <1>1, <2>4, SerialUsers
    <2> QED
      BY <1>2, <2>1, <2>2, <2>3, <2>4 DEF Next
  <1>3. CASE UNCHANGED vars
    <2>1. UNCHANGED << log, life, job, faults >>
      BY <1>3 DEF vars
    <2>2. /\ Stored' = Stored /\ StoredList' = StoredList /\ Tracked' = Tracked
          /\ Len(log') = Len(log)
      BY <2>1, SameLog
    <2>3. AloneInv' /\ AliveInv'
      BY <2>1, <2>2 DEF SerialInv, AloneInv, AliveInv
    <2>4. \A k \in Instance : LeadInv(k)'
      BY <2>1, <2>2 DEF SerialInv, LeadInv, Election, CallName, CallPath
    <2>5. (\A k \in Instance : NamesInv(k)) => \A k \in Instance : NamesInv(k)'
      BY <2>1, <2>2 DEF NamesInv, CallName
    <2>6. PathInv => PathInv'
      BY <2>2 DEF PathInv
    <2> QED
      BY <2>3, <2>4, <2>5, <2>6 DEF SerialInv, SharedInv
  <1> QED
    BY <1>2, <1>3

-----------------------------------------------------------------------------
(* The theorems.                                                           *)

(* One reconcile at a time, with the cache up to date, finds what it has   *)
(* read of leaders unchanged when it writes, whatever fails in between.    *)
THEOREM Serially ==
    ASSUME MaxConcurrentReconciles = 1, MaxLag = 0
    PROVE  Spec => []SerialInv
  <1>1. Init => SerialInv
    BY SerialStartUp
  <1>2. IInv /\ SerialInv /\ [Next]_vars => SerialInv'
    BY SerialNext
  <1> QED
    BY <1>1, <1>2, Invariance, PTL DEF Spec

(* A Secret is then created only by the instance the stored tracker names  *)
(* as its leader: the read of reconcileLeader and the CreateOrUpdate that  *)
(* follows are several calls apart, but nobody writes between them.        *)
THEOREM OnlyLeadersCreate ==
    ASSUME MaxConcurrentReconciles = 1, MaxLag = 0
    PROVE  Spec => []CreatesOnlyAsLeader
  <1>1. SerialInv => CreatesOnlyAsLeader
    BY DEF SerialInv, LeadInv, Leads, CreatesOnlyAsLeader
  <1> QED
    BY <1>1, Serially, PTL

(* And, while no call fails and the operator does not restart, an instance *)
(* that is gone is no leader any more: its finalizer has taken it out of   *)
(* the tracker, and nothing has put it back.                               *)
THEOREM DeadOwnNothing ==
    ASSUME MaxConcurrentReconciles = 1, MaxLag = 0, MaxFaults = 0
    PROVE  Spec => []NoDeadOwner
  <1>1. IInv /\ SerialInv => NoDeadOwner
    <2>1. IInv => faults = 0
      BY DEF IInv, TypeOK
    <2> QED
      BY <2>1 DEF SerialInv, AliveInv, NoDeadOwner
  <1> QED
    BY <1>1, Invariance, Serially, PTL

-----------------------------------------------------------------------------
(* Who leads what, as pairs (Leadership).                                  *)

(* The pairs are the entries that have an owner.                           *)
LEMMA LedMember ==
    ASSUME NEW list, NEW i, NEW n
    PROVE  << i, n >> \in LedIn(list) <=> i # "" /\ Leads(i, n, list)
  BY DEF LedIn, EntriesOf, Leads

(* In a list of entries they are pairs of an instance and a name.          *)
LEMMA LedType ==
    ASSUME NEW list \in Seq(Entry)
    PROVE  LedIn(list) \in SUBSET (Instance \X Name)
  <1>1. \A k \in DOMAIN list : list[k] \in Entry
    BY LenProperties, ElementOfSeq
  <1>2. \A k \in DOMAIN list : list[k].owner # "" =>
           list[k].owner \in Instance /\ list[k].name \in Name
    BY <1>1 DEF Entry, Owner
  <1> SUFFICES ASSUME NEW p \in LedIn(list) PROVE p \in Instance \X Name
    OBVIOUS
  <1>3. PICK k \in DOMAIN list : list[k].owner # "" /\ p = << list[k].owner, list[k].name >>
    BY Zenon DEF LedIn, EntriesOf
  <1> DEFINE i == list[k].owner
             n == list[k].name
  <1>4. i \in Instance /\ n \in Name /\ p = << i, n >>
    BY <1>2, <1>3, Zenon
  <1> HIDE DEF i, n
  <1> QED
    BY <1>4

(* Sets of such pairs are compared pair by pair.                           *)
LEMMA SamePairs ==
    ASSUME NEW A \in SUBSET (Instance \X Name), NEW B \in SUBSET (Instance \X Name),
           \A i \in Instance : \A n \in Name : << i, n >> \in A <=> << i, n >> \in B
    PROVE  A = B
  OBVIOUS

LEMMA LedIs ==
    ASSUME NEW list \in Seq(Entry), NEW B \in SUBSET (Instance \X Name),
           \A i \in Instance : \A n \in Name : Leads(i, n, list) <=> << i, n >> \in B
    PROVE  LedIn(list) = B
  <1>1. \A i \in Instance : i # ""
    BY InstanceAssumption
  <1>2. \A i \in Instance : \A n \in Name : << i, n >> \in LedIn(list) <=> << i, n >> \in B
    BY <1>1, LedMember
  <1> QED
    BY <1>2, LedType, SamePairs

(* Who is no owner leads nothing.                                          *)
LEMMA LedByOwners ==
    ASSUME NEW list, NEW i \in Instance, NEW n, << i, n >> \in LedIn(list)
    PROVE  i \in OwnersOf(list)
  <1>1. i # "" /\ Leads(i, n, list)
    BY LedMember
  <1> QED
    BY <1>1, Zenon DEF Leads, OwnersOf

(* With no owner nobody leads.                                             *)
LEMMA LedNone ==
    ASSUME NEW list \in Seq(Entry), OwnersOf(list) = {}
    PROVE  LedIn(list) = {}
  <1>1. LedIn(list) \in SUBSET (Instance \X Name)
    BY LedType
  <1>2. \A i \in Instance : \A n \in Name : << i, n >> \notin LedIn(list)
    BY LedByOwners
  <1> HIDE DEF LedIn
  <1> QED
    BY <1>1, <1>2, SamePairs

(* With one owner at most, only that one does.                             *)
LEMMA LedByOne ==
    ASSUME NEW list \in Seq(Entry), NEW i \in Instance, OwnersOf(list) \subseteq {i}
    PROVE  LedIn(list) \ ({i} \X Name) = {}
  <1>1. LedIn(list) \in SUBSET (Instance \X Name)
    BY LedType
  <1>2. \A j \in Instance : \A n \in Name : << j, n >> \in LedIn(list) => j = i
    BY LedByOwners
  <1> QED
    BY <1>1, <1>2

(* One that is removed leads nothing, and the others what they led.        *)
LEMMA RemovalLed ==
    ASSUME NEW list \in Seq(Entry), GoodList(list), NEW i \in Instance
    PROVE  LedIn(Removal(list, i)) = LedIn(list) \ ({i} \X Name)
  <1> DEFINE new == Removal(list, i)
             B == LedIn(list) \ ({i} \X Name)
  <1>1. new \in Seq(Entry)
    BY RemovalGood DEF Removal
  <1>2. DOMAIN new = DOMAIN list
    BY RemovalShape
  <1>3. \A k \in DOMAIN list :
           /\ new[k].name = list[k].name
           /\ new[k].owner = IF list[k].owner = i THEN "" ELSE list[k].owner
    BY RemovalShape
  <1>4. B \in SUBSET (Instance \X Name)
    BY LedType
  <1> HIDE DEF new
  <1>5. ASSUME NEW j \in Instance, NEW m \in Name
        PROVE  Leads(j, m, new) <=> << j, m >> \in B
    <2>1. j # ""
      BY InstanceAssumption
    <2>2. << j, m >> \in B <=> Leads(j, m, list) /\ j # i
      BY <2>1, LedMember
    <2>3. Leads(j, m, new) <=> Leads(j, m, list) /\ j # i
      BY <1>2, <1>3, <2>1 DEF Leads
    <2> QED
      BY <2>2, <2>3
  <1> HIDE DEF B
  <1>6. LedIn(new) = B
    BY <1>1, <1>4, <1>5, LedIs
  <1> QED
    BY <1>6 DEF new, B

(* One that asks for a name no longer leads its alternatives.              *)
LEMMA ClearedLeads ==
    ASSUME NEW list \in Seq(Entry), GoodList(list), NEW i \in Instance, NEW path \in Path,
           NEW j \in Instance, NEW m
    PROVE  Leads(j, m, Cleared(list, i, path))
             <=> Leads(j, m, list) /\ ~(j = i /\ LastPathParent[PathOf[m]] = LastPathParent[path])
  <1> DEFINE new == Cleared(list, i, path)
  <1>1. DOMAIN new = DOMAIN list
    BY ClearedShape
  <1>2. \A k \in DOMAIN list :
           /\ new[k].name = list[k].name
           /\ new[k].owner = IF list[k].owner = i /\ SharesLastPathParent(path, list[k].path)
                             THEN "" ELSE list[k].owner
    BY ClearedShape
  <1>3. \A k \in DOMAIN list : SharesLastPathParent(path, list[k].path)
           <=> LastPathParent[PathOf[list[k].name]] = LastPathParent[path]
    BY DEF GoodList, SharesLastPathParent
  <1>4. j # ""
    BY InstanceAssumption
  <1> HIDE DEF new
  <1>5. Leads(j, m, new)
          <=> Leads(j, m, list) /\ ~(j = i /\ LastPathParent[PathOf[m]] = LastPathParent[path])
    <2> DEFINE P(k) == SharesLastPathParent(path, list[k].path)
    <2>1. \A k \in DOMAIN list :
             new[k].name = list[k].name /\ (new[k].owner = j <=> list[k].owner = j /\ ~(j = i /\ P(k)))
      BY <1>2, <1>4
    <2> HIDE DEF P
    <2>2. \A k \in DOMAIN list :
             P(k) <=> LastPathParent[PathOf[list[k].name]] = LastPathParent[path]
      BY <1>3 DEF P
    <2> QED
      BY <1>1, <2>1, <2>2 DEF Leads
  <1> QED
    BY <1>5 DEF new

(* An entry that is added, or that had no owner, makes the instance lead   *)
(* the name and changes nothing else.                                      *)
LEMMA AddedLeads ==
    ASSUME NEW list \in Seq(Entry), GoodList(list), NEW i \in Instance, NEW name \in Name,
           NEW path \in Path, NEW j \in Instance, NEW m
    PROVE  Leads(j, m, Added(list, i, name, path))
             <=> Leads(j, m, Cleared(list, i, path)) \/ (j = i /\ m = name)
  <1> DEFINE cleared == Cleared(list, i, path)
             newLeader == [name |-> name, owner |-> i, path |-> path]
             new == Append(cleared, newLeader)
  <1>1. newLeader \in Entry /\ newLeader.name = name /\ newLeader.owner = i
    BY DEF Entry, Owner
  <1>2. cleared \in Seq(Entry)
    BY ClearedShape
  <1>3. Len(cleared) \in Nat /\ DOMAIN cleared = 1 .. Len(cleared)
    BY <1>2, LenProperties
  <1> HIDE DEF cleared, newLeader
  <1>4. /\ DOMAIN new = 1 .. Len(cleared) + 1
        /\ new[Len(cleared) + 1] = newLeader
        /\ \A k \in 1 .. Len(cleared) : new[k] = cleared[k]
    BY <1>1, <1>2, <1>3
  <1> HIDE DEF new
  <1>5. \A k : k \in DOMAIN new <=> k \in DOMAIN cleared \/ k = Len(cleared) + 1
    BY <1>3, <1>4
  <1>6. \A k \in DOMAIN cleared : new[k] = cleared[k]
    BY <1>3, <1>4
  <1>7. Leads(j, m, new) <=> Leads(j, m, cleared) \/ (j = i /\ m = name)
    BY <1>1, <1>4, <1>5, <1>6, Zenon DEF Leads
  <1> QED
    BY <1>7 DEF new, cleared, newLeader, Added

LEMMA TakenLeads ==
    ASSUME NEW list \in Seq(Entry), GoodList(list), NEW i \in Instance, NEW name \in Name,
           NEW path \in Path, NEW index \in DOMAIN list, list[index].name = name,
           list[index].owner \notin Instance, NEW j \in Instance, NEW m
    PROVE  Leads(j, m, Taken(list, i, path, index))
             <=> Leads(j, m, Cleared(list, i, path)) \/ (j = i /\ m = name)
  <1> DEFINE cleared == Cleared(list, i, path)
             new == Taken(list, i, path, index)
  <1>1. /\ DOMAIN cleared = DOMAIN list
        /\ cleared[index].owner # j
    <2>1. cleared[index].owner = list[index].owner
      BY ClearedShape, Zenon
    <2> QED
      BY <2>1, ClearedShape
  <1>2. list[index] \in Entry
    BY ElementOfSeq
  <1>3. SetOwner(list[index], i).name = name /\ SetOwner(list[index], i).owner = i
    BY <1>2 DEF SetOwner, Entry
  <1> HIDE DEF cleared
  <1>4. /\ DOMAIN new = DOMAIN list
        /\ new[index].name = name /\ new[index].owner = i
        /\ \A k \in DOMAIN list : k # index => new[k] = cleared[k]
    BY <1>3 DEF Taken, cleared
  <1> HIDE DEF new
  <1>5. Leads(j, m, new) <=> Leads(j, m, cleared) \/ (j = i /\ m = name)
    BY <1>1, <1>4, Zenon DEF Leads
  <1> QED
    BY <1>5 DEF new, cleared

(* What an election changes of who leads what: nothing, if the instance    *)
(* led already, or it gives up what it leads of the alternatives, and in   *)
(* case nobody leads the name gets it.                                     *)
GivenUp(list, i, n) == LedIn(list) \ ({i} \X Promise!Rivals(n))

LEMMA GivenUpMember ==
    ASSUME NEW list \in Seq(Entry), NEW i \in Instance, NEW n \in Name,
           NEW j \in Instance, NEW m \in Name
    PROVE  << j, m >> \in GivenUp(list, i, n)
             <=> /\ Leads(j, m, list)
                 /\ ~(j = i /\ LastPathParent[PathOf[m]] = LastPathParent[PathOf[n]])
  <1>1. << j, m >> \in LedIn(list) <=> Leads(j, m, list)
    BY LedMember, InstanceAssumption
  <1>2. m \in Promise!Rivals(n) <=> LastPathParent[PathOf[m]] = LastPathParent[PathOf[n]]
    BY DEF Promise!Rivals
  <1> QED
    BY <1>1, <1>2 DEF GivenUp

LEMMA ElectionLed ==
    ASSUME NEW list \in Seq(Entry), GoodList(list), NEW i \in Instance, NEW n \in Name,
           NEW r, r.list \in Seq(Entry), PathOf[n] \in Path, Elects(list, i, n, PathOf[n], r)
    PROVE  \/ LedIn(r.list) = LedIn(list)
           \/ /\ \E j \in Instance \ {i} : << j, n >> \in LedIn(list)
              /\ LedIn(r.list) = GivenUp(list, i, n)
           \/ /\ \A j \in Instance : << j, n >> \notin LedIn(list)
              /\ LedIn(r.list) = GivenUp(list, i, n) \union {<< i, n >>}
  <1> DEFINE path == PathOf[n]
             none == GivenUp(list, i, n)
             taken == none \union {<< i, n >>}
  <1>1. none \in SUBSET (Instance \X Name) /\ taken \in SUBSET (Instance \X Name)
    BY LedType DEF GivenUp
  <1>2. \A j \in Instance : \A m \in Name :
           << j, m >> \in none <=> Leads(j, m, Cleared(list, i, path))
    <2> SUFFICES ASSUME NEW j \in Instance, NEW m \in Name
                 PROVE  << j, m >> \in none <=> Leads(j, m, Cleared(list, i, path))
      OBVIOUS
    <2>1. << j, m >> \in GivenUp(list, i, n)
            <=> /\ Leads(j, m, list)
                /\ ~(j = i /\ LastPathParent[PathOf[m]] = LastPathParent[PathOf[n]])
      BY GivenUpMember
    <2>2. Leads(j, m, Cleared(list, i, path))
            <=> /\ Leads(j, m, list)
                /\ ~(j = i /\ LastPathParent[PathOf[m]] = LastPathParent[path])
      BY ClearedLeads
    <2> QED
      BY <2>1, <2>2
  <1>3. \A j \in Instance : \A m \in Name :
           << j, m >> \in taken <=> Leads(j, m, Cleared(list, i, path)) \/ (j = i /\ m = n)
    BY <1>2
  <1>4. \A j \in Instance : << j, n >> \in LedIn(list) <=> Leads(j, n, list)
    BY LedMember, InstanceAssumption
  <1> HIDE DEF none, taken
  <1>5. CASE /\ \A k \in DOMAIN list : list[k].name # n
             /\ r.list = Added(list, i, n, path)
    <2>1. \A j \in Instance : \A m \in Name : Leads(j, m, r.list) <=> << j, m >> \in taken
      <3> SUFFICES ASSUME NEW j \in Instance, NEW m \in Name
                   PROVE  Leads(j, m, Added(list, i, n, path)) <=> << j, m >> \in taken
        BY <1>5
      <3>1. Leads(j, m, Added(list, i, n, path))
              <=> Leads(j, m, Cleared(list, i, path)) \/ (j = i /\ m = n)
        BY AddedLeads
      <3> QED
        BY <1>3, <3>1
    <2>2. LedIn(r.list) = taken
      BY <1>1, <2>1, LedIs
    <2>3. \A j \in Instance : << j, n >> \notin LedIn(list)
      BY <1>4, <1>5 DEF Leads
    <2> QED
      BY <2>2, <2>3 DEF taken, none
  <1>6. ASSUME NEW index \in DOMAIN list, list[index].name = n,
               \A k \in DOMAIN list : list[k].name = n => k = index
        PROVE  /\ list[index].owner \in Instance \ {i} /\ r.list = Cleared(list, i, path)
                    => /\ \E j \in Instance \ {i} : << j, n >> \in LedIn(list)
                       /\ LedIn(r.list) = none
               /\ list[index].owner \notin Instance /\ r.list = Taken(list, i, path, index)
                    => /\ \A j \in Instance : << j, n >> \notin LedIn(list)
                       /\ LedIn(r.list) = taken
    <2>1. ASSUME list[index].owner \in Instance \ {i}, r.list = Cleared(list, i, path)
          PROVE  (\E j \in Instance \ {i} : << j, n >> \in LedIn(list)) /\ LedIn(r.list) = none
      <3>1. Leads(list[index].owner, n, list)
        BY <1>6 DEF Leads
      <3>2. LedIn(r.list) = none
        <4>1. \A j \in Instance : \A m \in Name : Leads(j, m, r.list) <=> << j, m >> \in none
          BY <1>2, <2>1
        <4> QED
          BY <1>1, <4>1, LedIs
      <3> QED
        BY <1>4, <2>1, <3>1, <3>2
    <2>2. ASSUME list[index].owner \notin Instance, r.list = Taken(list, i, path, index)
          PROVE  (\A j \in Instance : << j, n >> \notin LedIn(list)) /\ LedIn(r.list) = taken
      <3>1. \A j \in Instance : ~Leads(j, n, list)
        BY <1>6, <2>2, Zenon DEF Leads
      <3>2. \A j \in Instance : \A m \in Name : Leads(j, m, r.list) <=> << j, m >> \in taken
        <4> SUFFICES ASSUME NEW j \in Instance, NEW m \in Name
                     PROVE  Leads(j, m, Taken(list, i, path, index)) <=> << j, m >> \in taken
          BY <2>2
        <4>1. Leads(j, m, Taken(list, i, path, index))
                <=> Leads(j, m, Cleared(list, i, path)) \/ (j = i /\ m = n)
          BY <1>6, <2>2, TakenLeads
        <4> QED
          BY <1>3, <4>1
      <3>3. LedIn(r.list) = taken
        BY <1>1, <3>2, LedIs
      <3> QED
        BY <1>4, <3>1, <3>3
    <2> QED
      BY <2>1, <2>2
  <1>7. CASE \E index \in DOMAIN list :
                /\ list[index].name = n
                /\ \A k \in DOMAIN list : list[k].name = n => k = index
                /\ \/ list[index].owner = i /\ r.list = list
                   \/ /\ list[index].owner \in Instance \ {i} /\ r.leader # i
                      /\ r.list = Cleared(list, i, path)
                   \/ list[index].owner = "" /\ r.list = Taken(list, i, path, index)
    <2>1. PICK index \in DOMAIN list :
                /\ list[index].name = n
                /\ \A k \in DOMAIN list : list[k].name = n => k = index
                /\ \/ list[index].owner = i /\ r.list = list
                   \/ /\ list[index].owner \in Instance \ {i} /\ r.leader # i
                      /\ r.list = Cleared(list, i, path)
                   \/ list[index].owner = "" /\ r.list = Taken(list, i, path, index)
      BY <1>7
    <2>2. CASE r.list = list
      BY <2>2
    <2>3. CASE list[index].owner \in Instance \ {i} /\ r.list = Cleared(list, i, path)
      BY <1>6, <2>1, <2>3, Zenon DEF none
    <2>4. CASE list[index].owner = "" /\ r.list = Taken(list, i, path, index)
      <3>1. list[index].owner \notin Instance
        BY <2>4, InstanceAssumption
      <3> QED
        BY <1>6, <2>1, <2>4, <3>1, Zenon DEF taken, none
    <2> QED
      BY <2>1, <2>2, <2>3, <2>4
  <1> QED
    BY <1>5, <1>7 DEF Elects

-----------------------------------------------------------------------------
(* Every step as one of Leadership.                                        *)

(* What a step may make of the stored Secrets: nothing, a Secret less, one *)
(* more that its leader has created, an end or a beginning of the tracker  *)
(* that deposes one instance at most, or the list a reconcile has to save. *)
StoredSame == Stored'.res = Stored.res /\ StoredList' = StoredList

StoredLess == \E n \in Name : Stored'.res = Stored.res \ {n} /\ StoredList' = StoredList

StoredMore ==
    \E i \in Instance : \E n \in Name :
        /\ Leads(i, n, StoredList) /\ Tracked /\ job[i].pc \in Named
        /\ n \notin Stored.res /\ Stored'.res = Stored.res \union {n}
        /\ StoredList' = StoredList

StoredLeaderless ==
    \E i \in Instance :
        /\ OwnersOf(StoredList) \subseteq {i}
        /\ OwnersOf(StoredList') = {} /\ StoredList' \in Seq(Entry)
        /\ Stored'.res = Stored.res

StoredSaved ==
    \E i \in Instance :
        /\ job[i].pc \in {"leadSave", "removeSave"} /\ StoredList' = job[i].list
        /\ Stored'.res = Stored.res

(* A deleted tracker deposes nobody but whom the reconcile removes.        *)
LEMMA DeletedStep ==
    ASSUME LogGood, MaxLag = 0, DeleteTracker, NEW i \in Instance,
           OwnersOf(StoredList) \subseteq {i}
    PROVE  StoredLeaderless
  <1>1. Stored'.res = Stored.res /\ StoredList' = << >>
    BY Deleted
  <1>2. OwnersOf(StoredList') = {} /\ StoredList' \in Seq(Entry)
    BY <1>1, EmptyShape, EmptyGood
  <1> QED
    BY <1>1, <1>2 DEF StoredLeaderless

LEMMA SaveStep ==
    ASSUME LogGood, JobsGood, SerialInv, MaxLag = 0, NEW i \in Instance,
           job[i].pc \in {"leadSave", "removeSave"}, SaveSucceeds(job[i].list)
    PROVE  StoredSaved
  <1>1. Len(log) = 1 /\ job[i].list \in Seq(Entry)
    BY DEF SerialInv, AloneInv, JobsGood, Job
  <1>2. Stored'.res = Stored.res /\ StoredList' = job[i].list
    BY <1>1, Saved
  <1> QED
    BY <1>2 DEF StoredSaved

(* The tracker is created without leaders.                                 *)
LEMMA CreatedStep ==
    ASSUME LogGood, JobsGood, SerialInv, MaxLag = 0, NEW i \in Instance,
           CreateLeaderTracker(i)
    PROVE  StoredSame \/ StoredLeaderless
  <1> DEFINE t == [exists |-> TRUE, version |-> "current",
                   data |-> CustomizeLeaderTracker(job[i].list)]
             s == [Stored EXCEPT !.tracker = t]
  <1>1. /\ job[i].pc = "create" /\ Len(log) = 1
        /\ ~Stored.tracker.exists /\ OwnersOf(job[i].list) = {}
    BY DEF CreateLeaderTracker, SerialInv, AloneInv, LeadInv
  <1>2. Cached = Stored
    BY <1>1, OneState
  <1>3. ~SaveSucceeds(job[i].list)
    BY <1>1, <1>2 DEF SaveSucceeds, SaveNothing, SaveUpdate
  <1>4. job[i].list \in Seq(Entry)
    BY DEF JobsGood, Job
  <1>5. /\ s.res = Stored.res /\ s.tracker.exists
        /\ s.tracker.data = CustomizeLeaderTracker(job[i].list)
    BY EndsGood DEF Snapshot
  <1>6. Push(s) \/ UNCHANGED log
    BY <1>3 DEF CreateLeaderTracker
  <1> HIDE DEF s
  <1>7. CASE UNCHANGED log
    BY <1>7, SameLog DEF StoredSame
  <1>8. CASE Push(s)
    <2>1. Stored' = s /\ StoredList' = job[i].list
      BY <1>4, <1>5, <1>8, StoredAs
    <2>2. OwnersOf(StoredList) = {}
      BY <1>1, NoTracker_Empty DEF Tracked
    <2>3. OwnersOf(StoredList') = {} /\ StoredList' \in Seq(Entry) /\ Stored'.res = Stored.res
      BY <1>1, <1>4, <1>5, <2>1
    <2> QED
      BY <2>2, <2>3 DEF StoredLeaderless
  <1> QED
    BY <1>6, <1>7, <1>8

LEMMA CreatesStep ==
    ASSUME LogGood, JobsGood, SerialInv, MaxLag = 0, NEW i \in Instance,
           CreateLTPAKey(i) \/ CreateLTPAConfig(i)
    PROVE  StoredSame \/ StoredMore
  <1>1. ASSUME NEW n \in Name, NEW next, CreateResource(i, n, next),
               Leads(i, n, StoredList), job[i].pc \in Named
        PROVE  StoredSame \/ StoredMore
    <2> DEFINE s == [Stored EXCEPT !.res = @ \union {n}]
    <2>1. s.res = Stored.res \union {n} /\ s.tracker = Stored.tracker
      BY EndsGood DEF Snapshot
    <2>2. \/ UNCHANGED log
          \/ Push(s) /\ n \notin Stored.res
      BY <1>1 DEF CreateResource
    <2>3. Tracked
      BY <1>1 DEF SerialInv, LeadInv
    <2> HIDE DEF s
    <2>4. CASE UNCHANGED log
      BY <2>4, SameLog DEF StoredSame
    <2>5. CASE Push(s) /\ n \notin Stored.res
      <3>1. Stored'.res = Stored.res \union {n} /\ StoredList' = StoredList
        BY <2>1, <2>5, OnlyResources
      <3> QED
        BY <1>1, <2>3, <2>5, <3>1 DEF StoredMore
    <2> QED
      BY <2>2, <2>4, <2>5
  <1>2. CASE CreateLTPAKey(i)
    <2>1. /\ job[i].pc = "keyCreate" /\ job[i].key \in Name
          /\ CreateResource(i, job[i].key, "configKeyGet")
          /\ Leads(i, job[i].key, StoredList)
      BY <1>2 DEF CreateLTPAKey, SerialInv, LeadInv, JobsGood, GoodJob, Named
    <2> QED
      BY <1>1, <2>1 DEF Named
  <1>3. CASE CreateLTPAConfig(i)
    <2>1. /\ job[i].pc = "configCreate" /\ job[i].config \in Name
          /\ CreateResource(i, job[i].config, "idle")
          /\ Leads(i, job[i].config, StoredList)
      BY <1>3 DEF CreateLTPAConfig, SerialInv, LeadInv, JobsGood, GoodJob, Named
    <2> QED
      BY <1>1, <2>1 DEF Named
  <1> QED
    BY <1>2, <1>3

LEMMA LessStep ==
    ASSUME LogGood, MaxLag = 0, NEW n \in Name, Push([Stored EXCEPT !.res = @ \ {n}])
    PROVE  StoredLess
  <1> DEFINE s == [Stored EXCEPT !.res = @ \ {n}]
  <1>1. s.res = Stored.res \ {n} /\ s.tracker = Stored.tracker
    BY EndsGood DEF Snapshot
  <1>2. Push(s)
    OBVIOUS
  <1> HIDE DEF s
  <1> QED
    BY <1>1, <1>2, OnlyResources DEF StoredLess

(* Deleting: a tracker that cannot be read, one of an older operator, one  *)
(* that would name nobody, a configuration and, by a user, any Secret.     *)
LEMMA DeletesStep ==
    ASSUME LogGood, JobsGood, SerialInv, PathInv, MaxLag = 0, NEW i \in Instance,
           \/ DeleteOutOfSync(i) \/ RemoveLeaderDelete(i)
           \/ ReconcileLeaderTracker(i) \/ DeleteOutdatedConfig(i)
    PROVE  StoredSame \/ StoredLess \/ StoredLeaderless
  <1>1. Cached = Stored
    BY OneState DEF SerialInv, AloneInv
  <1>2. CASE UNCHANGED log
    BY <1>2, SameLog DEF StoredSame
  <1>3. CASE DeleteOutOfSync(i)
    <2>1. DeleteTracker /\ ~Tracked
      BY <1>1, <1>3 DEF DeleteOutOfSync, Tracked
    <2> QED
      BY <2>1, DeletedStep, NoTracker_Empty
  <1>4. CASE RemoveLeaderDelete(i)
    <2>1. OwnersOf(StoredList) \subseteq {i}
      BY <1>4 DEF RemoveLeaderDelete, SerialInv, LeadInv
    <2> QED
      BY <1>2, <1>4, <2>1, DeletedStep DEF RemoveLeaderDelete
  <1>5. CASE ReconcileLeaderTracker(i)
    <2>1. \/ UNCHANGED log
          \/ DeleteTracker /\ Stored.tracker.version # "current"
      BY <1>1, <1>5 DEF ReconcileLeaderTracker
    <2>2. Stored.tracker.version # "current" => OwnersOf(StoredList) = {}
      BY DEF PathInv
    <2> QED
      BY <1>2, <2>1, <2>2, DeletedStep
  <1>6. CASE DeleteOutdatedConfig(i)
    <2>1. job[i].pc = "configDelete"
      BY <1>6 DEF DeleteOutdatedConfig
    <2>2. \/ UNCHANGED log
          \/ Push([Stored EXCEPT !.res = @ \ {job[i].config}]) /\ job[i].config \in Stored.res
      BY <1>6 DEF DeleteOutdatedConfig
    <2>3. Stored.res \subseteq Name
      BY EndsGood DEF Snapshot
    <2> QED
      BY <1>2, <2>2, <2>3, LessStep
  <1> QED
    BY <1>3, <1>4, <1>5, <1>6

LEMMA StoredStep ==
    ASSUME LogGood, JobsGood, SerialInv, PathInv, MaxLag = 0, Next
    PROVE  StoredSame \/ StoredLess \/ StoredMore \/ StoredLeaderless \/ StoredSaved
  <1>1. CASE UNCHANGED log
    BY <1>1, SameLog DEF StoredSame
  <1>2. CASE RestartOperator
    <2>1. Stored' = Stored
      BY <1>2 DEF RestartOperator, Stored
    <2> QED
      BY <2>1 DEF StoredSame, StoredList
  <1>3. ~DeliverEvent
    BY DEF DeliverEvent, SerialInv, AloneInv
  <1>4. CASE \E n \in Name : DeleteSharedResource(n)
    BY <1>4, LessStep DEF DeleteSharedResource
  <1>5. CASE \E i \in Instance : SaveLeader(i) \/ RemoveLeaderSave(i)
    BY <1>1, <1>5, SaveStep DEF SaveLeader, RemoveLeaderSave
  <1>6. CASE \E i \in Instance : CreateLeaderTracker(i) \/ CreateLTPAKey(i) \/ CreateLTPAConfig(i)
    BY <1>6, CreatedStep, CreatesStep
  <1>7. CASE \E i \in Instance : \/ DeleteOutOfSync(i) \/ RemoveLeaderDelete(i)
                                \/ ReconcileLeaderTracker(i) \/ DeleteOutdatedConfig(i)
    BY <1>7, DeletesStep
  <1>8. ASSUME NEW i \in Instance,
               \/ CreateNewLeaderTrackerList(i) \/ ReconcileMetadataKey(i)
               \/ ReconcileMetadataConfig(i) \/ WaitForLeaderTracker(i)
               \/ GenerateLTPAKeys(i) \/ GenerateLTPAConfig(i) \/ GetLTPAConfig(i)
               \/ ReconcileLeader(i) \/ RemoveLeader(i) \/ DropFinalizer(i)
               \/ StartReconcile(i) \/ StartFinalize(i) \/ ApiError(i) \/ User(i)
        PROVE  UNCHANGED log
    BY <1>8 DEF CreateNewLeaderTrackerList, ReconcileMetadataKey, ReconcileMetadataConfig,
                WaitForLeaderTracker, GenerateLTPAKeys, GenerateLTPAConfig, GetLTPAConfig,
                ReconcileLeader, RemoveLeader, DropFinalizer, StartReconcile,
                StartFinalize, ApiError, User, CreateInstance, EditInstance, DeleteInstance
  <1> QED
    BY <1>1, <1>2, <1>3, <1>4, <1>5, <1>6, <1>7, <1>8 DEF Next, Step

(* Who exists changes when a custom resource is created and when it goes,  *)
(* and one that goes leads nothing unless a call has failed.               *)
Members == {i \in Instance : life[i] # "absent"}

LEMMA MemberStep ==
    ASSUME RestGood, SerialInv, Next
    PROVE  \/ UNCHANGED Members
           \/ /\ UNCHANGED log
              /\ \E i \in Instance :
                    \/ Members' = Members \union {i}
                    \/ /\ Members' = Members \ {i}
                       /\ faults = 0 => i \notin OwnersOf(StoredList)
  <1>1. CASE UNCHANGED life
    BY <1>1 DEF Members
  <1>2. ASSUME NEW i \in Instance, CreateInstance(i)
        PROVE  UNCHANGED log /\ Members' = Members \union {i}
    <2>1. life' = [life EXCEPT ![i] = "created"] /\ UNCHANGED log
      BY <1>2 DEF CreateInstance
    <2> QED
      BY <2>1 DEF RestGood, Members
  <1>3. ASSUME NEW i \in Instance, life' = [life EXCEPT ![i] = "absent"]
        PROVE  Members' = Members \ {i}
    BY <1>3 DEF RestGood, Members
  <1>4. ASSUME NEW i \in Instance, NEW to \in {"active", "deleting"}, life[i] # "absent",
               life' = [life EXCEPT ![i] = to]
        PROVE  UNCHANGED Members
    BY <1>4 DEF RestGood, Members
  <1>5. ASSUME NEW i \in Instance, DropFinalizer(i)
        PROVE  UNCHANGED log /\ Members' = Members \ {i}
               /\ (faults = 0 => i \notin OwnersOf(StoredList))
    <2>1. /\ job[i].pc = "dropFinalizer" /\ UNCHANGED log
          /\ life' = [life EXCEPT ![i] = "absent"]
      BY <1>5 DEF DropFinalizer
    <2> QED
      BY <1>3, <2>1 DEF SerialInv, AliveInv
  <1>6. ASSUME NEW i \in Instance, DeleteInstance(i)
        PROVE  \/ UNCHANGED Members
               \/ /\ UNCHANGED log /\ Members' = Members \ {i}
                  /\ faults = 0 => i \notin OwnersOf(StoredList)
    <2>1. CASE life[i] = "created" /\ life' = [life EXCEPT ![i] = "absent"]
      <3>1. faults = 0 => i \notin OwnersOf(StoredList)
        BY <2>1 DEF SerialInv, AliveInv
      <3>2. UNCHANGED log /\ Members' = Members \ {i}
        BY <1>3, <1>6, <2>1 DEF DeleteInstance
      <3> QED
        BY <3>1, <3>2
    <2>2. CASE life[i] = "active" /\ life' = [life EXCEPT ![i] = "deleting"]
      BY <1>4, <2>2
    <2> QED
      BY <1>6, <2>1, <2>2 DEF DeleteInstance
  <1>7. ASSUME NEW i \in Instance, StartReconcile(i)
        PROVE  UNCHANGED Members
    <2>1. life[i] # "absent" /\ life' = [life EXCEPT ![i] = "active"]
      BY <1>7 DEF StartReconcile
    <2> QED
      BY <1>4, <2>1
  <1>8. ASSUME NEW i \in Instance, Step(i)
        PROVE  UNCHANGED life \/ DropFinalizer(i)
    BY <1>8 DEF Step, DeleteOutOfSync, ReconcileLeaderTracker, CreateNewLeaderTrackerList,
                CreateLeaderTracker, ReconcileMetadataKey, ReconcileMetadataConfig,
                WaitForLeaderTracker, GenerateLTPAKeys, GenerateLTPAConfig, GetLTPAConfig,
                DeleteOutdatedConfig, ReconcileLeader, SaveLeader, CreateLTPAKey,
                CreateLTPAConfig, RemoveLeader, RemoveLeaderDelete, RemoveLeaderSave
  <1>9. ASSUME NEW i \in Instance, StartFinalize(i) \/ ApiError(i) \/ EditInstance(i)
        PROVE  UNCHANGED life
    BY <1>9 DEF StartFinalize, ApiError, EditInstance
  <1>10. CASE RestartOperator \/ DeliverEvent \/ \E n \in Name : DeleteSharedResource(n)
    BY <1>1, <1>10 DEF RestartOperator, DeliverEvent, DeleteSharedResource
  <1> QED
    BY <1>1, <1>2, <1>5, <1>6, <1>7, <1>8, <1>9, <1>10 DEF Next, User

(* Once a call has failed one has.                                         *)
LEMMA LostStays ==
    ASSUME RestGood, Next
    PROVE  (faults > 0)' \in {faults > 0, TRUE}
  <1>1. faults \in Nat
    BY BoundAssumption DEF RestGood
  <1>2. ASSUME NEW i \in Instance, StartReconcile(i) \/ StartFinalize(i) \/ User(i)
        PROVE  faults' = faults
    BY <1>2 DEF StartReconcile, StartFinalize, User, UserEdit, CreateInstance,
                EditInstance, DeleteInstance
  <1>3. ASSUME NEW i \in Instance, Step(i)
        PROVE  faults' = faults
    <2>1. CASE \/ DeleteOutOfSync(i) \/ ReconcileLeaderTracker(i)
               \/ CreateNewLeaderTrackerList(i) \/ CreateLeaderTracker(i)
               \/ ReconcileMetadataKey(i) \/ ReconcileMetadataConfig(i)
      BY <2>1 DEF DeleteOutOfSync, ReconcileLeaderTracker, CreateNewLeaderTrackerList,
                  CreateLeaderTracker, ReconcileMetadataKey, ReconcileMetadataConfig
    <2>2. CASE \/ WaitForLeaderTracker(i) \/ GenerateLTPAKeys(i) \/ GenerateLTPAConfig(i)
               \/ GetLTPAConfig(i) \/ DeleteOutdatedConfig(i)
      BY <2>2 DEF WaitForLeaderTracker, GenerateLTPAKeys, GenerateLTPAConfig, GetLTPAConfig,
                  DeleteOutdatedConfig
    <2>3. CASE \/ ReconcileLeader(i) \/ SaveLeader(i) \/ CreateLTPAKey(i) \/ CreateLTPAConfig(i)
      BY <2>3 DEF ReconcileLeader, SaveLeader, CreateLTPAKey, CreateLTPAConfig
    <2>4. CASE \/ RemoveLeader(i) \/ RemoveLeaderDelete(i) \/ RemoveLeaderSave(i)
               \/ DropFinalizer(i)
      BY <2>4 DEF RemoveLeader, RemoveLeaderDelete, RemoveLeaderSave, DropFinalizer
    <2> QED
      BY <1>3, <2>1, <2>2, <2>3, <2>4 DEF Step
  <1>4. ASSUME (\E i \in Instance : ApiError(i)) \/ RestartOperator
        PROVE  faults' = faults + 1
    <2>1. Fault
      BY <1>4 DEF ApiError, RestartOperator
    <2> QED
      BY <2>1 DEF Fault
  <1>5. ASSUME DeliverEvent \/ \E n \in Name : DeleteSharedResource(n)
        PROVE  faults' = faults
    BY <1>5 DEF DeliverEvent, DeleteSharedResource, UserEdit
  <1>6. faults' = faults \/ faults' = faults + 1
    BY <1>2, <1>3, <1>4, <1>5 DEF Next
  <1>7. CASE faults' = faults
    BY <1>7
  <1>8. CASE faults' = faults + 1
    <2>1. (faults > 0)' = TRUE
      BY <1>1, <1>8
    <2> QED
      BY <2>1
  <1> QED
    BY <1>6, <1>7, <1>8

(* A saved election is a Take, a Follow or no change at all.               *)
LEMMA ElectionStep ==
    ASSUME LogGood, JobsGood, SerialInv, NEW i \in Instance, job[i].pc = "leadSave",
           StoredList' = job[i].list
    PROVE  \/ LedIn(StoredList') = LedIn(StoredList)
           \/ \E n \in Name :
                 /\ \E j \in Instance \ {i} : << j, n >> \in LedIn(StoredList)
                 /\ LedIn(StoredList') = GivenUp(StoredList, i, n)
           \/ \E n \in Name :
                 /\ \A j \in Instance : << j, n >> \notin LedIn(StoredList)
                 /\ LedIn(StoredList') = GivenUp(StoredList, i, n) \union {<< i, n >>}
  <1> DEFINE n == CallName(i)
  <1>1. /\ job[i].key \in Name /\ PathOf[job[i].key] = KeyPath
        /\ job[i].config \in Name /\ PathOf[job[i].config] = job[i].conf
    BY DEF JobsGood, GoodJob, Named
  <1>2. n \in Name /\ CallPath(i) = PathOf[n]
    BY <1>1 DEF CallName, CallPath
  <1>3. PathOf[n] \in Path
    BY <1>2, NameAssumption
  <1> HIDE DEF n
  <1>4. PICK elect \in BOOLEAN : /\ Election(i, elect).saves
                                 /\ job[i].list = Election(i, elect).list
    BY DEF SerialInv, LeadInv
  <1> DEFINE r == ReconcileLeaderWithState(StoredList, i, n, PathOf[n], elect)
  <1>5. r.saves /\ job[i].list = r.list
    BY <1>2, <1>4 DEF Election, n
  <1>6. StoredList \in Seq(Entry) /\ GoodList(StoredList)
    BY StoredListGood
  <1>7. Elects(StoredList, i, n, PathOf[n], r)
    BY <1>2, <1>3, <1>5, <1>6, ElectionCases
  <1>8. r.list \in Seq(Entry)
    BY <1>5 DEF JobsGood, Job
  <1>9. StoredList' = r.list
    BY <1>5
  <1> HIDE DEF r
  <1> QED
    BY <1>2, <1>3, <1>6, <1>7, <1>8, <1>9, ElectionLed

(* What a step makes of who leads what and of the Secrets, as Leadership   *)
(* allows it.                                                              *)
LEMMA LedStep ==
    ASSUME LogGood, JobsGood, SerialInv, SharedInv, MaxLag = 0, Next, UNCHANGED Members
    PROVE  LET leads == LedIn(StoredList)
               secrets == Stored.res
           IN  \/ leads' = leads /\ secrets' = secrets
               \/ \E n \in Name : leads' = leads /\ secrets' = secrets \ {n}
               \/ \E i \in Instance : leads' = leads \ ({i} \X Name) /\ secrets' = secrets
               \/ \E n \in Name : Promise!Create(n)
               \/ \E i \in Instance, n \in Name : Promise!Take(i, n) \/ Promise!Follow(i, n)
  <1> DEFINE leads == LedIn(StoredList)
             secrets == Stored.res
  <1> SUFFICES \/ leads' = leads /\ secrets' = secrets
               \/ \E n \in Name : leads' = leads /\ secrets' = secrets \ {n}
               \/ \E i \in Instance : leads' = leads \ ({i} \X Name) /\ secrets' = secrets
               \/ \E n \in Name : Promise!Create(n)
               \/ \E i \in Instance, n \in Name : Promise!Take(i, n) \/ Promise!Follow(i, n)
    OBVIOUS
  <1>1. StoredList \in Seq(Entry) /\ GoodList(StoredList)
    BY StoredListGood
  <1>2. {i \in Instance : life[i] # "absent"}' = {i \in Instance : life[i] # "absent"}
    BY DEF Members
  <1>3. CASE StoredSame \/ StoredLess
    BY <1>3 DEF StoredSame, StoredLess
  <1>4. CASE StoredMore
    <2>1. PICK i \in Instance, n \in Name :
                 /\ Leads(i, n, StoredList) /\ Tracked /\ job[i].pc \in Named
                 /\ n \notin Stored.res /\ Stored'.res = Stored.res \union {n}
                 /\ StoredList' = StoredList
      BY <1>4 DEF StoredMore
    <2>2. Stored.tracker.version = "current"
      BY <2>1 DEF SharedInv, NamesInv
    <2>3. OnePerPath(Stored.res \union {n})
      BY <2>1, <2>2, TrackedLeader
    <2>4. << i, n >> \in leads
      BY <2>1, LedMember, InstanceAssumption
    <2>5. leads' = leads
      BY <2>1
    <2>6. Promise!Create(n)
      BY <1>2, <2>1, <2>3, <2>4, <2>5 DEF Promise!Create, Promise!OnePerPath, OnePerPath
    <2> QED
      BY <2>6
  <1>5. CASE StoredLeaderless
    <2>1. PICK i \in Instance :
                 /\ OwnersOf(StoredList) \subseteq {i}
                 /\ OwnersOf(StoredList') = {} /\ StoredList' \in Seq(Entry)
                 /\ Stored'.res = Stored.res
      BY <1>5 DEF StoredLeaderless
    <2>2. leads' = {}
      BY <2>1, LedNone
    <2>3. leads \ ({i} \X Name) = {}
      BY <1>1, <2>1, LedByOne
    <2> QED
      BY <2>1, <2>2, <2>3
  <1>6. CASE StoredSaved
    <2>1. PICK i \in Instance :
                 /\ job[i].pc \in {"leadSave", "removeSave"} /\ StoredList' = job[i].list
                 /\ Stored'.res = Stored.res
      BY <1>6 DEF StoredSaved
    <2>2. CASE job[i].pc = "removeSave"
      <3>1. StoredList' = Removal(StoredList, i)
        BY <2>1, <2>2 DEF SerialInv, LeadInv
      <3>2. leads' = leads \ ({i} \X Name)
        BY <1>1, <3>1, RemovalLed
      <3> QED
        BY <2>1, <3>2
    <2>3. CASE job[i].pc = "leadSave"
      <3>1. i \in {k \in Instance : life[k] # "absent"}
        BY <2>3 DEF SerialInv, AloneInv
      <3>2. \/ leads' = leads
            \/ \E n \in Name :
                  /\ \E j \in Instance \ {i} : << j, n >> \in leads
                  /\ leads' = GivenUp(StoredList, i, n)
            \/ \E n \in Name :
                  /\ \A j \in Instance : << j, n >> \notin leads
                  /\ leads' = GivenUp(StoredList, i, n) \union {<< i, n >>}
        BY <2>1, <2>3, ElectionStep
      <3>3. secrets' = secrets
        BY <2>1
      <3>4. CASE leads' = leads
        BY <3>3, <3>4
      <3>5. ASSUME NEW n \in Name, \E j \in Instance \ {i} : << j, n >> \in leads,
                   leads' = GivenUp(StoredList, i, n)
            PROVE  Promise!Follow(i, n)
        BY <1>2, <3>3, <3>5 DEF Promise!Follow, Promise!NowLed, GivenUp
      <3>6. ASSUME NEW n \in Name, \A j \in Instance : << j, n >> \notin leads,
                   leads' = GivenUp(StoredList, i, n) \union {<< i, n >>}
            PROVE  Promise!Take(i, n)
        BY <1>2, <3>1, <3>3, <3>6 DEF Promise!Take, Promise!NowLed, GivenUp
      <3> HIDE DEF leads, secrets
      <3> QED
        BY <3>2, <3>3, <3>4, <3>5, <3>6
    <2> QED
      BY <2>1, <2>2, <2>3
  <1>7. PathInv
    BY DEF SharedInv
  <1> HIDE DEF leads, secrets
  <1> QED
    BY <1>3, <1>4, <1>5, <1>6, <1>7, StoredStep

(* Every step of the protocol is one of Leadership.                        *)
LEMMA StepKeepsLeadership ==
    ASSUME IInv, SerialInv, SharedInv, MaxLag = 0, [Next]_vars
    PROVE  [Promise!Next]_(Promise!vars)
  <1> DEFINE member == {i \in Instance : life[i] # "absent"}
             leads == LedIn(StoredList)
             secrets == Stored.res
             lost == faults > 0
  <1>1. LogGood /\ JobsGood /\ RestGood
    BY Parts
  <1>2. CASE UNCHANGED vars
    <2>1. UNCHANGED << log, life, faults >>
      BY <1>2 DEF vars
    <2>2. UNCHANGED << member, leads, secrets, lost >>
      BY <2>1, SameLog
    <2> QED
      BY <2>2 DEF Promise!vars
  <1>3. CASE Next
    <2>1. lost' \in {lost, TRUE}
      BY <1>1, <1>3, LostStays
    <2>2. CASE UNCHANGED Members
      <3>1. member' = member
        BY <2>2 DEF Members
      <3>2. \/ leads' = leads /\ secrets' = secrets
            \/ \E n \in Name : leads' = leads /\ secrets' = secrets \ {n}
            \/ \E i \in Instance : leads' = leads \ ({i} \X Name) /\ secrets' = secrets
            \/ \E n \in Name : Promise!Create(n)
            \/ \E i \in Instance, n \in Name : Promise!Take(i, n) \/ Promise!Follow(i, n)
        BY <1>1, <1>3, <2>2, LedStep
      <3> HIDE DEF lost
      <3> QED
        BY <2>1, <3>1, <3>2 DEF Promise!Next, Promise!Remove, Promise!Resign, Promise!NowLed, lost
    <2>3. CASE /\ UNCHANGED log
               /\ \E i \in Instance :
                     \/ Members' = Members \union {i}
                     \/ /\ Members' = Members \ {i}
                        /\ faults = 0 => i \notin OwnersOf(StoredList)
      <3>1. leads' = leads /\ secrets' = secrets
        BY <2>3, SameLog
      <3>2. PICK i \in Instance :
                     \/ Members' = Members \union {i}
                     \/ /\ Members' = Members \ {i}
                        /\ faults = 0 => i \notin OwnersOf(StoredList)
        BY <2>3
      <3>3. CASE Members' = Members \union {i}
        <4>1. Promise!Enter(i)
          BY <3>1, <3>3 DEF Promise!Enter, Members
        <4> QED
          BY <2>1, <4>1 DEF Promise!Next
      <3>4. CASE /\ Members' = Members \ {i}
                 /\ faults = 0 => i \notin OwnersOf(StoredList)
        <4>1. lost \/ \A n \in Name : << i, n >> \notin leads
          <5>1. faults \in Nat
            BY <1>1, BoundAssumption DEF RestGood
          <5>2. CASE faults = 0
            BY <3>4, <5>2, LedByOwners
          <5> QED
            BY <5>1, <5>2
        <4>2. Promise!Leave(i)
          BY <3>1, <3>4, <4>1 DEF Promise!Leave, Members
        <4> QED
          BY <2>1, <4>2 DEF Promise!Next
      <3> QED
        BY <3>2, <3>3, <3>4
    <2> QED
      BY <1>1, <1>3, <2>2, <2>3, MemberStep
  <1> QED
    BY <1>2, <1>3

LEMMA InitLeadership ==
    ASSUME Init, IInv, SharedInv
    PROVE  Promise!Init
  <1>1. LogGood
    BY Parts
  <1>2. Stored.tracker.version # "current"
    <2>1. PICK t \in InitialTrackers, res \in InitialResources :
             log = << [tracker |-> t, res |-> res] >>
      BY DEF Init
    <2>2. Stored = [tracker |-> t, res |-> res]
      BY <2>1 DEF Stored
    <2>3. t.version = "outdated"
      <3>1. CASE t = NoTracker
        BY <3>1 DEF NoTracker
      <3>2. CASE t # NoTracker
        BY <3>2 DEF InitialTrackers, NoTracker
      <3> QED
        BY <3>1, <3>2
    <2> QED
      BY <2>2, <2>3
  <1>3. OwnersOf(StoredList) = {}
    BY <1>2 DEF SharedInv, PathInv
  <1>4. LedIn(StoredList) = {}
    BY <1>1, <1>3, LedNone, StoredListGood
  <1>5. Stored.res \subseteq Name
    BY <1>1, EndsGood DEF Snapshot
  <1>6. Promise!OnePerPath(Stored.res)
    BY DEF SharedInv, PathInv, OnePerPath, Promise!OnePerPath
  <1>7. (faults > 0) = FALSE
    BY DEF Init
  <1>8. {i \in Instance : life[i] # "absent"} \subseteq Instance
    OBVIOUS
  <1> QED
    BY <1>4, <1>5, <1>6, <1>7, <1>8 DEF Promise!Init

-----------------------------------------------------------------------------
(* What every step keeps.                                                  *)

(* And a Secret is created for a path only while none exists for it, if    *)
(* an earlier installation has not left two: the instances of a namespace  *)
(* share one LTPA key, although each of them may draw a suffix for it.     *)
THEOREM OneSecretPerPath ==
    ASSUME MaxConcurrentReconciles = 1, MaxLag = 0,
           \A S \in InitialResources : OnePerPath(S)
    PROVE  Spec => OneResourcePerPath
  <1> DEFINE Act == \A n \in Stored'.res \ Stored.res : \A m \in Stored.res : PathOf[n] # PathOf[m]
  <1>1. Init => SharedInv
    BY SerialStartUp
  <1>2. IInv /\ SerialInv /\ SharedInv /\ [Next]_vars => SharedInv'
    BY SerialNext
  <1>3. IInv /\ SerialInv /\ SharedInv /\ [Next]_vars => [Act]_vars
    <2> SUFFICES ASSUME IInv, SerialInv, SharedInv, Next PROVE Act
      OBVIOUS
    <2>1. LogGood /\ JobsGood /\ PathInv
      BY Parts DEF SharedInv
    <2>2. CASE Stored'.res \subseteq Stored.res
      BY <2>2
    <2>3. CASE StoredMore
      <3>1. PICK i \in Instance, n \in Name :
                  /\ Leads(i, n, StoredList) /\ Tracked
                  /\ n \notin Stored.res /\ Stored'.res = Stored.res \union {n}
                  /\ job[i].pc \in Named
        BY <2>3 DEF StoredMore
      <3>2. Stored.tracker.version = "current"
        BY <3>1 DEF SharedInv, NamesInv
      <3>3. OnePerPath(Stored.res \union {n})
        BY <3>1, <3>2, TrackedLeader
      <3> QED
        BY <3>1, <3>3 DEF OnePerPath
    <2>4. CASE StoredSame \/ StoredLess \/ StoredLeaderless \/ StoredSaved
      BY <2>2, <2>4 DEF StoredSame, StoredLess, StoredLeaderless, StoredSaved
    <2> QED
      BY <2>1, <2>3, <2>4, StoredStep
  <1>4. Spec => [][Act]_vars
    BY <1>1, <1>2, <1>3, Invariance, Serially, PTL DEF Spec
  <1> QED
    BY <1>4 DEF OneResourcePerPath

(* With one worker and an up-to-date cache, and no two Secrets left for    *)
(* one path, the protocol keeps what it is for: however reconciles, edits  *)
(* and failures follow each other, nobody takes a Secret from its leader,  *)
(* an instance leads one at most of the alternatives, one that is gone     *)
(* leads nothing unless a call failed, and a Secret is created only while  *)
(* somebody leads its name, the only one for its path (resource_sharing.go *)
(* 55-259, ltpa_keys_sharing.go).                                          *)
THEOREM ImplementsLeadership ==
    ASSUME MaxConcurrentReconciles = 1, MaxLag = 0,
           \A S \in InitialResources : OnePerPath(S)
    PROVE  Spec => KeepsLeadership
  <1>1. Init => SharedInv
    BY SerialStartUp
  <1>2. IInv /\ SerialInv /\ SharedInv /\ [Next]_vars => SharedInv'
    BY SerialNext
  <1>3. Init /\ IInv /\ SharedInv => Promise!Init
    BY InitLeadership
  <1>4. IInv /\ SerialInv /\ SharedInv /\ [Next]_vars => [Promise!Next]_(Promise!vars)
    BY StepKeepsLeadership
  <1> QED
    BY <1>1, <1>2, <1>3, <1>4, Invariance, Serially, PTL DEF Spec, KeepsLeadership, Promise!Spec

(* Every step that Leadership allows keeps what it comes to.               *)
LEMMA OrderlyStep ==
    ASSUME Promise!Orderly, [Promise!Next]_(Promise!vars)
    PROVE  Promise!Orderly'
  <1> DEFINE Led == LedIn(StoredList)
             Member == {i \in Instance : life[i] # "absent"}
             OneLeader == \A n \in Name : \A i, j \in Instance :
                             << i, n >> \in Led /\ << j, n >> \in Led => i = j
             OneRival == \A i \in Instance : \A n \in Name : \A m \in Promise!Rivals(n) :
                             << i, n >> \in Led /\ << i, m >> \in Led => m = n
             OneSecret == Promise!OnePerPath(Stored.res)
             NoneGone == \A i \in Instance, n \in Name : << i, n >> \in Led => i \in Member
  <1>1. OneLeader /\ OneRival /\ OneSecret /\ (faults > 0 \/ NoneGone)
    BY DEF Promise!Orderly
  <1>2. SUFFICES OneLeader' /\ OneRival' /\ OneSecret' /\ ((faults > 0)' \/ NoneGone')
    BY DEF Promise!Orderly, Promise!Rivals
  <1>3. \A S : (S \subseteq Stored.res => Promise!OnePerPath(S))
    BY <1>1 DEF Promise!OnePerPath
  <1>4. (faults > 0) => (faults > 0)'
    BY DEF Promise!Next, Promise!vars
  <1>5. ASSUME Led' \subseteq Led
        PROVE  OneLeader' /\ OneRival'
    BY <1>1, <1>5 DEF Promise!Rivals
  <1>6. ASSUME Led' \subseteq Led, Member \subseteq Member'
        PROVE  (faults > 0)' \/ NoneGone'
    BY <1>1, <1>4, <1>6
  <1> HIDE DEF Member, OneLeader, OneRival, OneSecret, NoneGone
  <1>7. CASE Led' = Led /\ Member' = Member /\ Stored'.res = Stored.res
    BY <1>1, <1>5, <1>6, <1>7 DEF OneSecret
  <1>8. ASSUME NEW i \in Instance, Promise!Enter(i) \/ Promise!Resign(i)
        PROVE  OneLeader' /\ OneRival' /\ OneSecret' /\ ((faults > 0)' \/ NoneGone')
    <2>1. Led' \subseteq Led /\ Member \subseteq Member' /\ Stored'.res = Stored.res
      BY <1>8 DEF Promise!Enter, Promise!Resign, Promise!NowLed, Member
    <2> QED
      BY <1>1, <1>5, <1>6, <2>1 DEF OneSecret
  <1>9. ASSUME NEW i \in Instance, Promise!Leave(i)
        PROVE  OneLeader' /\ OneRival' /\ OneSecret' /\ ((faults > 0)' \/ NoneGone')
    <2>1. Led' = Led /\ Stored'.res = Stored.res /\ Member' = Member \ {i}
      BY <1>9 DEF Promise!Leave, Member
    <2>2. faults > 0 \/ \A n \in Name : << i, n >> \notin Led
      BY <1>9 DEF Promise!Leave
    <2>3. (faults > 0)' \/ NoneGone'
      BY <1>1, <1>4, <2>1, <2>2 DEF NoneGone
    <2> QED
      BY <1>1, <1>5, <2>1, <2>3 DEF OneSecret
  <1>10. ASSUME NEW n \in Name, Promise!Create(n) \/ Promise!Remove(n)
         PROVE  OneLeader' /\ OneRival' /\ OneSecret' /\ ((faults > 0)' \/ NoneGone')
    <2>1. Led' = Led /\ Member' = Member
      BY <1>10 DEF Promise!Create, Promise!Remove, Member
    <2>2. OneSecret'
      BY <1>3, <1>10 DEF Promise!Create, Promise!Remove, OneSecret
    <2> QED
      BY <1>5, <1>6, <2>1, <2>2
  <1>11. ASSUME NEW i \in Instance, NEW n \in Name, Promise!Follow(i, n)
         PROVE  OneLeader' /\ OneRival' /\ OneSecret' /\ ((faults > 0)' \/ NoneGone')
    <2>1. Led' \subseteq Led /\ Member \subseteq Member' /\ Stored'.res = Stored.res
      BY <1>11 DEF Promise!Follow, Promise!NowLed, Member
    <2> QED
      BY <1>1, <1>5, <1>6, <2>1 DEF OneSecret
  <1>12. ASSUME NEW i \in Instance, NEW n \in Name, Promise!Take(i, n)
         PROVE  OneLeader' /\ OneRival' /\ OneSecret' /\ ((faults > 0)' \/ NoneGone')
    <2>1. /\ i \in Member /\ Member' = Member /\ Stored'.res = Stored.res
          /\ \A j \in Instance : << j, n >> \notin Led
          /\ Led' = (Led \ ({i} \X Promise!Rivals(n))) \union {<< i, n >>}
      BY <1>12 DEF Promise!Take, Promise!NowLed, Member
    <2> HIDE DEF Led
    <2>2. \A j \in Instance, m \in Name :
             << j, m >> \in Led' <=> \/ j = i /\ m = n
                                     \/ << j, m >> \in Led /\ ~ (j = i /\ m \in Promise!Rivals(n))
      BY <2>1
    <2>3. OneLeader'
      BY <1>1, <2>1, <2>2 DEF OneLeader
    <2>4. OneRival'
      BY <1>1, <2>1, <2>2 DEF OneRival, Promise!Rivals
    <2>5. (faults > 0)' \/ NoneGone'
      BY <1>1, <1>4, <2>1, <2>2 DEF NoneGone
    <2> QED
      BY <1>1, <2>1, <2>3, <2>4, <2>5 DEF OneSecret
  <1> QED
    BY <1>7, <1>8, <1>9, <1>10, <1>11, <1>12 DEF Promise!Next, Promise!vars, Member

(* So the protocol keeps the instances in order: at every moment a name    *)
(* has one leader, an instance leads one of the alternatives, a path has   *)
(* one Secret, and no leader is gone unless a call failed (the tracker of  *)
(* resource_sharing.go 55-259 and the Secrets of ltpa_keys_sharing.go).    *)
THEOREM OrderlySharing ==
    ASSUME MaxConcurrentReconciles = 1, MaxLag = 0,
           \A S \in InitialResources : OnePerPath(S)
    PROVE  Spec => []Promise!Orderly
  <1>1. Promise!Init => Promise!Orderly
    BY DEF Promise!Init, Promise!Orderly
  <1>2. Promise!Orderly /\ [Promise!Next]_(Promise!vars) => Promise!Orderly'
    BY OrderlyStep
  <1>3. Spec => KeepsLeadership
    BY ImplementsLeadership
  <1> QED
    BY <1>1, <1>2, <1>3, PTL DEF KeepsLeadership, Promise!Spec

==============================================================================
