----------------------- MODULE ResourceSharing_proofs -----------------------
(***************************************************************************)
(* Proofs about ResourceSharing, for any number of instances, workers,     *)
(* undelivered events, edits and faults.                                   *)
(***************************************************************************)
EXTENDS ResourceSharing, SequenceTheorems, FiniteSetTheorems, WellFoundedInduction,
        TLAPS

-----------------------------------------------------------------------------
(* The Secret's data.                                                      *)

(* Splitting what was joined gives the tokens back, unless there were none. *)
LEMMA SplitJoin ==
    ASSUME NEW S, NEW s \in Seq(S), s # << >>
    PROVE  Split(Join(s)) = s
  BY DEF Split, Join

(* What SaveLeaderTracker writes is read back as it was by the next        *)
(* GetLeaderTracker: no entry is lost or mixed up with another.            *)
LEMMA RoundTrip ==
    ASSUME NEW list \in Seq(Entry)
    PROVE  /\ InSync(CustomizeLeaderTracker(list))
           /\ GetLeaderTracker(CustomizeLeaderTracker(list)) = list
  <1> DEFINE owners == [k \in DOMAIN list |-> list[k].owner]
             names == [k \in DOMAIN list |-> list[k].name]
             paths == [k \in DOMAIN list |-> list[k].path]
             data == CustomizeLeaderTracker(list)
  <1>1. /\ data.owners = Join(owners)
        /\ data.names = Join(names)
        /\ data.paths = Join(paths)
    BY DEF CustomizeLeaderTracker
  <1>2. CASE list = << >>
    <2>1. owners = << >> /\ names = << >> /\ paths = << >>
      BY <1>2
    <2>2. Join(<< >>) = << >>
      BY DEF Join
    <2>3. IsEmptyData(data)
      BY <1>1, <2>1, <2>2 DEF IsEmptyData
    <2>4. QED
      BY <1>2, <2>3 DEF InSync, GetLeaderTracker
  <1>3. CASE list # << >>
    <2>0. Len(list) \in Nat \ {0} /\ DOMAIN list = 1 .. Len(list)
      BY <1>3, EmptySeq, LenProperties
    <2>a. \A k \in DOMAIN list : list[k] \in Entry
      BY <2>0, ElementOfSeq
    <2>b. \A k \in DOMAIN list :
             list[k].owner \in Owner /\ list[k].name \in Name /\ list[k].path \in Path
      BY <2>a DEF Entry
    <2>1. /\ owners \in Seq(Owner) /\ names \in Seq(Name) /\ paths \in Seq(Path)
          /\ Len(owners) = Len(list) /\ Len(names) = Len(list) /\ Len(paths) = Len(list)
      <3>2. /\ owners \in [1 .. Len(list) -> Owner]
            /\ names \in [1 .. Len(list) -> Name]
            /\ paths \in [1 .. Len(list) -> Path]
        BY <2>0, <2>b
      <3> HIDE DEF owners, names, paths
      <3>3. QED
        BY <2>0, <3>2
    <2>2. owners # << >> /\ names # << >> /\ paths # << >>
      BY <2>0, <2>1
    <2>3. /\ Split(data.owners) = owners
          /\ Split(data.names) = names
          /\ Split(data.paths) = paths
      <3> HIDE DEF owners, names, paths, data
      <3> QED BY <1>1, <2>1, <2>2, SplitJoin
    <2>4. paths[1] # ""
      <3>1. 1 \in DOMAIN list
        BY <2>0
      <3>2. paths[1] = list[1].path /\ list[1].path \in Path
        BY <3>1, <2>b
      <3> HIDE DEF paths
      <3>3. QED
        BY <3>2, PathAssumption
    <2>5. paths # << "" >>
      <3>1. << "" >>[1] = ""
        OBVIOUS
      <3> HIDE DEF paths
      <3>2. QED
        BY <2>4, <3>1
    <2>6. ~IsEmptyData(data)
      <3> HIDE DEF owners, names, paths, data
      <3> QED BY <1>1, <2>2, <2>5 DEF IsEmptyData, Join
    <2>7. InSync(data)
      <3> HIDE DEF owners, names, paths, data
      <3> QED BY <2>1, <2>3 DEF InSync
    <2>8. GetLeaderTracker(data) =
             [k \in DOMAIN owners |-> [name |-> names[k], owner |-> owners[k], path |-> paths[k]]]
      <3> HIDE DEF owners, names, paths, data
      <3> QED BY <2>3, <2>6 DEF GetLeaderTracker
    <2>9. \A k \in DOMAIN list :
             [name |-> names[k], owner |-> owners[k], path |-> paths[k]] = list[k]
      BY <2>a DEF Entry
    <2>10. GetLeaderTracker(data) = [k \in DOMAIN list |-> list[k]]
      BY <2>8, <2>9
    <2>11. QED
      BY <2>7, <2>10
  <1>4. QED
    BY <1>2, <1>3

(* What a list is written as has the type of the Secret's data.            *)
LEMMA CustomizeType ==
    ASSUME NEW list \in Seq(Entry)
    PROVE  CustomizeLeaderTracker(list) \in
             [owners : Seq(Owner), names : Seq(Name \union {""}), paths : Seq(Path)]
  <1>1. Len(list) \in Nat /\ DOMAIN list = 1 .. Len(list)
    BY LenProperties
  <1>2. \A k \in DOMAIN list : list[k] \in Entry
    BY <1>1, ElementOfSeq
  <1>3. /\ [k \in DOMAIN list |-> list[k].owner] \in [1 .. Len(list) -> Owner]
        /\ [k \in DOMAIN list |-> list[k].name] \in [1 .. Len(list) -> Name \union {""}]
        /\ [k \in DOMAIN list |-> list[k].path] \in [1 .. Len(list) -> Path]
    BY <1>1, <1>2 DEF Entry
  <1>a. ASSUME NEW S, NEW f \in [1 .. Len(list) -> S]
        PROVE  f \in Seq(S)
    BY <1>1, <1>a
  <1>4. /\ [k \in DOMAIN list |-> list[k].owner] \in Seq(Owner)
        /\ [k \in DOMAIN list |-> list[k].name] \in Seq(Name \union {""})
        /\ [k \in DOMAIN list |-> list[k].path] \in Seq(Path)
    BY <1>3, <1>a
  <1>5. ASSUME NEW S, NEW s \in Seq(S)
        PROVE  Join(s) \in Seq(S)
    BY <1>5, EmptySeq DEF Join
  <1>6. QED
    BY <1>4, <1>5 DEF CustomizeLeaderTracker

(* A good list is written as good data.                                    *)
LEMMA SavedGood ==
    ASSUME NEW list \in Seq(Entry), GoodList(list)
    PROVE  GoodData(CustomizeLeaderTracker(list))
  BY RoundTrip DEF GoodData

(* The empty list is good, and so is what it is written as.                *)
LEMMA EmptyGood ==
    /\ << >> \in Seq(Entry)
    /\ GoodList(<< >>)
    /\ GoodData(CustomizeLeaderTracker(<< >>))
  <1>1. << >> \in Seq(Entry)
    BY EmptySeq
  <1>2. GoodList(<< >>)
    BY DEF GoodList, OneLeadershipPerParent, HasUniqueNames
  <1>3. QED
    BY <1>1, <1>2, SavedGood

(* The data whose columns have different numbers of tokens.                *)
LEMMA OutOfSync == ~InSync(OutOfSyncData)
  <1>1. Split(<< >>) = << "" >> /\ Split(<< "", "" >>) = << "", "" >>
    BY DEF Split
  <1>2. Len(<< "" >>) = 1 /\ Len(<< "", "" >>) = 2 /\ << "", "" >> # << >>
    OBVIOUS
  <1>3. OutOfSyncData.owners = << >> /\ OutOfSyncData.names = << "", "" >>
    BY DEF OutOfSyncData
  <1>4. /\ Len(Split(OutOfSyncData.owners)) = 1
        /\ Len(Split(OutOfSyncData.names)) = 2
    BY <1>1, <1>2, <1>3, Zenon
  <1>5. Len(Split(OutOfSyncData.owners)) # Len(Split(OutOfSyncData.names))
    BY <1>4
  <1>6. QED
    BY <1>2, <1>3, <1>5 DEF InSync, IsEmptyData

(* Data out of sync has the type of the Secret's data; it is good because  *)
(* nothing is read from it.                                                *)
LEMMA OutOfSyncGood ==
    /\ OutOfSyncData \in [owners : Seq(Owner), names : Seq(Name \union {""}), paths : Seq(Path)]
    /\ GoodData(OutOfSyncData)
  <1>1. << >> \in Seq(Owner) /\ << >> \in Seq(Path) /\ << "", "" >> \in Seq(Name \union {""})
    OBVIOUS
  <1>2. QED
    BY <1>1, OutOfSync DEF GoodData, OutOfSyncData

-----------------------------------------------------------------------------
(* Electing and removing a leader.                                         *)

(* A list that differs from a good one by its owners only.                 *)
LEMMA SameShape ==
    ASSUME NEW list \in Seq(Entry), GoodList(list),
           NEW new \in [DOMAIN list -> Entry],
           \A k \in DOMAIN list : new[k].name = list[k].name /\ new[k].path = list[k].path
    PROVE  /\ new \in Seq(Entry)
           /\ Len(new) = Len(list)
           /\ HasUniqueNames(new)
           /\ \A k \in DOMAIN new : new[k].path = PathOf[new[k].name]
  <1>1. Len(list) \in Nat /\ DOMAIN list = 1 .. Len(list)
    BY LenProperties
  <1>2. new \in [1 .. Len(list) -> Entry]
    BY <1>1
  <1>3. new \in Seq(Entry) /\ Len(new) = Len(list) /\ DOMAIN new = DOMAIN list
    BY <1>1, <1>2
  <1>4. QED
    BY <1>3 DEF GoodList, HasUniqueNames

(* Removing an instance as leader keeps a list good.                       *)
LEMMA RemovalGood ==
    ASSUME NEW list \in Seq(Entry), GoodList(list), NEW i \in Instance
    PROVE  LET new == [k \in DOMAIN list |-> ClearOwnerIfMatching(list[k], i)]
           IN  new \in Seq(Entry) /\ GoodList(new)
  <1> DEFINE new == [k \in DOMAIN list |-> ClearOwnerIfMatching(list[k], i)]
  <1>1. \A k \in DOMAIN list : list[k] \in Entry
    BY LenProperties, ElementOfSeq
  <1>2. \A k \in DOMAIN list :
           /\ new[k] \in Entry
           /\ new[k].name = list[k].name
           /\ new[k].path = list[k].path
           /\ new[k].owner # "" => new[k].owner = list[k].owner
    BY <1>1 DEF ClearOwnerIfMatching, Entry, Owner
  <1>3. new \in [DOMAIN list -> Entry]
    BY <1>2
  <1> HIDE DEF new
  <1>4. /\ new \in Seq(Entry)
        /\ HasUniqueNames(new)
        /\ \A k \in DOMAIN new : new[k].path = PathOf[new[k].name]
    BY <1>2, <1>3, SameShape
  <1>5. OneLeadershipPerParent(new)
    BY <1>2, <1>3 DEF GoodList, OneLeadershipPerParent
  <1>6. QED
    BY <1>4, <1>5 DEF GoodList, new

(* Dropping the leaderships that share a parent with path keeps a list     *)
(* good and leaves the instance without any of them.                       *)
LEMMA ClearedGood ==
    ASSUME NEW list \in Seq(Entry), GoodList(list), NEW i \in Instance, NEW path \in Path
    PROVE  LET new == [k \in DOMAIN list |->
                        ClearOwnerIfMatchingAndSharesLastPathParent(list[k], i, path)]
           IN  /\ new \in Seq(Entry)
               /\ Len(new) = Len(list)
               /\ GoodList(new)
               /\ \A k \in DOMAIN list :
                     /\ new[k] \in Entry
                     /\ new[k].name = list[k].name
                     /\ new[k].path = list[k].path
                     /\ SharesLastPathParent(path, new[k].path) => new[k].owner # i
  <1> DEFINE new == [k \in DOMAIN list |->
                        ClearOwnerIfMatchingAndSharesLastPathParent(list[k], i, path)]
  <1>1. \A k \in DOMAIN list : list[k] \in Entry
    BY LenProperties, ElementOfSeq
  <1>2. \A k \in DOMAIN list :
           /\ new[k] \in Entry
           /\ new[k].name = list[k].name
           /\ new[k].path = list[k].path
           /\ new[k].owner # "" => new[k].owner = list[k].owner
           /\ SharesLastPathParent(path, new[k].path) => new[k].owner # i
    BY <1>1, InstanceAssumption
       DEF ClearOwnerIfMatchingAndSharesLastPathParent, Entry, Owner
  <1>3. new \in [DOMAIN list -> Entry]
    BY <1>2
  <1> HIDE DEF new
  <1>4. /\ new \in Seq(Entry)
        /\ Len(new) = Len(list)
        /\ HasUniqueNames(new)
        /\ \A k \in DOMAIN new : new[k].path = PathOf[new[k].name]
    BY <1>2, <1>3, SameShape
  <1>5. OneLeadershipPerParent(new)
    BY <1>2, <1>3 DEF GoodList, OneLeadershipPerParent
  <1>6. QED
    BY <1>2, <1>4, <1>5 DEF GoodList, new

(* Sharing a path parent is symmetric.                                     *)
LEMMA SharesSymmetric ==
    \A p, q : SharesLastPathParent(p, q) => SharesLastPathParent(q, p)
  BY DEF SharesLastPathParent

(* Whatever good list reconcileLeader has read, what it saves is good and  *)
(* the leader it reports is an instance.                                   *)
LEMMA ElectionGood ==
    ASSUME NEW list \in Seq(Entry), GoodList(list), NEW i \in Instance,
           NEW name \in Name, NEW path \in Path, path = PathOf[name],
           NEW elect \in BOOLEAN
    PROVE  LET r == ReconcileLeaderWithState(list, i, name, path, elect)
           IN  r.saves => r.list \in Seq(Entry) /\ GoodList(r.list) /\ r.leader \in Instance
  <1> DEFINE at == {k \in DOMAIN list : list[k].name = name}
             index == CHOOSE k \in at : \A j \in at : j <= k
             cleared == [k \in DOMAIN list |->
                           ClearOwnerIfMatchingAndSharesLastPathParent(list[k], i, path)]
             taken == [k \in DOMAIN list |->
                         IF k = index THEN SetOwner(list[k], i) ELSE cleared[k]]
             newLeader == [name |-> name, owner |-> i, path |-> path]
             none == [saves |-> FALSE, leader |-> "", list |-> list]
             r == ReconcileLeaderWithState(list, i, name, path, elect)
  <1>0. /\ Len(list) \in Nat
        /\ DOMAIN list = 1 .. Len(list)
        /\ \A k \in DOMAIN list : list[k] \in Entry
    BY LenProperties, ElementOfSeq
  <1>1. at # {} => index \in at
    <2>1. \A j, k \in at : j = k
      BY DEF GoodList, HasUniqueNames
    <2>2. \A j \in at : j \in Nat
      BY <1>0
    <2>3. at # {} => \E k \in at : \A j \in at : j <= k
      BY <2>1, <2>2
    <2>4. QED
      BY <2>3
  <1>2. /\ cleared \in Seq(Entry)
        /\ Len(cleared) = Len(list)
        /\ GoodList(cleared)
        /\ \A k \in DOMAIN list :
              /\ cleared[k] \in Entry
              /\ cleared[k].name = list[k].name
              /\ cleared[k].path = list[k].path
              /\ SharesLastPathParent(path, cleared[k].path) => cleared[k].owner # i
    BY ClearedGood
  <1>3. newLeader \in Entry
    BY DEF Entry, Owner
  <1>4. ASSUME at = {}
        PROVE  Append(cleared, newLeader) \in Seq(Entry) /\ GoodList(Append(cleared, newLeader))
    <2> DEFINE new == Append(cleared, newLeader)
    <2>1. /\ new \in Seq(Entry)
          /\ DOMAIN new = 1 .. Len(list) + 1
          /\ new[Len(list) + 1] = newLeader
          /\ \A k \in 1 .. Len(list) : new[k] = cleared[k]
      <3> HIDE DEF cleared, newLeader
      <3> QED BY <1>0, <1>2, <1>3
    <2>2. \A k \in 1 .. Len(list) : cleared[k].name # name
      <3> HIDE DEF cleared
      <3> QED BY <1>0, <1>2, <1>4
    <2>3. newLeader.name = name /\ newLeader.owner = i /\ newLeader.path = path
      OBVIOUS
    <2>4. DOMAIN cleared = 1 .. Len(list)
      BY <1>0
    <2> HIDE DEF new, newLeader, cleared, at
    <2>5. HasUniqueNames(new)
      BY <1>0, <1>2, <2>1, <2>2, <2>3, <2>4 DEF HasUniqueNames, GoodList
    <2>6. OneLeadershipPerParent(new)
      <3>0. \A l \in 1 .. Len(list) + 1 : l \in 1 .. Len(list) \/ l = Len(list) + 1
        BY <1>0
      <3> SUFFICES ASSUME NEW j \in 1 .. Len(list) + 1, NEW k \in 1 .. Len(list) + 1,
                          new[j].owner # "", new[j].owner = new[k].owner,
                          SharesLastPathParent(new[j].path, new[k].path)
                   PROVE  j = k
        BY <2>1 DEF OneLeadershipPerParent
      <3>1. CASE j \in 1 .. Len(list) /\ k \in 1 .. Len(list)
        BY <1>2, <2>1, <2>4, <3>1 DEF GoodList, OneLeadershipPerParent
      <3>2. CASE j = Len(list) + 1 /\ k \in 1 .. Len(list)
        BY <1>0, <1>2, <2>1, <2>3, <3>2
      <3>3. CASE k = Len(list) + 1 /\ j \in 1 .. Len(list)
        BY <1>0, <1>2, <2>1, <2>3, <3>3, SharesSymmetric
      <3>4. /\ j \in 1 .. Len(list) \/ j = Len(list) + 1
            /\ k \in 1 .. Len(list) \/ k = Len(list) + 1
        BY <3>0, Zenon
      <3>5. QED
        BY <3>1, <3>2, <3>3, <3>4, Zenon
    <2>7. \A k \in DOMAIN new : new[k].path = PathOf[new[k].name]
      BY <1>0, <1>2, <2>1, <2>3, <2>4 DEF GoodList
    <2>8. QED
      BY <2>1, <2>5, <2>6, <2>7 DEF GoodList, new
  <1>5. ASSUME at # {}
        PROVE  taken \in Seq(Entry) /\ GoodList(taken)
    <2>1. index \in DOMAIN list /\ list[index].name = name /\ list[index].path = path
      BY <1>1, <1>5 DEF GoodList
    <2> HIDE DEF index, at, cleared
    <2>2. \A k \in DOMAIN list :
             /\ taken[k] \in Entry
             /\ taken[k].name = list[k].name
             /\ taken[k].path = list[k].path
             /\ k # index => taken[k] = cleared[k]
      BY <1>0, <1>2 DEF SetOwner, Entry, Owner
    <2>3. taken \in [DOMAIN list -> Entry]
      BY <2>2
    <2> HIDE DEF taken
    <2>4. /\ taken \in Seq(Entry)
          /\ HasUniqueNames(taken)
          /\ \A k \in DOMAIN taken : taken[k].path = PathOf[taken[k].name]
      BY <2>2, <2>3, SameShape
    <2>5. DOMAIN cleared = DOMAIN list /\ DOMAIN taken = DOMAIN list
      BY <2>3 DEF cleared
    <2>6. taken[index].owner = i
      BY <1>0, <2>1 DEF taken, SetOwner, Entry
    <2>7. OneLeadershipPerParent(taken)
      <3>b. \A j, k \in 1 .. Len(list) :
               /\ cleared[j].owner # ""
               /\ cleared[j].owner = cleared[k].owner
               /\ SharesLastPathParent(cleared[j].path, cleared[k].path)
               => j = k
        BY <1>0, <1>2, <2>5, Zenon DEF GoodList, OneLeadershipPerParent
      <3>c. \A l \in 1 .. Len(list) : l # index => taken[l] = cleared[l]
        BY <1>0, <2>2
      <3> SUFFICES ASSUME NEW j \in 1 .. Len(list), NEW k \in 1 .. Len(list),
                          taken[j].owner # "", taken[j].owner = taken[k].owner,
                          SharesLastPathParent(taken[j].path, taken[k].path)
                   PROVE  j = k
        BY <1>0, <2>5 DEF OneLeadershipPerParent
      <3>a. taken[index].path = path
        BY <2>1, <2>2
      <3>0. \A l \in 1 .. Len(list) :
               l # index /\ SharesLastPathParent(path, taken[l].path) => taken[l].owner # i
        BY <1>0, <1>2, <2>2
      <3>1. CASE j # index /\ k # index
        BY <3>b, <3>c, <3>1, Zenon
      <3>2. CASE j = index /\ k # index
        BY <3>0, <3>a, <2>6, <3>2
      <3>3. CASE k = index /\ j # index
        <4>1. SharesLastPathParent(path, taken[j].path)
          BY <3>a, <3>3, SharesSymmetric, Zenon
        <4>2. QED
          BY <3>0, <4>1, <2>6, <3>3
      <3>4. QED
        BY <3>1, <3>2, <3>3, Zenon
    <2>8. QED
      BY <2>4, <2>7 DEF GoodList
  <1>6. at # {} => list[index] \in Entry
    BY <1>0, <1>1
  <1>7. r = CASE at = {} /\ elect ->
                [saves |-> TRUE, leader |-> i, list |-> Append(cleared, newLeader)]
              [] at = {} /\ ~elect -> none
              [] at # {} /\ list[index].owner = i ->
                [saves |-> TRUE, leader |-> i, list |-> list]
              [] at # {} /\ list[index].owner \notin {i, ""} ->
                [saves |-> TRUE, leader |-> list[index].owner, list |-> cleared]
              [] at # {} /\ list[index].owner = "" /\ elect ->
                [saves |-> TRUE, leader |-> i, list |-> taken]
              [] at # {} /\ list[index].owner = "" /\ ~elect -> none
    BY DEF ReconcileLeaderWithState
  <1> SUFFICES r.saves => r.list \in Seq(Entry) /\ GoodList(r.list) /\ r.leader \in Instance
    OBVIOUS
  <1> HIDE DEF at, index, cleared, taken, newLeader, r
  <1>8. CASE at = {}
    <2>1. r = IF elect THEN [saves |-> TRUE, leader |-> i, list |-> Append(cleared, newLeader)]
              ELSE none
      BY <1>7, <1>8
    <2>2. QED
      BY <1>4, <1>8, <2>1
  <1>9. CASE at # {} /\ list[index].owner = i
    <2>1. r = [saves |-> TRUE, leader |-> i, list |-> list]
      BY <1>7, <1>9, InstanceAssumption
    <2>2. QED
      BY <2>1
  <1>10. CASE at # {} /\ list[index].owner \notin {i, ""}
    <2>1. list[index].owner \in Instance
      BY <1>6, <1>10 DEF Entry, Owner
    <2>2. r = [saves |-> TRUE, leader |-> list[index].owner, list |-> cleared]
      BY <1>7, <1>10
    <2>3. QED
      BY <1>2, <2>1, <2>2
  <1>11. CASE at # {} /\ list[index].owner = ""
    <2>1. r = IF elect THEN [saves |-> TRUE, leader |-> i, list |-> taken] ELSE none
      BY <1>7, <1>11, InstanceAssumption
    <2>2. QED
      BY <1>5, <1>11, <2>1
  <1>12. QED
    BY <1>8, <1>9, <1>10, <1>11

-----------------------------------------------------------------------------
(* Names.                                                                  *)

Data == [owners : Seq(Owner), names : Seq(Name \union {""}), paths : Seq(Path)]

(* A set of natural numbers that is not empty has a least element.         *)
LEMMA LeastElement ==
    ASSUME NEW T \in SUBSET Nat, T # {}
    PROVE  \E k \in T : \A j \in T : k <= j
  <1> DEFINE R == {ss \in Nat \X Nat : ss[1] < ss[2]}
  <1>1. IsWellFoundedOn(R, Nat)
    BY NatLessThanWellFounded, Zenon DEF OpToRel
  <1>2. \A x, y \in Nat : ~(<< y, x >> \in R) => x <= y
    OBVIOUS
  <1> HIDE DEF R
  <1>3. PICK x \in T : \A y \in T : ~(<< y, x >> \in R)
    BY <1>1, WFMin, Zenon
  <1>4. QED
    BY <1>2, <1>3

(* The name that data in sync has at the place of a path is one of the     *)
(* list's and was drawn for that path.                                     *)
LEMMA TrackedName ==
    ASSUME NEW data \in Data, GoodData(data), InSync(data), NEW loc \in DOMAIN data.paths
    PROVE  LET n == GetCommaSeparatedString(data.names, loc)
           IN  /\ n \in Name /\ PathOf[n] = data.paths[loc]
               /\ n \in NamesOf(GetLeaderTracker(data))
  <1> DEFINE list == GetLeaderTracker(data)
  <1>0. data.owners \in Seq(Owner) /\ data.names \in Seq(Name \union {""}) /\ data.paths \in Seq(Path)
    BY DEF Data
  <1>1. data.paths # << >> /\ loc \in 1 .. Len(data.paths)
    <2>1. DOMAIN data.paths = 1 .. Len(data.paths)
      BY <1>0, LenProperties
    <2>2. DOMAIN << >> = {}
      OBVIOUS
    <2>3. QED
      BY <2>1, <2>2, Zenon
  <1>2. ~IsEmptyData(data) /\ Split(data.paths) = data.paths
    BY <1>1 DEF IsEmptyData, Split
  <1>3. Len(Split(data.owners)) = Len(data.paths)
    BY <1>2 DEF InSync
  <1>4. Split(data.owners) \in Seq(Owner)
    <2>1. "" \in Owner
      BY DEF Owner
    <2>a. ASSUME NEW S, NEW x \in S
          PROVE  << x >> \in Seq(S)
      OBVIOUS
    <2>2. << "" >> \in Seq(Owner)
      BY <2>1, <2>a, Zenon
    <2>3. QED
      BY <1>0, <2>2, Zenon DEF Split
  <1>5. DOMAIN Split(data.owners) = 1 .. Len(data.paths)
    BY <1>3, <1>4
  <1>6. list = [k \in DOMAIN Split(data.owners) |->
                  [name  |-> Split(data.names)[k],
                   owner |-> Split(data.owners)[k],
                   path  |-> Split(data.paths)[k]]]
    BY <1>2 DEF GetLeaderTracker
  <1>7. /\ loc \in DOMAIN list
        /\ list[loc].name = Split(data.names)[loc]
        /\ list[loc].path = data.paths[loc]
    BY <1>1, <1>2, <1>5, <1>6
  <1>8. list \in Seq(Entry) /\ GoodList(list)
    BY DEF GoodData
  <1> HIDE DEF list
  <1>9. list[loc] \in Entry
    BY <1>7, <1>8
  <1>10. list[loc].name \in NamesOf(list)
    BY <1>7 DEF NamesOf
  <1>11. QED
    BY <1>7, <1>8, <1>9, <1>10 DEF GoodList, Entry, GetCommaSeparatedString, list

(* A list rebuilt from the resources that exist is good.                   *)
LEMMA RebuiltGood ==
    ASSUME NEW res \in SUBSET Name, NEW list \in RebuiltLists(res)
    PROVE  list \in Seq(Entry) /\ GoodList(list)
  <1>1. Cardinality(res) \in Nat
    BY NameAssumption, FS_Subset, FS_CardinalityType
  <1>2. /\ list \in [1 .. Cardinality(res) -> [name : res, owner : {""}, path : Path]]
        /\ \A j, k \in DOMAIN list : list[j].name = list[k].name => j = k
        /\ \A k \in DOMAIN list : list[k].path = PathOf[list[k].name]
    BY DEF RebuiltLists
  <1>3. \A k \in DOMAIN list : list[k] \in Entry /\ list[k].owner = ""
    BY <1>2 DEF Entry, Owner
  <1>4. list \in [1 .. Cardinality(res) -> Entry]
    BY <1>2, <1>3
  <1>5. list \in Seq(Entry)
    BY <1>1, <1>4
  <1>6. QED
    BY <1>2, <1>3, <1>5 DEF GoodList, OneLeadershipPerParent, HasUniqueNames

-----------------------------------------------------------------------------
(* The states of the Secrets.                                              *)

LogGood ==
    /\ log \in Seq(Snapshot)
    /\ log # << >>
    /\ \A k \in DOMAIN log : GoodData(log[k].tracker.data)

(* The cached and the stored state have their type and good data.          *)
LEMMA EndsGood ==
    ASSUME LogGood
    PROVE  /\ Cached \in Snapshot /\ GoodData(Cached.tracker.data)
           /\ Stored \in Snapshot /\ GoodData(Stored.tracker.data)
  <1>1. Len(log) \in Nat \ {0} /\ DOMAIN log = 1 .. Len(log)
    BY DEF LogGood
  <1>2. 1 \in DOMAIN log /\ Len(log) \in DOMAIN log
    BY <1>1
  <1>3. Head(log) = log[1]
    BY DEF LogGood
  <1>4. \A k \in DOMAIN log : log[k] \in Snapshot /\ GoodData(log[k].tracker.data)
    BY <1>1 DEF LogGood
  <1>5. QED
    BY <1>2, <1>3, <1>4 DEF Cached, Stored

(* A write of good data keeps all states good.                             *)
LEMMA PushGood ==
    ASSUME LogGood, NEW s \in Snapshot, GoodData(s.tracker.data), Push(s)
    PROVE  LogGood'
  <1>1. CASE log' = << s >>
    BY <1>1 DEF LogGood
  <1>2. CASE log' = Append(log, s)
    <2>1. Len(log) \in Nat /\ DOMAIN log = 1 .. Len(log)
      BY DEF LogGood
    <2>2. /\ log' \in Seq(Snapshot)
          /\ DOMAIN log' = 1 .. Len(log) + 1
          /\ log'[Len(log) + 1] = s
          /\ \A k \in 1 .. Len(log) : log'[k] = log[k]
      BY <1>2, <2>1 DEF LogGood
    <2>3. \A k \in DOMAIN log' : k = Len(log) + 1 \/ k \in DOMAIN log
      BY <2>1, <2>2
    <2>4. \A k \in DOMAIN log' : GoodData(log'[k].tracker.data)
      BY <2>1, <2>2, <2>3 DEF LogGood
    <2>5. log' # << >>
      BY <2>1, <2>2
    <2>6. QED
      BY <2>2, <2>4, <2>5 DEF LogGood
  <1>3. QED
    BY <1>1, <1>2 DEF Push

(* No tracker is a good tracker.                                           *)
LEMMA NoTrackerGood == NoTracker \in Tracker /\ GoodData(NoTracker.data)
  BY EmptyGood, CustomizeType DEF NoTracker, Tracker

(* Deleting the tracker keeps all states good.                             *)
LEMMA DeleteTrackerGood ==
    ASSUME LogGood, DeleteTracker
    PROVE  LogGood'
  <1>1. Stored \in Snapshot
    BY EndsGood
  <1> DEFINE s == [Stored EXCEPT !.tracker = NoTracker]
  <1>2. s \in Snapshot /\ s.tracker = NoTracker
    BY <1>1, NoTrackerGood DEF Snapshot
  <1>3. Push(s)
    BY DEF DeleteTracker
  <1> HIDE DEF s
  <1>4. QED
    BY <1>2, <1>3, NoTrackerGood, PushGood

(* SaveLeaderTracker of a good list keeps all states good.                 *)
LEMMA SaveGood ==
    ASSUME LogGood, NEW list \in Seq(Entry), GoodList(list), SaveSucceeds(list)
    PROVE  LogGood'
  <1>1. CASE SaveNothing(list)
    BY <1>1 DEF SaveNothing, LogGood
  <1>2. CASE SaveUpdate(list)
    <2> DEFINE s == [Stored EXCEPT !.tracker.data = CustomizeLeaderTracker(list)]
    <2>1. Stored \in Snapshot
      BY EndsGood
    <2>2. s \in Snapshot /\ s.tracker.data = CustomizeLeaderTracker(list)
      BY <2>1, CustomizeType DEF Snapshot, Tracker
    <2>3. Push(s)
      BY <1>2 DEF SaveUpdate
    <2> HIDE DEF s
    <2>4. QED
      BY <2>2, <2>3, SavedGood, PushGood
  <1>3. QED
    BY <1>1, <1>2 DEF SaveSucceeds

-----------------------------------------------------------------------------
(* The reconciles.                                                         *)

JobsGood == job \in [Instance -> Job] /\ \A i \in Instance : GoodJob(job[i])

(* A good value for one reconcile keeps all of them good.                  *)
LEMMA JobGood ==
    ASSUME JobsGood, NEW i \in Instance, NEW j \in Job, GoodJob(j),
           job' = [job EXCEPT ![i] = j]
    PROVE  JobsGood'
  BY DEF JobsGood

(* No reconcile is a good one.                                             *)
LEMMA IdleGood == IdleJob \in Job /\ GoodJob(IdleJob)
  BY EmptyGood DEF IdleJob, Job, GoodJob, PC, Call, Owner, Sharing, Named, Removing

(* A return keeps the reconciles good.                                     *)
LEMMA ReturnGood ==
    ASSUME JobsGood, NEW i \in Instance, Return(i)
    PROVE  JobsGood'
  BY IdleGood, JobGood DEF Return

(* A reconcile may go on to a place that needs no more than it has.        *)
LEMMA GotoGood ==
    ASSUME JobsGood, NEW i \in Instance, NEW pc \in PC, Goto(i, pc),
           pc \in Sharing => job[i].pc \in Sharing,
           pc \in Removing => job[i].pc \in Removing,
           pc \notin Sharing => pc \notin Named \union {"metaConfig"} \/ job[i].pc \in Named
    PROVE  JobsGood'
  <1>1. job[i] \in Job /\ GoodJob(job[i])
    BY DEF JobsGood
  <1> DEFINE j == [job[i] EXCEPT !.pc = pc]
  <1>2. j \in Job
    BY <1>1 DEF Job
  <1>3. GoodJob(j)
    BY <1>1 DEF GoodJob, Job, Sharing, Named, Removing
  <1>4. job' = [job EXCEPT ![i] = j]
    BY DEF Goto, JobsGood
  <1> HIDE DEF j
  <1>5. QED
    BY <1>2, <1>3, <1>4, JobGood

-----------------------------------------------------------------------------
(* The steps of a reconcile.                                               *)

RestGood ==
    /\ life \in [Instance -> {"absent", "created", "active", "deleting"}]
    /\ want \in [Instance -> ConfigPath \union {Disabled}]
    /\ edits \in 0 .. MaxUserEdits
    /\ faults \in 0 .. MaxFaults

(* The inductive invariant by variables: the Secrets, the reconciles, the  *)
(* rest.                                                                   *)
LEMMA Parts == IInv <=> LogGood /\ JobsGood /\ RestGood
  BY DEF IInv, TypeOK, GoodState, LogGood, JobsGood, RestGood

(* A tracker that can be read is read as a good list.                      *)
LEMMA ReadGood ==
    ASSUME LogGood, Readable
    PROVE  Read \in Seq(Entry) /\ GoodList(Read)
  BY EndsGood DEF Readable, Read, GoodData

(* The index of a token in a column: that of an equal one, 0 if none is.   *)
LEMMA FirstIndex ==
    ASSUME NEW S, NEW string \in Seq(S), NEW value
    PROVE  LET loc == CommaSeparatedStringContains(string, value)
           IN  IF \E k \in DOMAIN string : string[k] = value
               THEN loc \in DOMAIN string /\ string[loc] = value
               ELSE loc = 0
  <1> DEFINE found(k) == /\ string[k] = value
                         /\ \A j \in DOMAIN string : string[j] = value => k <= j
             T == {k \in DOMAIN string : string[k] = value}
  <1>1. CASE \E k \in DOMAIN string : string[k] = value
    <2>1. DOMAIN string = 1 .. Len(string)
      BY LenProperties
    <2>2. T \subseteq Nat /\ T # {}
      BY <1>1, <2>1
    <2>3. \E k \in T : \A j \in T : k <= j
      <3> HIDE DEF T
      <3> QED BY <2>2, LeastElement
    <2>4. \E k \in DOMAIN string : found(k)
      BY <2>3
    <2>5. CommaSeparatedStringContains(string, value) = CHOOSE k \in DOMAIN string : found(k)
      BY <1>1 DEF CommaSeparatedStringContains
    <2> QED
      BY <1>1, <2>4, <2>5
  <1>2. CASE ~\E k \in DOMAIN string : string[k] = value
    BY <1>2 DEF CommaSeparatedStringContains
  <1> QED
    BY <1>1, <1>2

(* The name found or drawn for a path is for that path, and tracked if the *)
(* path is.                                                                *)
LEMMA MetadataGood ==
    ASSUME LogGood, Usable, NEW path \in Path, NEW n \in MetadataNames(path)
    PROVE  /\ n \in Name /\ PathOf[n] = path
           /\ (\E k \in DOMAIN Cached.tracker.data.paths : Cached.tracker.data.paths[k] = path)
                => n \in NamesOf(Read)
  <1> DEFINE data == Cached.tracker.data
             loc == CommaSeparatedStringContains(data.paths, path)
             tracked == \E k \in DOMAIN data.paths : data.paths[k] = path
  <1>1. data \in Data /\ GoodData(data) /\ InSync(data)
    BY EndsGood DEF Usable, Readable, Snapshot, Tracker, Data
  <1>2. data.paths \in Seq(Path)
    BY <1>1 DEF Data
  <1>3. /\ tracked => loc \in DOMAIN data.paths /\ data.paths[loc] = path
        /\ ~tracked => loc = 0
    <2> HIDE DEF data
    <2> QED BY <1>2, FirstIndex
  <1>4. n \in IF loc # 0 THEN {GetCommaSeparatedString(data.names, loc)} ELSE RandomSuffixes(path)
    BY DEF MetadataNames
  <1>5. Read = GetLeaderTracker(data)
    BY DEF Read
  <1>6. 0 \notin DOMAIN data.paths
    <2>1. DOMAIN data.paths = 1 .. Len(data.paths)
      BY <1>2, LenProperties
    <2> QED
      BY <2>1
  <1> HIDE DEF data, loc
  <1>7. CASE tracked
    <2>1. n = GetCommaSeparatedString(data.names, loc)
      BY <1>3, <1>4, <1>6, <1>7
    <2> QED
      BY <1>1, <1>3, <1>5, <1>7, <2>1, TrackedName DEF data
  <1>8. CASE ~tracked
    BY <1>3, <1>4, <1>8 DEF RandomSuffixes, data
  <1> QED
    BY <1>7, <1>8

(* GetLeaderTracker deletes a tracker out of sync.                         *)
LEMMA StepDeleteOutOfSync ==
    ASSUME LogGood, JobsGood, NEW i \in Instance, DeleteOutOfSync(i)
    PROVE  LogGood' /\ JobsGood'
  <1>1. LogGood'
    BY DeleteTrackerGood DEF DeleteOutOfSync
  <1>2. ASSUME Goto(i, "dropFinalizer") PROVE JobsGood'
    BY <1>2, GotoGood DEF PC, Sharing, Named, Removing
  <1>3. ASSUME Return(i) PROVE JobsGood'
    BY <1>3, ReturnGood
  <1>4. QED
    BY <1>1, <1>2, <1>3 DEF DeleteOutOfSync

(* reconcileLeaderTracker looks at the tracker.                            *)
LEMMA StepReconcileLeaderTracker ==
    ASSUME LogGood, JobsGood, NEW i \in Instance, ReconcileLeaderTracker(i)
    PROVE  LogGood' /\ JobsGood'
  <1>1. LogGood'
    <2>1. CASE UNCHANGED log
      BY <2>1 DEF LogGood
    <2>2. QED
      BY <2>1, DeleteTrackerGood DEF ReconcileLeaderTracker
  <1>2. job[i].pc = "track"
    BY DEF ReconcileLeaderTracker
  <1>3. PICK pc \in {"list", "metaKey"} : Goto(i, pc)
    BY DEF ReconcileLeaderTracker
  <1>4. JobsGood'
    BY <1>2, <1>3, GotoGood DEF PC, Sharing, Named, Removing
  <1>5. QED
    BY <1>1, <1>4

(* createNewLeaderTrackerList lists the Secrets.                           *)
LEMMA StepCreateNewLeaderTrackerList ==
    ASSUME LogGood, JobsGood, NEW i \in Instance, CreateNewLeaderTrackerList(i)
    PROVE  LogGood' /\ JobsGood'
  <1>1. LogGood'
    BY DEF CreateNewLeaderTrackerList, LogGood
  <1>2. PICK list \in RebuiltLists(Cached.res) :
           job' = [job EXCEPT ![i].pc = "create", ![i].list = list]
    BY DEF CreateNewLeaderTrackerList
  <1>3. list \in Seq(Entry) /\ GoodList(list)
    BY EndsGood, RebuiltGood DEF Snapshot
  <1>4. job[i] \in Job /\ GoodJob(job[i]) /\ job[i].pc = "list"
    BY DEF JobsGood, CreateNewLeaderTrackerList
  <1> DEFINE j == [job[i] EXCEPT !.pc = "create", !.list = list]
  <1>5. j \in Job
    BY <1>3, <1>4 DEF Job, PC
  <1>6. GoodJob(j)
    BY <1>3, <1>4 DEF GoodJob, Job, Sharing, Named, Removing
  <1>7. job' = [job EXCEPT ![i] = j]
    BY <1>2 DEF JobsGood
  <1> HIDE DEF j
  <1>8. QED
    BY <1>1, <1>5, <1>6, <1>7, JobGood

(* The tracker is created from that list.                                  *)
LEMMA StepCreateLeaderTracker ==
    ASSUME LogGood, JobsGood, NEW i \in Instance, CreateLeaderTracker(i)
    PROVE  LogGood' /\ JobsGood'
  <1>1. /\ job[i] \in Job /\ GoodJob(job[i]) /\ job[i].pc = "create"
        /\ job[i].list \in Seq(Entry) /\ GoodList(job[i].list)
    BY DEF JobsGood, CreateLeaderTracker, GoodJob, Job
  <1> DEFINE t == [exists |-> TRUE, version |-> "current",
                   data |-> CustomizeLeaderTracker(job[i].list)]
             s == [Stored EXCEPT !.tracker = t]
  <1>2. LogGood'
    <2>1. CASE Push(s)
      <3>1. t \in Tracker /\ GoodData(t.data)
        BY <1>1, CustomizeType, SavedGood DEF Tracker
      <3>2. s \in Snapshot /\ s.tracker = t
        BY <3>1, EndsGood DEF Snapshot
      <3> HIDE DEF s, t
      <3>3. QED
        BY <2>1, <3>1, <3>2, PushGood
    <2>2. CASE SaveSucceeds(job[i].list)
      BY <1>1, <2>2, SaveGood
    <2>3. CASE UNCHANGED log
      BY <2>3 DEF LogGood
    <2>4. QED
      BY <2>1, <2>2, <2>3 DEF CreateLeaderTracker
  <1>3. JobsGood'
    <2>1. CASE Return(i)
      BY <2>1, ReturnGood
    <2>2. CASE job' = [job EXCEPT ![i].pc = "metaKey", ![i].list = << >>]
      <3> DEFINE j == [job[i] EXCEPT !.pc = "metaKey", !.list = << >>]
      <3>1. j \in Job
        BY <1>1, EmptyGood DEF Job, PC
      <3>2. GoodJob(j)
        BY <1>1, EmptyGood DEF GoodJob, Job, Sharing, Named, Removing
      <3>3. job' = [job EXCEPT ![i] = j]
        BY <2>2 DEF JobsGood
      <3> HIDE DEF j
      <3>4. QED
        BY <3>1, <3>2, <3>3, JobGood
    <2>3. QED
      BY <2>1, <2>2 DEF CreateLeaderTracker
  <1>4. QED
    BY <1>2, <1>3

(* reconcileLTPAMetadata names the key.                                    *)
LEMMA StepReconcileMetadataKey ==
    ASSUME LogGood, JobsGood, NEW i \in Instance, ReconcileMetadataKey(i)
    PROVE  LogGood' /\ JobsGood'
  <1>1. LogGood'
    BY DEF ReconcileMetadataKey, LogGood
  <1>2. PICK n \in MetadataNames(KeyPath) :
           job' = [job EXCEPT ![i].pc = "metaConfig", ![i].key = n]
    BY DEF ReconcileMetadataKey
  <1>3. n \in Name /\ PathOf[n] = KeyPath
    BY MetadataGood, TreeAssumption DEF ReconcileMetadataKey
  <1>4. job[i] \in Job /\ GoodJob(job[i]) /\ job[i].pc = "metaKey"
    BY DEF JobsGood, ReconcileMetadataKey
  <1> DEFINE j == [job[i] EXCEPT !.pc = "metaConfig", !.key = n]
  <1>5. j \in Job
    BY <1>3, <1>4 DEF Job, PC
  <1>6. GoodJob(j)
    BY <1>3, <1>4 DEF GoodJob, Job, Sharing, Named, Removing
  <1>7. job' = [job EXCEPT ![i] = j]
    BY <1>2 DEF JobsGood
  <1> HIDE DEF j
  <1>8. QED
    BY <1>1, <1>5, <1>6, <1>7, JobGood

(* reconcileLTPAMetadata names the configuration.                          *)
LEMMA StepReconcileMetadataConfig ==
    ASSUME LogGood, JobsGood, NEW i \in Instance, ReconcileMetadataConfig(i)
    PROVE  LogGood' /\ JobsGood'
  <1>1. LogGood'
    BY DEF ReconcileMetadataConfig, LogGood
  <1>2. PICK n \in MetadataNames(job[i].conf) :
           job' = [job EXCEPT ![i].pc = "keyGet", ![i].config = n]
    BY DEF ReconcileMetadataConfig
  <1>3. /\ job[i] \in Job /\ GoodJob(job[i]) /\ job[i].pc = "metaConfig"
        /\ job[i].conf \in Path
    BY TreeAssumption DEF JobsGood, ReconcileMetadataConfig, GoodJob
  <1>4. n \in Name /\ PathOf[n] = job[i].conf
    BY <1>3, MetadataGood DEF ReconcileMetadataConfig
  <1> DEFINE j == [job[i] EXCEPT !.pc = "keyGet", !.config = n]
  <1>5. j \in Job
    BY <1>3, <1>4 DEF Job, PC
  <1>6. GoodJob(j)
    BY <1>3, <1>4 DEF GoodJob, Job, Sharing, Named, Removing
  <1>7. job' = [job EXCEPT ![i] = j]
    BY <1>2 DEF JobsGood
  <1> HIDE DEF j
  <1>8. QED
    BY <1>1, <1>5, <1>6, <1>7, JobGood

(* A reconcile that has its names keeps them.                              *)
LEMMA NamedGood ==
    ASSUME JobsGood, NEW i \in Instance, job[i].pc \in Named,
           NEW j \in Job, j.pc \in Named, GoodList(j.list),
           j.conf = job[i].conf, j.key = job[i].key, j.config = job[i].config,
           job' = [job EXCEPT ![i] = j]
    PROVE  JobsGood'
  <1>1. GoodJob(job[i])
    BY DEF JobsGood
  <1>2. GoodJob(j)
    BY <1>1 DEF GoodJob, Named, Removing
  <1>3. QED
    BY <1>2, JobGood

(* The look-ups of generateLTPAKeys and generateLTPAConfig.                *)
LEMMA StepGenerate ==
    ASSUME LogGood, JobsGood, NEW i \in Instance,
           GenerateLTPAKeys(i) \/ GenerateLTPAConfig(i) \/ GetLTPAConfig(i)
    PROVE  LogGood' /\ JobsGood'
  <1>1. LogGood'
    BY DEF GenerateLTPAKeys, GenerateLTPAConfig, GetLTPAConfig, LogGood
  <1>2. CASE Return(i) \/ Goto(i, "configDelete")
    <2>1. ASSUME Goto(i, "configDelete") PROVE JobsGood'
      BY <2>1, GotoGood DEF PC, Sharing, Named, Removing
    <2>2. QED
      BY <1>1, <1>2, <2>1, ReturnGood
  <1>3. CASE ~Return(i) /\ ~Goto(i, "configDelete")
    <2>1. /\ job[i] \in Job /\ job[i].pc \in Named
          /\ job[i].list \in Seq(Entry) /\ GoodList(job[i].list)
      BY DEF JobsGood, GenerateLTPAKeys, GenerateLTPAConfig, GetLTPAConfig, Named, GoodJob, Job
    <2>2. ASSUME NEW call \in Call, NEW found \in BOOLEAN,
                 job' = [job EXCEPT ![i] =
                          [job[i] EXCEPT !.pc = "leadGet", !.call = call, !.found = found]]
          PROVE  JobsGood'
      <3> DEFINE j == [job[i] EXCEPT !.pc = "leadGet", !.call = call, !.found = found]
      <3>1. /\ j \in Job /\ j.pc \in Named /\ GoodList(j.list)
            /\ j.conf = job[i].conf /\ j.key = job[i].key /\ j.config = job[i].config
        BY <2>1 DEF Job, PC, Named
      <3>2. job' = [job EXCEPT ![i] = j]
        BY <2>2
      <3> HIDE DEF j
      <3>3. QED
        BY <2>1, <3>1, <3>2, NamedGood
    <2>3. CASE GenerateLTPAKeys(i)
      <3> DEFINE found == job[i].key \in Cached.res
      <3>1. job' = [job EXCEPT ![i] =
                      [job[i] EXCEPT !.pc = "leadGet", !.call = "key", !.found = found]]
        BY <2>1, <2>3 DEF GenerateLTPAKeys, JobsGood
      <3>2. "key" \in Call /\ found \in BOOLEAN
        BY DEF Call
      <3> HIDE DEF found
      <3>3. QED
        BY <1>1, <2>2, <3>1, <3>2
    <2>4. ASSUME NEW call \in Call, job' = [job EXCEPT ![i].pc = "leadGet", ![i].call = call]
          PROVE  JobsGood'
      <3>1. job[i].found \in BOOLEAN
        BY <2>1 DEF Job
      <3>2. [job[i] EXCEPT !.pc = "leadGet", !.call = call] =
               [job[i] EXCEPT !.pc = "leadGet", !.call = call, !.found = job[i].found]
        BY <2>1 DEF Job
      <3>3. job' = [job EXCEPT ![i] = [job[i] EXCEPT !.pc = "leadGet", !.call = call]]
        BY <2>4 DEF JobsGood
      <3>4. QED
        BY <2>2, <3>1, <3>2, <3>3
    <2>5. CASE GenerateLTPAConfig(i)
      <3> DEFINE call == IF job[i].key \in Cached.res THEN "config" ELSE "keyPeek"
      <3>1. call \in Call
        BY DEF Call
      <3>2. job' = [job EXCEPT ![i].pc = "leadGet", ![i].call = call]
        BY <2>5 DEF GenerateLTPAConfig
      <3> HIDE DEF call
      <3>3. QED
        BY <1>1, <2>4, <3>1, <3>2
    <2>6. CASE GetLTPAConfig(i)
      <3>1. job' = [job EXCEPT ![i].pc = "leadGet", ![i].call = "config2"]
        BY <1>3, <2>6 DEF GetLTPAConfig
      <3>2. "config2" \in Call
        BY DEF Call
      <3>3. QED
        BY <1>1, <2>4, <3>1, <3>2
    <2>7. QED
      BY <2>3, <2>5, <2>6
  <1>4. QED
    BY <1>2, <1>3

(* The deletion of a configuration made for an older key.                  *)
LEMMA StepDeleteOutdatedConfig ==
    ASSUME LogGood, JobsGood, NEW i \in Instance, DeleteOutdatedConfig(i)
    PROVE  LogGood' /\ JobsGood'
  <1> DEFINE s == [Stored EXCEPT !.res = @ \ {job[i].config}]
  <1>1. CASE UNCHANGED log
    BY <1>1, ReturnGood DEF DeleteOutdatedConfig, LogGood
  <1>2. CASE Push(s)
    <2>1. s \in Snapshot /\ s.tracker = Stored.tracker
      BY EndsGood DEF Snapshot
    <2> HIDE DEF s
    <2>2. QED
      BY <1>2, <2>1, EndsGood, PushGood, ReturnGood DEF DeleteOutdatedConfig
  <1>3. QED
    BY <1>1, <1>2 DEF DeleteOutdatedConfig

(* reconcileLeader decides who leads.                                      *)
LEMMA StepReconcileLeader ==
    ASSUME LogGood, JobsGood, NEW i \in Instance, ReconcileLeader(i)
    PROVE  LogGood' /\ JobsGood'
  <1>1. LogGood'
    BY DEF ReconcileLeader, LogGood
  <1>2. CASE Return(i)
    BY <1>1, <1>2, ReturnGood
  <1>3. CASE ~Return(i)
    <2> DEFINE elect == job[i].call # "keyPeek"
               r == ReconcileLeaderWithState(Read, i, CallName(i), CallPath(i), elect)
               j == [job[i] EXCEPT !.pc = "leadSave", !.list = r.list, !.leader = r.leader]
    <2>1. Readable /\ r.saves
          /\ job' = [job EXCEPT ![i].pc = "leadSave", ![i].list = r.list, ![i].leader = r.leader]
      BY <1>3 DEF ReconcileLeader
    <2>2. job[i] \in Job /\ GoodJob(job[i]) /\ job[i].pc = "leadGet"
      BY DEF JobsGood, ReconcileLeader
    <2>3. CallName(i) \in Name /\ CallPath(i) \in Path /\ CallPath(i) = PathOf[CallName(i)]
      BY <2>2, TreeAssumption DEF GoodJob, Named, CallName, CallPath
    <2>4. elect \in BOOLEAN
      OBVIOUS
    <2>5. r.list \in Seq(Entry) /\ GoodList(r.list) /\ r.leader \in Instance
      <3> HIDE DEF elect
      <3> QED BY <2>1, <2>3, <2>4, ReadGood, ElectionGood
    <2>6. job' = [job EXCEPT ![i] = j]
      <3> HIDE DEF r
      <3> QED BY <2>1 DEF JobsGood
    <2>7. /\ j \in Job /\ j.pc \in Named /\ GoodList(j.list)
          /\ j.conf = job[i].conf /\ j.key = job[i].key /\ j.config = job[i].config
      <3> HIDE DEF r
      <3> QED BY <2>2, <2>5 DEF Job, PC, Named, Owner
    <2> HIDE DEF j
    <2>8. JobsGood'
      BY <2>2, <2>6, <2>7, NamedGood DEF Named
    <2>9. QED
      BY <1>1, <2>8
  <1>4. QED
    BY <1>2, <1>3

(* reconcileLeader saves what it decided.                                  *)
LEMMA StepSaveLeader ==
    ASSUME LogGood, JobsGood, NEW i \in Instance, SaveLeader(i)
    PROVE  LogGood' /\ JobsGood'
  <1>1. /\ job[i] \in Job /\ GoodJob(job[i]) /\ job[i].pc = "leadSave"
        /\ job[i].list \in Seq(Entry) /\ GoodList(job[i].list)
    BY DEF JobsGood, SaveLeader, GoodJob, Job
  <1>2. LogGood'
    <2>1. CASE UNCHANGED log
      BY <2>1 DEF LogGood
    <2>2. QED
      BY <1>1, <2>1, SaveGood DEF SaveLeader
  <1> DEFINE next == AfterReconcileLeader(job[i], i)
             j == [job[i] EXCEPT !.pc = next, !.call = "none", !.found = FALSE,
                                 !.list = << >>, !.leader = ""]
  <1>3. JobsGood'
    <2>1. CASE Return(i)
      BY <2>1, ReturnGood
    <2>2. CASE ~Return(i)
      <3>1. next # "idle" /\ job' = [job EXCEPT ![i] = j]
        <4> HIDE DEF next
        <4> QED BY <2>2 DEF SaveLeader, Return, next, JobsGood
      <3>2. next \in {"configKeyGet", "keyCreate", "configGet", "configCreate"}
        <4>1. next \in {"configKeyGet", "keyCreate", "configGet", "configCreate", "idle"}
          BY DEF AfterReconcileLeader
        <4>2. QED
          BY <3>1, <4>1
      <3> HIDE DEF next
      <3>3. /\ j \in Job /\ j.pc \in Named /\ GoodList(j.list)
            /\ j.conf = job[i].conf /\ j.key = job[i].key /\ j.config = job[i].config
        BY <1>1, <3>2, EmptyGood DEF Job, PC, Named, Owner, Call
      <3> HIDE DEF j
      <3>4. QED
        BY <1>1, <3>1, <3>3, NamedGood DEF Named
    <2>3. QED
      BY <2>1, <2>2
  <1>4. QED
    BY <1>2, <1>3

(* CreateOrUpdate of a shared Secret.                                      *)
LEMMA StepCreateResource ==
    ASSUME LogGood, JobsGood, NEW i \in Instance, job[i].pc \in Named,
           NEW n \in Name, NEW next \in {"configKeyGet", "idle"}, CreateResource(i, n, next)
    PROVE  LogGood' /\ JobsGood'
  <1> DEFINE s == [Stored EXCEPT !.res = @ \union {n}]
  <1>1. LogGood'
    <2>1. CASE UNCHANGED log
      BY <2>1 DEF LogGood
    <2>2. CASE Push(s)
      <3>1. s \in Snapshot /\ s.tracker = Stored.tracker
        BY EndsGood DEF Snapshot
      <3> HIDE DEF s
      <3>2. QED
        BY <2>2, <3>1, EndsGood, PushGood
    <2>3. QED
      BY <2>1, <2>2 DEF CreateResource
  <1>2. Return(i) \/ Goto(i, "configKeyGet")
    BY DEF CreateResource
  <1>3. ASSUME Goto(i, "configKeyGet") PROVE JobsGood'
    BY <1>3, GotoGood DEF PC, Sharing, Named, Removing
  <1>4. QED
    BY <1>1, <1>2, <1>3, ReturnGood

(* The key or the configuration is created.                                *)
LEMMA StepCreate ==
    ASSUME LogGood, JobsGood, NEW i \in Instance, CreateLTPAKey(i) \/ CreateLTPAConfig(i)
    PROVE  LogGood' /\ JobsGood'
  <1>1. job[i].pc \in Named /\ job[i].key \in Name /\ job[i].config \in Name
    BY DEF CreateLTPAKey, CreateLTPAConfig, JobsGood, GoodJob, Named
  <1>2. CASE CreateLTPAKey(i)
    BY <1>1, <1>2, StepCreateResource DEF CreateLTPAKey
  <1>3. CASE CreateLTPAConfig(i)
    BY <1>1, <1>3, StepCreateResource DEF CreateLTPAConfig
  <1>4. QED
    BY <1>2, <1>3

(* What follows a removal that succeeded.                                  *)
LEMMA AfterRemovalGood ==
    ASSUME JobsGood, NEW i \in Instance, AfterRemoval(i),
           job[i].call \in {"keysOff", "configOff", "finalize"}
    PROVE  JobsGood'
  <1>1. CASE job[i].call = "keysOff"
    <2> DEFINE j == [IdleJob EXCEPT !.pc = "removeGet", !.call = "configOff"]
    <2>1. j \in Job
      BY IdleGood DEF Job, PC, Call
    <2>2. GoodJob(j)
      BY IdleGood DEF GoodJob, Job, Sharing, Named, Removing
    <2>3. job' = [job EXCEPT ![i] = j]
      BY <1>1 DEF AfterRemoval
    <2> HIDE DEF j
    <2>4. QED
      BY <2>1, <2>2, <2>3, JobGood
  <1>2. CASE job[i].call = "configOff"
    BY <1>2, ReturnGood DEF AfterRemoval
  <1>3. CASE job[i].call = "finalize"
    <2>1. Goto(i, "dropFinalizer")
      BY <1>3 DEF AfterRemoval
    <2>2. QED
      BY <2>1, GotoGood DEF PC, Sharing, Named, Removing
  <1>4. QED
    BY <1>1, <1>2, <1>3

(* RemoveLeader reads, deletes or saves.                                   *)
LEMMA StepRemove ==
    ASSUME LogGood, JobsGood, NEW i \in Instance,
           RemoveLeader(i) \/ RemoveLeaderDelete(i) \/ RemoveLeaderSave(i)
    PROVE  LogGood' /\ JobsGood'
  <1>1. /\ job[i] \in Job /\ GoodJob(job[i]) /\ job[i].pc \in Removing
        /\ job[i].call \in {"keysOff", "configOff", "finalize"}
        /\ job[i].list \in Seq(Entry) /\ GoodList(job[i].list)
    BY DEF JobsGood, GoodJob, Job, RemoveLeader, RemoveLeaderDelete, RemoveLeaderSave, Removing
  <1>a. ASSUME UNCHANGED log PROVE LogGood'
    BY <1>a DEF LogGood
  <1>b. ASSUME AfterRemoval(i) PROVE JobsGood'
    BY <1>1, <1>b, AfterRemovalGood
  <1>2. CASE RemoveLeader(i)
    <2>1. LogGood'
      BY <1>2, <1>a DEF RemoveLeader
    <2> DEFINE list == [k \in DOMAIN Read |-> ClearOwnerIfMatching(Read[k], i)]
    <2>2. CASE Goto(i, "removeDelete")
      <3>1. JobsGood'
        BY <1>1, <2>2, GotoGood DEF PC, Sharing, Named, Removing
      <3>2. QED
        BY <2>1, <3>1
    <2>3. CASE /\ Readable
               /\ job' = [job EXCEPT ![i].pc = "removeSave", ![i].list = list]
      <3>1. list \in Seq(Entry) /\ GoodList(list)
        BY <2>3, ReadGood, RemovalGood
      <3> HIDE DEF list
      <3> DEFINE j == [job[i] EXCEPT !.pc = "removeSave", !.list = list]
      <3>2. j \in Job
        BY <1>1, <3>1 DEF Job, PC
      <3>3. GoodJob(j)
        BY <1>1, <3>1 DEF GoodJob, Job, Sharing, Named, Removing
      <3>4. job' = [job EXCEPT ![i] = j]
        BY <2>3 DEF JobsGood
      <3> HIDE DEF j
      <3>5. JobsGood'
        BY <3>2, <3>3, <3>4, JobGood
      <3>6. QED
        BY <2>1, <3>5
    <2>4. QED
      BY <1>2, <1>b, <2>1, <2>2, <2>3 DEF RemoveLeader
  <1>3. CASE RemoveLeaderDelete(i)
    BY <1>3, <1>a, <1>b, DeleteTrackerGood DEF RemoveLeaderDelete
  <1>4. CASE RemoveLeaderSave(i)
    <2>1. LogGood'
      BY <1>1, <1>4, <1>a, SaveGood DEF RemoveLeaderSave
    <2>2. ASSUME Goto(i, "dropFinalizer") PROVE JobsGood'
      BY <2>2, GotoGood DEF PC, Sharing, Named, Removing
    <2>3. ASSUME AfterFailedRemoval(i) PROVE JobsGood'
      BY <2>2, <2>3, ReturnGood DEF AfterFailedRemoval
    <2>4. QED
      BY <1>4, <1>b, <2>1, <2>3 DEF RemoveLeaderSave
  <1>5. QED
    BY <1>2, <1>3, <1>4

(* Every step of a reconcile.                                              *)
LEMMA StepGood ==
    ASSUME LogGood, JobsGood, RestGood, NEW i \in Instance, Step(i)
    PROVE  LogGood' /\ JobsGood' /\ RestGood'
  <1>1. CASE WaitForLeaderTracker(i)
    <2>1. LogGood' /\ RestGood'
      BY <1>1 DEF WaitForLeaderTracker, LogGood, RestGood
    <2>2. JobsGood'
      BY <1>1, ReturnGood DEF WaitForLeaderTracker
    <2>3. QED
      BY <2>1, <2>2
  <1>2. CASE DropFinalizer(i)
    <2>1. LogGood' /\ RestGood'
      BY <1>2 DEF DropFinalizer, LogGood, RestGood
    <2>2. JobsGood'
      BY <1>2, ReturnGood DEF DropFinalizer
    <2>3. QED
      BY <2>1, <2>2
  <1>3. CASE ~WaitForLeaderTracker(i) /\ ~DropFinalizer(i)
    <2>1. UNCHANGED << life, want, edits, faults >>
      BY <1>3 DEF Step, DeleteOutOfSync, ReconcileLeaderTracker, CreateNewLeaderTrackerList,
                  CreateLeaderTracker, ReconcileMetadataKey, ReconcileMetadataConfig,
                  GenerateLTPAKeys, GenerateLTPAConfig, GetLTPAConfig, ReconcileLeader, DeleteOutdatedConfig,
                  SaveLeader, CreateLTPAKey, CreateLTPAConfig, RemoveLeader,
                  RemoveLeaderDelete, RemoveLeaderSave
    <2>2. RestGood'
      BY <2>1 DEF RestGood
    <2>3. LogGood' /\ JobsGood'
      BY <1>3, StepDeleteOutOfSync, StepReconcileLeaderTracker,
         StepCreateNewLeaderTrackerList, StepCreateLeaderTracker, StepReconcileMetadataKey,
         StepReconcileMetadataConfig, StepGenerate, StepDeleteOutdatedConfig, StepReconcileLeader, StepSaveLeader,
         StepCreate, StepRemove DEF Step
    <2>4. QED
      BY <2>2, <2>3
  <1>4. QED
    BY <1>1, <1>2, <1>3

-----------------------------------------------------------------------------
(* What happens around the reconciles.                                     *)

(* A worker takes up an instance.                                          *)
LEMMA StartGood ==
    ASSUME LogGood, JobsGood, RestGood, NEW i \in Instance,
           StartReconcile(i) \/ StartFinalize(i)
    PROVE  LogGood' /\ JobsGood' /\ RestGood'
  <1>1. LogGood' /\ RestGood'
    BY DEF StartReconcile, StartFinalize, LogGood, RestGood
  <1>2. CASE StartReconcile(i) /\ want[i] = Disabled
    <2> DEFINE j == [IdleJob EXCEPT !.pc = "removeGet", !.call = "keysOff"]
    <2>1. j \in Job /\ GoodJob(j)
      <3>1. j \in Job
        BY <1>2, IdleGood DEF Job, PC, Call, RestGood
      <3>2. GoodJob(j)
        BY <1>2, IdleGood DEF GoodJob, Job, Sharing, Named, Removing, RestGood
      <3>3. QED
        BY <3>1, <3>2
    <2>2. job' = [job EXCEPT ![i] = j]
      BY <1>2 DEF StartReconcile
    <2> HIDE DEF j
    <2>3. QED
      BY <1>1, <2>1, <2>2, JobGood
  <1>3. CASE StartReconcile(i) /\ want[i] # Disabled
    <2> DEFINE j == [IdleJob EXCEPT !.pc = "track", !.conf = want[i]]
    <2>1. j \in Job /\ GoodJob(j)
      <3>1. j \in Job
        BY <1>3, IdleGood DEF Job, PC, Call, RestGood
      <3>2. GoodJob(j)
        BY <1>3, IdleGood DEF GoodJob, Job, Sharing, Named, Removing, RestGood
      <3>3. QED
        BY <3>1, <3>2
    <2>2. job' = [job EXCEPT ![i] = j]
      BY <1>3 DEF StartReconcile
    <2> HIDE DEF j
    <2>3. QED
      BY <1>1, <2>1, <2>2, JobGood
  <1>4. CASE StartFinalize(i)
    <2> DEFINE j == [IdleJob EXCEPT !.pc = "removeGet", !.call = "finalize"]
    <2>1. j \in Job /\ GoodJob(j)
      <3>1. j \in Job
        BY <1>4, IdleGood DEF Job, PC, Call, RestGood
      <3>2. GoodJob(j)
        BY <1>4, IdleGood DEF GoodJob, Job, Sharing, Named, Removing, RestGood
      <3>3. QED
        BY <3>1, <3>2
    <2>2. job' = [job EXCEPT ![i] = j]
      BY <1>4 DEF StartFinalize
    <2> HIDE DEF j
    <2>3. QED
      BY <1>1, <2>1, <2>2, JobGood
  <1>5. QED
    BY <1>2, <1>3, <1>4

(* A failed call, a restart, or a watch event.                             *)
LEMMA FaultsGood ==
    ASSUME LogGood, JobsGood, RestGood,
           (\E i \in Instance : ApiError(i)) \/ RestartOperator \/ DeliverEvent
    PROVE  LogGood' /\ JobsGood' /\ RestGood'
  <1>1. CASE \E i \in Instance : ApiError(i)
    <2>1. PICK i \in Instance : ApiError(i)
      BY <1>1
    <2>2. LogGood'
      BY <2>1 DEF ApiError, LogGood
    <2>3. RestGood'
      BY <2>1, BoundAssumption DEF ApiError, Fault, RestGood
    <2>4. ASSUME Goto(i, "dropFinalizer") PROVE JobsGood'
      BY <2>4, GotoGood DEF PC, Sharing, Named, Removing
    <2>5. QED
      BY <2>1, <2>2, <2>3, <2>4, ReturnGood DEF ApiError
  <1>2. CASE RestartOperator
    <2>1. LogGood'
      <3>1. log' = << Stored >>
        BY <1>2 DEF RestartOperator
      <3> DEFINE s == Stored
      <3>2. s \in Snapshot /\ GoodData(s.tracker.data) /\ log' = << s >>
        BY <3>1, EndsGood
      <3> HIDE DEF s
      <3>3. QED
        BY <3>2 DEF LogGood
    <2>2. RestGood'
      BY <1>2, BoundAssumption DEF RestartOperator, Fault, RestGood
    <2>3. JobsGood'
      BY <1>2, IdleGood DEF RestartOperator, JobsGood
    <2>4. QED
      BY <2>1, <2>2, <2>3
  <1>3. CASE DeliverEvent
    <2>1. JobsGood' /\ RestGood'
      BY <1>3 DEF DeliverEvent, JobsGood, RestGood
    <2>2. /\ log \in Seq(Snapshot) /\ Len(log) \in Nat /\ DOMAIN log = 1 .. Len(log)
          /\ Len(log) > 1 /\ log' = Tail(log)
      BY <1>3 DEF DeliverEvent, LogGood
    <2>3. /\ log' \in Seq(Snapshot)
          /\ DOMAIN log' = 1 .. Len(log) - 1
          /\ \A k \in 1 .. Len(log) - 1 : log'[k] = log[k + 1]
      BY <2>2
    <2>4. log' # << >>
      <3>1. 1 \in DOMAIN log'
        BY <2>2, <2>3
      <3>2. DOMAIN << >> = {}
        OBVIOUS
      <3>3. QED
        BY <3>1, <3>2, Zenon
    <2>5. \A k \in DOMAIN log' : k + 1 \in DOMAIN log /\ log'[k] = log[k + 1]
      BY <2>2, <2>3
    <2>6. LogGood'
      BY <2>3, <2>4, <2>5 DEF LogGood
    <2>7. QED
      BY <2>1, <2>6
  <1>4. QED
    BY <1>1, <1>2, <1>3

(* Users edit custom resources and delete Secrets.                         *)
LEMMA UsersGood ==
    ASSUME LogGood, JobsGood, RestGood,
           (\E i \in Instance : User(i)) \/ (\E n \in Name : DeleteSharedResource(n))
    PROVE  LogGood' /\ JobsGood' /\ RestGood'
  <1>1. CASE \E i \in Instance : User(i)
    <2>1. PICK i \in Instance : CreateInstance(i) \/ EditInstance(i) \/ DeleteInstance(i)
      BY <1>1 DEF User
    <2>2. LogGood' /\ JobsGood'
      BY <2>1 DEF CreateInstance, EditInstance, DeleteInstance, LogGood, JobsGood
    <2>3. edits' \in 0 .. MaxUserEdits /\ faults' \in 0 .. MaxFaults
      BY <2>1, BoundAssumption
         DEF CreateInstance, EditInstance, DeleteInstance, UserEdit, RestGood
    <2>4. /\ life' \in [Instance -> {"absent", "created", "active", "deleting"}]
          /\ want' \in [Instance -> ConfigPath \union {Disabled}]
      BY <2>1 DEF CreateInstance, EditInstance, DeleteInstance, RestGood
    <2>5. QED
      BY <2>2, <2>3, <2>4 DEF RestGood
  <1>2. CASE \E n \in Name : DeleteSharedResource(n)
    <2>1. PICK n \in Name : DeleteSharedResource(n)
      BY <1>2
    <2>2. JobsGood'
      BY <2>1 DEF DeleteSharedResource, JobsGood
    <2>3. RestGood'
      BY <2>1, BoundAssumption DEF DeleteSharedResource, UserEdit, RestGood
    <2> DEFINE s == [Stored EXCEPT !.res = @ \ {n}]
    <2>4. s \in Snapshot /\ s.tracker = Stored.tracker
      BY EndsGood DEF Snapshot
    <2>5. Push(s)
      BY <2>1 DEF DeleteSharedResource
    <2> HIDE DEF s
    <2>6. LogGood'
      BY <2>4, <2>5, EndsGood, PushGood
    <2>7. QED
      BY <2>2, <2>3, <2>6
  <1>3. QED
    BY <1>1, <1>2

(* The initial states are good.                                            *)
LEMMA InitGood == Init => LogGood /\ JobsGood /\ RestGood
  <1> SUFFICES ASSUME Init PROVE LogGood /\ JobsGood /\ RestGood
    OBVIOUS
  <1>1. JobsGood
    BY IdleGood DEF Init, JobsGood
  <1>2. RestGood
    BY BoundAssumption DEF Init, RestGood
  <1>3. PICK t \in InitialTrackers, res \in InitialResources :
           log = << [tracker |-> t, res |-> res] >>
    BY DEF Init
  <1>4. t \in Tracker /\ GoodData(t.data)
    BY NoTrackerGood, OutOfSyncGood DEF InitialTrackers, Tracker
  <1> DEFINE s == [tracker |-> t, res |-> res]
  <1>5. s \in Snapshot /\ s.tracker = t /\ log = << s >>
    BY <1>3, <1>4, TreeAssumption DEF Snapshot
  <1> HIDE DEF s
  <1>6. LogGood
    BY <1>4, <1>5 DEF LogGood
  <1>7. QED
    BY <1>1, <1>2, <1>6

-----------------------------------------------------------------------------
(* The invariant, and what it implies.                                     *)

(* However the reconciles of any number of instances interleave, whatever  *)
(* fails and however stale the cache is, every tracker and every list a    *)
(* reconcile holds is good: what is written is what some list reads back   *)
(* as, with unique names, each for the path it was drawn for, and at most  *)
(* one leadership per instance and parent.                                 *)
THEOREM Invariance == Spec => []IInv
  <1>1. Init => IInv
    BY InitGood, Parts
  <1>2. IInv /\ [Next]_vars => IInv'
    <2> SUFFICES ASSUME LogGood, JobsGood, RestGood, [Next]_vars
                 PROVE  LogGood' /\ JobsGood' /\ RestGood'
      BY Parts DEF IInv, TypeOK, GoodState, LogGood, JobsGood, RestGood
    <2>1. CASE UNCHANGED vars
      BY <2>1 DEF vars, LogGood, JobsGood, RestGood
    <2>2. CASE Next
      BY <2>2, StepGood, StartGood, FaultsGood, UsersGood DEF Next
    <2>3. QED
      BY <2>1, <2>2
  <1>3. QED
    BY <1>1, <1>2, PTL DEF Spec

(* The type invariant.                                                     *)
THEOREM TypeCorrect == Spec => []TypeOK
  <1>1. IInv => TypeOK
    BY DEF IInv
  <1>2. QED
    BY <1>1, Invariance, PTL

(* In a state of the invariant every tracker and every held list is good.  *)
LEMMA ListsGood == IInv => \A list \in Lists : GoodList(list)
  BY DEF IInv, GoodState, Lists, TrackerLists, GoodData, GoodJob

(* reconcileLeader never produces, and no interleaving of reads and saves  *)
(* ever lets through, a tracker in which an instance leads two resources   *)
(* that share a path parent.                                               *)
THEOREM OwnerCycleFree == Spec => []NoOwnerCycle
  <1>1. IInv => NoOwnerCycle
    BY ListsGood DEF NoOwnerCycle, GoodList
  <1>2. QED
    BY <1>1, Invariance, PTL

(* No tracker ever has two entries for the same resource.                  *)
THEOREM NamesUnique == Spec => []UniqueNames
  <1>1. IInv => UniqueNames
    BY ListsGood DEF UniqueNames, GoodList
  <1>2. QED
    BY <1>1, Invariance, PTL

=============================================================================
