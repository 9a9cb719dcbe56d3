--------------------------- MODULE LeaderTracker ---------------------------
(***************************************************************************)
(* The list the operator keeps of the shared resources of one namespace    *)
(* (utils/leader_tracker.go) and how it is written to, and read back from, *)
(* the leader-tracking Secret.                                             *)
(*                                                                         *)
(* An entry says that resource `name' (the suffix of a Secret's name)      *)
(* holds what decision-tree path `path' stands for, and that instance      *)
(* `owner' is responsible for it ("" when nobody is).  The path index of   *)
(* an entry is the index of its path in the tree, a bijection, so entries  *)
(* carry the path only.                                                    *)
(*                                                                         *)
(* In the Secret each column of the list is one comma-separated string.    *)
(* A string is represented by the sequence of its tokens; the empty        *)
(* string, which is both what joining no token and what joining one empty  *)
(* token gives, by the empty sequence.                                     *)
(***************************************************************************)
EXTENDS Integers, Sequences

CONSTANTS Instance,        \* names of OpenLibertyApplication instances
          Name,            \* suffixes of shared resources
          Path,            \* valid paths of the decision tree
          LastPathParent   \* what precedes the last "." of a path

ASSUME InstanceAssumption == "" \notin Instance
ASSUME PathAssumption == "" \notin Path

Owner == Instance \union {""}
Entry == [name : Name, owner : Owner, path : Path]

NamesOf(list) == {list[k].name : k \in DOMAIN list}
OwnersOf(list) == {list[k].owner : k \in DOMAIN list} \ {""}

-----------------------------------------------------------------------------
(* Methods of an entry.                                                    *)

SetOwner(tracker, instance) == [tracker EXCEPT !.owner = instance]

(* Mutant: forgets to clear.                                               *)
ClearOwnerIfMatching_Kept(tracker, instance) == tracker

ClearOwnerIfMatching(tracker, instance) ==
    IF tracker.owner = instance THEN [tracker EXCEPT !.owner = ""] ELSE tracker

(* Every path of Path contains a ".", so both of them have a parent.       *)
SharesLastPathParent(path1, path2) == LastPathParent[path1] = LastPathParent[path2]

ClearOwnerIfMatchingAndSharesLastPathParent(tracker, instance, path) ==
    IF tracker.owner = instance /\ SharesLastPathParent(path, tracker.path)
    THEN [tracker EXCEPT !.owner = ""]
    ELSE tracker

-----------------------------------------------------------------------------
(* The Secret's data.                                                      *)

Join(tokens) == IF tokens = << "" >> THEN << >> ELSE tokens
Split(string) == IF string = << >> THEN << "" >> ELSE string

CustomizeLeaderTracker(list) ==
    [owners |-> Join([k \in DOMAIN list |-> list[k].owner]),
     names  |-> Join([k \in DOMAIN list |-> list[k].name]),
     paths  |-> Join([k \in DOMAIN list |-> list[k].path])]

IsEmptyData(data) ==
    data.owners = << >> /\ data.names = << >> /\ data.paths = << >>

(* The columns have the same number of tokens, or there is nothing.        *)
InSync(data) ==
    \/ IsEmptyData(data)
    \/ /\ Len(Split(data.owners)) = Len(Split(data.names))
       /\ Len(Split(data.names)) = Len(Split(data.paths))

(* What GetLeaderTracker returns for data that is in sync.                 *)
GetLeaderTracker(data) ==
    IF IsEmptyData(data) THEN << >>
    ELSE [k \in DOMAIN Split(data.owners) |->
            [name  |-> Split(data.names)[k],
             owner |-> Split(data.owners)[k],
             path  |-> Split(data.paths)[k]]]

(* Index of the first token equal to value, 0 if there is none.            *)
CommaSeparatedStringContains(string, value) ==
    IF \E k \in DOMAIN string : string[k] = value
    THEN CHOOSE k \in DOMAIN string :
            /\ string[k] = value
            /\ \A j \in DOMAIN string : string[j] = value => k <= j
    ELSE 0

GetCommaSeparatedString(string, index) == Split(string)[index]

=============================================================================
