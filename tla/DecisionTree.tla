---------------------------- MODULE DecisionTree ----------------------------
(***************************************************************************)
(* The decision trees (utils/tree/tree.go) and the migration of the labels *)
(* of shared resources when another version of the operator runs           *)
(* (resource_sharing.go, GetLTPAKeyResources in ltpa_keys_sharing.go).     *)
(* A decision tree has a subtree for each version in which the choices     *)
(* changed, and for each version replacements of paths of other versions.  *)
(* A resource is labelled with a version and the index of a leaf; when     *)
(* another version runs, the label is translated by way of the paths.      *)
(*                                                                         *)
(* A path is the sequence of its segments, the first one a version, and a  *)
(* version is the triple of its numbers.                                   *)
(***************************************************************************)
EXTENDS Integers, Sequences, FiniteSets, SequencesExt

CONSTANTS Docs,          \* decision trees: [tree |-> ..., replace |-> ...]
          KeyOrder,      \* the keys of all maps, in alphabetical order
          Operands,      \* versions of the operator
          Resource,      \* names of resources; one is DefaultName
          DefaultName,   \* "olo-managed-ltpa", which release 1.3.3 creates
          DefaultPath,   \* its path
          MaxChanges,    \* bound: changes of the operator's version
          MaxFaults      \* bound: failed updates and restarts

(* No two paths of one version are replaced by the same path, as in the    *)
(* trees the operator comes with.                                          *)
ASSUME DecisionTreeAssumption ==
    /\ \A d \in Docs : \A v \in DOMAIN d.replace :
         \A p, q \in DOMAIN d.replace[v] :
            d.replace[v][p] = d.replace[v][q] => p = q
    /\ DefaultName \in Resource
    /\ MaxChanges \in Nat /\ MaxFaults \in Nat

VARIABLES doc,        \* the decision tree of the operator
          operand,    \* version of the running operator
          label,      \* resource -> label, of those that exist
          phase,      \* of the reconcile: "default", "update", "done"
          todo,       \* resources whose labels the reconcile has yet to look at
          born,       \* resource -> path it was created for
          changes, faults

vars == << doc, operand, label, phase, todo, born, changes, faults >>

-----------------------------------------------------------------------------
(* Versions.                                                               *)

CompareOperandVersion(a, b) ==
    LET differ == {i \in 1 .. 3 : a[i] # b[i]}
    IN  IF differ = {} THEN 0
        ELSE LET i == CHOOSE i \in differ : \A j \in differ : i <= j IN a[i] - b[i]

Version(path) == path[1]

(* << >> when no version of the tree is old enough.                        *)
getLatestTreeMapOperandVersion(tree, maxVersion) ==
    LET old == {v \in DOMAIN tree : CompareOperandVersion(maxVersion, v) >= 0}
    IN  IF old = {} THEN << >>
        ELSE CHOOSE v \in old : \A w \in old : CompareOperandVersion(w, v) <= 0

-----------------------------------------------------------------------------
(* Trees: a node is a leaf, a map or a list.                               *)

Leaf(value) == [kind |-> "leaf", value |-> value]
Map(kids) == [kind |-> "map", kids |-> kids]
List(kids) == [kind |-> "list", kids |-> kids]

getSortedKeysFromMapInterface(node) == SelectSeq(KeyOrder, LAMBDA key : key \in DOMAIN node.kids)

(* The iterative traversal that GetPathFromLeafIndex and GetLeafIndex      *)
(* share, to the paths of the leaves in the order in which they are seen.  *)
(* index is that of the kid pushed last, from -1.                          *)

(* Mutant: the last kid of a list is not pushed.                           *)
RECURSIVE Traverse_ShortList(_, _)
Traverse_ShortList(stack, seen) ==
    IF stack = << >> THEN seen
    ELSE LET top == Last(stack)
             rest == Front(stack)
             Push(path, kid) == Append(Append(rest, [top EXCEPT !.index = @ + 1]),
                                       [path |-> path, node |-> kid, index |-> -1])
         IN  IF top.node.kind = "leaf" THEN Traverse_ShortList(rest, Append(seen, Append(top.path, top.node.value)))
             ELSE IF top.index >= Cardinality(DOMAIN top.node.kids) - (IF top.node.kind = "list" THEN 2 ELSE 1)
                  THEN Traverse_ShortList(rest, seen)
             ELSE IF top.node.kind = "map"
             THEN LET key == getSortedKeysFromMapInterface(top.node)[top.index + 2]
                  IN  Traverse_ShortList(Push(Append(top.path, key), top.node.kids[key]), seen)
             ELSE Traverse_ShortList(Push(top.path, top.node.kids[top.index + 2]), seen)

RECURSIVE Traverse(_, _)
Traverse(stack, seen) ==
    IF stack = << >> THEN seen
    ELSE LET top == Last(stack)
             rest == Front(stack)
             Push(path, kid) == Append(Append(rest, [top EXCEPT !.index = @ + 1]),
                                       [path |-> path, node |-> kid, index |-> -1])
         IN  IF top.node.kind = "leaf" THEN Traverse(rest, Append(seen, Append(top.path, top.node.value)))
             ELSE IF top.index >= Cardinality(DOMAIN top.node.kids) - 1 THEN Traverse(rest, seen)
             ELSE IF top.node.kind = "map"
             THEN LET key == getSortedKeysFromMapInterface(top.node)[top.index + 2]
                  IN  Traverse(Push(Append(top.path, key), top.node.kids[key]), seen)
             ELSE Traverse(Push(top.path, top.node.kids[top.index + 2]), seen)

LeavesSeen(tree, version) ==
    IF version \notin DOMAIN tree THEN << >>
    ELSE Traverse(<< [path |-> << version >>, node |-> tree[version], index |-> -1] >>, << >>)

(* << >> when there is no such leaf.                                       *)
GetPathFromLeafIndex(tree, version, index) ==
    LET leaves == LeavesSeen(tree, version)
    IN  IF index \in 0 .. Len(leaves) - 1 THEN leaves[index + 1] ELSE << >>

GetLeafIndex(tree, path) ==
    LET leaves == LeavesSeen(tree, Version(path))
        at == {i \in DOMAIN leaves : leaves[i] = path}
    IN  IF at = {} THEN -1 ELSE (CHOOSE i \in at : \A j \in at : i <= j) - 1

-----------------------------------------------------------------------------
(* CanTraverseTree: << >> stands for an error.  The path of a version that *)
(* is a leaf itself is accepted with any value.                            *)

getCastedListElement(kids, path, element) ==
    IF \E i \in DOMAIN kids : kids[i] = Leaf(element) THEN Append(path, element) ELSE << >>

RECURSIVE Walk(_, _, _, _)
Walk(kids, path, i, allowSubPaths) ==
    IF path[i] \notin DOMAIN kids THEN << >>
    ELSE LET node == kids[path[i]]
             walked == SubSeq(path, 1, i)
         IN  CASE node.kind = "list" /\ (allowSubPaths \/ i = Len(path) - 1)
                    -> getCastedListElement(node.kids, walked, path[i + 1])
               [] node.kind = "leaf" /\ (allowSubPaths \/ i = Len(path) - 1)
                    -> IF i < Len(path) - 1 \/ path[i + 1] = node.value
                       THEN Append(walked, node.value) ELSE << >>
               [] node.kind = "map" /\ i < Len(path) - 1
                    -> Walk(node.kids, path, i + 1, allowSubPaths)
               [] OTHER -> << >>

CanTraverseTree(tree, path, allowSubPaths) ==
    CASE Len(path) < 2 -> << >>
      [] Len(path) = 2 -> IF Version(path) \in DOMAIN tree THEN path ELSE << >>
      [] OTHER -> Walk(tree, path, 1, allowSubPaths)

(* Mutant: the paths that replace others are not looked up.                *)
ValidateMaps_KeysOnly(d) ==
    /\ \A v \in DOMAIN d.tree : GetPathFromLeafIndex(d.tree, v, 0) # << >>
    /\ DOMAIN d.replace \subseteq DOMAIN d.tree
    /\ \A v \in DOMAIN d.replace : \A p \in DOMAIN d.replace[v] :
         CanTraverseTree(d.tree, p, FALSE) # << >>

ValidateMaps(d) ==
    /\ \A v \in DOMAIN d.tree : GetPathFromLeafIndex(d.tree, v, 0) # << >>
    /\ DOMAIN d.replace \subseteq DOMAIN d.tree
    /\ \A v \in DOMAIN d.replace : \A p \in DOMAIN d.replace[v] :
         /\ CanTraverseTree(d.tree, p, FALSE) # << >>
         /\ CanTraverseTree(d.tree, d.replace[v][p], FALSE) # << >>

-----------------------------------------------------------------------------
(* ReplacePath.                                                            *)

(* The paths a downgrade may end with: Go iterates over maps in any order. *)
(* Mutant: a path below the version to reach may be taken.                 *)
RECURSIVE Downgrade_TooFar(_, _, _)
Downgrade_TooFar(d, path, latest) ==
    LET v == Version(path)
        former == IF v \notin DOMAIN d.replace THEN {}
                  ELSE {p \in DOMAIN d.replace[v] :
                          /\ d.replace[v][p] = path
                          /\ CompareOperandVersion(v, Version(p)) > 0}
    IN  IF former = {} THEN {path} ELSE UNION {Downgrade_TooFar(d, p, latest) : p \in former}

RECURSIVE Downgrade(_, _, _)
Downgrade(d, path, latest) ==
    LET v == Version(path)
        former == IF v \notin DOMAIN d.replace THEN {}
                  ELSE {p \in DOMAIN d.replace[v] :
                          /\ d.replace[v][p] = path
                          /\ CompareOperandVersion(v, Version(p)) > 0
                          /\ CompareOperandVersion(Version(p), latest) >= 0}
    IN  IF former = {} THEN {path} ELSE UNION {Downgrade(d, p, latest) : p \in former}

(* Replacements in the order of versions, until the target is reached.     *)
RECURSIVE Upgrade(_, _, _, _)
Upgrade(d, path, target, versions) ==
    IF versions = << >> \/ Version(path) = target THEN path
    ELSE LET replace == d.replace[Head(versions)]
         IN  Upgrade(d, IF path \in DOMAIN replace THEN replace[path] ELSE path, target, Tail(versions))

getSortedKeysFromReplaceMap(d) ==
    SetToSortSeq(DOMAIN d.replace, LAMBDA v, w : CompareOperandVersion(v, w) < 0)

(* When no version is later than the path's, the loop starts at the last.  *)
ReplacePath(d, path, target) ==
    LET cmp == CompareOperandVersion(Version(path), target)
        keys == getSortedKeysFromReplaceMap(d)
        later == SelectSeq(keys, LAMBDA v : CompareOperandVersion(v, Version(path)) > 0)
    IN  CASE cmp > 0 -> Downgrade(d, path, getLatestTreeMapOperandVersion(d.tree, target))
          [] cmp < 0 -> {Upgrade(d, path, target,
                                 IF later = << >> /\ keys # << >> THEN << Last(keys) >> ELSE later)}
          [] cmp = 0 -> {path}

-----------------------------------------------------------------------------
(* The labels of the resources.                                            *)

NoLabel == << >>          \* of the resource of release 1.3.3
Latest == getLatestTreeMapOperandVersion(doc.tree, operand)
PathIndex(path) == << Version(path), GetLeafIndex(doc.tree, path) >>
PathOf(l) == GetPathFromLeafIndex(doc.tree, l[1], l[2])

(* The labels a label may be translated to.                                *)
Translations(l) ==
    IF l[1] = Latest \/ PathOf(l) = << >> THEN {l}
    ELSE {PathIndex(p) : p \in ReplacePath(doc, PathOf(l), Latest)}

HasDefaultLTPAKeyCollision(index) ==
    \E r \in DOMAIN label \ {DefaultName} : index \in Translations(label[r])

(* Mutant: the resource of release 1.3.3 is labelled in any case.          *)
GetLTPAKeyResources_NoCheck ==
    /\ phase = "default"
    /\ IF DefaultName \in DOMAIN label
       THEN \E p \in ReplacePath(doc, DefaultPath, Latest) :
              label' = [label EXCEPT ![DefaultName] = PathIndex(p)]
       ELSE UNCHANGED label
    /\ phase' = "update" /\ todo' = DOMAIN label
    /\ UNCHANGED << doc, operand, born, changes, faults >>

(* GetLTPAKeyResources: the resource of release 1.3.3 gets a label, unless *)
(* another one has it.  Its path is always that of release 1.3.3.          *)
GetLTPAKeyResources ==
    /\ phase = "default"
    /\ IF DefaultName \in DOMAIN label
       THEN \E p \in ReplacePath(doc, DefaultPath, Latest) :
              label' = IF HasDefaultLTPAKeyCollision(PathIndex(p)) THEN label
                       ELSE [label EXCEPT ![DefaultName] = PathIndex(p)]
       ELSE UNCHANGED label
    /\ phase' = "update" /\ todo' = DOMAIN label
    /\ UNCHANGED << doc, operand, born, changes, faults >>

(* UpdateLeaderTrackersFromUnstructuredList, one resource.                 *)
UpdateLeaderTracker(r) ==
    /\ phase = "update" /\ r \in todo
    /\ todo' = todo \ {r}
    /\ IF label[r] = NoLabel THEN UNCHANGED label
       ELSE \E l \in Translations(label[r]) : label' = [label EXCEPT ![r] = l]
    /\ UNCHANGED << doc, operand, phase, born, changes, faults >>

EndUpdate ==
    /\ phase = "update" /\ todo = {}
    /\ phase' = "done"
    /\ UNCHANGED << doc, operand, label, todo, born, changes, faults >>

(* The update of a label fails, or the operator is restarted.              *)
Restart ==
    /\ faults < MaxFaults /\ faults' = faults + 1
    /\ phase # "default" /\ phase' = "default" /\ todo' = {}
    /\ UNCHANGED << doc, operand, label, born, changes >>

(* reconcileLTPAMetadata and the leader: a resource for a path of the      *)
(* latest version that no resource is labelled with.                       *)
CreateResource(r, path) ==
    /\ phase = "done"
    /\ r # DefaultName /\ r \notin DOMAIN label
    /\ PathIndex(path) \notin {label[t] : t \in DOMAIN label}
    /\ label' = label @@ r :> PathIndex(path)
    /\ born' = born @@ r :> path
    /\ UNCHANGED << doc, operand, phase, todo, changes, faults >>

(* Another version of the operator is installed; release 1.3.3 creates its *)
(* own resource if there is none.                                          *)
ChangeOperator(v) ==
    /\ changes < MaxChanges /\ changes' = changes + 1
    /\ v # operand /\ operand' = v
    /\ phase' = "default" /\ todo' = {}
    /\ UNCHANGED << doc, label, born, faults >>

RunOldRelease ==
    /\ changes < MaxChanges /\ changes' = changes + 1
    /\ Version(DefaultPath) \in DOMAIN doc.tree /\ DefaultName \notin DOMAIN label
    /\ label' = label @@ DefaultName :> NoLabel
    /\ born' = born @@ DefaultName :> DefaultPath
    /\ phase' = "default" /\ todo' = {}
    /\ UNCHANGED << doc, operand, faults >>

Init ==
    /\ doc \in {d \in Docs : ValidateMaps(d)}
    /\ operand \in {v \in Operands : getLatestTreeMapOperandVersion(doc.tree, v) # << >>}
    /\ label = << >> /\ born = << >>
    /\ phase = "default" /\ todo = {}
    /\ changes = 0 /\ faults = 0

Next ==
    \/ GetLTPAKeyResources
    \/ \E r \in DOMAIN label : UpdateLeaderTracker(r)
    \/ EndUpdate \/ Restart \/ RunOldRelease
    \/ \E r \in Resource, path \in ToSet(LeavesSeen(doc.tree, Latest)) : CreateResource(r, path)
    \/ \E v \in Operands : getLatestTreeMapOperandVersion(doc.tree, v) # << >> /\ ChangeOperator(v)

Spec == Init /\ [][Next]_vars

-----------------------------------------------------------------------------
(* The leaves of a node in order, by recursion over the tree.              *)
RECURSIVE Leaves(_, _)
Leaves(node, path) ==
    CASE node.kind = "leaf" -> << Append(path, node.value) >>
      [] node.kind = "map" ->
           LET keys == getSortedKeysFromMapInterface(node)
           IN  FlattenSeq([i \in DOMAIN keys |-> Leaves(node.kids[keys[i]], Append(path, keys[i]))])
      [] node.kind = "list" ->
           FlattenSeq([i \in DOMAIN node.kids |-> Leaves(node.kids[i], path)])

(* The variables hold what the code and the labels can hold.               *)
TypeOK ==
    /\ doc \in Docs /\ operand \in Operands
    /\ DOMAIN label \subseteq Resource /\ DOMAIN born = DOMAIN label
    /\ \A r \in DOMAIN label : label[r] = NoLabel \/ label[r] \in (DOMAIN doc.tree) \X Nat
    /\ phase \in {"default", "update", "done"} /\ todo \subseteq DOMAIN label
    /\ changes \in 0 .. MaxChanges /\ faults \in 0 .. MaxFaults

(* Index and path of a leaf determine each other: the iterative traversal  *)
(* sees the leaves of every version in the order of the tree, and the      *)
(* index of every leaf leads back to its path.  The tree does not change,  *)
(* so it is enough to look where no label has been given.                  *)
IndexNamesLeaf ==
    label = << >> => \A v \in DOMAIN doc.tree :
      /\ LeavesSeen(doc.tree, v) = Leaves(doc.tree[v], << v >>)
      /\ \A i \in DOMAIN LeavesSeen(doc.tree, v) :
           LET path == GetPathFromLeafIndex(doc.tree, v, i - 1)
           IN  /\ GetPathFromLeafIndex(doc.tree, v, GetLeafIndex(doc.tree, path)) = path
               /\ CanTraverseTree(doc.tree, path, FALSE) # << >>

(* However often the operator is upgraded, downgraded or stopped half-way  *)
(* through the translation of labels, a label is that of a leaf: none is   *)
(* left with the index -1 or with one of another version.                  *)
LabelsNameLeaves ==
    \A r \in DOMAIN label : label[r] # NoLabel => PathOf(label[r]) # << >>

(* A version that created a key finds it again, whichever versions ran in  *)
(* between: once its labels are translated, the key has the path it was    *)
(* created for.                                                            *)
KeyFoundAgain ==
    phase = "done" =>
      \A r \in DOMAIN label :
        (label[r] # NoLabel /\ Version(born[r]) = Latest) => PathOf(label[r]) = born[r]

(* No two keys of a namespace get the same label, so no instance changes   *)
(* its key because another key was migrated.                               *)
LabelsDiffer ==
    phase = "done" =>
      \A r, s \in DOMAIN label : r # s /\ label[r] # NoLabel => label[r] # label[s]
=============================================================================
