--------------------------- MODULE MCDecisionTree ---------------------------
(* Instances of DecisionTree for model checking: decision trees of the     *)
(* operator and of its tests, and a family of small ones.                  *)
EXTENDS DecisionTree
CONSTANTS r1, r2

MCKeyOrder == << "a", "aes", "b", "c", "config", "d", "e", "f", "g", "h", "i", "j", "k", "key",
                 "managePasswordEncryption", "type", "xor" >>

(* assets/ltpa-decision-tree.yaml                                          *)
V133 == << 1, 3, 3 >>
V140 == << 1, 4, 0 >>
MCDefaultPath == << V133, "default" >>
LTPA ==
    [tree |-> V133 :> Leaf("default") @@
              V140 :> Map([key |-> Leaf("true"),
                           config |-> List(<< Leaf("passwordencryption"), Leaf("default") >>)]),
     replace |-> V140 :> (MCDefaultPath :> << V140, "key", "true" >>)]

(* tests/ltpa-decision-tree-complex.yaml, four of its versions             *)
A == << 10, 2, 2 >>
B == << 10, 3, 3 >>
C == << 10, 4, 1 >>
D == << 10, 4, 20 >>
Complex ==
    [tree |-> A :> Leaf("test") @@ B :> Map([a |-> Leaf("b")]) @@
              C :> Map([j |-> Leaf("fizz"),
                        a |-> Map([b |-> Map([c |-> Leaf("true"), d |-> Leaf("true"),
                                              e |-> List(<< Leaf("true"), Leaf("false") >>)])])]) @@
              D :> Map([a |-> Map([b |-> Map([e |-> Leaf("foo"), c |-> Leaf("true"), d |-> Leaf("false")]),
                                   f |-> Map([h |-> Leaf("element"), g |-> Map([i |-> Leaf("bar")])])])]),
     replace |-> B :> (<< A, "test" >> :> << B, "a", "b" >>) @@
                 C :> (<< B, "a", "b" >> :> << C, "a", "b", "e", "true" >>) @@
                 D :> (<< C, "a", "b", "c", "true" >> :> << D, "a", "b", "c", "true" >> @@
                       << C, "a", "b", "d", "true" >> :> << D, "a", "b", "d", "false" >> @@
                       << C, "a", "b", "e", "true" >> :> << D, "a", "b", "e", "foo" >> @@
                       << C, "a", "b", "e", "false" >> :> << D, "a", "f", "g", "i", "bar" >>)]

(* Three versions of two leaves, and all ways to replace different paths   *)
(* by different ones; some name a leaf that is not in the tree.            *)
FamilyTree ==
    B :> Map([k |-> List(<< Leaf("x"), Leaf("y") >>)]) @@
    C :> Map([k |-> Leaf("x"), a |-> Leaf("y")]) @@
    D :> Map([a |-> Map([k |-> List(<< Leaf("y"), Leaf("x") >>)])])
OfB == {<< B, "k", "x" >>, << B, "k", "y" >>}
OfC == {<< C, "k", "x" >>, << C, "a", "y" >>, << C, "a", "z" >>}
OfD == {<< D, "a", "k", "y" >>, << D, "a", "k", "x" >>}
Replacements(from, to) ==
    {f \in UNION {[S -> to] : S \in SUBSET from} : \A p, q \in DOMAIN f : f[p] = f[q] => p = q}
Family == {[tree |-> FamilyTree, replace |-> C :> f @@ D :> g] :
              f \in Replacements(OfB, OfC), g \in Replacements(OfC \ {<< C, "a", "z" >>}, OfD)}

MCDocs == {LTPA, Complex} \union Family
MCOperands == {V133, V140, << 10, 3, 9 >>, C, << 10, 4, 25 >>}
=============================================================================
