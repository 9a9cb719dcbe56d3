------------------------- MODULE MCResourceSharing -------------------------
(* Instances of ResourceSharing: the paths of ltpa-decision-tree.yaml for  *)
(* operand version v1_4_0.                                                 *)
EXTENDS ResourceSharing, TLC

CONSTANTS a, b
InstanceSymmetry == Permutations({a, b})

MCPath == {"key.true", "config.default", "config.passwordencryption"}
MCConfigPath == {"config.default", "config.passwordencryption"}
MCLastPathParent ==
    [p \in MCPath |-> IF p = "key.true" THEN "key" ELSE "config"]

(* One suffix for each path, two for the key.                              *)
MCName == {"k1", "k2", "d1", "p1"}
MCPathOf ==
    [n \in MCName |-> CASE n = "d1" -> "config.default"
                        [] n = "p1" -> "config.passwordencryption"
                        [] OTHER -> "key.true"]

(* One suffix for each path.                                               *)
MCNameSmall == {"k1", "d1", "p1"}
MCPathOfSmall == [n \in MCNameSmall |-> MCPathOf[n]]
=============================================================================
