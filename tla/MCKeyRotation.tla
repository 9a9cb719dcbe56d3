---------------------------- MODULE MCKeyRotation ----------------------------
(* Instances of KeyRotation for model checking.                            *)
EXTENDS KeyRotation
CONSTANTS i1, i2, k1, k2
Instances == {i1, i2}
Keys == {k1, k2}
(* The AES key; edits replace it, or lead to the password key.             *)
UserKeys == {[aes |-> k1, pwd |-> "absent"]}
(* A leader each for the encryption key and the LTPA configuration; edits  *)
(* lead to other choices.                                                  *)
Leaders == {[enc |-> i1, key |-> i1, cfg |-> i2]}
=============================================================================
