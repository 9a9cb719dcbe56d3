----------------------------- MODULE KeyRotation -----------------------------
(***************************************************************************)
(* How a rotation of the password encryption key or of the LTPA key        *)
(* reaches the pods of the applications that share them                    *)
(* (internal/controller/password_encryption_key_sharing.go, the parts of   *)
(* ltpa_keys_sharing.go that create the Secrets, and the annotations that  *)
(* Reconcile puts on the pod templates).  A user keeps an AES key, a       *)
(* password key or both in Secrets of the namespace, and revokes an LTPA   *)
(* key by deleting its Secret.  For each shared resource the leader, one   *)
(* of the instances (module ResourceSharing), brings the Secrets derived   *)
(* from it up to date; the others wait until the time stamps on them are   *)
(* late enough.  All instances modelled here manage LTPA and password      *)
(* encryption, and share one key and one configuration.                    *)
(***************************************************************************)
EXTENDS Integers, FiniteSets, FiniteSetsExt

CONSTANTS Instance,        \* OpenLibertyApplication instances
          Key,             \* encryption keys
          FirstKeys,       \* the keys a user may begin with
          FirstLeaders,    \* the leaders the namespace may begin with
          MinGap,          \* the least number of seconds between two stamps
          MaxTime,         \* bound: seconds in which a key is stamped
          MaxUserEdits,    \* bound: edits of Secrets and changes of leaders
          MaxFaults        \* bound: failed calls and restarts of the operator

ASSUME KeyRotationAssumption ==
    /\ FirstKeys \subseteq [{"aes", "pwd"} -> Key \union {"absent"}]
    /\ FirstLeaders \subseteq [{"enc", "key", "cfg"} -> Instance]
    /\ MinGap \in {0, 1}
    /\ Key \cap {"absent", "empty"} = {}
    /\ MaxTime \in Nat \ {0} /\ MaxUserEdits \in Nat /\ MaxFaults \in Nat

VARIABLES user,       \* Secrets of the user: wlp-aes-encryption-key, wlp-password-encryption-key
          internal,   \* their copies for the operator, with the time of the last rotation
          encXML,     \* encryption key in the Liberty XML that is mounted into the pods
          ltpa,       \* the LTPA Secret
          config,     \* the encoded LTPA password, in the keyed and in the other Secret
          xml,        \* the Liberty XML with the encoded password, and its label
          template,   \* pod template of each instance: the annotations
          pods,       \* what the pods of each instance were started with
          leader,     \* leaders for encryption key, LTPA key and LTPA configuration
          rec,        \* the reconcile in progress
          clock,      \* the last second that is on a stamp
          generated,  \* LTPA keys generated so far
          mishap,     \* what has happened that a property may have to except
          edits, faults

vars == << user, internal, encXML, ltpa, config, xml, template, pods, leader, rec, clock,
           generated, mishap, edits, faults >>
secrets == << user, internal, encXML, ltpa, config, xml >>
apps == << template, pods >>
counters == << clock, generated, mishap, edits, faults >>

-----------------------------------------------------------------------------
Kind == {"aes", "pwd"}
Value == Key \union {"absent", "empty"}      \* "empty": the Secret lacks the key's field
Time == 0 .. MaxTime
EncKey == [kind : Kind, key : Key] \union {[kind |-> "none", key |-> "empty"]}
NoKey == [kind |-> "none", key |-> "empty"]
(* Both keys of the user at a time; a copy, or the XML made from it, that  *)
(* the leader could not bring up to date; both copies left at a time; a    *)
(* password encoded after the last key was removed during the reconcile;   *)
(* an LTPA Secret without keys; a nil pointer dereferenced.                *)
Mishap == {"both", "half", "copies", "removed", "noKeys", "panic"}
NoLTPA == [id |-> 0, rot |-> 0, raw |-> FALSE, file |-> FALSE]
NoConfig == [ltpa |-> 0, rot |-> 0, enc |-> NoKey, encRot |-> 0]
NoXML == [ltpa |-> 0, rot |-> 0, enc |-> NoKey, encRot |-> 0, label |-> 0]
NoTemplate == [enc |-> FALSE, encRot |-> 0, rot |-> 0, label |-> 0]
NoPods == [ann |-> NoTemplate, enc |-> NoKey, ltpa |-> 0, xml |-> [ltpa |-> 0, enc |-> NoKey]]
NoRec == [pc |-> "idle", me |-> "none", enc |-> "none", encRot |-> 0, rot |-> 0,
          keyed |-> FALSE, pwd |-> FALSE]

Step(pc) == rec.pc = pc
Goto(pc) == rec' = [rec EXCEPT !.pc = pc]
End == rec' = NoRec            \* ManageError or ManageSuccess; the queue repeats it
IsLeader(resource) == leader[resource] = rec.me

(* time.Now().Unix(): a later second than any before or, when MinGap is 0, *)
(* the same one.                                                           *)
Stamp(t) ==
    /\ t \in {clock + MinGap, clock + 1}
    /\ clock' = t

isUsingPasswordEncryptionKeySharing == \E k \in Kind : user[k] # "absent"

(* getEncryptionKeyData: the key is there and has a time of rotation.      *)
Found(k) == internal[k].key # "absent"
BothCopies(copies) == \A k \in Kind : copies[k].key # "absent"
Valid(k) == internal[k].key \in Key /\ internal[k].rot # 0

(* getValidInternalEncryptionKey: the Secret, AES first; "nil" with an     *)
(* error when one was found but is not valid, and without when none was.   *)
getValidInternalEncryptionKey ==
    CASE Valid("aes") -> "aes"
      [] ~Valid("aes") /\ Valid("pwd") -> "pwd"
      [] OTHER -> IF Found("aes") \/ Found("pwd") THEN "error" ELSE "nil"

(* getInternalEncryptionKeyState: the field looked up is that of AES       *)
(* whenever the AES Secret was found; a nil Secret is dereferenced.        *)
getInternalEncryptionKeyState ==
    CASE Valid("aes") -> "aes"
      [] ~Found("aes") /\ Valid("pwd") -> "pwd"
      [] Found("aes") /\ ~Valid("aes") /\ Valid("pwd") -> "error"
      [] OTHER -> "panic"

Panic ==
    /\ mishap' = mishap \union {"panic"}
    /\ End
    /\ UNCHANGED << secrets, apps, leader, clock, generated, edits, faults >>

Fails == End /\ UNCHANGED << secrets, apps, leader, counters >>

-----------------------------------------------------------------------------
(* Reconcile: the encryption key.                                          *)

Start(i) ==
    /\ Step("idle")
    /\ isUsingPasswordEncryptionKeySharing
    /\ rec' = [NoRec EXCEPT !.me = i, !.pc = IF leader.enc = i THEN "mirrorPwd" ELSE "readKey"]
    /\ UNCHANGED << secrets, apps, leader, counters >>

(* mirrorEncryptionKeySecretState: the copy follows the Secret of the      *)
(* user, and a change is stamped.  A Secret without the field differs      *)
(* neither from no copy nor from a copy without it.                        *)
mirrorEncryptionKeySecretState(k) ==
    LET copy == internal[k]
        Set(key, rot) == internal' = [internal EXCEPT ![k] = [key |-> key, rot |-> rot]]
    IN  \/ user[k] = "absent" /\ Set("absent", 0) /\ UNCHANGED clock
        \/ user[k] = copy.key /\ UNCHANGED << internal, clock >>
        \/ /\ user[k] = "empty" /\ copy.key = "absent"
           /\ Set("empty", 0) /\ UNCHANGED clock
        \/ /\ user[k] \notin {"absent", copy.key} /\ {user[k], copy.key} # {"empty", "absent"}
           /\ \E t \in Time : Stamp(t) /\ Set(user[k], t)

MirrorPassword ==
    /\ Step("mirrorPwd")
    /\ mirrorEncryptionKeySecretState("pwd")
    /\ rec' = [rec EXCEPT !.pc = "mirrorAES", !.pwd = user.pwd # "absent"]
    /\ UNCHANGED << user, encXML, ltpa, config, xml, apps, leader, generated, mishap, edits, faults >>

(* Without AES key the password key is used, if it was mirrored.           *)
FallBack == IF rec.pwd THEN rec' = [rec EXCEPT !.pc = "encXML", !.enc = "pwd"] ELSE End

MirrorAES ==
    /\ Step("mirrorAES")
    /\ mirrorEncryptionKeySecretState("aes")
    /\ \/ user.aes # "absent" /\ rec' = [rec EXCEPT !.pc = "encXML", !.enc = "aes"]
       \/ user.aes = "absent" /\ FallBack
    /\ mishap' = IF BothCopies(internal') THEN mishap \union {"copies"} ELSE mishap
    /\ UNCHANGED << user, encXML, ltpa, config, xml, apps, leader, generated, edits, faults >>

(* A failure to mirror one key is taken for the lack of that key.          *)
MirrorFails ==
    /\ faults < MaxFaults /\ faults' = faults + 1
    /\ LET Late(k) == mishap' = mishap
               \union (IF internal[k].key = user[k] THEN {} ELSE {"half"})
               \union (IF k = "aes" /\ BothCopies(internal) THEN {"copies"} ELSE {})
       IN  \/ Step("mirrorPwd") /\ Goto("mirrorAES") /\ Late("pwd")
           \/ Step("mirrorAES") /\ FallBack /\ Late("aes")
    /\ UNCHANGED << secrets, apps, leader, clock, generated, edits >>

(* Mutant: the XML is written though the Secret lacks the field.           *)
WriteEncryptionXML_Unchecked ==
    /\ Step("encXML")
    /\ LET s == internal[rec.enc]
       IN  /\ encXML' = [kind |-> rec.enc, key |-> s.key]
           /\ rec' = [rec EXCEPT !.pc = "keys", !.encRot = s.rot]
    /\ UNCHANGED << user, internal, ltpa, config, xml, apps, leader, counters >>

(* reconcileAESEncryptionKey and reconcilePasswordEncryptionKey of the     *)
(* leader.  When the field is missing the error returned is that of the    *)
(* lookup, which is nil: the reconcile goes on without a key.              *)
WriteEncryptionXML ==
    /\ Step("encXML")
    /\ LET s == internal[rec.enc]
       IN  \/ /\ s.key = "empty"
              /\ rec' = [rec EXCEPT !.pc = "keys", !.enc = "none"]
              /\ UNCHANGED encXML
           \/ /\ s.key # "empty"
              /\ encXML' = [kind |-> rec.enc, key |-> s.key]
              /\ rec' = [rec EXCEPT !.pc = "keys", !.encRot = s.rot]
    /\ UNCHANGED << user, internal, ltpa, config, xml, apps, leader, counters >>

(* Mutant: the copy of the password key is looked at for either key.       *)
isSecretMirrored_Password(k) == user[k] \notin {"absent", "empty"} /\ internal.pwd.key = user[k]

isSecretMirrored(k) == user[k] \notin {"absent", "empty"} /\ internal[k].key = user[k]

(* The same of the other instances: AES if it is mirrored, else the        *)
(* password key if it is, else they wait.                                  *)
ReadKey ==
    /\ Step("readKey")
    /\ LET Usable(k) == Found(k) /\ (internal[k].key = "empty" \/ isSecretMirrored(k))
           Use(k) == rec' = IF internal[k].key = "empty" THEN [rec EXCEPT !.pc = "keys"]
                            ELSE [rec EXCEPT !.pc = "keys", !.enc = k, !.encRot = internal[k].rot]
       IN  \/ Usable("aes") /\ Use("aes")
           \/ ~Usable("aes") /\ Usable("pwd") /\ Use("pwd")
           \/ ~Usable("aes") /\ ~Usable("pwd") /\ End
    /\ UNCHANGED << secrets, apps, leader, counters >>

-----------------------------------------------------------------------------
(* Reconcile: the LTPA key and its configuration.                          *)

UseLTPAKeys ==
    /\ Step("keys") /\ ltpa # NoLTPA
    /\ rec' = [rec EXCEPT !.pc = "config", !.rot = ltpa.rot]
    /\ UNCHANGED << secrets, apps, leader, counters >>

(* generateLTPAKeys *)
GenerateLTPAKeys ==
    /\ Step("keys") /\ ltpa = NoLTPA /\ IsLeader("key")
    /\ getInternalEncryptionKeyState \in Kind
    /\ generated' = generated + 1
    /\ \E t \in Time : /\ Stamp(t)
                       /\ ltpa' = [id |-> generated', rot |-> t, raw |-> TRUE, file |-> TRUE]
                       /\ rec' = [rec EXCEPT !.pc = "config", !.rot = t]
    /\ UNCHANGED << user, internal, encXML, config, xml, apps, leader, mishap, edits, faults >>

(* createLTPAKeys ignores a failure of the security utility and returns an *)
(* empty file of keys.                                                     *)
GenerateNoKeys ==
    /\ Step("keys") /\ ltpa = NoLTPA /\ IsLeader("key")
    /\ getInternalEncryptionKeyState \in Kind
    /\ faults < MaxFaults /\ faults' = faults + 1
    /\ mishap' = mishap \union {"noKeys"}
    /\ generated' = generated + 1
    /\ \E t \in Time : /\ Stamp(t)
                       /\ ltpa' = [id |-> generated', rot |-> t, raw |-> TRUE, file |-> FALSE]
                       /\ rec' = [rec EXCEPT !.pc = "config", !.rot = t]
    /\ UNCHANGED << user, internal, encXML, config, xml, apps, leader, edits >>

GenerateLTPAKeysFails ==
    /\ Step("keys") /\ ltpa = NoLTPA
    /\ \/ ~IsLeader("key") /\ Fails
       \/ IsLeader("key") /\ getInternalEncryptionKeyState = "error" /\ Fails
       \/ IsLeader("key") /\ getInternalEncryptionKeyState = "panic" /\ Panic

(* GetMaxTime of the rotations an instance has seen, and the label of the  *)
(* XML (0 when it is not there).                                           *)
lastKeyRelatedRotation == Max({rec.encRot, rec.rot})

(* Mutant: waits for the rotation of the LTPA key only.                    *)
LabelIsLate_LTPA == xml.label >= rec.rot

LabelIsLate == xml.label >= lastKeyRelatedRotation

(* generateLTPAConfig of an instance that is not the leader.               *)
WaitForConfig ==
    /\ Step("config") /\ ~IsLeader("cfg")
    /\ IF ltpa # NoLTPA /\ xml # NoXML /\ LabelIsLate THEN Goto("workload") ELSE End
    /\ UNCHANGED << secrets, apps, leader, counters >>

ConfigWithoutKey ==
    /\ Step("config") /\ IsLeader("cfg") /\ ltpa = NoLTPA
    /\ Fails

(* A Secret of release 1.3.3 has no raw password and is replaced.          *)
DeleteOldLTPA ==
    /\ Step("config") /\ IsLeader("cfg") /\ ltpa # NoLTPA /\ ~ltpa.raw
    /\ config[isUsingPasswordEncryptionKeySharing] = NoConfig
    /\ ltpa' = NoLTPA
    /\ End
    /\ UNCHANGED << user, internal, encXML, config, xml, apps, leader, counters >>

(* The encoded password: that of the LTPA key, with the encryption key and *)
(* the times of both rotations.                                            *)
CreateConfig ==
    /\ Step("config") /\ IsLeader("cfg") /\ ltpa # NoLTPA
    /\ LET keyed == isUsingPasswordEncryptionKeySharing
           k == getInternalEncryptionKeyState
       IN  /\ IF config[keyed] # NoConfig THEN UNCHANGED config
              ELSE /\ ltpa.raw /\ k \in Kind
                   /\ config' = [config EXCEPT ![keyed] =
                          [ltpa |-> ltpa.id, rot |-> ltpa.rot, encRot |-> internal[k].rot,
                           enc |-> [kind |-> k, key |-> internal[k].key]]]
           /\ rec' = [rec EXCEPT !.pc = "check", !.keyed = keyed]
           /\ mishap' = IF keyed THEN mishap ELSE mishap \union {"removed"}
    /\ UNCHANGED << user, internal, encXML, ltpa, xml, apps, leader, clock, generated, edits, faults >>

CreateConfigFails ==
    /\ Step("config") /\ IsLeader("cfg") /\ ltpa # NoLTPA /\ ltpa.raw
    /\ config[isUsingPasswordEncryptionKeySharing] = NoConfig
    /\ \/ getInternalEncryptionKeyState = "error" /\ Fails
       \/ getInternalEncryptionKeyState = "panic" /\ Panic

(* The password is of another LTPA key than the one in use or, in the      *)
(* keyed Secret, encoded with another encryption key.                      *)
Outdated ==
    \/ config[rec.keyed].rot # rec.rot
    \/ /\ rec.keyed /\ getValidInternalEncryptionKey \in Kind
       /\ config[TRUE].encRot # internal[getValidInternalEncryptionKey].rot

(* It is deleted, for the next reconcile to create it again.               *)
DeleteOutdated ==
    /\ Step("check") /\ Outdated
    /\ config' = [config EXCEPT ![rec.keyed] = NoConfig]
    /\ End
    /\ UNCHANGED << user, internal, encXML, ltpa, xml, apps, leader, counters >>

CheckFails ==
    /\ Step("check") /\ ~Outdated /\ rec.keyed
    /\ \/ getValidInternalEncryptionKey = "error" /\ Fails
       \/ getValidInternalEncryptionKey = "nil" /\ Panic

Label(c) == Max({c.rot, c.encRot})

WriteXML ==
    /\ Step("check") /\ ~Outdated
    /\ rec.keyed => getValidInternalEncryptionKey \in Kind
    /\ LET c == config[rec.keyed]
       IN  xml' = [ltpa |-> c.ltpa, rot |-> c.rot, enc |-> c.enc, encRot |-> c.encRot,
                   label |-> Label(c)]
    /\ Goto("workload")
    /\ UNCHANGED << user, internal, encXML, ltpa, config, apps, leader, counters >>

(* The annotations of the pod template, read from the Secrets anew; any of *)
(* them may be gone by now.                                                *)
ReconcileWorkload ==
    /\ Step("workload")
    /\ LET enc == rec.enc # "none"
           there == (enc => Found(rec.enc)) /\ ltpa # NoLTPA /\ xml # NoXML
       IN  template' = IF ~there THEN template
                       ELSE [template EXCEPT ![rec.me] =
                                [enc |-> enc, rot |-> ltpa.rot, label |-> xml.label,
                                 encRot |-> IF enc THEN internal[rec.enc].rot ELSE 0]]
    /\ End
    /\ UNCHANGED << secrets, pods, leader, counters >>

(* A call fails or the operator stops: the reconcile ends where it is.     *)
Abort ==
    /\ ~Step("idle")
    /\ faults < MaxFaults /\ faults' = faults + 1
    /\ mishap' = IF Step("encXML") \/ (Step("mirrorAES") /\ rec.pwd)
                 THEN mishap \union {"half"} ELSE mishap
    /\ End
    /\ UNCHANGED << secrets, apps, leader, clock, generated, edits >>

-----------------------------------------------------------------------------
(* Users and the cluster.                                                  *)

(* Edits end when a user has given both keys at a time: no property speaks *)
(* of what follows.                                                        *)
Edit == "both" \notin mishap /\ edits < MaxUserEdits /\ edits' = edits + 1

BothKeys(keys) == \A k \in Kind : keys[k] # "absent"

EditKey(k, v) ==
    /\ Edit
    /\ v # user[k] /\ user' = [user EXCEPT ![k] = v]
    /\ mishap' = IF BothKeys(user') THEN mishap \union {"both"} ELSE mishap
    /\ UNCHANGED << internal, encXML, ltpa, config, xml, apps, leader, rec, clock, generated, faults >>

(* How a user revokes the LTPA key.                                        *)
RevokeLTPA ==
    /\ Edit
    /\ ltpa # NoLTPA /\ ltpa' = NoLTPA
    /\ UNCHANGED << user, internal, encXML, config, xml, apps, leader, rec, clock, generated,
                    mishap, faults >>

(* The leader of a resource is deleted or gives it up, and another follows.*)
ChangeLeader(resource, i) ==
    /\ Edit
    /\ Step("idle")
    /\ i # leader[resource] /\ leader' = [leader EXCEPT ![resource] = i]
    /\ UNCHANGED << secrets, apps, rec, clock, generated, mishap, faults >>

(* A changed annotation restarts the pods with what the Secrets hold now;  *)
(* pods do not start while a Secret they mount is missing.                 *)
RollOut(i) ==
    /\ template[i] # pods[i].ann
    /\ ltpa # NoLTPA /\ xml # NoXML
    /\ template[i].enc => encXML # NoKey
    /\ pods' = [pods EXCEPT ![i] =
            [ann |-> template[i], enc |-> IF template[i].enc THEN encXML ELSE NoKey,
             ltpa |-> ltpa.id, xml |-> [ltpa |-> xml.ltpa, enc |-> xml.enc]]]
    /\ UNCHANGED << secrets, template, leader, rec, counters >>

-----------------------------------------------------------------------------
Init ==
    /\ user \in FirstKeys
    /\ internal = [k \in Kind |-> [key |-> "absent", rot |-> 0]]
    /\ encXML = NoKey
    /\ ltpa \in {NoLTPA, [id |-> 1, rot |-> 1, raw |-> FALSE, file |-> TRUE]}
    /\ config = [keyed \in BOOLEAN |-> NoConfig] /\ xml = NoXML
    /\ template = [i \in Instance |-> NoTemplate] /\ pods = [i \in Instance |-> NoPods]
    /\ leader \in FirstLeaders
    /\ rec = NoRec
    /\ clock = 1 /\ generated = 1
    /\ mishap = IF BothKeys(user) THEN {"both"} ELSE {}
    /\ edits = 0 /\ faults = 0

Continue ==
    \/ MirrorPassword \/ MirrorAES \/ WriteEncryptionXML \/ ReadKey
    \/ UseLTPAKeys \/ GenerateLTPAKeys \/ GenerateLTPAKeysFails
    \/ WaitForConfig \/ ConfigWithoutKey \/ DeleteOldLTPA \/ CreateConfig \/ CreateConfigFails
    \/ DeleteOutdated \/ CheckFails \/ WriteXML \/ ReconcileWorkload

Next ==
    \/ \E i \in Instance : Start(i) \/ RollOut(i)
    \/ Continue
    \/ Abort \/ MirrorFails \/ GenerateNoKeys
    \/ \E k \in Kind, v \in Value : EditKey(k, v)
    \/ RevokeLTPA
    \/ \E resource \in DOMAIN leader, i \in Instance : ChangeLeader(resource, i)

Spec == Init /\ [][Next]_vars

(* The queue repeats every instance's reconcile, and pods are restarted.   *)
Fairness ==
    /\ \A i \in Instance : SF_vars(Start(i)) /\ WF_vars(RollOut(i))
    /\ WF_vars(Continue)

FairSpec == Spec /\ Fairness

-----------------------------------------------------------------------------
(* Properties.                                                             *)

(* The variables hold what the Secrets, templates and pods can hold.       *)
TypeOK ==
    /\ user \in [Kind -> Value]
    /\ internal \in [Kind -> [key : Value, rot : Time]]
    /\ encXML \in EncKey
    /\ ltpa \in [id : Nat, rot : Time, raw : BOOLEAN, file : BOOLEAN]
    /\ config \in [BOOLEAN -> [ltpa : Nat, rot : Time, enc : EncKey, encRot : Time]]
    /\ xml \in [ltpa : Nat, rot : Time, enc : EncKey, encRot : Time, label : Time]
    /\ template \in [Instance -> [enc : BOOLEAN, encRot : Time, rot : Time, label : Time]]
    /\ \A i \in Instance : pods[i].enc \in EncKey /\ pods[i].ltpa \in Nat
    /\ leader \in [{"enc", "key", "cfg"} -> Instance]
    /\ rec = NoRec \/ rec.me \in Instance
    /\ clock \in Time /\ generated \in Nat /\ mishap \subseteq Mishap
    /\ edits \in 0 .. MaxUserEdits /\ faults \in 0 .. MaxFaults

(* The yielding of the followers is enough: one label, the later of the    *)
(* two rotations, stands for both, yet an instance that goes on to its pod *)
(* template finds an XML that was written for the LTPA key and for the     *)
(* encryption key it has read, or for later ones, whatever was rotated in  *)
(* between and whoever leads.  (Unless both keys or their copies are there *)
(* at a time, the last key is removed during a reconcile, the leader stops *)
(* half-way or, with MinGap = 0, two stamps are equal.)                    *)
YieldIsEnough ==
    (Step("workload") /\ mishap \subseteq {"noKeys", "panic"})
        => xml.rot >= rec.rot /\ xml.encRot >= rec.encRot

(* The key in force: AES has precedence.                                   *)
InForce == IF user.aes # "absent" THEN [kind |-> "aes", key |-> user.aes]
           ELSE [kind |-> "pwd", key |-> user.pwd]

(* Pods that decode the LTPA password: it is that of the LTPA key they     *)
(* use, encoded with the encryption key they use, and both keys are the    *)
(* present ones.                                                           *)
UpToDate(i) ==
    /\ pods[i].enc = InForce /\ pods[i].xml.enc = InForce
    /\ ltpa.file /\ pods[i].ltpa = ltpa.id /\ pods[i].xml.ltpa = ltpa.id

(* What later reconciles make good.                                        *)
Mild == {"copies", "removed", "panic"}

KeysGiven == isUsingPasswordEncryptionKeySharing /\ \A k \in Kind : user[k] # "empty"

(* Every rotation reaches every pod: after edits of the encryption key,    *)
(* revocations of the LTPA key and changes of leaders in any order, and    *)
(* failures at most places, all instances end with pods that decode the    *)
(* password of the present LTPA key with the present encryption key.       *)
Converges == <>[](KeysGiven /\ mishap \subseteq Mild => \A i \in Instance : UpToDate(i))

(* The same without excluding that a reconcile ends between the copy of a  *)
(* key and the XML made from it, as the user guide has it                  *)
(* (doc/user-guide-v1.adoc:889, "The Liberty operator handles mounting the *)
(* password encryption key into the application pod").                     *)
KeyReachesPods ==
    <>[](KeysGiven /\ mishap \subseteq Mild \union {"half"} => \A i \in Instance : UpToDate(i))

=============================================================================
