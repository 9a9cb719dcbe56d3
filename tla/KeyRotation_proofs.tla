-------------------------- MODULE KeyRotation_proofs --------------------------
(* The variables of KeyRotation keep their types, whatever the number of   *)
(* instances, keys, rotations and failures; and the yielding of the        *)
(* followers is enough: the one label on the Liberty XML stands for the    *)
(* rotations of both keys (YieldIsEnough).                                 *)
EXTENDS KeyRotation, TLAPS

PCs == {"idle", "mirrorPwd", "mirrorAES", "encXML", "readKey", "keys", "config", "check",
        "workload"}
Copy == [key : Value, rot : Time]
LTPA == [id : Nat, rot : Time, raw : BOOLEAN, file : BOOLEAN]
Config == [ltpa : Nat, rot : Time, enc : EncKey, encRot : Time]
XML == [ltpa : Nat, rot : Time, enc : EncKey, encRot : Time, label : Time]
Template == [enc : BOOLEAN, encRot : Time, rot : Time, label : Time]
Pods == [ann : Template, enc : EncKey, ltpa : Nat, xml : [ltpa : Nat, enc : EncKey]]
Rec == [pc : PCs, me : Instance \union {"none"}, enc : Kind \union {"none"}, encRot : Time,
        rot : Time, keyed : BOOLEAN, pwd : BOOLEAN]

(* The types of the Secrets, of what the cluster runs and of the rest.     *)
SecretTypes ==
    /\ user \in [Kind -> Value]
    /\ internal \in [Kind -> Copy]
    /\ encXML \in EncKey
    /\ ltpa \in LTPA
    /\ config \in [BOOLEAN -> Config]
    /\ xml \in XML
ClusterTypes ==
    /\ template \in [Instance -> Template]
    /\ pods \in [Instance -> Pods]
    /\ leader \in [{"enc", "key", "cfg"} -> Instance]
RestTypes ==
    /\ clock \in Time /\ generated \in Nat /\ mishap \subseteq Mishap
    /\ edits \in 0 .. MaxUserEdits /\ faults \in 0 .. MaxFaults

(* The reconcile in progress: a key is written to the XML only when its    *)
(* copy is there, and the password key is fallen back on only when it was  *)
(* mirrored.                                                               *)
RecInv ==
    /\ rec \in Rec
    /\ rec = NoRec \/ rec.me \in Instance
    /\ Step("encXML") => rec.enc \in Kind /\ Found(rec.enc)
    /\ Step("mirrorPwd") => ~rec.pwd
    /\ Step("mirrorAES") /\ rec.pwd => Found("pwd")

TypeInv == SecretTypes /\ ClusterTypes /\ RestTypes /\ RecInv

-----------------------------------------------------------------------------
(* No stamp is later than the clock.                                       *)
StampInv ==
    /\ \A k \in Kind : internal[k].rot <= clock
    /\ ltpa.rot <= clock /\ rec.rot <= clock /\ rec.encRot <= clock
    /\ \A b \in BOOLEAN : config[b].rot <= clock /\ config[b].encRot <= clock
    /\ xml.rot <= clock /\ xml.encRot <= clock /\ xml.label <= clock

(* What the reconcile has read is what is there, or was revoked since.     *)
ReadInv ==
    /\ rec.pc \in {"idle", "mirrorPwd", "mirrorAES", "readKey", "encXML"} => rec.encRot = 0
    /\ rec.pc \in {"keys", "config", "check"}
         => rec.encRot = 0 \/ \E k \in Kind : rec.encRot = internal[k].rot
    /\ rec.pc \in {"config", "check"} => ltpa = NoLTPA \/ ltpa.rot = rec.rot

Quiet == mishap \subseteq {"noKeys", "panic"}

(* An XML that is not of the present key is older than that key: its label *)
(* is earlier than the rotation.                                           *)
LabelInv ==
    /\ \A k \in Kind : internal[k].rot <= xml.encRot \/ internal[k].rot > xml.label
    /\ ltpa.rot <= xml.rot \/ ltpa.rot > xml.label

(* One copy at a time, but between the two steps that mirror the keys.     *)
CopyInv ==
    /\ \A k \in Kind : internal[k].key = "absent" => internal[k].rot = 0
    /\ Quiet => (BothCopies(internal) => Step("mirrorAES") /\ rec.pwd)
    /\ Quiet => (Step("check") => rec.keyed)

LabelInvQ == Quiet => LabelInv
YieldInv == StampInv /\ ReadInv /\ LabelInvQ /\ CopyInv /\ YieldIsEnough

-----------------------------------------------------------------------------
(* Lemmas about the operators.                                             *)

(* Max of two numbers is the later of the two stamps it is given.          *)
LEMMA MaxOfTwo ==
    ASSUME NEW a \in Int, NEW b \in Int
    PROVE  Max({a, b}) \in {a, b} /\ Max({a, b}) >= a /\ Max({a, b}) >= b
<1>1. \E x \in {a, b} : \A y \in {a, b} : x >= y
  <2>1. CASE a >= b
    BY <2>1
  <2>2. CASE b >= a
    BY <2>2
  <2> QED
    BY <2>1, <2>2
<1> QED
  BY <1>1 DEF Max

(* A second on a stamp, and the first of them.                             *)
LEMMA TimeFacts ==
    Time \subseteq Int /\ 0 \in Time /\ 1 \in Time /\ \A t \in Time : t >= 0
BY KeyRotationAssumption DEF Time

(* The members of EncKey: a key with its kind, or none.                    *)
LEMMA EncKeyFacts ==
    /\ NoKey \in EncKey
    /\ \A k \in Kind, v \in Key : [kind |-> k, key |-> v] \in EncKey
BY DEF EncKey, NoKey

(* What the variables begin with has their types.                          *)
LEMMA EmptyTyped ==
    /\ NoLTPA \in LTPA /\ NoConfig \in Config /\ NoXML \in XML /\ NoTemplate \in Template
    /\ NoPods \in Pods /\ NoRec \in Rec
<1>1. NoLTPA \in LTPA
  BY TimeFacts DEF NoLTPA, LTPA
<1>2. NoConfig \in Config
  BY TimeFacts, EncKeyFacts DEF NoConfig, Config
<1>3. NoXML \in XML
  BY TimeFacts, EncKeyFacts DEF NoXML, XML
<1>4. NoTemplate \in Template
  BY TimeFacts DEF NoTemplate, Template
<1>5. NoPods \in Pods
  BY <1>4, EncKeyFacts DEF NoPods, Pods
<1>6. NoRec \in Rec
  BY TimeFacts DEF NoRec, Rec, PCs
<1> QED
  BY <1>1, <1>2, <1>3, <1>4, <1>5, <1>6

(* A reconcile that ends leaves none in progress.                          *)
LEMMA EndTyped ==
    ASSUME End PROVE RecInv'
<1>1. rec' = NoRec
  BY DEF End
<1>2. NoRec.pc = "idle"
  BY DEF NoRec
<1> QED
  BY <1>1, <1>2, EmptyTyped DEF RecInv, Step

(* A stamp is a second later than the clock and is on it from then on.     *)
LEMMA StampTyped ==
    ASSUME RestTypes, NEW t \in Time, Stamp(t)
    PROVE  clock' = t /\ t >= clock /\ clock' \in Time /\ (MinGap = 1 => t > clock)
<1>1. clock \in Int
  BY TimeFacts DEF RestTypes
<1>2. MinGap \in {0, 1}
  BY KeyRotationAssumption
<1>3. t \in {clock + MinGap, clock + 1} /\ clock' = t
  BY DEF Stamp
<1> QED
  BY <1>1, <1>2, <1>3

(* Valid copies, and those the lookups return, hold a key.                 *)
LEMMA LookupFacts ==
    /\ getInternalEncryptionKeyState \in Kind => Valid(getInternalEncryptionKeyState)
    /\ getValidInternalEncryptionKey \in Kind => Valid(getValidInternalEncryptionKey)
    /\ \A k \in Kind : Valid(k) => Found(k) /\ internal[k].key \in Key /\ internal[k].rot # 0
<1>1. \A k \in Kind : Valid(k) => Found(k) /\ internal[k].key \in Key /\ internal[k].rot # 0
  BY KeyRotationAssumption DEF Valid, Found
<1>2. getInternalEncryptionKeyState \in Kind => Valid(getInternalEncryptionKeyState)
  BY DEF getInternalEncryptionKeyState, Kind
<1>3. getValidInternalEncryptionKey \in Kind => Valid(getValidInternalEncryptionKey)
  BY DEF getValidInternalEncryptionKey, Kind
<1> QED
  BY <1>1, <1>2, <1>3

-----------------------------------------------------------------------------
(* Types.                                                                  *)

(* The first state has the types.                                          *)
LEMMA InitTyped == Init => TypeInv
<1> SUFFICES ASSUME Init PROVE TypeInv
  OBVIOUS
<1>1. SecretTypes
  <2>1. user \in [Kind -> Value]
    BY KeyRotationAssumption DEF Init, Kind, Value
  <2>2. internal \in [Kind -> Copy]
    BY TimeFacts DEF Init, Copy, Value
  <2>3. encXML \in EncKey /\ xml \in XML /\ config \in [BOOLEAN -> Config]
    BY EmptyTyped, EncKeyFacts DEF Init
  <2>4. ltpa \in LTPA
    <3>1. [id |-> 1, rot |-> 1, raw |-> FALSE, file |-> TRUE] \in LTPA
      BY TimeFacts DEF LTPA
    <3> QED
      BY <3>1, EmptyTyped DEF Init
  <2> QED
    BY <2>1, <2>2, <2>3, <2>4 DEF SecretTypes
<1>2. ClusterTypes
  BY EmptyTyped, KeyRotationAssumption DEF Init, ClusterTypes
<1>3. RestTypes
  BY TimeFacts, KeyRotationAssumption DEF Init, RestTypes, Mishap
<1>4. rec = NoRec /\ NoRec.pc = "idle"
  BY DEF Init, NoRec
<1>5. RecInv
  BY <1>4, EmptyTyped DEF RecInv, Step
<1> QED
  BY <1>1, <1>2, <1>3, <1>5 DEF TypeInv

(* Mirroring keeps the copies typed and leaves a copy of a key that the    *)
(* user has; with MinGap = 1, a time on a copy is 0, was there before or   *)
(* is later than the clock was.                                            *)
LEMMA MirrorTyped ==
    ASSUME SecretTypes, RestTypes, NEW k \in Kind, mirrorEncryptionKeySecretState(k)
    PROVE  /\ internal' \in [Kind -> Copy] /\ clock' \in Time /\ clock' >= clock
           /\ \A j \in Kind \ {k} : internal'[j] = internal[j]
           /\ user[k] # "absent" => internal'[k].key # "absent"
           /\ user[k] = "absent" => internal'[k].key = "absent"
           /\ \/ internal'[k] = internal[k]
              \/ internal'[k].rot = 0
              \/ /\ internal'[k].rot = clock' /\ internal'[k].key # "absent"
                 /\ MinGap = 1 => clock' > clock
<1>1. user[k] \in Value /\ internal \in [Kind -> Copy] /\ clock \in Time /\ clock \in Int
  BY TimeFacts DEF SecretTypes, RestTypes
<1>2. \A key \in Value, rot \in Time :
        LET new == [internal EXCEPT ![k] = [key |-> key, rot |-> rot]]
        IN  /\ new \in [Kind -> Copy] /\ new[k].key = key /\ new[k].rot = rot
            /\ \A j \in Kind \ {k} : new[j] = internal[j]
  BY <1>1 DEF Copy
<1>3. {"absent", "empty"} \subseteq Value
  BY DEF Value
<1>4. CASE user[k] = "absent" /\ UNCHANGED clock
           /\ internal' = [internal EXCEPT ![k] = [key |-> "absent", rot |-> 0]]
  BY <1>1, <1>2, <1>3, <1>4, TimeFacts
<1>5. CASE user[k] = internal[k].key /\ UNCHANGED << internal, clock >>
  BY <1>1, <1>5
<1>6. CASE user[k] = "empty" /\ UNCHANGED clock
           /\ internal' = [internal EXCEPT ![k] = [key |-> "empty", rot |-> 0]]
  BY <1>1, <1>2, <1>3, <1>6, TimeFacts
<1>7. CASE user[k] # "absent"
           /\ \E t \in Time : Stamp(t) /\ internal' = [internal EXCEPT ![k] = [key |-> user[k], rot |-> t]]
  <2>1. PICK t \in Time : Stamp(t) /\ internal' = [internal EXCEPT ![k] = [key |-> user[k], rot |-> t]]
    BY <1>7
  <2>2. clock' = t /\ t >= clock /\ (MinGap = 1 => t > clock)
    BY <2>1, StampTyped
  <2> QED
    BY <1>1, <1>2, <1>7, <2>1, <2>2
<1> QED
  BY <1>4, <1>5, <1>6, <1>7 DEF mirrorEncryptionKeySecretState

(* What a step leaves alone keeps its type.                                *)
LEMMA SecretsKept == ASSUME SecretTypes, UNCHANGED secrets PROVE SecretTypes'
BY DEF SecretTypes, secrets

(* The same of what the cluster runs.                                      *)
LEMMA ClusterKept == ASSUME ClusterTypes, UNCHANGED << apps, leader >> PROVE ClusterTypes'
BY DEF ClusterTypes, apps

(* The same of the clock and the counters, unless a step counts one up.    *)
LEMMA RestKept ==
    ASSUME RestTypes, UNCHANGED << generated, edits >>, clock' \in Time, mishap' \subseteq Mishap,
           faults' = faults \/ (faults < MaxFaults /\ faults' = faults + 1)
    PROVE  RestTypes'
BY KeyRotationAssumption DEF RestTypes

(* What the records of the reconcile's next states are.                    *)
LEMMA RecTyped ==
    ASSUME RecInv, rec # NoRec, NEW pc \in PCs, pc \notin {"mirrorPwd", "encXML", "mirrorAES"},
           rec' = [rec EXCEPT !.pc = pc]
    PROVE  RecInv'
<1>1. rec \in Rec /\ rec.me \in Instance
  BY DEF RecInv
<1>2. rec' \in Rec /\ rec'.me = rec.me /\ rec'.pc = pc
  BY <1>1 DEF Rec
<1> QED
  BY <1>1, <1>2 DEF RecInv, Step

(* A reconcile at a step other than idle is in progress.                   *)
LEMMA InProgress == ~Step("idle") => rec # NoRec
BY DEF Step, NoRec

(* A step outside of the reconcile keeps what is known of the reconcile.   *)
LEMMA RecKept ==
    ASSUME RecInv, UNCHANGED << rec, internal >> PROVE RecInv'
BY DEF RecInv, Step, Found

(* The steps that mirror the keys keep the types.                          *)
LEMMA MirrorStepTyped ==
    ASSUME TypeInv, MirrorPassword \/ MirrorAES \/ MirrorFails PROVE TypeInv'
<1> USE DEF TypeInv
<1>0. rec # NoRec
  BY InProgress DEF MirrorPassword, MirrorAES, MirrorFails, Step
<1>1. rec \in Rec /\ rec.me \in Instance
  BY <1>0 DEF RecInv
<1>2. clock \in Time /\ mishap \subseteq Mishap /\ {"half", "copies"} \subseteq Mishap
  BY DEF RestTypes, Mishap
<1>3. "pwd" \in Kind /\ "aes" \in Kind 
  BY DEF Kind
<1>4. ASSUME MirrorPassword PROVE TypeInv'
  <2>1. /\ mirrorEncryptionKeySecretState("pwd")
        /\ rec' = [rec EXCEPT !.pc = "mirrorAES", !.pwd = user.pwd # "absent"]
        /\ UNCHANGED << user, encXML, ltpa, config, xml >> /\ UNCHANGED << apps, leader >>
        /\ UNCHANGED << generated, edits >> /\ UNCHANGED << mishap, faults >>
    BY <1>4 DEF MirrorPassword
  <2>2. /\ internal' \in [Kind -> Copy] /\ clock' \in Time
        /\ user.pwd # "absent" => internal'["pwd"].key # "absent"
    BY <1>3, <2>1, MirrorTyped
  <2>3. (user.pwd # "absent") \in BOOLEAN
    OBVIOUS
  <2>4. /\ rec' \in Rec /\ rec'.me \in Instance /\ rec'.pc = "mirrorAES"
        /\ rec'.pwd = (user.pwd # "absent")
    BY <1>1, <2>1, <2>3 DEF Rec, PCs
  <2>5. SecretTypes'
    BY <2>1, <2>2 DEF SecretTypes
  <2>6. ClusterTypes' /\ RestTypes'
    BY <1>2, <2>1, <2>2, ClusterKept, RestKept
  <2>7. RecInv'
    BY <2>2, <2>4 DEF RecInv, Step, Found
  <2> QED
    BY <2>5, <2>6, <2>7
<1>5. ASSUME FallBack, Found("pwd")' \/ ~rec.pwd PROVE RecInv'
  <2>1. CASE rec.pwd /\ rec' = [rec EXCEPT !.pc = "encXML", !.enc = "pwd"]
    <3>1. rec' \in Rec /\ rec'.me \in Instance /\ rec'.pc = "encXML" /\ rec'.enc = "pwd"
      BY <1>1, <2>1 DEF Rec, PCs, Kind
    <3> QED
      BY <1>3, <1>5, <2>1, <3>1 DEF RecInv, Step, Found
  <2>2. CASE End
    BY <2>2, EndTyped
  <2> QED
    BY <1>5, <2>1, <2>2 DEF FallBack
<1>6. ASSUME MirrorAES PROVE TypeInv'
  <2>1. /\ mirrorEncryptionKeySecretState("aes") /\ Step("mirrorAES")
        /\ UNCHANGED << user, encXML, ltpa, config, xml >> /\ UNCHANGED << apps, leader >>
        /\ UNCHANGED << generated, edits >> /\ UNCHANGED faults
        /\ mishap' \in {mishap, mishap \union {"copies"}}
        /\ \/ user.aes # "absent" /\ rec' = [rec EXCEPT !.pc = "encXML", !.enc = "aes"]
           \/ user.aes = "absent" /\ FallBack
    BY <1>6 DEF MirrorAES
  <2>2. /\ internal' \in [Kind -> Copy] /\ clock' \in Time
        /\ internal'["pwd"] = internal["pwd"]
        /\ user.aes # "absent" => internal'["aes"].key # "absent"
    BY <1>3, <2>1, MirrorTyped
  <2>3. SecretTypes'
    BY <2>1, <2>2 DEF SecretTypes
  <2>4. ClusterTypes' /\ RestTypes'
    BY <1>2, <2>1, <2>2, ClusterKept, RestKept
  <2>5. CASE user.aes # "absent" /\ rec' = [rec EXCEPT !.pc = "encXML", !.enc = "aes"]
    <3>1. rec' \in Rec /\ rec'.me \in Instance /\ rec'.pc = "encXML" /\ rec'.enc = "aes"
      BY <1>1, <2>5 DEF Rec, PCs, Kind
    <3>2. RecInv'
      BY <1>3, <2>2, <2>5, <3>1 DEF RecInv, Step, Found
    <3> QED
      BY <2>3, <2>4, <3>2
  <2>6. CASE user.aes = "absent" /\ FallBack
    <3>1. rec.pwd => Found("pwd")
      BY <2>1 DEF RecInv
    <3>2. Found("pwd")' \/ ~rec.pwd
      BY <2>2, <3>1 DEF Found
    <3> QED
      BY <1>5, <2>3, <2>4, <2>6, <3>2
  <2> QED
    BY <2>1, <2>5, <2>6
<1>7. ASSUME MirrorFails PROVE TypeInv'
  <2>1. /\ faults < MaxFaults /\ faults' = faults + 1
        /\ UNCHANGED secrets /\ UNCHANGED << apps, leader >>
        /\ UNCHANGED << generated, edits >> /\ UNCHANGED clock
    BY <1>7 DEF MirrorFails
  <2>2. mishap' \subseteq mishap \union {"half", "copies"}
    BY <1>7 DEF MirrorFails
  <2>3. SecretTypes' /\ ClusterTypes' /\ RestTypes'
    BY <1>2, <2>1, <2>2, SecretsKept, ClusterKept, RestKept
  <2>4. CASE Step("mirrorPwd") /\ Goto("mirrorAES")
    <3>1. /\ rec' \in Rec /\ rec'.me \in Instance /\ rec'.pc = "mirrorAES"
          /\ rec'.pwd = rec.pwd /\ ~rec.pwd
      BY <1>1, <2>4 DEF Goto, RecInv, Rec, PCs, Step
    <3>2. RecInv'
      BY <3>1 DEF RecInv, Step
    <3> QED
      BY <2>3, <3>2
  <2>5. CASE Step("mirrorAES") /\ FallBack
    <3>1. rec.pwd => Found("pwd")
      BY <2>5 DEF RecInv
    <3>2. Found("pwd")' = Found("pwd")
      BY <2>1 DEF Found, secrets
    <3> QED
      BY <1>5, <2>3, <2>5, <3>1, <3>2
  <2> QED
    BY <1>7, <2>4, <2>5 DEF MirrorFails
<1> QED
  BY <1>4, <1>6, <1>7

(* The steps that read the encryption key or write its XML keep the types. *)
LEMMA EncryptionStepTyped ==
    ASSUME TypeInv, (\E i \in Instance : Start(i)) \/ WriteEncryptionXML \/ ReadKey PROVE TypeInv'
<1> USE DEF TypeInv
<1>1. ASSUME NEW i \in Instance, Start(i) PROVE TypeInv'
  <2>1. /\ UNCHANGED secrets /\ UNCHANGED << apps, leader >> /\ UNCHANGED << generated, edits >>
        /\ UNCHANGED << clock, mishap, faults >>
        /\ \/ rec' = [NoRec EXCEPT !.me = i, !.pc = "mirrorPwd"]
           \/ rec' = [NoRec EXCEPT !.me = i, !.pc = "readKey"]
    BY <1>1 DEF Start, counters
  <2>2. SecretTypes' /\ ClusterTypes' /\ RestTypes'
    BY <2>1, SecretsKept, ClusterKept, RestKept DEF RestTypes
  <2>3. rec' \in Rec /\ rec'.me \in Instance /\ rec'.pc \in {"mirrorPwd", "readKey"} /\ ~rec'.pwd
    BY <2>1, EmptyTyped DEF Rec, PCs, NoRec
  <2>4. RecInv'
    BY <2>3 DEF RecInv, Step
  <2> QED
    BY <2>2, <2>4
<1>2. ASSUME WriteEncryptionXML PROVE TypeInv'
  <2>1. /\ Step("encXML") /\ internal' = internal
        /\ UNCHANGED << user, ltpa, config, xml >> /\ UNCHANGED << apps, leader >>
        /\ UNCHANGED << generated, edits >> /\ UNCHANGED << clock, mishap, faults >>
    BY <1>2 DEF WriteEncryptionXML, counters
  <2>2. /\ rec \in Rec /\ rec.me \in Instance /\ rec.enc \in Kind /\ Found(rec.enc)
    BY <2>1, InProgress DEF RecInv, Step
  <2>3. internal[rec.enc] \in Copy
    BY <2>2 DEF SecretTypes
  <2>4. \/ encXML' = encXML /\ rec' = [rec EXCEPT !.pc = "keys", !.enc = "none"]
        \/ /\ internal[rec.enc].key # "empty"
           /\ encXML' = [kind |-> rec.enc, key |-> internal[rec.enc].key]
           /\ rec' = [rec EXCEPT !.pc = "keys", !.encRot = internal[rec.enc].rot]
    BY <1>2 DEF WriteEncryptionXML
  <2>5. encXML' \in EncKey
    <3>1. internal[rec.enc].key # "empty" => internal[rec.enc].key \in Key
      BY <2>2, <2>3 DEF Copy, Value, Found
    <3> QED
      BY <2>2, <2>4, <3>1, EncKeyFacts DEF SecretTypes
  <2>6. rec' \in Rec /\ rec'.me = rec.me /\ rec'.pc = "keys"
    BY <2>2, <2>3, <2>4 DEF Rec, PCs, Copy
  <2>7. RecInv'
    BY <2>2, <2>6 DEF RecInv, Step
  <2>8. SecretTypes'
    BY <2>1, <2>5 DEF SecretTypes
  <2>9. ClusterTypes' /\ RestTypes'
    BY <2>1, ClusterKept, RestKept DEF RestTypes
  <2> QED
    BY <2>7, <2>8, <2>9
<1>3. ASSUME ReadKey PROVE TypeInv'
  <2>1. /\ Step("readKey") /\ UNCHANGED secrets /\ UNCHANGED << apps, leader >>
        /\ UNCHANGED << generated, edits >> /\ UNCHANGED << clock, mishap, faults >>
    BY <1>3 DEF ReadKey, counters
  <2>2. \/ \E k \in Kind : \/ rec' = [rec EXCEPT !.pc = "keys"]
                           \/ rec' = [rec EXCEPT !.pc = "keys", !.enc = k, !.encRot = internal[k].rot]
        \/ End
    BY <1>3 DEF ReadKey, Kind
  <2>3. rec \in Rec /\ rec.me \in Instance
    BY <2>1, InProgress DEF RecInv, Step
  <2>4. RecInv'
    <3>1. ASSUME NEW k \in Kind,
                 \/ rec' = [rec EXCEPT !.pc = "keys"]
                 \/ rec' = [rec EXCEPT !.pc = "keys", !.enc = k, !.encRot = internal[k].rot]
          PROVE  RecInv'
      <4>1. internal[k].rot \in Time
        BY <3>1 DEF SecretTypes, Copy
      <4>2. rec' \in Rec /\ rec'.me = rec.me /\ rec'.pc = "keys"
        BY <2>3, <3>1, <4>1 DEF Rec, PCs
      <4> QED
        BY <2>3, <4>2 DEF RecInv, Step
    <3> QED
      BY <2>2, <3>1, EndTyped
  <2>5. SecretTypes' /\ ClusterTypes' /\ RestTypes'
    BY <2>1, SecretsKept, ClusterKept, RestKept DEF RestTypes
  <2> QED
    BY <2>4, <2>5
<1> QED
  BY <1>1, <1>2, <1>3

(* The steps that read or generate the LTPA keys keep the types.           *)
LEMMA KeysStepTyped ==
    ASSUME TypeInv,
           UseLTPAKeys \/ GenerateLTPAKeys \/ GenerateNoKeys \/ GenerateLTPAKeysFails
    PROVE  TypeInv'
<1> USE DEF TypeInv
<1>1. Step("keys")
  BY DEF UseLTPAKeys, GenerateLTPAKeys, GenerateNoKeys, GenerateLTPAKeysFails
<1>2. rec \in Rec /\ rec.me \in Instance
  BY <1>1, InProgress DEF RecInv, Step
<1>3. mishap \subseteq Mishap /\ {"noKeys", "panic"} \subseteq Mishap /\ clock \in Time
  BY DEF RestTypes, Mishap
<1>4. ASSUME NEW t \in Time, rec' = [rec EXCEPT !.pc = "config", !.rot = t] PROVE RecInv'
  <2>1. rec' \in Rec /\ rec'.me = rec.me /\ rec'.pc = "config"
    BY <1>2, <1>4 DEF Rec, PCs
  <2> QED
    BY <1>2, <2>1 DEF RecInv, Step
<1>5. CASE UseLTPAKeys
  <2>1. /\ UNCHANGED secrets /\ UNCHANGED << apps, leader >>
        /\ UNCHANGED << generated, edits >> /\ UNCHANGED << clock, mishap, faults >>
        /\ rec' = [rec EXCEPT !.pc = "config", !.rot = ltpa.rot]
    BY <1>5 DEF UseLTPAKeys, counters
  <2>2. ltpa.rot \in Time
    BY DEF SecretTypes, LTPA
  <2> QED
    BY <1>3, <1>4, <2>1, <2>2, SecretsKept, ClusterKept, RestKept
<1>6. ASSUME NEW file \in BOOLEAN, NEW t \in Time, Stamp(t), generated' = generated + 1,
             ltpa' = [id |-> generated', rot |-> t, raw |-> TRUE, file |-> file],
             UNCHANGED << user, internal, encXML, config, xml >>, UNCHANGED << apps, leader >>,
             UNCHANGED edits, mishap' \subseteq Mishap,
             faults' = faults \/ (faults < MaxFaults /\ faults' = faults + 1)
      PROVE  SecretTypes' /\ ClusterTypes' /\ RestTypes'
  <2>1. generated' \in Nat
    BY <1>6 DEF RestTypes
  <2>2. ltpa' \in LTPA
    BY <1>6, <2>1 DEF LTPA
  <2>3. SecretTypes'
    BY <1>6, <2>2 DEF SecretTypes
  <2>4. clock' \in Time
    BY <1>6, StampTyped
  <2>5. RestTypes'
    BY <1>6, <2>1, <2>4, KeyRotationAssumption DEF RestTypes
  <2> QED
    BY <1>6, <2>3, <2>5, ClusterKept
<1>7. CASE GenerateLTPAKeys
  <2>1. PICK t \in Time : /\ Stamp(t)
                          /\ ltpa' = [id |-> generated', rot |-> t, raw |-> TRUE, file |-> TRUE]
                          /\ rec' = [rec EXCEPT !.pc = "config", !.rot = t]
    BY <1>7 DEF GenerateLTPAKeys
  <2>2. /\ generated' = generated + 1
        /\ UNCHANGED << user, internal, encXML, config, xml >> /\ UNCHANGED << apps, leader >>
        /\ UNCHANGED edits /\ mishap' = mishap /\ faults' = faults
    BY <1>7 DEF GenerateLTPAKeys
  <2> QED
    BY <1>3, <1>4, <1>6, <2>1, <2>2
<1>8. CASE GenerateNoKeys
  <2>1. PICK t \in Time : /\ Stamp(t)
                          /\ ltpa' = [id |-> generated', rot |-> t, raw |-> TRUE, file |-> FALSE]
                          /\ rec' = [rec EXCEPT !.pc = "config", !.rot = t]
    BY <1>8 DEF GenerateNoKeys
  <2>2. /\ generated' = generated + 1
        /\ UNCHANGED << user, internal, encXML, config, xml >> /\ UNCHANGED << apps, leader >>
        /\ UNCHANGED edits /\ mishap' = mishap \union {"noKeys"}
        /\ faults < MaxFaults /\ faults' = faults + 1
    BY <1>8 DEF GenerateNoKeys
  <2> QED
    BY <1>3, <1>4, <1>6, <2>1, <2>2
<1>9. CASE GenerateLTPAKeysFails
  <2>1. /\ End /\ UNCHANGED secrets /\ UNCHANGED << apps, leader >>
        /\ UNCHANGED << generated, edits >> /\ UNCHANGED << clock, faults >>
        /\ mishap' \in {mishap, mishap \union {"panic"}}
    BY <1>9 DEF GenerateLTPAKeysFails, Fails, Panic, counters
  <2> QED
    BY <1>3, <2>1, EndTyped, SecretsKept, ClusterKept, RestKept
<1> QED
  BY <1>5, <1>7, <1>8, <1>9

(* The label is the later of two times of a configuration.                 *)
LEMMA LabelTyped ==
    ASSUME NEW c \in Config
    PROVE  Label(c) \in Time /\ Label(c) \in {c.rot, c.encRot}
<1>1. c.rot \in Time /\ c.encRot \in Time /\ c.rot \in Int /\ c.encRot \in Int
  BY TimeFacts DEF Config
<1> QED
  BY <1>1, MaxOfTwo DEF Label

(* The steps that make the configuration of the LTPA password, or wait for *)
(* it, keep the types.                                                     *)
LEMMA ConfigStepTyped ==
    ASSUME TypeInv,
           \/ WaitForConfig \/ ConfigWithoutKey \/ DeleteOldLTPA \/ CreateConfig
           \/ CreateConfigFails \/ DeleteOutdated \/ CheckFails \/ WriteXML \/ ReconcileWorkload
    PROVE  TypeInv'
<1> USE DEF TypeInv
<1>1. rec # NoRec
  BY InProgress DEF WaitForConfig, ConfigWithoutKey, DeleteOldLTPA, CreateConfig,
     CreateConfigFails, DeleteOutdated, CheckFails, WriteXML, ReconcileWorkload, Step
<1>2. rec \in Rec /\ rec.me \in Instance /\ rec.keyed \in BOOLEAN
  BY <1>1 DEF RecInv, Rec
<1>3. /\ mishap \subseteq Mishap /\ {"removed", "panic"} \subseteq Mishap /\ clock \in Time
      /\ {"config", "check", "workload"} \subseteq PCs
  BY DEF RestTypes, Mishap, PCs
<1>4. /\ config \in [BOOLEAN -> Config] /\ config[rec.keyed] \in Config
      /\ isUsingPasswordEncryptionKeySharing \in BOOLEAN
  BY <1>2 DEF SecretTypes, isUsingPasswordEncryptionKeySharing
<1>5. CASE WaitForConfig
  <2>1. /\ UNCHANGED secrets /\ UNCHANGED << apps, leader >>
        /\ UNCHANGED << generated, edits >> /\ UNCHANGED << clock, mishap, faults >>
        /\ End \/ rec' = [rec EXCEPT !.pc = "workload"]
    BY <1>5 DEF WaitForConfig, counters, Goto
  <2>2. RecInv'
    BY <1>1, <1>3, <2>1, EndTyped, RecTyped
  <2> QED
    BY <1>3, <2>1, <2>2, SecretsKept, ClusterKept, RestKept
<1>6. CASE ConfigWithoutKey \/ CreateConfigFails \/ CheckFails
  <2>1. /\ End /\ UNCHANGED secrets /\ UNCHANGED << apps, leader >>
        /\ UNCHANGED << generated, edits >> /\ UNCHANGED << clock, faults >>
        /\ mishap' \in {mishap, mishap \union {"panic"}}
    BY <1>6 DEF ConfigWithoutKey, CreateConfigFails, CheckFails, Fails, Panic, counters
  <2> QED
    BY <1>3, <2>1, EndTyped, SecretsKept, ClusterKept, RestKept
<1>7. CASE DeleteOldLTPA
  <2>1. /\ End /\ ltpa' = NoLTPA /\ UNCHANGED << user, internal, encXML, config, xml >>
        /\ UNCHANGED << apps, leader >>
        /\ UNCHANGED << generated, edits >> /\ UNCHANGED << clock, mishap, faults >>
    BY <1>7 DEF DeleteOldLTPA, counters
  <2>2. SecretTypes'
    BY <2>1, EmptyTyped DEF SecretTypes
  <2> QED
    BY <1>3, <2>1, <2>2, EndTyped, ClusterKept, RestKept
<1>8. CASE CreateConfig
  <2> DEFINE k == getInternalEncryptionKeyState
  <2>1. /\ UNCHANGED << user, internal, encXML, ltpa, xml >> /\ UNCHANGED << apps, leader >>
        /\ UNCHANGED << generated, edits >> /\ UNCHANGED << clock, faults >>
        /\ mishap' \in {mishap, mishap \union {"removed"}}
        /\ rec' = [rec EXCEPT !.pc = "check", !.keyed = isUsingPasswordEncryptionKeySharing]
        /\ \/ config' = config
           \/ /\ k \in Kind
              /\ config' = [config EXCEPT ![isUsingPasswordEncryptionKeySharing] =
                    [ltpa |-> ltpa.id, rot |-> ltpa.rot, encRot |-> internal[k].rot,
                     enc |-> [kind |-> k, key |-> internal[k].key]]]
    BY <1>8 DEF CreateConfig
  <2>2. config' \in [BOOLEAN -> Config]
    <3>1. ltpa.id \in Nat /\ ltpa.rot \in Time
      BY DEF SecretTypes, LTPA
    <3>2. k \in Kind => internal[k].rot \in Time /\ [kind |-> k, key |-> internal[k].key] \in EncKey
      BY LookupFacts, EncKeyFacts DEF SecretTypes, Copy
    <3>3. k \in Kind => [ltpa |-> ltpa.id, rot |-> ltpa.rot, encRot |-> internal[k].rot,
                         enc |-> [kind |-> k, key |-> internal[k].key]] \in Config
      BY <3>1, <3>2 DEF Config
    <3> HIDE DEF k
    <3> QED
      BY <1>4, <2>1, <3>3
  <2>3. SecretTypes'
    BY <2>1, <2>2 DEF SecretTypes
  <2>4. rec' \in Rec /\ rec'.me = rec.me /\ rec'.pc = "check"
    BY <1>2, <1>4, <2>1 DEF Rec, PCs
  <2>5. RecInv'
    BY <1>2, <2>4 DEF RecInv, Step
  <2>6. mishap' \subseteq Mishap
    BY <1>3, <2>1
  <2> QED
    BY <1>3, <2>1, <2>3, <2>5, <2>6, ClusterKept, RestKept
<1>9. CASE DeleteOutdated
  <2>1. /\ End /\ config' = [config EXCEPT ![rec.keyed] = NoConfig]
        /\ UNCHANGED << user, internal, encXML, ltpa, xml >> /\ UNCHANGED << apps, leader >>
        /\ UNCHANGED << generated, edits >> /\ UNCHANGED << clock, mishap, faults >>
    BY <1>9 DEF DeleteOutdated, counters
  <2>2. config' \in [BOOLEAN -> Config]
    BY <1>4, <2>1, EmptyTyped
  <2>3. SecretTypes'
    BY <2>1, <2>2 DEF SecretTypes
  <2> QED
    BY <1>3, <2>1, <2>3, EndTyped, ClusterKept, RestKept
<1>10. CASE WriteXML
  <2> DEFINE c == config[rec.keyed]
  <2>1. /\ UNCHANGED << user, internal, encXML, ltpa, config >> /\ UNCHANGED << apps, leader >>
        /\ UNCHANGED << generated, edits >> /\ UNCHANGED << clock, mishap, faults >>
        /\ rec' = [rec EXCEPT !.pc = "workload"]
        /\ xml' = [ltpa |-> c.ltpa, rot |-> c.rot, enc |-> c.enc, encRot |-> c.encRot,
                   label |-> Label(c)]
    BY <1>10 DEF WriteXML, Goto, counters
  <2>2. xml' \in XML
    <3>1. c \in Config /\ Label(c) \in Time
      BY <1>4, LabelTyped
    <3> HIDE DEF c
    <3> QED
      BY <2>1, <3>1 DEF Config, XML
  <2>3. SecretTypes'
    BY <2>1, <2>2 DEF SecretTypes
  <2>4. RecInv'
    BY <1>1, <1>3, <2>1, RecTyped
  <2> QED
    BY <1>3, <2>1, <2>3, <2>4, ClusterKept, RestKept
<1>11. CASE ReconcileWorkload
  <2>1. /\ End /\ UNCHANGED secrets /\ UNCHANGED << pods, leader >>
        /\ UNCHANGED << generated, edits >> /\ UNCHANGED << clock, mishap, faults >>
        /\ \/ template' = template
           \/ /\ rec.enc # "none" => Found(rec.enc)
              /\ template' = [template EXCEPT ![rec.me] =
                    [enc |-> rec.enc # "none", rot |-> ltpa.rot, label |-> xml.label,
                     encRot |-> IF rec.enc # "none" THEN internal[rec.enc].rot ELSE 0]]
    BY <1>11 DEF ReconcileWorkload, counters
  <2>2. ltpa.rot \in Time /\ xml.label \in Time
    BY DEF SecretTypes, LTPA, XML
  <2>3. (IF rec.enc # "none" THEN internal[rec.enc].rot ELSE 0) \in Time
    BY <1>2, TimeFacts DEF SecretTypes, Copy, Rec
  <2>4. template \in [Instance -> Template] /\ (rec.enc # "none") \in BOOLEAN
    BY DEF ClusterTypes
  <2>5. [enc |-> rec.enc # "none", rot |-> ltpa.rot, label |-> xml.label,
         encRot |-> IF rec.enc # "none" THEN internal[rec.enc].rot ELSE 0] \in Template
    BY <2>2, <2>3, <2>4 DEF Template
  <2>6. template' \in [Instance -> Template]
    BY <2>1, <2>4, <2>5
  <2>7. ClusterTypes'
    BY <2>1, <2>6 DEF ClusterTypes
  <2> QED
    BY <1>3, <2>1, <2>7, EndTyped, SecretsKept, RestKept
<1> QED
  BY <1>5, <1>6, <1>7, <1>8, <1>9, <1>10, <1>11

(* Failures, users and the cluster keep the types.                         *)
LEMMA OutsideStepTyped ==
    ASSUME TypeInv,
           \/ Abort \/ RevokeLTPA
           \/ \E i \in Instance : RollOut(i)
           \/ \E k \in Kind, v \in Value : EditKey(k, v)
           \/ \E resource \in DOMAIN leader, i \in Instance : ChangeLeader(resource, i)
    PROVE  TypeInv'
<1> USE DEF TypeInv
<1>1. /\ mishap \subseteq Mishap /\ {"both", "half"} \subseteq Mishap /\ clock \in Time
      /\ MaxUserEdits \in Nat /\ edits \in 0 .. MaxUserEdits
  BY KeyRotationAssumption DEF RestTypes, Mishap
<1>2. Edit => edits' \in 0 .. MaxUserEdits
  BY <1>1 DEF Edit
<1>3. ASSUME Edit, UNCHANGED << generated, clock, faults >>, mishap' \subseteq Mishap PROVE RestTypes'
  BY <1>2, <1>3 DEF RestTypes
<1>4. CASE Abort
  <2>1. /\ End /\ UNCHANGED secrets /\ UNCHANGED << apps, leader >>
        /\ UNCHANGED << generated, edits >> /\ UNCHANGED clock
        /\ faults < MaxFaults /\ faults' = faults + 1
        /\ mishap' \in {mishap, mishap \union {"half"}}
    BY <1>4 DEF Abort
  <2> QED
    BY <1>1, <2>1, EndTyped, SecretsKept, ClusterKept, RestKept
<1>5. CASE RevokeLTPA
  <2>1. /\ Edit /\ ltpa' = NoLTPA /\ UNCHANGED << user, internal, encXML, config, xml >>
        /\ UNCHANGED << apps, leader >> /\ UNCHANGED << rec, internal >>
        /\ UNCHANGED << generated, clock, faults >> /\ mishap' = mishap
    BY <1>5 DEF RevokeLTPA
  <2>2. SecretTypes'
    BY <2>1, EmptyTyped DEF SecretTypes
  <2> QED
    BY <1>1, <1>3, <2>1, <2>2, ClusterKept, RecKept
<1>6. ASSUME NEW i \in Instance, RollOut(i) PROVE TypeInv'
  <2>1. /\ UNCHANGED secrets /\ UNCHANGED << template, leader >> /\ UNCHANGED rec
        /\ UNCHANGED << generated, edits >> /\ UNCHANGED << clock, mishap, faults >>
        /\ pods' = [pods EXCEPT ![i] =
             [ann |-> template[i], enc |-> IF template[i].enc THEN encXML ELSE NoKey,
              ltpa |-> ltpa.id, xml |-> [ltpa |-> xml.ltpa, enc |-> xml.enc]]]
    BY <1>6 DEF RollOut, counters
  <2>2. /\ template[i] \in Template /\ pods \in [Instance -> Pods]
        /\ ltpa.id \in Nat /\ xml.ltpa \in Nat /\ xml.enc \in EncKey
        /\ (IF template[i].enc THEN encXML ELSE NoKey) \in EncKey
    BY EncKeyFacts DEF SecretTypes, ClusterTypes, LTPA, XML
  <2>3. [ann |-> template[i], enc |-> IF template[i].enc THEN encXML ELSE NoKey,
         ltpa |-> ltpa.id, xml |-> [ltpa |-> xml.ltpa, enc |-> xml.enc]] \in Pods
    BY <2>2 DEF Pods
  <2>4. pods' \in [Instance -> Pods]
    BY <2>1, <2>2, <2>3
  <2>5. ClusterTypes'
    BY <2>1, <2>4 DEF ClusterTypes
  <2>6. RecInv'
    BY <2>1, RecKept DEF secrets
  <2> QED
    BY <1>1, <2>1, <2>5, <2>6, SecretsKept, RestKept
<1>7. ASSUME NEW k \in Kind, NEW v \in Value, EditKey(k, v) PROVE TypeInv'
  <2>1. /\ Edit /\ user' = [user EXCEPT ![k] = v]
        /\ UNCHANGED << internal, encXML, ltpa, config, xml >>
        /\ UNCHANGED << apps, leader >> /\ UNCHANGED << rec, internal >>
        /\ UNCHANGED << generated, clock, faults >> /\ mishap' \in {mishap, mishap \union {"both"}}
    BY <1>7 DEF EditKey
  <2>2. SecretTypes'
    BY <1>7, <2>1 DEF SecretTypes
  <2> QED
    BY <1>1, <1>3, <2>1, <2>2, ClusterKept, RecKept
<1>8. ASSUME NEW resource \in DOMAIN leader, NEW i \in Instance, ChangeLeader(resource, i)
      PROVE  TypeInv'
  <2>1. /\ Edit /\ leader' = [leader EXCEPT ![resource] = i]
        /\ UNCHANGED secrets /\ UNCHANGED apps /\ UNCHANGED rec
        /\ UNCHANGED << generated, clock, faults >> /\ mishap' = mishap
    BY <1>8 DEF ChangeLeader
  <2>2. ClusterTypes'
    BY <1>8, <2>1 DEF ClusterTypes, apps
  <2>3. RecInv'
    BY <2>1, RecKept DEF secrets
  <2> QED
    BY <1>1, <1>3, <2>1, <2>2, <2>3, SecretsKept
<1> QED
  BY <1>4, <1>5, <1>6, <1>7, <1>8

(* Every step keeps the types.                                             *)
LEMMA TypeStep == TypeInv /\ [Next]_vars => TypeInv'
<1> SUFFICES ASSUME TypeInv, [Next]_vars PROVE TypeInv'
  OBVIOUS
<1>1. CASE UNCHANGED vars
  <2>1. /\ UNCHANGED secrets /\ UNCHANGED << apps, leader >> /\ UNCHANGED << rec, internal >>
        /\ UNCHANGED << generated, edits >> /\ UNCHANGED << clock, mishap, faults >>
    BY <1>1 DEF vars, secrets, apps
  <2> QED
    BY <2>1, SecretsKept, ClusterKept, RestKept, RecKept DEF TypeInv, RestTypes
<1>2. CASE Next
  BY <1>2, MirrorStepTyped, EncryptionStepTyped, KeysStepTyped, ConfigStepTyped,
     OutsideStepTyped DEF Next, Continue
<1> QED
  BY <1>1, <1>2

(* The variables hold what the Secrets, templates and pods can hold.       *)
THEOREM TypeCorrect == Spec => []TypeOK
<1>1. TypeInv => TypeOK
  <2> SUFFICES ASSUME TypeInv PROVE TypeOK
    OBVIOUS
  <2>1. \A i \in Instance : pods[i].enc \in EncKey /\ pods[i].ltpa \in Nat
    BY DEF TypeInv, ClusterTypes, Pods
  <2> QED
    BY <2>1 DEF TypeInv, SecretTypes, ClusterTypes, RestTypes, RecInv, TypeOK, Copy, LTPA,
       Config, XML, Template
<1> QED
  BY <1>1, InitTyped, TypeStep, PTL DEF Spec

-----------------------------------------------------------------------------
(* The followers' yielding is enough.                                      *)

(* What the invariant compares is numbers, none of them negative.          *)
LEMMA Numbers ==
    ASSUME TypeInv
    PROVE  /\ \A k \in Kind : internal[k].rot \in Int /\ internal[k].rot >= 0
           /\ ltpa.rot \in Int /\ ltpa.rot >= 0
           /\ rec.rot \in Int /\ rec.encRot \in Int
           /\ \A b \in BOOLEAN : config[b] \in Config /\ config[b].rot \in Int /\ config[b].encRot \in Int
           /\ xml.rot \in Int /\ xml.encRot \in Int /\ xml.label \in Int
           /\ xml.rot >= 0 /\ xml.encRot >= 0
           /\ clock \in Int /\ clock >= 0
<1>1. \A t \in Time : t \in Int /\ t >= 0
  BY TimeFacts
<1>2. /\ \A k \in Kind : internal[k] \in Copy
      /\ ltpa \in LTPA /\ rec \in Rec /\ xml \in XML /\ clock \in Time
      /\ \A b \in BOOLEAN : config[b] \in Config
  BY DEF TypeInv, SecretTypes, RestTypes, RecInv
<1>3. \A k \in Kind : internal[k].rot \in Time
  BY <1>2 DEF Copy
<1>4. ltpa.rot \in Time /\ rec.rot \in Time /\ rec.encRot \in Time
  BY <1>2 DEF LTPA, Rec
<1>5. xml.rot \in Time /\ xml.encRot \in Time /\ xml.label \in Time
  BY <1>2 DEF XML
<1>6. \A b \in BOOLEAN : config[b].rot \in Time /\ config[b].encRot \in Time
  BY <1>2 DEF Config
<1> QED
  BY <1>1, <1>2, <1>3, <1>4, <1>5, <1>6

(* The fields of the records that the variables begin with.                *)
LEMMA EmptyFields ==
    /\ NoLTPA.rot = 0 /\ NoConfig.rot = 0 /\ NoConfig.encRot = 0
    /\ NoXML.rot = 0 /\ NoXML.encRot = 0 /\ NoXML.label = 0
    /\ NoRec.pc = "idle" /\ NoRec.rot = 0 /\ NoRec.encRot = 0
BY DEF NoLTPA, NoConfig, NoXML, NoRec

(* Nothing is read when no reconcile is in progress.                       *)
LEMMA EndRead ==
    ASSUME End
    PROVE  /\ rec'.pc = "idle" /\ rec'.rot = 0 /\ rec'.encRot = 0
           /\ ReadInv' /\ YieldIsEnough'
<1>1. rec'.pc = "idle" /\ rec'.rot = 0 /\ rec'.encRot = 0
  BY EmptyFields DEF End
<1> QED
  BY <1>1 DEF ReadInv, YieldIsEnough, Step

(* The invariant holds at first: nothing is stamped but an old LTPA Secret.*)
LEMMA InitYield == Init => YieldInv
<1> SUFFICES ASSUME Init PROVE YieldInv
  OBVIOUS
<1>1. /\ \A k \in Kind : internal[k].key = "absent" /\ internal[k].rot = 0
      /\ \A b \in BOOLEAN : config[b] = NoConfig
      /\ xml = NoXML /\ rec = NoRec /\ clock = 1
  BY DEF Init
<1>2. ltpa.rot \in {0, 1}
  BY EmptyFields DEF Init
<1>3. StampInv
  BY <1>1, <1>2, EmptyFields DEF StampInv
<1>4. ReadInv /\ YieldIsEnough
  BY <1>1, EmptyFields DEF ReadInv, YieldIsEnough, Step
<1>5. LabelInvQ
  BY <1>1, <1>2, EmptyFields DEF LabelInvQ, LabelInv
<1>6. CopyInv
  <2>1. Kind # {}
    BY DEF Kind
  <2> QED
    BY <1>1, <2>1, EmptyFields DEF CopyInv, BothCopies, Step
<1> QED
  BY <1>3, <1>4, <1>5, <1>6 DEF YieldInv

(* A step of the reconcile that changes no Secret keeps the invariant if   *)
(* what it has read is there.                                              *)
LEMMA MoveYield ==
    ASSUME TypeInv, YieldInv, UNCHANGED << internal, ltpa, config, xml, clock >>,
           mishap \subseteq mishap', rec'.rot <= clock, rec'.encRot <= clock,
           ReadInv', CopyInv', YieldIsEnough'
    PROVE  YieldInv'
<1>1. StampInv'
  BY DEF YieldInv, StampInv
<1>2. LabelInvQ'
  BY DEF YieldInv, LabelInvQ, LabelInv, Quiet
<1> QED
  BY <1>1, <1>2 DEF YieldInv

(* A reconcile that ends, having deleted what it deletes, keeps it, if no  *)
(* two copies are left.                                                    *)
LEMMA EndYield ==
    ASSUME TypeInv, YieldInv, End, UNCHANGED << internal, xml, clock >>,
           mishap \subseteq mishap', Quiet' => ~BothCopies(internal),
           ltpa' \in {ltpa, NoLTPA}, \A b \in BOOLEAN : config'[b] \in {config[b], NoConfig}
    PROVE  YieldInv'
<1>1. /\ rec'.pc = "idle" /\ rec'.rot = 0 /\ rec'.encRot = 0
      /\ ReadInv' /\ YieldIsEnough'
  BY EndRead
<1>2. StampInv'
  BY <1>1, Numbers, EmptyFields DEF YieldInv, StampInv
<1>3. LabelInvQ'
  BY Numbers, EmptyFields DEF YieldInv, LabelInvQ, LabelInv, Quiet
<1>4. CopyInv'
  BY <1>1 DEF YieldInv, CopyInv, Quiet, Step, BothCopies
<1> QED
  BY <1>1, <1>2, <1>3, <1>4 DEF YieldInv

(* At no other step than mirrorAES are both copies there.                  *)
LEMMA OneCopy ==
    ASSUME YieldInv, rec.pc # "mirrorAES", Quiet PROVE ~BothCopies(internal)
BY DEF YieldInv, CopyInv, Step

(* A step that mirrors a key keeps the invariant: a new stamp is later     *)
(* than every label.                                                       *)
LEMMA MirrorYield ==
    ASSUME MinGap = 1, TypeInv, YieldInv, NEW k \in Kind, mirrorEncryptionKeySecretState(k),
           UNCHANGED << ltpa, config, xml >>, mishap \subseteq mishap',
           rec'.pc \in {"idle", "mirrorAES", "encXML"}, rec'.rot \in {0, rec.rot}, rec'.encRot = 0,
           Quiet' => (BothCopies(internal') => Step("mirrorAES")' /\ rec'.pwd)
    PROVE  YieldInv'
<1>1. /\ clock' \in Time /\ clock' >= clock
      /\ \A j \in Kind \ {k} : internal'[j] = internal[j]
      /\ \/ internal'[k] = internal[k]
         \/ internal'[k].rot = 0
         \/ /\ internal'[k].rot = clock' /\ internal'[k].key # "absent"
            /\ MinGap = 1 => clock' > clock
  BY MirrorTyped DEF TypeInv
<1>2. clock' \in Int
  BY <1>1, TimeFacts
<1>3. \A j \in Kind : \/ internal'[j] = internal[j]
                      \/ internal'[j].rot = 0
                      \/ /\ internal'[j].rot = clock' /\ internal'[j].key # "absent"
                         /\ clock' > clock
  BY <1>1
<1>4. /\ StampInv /\ LabelInvQ /\ CopyInv
      /\ \A j \in Kind : internal[j].rot <= clock /\ internal[j].rot \in Int
  BY Numbers DEF YieldInv, StampInv
<1>5. \A j \in Kind : internal'[j].rot <= clock'
  BY <1>1, <1>2, <1>3, <1>4, Numbers
<1>6. StampInv'
  <2>1. /\ ltpa.rot <= clock' /\ rec'.rot <= clock' /\ rec'.encRot <= clock'
        /\ xml.rot <= clock' /\ xml.encRot <= clock' /\ xml.label <= clock'
    BY <1>1, <1>2, <1>4, Numbers DEF StampInv
  <2>2. \A b \in BOOLEAN : config[b].rot <= clock' /\ config[b].encRot <= clock'
    BY <1>1, <1>2, <1>4, Numbers DEF StampInv
  <2> QED
    BY <1>5, <2>1, <2>2 DEF StampInv
<1>7. ReadInv' /\ YieldIsEnough'
  BY DEF ReadInv, YieldIsEnough, Step
<1>8. LabelInvQ'
  <2>1. xml.label <= clock /\ xml.encRot >= 0
    BY <1>4, Numbers DEF StampInv
  <2>2. ASSUME Quiet PROVE LabelInv'
    <3>1. \A j \in Kind : internal[j].rot <= xml.encRot \/ internal[j].rot > xml.label
      BY <1>4, <2>2 DEF LabelInvQ, LabelInv
    <3>2. \A j \in Kind : internal'[j].rot <= xml.encRot \/ internal'[j].rot > xml.label
      BY <1>2, <1>3, <2>1, <3>1, Numbers
    <3> QED
      BY <1>4, <2>2, <3>2 DEF LabelInvQ, LabelInv
  <2> QED
    BY <2>2 DEF LabelInvQ, Quiet
<1>9. CopyInv'
  <2>1. \A j \in Kind : internal'[j].key = "absent" => internal'[j].rot = 0
    BY <1>3, <1>4 DEF CopyInv
  <2> QED
    BY <2>1 DEF CopyInv, Step
<1> QED
  BY <1>6, <1>7, <1>8, <1>9 DEF YieldInv

(* Mirroring the keys keeps the invariant: where it leaves both copies, it *)
(* is a mishap.                                                            *)
LEMMA MirrorStepYield ==
    ASSUME MinGap = 1, TypeInv, YieldInv, MirrorPassword \/ MirrorAES \/ MirrorFails
    PROVE  YieldInv'
<1>1. rec \in Rec
  BY DEF TypeInv, RecInv
<1>2. rec.encRot = 0 /\ rec.pc \in {"mirrorPwd", "mirrorAES"}
  BY DEF MirrorPassword, MirrorAES, MirrorFails, Step, YieldInv, ReadInv
<1>3. ASSUME FallBack
      PROVE  rec'.pc \in {"idle", "encXML"} /\ rec'.rot \in {0, rec.rot} /\ rec'.encRot = 0
  <2>1. CASE rec' = [rec EXCEPT !.pc = "encXML", !.enc = "pwd"]
    BY <1>1, <1>2, <2>1 DEF Rec
  <2>2. CASE End
    BY <2>2, EndRead
  <2> QED
    BY <1>3, <2>1, <2>2 DEF FallBack
<1>4. CASE MirrorPassword
  <2>1. /\ mirrorEncryptionKeySecretState("pwd") /\ Step("mirrorPwd")
        /\ UNCHANGED << ltpa, config, xml >> /\ mishap' = mishap
        /\ rec' = [rec EXCEPT !.pc = "mirrorAES", !.pwd = user.pwd # "absent"]
    BY <1>4 DEF MirrorPassword
  <2>2. /\ rec'.pc = "mirrorAES" /\ rec'.rot = rec.rot /\ rec'.encRot = 0
        /\ rec'.pwd = (user.pwd # "absent")
    BY <1>1, <1>2, <2>1 DEF Rec
  <2>3. user["pwd"] = "absent" => internal'["pwd"].key = "absent"
    BY <2>1, MirrorTyped DEF TypeInv, Kind
  <2>4. BothCopies(internal') => Step("mirrorAES")' /\ rec'.pwd
    BY <2>2, <2>3 DEF BothCopies, Kind, Step
  <2> QED
    BY <2>1, <2>2, <2>4, MirrorYield DEF Kind
<1>5. CASE MirrorAES
  <2>1. /\ mirrorEncryptionKeySecretState("aes") /\ Step("mirrorAES")
        /\ UNCHANGED << ltpa, config, xml >>
        /\ mishap' = IF BothCopies(internal') THEN mishap \union {"copies"} ELSE mishap
        /\ rec' = [rec EXCEPT !.pc = "encXML", !.enc = "aes"] \/ FallBack
    BY <1>5 DEF MirrorAES
  <2>2. rec'.pc \in {"idle", "encXML"} /\ rec'.rot \in {0, rec.rot} /\ rec'.encRot = 0
    BY <1>1, <1>2, <1>3, <2>1 DEF Rec
  <2>3. Quiet' => ~BothCopies(internal')
    BY <2>1 DEF Quiet
  <2> QED
    BY <2>1, <2>2, <2>3, MirrorYield DEF Kind
<1>6. CASE MirrorFails
  <2>1. UNCHANGED << internal, ltpa, config, xml, clock >> /\ mishap \subseteq mishap'
    BY <1>6 DEF MirrorFails, secrets
  <2>2. CASE Step("mirrorPwd") /\ Goto("mirrorAES")
    <3>1. rec'.pc = "mirrorAES" /\ rec'.rot = rec.rot /\ rec'.encRot = 0
      BY <1>1, <1>2, <2>2 DEF Rec, Goto
    <3>2. rec'.rot <= clock /\ rec'.encRot <= clock
      BY <3>1, Numbers DEF YieldInv, StampInv
    <3>3. ReadInv' /\ YieldIsEnough'
      BY <3>1 DEF ReadInv, YieldIsEnough, Step
    <3>4. Quiet' => Quiet /\ ~BothCopies(internal)
      BY <2>1, <2>2, OneCopy DEF Quiet, Step
    <3>5. CopyInv'
      BY <2>1, <3>1, <3>4 DEF YieldInv, CopyInv, Step, BothCopies
    <3> QED
      BY <2>1, <3>2, <3>3, <3>5, MoveYield
  <2>3. CASE /\ Step("mirrorAES") /\ FallBack
             /\ BothCopies(internal) => "copies" \in mishap'
    <3>1. rec'.pc \in {"idle", "encXML"} /\ rec'.rot \in {0, rec.rot} /\ rec'.encRot = 0
      BY <1>3, <2>3
    <3>2. rec'.rot <= clock /\ rec'.encRot <= clock
      BY <3>1, Numbers DEF YieldInv, StampInv
    <3>3. ReadInv' /\ YieldIsEnough'
      BY <3>1 DEF ReadInv, YieldIsEnough, Step
    <3>4. Quiet' => ~BothCopies(internal)
      BY <2>3 DEF Quiet
    <3>5. CopyInv'
      BY <2>1, <3>1, <3>4 DEF YieldInv, CopyInv, Step, BothCopies
    <3> QED
      BY <2>1, <3>2, <3>3, <3>5, MoveYield
  <2>4. \/ Step("mirrorPwd") /\ Goto("mirrorAES")
        \/ /\ Step("mirrorAES") /\ FallBack
           /\ BothCopies(internal) => "copies" \in mishap'
    BY <1>6 DEF MirrorFails
  <2> QED
    BY <2>2, <2>3, <2>4
<1> QED
  BY <1>4, <1>5, <1>6

(* What is read of the encryption key is 0 or the stamp of a copy.         *)
LEMMA ReadYield ==
    ASSUME TypeInv, YieldInv, UNCHANGED << internal, ltpa, config, xml, clock >>,
           mishap \subseteq mishap', rec.pc # "mirrorAES",
           rec'.pc \in {"idle", "mirrorPwd", "readKey", "keys"}, rec'.rot \in {0, rec.rot},
           \/ rec'.encRot = 0
           \/ rec'.pc = "keys" /\ \E k \in Kind : rec'.encRot = internal[k].rot
    PROVE  YieldInv'
<1>1. ReadInv' /\ YieldIsEnough'
  BY DEF ReadInv, YieldIsEnough, Step
<1>2. rec'.rot <= clock /\ rec'.encRot <= clock
  BY Numbers DEF YieldInv, StampInv
<1>3. Quiet' => Quiet /\ ~BothCopies(internal)
  BY OneCopy DEF Quiet
<1>4. CopyInv'
  BY <1>3 DEF YieldInv, CopyInv, Step, BothCopies
<1> QED
  BY <1>1, <1>2, <1>4, MoveYield

(* The steps that read the encryption key or write its XML keep the        *)
(* invariant.                                                              *)
LEMMA EncryptionStepYield ==
    ASSUME TypeInv, YieldInv, (\E i \in Instance : Start(i)) \/ WriteEncryptionXML \/ ReadKey
    PROVE  YieldInv'
<1>1. rec \in Rec
  BY DEF TypeInv, RecInv
<1>2. UNCHANGED << internal, ltpa, config, xml, clock >> /\ mishap' = mishap
  BY DEF Start, WriteEncryptionXML, ReadKey, secrets, counters
<1>3. /\ rec.pc # "mirrorAES" /\ rec.encRot = 0
      /\ rec'.pc \in {"idle", "mirrorPwd", "readKey", "keys"} /\ rec'.rot \in {0, rec.rot}
      /\ \/ rec'.encRot = 0
         \/ rec'.pc = "keys" /\ \E k \in Kind : rec'.encRot = internal[k].rot
  <2>1. CASE \E i \in Instance : Start(i)
    <3>1. /\ rec.pc = "idle"
          /\ \E i \in Instance : \/ rec' = [NoRec EXCEPT !.me = i, !.pc = "mirrorPwd"]
                                 \/ rec' = [NoRec EXCEPT !.me = i, !.pc = "readKey"]
      BY <2>1 DEF Start, Step
    <3>2. rec'.pc \in {"mirrorPwd", "readKey"} /\ rec'.rot = 0 /\ rec'.encRot = 0
      BY <3>1 DEF NoRec
    <3> QED
      BY <3>1, <3>2 DEF YieldInv, ReadInv
  <2>2. CASE WriteEncryptionXML
    <3>1. /\ rec.pc = "encXML" /\ rec.enc \in Kind
          /\ \/ rec' = [rec EXCEPT !.pc = "keys", !.enc = "none"]
             \/ rec' = [rec EXCEPT !.pc = "keys", !.encRot = internal[rec.enc].rot]
      BY <2>2 DEF WriteEncryptionXML, Step, TypeInv, RecInv
    <3>2. rec.encRot = 0
      BY <3>1 DEF YieldInv, ReadInv
    <3> QED
      BY <1>1, <3>1, <3>2 DEF Rec
  <2>3. CASE ReadKey
    <3>1. /\ rec.pc = "readKey"
          /\ \/ \E k \in Kind : \/ rec' = [rec EXCEPT !.pc = "keys"]
                                \/ rec' = [rec EXCEPT !.pc = "keys", !.enc = k,
                                                      !.encRot = internal[k].rot]
             \/ End
      BY <2>3 DEF ReadKey, Kind, Step
    <3>2. rec.encRot = 0
      BY <3>1 DEF YieldInv, ReadInv
    <3>3. ASSUME NEW k \in Kind,
                 \/ rec' = [rec EXCEPT !.pc = "keys"]
                 \/ rec' = [rec EXCEPT !.pc = "keys", !.enc = k, !.encRot = internal[k].rot]
          PROVE  /\ rec'.pc = "keys" /\ rec'.rot = rec.rot
                 /\ rec'.encRot = 0 \/ rec'.encRot = internal[k].rot
      BY <1>1, <3>2, <3>3 DEF Rec
    <3> QED
      BY <3>1, <3>2, <3>3, EndRead
  <2> QED
    BY <2>1, <2>2, <2>3
<1> QED
  BY <1>2, <1>3, ReadYield

(* The LTPA Secret in use is the one whose stamp the reconcile has read; a *)
(* generated one is stamped later than every label.                        *)
LEMMA KeysStepYield ==
    ASSUME MinGap = 1, TypeInv, YieldInv,
           UseLTPAKeys \/ GenerateLTPAKeys \/ GenerateNoKeys \/ GenerateLTPAKeysFails
    PROVE  YieldInv'
<1>1. rec \in Rec
  BY DEF TypeInv, RecInv
<1>2. rec.pc = "keys"
  BY DEF UseLTPAKeys, GenerateLTPAKeys, GenerateNoKeys, GenerateLTPAKeysFails, Step
<1>3. rec.encRot = 0 \/ \E k \in Kind : rec.encRot = internal[k].rot
  BY <1>2 DEF YieldInv, ReadInv
<1>4. ASSUME Quiet' => Quiet, UNCHANGED internal,
             rec'.pc = "config"
      PROVE  CopyInv'
  <2>1. Quiet' => ~BothCopies(internal)
    BY <1>2, <1>4, OneCopy
  <2> QED
    BY <1>4, <2>1 DEF YieldInv, CopyInv, Step, BothCopies
<1>5. CASE UseLTPAKeys
  <2>1. /\ UNCHANGED << internal, ltpa, config, xml, clock >> /\ mishap' = mishap
        /\ rec' = [rec EXCEPT !.pc = "config", !.rot = ltpa.rot]
    BY <1>5 DEF UseLTPAKeys, secrets, counters
  <2>2. rec'.pc = "config" /\ rec'.rot = ltpa.rot /\ rec'.encRot = rec.encRot
    BY <1>1, <2>1 DEF Rec
  <2>3. ReadInv' /\ YieldIsEnough'
    BY <1>3, <2>1, <2>2 DEF ReadInv, YieldIsEnough, Step
  <2>4. rec'.rot <= clock /\ rec'.encRot <= clock
    BY <2>2 DEF YieldInv, StampInv
  <2>5. CopyInv'
    BY <1>4, <2>1, <2>2 DEF Quiet
  <2> QED
    BY <2>1, <2>3, <2>4, <2>5, MoveYield
<1>6. ASSUME NEW t \in Time, Stamp(t), ltpa'.rot = t, rec' = [rec EXCEPT !.pc = "config", !.rot = t],
             UNCHANGED << internal, config, xml >>, mishap \subseteq mishap'
      PROVE  YieldInv'
  <2>1. clock' = t /\ t > clock /\ t \in Int
    BY <1>6, StampTyped, TimeFacts DEF TypeInv
  <2>2. rec'.pc = "config" /\ rec'.rot = t /\ rec'.encRot = rec.encRot
    BY <1>1, <1>6 DEF Rec
  <2>3. StampInv'
    BY <1>6, <2>1, <2>2, Numbers DEF YieldInv, StampInv
  <2>4. ReadInv' /\ YieldIsEnough'
    BY <1>3, <1>6, <2>2 DEF ReadInv, YieldIsEnough, Step
  <2>5. LabelInvQ'
    <3>1. xml.label < t
      BY <2>1, Numbers DEF YieldInv, StampInv
    <3> QED
      BY <1>6, <3>1 DEF YieldInv, LabelInvQ, LabelInv, Quiet
  <2>6. CopyInv'
    BY <1>4, <1>6, <2>2 DEF Quiet
  <2> QED
    BY <2>3, <2>4, <2>5, <2>6 DEF YieldInv
<1>7. CASE GenerateLTPAKeys
  <2>1. PICK t \in Time : /\ Stamp(t)
                          /\ ltpa' = [id |-> generated', rot |-> t, raw |-> TRUE, file |-> TRUE]
                          /\ rec' = [rec EXCEPT !.pc = "config", !.rot = t]
    BY <1>7 DEF GenerateLTPAKeys
  <2>2. ltpa'.rot = t
    BY <2>1
  <2>3. UNCHANGED << internal, config, xml >> /\ mishap' = mishap
    BY <1>7 DEF GenerateLTPAKeys
  <2> QED
    BY <1>6, <2>1, <2>2, <2>3
<1>8. CASE GenerateNoKeys
  <2>1. PICK t \in Time : /\ Stamp(t)
                          /\ ltpa' = [id |-> generated', rot |-> t, raw |-> TRUE, file |-> FALSE]
                          /\ rec' = [rec EXCEPT !.pc = "config", !.rot = t]
    BY <1>8 DEF GenerateNoKeys
  <2>2. ltpa'.rot = t
    BY <2>1
  <2>3. UNCHANGED << internal, config, xml >> /\ mishap \subseteq mishap'
    BY <1>8 DEF GenerateNoKeys
  <2> QED
    BY <1>6, <2>1, <2>2, <2>3
<1>9. CASE GenerateLTPAKeysFails
  <2>1. /\ End /\ UNCHANGED << internal, ltpa, config, xml, clock >>
        /\ mishap \subseteq mishap'
    BY <1>9 DEF GenerateLTPAKeysFails, Fails, Panic, secrets, counters
  <2>2. Quiet' => ~BothCopies(internal)
    BY <1>2, <2>1, OneCopy DEF Quiet
  <2> QED
    BY <2>1, <2>2, EndYield
<1> QED
  BY <1>5, <1>7, <1>8, <1>9

(* A follower that stops waiting has an XML of the keys it has read: those *)
(* are not later than the label, and an XML of other keys has an earlier   *)
(* label.                                                                  *)
LEMMA WaitYield == ASSUME TypeInv, YieldInv, WaitForConfig PROVE YieldInv'
<1>1. rec \in Rec
  BY DEF TypeInv, RecInv
<1>2. /\ rec.pc = "config" /\ UNCHANGED << internal, ltpa, config, xml, clock >>
      /\ mishap' = mishap
      /\ End \/ (ltpa # NoLTPA /\ LabelIsLate /\ rec' = [rec EXCEPT !.pc = "workload"])
  BY DEF WaitForConfig, Step, Goto, secrets, counters
<1>3. Quiet => ~BothCopies(internal)
  BY <1>2, OneCopy
<1>4. CASE End
  BY <1>2, <1>3, <1>4, EndYield DEF Quiet
<1>5. CASE ltpa # NoLTPA /\ LabelIsLate /\ rec' = [rec EXCEPT !.pc = "workload"]
  <2>1. rec'.pc = "workload" /\ rec'.rot = rec.rot /\ rec'.encRot = rec.encRot
    BY <1>1, <1>5 DEF Rec
  <2>2. rec.rot \in Int /\ rec.encRot \in Int /\ xml.label \in Int
    BY Numbers
  <2>3. xml.label >= rec.rot /\ xml.label >= rec.encRot
    <3> DEFINE m == Max({rec.encRot, rec.rot})
    <3>1. m \in {rec.encRot, rec.rot} /\ m >= rec.encRot /\ m >= rec.rot
      BY <2>2, MaxOfTwo
    <3>2. xml.label >= m
      BY <1>5 DEF LabelIsLate, lastKeyRelatedRotation
    <3> HIDE DEF m
    <3> QED
      BY <2>2, <3>1, <3>2
  <2>4. /\ rec.encRot = 0 \/ \E k \in Kind : rec.encRot = internal[k].rot
        /\ ltpa.rot = rec.rot
    BY <1>2, <1>5 DEF YieldInv, ReadInv
  <2>5. ASSUME Quiet PROVE xml.rot >= rec.rot /\ xml.encRot >= rec.encRot
    <3>1. LabelInv
      BY <2>5 DEF YieldInv, LabelInvQ
    <3> QED
      BY <2>2, <2>3, <2>4, <3>1, Numbers DEF LabelInv
  <2>6. YieldIsEnough'
    BY <1>2, <2>1, <2>5 DEF YieldIsEnough, Quiet
  <2>7. ReadInv'
    BY <2>1 DEF ReadInv
  <2>8. CopyInv'
    BY <1>2, <1>3, <2>1 DEF YieldInv, CopyInv, Step, BothCopies, Quiet
  <2>9. rec'.rot <= clock /\ rec'.encRot <= clock
    BY <2>1 DEF YieldInv, StampInv
  <2> QED
    BY <1>2, <2>6, <2>7, <2>8, <2>9, MoveYield
<1> QED
  BY <1>2, <1>4, <1>5

(* The steps after which the reconcile ends keep the invariant.            *)
LEMMA EndStepYield ==
    ASSUME TypeInv, YieldInv,
           \/ ConfigWithoutKey \/ CreateConfigFails \/ CheckFails \/ DeleteOldLTPA
           \/ DeleteOutdated \/ ReconcileWorkload \/ Abort
    PROVE  YieldInv'
<1>1. End /\ mishap \subseteq mishap' /\ UNCHANGED << internal, xml, clock >>
  BY DEF ConfigWithoutKey, CreateConfigFails, CheckFails, DeleteOldLTPA, DeleteOutdated,
     ReconcileWorkload, Abort, Fails, Panic, secrets, counters
<1>2. ltpa' \in {ltpa, NoLTPA}
  BY DEF ConfigWithoutKey, CreateConfigFails, CheckFails, DeleteOldLTPA, DeleteOutdated,
     ReconcileWorkload, Abort, Fails, Panic, secrets
<1>3. config' = config \/ config' = [config EXCEPT ![rec.keyed] = NoConfig]
  BY DEF ConfigWithoutKey, CreateConfigFails, CheckFails, DeleteOldLTPA, DeleteOutdated,
     ReconcileWorkload, Abort, Fails, Panic, secrets
<1>4. \A b \in BOOLEAN : config'[b] \in {config[b], NoConfig}
  <2>1. config \in [BOOLEAN -> Config]
    BY DEF TypeInv, SecretTypes
  <2> QED
    BY <1>3, <2>1
<1>5. ASSUME Quiet' PROVE ~BothCopies(internal)
  <2>1. Quiet
    BY <1>1, <1>5 DEF Quiet
  <2>2. CASE rec.pc # "mirrorAES"
    BY <2>1, <2>2, OneCopy
  <2>3. CASE rec.pc = "mirrorAES" /\ Abort
    <3>1. rec.pwd => "half" \in mishap'
      BY <2>3 DEF Abort, Step
    <3>2. ~rec.pwd
      BY <1>5, <3>1 DEF Quiet
    <3> QED
      BY <2>1, <3>2 DEF YieldInv, CopyInv
  <2>4. rec.pc = "mirrorAES" => Abort
    BY DEF ConfigWithoutKey, CreateConfigFails, CheckFails, DeleteOldLTPA, DeleteOutdated,
       ReconcileWorkload, Step
  <2> QED
    BY <2>2, <2>3, <2>4
<1> QED
  BY <1>1, <1>2, <1>4, <1>5, EndYield

(* The password is encoded for the LTPA Secret and the encryption key that *)
(* are there.                                                              *)
LEMMA CreateYield == ASSUME TypeInv, YieldInv, CreateConfig PROVE YieldInv'
<1> DEFINE keyed == isUsingPasswordEncryptionKeySharing
           k == getInternalEncryptionKeyState
<1>1. rec \in Rec /\ config \in [BOOLEAN -> Config] /\ keyed \in BOOLEAN
  BY DEF TypeInv, RecInv, SecretTypes, isUsingPasswordEncryptionKeySharing
<1>2. /\ rec.pc = "config" /\ UNCHANGED << internal, ltpa, xml, clock >>
      /\ mishap' = (IF keyed THEN mishap ELSE mishap \union {"removed"})
      /\ rec' = [rec EXCEPT !.pc = "check", !.keyed = keyed]
      /\ \/ config' = config
         \/ /\ k \in Kind
            /\ config' = [config EXCEPT ![keyed] =
                    [ltpa |-> ltpa.id, rot |-> ltpa.rot, encRot |-> internal[k].rot,
                     enc |-> [kind |-> k, key |-> internal[k].key]]]
  BY DEF CreateConfig, Step
<1> HIDE DEF keyed, k
<1>3. /\ rec'.pc = "check" /\ rec'.rot = rec.rot /\ rec'.encRot = rec.encRot
      /\ rec'.keyed = keyed
  BY <1>1, <1>2 DEF Rec
<1>4. \A b \in BOOLEAN : \/ config'[b] = config[b]
                         \/ /\ config'[b].rot = ltpa.rot
                            /\ k \in Kind /\ config'[b].encRot = internal[k].rot
  BY <1>1, <1>2
<1>5. StampInv'
  <2>1. /\ \A j \in Kind : internal[j].rot <= clock
        /\ ltpa.rot <= clock /\ \A b \in BOOLEAN : config[b].rot <= clock /\ config[b].encRot <= clock
    BY DEF YieldInv, StampInv
  <2>2. \A b \in BOOLEAN : config'[b].rot <= clock /\ config'[b].encRot <= clock
    BY <1>4, <2>1
  <2> QED
    BY <1>2, <1>3, <2>2 DEF YieldInv, StampInv
<1>6. ReadInv' /\ YieldIsEnough'
  BY <1>2, <1>3 DEF YieldInv, ReadInv, YieldIsEnough, Step
<1>7. Quiet' => Quiet /\ keyed
  BY <1>2 DEF Quiet
<1>8. LabelInvQ'
  BY <1>2, <1>7 DEF YieldInv, LabelInvQ, LabelInv
<1>9. CopyInv'
  <2>1. Quiet' => ~BothCopies(internal)
    BY <1>2, <1>7, OneCopy
  <2> QED
    BY <1>2, <1>3, <1>7, <2>1 DEF YieldInv, CopyInv, BothCopies
<1> QED
  BY <1>5, <1>6, <1>8, <1>9 DEF YieldInv

(* The XML is written for the LTPA key that the reconcile has read and for *)
(* the one encryption key there is, which is the one it has read.          *)
LEMMA WriteYield == ASSUME TypeInv, YieldInv, WriteXML PROVE YieldInv'
<1> DEFINE c == config[rec.keyed]
           v == getValidInternalEncryptionKey
<1>1. rec \in Rec /\ rec.keyed \in BOOLEAN /\ c \in Config
  BY DEF TypeInv, RecInv, SecretTypes, Rec
<1>2. /\ rec.pc = "check" /\ UNCHANGED << internal, ltpa, config, clock >> /\ mishap' = mishap
      /\ rec' = [rec EXCEPT !.pc = "workload"]
      /\ xml' = [ltpa |-> c.ltpa, rot |-> c.rot, enc |-> c.enc, encRot |-> c.encRot,
                 label |-> Label(c)]
      /\ c.rot = rec.rot
      /\ rec.keyed => v \in Kind /\ c.encRot = internal[v].rot
  BY DEF WriteXML, Step, Goto, Outdated, counters
<1>3. v \in Kind => Valid(v)
  BY LookupFacts
<1>4. Label(c) \in {c.rot, c.encRot}
  BY <1>1, LabelTyped
<1>5. /\ c.rot \in Int /\ c.encRot \in Int /\ c.rot <= clock /\ c.encRot <= clock
      /\ c.rot >= 0 /\ c.encRot >= 0
  <2>1. c.rot <= clock /\ c.encRot <= clock
    BY <1>1 DEF YieldInv, StampInv
  <2>2. c.rot \in Time /\ c.encRot \in Time
    BY <1>1 DEF Config
  <2> QED
    BY <2>1, <2>2, TimeFacts
<1> HIDE DEF c, v
<1>6. rec'.pc = "workload" /\ rec'.rot = rec.rot /\ rec'.encRot = rec.encRot
  BY <1>1, <1>2 DEF Rec
<1>7. xml'.rot = c.rot /\ xml'.encRot = c.encRot /\ xml'.label = Label(c)
  BY <1>2
<1>8. StampInv'
  BY <1>2, <1>4, <1>5, <1>6, <1>7 DEF YieldInv, StampInv
<1>9. ReadInv'
  BY <1>6 DEF ReadInv
<1>10. Quiet => ~BothCopies(internal)
  BY <1>2, OneCopy
<1>11. CopyInv'
  BY <1>2, <1>6, <1>10 DEF YieldInv, CopyInv, Step, BothCopies, Quiet
<1>12. ASSUME Quiet PROVE \A j \in Kind : internal[j].rot <= c.encRot
  <2>1. v \in Kind /\ c.encRot = internal[v].rot
    BY <1>2, <1>12 DEF YieldInv, CopyInv, Step
  <2>2. internal[v].key # "absent"
    BY <1>3, <2>1, LookupFacts DEF Found
  <2>3. \A j \in Kind : j # v => internal[j].key = "absent"
    BY <1>10, <1>12, <2>1, <2>2 DEF BothCopies, Kind
  <2>4. \A j \in Kind : j # v => internal[j].rot = 0
    BY <2>3 DEF YieldInv, CopyInv
  <2> QED
    BY <2>1, <2>4, Numbers
<1>13. LabelInvQ'
  <2>1. ltpa = NoLTPA \/ ltpa.rot = c.rot
    BY <1>2 DEF YieldInv, ReadInv
  <2>2. ltpa.rot <= c.rot
    BY <1>5, <2>1, EmptyFields
  <2> QED
    BY <1>2, <1>7, <1>12, <2>2 DEF LabelInvQ, LabelInv, Quiet
<1>14. YieldIsEnough'
  <2>1. rec.encRot = 0 \/ \E j \in Kind : rec.encRot = internal[j].rot
    BY <1>2 DEF YieldInv, ReadInv
  <2>2. ASSUME Quiet PROVE c.encRot >= rec.encRot
    BY <1>5, <1>12, <2>1, <2>2, Numbers
  <2> QED
    BY <1>2, <1>5, <1>6, <1>7, <2>2 DEF YieldIsEnough, Quiet
<1> QED
  BY <1>8, <1>9, <1>11, <1>13, <1>14 DEF YieldInv

(* Users and the cluster change nothing that the invariant compares, or    *)
(* revoke the LTPA key.                                                    *)
LEMMA OutsideYield ==
    ASSUME TypeInv, YieldInv, UNCHANGED << internal, config, xml, clock, rec >>,
           ltpa' \in {ltpa, NoLTPA}, mishap \subseteq mishap'
    PROVE  YieldInv'
<1>1. StampInv'
  BY Numbers, EmptyFields DEF YieldInv, StampInv
<1>2. ReadInv' /\ YieldIsEnough'
  BY DEF YieldInv, ReadInv, YieldIsEnough, Step
<1>3. LabelInvQ'
  BY Numbers, EmptyFields DEF YieldInv, LabelInvQ, LabelInv, Quiet
<1>4. CopyInv'
  BY DEF YieldInv, CopyInv, Step, BothCopies, Quiet
<1> QED
  BY <1>1, <1>2, <1>3, <1>4 DEF YieldInv

(* Every step keeps the invariant.                                         *)
LEMMA YieldStep ==
    ASSUME MinGap = 1, TypeInv, YieldInv, [Next]_vars PROVE YieldInv'
<1>1. ASSUME \/ UNCHANGED vars \/ RevokeLTPA
             \/ \E i \in Instance : RollOut(i)
             \/ \E k \in Kind, v \in Value : EditKey(k, v)
             \/ \E resource \in DOMAIN leader, i \in Instance : ChangeLeader(resource, i)
      PROVE  YieldInv'
  <2>1. /\ UNCHANGED << internal, config, xml, clock, rec >>
        /\ ltpa' \in {ltpa, NoLTPA} /\ mishap \subseteq mishap'
    <3>1. CASE UNCHANGED vars
      BY <3>1 DEF vars
    <3>2. CASE RevokeLTPA
      BY <3>2 DEF RevokeLTPA
    <3>3. CASE \E i \in Instance : RollOut(i)
      BY <3>3 DEF RollOut, secrets, counters
    <3>4. CASE \E k \in Kind, v \in Value : EditKey(k, v)
      BY <3>4 DEF EditKey
    <3>5. CASE \E resource \in DOMAIN leader, i \in Instance : ChangeLeader(resource, i)
      BY <3>5 DEF ChangeLeader, secrets
    <3> QED
      BY <1>1, <3>1, <3>2, <3>3, <3>4, <3>5
  <2> QED
    BY <2>1, OutsideYield
<1>2. CASE Next
  BY <1>1, <1>2, MirrorStepYield, EncryptionStepYield, KeysStepYield, WaitYield, EndStepYield,
     CreateYield, WriteYield DEF Next, Continue
<1> QED
  BY <1>1, <1>2

(* YieldIsEnough: however often the encryption key and the LTPA key are    *)
(* rotated, and whoever leads, an instance goes on to its pod template     *)
(* only with an XML written for the keys it has read or for later ones, if *)
(* two stamps are never the same second (and none of the mishaps that the  *)
(* property names has happened).                                           *)
THEOREM YieldSuffices ==
    ASSUME MinGap = 1 PROVE Spec => []YieldIsEnough
<1>1. Init => TypeInv /\ YieldInv
  BY InitTyped, InitYield
<1>2. TypeInv /\ YieldInv /\ [Next]_vars => (TypeInv /\ YieldInv)'
  BY TypeStep, YieldStep
<1>3. YieldInv => YieldIsEnough
  BY DEF YieldInv
<1> QED
  BY <1>1, <1>2, <1>3, PTL DEF Spec
==============================================================================
