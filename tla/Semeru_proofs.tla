--------------------------- MODULE Semeru_proofs ---------------------------
(***************************************************************************)
(* Proofs about Semeru, for any number of generations, edits, failures and *)
(* restarts and any images and ports: the variables keep their types, the  *)
(* list of completed generations stays ascending and names every Deployment, *)
(* compilers mount their own certificates, and no Service in use is deleted. *)
(***************************************************************************)
EXTENDS Semeru, TLAPS, WellFoundedInduction

-----------------------------------------------------------------------------
(* Sequences of generations.                                               *)

(* A set of numbers that is not empty has a least one.                     *)
LEMMA Smallest ==
    ASSUME NEW S \in SUBSET Nat, S # {}
    PROVE  \E n \in S : \A m \in S : n <= m
<1>1. PICK n \in S : \A m \in S : << m, n >> \notin OpToRel(<, Nat)
  <2>1. IsWellFoundedOn(OpToRel(<, Nat), Nat)
        BY NatLessThanWellFounded, Zenon
  <2> QED BY <2>1, WFMin, Zenon
<1>2. \A m \in S : ~(m < n)
      BY <1>1 DEF OpToRel
<1> QED BY <1>2

(* f selects, of the first n elements of s, those in S.                    *)
Selects(f, n, s, S) ==
    f = [i \in 0 .. n |-> IF i = 0 THEN << >>
                          ELSE IF s[i] \in S THEN Append(f[i - 1], s[i]) ELSE f[i - 1]]

(* There is such a function for every sequence: the recursive definition in *)
(* Among is sound.                                                         *)
LEMMA SelectsExists ==
    ASSUME NEW s, NEW S, NEW n \in Nat
    PROVE  \E f : Selects(f, n, s, S)
<1> DEFINE T == {m \in Nat : ~ \E f : Selects(f, m, s, S)}
<1> SUFFICES ASSUME T # {} PROVE FALSE
    OBVIOUS
<1>1. PICK m \in T : \A k \in T : m <= k
      BY Smallest
<1>2. CASE m = 0
  <2>1. Selects([i \in 0 .. 0 |-> << >>], 0, s, S)
        BY DEF Selects
  <2> QED BY <1>1, <1>2, <2>1
<1>3. CASE m # 0
  <2>1. m - 1 \in Nat /\ m - 1 \notin T
        BY <1>1, <1>3
  <2>2. PICK f : Selects(f, m - 1, s, S)
        BY <2>1
  <2> DEFINE last == IF s[m] \in S THEN Append(f[m - 1], s[m]) ELSE f[m - 1]
             g == [i \in 0 .. m |-> IF i = m THEN last ELSE f[i]]
  <2>3. f = [i \in 0 .. m - 1 |-> IF i = 0 THEN << >>
                                 ELSE IF s[i] \in S THEN Append(f[i - 1], s[i]) ELSE f[i - 1]]
        BY <2>2 DEF Selects
  <2>4. \A i \in 0 .. m - 1 : g[i] = f[i]
        OBVIOUS
  <2>5. \A i \in 0 .. m : g[i] = IF i = 0 THEN << >>
                                 ELSE IF s[i] \in S THEN Append(g[i - 1], s[i]) ELSE g[i - 1]
    <3> SUFFICES ASSUME NEW i \in 0 .. m
                 PROVE  g[i] = IF i = 0 THEN << >>
                               ELSE IF s[i] \in S THEN Append(g[i - 1], s[i]) ELSE g[i - 1]
        OBVIOUS
    <3>1. CASE i = m
      <4>1. g[m] = last /\ g[m - 1] = f[m - 1]
            BY <1>3, <2>4
      <4> QED BY <1>3, <3>1, <4>1
    <3>2. CASE i # m
      <4>1. i \in 0 .. m - 1 /\ g[i] = f[i] /\ (i # 0 => g[i - 1] = f[i - 1])
            BY <3>2, <2>4
      <4>2. f[i] = IF i = 0 THEN << >>
                   ELSE IF s[i] \in S THEN Append(f[i - 1], s[i]) ELSE f[i - 1]
            BY <4>1, <2>3
      <4> QED BY <4>1, <4>2
    <3> QED BY <3>1, <3>2
  <2>6. Selects(g, m, s, S)
    <3>1. g = [i \in 0 .. m |-> g[i]]
          OBVIOUS
    <3> HIDE DEF g
    <3> QED BY <3>1, <2>5 DEF Selects
  <2> QED BY <1>1, <2>6
<1> QED BY <1>2, <1>3

(* In ascending order, without repetitions.                                *)
Ascending(s) == \A i, j \in 1 .. Len(s) : i < j => s[i] < s[j]

(* t holds the elements of the first n ones of s that are in S, in order.  *)
Selection(t, n, s, S) ==
    /\ t \in Seq(Gen)
    /\ \A k \in 1 .. Len(t) : t[k] \in S /\ \E i \in 1 .. n : t[k] = s[i]
    /\ \A i \in 1 .. n : s[i] \in S => \E k \in 1 .. Len(t) : t[k] = s[i]
    /\ Ascending(s) => Ascending(t)

(* The next element of s is appended to a selection, or passed over.       *)
LEMMA SelectionStep ==
    ASSUME NEW s \in Seq(Gen), NEW S, NEW n \in Nat, n < Len(s), NEW t, Selection(t, n, s, S)
    PROVE  Selection(IF s[n + 1] \in S THEN Append(t, s[n + 1]) ELSE t, n + 1, s, S)
<1>1. s[n + 1] \in Gen /\ t \in Seq(Gen)
      BY DEF Selection
<1>2. CASE s[n + 1] \notin S
      BY <1>2 DEF Selection
<1>3. CASE s[n + 1] \in S
  <2> DEFINE u == Append(t, s[n + 1])
  <2>1. /\ u \in Seq(Gen) /\ Len(u) = Len(t) + 1 /\ u[Len(t) + 1] = s[n + 1]
        /\ \A k \in 1 .. Len(t) : u[k] = t[k]
        BY <1>1
  <2> HIDE DEF u
  <2>2. \A k \in 1 .. Len(u) : u[k] \in S /\ \E i \in 1 .. n + 1 : u[k] = s[i]
    <3> SUFFICES ASSUME NEW k \in 1 .. Len(u) PROVE u[k] \in S /\ \E i \in 1 .. n + 1 : u[k] = s[i]
        OBVIOUS
    <3>1. CASE k = Len(t) + 1
          BY <1>3, <2>1, <3>1
    <3>2. CASE k # Len(t) + 1
      <4>1. k \in 1 .. Len(t) /\ u[k] = t[k]
            BY <1>1, <2>1, <3>2
      <4>2. t[k] \in S /\ \E i \in 1 .. n : t[k] = s[i]
            BY <4>1 DEF Selection
      <4> QED BY <4>1, <4>2
    <3> QED BY <3>1, <3>2
  <2>3. \A i \in 1 .. n + 1 : s[i] \in S => \E k \in 1 .. Len(u) : u[k] = s[i]
    <3> SUFFICES ASSUME NEW i \in 1 .. n + 1, s[i] \in S PROVE \E k \in 1 .. Len(u) : u[k] = s[i]
        OBVIOUS
    <3>1. CASE i = n + 1
          BY <2>1, <3>1
    <3>2. CASE i # n + 1
      <4>1. PICK k \in 1 .. Len(t) : t[k] = s[i]
            BY <3>2 DEF Selection
      <4> QED BY <1>1, <2>1, <4>1
    <3> QED BY <3>1, <3>2
  <2>4. ASSUME Ascending(s) PROVE Ascending(u)
    <3> SUFFICES ASSUME NEW i \in 1 .. Len(u), NEW j \in 1 .. Len(u), i < j PROVE u[i] < u[j]
        BY DEF Ascending
    <3>1. Ascending(t)
          BY <2>4 DEF Selection
    <3>2. CASE j \in 1 .. Len(t)
          BY <2>1, <3>1, <3>2 DEF Ascending
    <3>3. CASE j = Len(t) + 1
      <4>1. i \in 1 .. Len(t) /\ u[i] = t[i]
            BY <2>1, <3>3
      <4>2. PICK k \in 1 .. n : t[i] = s[k]
            BY <4>1 DEF Selection
      <4> QED BY <2>1, <2>4, <3>3, <4>1, <4>2 DEF Ascending
    <3> QED BY <2>1, <3>2, <3>3
  <2>5. Selection(u, n + 1, s, S)
        BY <2>1, <2>2, <2>3, <2>4 DEF Selection
  <2> QED BY <1>3, <2>5 DEF u
<1> QED BY <1>2, <1>3

(* What Among returns.                                                     *)
LEMMA AmongLemma ==
    ASSUME NEW s \in Seq(Gen), NEW S
    PROVE  Selection(Among(s, S), Len(s), s, S)
<1> DEFINE f == CHOOSE g : g = [i \in 0 .. Len(s) |->
                       IF i = 0 THEN << >>
                       ELSE IF s[i] \in S THEN Append(g[i - 1], s[i]) ELSE g[i - 1]]
           T == {n \in Nat : n <= Len(s) /\ ~Selection(f[n], n, s, S)}
<1>1. Len(s) \in Nat
      OBVIOUS
<1>2. Among(s, S) = f[Len(s)]
      BY DEF Among
<1>3. f = [i \in 0 .. Len(s) |-> IF i = 0 THEN << >>
                                 ELSE IF s[i] \in S THEN Append(f[i - 1], s[i]) ELSE f[i - 1]]
  <2>1. \E g : Selects(g, Len(s), s, S)
        BY <1>1, SelectsExists
  <2> QED BY <2>1, Zenon DEF Selects
<1> HIDE DEF f
<1>4. T = {}
  <2> SUFFICES ASSUME T # {} PROVE FALSE
      OBVIOUS
  <2>1. PICK m \in T : \A k \in T : m <= k
        BY Smallest
  <2>2. CASE m = 0
    <3>1. f[0] = << >>
          BY <1>1, <1>3
    <3>2. Selection(<< >>, 0, s, S)
          BY DEF Selection, Ascending
    <3> QED BY <2>1, <2>2, <3>1, <3>2
  <2>3. CASE m # 0
    <3>1. m - 1 \in Nat /\ m - 1 < Len(s) /\ Selection(f[m - 1], m - 1, s, S) /\ m \in 0 .. Len(s)
          BY <1>1, <2>1, <2>3
    <3>2. f[m] = IF s[m] \in S THEN Append(f[m - 1], s[m]) ELSE f[m - 1]
          BY <1>3, <2>3, <3>1
    <3>3. (m - 1) + 1 = m
          BY <3>1
    <3>4. Selection(IF s[m] \in S THEN Append(f[m - 1], s[m]) ELSE f[m - 1], m, s, S)
          BY <3>1, <3>3, SelectionStep
    <3> QED BY <2>1, <3>2, <3>4
  <2> QED BY <2>2, <2>3
<1> QED BY <1>1, <1>2, <1>4

(* An ascending sequence of generations is not longer than there are       *)
(* generations.                                                            *)
LEMMA AscendingLength ==
    ASSUME NEW s \in Seq(Gen), Ascending(s)
    PROVE  Len(s) \in 0 .. MaxGen
<1> DEFINE T == {n \in Nat : n \in 1 .. Len(s) /\ s[n] < n}
<1>1. T = {}
  <2> SUFFICES ASSUME T # {} PROVE FALSE
      OBVIOUS
  <2>1. PICK m \in T : \A k \in T : m <= k
        BY Smallest
  <2>2. CASE m = 1
        BY <2>1, <2>2, SemeruAssumption DEF Gen
  <2>3. CASE m # 1
    <3>1. m - 1 \in 1 .. Len(s) /\ s[m - 1] >= m - 1 /\ s[m - 1] \in Gen /\ s[m] \in Gen
          BY <2>1, <2>3, SemeruAssumption DEF Gen
    <3>2. s[m - 1] < s[m]
          BY <2>1, <3>1 DEF Ascending
    <3> QED BY <2>1, <3>1, <3>2, SemeruAssumption DEF Gen
  <2> QED BY <2>2, <2>3
<1>2. \A n \in 1 .. Len(s) : s[n] >= n /\ s[n] \in 1 .. MaxGen
      BY <1>1, SemeruAssumption DEF Gen
<1> QED BY <1>2, SemeruAssumption

(* The elements of a sequence.                                             *)
LEMMA Elements ==
    ASSUME NEW s \in Seq(Gen), NEW g \in Gen
    PROVE  /\ Range(s) = {s[i] : i \in 1 .. Len(s)}
           /\ \A x : x \in Range(s) <=> \E i \in 1 .. Len(s) : x = s[i]
           /\ Range(Append(s, g)) = Range(s) \union {g}
<1>1. DOMAIN s = 1 .. Len(s) /\ Len(s) \in Nat
      OBVIOUS
<1>2. \A x : x \in Range(s) <=> \E i \in 1 .. Len(s) : x = s[i]
      BY <1>1 DEF Range
<1> DEFINE u == Append(s, g)
<1>3. /\ DOMAIN u = 1 .. Len(s) + 1 /\ u[Len(s) + 1] = g
      /\ \A i \in 1 .. Len(s) : u[i] = s[i]
      OBVIOUS
<1> HIDE DEF u
<1>4. \A x : x \in Range(u) <=> \E i \in 1 .. Len(s) + 1 : x = u[i]
      BY <1>3 DEF Range
<1>5. Range(u) = Range(s) \union {g}
      BY <1>1, <1>2, <1>3, <1>4
<1> QED BY <1>1, <1>5 DEF Range, u

(* Among keeps the elements that are in the set, and their order.          *)
LEMMA AmongElements ==
    ASSUME NEW s \in Seq(Gen), NEW S
    PROVE  /\ Among(s, S) \in Seq(Gen)
           /\ Range(Among(s, S)) = Range(s) \cap S
           /\ Ascending(s) => Ascending(Among(s, S))
<1> DEFINE t == Among(s, S)
<1>1. Selection(t, Len(s), s, S)
      BY AmongLemma
<1> HIDE DEF t
<1>2. t \in Seq(Gen)
      BY <1>1 DEF Selection
<1>3. /\ \A x : x \in Range(t) <=> \E i \in 1 .. Len(t) : x = t[i]
      /\ \A x : x \in Range(s) <=> \E i \in 1 .. Len(s) : x = s[i]
  <2>1. 1 \in Gen
        BY SemeruAssumption DEF Gen
  <2> QED BY <1>2, <2>1, Elements
<1>4. Range(t) \subseteq Range(s) \cap S
      BY <1>1, <1>3 DEF Selection
<1>5. Range(s) \cap S \subseteq Range(t)
  <2> SUFFICES ASSUME NEW x \in Range(s), x \in S PROVE \E k \in 1 .. Len(t) : x = t[k]
      BY <1>3
  <2> QED BY <1>1, <1>3 DEF Selection
<1> QED BY <1>1, <1>2, <1>4, <1>5 DEF t, Selection

-----------------------------------------------------------------------------
(* Statuses.                                                               *)

(* The fields of a status.                                                 *)
LEMMA StatusFields ==
    ASSUME NEW s \in Statuses
    PROVE  /\ s.image \in Images \union {"none"} /\ s.gen \in 0 .. MaxGen
           /\ s.completed \in Seq(Gen) /\ Len(s.completed) \in 0 .. MaxGen
           /\ s.host \in 0 .. MaxGen /\ s.tls \in 0 .. MaxGen /\ s.ready \in BOOLEAN
<1>1. PICK n \in 0 .. MaxGen : s.completed \in [1 .. n -> Gen]
      BY DEF Statuses
<1>2. s.completed \in Seq(Gen) /\ Len(s.completed) = n
      BY <1>1
<1> QED BY <1>2 DEF Statuses

(* u is the status with these fields.                                      *)
Has(u, image, g, completed, host, tls) ==
    /\ u \in Statuses
    /\ u.image = image /\ u.gen = g /\ u.completed = completed /\ u.host = host /\ u.tls = tls

(* A status with one field changed.                                        *)
LEMMA StatusUpdate ==
    ASSUME NEW s \in Statuses
    PROVE  /\ \A x \in Images : Has([s EXCEPT !.image = x], x, s.gen, s.completed, s.host, s.tls)
           /\ \A x \in 0 .. MaxGen : Has([s EXCEPT !.gen = x], s.image, x, s.completed, s.host, s.tls)
           /\ \A x \in 0 .. MaxGen : Has([s EXCEPT !.host = x], s.image, s.gen, s.completed, x, s.tls)
           /\ \A x \in 0 .. MaxGen : Has([s EXCEPT !.tls = x], s.image, s.gen, s.completed, s.host, x)
           /\ \A x \in BOOLEAN : Has([s EXCEPT !.ready = x], s.image, s.gen, s.completed, s.host, s.tls)
           /\ \A x \in Seq(Gen) : Len(x) \in 0 .. MaxGen =>
                Has([s EXCEPT !.completed = x], s.image, s.gen, x, s.host, s.tls)
<1> DEFINE Lists == UNION {[1 .. n -> Gen] : n \in 0 .. MaxGen}
           Records == [image : Images \union {"none"}, gen : 0 .. MaxGen, completed : Lists,
                       host : 0 .. MaxGen, tls : 0 .. MaxGen, ready : BOOLEAN]
<1>1. Statuses = Records
      BY DEF Statuses
<1>2. \A x \in Seq(Gen) : Len(x) \in 0 .. MaxGen => x \in Lists
  <2> SUFFICES ASSUME NEW x \in Seq(Gen), Len(x) \in 0 .. MaxGen PROVE x \in Lists
      OBVIOUS
  <2>1. x \in [1 .. Len(x) -> Gen]
        OBVIOUS
  <2> QED BY <2>1
<1> HIDE DEF Lists
<1>3. \A x \in Images : Has([s EXCEPT !.image = x], x, s.gen, s.completed, s.host, s.tls)
      BY <1>1 DEF Has
<1>4. \A x \in 0 .. MaxGen : Has([s EXCEPT !.gen = x], s.image, x, s.completed, s.host, s.tls)
      BY <1>1 DEF Has
<1>5. \A x \in 0 .. MaxGen : Has([s EXCEPT !.host = x], s.image, s.gen, s.completed, x, s.tls)
      BY <1>1 DEF Has
<1>6. \A x \in 0 .. MaxGen : Has([s EXCEPT !.tls = x], s.image, s.gen, s.completed, s.host, x)
      BY <1>1 DEF Has
<1>7. \A x \in BOOLEAN : Has([s EXCEPT !.ready = x], s.image, s.gen, s.completed, s.host, s.tls)
      BY <1>1 DEF Has
<1>8. \A x \in Seq(Gen) : Len(x) \in 0 .. MaxGen =>
                Has([s EXCEPT !.completed = x], s.image, s.gen, x, s.host, s.tls)
      BY <1>1, <1>2 DEF Has
<1> QED BY <1>3, <1>4, <1>5, <1>6, <1>7, <1>8

-----------------------------------------------------------------------------
(* The inductive invariant.                                                *)

(* What is known of the compiler: the status, or the copy in memory.       *)
Known == IF rec.pc = "idle" THEN status ELSE rec.mem

PCs == {"idle", "ports", "service", "certificate", "secret", "deployment", "ready",
        "disable", "disable2", "workload", "cleanup", "delete", "success"}
Recs == [pc : PCs, spec : Specs \union {NoSpec}, mem : Statuses, fresh : BOOLEAN,
         marked : BOOLEAN, n : Nat]

(* Types, with the number of edits that bounds the versions of the issuer. *)
TypeInv ==
    /\ TypeOK
    /\ rec \in Recs
    /\ issuer <= edits + 1 /\ edits \in 0 .. MaxUserEdits /\ faults \in Nat

(* Where the reconcile is tells what it has found out.                     *)
ControlInv ==
    /\ rec.pc # "idle" => rec.spec \in Specs
    /\ rec.pc \notin {"idle", "ports"} => gen \in Gen
    /\ rec.pc \in {"service", "certificate", "secret", "deployment", "ready"} => rec.spec.enable
    /\ rec.pc \in {"disable", "disable2"} => ~rec.spec.enable
    /\ rec.pc = "deployment" => SecretFound
    /\ rec.pc \notin {"delete", "success"} => rec.n = 0

(* The list of completed generations.                                      *)
InOrder(s) == Ascending(s.completed) /\ \A i \in 1 .. Len(s.completed) : s.completed[i] <= s.gen
OrderInv == InOrder(status) /\ InOrder(rec.mem)

(* While the older generations are deleted, all pods use the present one.  *)
UseInv ==
    rec.spec.enable =>
        /\ rec.pc \in {"certificate", "secret", "deployment", "ready", "workload", "cleanup", "delete"}
             => rec.mem.host = gen
        /\ rec.pc \in {"cleanup", "delete"} => template.host = gen
        /\ rec.pc = "delete" => pods = {template}

(* The name of the TLS Secret is that of the present generation's.         *)
CertificateInv ==
    /\ OwnCertificate
    /\ rec.pc \in {"secret", "deployment"} /\ (platform = "cert-manager" \/ faults = 0)
         => rec.mem.tls = gen
    /\ platform # "cert-manager" /\ faults = 0
         => /\ service \subseteq 1 .. Known.gen
            /\ Known.gen \in service => Known.tls = Known.gen
    /\ rec.pc = "disable2" => gen \notin service

(* Deployments are on the list, or deleted before they are taken off it.   *)
ListInv ==
    /\ faults = 0 => rec.fresh
    /\ faults = 0 => \A g \in Gen : deploy[g] # None => g \in Range(Known.completed)
    /\ rec.pc = "delete" =>
         /\ rec.n <= 4 * Len(Old)
         /\ \A k \in 1 .. Len(Old) : 4 * (k - 1) < rec.n => deploy[Old[k]] = None

IInv == TypeInv /\ ControlInv /\ OrderInv /\ UseInv /\ CertificateInv /\ ListInv

(* The status of a new resource, and no reconcile.                         *)
LEMMA NoStatusLemma ==
    /\ NoStatus \in Statuses /\ NoRec \in Recs
    /\ NoStatus.completed = << >> /\ NoStatus.gen = 0 /\ NoStatus.host = 0 /\ NoStatus.tls = 0
    /\ NoRec.pc = "idle" /\ NoRec.mem = NoStatus /\ NoRec.spec = NoSpec /\ NoRec.fresh = TRUE /\ NoRec.n = 0
    /\ ~NoSpec.enable
<1> DEFINE Lists == UNION {[1 .. n -> Gen] : n \in 0 .. MaxGen}
<1>1. << >> \in Lists
  <2>1. << >> \in [1 .. 0 -> Gen] /\ 0 \in 0 .. MaxGen
        BY SemeruAssumption
  <2> QED BY <2>1
<1>2. Statuses = [image : Images \union {"none"}, gen : 0 .. MaxGen, completed : Lists,
                  host : 0 .. MaxGen, tls : 0 .. MaxGen, ready : BOOLEAN]
      BY DEF Statuses
<1> HIDE DEF Lists
<1>3. NoStatus \in Statuses
      BY <1>1, <1>2, SemeruAssumption DEF NoStatus
<1>4. NoRec \in Recs
      BY <1>3 DEF NoRec, Recs, PCs
<1> QED BY <1>3, <1>4 DEF NoStatus, NoRec, NoSpec

(* The invariant holds of a new resource.                                  *)
LEMMA InitInv == ASSUME Init PROVE IInv
<1>1. /\ platform \in Platforms /\ issuer = 1 /\ spec \in Specs /\ status = NoStatus
      /\ service = {} /\ ready = {} /\ template = NoTemplate /\ pods = {} /\ rec = NoRec
      /\ edits = 0 /\ faults = 0
      BY SemeruAssumption DEF Init, Specs
<1>2. /\ cert \in [Gen -> 0 .. MaxUserEdits + 1] /\ secret \in [Gen -> 0 .. MaxUserEdits + 1]
      /\ deploy \in [Gen -> Deployments \union {None}] /\ compiler \in [Gen -> Deployments \union {None}]
      /\ \A g \in Gen : deploy[g] = None
      BY SemeruAssumption DEF Init
<1>3. TypeOK
      BY <1>1, <1>2, NoStatusLemma, SemeruAssumption DEF TypeOK
<1>4. TypeInv
      BY <1>1, <1>3, NoStatusLemma, SemeruAssumption DEF TypeInv
<1>5. ControlInv /\ UseInv
      BY <1>1, NoStatusLemma DEF ControlInv, UseInv
<1>6. OrderInv
      BY <1>1, NoStatusLemma DEF OrderInv, InOrder, Ascending
<1>7. CertificateInv
      BY <1>1, <1>2, NoStatusLemma DEF CertificateInv, OwnCertificate, Known
<1>8. ListInv
      BY <1>1, <1>2, NoStatusLemma DEF ListInv, Known
<1> QED BY <1>4, <1>5, <1>6, <1>7, <1>8 DEF IInv

-----------------------------------------------------------------------------
(* Every step preserves the invariant.                                     *)

(* The fields of the reconcile in progress.                                *)
LEMMA RecFields ==
    ASSUME TypeInv
    PROVE  /\ rec \in Recs /\ rec.mem \in Statuses /\ rec.pc \in PCs /\ rec.fresh \in BOOLEAN
           /\ rec.marked \in BOOLEAN /\ rec.n \in Nat /\ faults \in Nat /\ status \in Statuses
BY DEF TypeInv, TypeOK, Recs

(* The end of a reconcile: the copy in memory becomes the status, or the   *)
(* write fails.                                                            *)
LEMMA EndKeeps ==
    ASSUME IInv, rec.pc # "idle", rec' = NoRec, faults' \in Nat, faults' = 0 => faults = 0,
           \/ status' = status /\ (~rec.fresh \/ faults' # 0)
           \/ \E b \in BOOLEAN : status' = [rec.mem EXCEPT !.ready = b],
           UNCHANGED << platform, issuer, service, cert, secret, deploy, compiler, ready,
                        template, pods, spec, edits >>
    PROVE  IInv'
<1>1. TypeInv
      BY DEF IInv
<1>2. \/ status' = status /\ (~rec.fresh \/ faults' # 0)
      \/ Has(status', rec.mem.image, rec.mem.gen, rec.mem.completed, rec.mem.host, rec.mem.tls)
      BY <1>1, RecFields, StatusUpdate
<1>3. status' \in Statuses
      BY <1>1, <1>2, RecFields DEF Has
<1>4. TypeInv'
      BY <1>1, <1>3, NoStatusLemma DEF TypeInv, TypeOK
<1>5. ControlInv' /\ UseInv'
      BY NoStatusLemma DEF ControlInv, UseInv
<1>6. OrderInv'
      BY <1>2, NoStatusLemma DEF IInv, OrderInv, InOrder, Ascending, Has
<1>7. faults' = 0 => Known'.gen = Known.gen /\ Known'.tls = Known.tls
                     /\ Known'.completed = Known.completed
      BY <1>2, NoStatusLemma DEF IInv, ListInv, Known, Has
<1>8. CertificateInv'
  <2>1. OwnCertificate'
        BY DEF IInv, CertificateInv, OwnCertificate
  <2> QED BY <1>7, <2>1, NoStatusLemma DEF IInv, CertificateInv
<1>9. ListInv'
      BY <1>7, NoStatusLemma DEF IInv, ListInv
<1> QED BY <1>4, <1>5, <1>6, <1>8, <1>9 DEF IInv

(* A reconcile that ends with ManageError, with or without a failed call.  *)
LEMMA ManageErrorKeeps ==
    ASSUME IInv, rec.pc # "idle", ManageError, NoFault \/ Fault,
           UNCHANGED << platform, issuer, service, cert, secret, deploy, compiler, ready,
                        template, pods, spec, edits >>
    PROVE  IInv'
<1>1. faults' \in Nat /\ (faults' = 0 => faults = 0)
      BY DEF IInv, TypeInv, NoFault, Fault
<1>2. rec' = NoRec /\ rec.fresh \in BOOLEAN
      BY RecFields DEF IInv, ManageError
<1>3. \/ status' = status /\ ~rec.fresh
      \/ \E b \in BOOLEAN : status' = [rec.mem EXCEPT !.ready = b]
      BY <1>2 DEF ManageError
<1> QED BY <1>1, <1>2, <1>3, EndKeeps

(* ManageSuccess, whether its write succeeds or not.                       *)
LEMMA ManageSuccessKeeps == ASSUME IInv, ManageSuccess PROVE IInv'
<1>1. faults' \in Nat /\ (faults' = 0 => faults = 0) /\ (Fault => faults' # 0)
      BY DEF IInv, TypeInv, NoFault, Fault, ManageSuccess
<1>2. rec' = NoRec /\ rec.fresh \in BOOLEAN /\ rec.pc # "idle"
      BY RecFields DEF IInv, ManageSuccess
<1>3. \/ status' = status /\ (~rec.fresh \/ faults' # 0)
      \/ \E b \in BOOLEAN : status' = [rec.mem EXCEPT !.ready = b]
      BY <1>1, <1>2 DEF ManageSuccess
<1>4. UNCHANGED << platform, issuer, service, cert, secret, deploy, compiler, ready,
                   template, pods, spec, edits >>
      BY DEF ManageSuccess, cluster, AppUnchanged
<1> QED BY <1>1, <1>2, <1>3, <1>4, EndKeeps

(* A restart of the operator.                                              *)
LEMMA RestartKeeps == ASSUME IInv, RestartOperator PROVE IInv'
<1>1. faults' \in Nat /\ faults' # 0
      BY DEF IInv, TypeInv, Fault, RestartOperator
<1>2. UNCHANGED << platform, issuer, service, cert, secret, deploy, compiler, ready,
                   template, pods, spec, edits >> /\ status' = status /\ rec' = NoRec /\ rec.pc # "idle"
      BY DEF RestartOperator, cluster, AppUnchanged, StatusUnchanged
<1> QED BY <1>1, <1>2, EndKeeps

(* A call that fails.                                                      *)
LEMMA CallFailsKeeps == ASSUME IInv, ReconcileFails PROVE IInv'
<1>1. /\ rec.pc # "idle" /\ ManageError /\ Fault
      /\ UNCHANGED << platform, issuer, service, cert, secret, deploy, compiler, ready,
                      template, pods, spec, edits >>
      BY DEF ReconcileFails, CallFails, cluster, AppUnchanged
<1> QED BY <1>1, ManageErrorKeeps

(* A status of the next generation.                                        *)
LEMMA NextGeneration ==
    ASSUME NEW s \in Statuses, NEW x \in Images
    PROVE  LET u == createNewSemeruGeneration(s)
               v == [u EXCEPT !.image = x]
           IN  /\ u.gen = s.gen + 1 /\ v.gen = s.gen + 1
               /\ s.gen + 1 <= MaxGen => /\ Has(u, s.image, s.gen + 1, s.completed, s.host, s.tls)
                                         /\ Has(v, x, s.gen + 1, s.completed, s.host, s.tls)
<1> DEFINE u == createNewSemeruGeneration(s)
           v == [u EXCEPT !.image = x]
<1>1. u.gen = s.gen + 1 /\ v.gen = s.gen + 1
  <2> DEFINE Lists == UNION {[1 .. n -> Gen] : n \in 0 .. MaxGen}
  <2>1. s \in [image : Images \union {"none"}, gen : 0 .. MaxGen, completed : Lists,
               host : 0 .. MaxGen, tls : 0 .. MaxGen, ready : BOOLEAN]
        BY DEF Statuses
  <2> HIDE DEF Lists
  <2> QED BY <2>1 DEF createNewSemeruGeneration
<1>2. ASSUME s.gen + 1 <= MaxGen
      PROVE  /\ Has(u, s.image, s.gen + 1, s.completed, s.host, s.tls)
             /\ Has(v, x, s.gen + 1, s.completed, s.host, s.tls)
  <2>1. s.gen + 1 \in 0 .. MaxGen
        BY <1>2, StatusFields, SemeruAssumption
  <2>2. Has(u, s.image, s.gen + 1, s.completed, s.host, s.tls)
        BY <2>1, StatusUpdate DEF createNewSemeruGeneration
  <2> HIDE DEF u
  <2>3. Has(v, x, u.gen, u.completed, u.host, u.tls)
        BY <2>2, StatusUpdate DEF Has
  <2> QED BY <2>2, <2>3 DEF Has
<1> QED BY <1>1, <1>2

(* A reconcile at another position.                                        *)
LEMMA RecGoto ==
    ASSUME NEW r \in Recs, NEW pc \in PCs
    PROVE  LET q == [r EXCEPT !.pc = pc]
           IN  /\ q \in Recs /\ q.pc = pc /\ q.spec = r.spec /\ q.mem = r.mem
               /\ q.fresh = r.fresh /\ q.marked = r.marked /\ q.n = r.n
BY DEF Recs

(* A new image begins a generation that has no Service, no Deployment and is *)
(* not on the list.                                                        *)
LEMMA UpdateImageKeeps == ASSUME IInv, UpdateImage PROVE IInv'
<1> DEFINE mem == IF status.image = spec.image THEN status
                  ELSE [createNewSemeruGeneration(status) EXCEPT !.image = spec.image]
<1>1. /\ rec.pc = "idle" /\ mem.gen <= MaxGen
      /\ \/ status' = mem /\ NoFault
            /\ rec' = [NoRec EXCEPT !.pc = "ports", !.spec = spec, !.mem = mem]
         \/ Fault /\ status' \in {status, [mem EXCEPT !.ready = FALSE]} /\ UNCHANGED rec
      /\ UNCHANGED << platform, issuer, service, cert, secret, deploy, compiler, ready,
                      template, pods, spec, edits >>
      BY DEF UpdateImage, cluster, AppUnchanged
<1>2. status \in Statuses /\ spec \in Specs /\ spec.image \in Images /\ TypeInv /\ InOrder(status)
      BY DEF IInv, TypeInv, TypeOK, Specs, OrderInv
<1>3. /\ mem \in Statuses /\ mem.completed = status.completed /\ mem.tls = status.tls
      /\ mem.gen = status.gen \/ mem.gen = status.gen + 1
  <2>1. CASE status.image = spec.image
        BY <1>2, <2>1
  <2>2. CASE status.image # spec.image
        BY <1>1, <1>2, <2>2, NextGeneration DEF Has
  <2> QED BY <2>1, <2>2
<1> HIDE DEF mem
<1>4. status.gen \in 0 .. MaxGen /\ status.completed \in Seq(Gen)
      BY <1>2, StatusFields
<1>5. InOrder(mem)
      BY <1>2, <1>3, <1>4, SemeruAssumption DEF InOrder, Ascending, Gen
<1>6. CASE Fault /\ status' \in {status, [mem EXCEPT !.ready = FALSE]} /\ UNCHANGED rec
  <2>1. faults' \in Nat /\ faults' # 0
        BY <1>2, <1>6 DEF TypeInv, Fault
  <2>2. status' \in Statuses /\ InOrder(status')
    <3>1. Has([mem EXCEPT !.ready = FALSE], mem.image, mem.gen, mem.completed, mem.host, mem.tls)
          BY <1>3, StatusUpdate
    <3>2. CASE status' = [mem EXCEPT !.ready = FALSE]
          BY <1>5, <3>1, <3>2 DEF InOrder, Ascending, Has
    <3> QED BY <1>2, <1>6, <3>2
  <2>3. TypeInv'
        BY <1>1, <1>2, <1>6, <2>1, <2>2 DEF TypeInv, TypeOK
  <2>4. ControlInv' /\ UseInv'
        BY <1>1, <1>6 DEF IInv, ControlInv, UseInv, gen
  <2>5. OrderInv'
        BY <1>6, <2>2 DEF IInv, OrderInv
  <2>6. CertificateInv' /\ ListInv'
        BY <1>1, <1>6, <2>1 DEF IInv, CertificateInv, OwnCertificate, ListInv
  <2> QED BY <2>3, <2>4, <2>5, <2>6 DEF IInv
<1>7. CASE /\ status' = mem /\ NoFault
           /\ rec' = [NoRec EXCEPT !.pc = "ports", !.spec = spec, !.mem = mem]
  <2>1. /\ rec' \in Recs /\ rec'.pc = "ports" /\ rec'.spec = spec /\ rec'.mem = mem
        /\ rec'.fresh = TRUE /\ rec'.n = 0
        BY <1>2, <1>3, <1>7 DEF NoRec, Recs, PCs
  <2>2. TypeInv'
        BY <1>1, <1>2, <1>3, <1>7, <2>1 DEF TypeInv, TypeOK, NoFault
  <2>3. ControlInv' /\ UseInv'
        BY <1>2, <1>1, <2>1 DEF ControlInv, UseInv
  <2>4. OrderInv'
        BY <1>5, <1>7, <2>1 DEF OrderInv
  <2>5. Known = status /\ Known' = mem
        BY <1>1, <2>1 DEF Known
  <2>6. CertificateInv'
    <3>1. OwnCertificate'
          BY <1>1, <1>7 DEF IInv, CertificateInv, OwnCertificate, NoFault
    <3>2. platform # "cert-manager" /\ faults = 0
            => service \subseteq 1 .. mem.gen /\ (mem.gen \in service => mem.tls = mem.gen)
          BY <1>3, <1>4, <2>5, SemeruAssumption DEF IInv, CertificateInv
    <3> QED BY <1>1, <1>7, <2>1, <2>5, <3>1, <3>2 DEF CertificateInv, NoFault
  <2>7. ListInv'
        BY <1>1, <1>3, <1>7, <2>1, <2>5 DEF IInv, ListInv, NoFault
  <2> QED BY <2>2, <2>3, <2>4, <2>6, <2>7 DEF IInv
<1> QED BY <1>1, <1>6, <1>7

(* The first steps: the status and the cluster stay as they are but for    *)
(* the Service, the Certificate and its Secret.                            *)
LEMMA EarlyTypes ==
    ASSUME IInv, rec' \in Recs, NoFault,
           service' \subseteq Gen, cert' \in [Gen -> 0 .. MaxUserEdits + 1],
           secret' \in [Gen -> 0 .. MaxUserEdits + 1],
           UNCHANGED << platform, issuer, deploy, compiler, ready, template, pods, spec, status, edits >>
    PROVE  TypeInv'
<1>1. rec'.mem \in Statuses
      BY DEF Recs
<1> QED BY <1>1 DEF IInv, TypeInv, TypeOK, NoFault

(* So does a new health port; a resource without generation gets the first. *)
LEMMA CheckPortsKeeps == ASSUME IInv, CheckPorts PROVE IInv'
<1> DEFINE mem == [rec.mem EXCEPT !.gen = getGeneration(rec.mem)]
           new == IF rec.spec.enable /\ upgradeSemeruHealthPorts(rec.mem)
                  THEN createNewSemeruGeneration(mem) ELSE mem
           pc == IF rec.spec.enable THEN "service" ELSE "disable"
<1>1. /\ rec.pc = "ports" /\ new.gen <= MaxGen /\ NoFault
      /\ rec' = [rec EXCEPT !.mem = new, !.pc = pc]
      /\ UNCHANGED << platform, issuer, service, cert, secret, deploy, compiler, ready,
                      template, pods, spec, status, edits >>
      BY DEF CheckPorts, cluster, AppUnchanged, StatusUnchanged
<1>2. TypeInv /\ rec \in Recs /\ rec.mem \in Statuses /\ rec.spec \in Specs /\ InOrder(rec.mem)
      BY <1>1, RecFields DEF IInv, ControlInv, OrderInv
<1>3. rec.mem.gen \in 0 .. MaxGen /\ rec.mem.completed \in Seq(Gen) /\ MaxGen >= 1
      BY <1>2, StatusFields, SemeruAssumption
<1>4. Has(mem, rec.mem.image, getGeneration(rec.mem), rec.mem.completed, rec.mem.host, rec.mem.tls)
      BY <1>2, <1>3, StatusUpdate DEF getGeneration
<1>5. /\ new \in Statuses /\ new.completed = rec.mem.completed /\ new.tls = rec.mem.tls
      /\ new.gen \in Gen /\ new.gen >= rec.mem.gen
  <2>1. mem \in Statuses /\ mem.gen = getGeneration(rec.mem) /\ mem.completed = rec.mem.completed
        /\ mem.tls = rec.mem.tls
        BY <1>4 DEF Has
  <2>2. getGeneration(rec.mem) \in Gen /\ getGeneration(rec.mem) >= rec.mem.gen
        BY <1>3 DEF getGeneration, Gen
  <2> HIDE DEF mem
  <2>3. spec.image \in Images
        BY <1>2 DEF TypeInv, TypeOK, Specs
  <2>4. CASE new = mem
        BY <2>1, <2>2, <2>4
  <2>5. CASE new = createNewSemeruGeneration(mem)
    <3>1. /\ new.gen = mem.gen + 1
          /\ mem.gen + 1 <= MaxGen => Has(new, mem.image, mem.gen + 1, mem.completed, mem.host, mem.tls)
          BY <2>1, <2>3, <2>5, NextGeneration
    <3> QED BY <1>1, <1>3, <2>1, <2>2, <3>1 DEF Has, Gen
  <2> QED BY <2>4, <2>5
<1> HIDE DEF mem, new
<1>6. /\ rec' \in Recs /\ rec'.pc = pc /\ rec'.mem = new /\ rec'.spec = rec.spec
      /\ rec'.fresh = rec.fresh /\ rec'.n = rec.n
      BY <1>1, <1>2, <1>5 DEF Recs, PCs
<1>7. TypeInv'
      BY <1>1, <1>6, EarlyTypes DEF IInv, TypeInv, TypeOK
<1>8. ControlInv' /\ UseInv'
      BY <1>1, <1>2, <1>5, <1>6 DEF IInv, ControlInv, UseInv, gen
<1>9. OrderInv'
  <2>1. \A i \in 1 .. Len(rec.mem.completed) : rec.mem.completed[i] \in Gen
        BY <1>3
  <2>2. InOrder(new)
        BY <1>2, <1>3, <1>5, <2>1, SemeruAssumption DEF InOrder, Ascending, Gen
  <2> QED BY <1>1, <1>6, <2>2 DEF IInv, OrderInv
<1>10. Known = rec.mem /\ Known' = new
      BY <1>1, <1>6 DEF Known
<1>11. CertificateInv'
  <2>1. OwnCertificate'
        BY <1>1 DEF IInv, CertificateInv, OwnCertificate, NoFault
  <2>2. ASSUME platform # "cert-manager", faults = 0
        PROVE  service \subseteq 1 .. new.gen /\ (new.gen \in service => new.tls = new.gen)
    <3>1. service \subseteq 1 .. rec.mem.gen /\ (rec.mem.gen \in service => rec.mem.tls = rec.mem.gen)
          BY <2>2, <1>10 DEF IInv, CertificateInv
    <3> QED BY <1>3, <1>5, <3>1 DEF Gen
  <2> QED BY <1>1, <1>6, <1>10, <2>1, <2>2 DEF CertificateInv, NoFault
<1>12. ListInv'
      BY <1>1, <1>5, <1>6, <1>10 DEF IInv, ListInv, NoFault
<1> QED BY <1>7, <1>8, <1>9, <1>11, <1>12 DEF IInv

(* The Service becomes the address of the compiler; on OpenShift the name of *)
(* its Secret is recorded when the Service is new.                         *)
LEMMA ReconcileServiceKeeps == ASSUME IInv, ReconcileService PROVE IInv'
<1> DEFINE mem == reconcileSemeruService(rec.mem)
           new == IF platform = "openshift" /\ gen \notin service THEN [mem EXCEPT !.tls = gen] ELSE mem
           pc == IF platform = "openshift" THEN "secret" ELSE "certificate"
<1>1. /\ rec.pc = "service" /\ NoFault /\ service' = service \union {gen}
      /\ rec' = [rec EXCEPT !.pc = pc, !.mem = new]
      /\ UNCHANGED << platform, issuer, cert, secret, deploy, compiler, ready,
                      template, pods, spec, status, edits >>
      BY DEF ReconcileService, AppUnchanged, StatusUnchanged
<1>2. /\ TypeInv /\ rec \in Recs /\ rec.mem \in Statuses /\ rec.spec \in Specs /\ InOrder(rec.mem)
      /\ gen \in Gen /\ rec.mem.gen = gen /\ rec.spec.enable /\ platform \in {"cert-manager", "openshift"}
      BY <1>1, RecFields, SemeruAssumption DEF IInv, ControlInv, OrderInv, gen, TypeInv, TypeOK
<1>3. Has(mem, rec.mem.image, gen, rec.mem.completed, gen, rec.mem.tls)
  <2>1. gen \in 0 .. MaxGen
        BY <1>2 DEF Gen
  <2> QED BY <1>2, <2>1, StatusUpdate DEF reconcileSemeruService
<1>4. Has(new, rec.mem.image, gen, rec.mem.completed, gen,
          IF platform = "openshift" /\ gen \notin service THEN gen ELSE rec.mem.tls)
  <2>1. gen \in 0 .. MaxGen /\ mem \in Statuses
        BY <1>2, <1>3 DEF Gen, Has
  <2> HIDE DEF mem
  <2>2. Has([mem EXCEPT !.tls = gen], mem.image, mem.gen, mem.completed, mem.host, gen)
        BY <2>1, StatusUpdate
  <2> QED BY <1>3, <2>2 DEF Has
<1> HIDE DEF mem, new
<1>5. /\ rec' \in Recs /\ rec'.pc = pc /\ rec'.mem = new /\ rec'.spec = rec.spec
      /\ rec'.fresh = rec.fresh /\ rec'.n = rec.n
      BY <1>1, <1>2, <1>4 DEF Recs, PCs, Has
<1>6. TypeInv'
      BY <1>1, <1>2, <1>5, EarlyTypes DEF IInv, TypeInv, TypeOK
<1>7. ControlInv' /\ UseInv'
      BY <1>1, <1>2, <1>4, <1>5 DEF IInv, ControlInv, UseInv, gen, Has
<1>8. OrderInv'
      BY <1>1, <1>2, <1>4, <1>5 DEF IInv, OrderInv, InOrder, Ascending, Has
<1>9. Known = rec.mem /\ Known' = new
      BY <1>1, <1>5 DEF Known
<1>10. CertificateInv'
  <2>1. OwnCertificate'
        BY <1>1 DEF IInv, CertificateInv, OwnCertificate, NoFault
  <2>2. ASSUME platform # "cert-manager", faults = 0
        PROVE  service' \subseteq 1 .. new.gen /\ new.tls = new.gen
    <3>1. service \subseteq 1 .. gen /\ (gen \in service => rec.mem.tls = gen)
          BY <1>2, <1>9, <2>2 DEF IInv, CertificateInv
    <3> QED BY <1>1, <1>2, <1>4, <2>2, <3>1 DEF Gen, Has
  <2>3. new.gen = gen' /\ faults' = faults
        BY <1>1, <1>5 DEF gen, NoFault
  <2> QED BY <1>1, <1>2, <1>5, <1>9, <2>1, <2>2, <2>3 DEF CertificateInv
<1>11. ListInv'
      BY <1>1, <1>4, <1>5, <1>9 DEF IInv, ListInv, NoFault, Has
<1> QED BY <1>6, <1>7, <1>8, <1>10, <1>11 DEF IInv

(* cert-manager's Certificate names the Secret of its generation.          *)
LEMMA ReconcileCertificateKeeps == ASSUME IInv, ReconcileCertificate PROVE IInv'
<1> DEFINE new == [rec.mem EXCEPT !.tls = gen]
<1>1. /\ rec.pc = "certificate" /\ (NoFault \/ Fault) /\ cert' = [cert EXCEPT ![gen] = issuer]
      /\ secret' = secret \/ secret' = [secret EXCEPT ![gen] = 0]
      /\ rec' = [rec EXCEPT !.pc = "secret", !.mem = new]
      /\ UNCHANGED << platform, issuer, service, deploy, compiler, ready,
                      template, pods, spec, status, edits >>
      BY DEF ReconcileCertificate, AppUnchanged, StatusUnchanged
<1>2. /\ TypeInv /\ rec \in Recs /\ rec.mem \in Statuses /\ rec.spec \in Specs /\ InOrder(rec.mem)
      /\ gen \in Gen /\ rec.mem.gen = gen /\ rec.spec.enable
      BY <1>1, RecFields DEF IInv, ControlInv, OrderInv, gen
<1>3. Has(new, rec.mem.image, gen, rec.mem.completed, rec.mem.host, gen)
  <2>1. gen \in 0 .. MaxGen
        BY <1>2 DEF Gen
  <2> QED BY <1>2, <2>1, StatusUpdate
<1> HIDE DEF new
<1>4. /\ rec' \in Recs /\ rec'.pc = "secret" /\ rec'.mem = new /\ rec'.spec = rec.spec
      /\ rec'.fresh = rec.fresh /\ rec'.n = rec.n
      BY <1>1, <1>2, <1>3 DEF Recs, PCs, Has
<1>5. faults' \in Nat /\ (faults' = 0 => faults = 0)
      BY <1>1, <1>2 DEF TypeInv, Fault, NoFault
<1>6. TypeInv'
  <2>1. rec'.mem \in Statuses
        BY <1>3, <1>4 DEF Has
  <2>2. cert' \in [Gen -> 0 .. MaxUserEdits + 1] /\ secret' \in [Gen -> 0 .. MaxUserEdits + 1]
    <3>1. issuer \in 0 .. MaxUserEdits + 1 /\ 0 \in 0 .. MaxUserEdits + 1
          /\ cert \in [Gen -> 0 .. MaxUserEdits + 1] /\ secret \in [Gen -> 0 .. MaxUserEdits + 1]
          BY <1>2, SemeruAssumption DEF TypeInv, TypeOK
    <3> HIDE DEF gen
    <3> QED BY <1>1, <1>2, <3>1
  <2> QED BY <1>1, <1>2, <1>4, <1>5, <2>1, <2>2 DEF TypeInv, TypeOK
<1>7. ControlInv' /\ UseInv'
      BY <1>1, <1>2, <1>3, <1>4 DEF IInv, ControlInv, UseInv, gen, Has
<1>8. OrderInv'
      BY <1>1, <1>2, <1>3, <1>4 DEF IInv, OrderInv, InOrder, Ascending, Has
<1>9. Known = rec.mem /\ Known' = new
      BY <1>1, <1>4 DEF Known
<1>10. CertificateInv'
  <2>1. OwnCertificate'
        BY <1>1, <1>5 DEF IInv, CertificateInv, OwnCertificate
  <2> QED BY <1>1, <1>3, <1>4, <1>5, <1>9, <2>1, <1>2 DEF IInv, CertificateInv, Has, gen
<1>11. ListInv'
      BY <1>1, <1>3, <1>4, <1>5, <1>9 DEF IInv, ListInv, Has
<1> QED BY <1>6, <1>7, <1>8, <1>10, <1>11 DEF IInv

(* Steps that look at the cluster and go on, those to the pod template     *)
(* included.                                                               *)
LEMMA GotoKeeps ==
    ASSUME IInv, NEW pc \in PCs, rec' = [rec EXCEPT !.pc = pc], NoFault,
           << rec.pc, pc >> \in {<< "secret", "deployment" >>, << "ready", "workload" >>,
               << "workload", "cleanup" >>, << "cleanup", "delete" >>, << "cleanup", "success" >>},
           ControlInv', UseInv', template' \in Templates \union {NoTemplate},
           UNCHANGED << platform, issuer, service, cert, secret, deploy, compiler, ready,
                        pods, spec, status, edits >>
    PROVE  IInv'
<1>1. TypeInv /\ rec \in Recs
      BY RecFields DEF IInv
<1>2. /\ rec' \in Recs /\ rec'.pc = pc /\ rec'.mem = rec.mem /\ rec'.spec = rec.spec
      /\ rec'.fresh = rec.fresh /\ rec'.n = rec.n /\ rec.n \in Nat
      BY <1>1, RecGoto, RecFields
<1>3. TypeInv'
      BY <1>1, <1>2 DEF TypeInv, TypeOK, NoFault
<1>4. OrderInv'
      BY <1>2 DEF IInv, OrderInv
<1>5. Known' = Known /\ Old' = Old
      BY <1>2 DEF Known, Old, gen
<1>6. CertificateInv'
  <2>1. OwnCertificate'
        BY DEF IInv, CertificateInv, OwnCertificate, NoFault
  <2> QED BY <1>2, <1>5, <2>1 DEF IInv, CertificateInv, NoFault, gen
<1>7. ListInv'
  <2>1. ASSUME pc = "delete"
        PROVE  rec.n <= 4 * Len(Old) /\ \A k \in 1 .. Len(Old) : ~(4 * (k - 1) < rec.n)
    <3>1. rec.n = 0
          BY <2>1 DEF IInv, ControlInv
    <3>2. Len(Old) \in Nat
          BY <1>1, RecFields, StatusFields, AmongElements DEF Old
    <3> QED BY <3>1, <3>2
  <2> QED BY <1>2, <1>5, <2>1 DEF IInv, ListInv, NoFault
<1> QED BY <1>3, <1>4, <1>6, <1>7 DEF IInv

(* The reconcile goes on when the TLS Secret is there.                     *)
LEMMA ReadSecretKeeps == ASSUME IInv, ReadSecret PROVE IInv'
<1>1. /\ rec.pc = "secret" /\ NoFault
      /\ UNCHANGED << platform, issuer, service, cert, secret, deploy, compiler, ready,
                      template, pods, spec, edits >>
      BY DEF ReadSecret, cluster, AppUnchanged
<1>2. CASE ~SecretFound /\ ManageError
      BY <1>1, <1>2, ManageErrorKeeps
<1>3. CASE SecretFound /\ Goto("deployment") /\ UNCHANGED status
  <2>1. /\ rec'.pc = "deployment" /\ rec'.mem = rec.mem /\ rec'.spec = rec.spec /\ rec'.n = rec.n
        /\ "deployment" \in PCs /\ rec' = [rec EXCEPT !.pc = "deployment"]
    <3>1. rec \in Recs /\ "deployment" \in PCs /\ rec' = [rec EXCEPT !.pc = "deployment"]
          BY <1>3, RecFields DEF IInv, Goto, PCs
    <3> QED BY <3>1, RecGoto
  <2>2. ControlInv' /\ UseInv'
        BY <1>1, <1>3, <2>1 DEF IInv, ControlInv, UseInv, gen, SecretFound
  <2> QED BY <1>1, <1>3, <2>1, <2>2, GotoKeeps DEF IInv, TypeInv, TypeOK
<1> QED BY <1>1, <1>2, <1>3 DEF ReadSecret

(* The reconcile goes on when the Deployment is reported ready.            *)
LEMMA CheckReadyKeeps == ASSUME IInv, CheckReady PROVE IInv'
<1>1. /\ rec.pc = "ready" /\ NoFault
      /\ UNCHANGED << platform, issuer, service, cert, secret, deploy, compiler, ready,
                      template, pods, spec, edits >>
      BY DEF CheckReady, cluster, AppUnchanged
<1>2. CASE ManageError
      BY <1>1, <1>2, ManageErrorKeeps
<1>3. CASE Goto("workload") /\ UNCHANGED status
  <2>1. /\ rec'.pc = "workload" /\ rec'.mem = rec.mem /\ rec'.spec = rec.spec /\ rec'.n = rec.n
        /\ "workload" \in PCs /\ rec' = [rec EXCEPT !.pc = "workload"]
    <3>1. rec \in Recs /\ "workload" \in PCs /\ rec' = [rec EXCEPT !.pc = "workload"]
          BY <1>3, RecFields DEF IInv, Goto, PCs
    <3> QED BY <3>1, RecGoto
  <2>2. ControlInv' /\ UseInv'
        BY <1>1, <1>3, <2>1 DEF IInv, ControlInv, UseInv, gen, SecretFound
  <2> QED BY <1>1, <1>3, <2>1, <2>2, GotoKeeps DEF IInv, TypeInv, TypeOK
<1> QED BY <1>1, <1>2, <1>3 DEF CheckReady

(* The pod template gets the address of the present generation.            *)
LEMMA ReconcileWorkloadKeeps == ASSUME IInv, ReconcileWorkload PROVE IInv'
<1>1. /\ rec.pc = "workload" /\ NoFault
      /\ UNCHANGED << platform, issuer, service, cert, secret, deploy, compiler, ready,
                      pods, spec, edits >>
      BY DEF ReconcileWorkload, cluster
<1>2. CASE ManageError /\ UNCHANGED template
      BY <1>1, <1>2, ManageErrorKeeps
<1>3. CASE /\ rec.spec.enable /\ platform = "cert-manager" => SecretFound
           /\ template' = PodTemplate /\ Goto("cleanup") /\ UNCHANGED status
  <2>1. /\ rec'.pc = "cleanup" /\ rec'.mem = rec.mem /\ rec'.spec = rec.spec /\ rec'.n = rec.n
        /\ "cleanup" \in PCs /\ rec' = [rec EXCEPT !.pc = "cleanup"]
    <3>1. rec \in Recs /\ "cleanup" \in PCs /\ rec' = [rec EXCEPT !.pc = "cleanup"]
          BY <1>3, RecFields DEF IInv, Goto, PCs
    <3> QED BY <3>1, RecGoto
  <2>2. template' \in Templates
    <3>1. rec.mem.host \in 0 .. MaxGen /\ rec.mem.tls \in 0 .. MaxGen
          BY RecFields, StatusFields DEF IInv
    <3>2. SecretFound => secret[rec.mem.tls] \in 0 .. MaxUserEdits + 1
          BY <3>1 DEF IInv, TypeInv, TypeOK, SecretFound, Gen
    <3>3. 0 \in 0 .. MaxGen /\ 0 \in 0 .. MaxUserEdits + 1
          BY SemeruAssumption
    <3> QED BY <1>3, <3>1, <3>2, <3>3 DEF PodTemplate, Templates
  <2>3. rec.spec.enable => template'.host = rec.mem.host
        BY <1>3 DEF PodTemplate
  <2>4. ControlInv' /\ UseInv'
        BY <1>1, <2>1, <2>3 DEF IInv, ControlInv, UseInv, gen, SecretFound
  <2> QED BY <1>1, <1>3, <2>1, <2>2, <2>4, GotoKeeps
<1> QED BY <1>1, <1>2, <1>3 DEF ReconcileWorkload

(* The deletions begin when all pods run that template.                    *)
LEMMA StartCleanupKeeps == ASSUME IInv, StartCleanup PROVE IInv'
<1>1. /\ rec.pc = "cleanup" /\ NoFault
      /\ UNCHANGED << platform, issuer, service, cert, secret, deploy, compiler, ready,
                      template, pods, spec, status, edits >>
      BY DEF StartCleanup, cluster, AppUnchanged, StatusUnchanged
<1>2. PICK pc \in {"delete", "success"} : Goto(pc) /\ (pc = "delete" => CleanupDue)
      BY DEF StartCleanup
<1>3. /\ rec'.pc = pc /\ rec'.mem = rec.mem /\ rec'.spec = rec.spec /\ rec'.n = rec.n
      /\ pc \in PCs /\ rec' = [rec EXCEPT !.pc = pc]
  <2>1. rec \in Recs /\ pc \in PCs /\ rec' = [rec EXCEPT !.pc = pc]
        BY <1>2, RecFields DEF IInv, Goto, PCs
  <2> QED BY <2>1, RecGoto
<1>4. pc = "delete" => pods = {template}
      BY <1>2 DEF CleanupDue, isOpenLibertyApplicationReady
<1>5. ControlInv' /\ UseInv'
      BY <1>1, <1>2, <1>3, <1>4 DEF IInv, ControlInv, UseInv, gen, SecretFound
<1> QED BY <1>1, <1>2, <1>3, <1>5, GotoKeeps DEF IInv, TypeInv, TypeOK

(* The list after the present generation has been added.                   *)
LEMMA MarkCompletedLemma ==
    ASSUME TypeInv, InOrder(rec.mem), gen \in Gen
    PROVE  LET new == MarkCompleted(rec.mem)
           IN  /\ Has(new, rec.mem.image, gen, new.completed, rec.mem.host, rec.mem.tls)
               /\ InOrder(new)
               /\ Range(new.completed) = Range(rec.mem.completed) \union {gen}
<1> DEFINE s == rec.mem.completed
           u == Append(s, gen)
<1>1. rec.mem \in Statuses /\ s \in Seq(Gen) /\ gen = rec.mem.gen
      BY RecFields, StatusFields DEF gen
<1>2. CASE gen \in Range(s)
  <2>1. MarkCompleted(rec.mem) = rec.mem
        BY <1>2 DEF MarkCompleted
  <2> QED BY <1>1, <1>2, <2>1 DEF Has
<1>3. CASE gen \notin Range(s)
  <2>1. /\ u \in Seq(Gen) /\ Len(u) = Len(s) + 1 /\ u[Len(s) + 1] = gen
        /\ \A i \in 1 .. Len(s) : u[i] = s[i]
        BY <1>1
  <2>2. Range(u) = Range(s) \union {gen}
        BY <1>1, Elements
  <2>3. \A i \in 1 .. Len(s) : s[i] \in Range(s) /\ s[i] \in Gen /\ s[i] <= gen
        BY <1>1, Elements DEF InOrder
  <2>4. \A i \in 1 .. Len(s) : s[i] < gen
        BY <1>3, <2>3 DEF Gen
  <2> HIDE DEF u
  <2>5. Ascending(u) /\ \A i \in 1 .. Len(u) : u[i] <= gen
    <3>1. Ascending(s)
          BY DEF InOrder
    <3>2. \A i \in 1 .. Len(u) : i \in 1 .. Len(s) \/ i = Len(s) + 1
          BY <2>1
    <3>3. \A i \in 1 .. Len(u) : u[i] <= gen
      <4>1. gen <= gen
            BY SemeruAssumption DEF Gen
      <4> QED BY <2>1, <2>3, <3>2, <4>1
    <3>4. ASSUME NEW i \in 1 .. Len(u), NEW j \in 1 .. Len(u), i < j PROVE u[i] < u[j]
      <4>1. CASE j = Len(s) + 1
            BY <2>1, <2>4, <3>2, <3>4, <4>1
      <4>2. CASE j \in 1 .. Len(s)
        <5>1. i \in 1 .. Len(s)
              BY <3>2, <3>4, <4>2
        <5> QED BY <2>1, <3>1, <3>4, <4>2, <5>1 DEF Ascending
      <4> QED BY <3>2, <4>1, <4>2
    <3> QED BY <3>3, <3>4 DEF Ascending
  <2>6. Len(u) \in 0 .. MaxGen
        BY <2>1, <2>5, AscendingLength
  <2>7. Has([rec.mem EXCEPT !.completed = u], rec.mem.image, gen, u, rec.mem.host, rec.mem.tls)
        BY <1>1, <2>1, <2>6, StatusUpdate
  <2>8. MarkCompleted(rec.mem) = [rec.mem EXCEPT !.completed = u]
        BY <1>3 DEF MarkCompleted, u
  <2> QED BY <2>2, <2>5, <2>7, <2>8 DEF Has, InOrder
<1> QED BY <1>2, <1>3

(* The Deployment is written with the Secret's name recorded before, and its *)
(* generation is put on the list.                                          *)
LEMMA ReconcileDeploymentKeeps == ASSUME IInv, ReconcileDeployment PROVE IInv'
<1> DEFINE new == MarkCompleted(rec.mem)
           b == rec.mem.completed \notin {<< >>, << gen >>}
<1>1. /\ rec.pc = "deployment" /\ NoFault /\ deploy' = [deploy EXCEPT ![gen] = Wanted]
      /\ rec' = [rec EXCEPT !.pc = "ready", !.mem = new, !.marked = b]
      /\ UNCHANGED << platform, issuer, service, cert, secret, compiler, ready,
                      template, pods, spec, status, edits >>
      BY DEF ReconcileDeployment, AppUnchanged, StatusUnchanged
<1>2. /\ TypeInv /\ rec \in Recs /\ rec.mem \in Statuses /\ rec.spec \in Specs /\ InOrder(rec.mem)
      /\ gen \in Gen /\ rec.mem.gen = gen /\ rec.spec.enable /\ SecretFound
      BY <1>1, RecFields DEF IInv, ControlInv, OrderInv, gen
<1>3. /\ Has(new, rec.mem.image, gen, new.completed, rec.mem.host, rec.mem.tls) /\ InOrder(new)
      /\ Range(new.completed) = Range(rec.mem.completed) \union {gen}
      BY <1>2, MarkCompletedLemma
<1> HIDE DEF new
<1>4. b \in BOOLEAN
      BY Zenon
<1> HIDE DEF b
<1>5. /\ rec' \in Recs /\ rec'.pc = "ready" /\ rec'.mem = new /\ rec'.spec = rec.spec
      /\ rec'.fresh = rec.fresh /\ rec'.n = rec.n
      BY <1>1, <1>2, <1>3, <1>4 DEF Recs, PCs, Has
<1>6. Wanted \in Deployments /\ Wanted.cert = rec.mem.tls /\ Wanted # None
  <2>1. rec.mem.tls \in Gen
        BY <1>2, StatusFields DEF SecretFound, Gen
  <2>2. secret[rec.mem.tls] \in 1 .. MaxUserEdits + 1
        BY <1>2, <2>1, SemeruAssumption DEF SecretFound, TypeInv, TypeOK
  <2>3. rec.spec.image \in Images /\ rec.spec.port \in Ports
        BY <1>2 DEF Specs
  <2> QED BY <2>1, <2>2, <2>3, SemeruAssumption DEF Wanted, Deployments, None
<1>7. TypeInv'
  <2>1. rec'.mem \in Statuses
        BY <1>3, <1>5 DEF Has
  <2>2. deploy' \in [Gen -> Deployments \union {None}]
        BY <1>1, <1>2, <1>6 DEF TypeInv, TypeOK
  <2> QED BY <1>1, <1>2, <1>5, <2>1, <2>2 DEF TypeInv, TypeOK, NoFault
<1>8. ControlInv' /\ UseInv'
      BY <1>1, <1>2, <1>3, <1>5 DEF IInv, ControlInv, UseInv, gen, Has
<1>9. OrderInv'
      BY <1>1, <1>3, <1>5 DEF IInv, OrderInv
<1>10. Known = rec.mem /\ Known' = new
      BY <1>1, <1>5 DEF Known
<1>11. \A g \in Gen : deploy'[g] = IF g = gen THEN Wanted ELSE deploy[g]
      BY <1>1, <1>2 DEF TypeInv, TypeOK
<1>12. CertificateInv'
  <2>1. platform = "cert-manager" \/ faults = 0 => rec.mem.tls = gen
        BY <1>1 DEF IInv, CertificateInv
  <2>2. OwnCertificate'
        BY <1>1, <1>6, <1>11, <2>1 DEF IInv, CertificateInv, OwnCertificate, NoFault
  <2> QED BY <1>1, <1>2, <1>3, <1>5, <1>10, <2>2 DEF IInv, CertificateInv, NoFault, Has
<1>13. ListInv'
      BY <1>1, <1>3, <1>5, <1>10, <1>11 DEF IInv, ListInv, NoFault
<1> QED BY <1>7, <1>8, <1>9, <1>12, <1>13 DEF IInv

(* Without the compiler, its Service goes first,                           *)
LEMMA DeleteServiceKeeps == ASSUME IInv, DeleteService PROVE IInv'
<1>1. /\ rec.pc = "disable" /\ NoFault /\ service' = service \ {gen}
      /\ secret' = secret \/ secret' = [secret EXCEPT ![gen] = 0]
      /\ rec' = [rec EXCEPT !.pc = "disable2"]
      /\ UNCHANGED << platform, issuer, cert, deploy, compiler, ready,
                      template, pods, spec, status, edits >>
      BY DEF DeleteService, DropService, Goto, AppUnchanged, StatusUnchanged
<1>2. TypeInv /\ rec \in Recs /\ gen \in Gen
      BY <1>1, RecFields DEF IInv, ControlInv
<1>3. /\ rec' \in Recs /\ rec'.pc = "disable2" /\ rec'.mem = rec.mem /\ rec'.spec = rec.spec
      /\ rec'.fresh = rec.fresh /\ rec'.n = rec.n
      BY <1>1, <1>2 DEF Recs, PCs
<1>4. TypeInv'
  <2>1. secret' \in [Gen -> 0 .. MaxUserEdits + 1] /\ service' \subseteq Gen
    <3>1. secret \in [Gen -> 0 .. MaxUserEdits + 1] /\ 0 \in 0 .. MaxUserEdits + 1
          BY <1>2, SemeruAssumption DEF TypeInv, TypeOK
    <3> HIDE DEF gen
    <3> QED BY <1>1, <1>2, <3>1 DEF TypeInv, TypeOK
  <2> QED BY <1>1, <1>2, <1>3, <2>1 DEF TypeInv, TypeOK, NoFault
<1>5. ControlInv' /\ UseInv'
      BY <1>1, <1>3 DEF IInv, ControlInv, UseInv, gen
<1>6. OrderInv' /\ Known' = Known /\ Known = rec.mem
      BY <1>1, <1>3 DEF IInv, OrderInv, Known
<1>7. CertificateInv'
  <2>1. OwnCertificate'
        BY <1>1 DEF IInv, CertificateInv, OwnCertificate, NoFault
  <2> QED BY <1>1, <1>3, <1>6, <2>1 DEF IInv, CertificateInv, NoFault, gen
<1>8. ListInv'
      BY <1>1, <1>3, <1>6 DEF IInv, ListInv, NoFault
<1> QED BY <1>4, <1>5, <1>6, <1>7, <1>8 DEF IInv

(* The Deployment of a generation, and its pods, are gone.                 *)
LEMMA DeleteDeploymentLemma ==
    ASSUME TypeOK, NEW g \in Gen, DeleteDeployment(g)
    PROVE  /\ deploy' \in [Gen -> Deployments \union {None}]
           /\ compiler' \in [Gen -> Deployments \union {None}]
           /\ ready' \subseteq Gen
           /\ deploy'[g] = None /\ \A h \in Gen : deploy'[h] \in {None, deploy[h]}
BY DEF TypeOK, DeleteDeployment

(* and then its Deployment; the address is forgotten.                      *)
LEMMA DisableCompilerKeeps == ASSUME IInv, DisableCompiler PROVE IInv'
<1> DEFINE mem == [rec.mem EXCEPT !.host = 0]
           new == [mem EXCEPT !.tls = 0]
<1>1. /\ rec.pc = "disable2" /\ NoFault /\ DeleteDeployment(gen)
      /\ rec' = [rec EXCEPT !.pc = "workload", !.mem = new]
      /\ UNCHANGED << platform, issuer, service, cert, secret, template, pods, spec, status, edits >>
  <2>1. rec \in Recs /\ rec.mem \in Statuses
        BY RecFields DEF IInv
  <2> QED BY <2>1 DEF DisableCompiler, AppUnchanged, StatusUnchanged
<1>2. /\ TypeInv /\ rec \in Recs /\ rec.mem \in Statuses /\ rec.spec \in Specs /\ InOrder(rec.mem)
      /\ gen \in Gen /\ rec.mem.gen = gen /\ ~rec.spec.enable
      BY <1>1, RecFields DEF IInv, ControlInv, OrderInv, gen
<1>3. 0 \in 0 .. MaxGen
      BY SemeruAssumption
<1>4. Has(mem, rec.mem.image, gen, rec.mem.completed, 0, rec.mem.tls)
      BY <1>2, <1>3, StatusUpdate
<1>5. Has(new, rec.mem.image, gen, rec.mem.completed, 0, 0)
  <2>1. mem \in Statuses
        BY <1>4 DEF Has
  <2> HIDE DEF mem
  <2>2. Has(new, mem.image, mem.gen, mem.completed, mem.host, 0)
        BY <1>3, <2>1, StatusUpdate
  <2> QED BY <1>4, <2>2 DEF Has
<1> HIDE DEF mem, new
<1>6. /\ rec' \in Recs /\ rec'.pc = "workload" /\ rec'.mem = new /\ rec'.spec = rec.spec
      /\ rec'.fresh = rec.fresh /\ rec'.n = rec.n
      BY <1>1, <1>2, <1>5 DEF Recs, PCs, Has
<1>7. /\ deploy' \in [Gen -> Deployments \union {None}]
      /\ compiler' \in [Gen -> Deployments \union {None}]
      /\ ready' \subseteq Gen /\ \A h \in Gen : deploy'[h] \in {None, deploy[h]}
      BY <1>1, <1>2, DeleteDeploymentLemma DEF TypeInv
<1>8. TypeInv'
  <2>1. rec'.mem \in Statuses
        BY <1>5, <1>6 DEF Has
  <2> QED BY <1>1, <1>2, <1>6, <1>7, <2>1 DEF TypeInv, TypeOK, NoFault
<1>9. ControlInv' /\ UseInv'
      BY <1>1, <1>2, <1>5, <1>6 DEF IInv, ControlInv, UseInv, gen, Has
<1>10. OrderInv'
      BY <1>1, <1>2, <1>5, <1>6 DEF IInv, OrderInv, InOrder, Ascending, Has
<1>11. Known = rec.mem /\ Known' = new
      BY <1>1, <1>6 DEF Known
<1>12. CertificateInv'
  <2>1. OwnCertificate'
        BY <1>1, <1>7 DEF IInv, CertificateInv, OwnCertificate, NoFault
  <2> QED BY <1>1, <1>2, <1>5, <1>6, <1>11, <2>1 DEF IInv, CertificateInv, NoFault, Has
<1>13. ListInv'
      BY <1>1, <1>5, <1>6, <1>7, <1>11 DEF IInv, ListInv, NoFault, Has
<1> QED BY <1>8, <1>9, <1>10, <1>12, <1>13 DEF IInv

(* The older generations on the list.                                      *)
LEMMA OldLemma ==
    ASSUME TypeInv, gen \in Gen
    PROVE  /\ Old \in Seq(Gen) /\ Len(Old) \in Nat
           /\ \A k \in 1 .. Len(Old) : Old[k] \in Gen /\ Old[k] < gen
           /\ \A g \in Range(rec.mem.completed) : g < gen => \E k \in 1 .. Len(Old) : g = Old[k]
<1>1. rec.mem.completed \in Seq(Gen)
      BY RecFields, StatusFields
<1>2. Old \in Seq(Gen) /\ Range(Old) = Range(rec.mem.completed) \cap (1 .. gen - 1)
      BY <1>1, AmongElements DEF Old
<1>3. \A x : x \in Range(Old) <=> \E k \in 1 .. Len(Old) : x = Old[k]
      BY <1>2, Elements
<1>4. Range(rec.mem.completed) \subseteq Gen
      BY <1>1, Elements
<1>5. \A k \in 1 .. Len(Old) : Old[k] \in 1 .. gen - 1
      BY <1>2, <1>3
<1>6. \A g \in Range(rec.mem.completed) : g < gen => g \in 1 .. gen - 1
      BY <1>4, SemeruAssumption DEF Gen
<1> QED BY <1>2, <1>3, <1>5, <1>6, SemeruAssumption DEF Gen

(* The object DeleteNext deletes.                                          *)
LEMMA DeleteNextLemma ==
    ASSUME IInv, DeleteNext
    PROVE  \E g \in Gen :
             /\ (rec.n \div 4) + 1 \in 1 .. Len(Old) /\ g = Old[(rec.n \div 4) + 1] /\ g < gen
             /\ service' \in {service, service \ {g}}
             /\ secret' \in {secret, [secret EXCEPT ![g] = 0]}
             /\ cert' \in {cert, [cert EXCEPT ![g] = 0]}
             /\ \/ DeleteDeployment(g)
                \/ rec.n % 4 # 0 /\ UNCHANGED << deploy, compiler, ready >>
<1> DEFINE g == Old[(rec.n \div 4) + 1]
           kind == Kinds[(rec.n % 4) + 1]
<1>1. /\ rec.pc = "delete" /\ ~CleanupDone
      /\ CASE kind = "service" -> DropService(g)
           [] kind = "secret" /\ platform = "cert-manager" ->
                UNCHANGED service /\ secret' = [secret EXCEPT ![g] = 0]
           [] OTHER -> UNCHANGED << service, secret >>
      /\ cert' = IF kind = "certificate" THEN [cert EXCEPT ![g] = 0] ELSE cert
      /\ IF kind = "deployment" THEN DeleteDeployment(g) ELSE UNCHANGED << deploy, compiler, ready >>
      BY DEF DeleteNext
<1>2. rec.n \in Nat /\ rec.n <= 4 * Len(Old) /\ rec.n # 4 * Len(Old) /\ TypeInv /\ gen \in Gen
      BY <1>1, RecFields DEF IInv, ListInv, CleanupDone, ControlInv
<1>3. Len(Old) \in Nat
      BY <1>2, OldLemma
<1>4. (rec.n \div 4) + 1 \in 1 .. Len(Old)
      BY <1>2, <1>3
<1>5. g \in Gen /\ g < gen
      BY <1>2, <1>4, OldLemma
<1>6. rec.n % 4 = 0 => kind = "deployment"
      BY DEF Kinds
<1> HIDE DEF g, kind
<1>7. service' \in {service, service \ {g}} /\ secret' \in {secret, [secret EXCEPT ![g] = 0]}
  <2>1. CASE kind = "service"
        BY <1>1, <2>1 DEF DropService
  <2>2. CASE kind = "secret" /\ platform = "cert-manager"
        BY <1>1, <2>2
  <2>3. CASE ~(kind = "service") /\ ~(kind = "secret" /\ platform = "cert-manager")
        BY <1>1, <2>3
  <2> QED BY <2>1, <2>2, <2>3
<1>8. cert' \in {cert, [cert EXCEPT ![g] = 0]}
      BY <1>1
<1>9. DeleteDeployment(g) \/ (rec.n % 4 # 0 /\ UNCHANGED << deploy, compiler, ready >>)
      BY <1>1, <1>6
<1> QED BY <1>4, <1>5, <1>7, <1>8, <1>9 DEF g

(* What is deleted is of an older generation; the Deployments come first.  *)
LEMMA DeleteNextKeeps == ASSUME IInv, DeleteNext PROVE IInv'
<1>1. PICK g \in Gen :
             /\ (rec.n \div 4) + 1 \in 1 .. Len(Old) /\ g = Old[(rec.n \div 4) + 1] /\ g < gen
             /\ service' \in {service, service \ {g}}
             /\ secret' \in {secret, [secret EXCEPT ![g] = 0]}
             /\ cert' \in {cert, [cert EXCEPT ![g] = 0]}
             /\ \/ DeleteDeployment(g)
                \/ rec.n % 4 # 0 /\ UNCHANGED << deploy, compiler, ready >>
      BY DeleteNextLemma
<1>2. /\ rec.pc = "delete" /\ ~CleanupDone /\ NoFault /\ rec' = [rec EXCEPT !.n = @ + 1]
      /\ UNCHANGED << platform, issuer, template, pods, spec, status, edits >>
      BY DEF DeleteNext, StatusUnchanged, AppUnchanged
<1>3. /\ TypeInv /\ TypeOK /\ rec \in Recs /\ rec.n \in Nat /\ gen \in Gen /\ rec.n < 4 * Len(Old)
      /\ Len(Old) \in Nat
  <2>1. /\ TypeInv /\ rec \in Recs /\ rec.n \in Nat /\ gen \in Gen /\ rec.n <= 4 * Len(Old)
        /\ rec.n # 4 * Len(Old)
        BY <1>2, RecFields DEF IInv, ListInv, CleanupDone, ControlInv
  <2>2. Len(Old) \in Nat
        BY <2>1, OldLemma
  <2> QED BY <2>1, <2>2 DEF TypeInv
<1>4. /\ rec' \in Recs /\ rec'.pc = rec.pc /\ rec'.mem = rec.mem /\ rec'.spec = rec.spec
      /\ rec'.fresh = rec.fresh /\ rec'.n = rec.n + 1
      BY <1>2, <1>3 DEF Recs
<1>5. /\ deploy' \in [Gen -> Deployments \union {None}]
      /\ compiler' \in [Gen -> Deployments \union {None}] /\ ready' \subseteq Gen
      /\ \A h \in Gen : deploy'[h] \in {None, deploy[h]}
      /\ rec.n % 4 = 0 => deploy'[g] = None
  <2>1. CASE DeleteDeployment(g)
        BY <1>3, <2>1, DeleteDeploymentLemma
  <2>2. CASE rec.n % 4 # 0 /\ UNCHANGED << deploy, compiler, ready >>
        BY <1>3, <2>2 DEF TypeOK
  <2> QED BY <1>1, <2>1, <2>2
<1>6. TypeInv'
  <2>1. /\ cert' \in [Gen -> 0 .. MaxUserEdits + 1] /\ secret' \in [Gen -> 0 .. MaxUserEdits + 1]
        /\ service' \subseteq Gen
    <3>1. 0 \in 0 .. MaxUserEdits + 1
          BY SemeruAssumption
    <3>2. /\ cert \in [Gen -> 0 .. MaxUserEdits + 1] /\ secret \in [Gen -> 0 .. MaxUserEdits + 1]
          /\ service \subseteq Gen
          BY <1>3 DEF TypeOK
    <3>3. cert' \in [Gen -> 0 .. MaxUserEdits + 1]
          BY <1>1, <3>1, <3>2
    <3>4. secret' \in [Gen -> 0 .. MaxUserEdits + 1]
          BY <1>1, <3>1, <3>2
    <3> QED BY <1>1, <3>2, <3>3, <3>4
  <2>2. rec'.mem \in Statuses
        BY <1>4 DEF Recs
  <2> QED BY <1>2, <1>3, <1>4, <1>5, <2>1, <2>2 DEF TypeInv, TypeOK, NoFault
<1>7. ControlInv' /\ UseInv'
      BY <1>2, <1>4 DEF IInv, ControlInv, UseInv, gen
<1>8. OrderInv' /\ Known' = Known /\ Old' = Old
      BY <1>2, <1>4 DEF IInv, OrderInv, Known, Old, gen
<1>9. CertificateInv'
  <2>1. OwnCertificate'
        BY <1>2, <1>5 DEF IInv, CertificateInv, OwnCertificate, NoFault
  <2> QED BY <1>1, <1>2, <1>4, <1>8, <2>1 DEF IInv, CertificateInv, NoFault
<1>10. ListInv'
  <2>1. \A k \in 1 .. Len(Old) : Old[k] \in Gen
        BY <1>3, OldLemma
  <2>2. ASSUME NEW k \in 1 .. Len(Old), 4 * (k - 1) < rec.n + 1 PROVE deploy'[Old[k]] = None
    <3>1. CASE 4 * (k - 1) < rec.n
          BY <1>2, <1>5, <2>1, <3>1 DEF IInv, ListInv
    <3>2. CASE 4 * (k - 1) = rec.n
      <4>1. rec.n % 4 = 0 /\ (rec.n \div 4) + 1 = k
            BY <3>2
      <4> QED BY <1>1, <1>5, <4>1
    <3> QED BY <1>3, <2>2, <3>1, <3>2
  <2>3. rec.n + 1 <= 4 * Len(Old)
        BY <1>3
  <2> QED BY <1>2, <1>4, <1>5, <1>8, <2>2, <2>3 DEF IInv, ListInv, NoFault
<1> QED BY <1>6, <1>7, <1>8, <1>9, <1>10 DEF IInv

(* The generations taken off the list have no Deployment any more.         *)
LEMMA EndCleanupKeeps == ASSUME IInv, EndCleanup PROVE IInv'
<1> DEFINE s == rec.mem.completed
           u == Among(s, gen .. MaxGen)
           new == [rec.mem EXCEPT !.completed = u]
<1>1. /\ rec.pc = "delete" /\ CleanupDone /\ NoFault
      /\ rec' = [rec EXCEPT !.pc = "success", !.mem = new]
      /\ UNCHANGED << platform, issuer, service, cert, secret, deploy, compiler, ready,
                      template, pods, spec, status, edits >>
      BY DEF EndCleanup, cluster, AppUnchanged, StatusUnchanged
<1>2. /\ TypeInv /\ rec \in Recs /\ rec.mem \in Statuses /\ InOrder(rec.mem)
      /\ gen \in Gen /\ rec.mem.gen = gen /\ rec.n = 4 * Len(Old) /\ s \in Seq(Gen)
      BY <1>1, RecFields, StatusFields DEF IInv, ControlInv, OrderInv, gen, CleanupDone
<1>3. u \in Seq(Gen) /\ Range(u) = Range(s) \cap (gen .. MaxGen) /\ Ascending(u)
      BY <1>2, AmongElements DEF InOrder
<1>4. Len(u) \in 0 .. MaxGen
      BY <1>3, AscendingLength
<1> HIDE DEF u
<1>5. Has(new, rec.mem.image, gen, u, rec.mem.host, rec.mem.tls)
      BY <1>2, <1>3, <1>4, StatusUpdate
<1>6. InOrder(new)
  <2>1. \A i \in 1 .. Len(s) : s[i] <= gen
        BY <1>2 DEF InOrder
  <2>2. \A i \in 1 .. Len(u) : u[i] \in Range(s)
        BY <1>2, <1>3, Elements
  <2>3. \A i \in 1 .. Len(u) : u[i] <= gen
    <3>1. \A x \in Range(s) : x <= gen
          BY <1>2, <2>1, Elements
    <3> QED BY <2>2, <3>1
  <2> QED BY <1>3, <1>5, <2>3 DEF InOrder, Has
<1> HIDE DEF new
<1>7. /\ rec' \in Recs /\ rec'.pc = "success" /\ rec'.mem = new /\ rec'.spec = rec.spec
      /\ rec'.fresh = rec.fresh
      BY <1>1, <1>2, <1>5 DEF Recs, PCs, Has
<1>8. TypeInv'
  <2>1. rec'.mem \in Statuses
        BY <1>5, <1>7 DEF Has
  <2> QED BY <1>1, <1>2, <1>7, <2>1 DEF TypeInv, TypeOK, NoFault
<1>9. ControlInv' /\ UseInv'
      BY <1>1, <1>2, <1>5, <1>7 DEF IInv, ControlInv, UseInv, gen, Has
<1>10. OrderInv'
      BY <1>1, <1>6, <1>7 DEF IInv, OrderInv
<1>11. Known = rec.mem /\ Known' = new
      BY <1>1, <1>7 DEF Known
<1>12. CertificateInv'
  <2>1. OwnCertificate'
        BY <1>1 DEF IInv, CertificateInv, OwnCertificate, NoFault
  <2> QED BY <1>1, <1>2, <1>5, <1>7, <1>11, <2>1 DEF IInv, CertificateInv, NoFault, Has
<1>13. ListInv'
  <2>1. ASSUME faults = 0, NEW g \in Gen, deploy[g] # None PROVE g \in Range(u)
    <3>1. g \in Range(s)
          BY <1>11, <2>1 DEF IInv, ListInv
    <3>2. ASSUME g < gen PROVE FALSE
      <4>1. PICK k \in 1 .. Len(Old) : g = Old[k]
            BY <1>2, <3>1, <3>2, OldLemma
      <4>2. Len(Old) \in Nat
            BY <1>2, OldLemma
      <4>3. 4 * (k - 1) < rec.n
            BY <1>2, <4>1, <4>2
      <4> QED BY <1>1, <2>1, <4>1, <4>3 DEF IInv, ListInv
    <3>3. g \in gen .. MaxGen
          BY <1>2, <3>2, SemeruAssumption DEF Gen
    <3> QED BY <1>3, <3>1, <3>3
  <2> QED BY <1>1, <1>5, <1>7, <1>11, <2>1 DEF IInv, ListInv, NoFault, Has
<1> QED BY <1>8, <1>9, <1>10, <1>12, <1>13 DEF IInv

(* What users and the cluster do while the reconcile stays as it is.       *)
LEMMA OutsideKeeps ==
    ASSUME IInv, TypeOK', issuer' <= edits' + 1, edits' \in 0 .. MaxUserEdits,
           \A g \in Gen : secret[g] # 0 => secret'[g] # 0,
           pods' = pods \/ pods # {template},
           UNCHANGED << platform, service, deploy, template, status, rec, faults >>
    PROVE  IInv'
<1>1. TypeInv'
      BY DEF IInv, TypeInv
<1>2. ControlInv'
  <2>1. SecretFound => SecretFound'
    <3>1. rec.mem.tls # 0 => rec.mem.tls \in Gen
          BY RecFields, StatusFields DEF IInv, Gen
    <3> QED BY <3>1 DEF SecretFound
  <2> QED BY <2>1 DEF IInv, ControlInv, gen
<1>3. UseInv'
      BY DEF IInv, UseInv, gen
<1>4. OrderInv' /\ Known' = Known /\ Old' = Old
      BY DEF IInv, OrderInv, Known, Old, gen
<1>5. CertificateInv' /\ ListInv'
      BY <1>4 DEF IInv, CertificateInv, OwnCertificate, ListInv, gen
<1> QED BY <1>1, <1>2, <1>3, <1>4, <1>5 DEF IInv

(* An edit of the resource makes the copy of a reconcile out of date.      *)
LEMMA UserEditKeeps == ASSUME IInv, NEW s \in Specs, UserEdit(s) PROVE IInv'
<1>1. /\ edits' \in 0 .. MaxUserEdits /\ edits <= edits' /\ spec' = s
      /\ UNCHANGED << platform, issuer, service, cert, secret, deploy, compiler, ready,
                      template, pods, status >>
      BY SemeruAssumption DEF IInv, TypeInv, UserEdit, cluster, AppUnchanged
<1>2. issuer' <= edits' + 1
  <2>1. issuer \in 1 .. MaxUserEdits + 1 /\ issuer <= edits + 1 /\ edits \in 0 .. MaxUserEdits
        BY DEF IInv, TypeInv, TypeOK
  <2>2. edits' = edits + 1 /\ issuer' = issuer
        BY <1>1 DEF UserEdit
  <2> QED BY <2>1, <2>2, SemeruAssumption
<1>3. CASE rec.pc = "idle" /\ NoFault /\ UNCHANGED rec
  <2>1. TypeInv /\ TypeOK
        BY DEF IInv, TypeInv
  <2>2. issuer' <= edits' + 1
        BY <1>2
  <2>3. TypeOK'
        BY <1>1, <1>3, <2>1 DEF TypeOK
  <2> QED BY <1>1, <1>3, <2>2, <2>3, OutsideKeeps DEF NoFault
<1>4. CASE rec.pc # "idle" /\ Fault /\ rec' = [rec EXCEPT !.fresh = FALSE]
  <2>1. TypeInv /\ rec \in Recs /\ faults' \in Nat /\ faults' # 0
        BY <1>4, RecFields DEF IInv, Fault
  <2>2. /\ rec' \in Recs /\ rec'.pc = rec.pc /\ rec'.mem = rec.mem /\ rec'.spec = rec.spec
        /\ rec'.n = rec.n
        BY <1>4, <2>1 DEF Recs
  <2>3. TypeInv'
    <3>1. rec'.mem \in Statuses
          BY <2>2 DEF Recs
    <3>2. TypeOK /\ TypeOK'
          BY <1>1, <2>1, <3>1 DEF TypeInv, TypeOK
    <3>3. issuer' <= edits' + 1
          BY <1>2
    <3> QED BY <1>1, <2>1, <2>2, <3>2, <3>3 DEF TypeInv
  <2>4. ControlInv' /\ UseInv'
        BY <1>1, <2>2 DEF IInv, ControlInv, UseInv, gen, SecretFound
  <2>5. OrderInv' /\ Known' = Known /\ Old' = Old
        BY <1>1, <2>2 DEF IInv, OrderInv, Known, Old, gen
  <2>6. CertificateInv'
        BY <1>1, <2>1, <2>2, <2>5 DEF IInv, CertificateInv, OwnCertificate, gen
  <2>7. ListInv'
        BY <1>1, <2>1, <2>2, <2>5 DEF IInv, ListInv
  <2> QED BY <2>3, <2>4, <2>5, <2>6, <2>7 DEF IInv
<1> QED BY <1>3, <1>4 DEF UserEdit

(* A new version of the issuer.                                            *)
LEMMA RotateIssuerKeeps == ASSUME IInv, RotateIssuer PROVE IInv'
<1>1. /\ edits' = edits + 1 /\ edits < MaxUserEdits /\ issuer' = issuer + 1
      /\ UNCHANGED << platform, service, cert, secret, deploy, compiler, ready,
                      template, pods, status, rec, spec, faults >>
      BY DEF RotateIssuer, AppUnchanged
<1>2. TypeInv /\ TypeOK
      BY DEF IInv, TypeInv
<1>3. issuer' \in 1 .. MaxUserEdits + 1 /\ issuer' <= edits' + 1 /\ edits' \in 0 .. MaxUserEdits
      BY <1>1, <1>2, SemeruAssumption DEF TypeInv, TypeOK
<1>4. TypeOK'
      BY <1>1, <1>2, <1>3 DEF TypeOK
<1> QED BY <1>1, <1>3, <1>4, OutsideKeeps

(* What cert-manager, the service CA and the Deployment controller do.     *)
LEMMA SettleKeeps == ASSUME IInv, Settle PROVE IInv'
<1>1. TypeInv /\ TypeOK /\ issuer <= edits + 1 /\ edits \in 0 .. MaxUserEdits
      BY DEF IInv, TypeInv
<1>2. ASSUME NEW g \in Gen, IssueSecret(g) PROVE IInv'
  <2>1. PICK v \in {issuer, 1} : secret' = [secret EXCEPT ![g] = v]
        BY <1>2 DEF IssueSecret
  <2>2. v \in 1 .. MaxUserEdits + 1 /\ secret[g] = 0
        BY <1>1, <1>2, SemeruAssumption DEF TypeOK, IssueSecret
  <2>3. /\ secret' \in [Gen -> 0 .. MaxUserEdits + 1]
        /\ \A h \in Gen : secret[h] # 0 => secret'[h] # 0
        BY <1>1, <2>1, <2>2 DEF TypeOK
  <2>4. /\ UNCHANGED << platform, issuer, service, cert, deploy, compiler, ready, rec, faults >>
        /\ UNCHANGED << spec, status, edits, template, pods >>
        BY <1>2 DEF IssueSecret, StatusUnchanged, AppUnchanged
  <2>5. TypeOK'
        BY <1>1, <2>3, <2>4 DEF TypeOK
  <2> QED BY <1>1, <2>3, <2>4, <2>5, OutsideKeeps
<1>3. ASSUME NEW g \in Gen, StopCompiler(g) \/ StartCompiler(g) PROVE IInv'
  <2>1. /\ UNCHANGED << platform, issuer, service, cert, secret, deploy, rec, faults >>
        /\ UNCHANGED << spec, status, edits, template, pods >>
        BY <1>3 DEF StopCompiler, StartCompiler, StatusUnchanged, AppUnchanged
  <2>2. compiler' \in [Gen -> Deployments \union {None}] /\ ready' \subseteq Gen
        BY <1>1, <1>3 DEF StopCompiler, StartCompiler, TypeOK
  <2>3. TypeOK'
        BY <1>1, <2>1, <2>2 DEF TypeOK
  <2> QED BY <1>1, <2>1, <2>3, OutsideKeeps
<1>4. ASSUME RollPods PROVE IInv'
  <2>1. /\ template # NoTemplate /\ pods # {template} /\ pods' \subseteq pods \union {template}
        /\ UNCHANGED << platform, issuer, service, cert, secret, deploy, compiler, ready >>
        /\ UNCHANGED << template, rec, faults, spec, status, edits >>
        BY <1>4 DEF RollPods, cluster, StatusUnchanged
  <2>2. TypeOK'
        BY <1>1, <2>1 DEF TypeOK
  <2> QED BY <1>1, <2>1, <2>2, OutsideKeeps
<1> QED BY <1>2, <1>3, <1>4 DEF Settle

(* No step breaks the invariant.                                           *)
LEMMA StepInv == ASSUME IInv, [Next]_vars PROVE IInv'
<1>1. CASE UpdateImage
      BY <1>1, UpdateImageKeeps
<1>2. CASE Continue
      BY <1>2, CheckPortsKeeps, ReconcileServiceKeeps, ReconcileCertificateKeeps, ReadSecretKeeps,
         ReconcileDeploymentKeeps, CheckReadyKeeps, DeleteServiceKeeps, DisableCompilerKeeps,
         ReconcileWorkloadKeeps, StartCleanupKeeps, DeleteNextKeeps, EndCleanupKeeps,
         ManageSuccessKeeps DEF Continue
<1>3. CASE ReconcileFails \/ RestartOperator
      BY <1>3, CallFailsKeeps, RestartKeeps
<1>4. CASE (\E s \in Specs : UserEdit(s)) \/ RotateIssuer \/ Settle
      BY <1>4, UserEditKeeps, RotateIssuerKeeps, SettleKeeps
<1>5. CASE UNCHANGED vars
  <2>1. /\ UNCHANGED << platform, issuer, service, cert, secret, deploy, compiler, ready >>
        /\ UNCHANGED << template, pods, rec, faults, spec, status, edits >>
        BY <1>5 DEF vars
  <2>2. TypeOK' /\ TypeInv
        BY <2>1 DEF IInv, TypeInv, TypeOK
  <2> QED BY <2>1, <2>2, OutsideKeeps DEF TypeInv
<1> QED BY <1>1, <1>2, <1>3, <1>4, <1>5 DEF Next

-----------------------------------------------------------------------------
(* The theorems.                                                           *)

(* The invariant holds in every reachable state.                           *)
THEOREM Invariance == Spec => []IInv
<1>1. Init => IInv
      BY InitInv
<1>2. IInv /\ [Next]_vars => IInv'
      BY StepInv
<1> QED BY <1>1, <1>2, PTL DEF Spec

(* The variables keep their types: in particular the list of completed     *)
(* generations never outgrows the number of generations.                   *)
THEOREM TypeCorrect == Spec => []TypeOK
<1>1. IInv => TypeOK
      BY DEF IInv, TypeInv
<1> QED BY <1>1, Invariance, PTL

(* The list that reconcileSemeruDeployment extends and that                *)
(* deleteCompletedSemeruInstances edits stays ascending, whatever writes of *)
(* the status are lost.                                                    *)
THEOREM ListInOrder == Spec => []CompletedInOrder
<1>1. IInv => CompletedInOrder
  <2> SUFFICES ASSUME IInv, NEW s \in {status, rec.mem}
               PROVE  /\ \A i \in DOMAIN s.completed : s.completed[i] <= s.gen
                      /\ \A i, j \in DOMAIN s.completed : i < j => s.completed[i] < s.completed[j]
      BY DEF CompletedInOrder
  <2>1. s \in Statuses /\ InOrder(s)
        BY RecFields DEF IInv, OrderInv
  <2>2. DOMAIN s.completed = 1 .. Len(s.completed)
        BY <2>1, StatusFields
  <2> QED BY <2>1, <2>2 DEF InOrder, Ascending
<1> QED BY <1>1, Invariance, PTL

(* As long as no call fails and no write is lost, every Deployment of a    *)
(* compiler is on the list that deleteCompletedSemeruInstances works from. *)
THEOREM NoDeploymentForgotten == Spec => []DeploymentsListed
<1>1. IInv => DeploymentsListed
      BY DEF IInv, ListInv, Known, DeploymentsListed
<1> QED BY <1>1, Invariance, PTL

(* The Deployment that reconcileSemeruDeployment writes mounts the TLS Secret *)
(* of its own generation: always with cert-manager, and with OpenShift's   *)
(* service CA when no write is lost.                                       *)
THEOREM CertificateOfItsOwn == Spec => []OwnCertificate
<1>1. IInv => OwnCertificate
      BY DEF IInv, CertificateInv
<1> QED BY <1>1, Invariance, PTL

(* While the compiler is enabled no Service is deleted that a pod or the pod *)
(* template still connects to.  A Service goes in two steps only:          *)
(* DeleteService, for a resource that wants no compiler, and DeleteNext, when *)
(* all pods use a newer one.                                               *)
THEOREM ServiceOutlivesUse == Spec => UsedCompilerKept
<1>1. IInv /\ [Next]_vars
        => [\A g \in service \ service' :
               rec.spec.enable => \A t \in pods \union {template} : t.host # g]_vars
  <2> SUFFICES ASSUME IInv, [Next]_vars, NEW g \in service \ service', rec.spec.enable
               PROVE  \A t \in pods \union {template} : t.host # g
      OBVIOUS
  <2>1. rec.pc # "disable"
        BY DEF IInv, ControlInv
  <2>2. DeleteNext
    <3>1. CASE UpdateImage \/ ReconcileFails \/ RestartOperator \/ (\E s \in Specs : UserEdit(s)) \/ RotateIssuer
          BY <3>1 DEF UpdateImage, ReconcileFails, CallFails, RestartOperator, UserEdit, RotateIssuer,
                      cluster
    <3>2. CASE Settle \/ UNCHANGED vars
          BY <3>2 DEF Settle, IssueSecret, StopCompiler, StartCompiler, RollPods, cluster, vars
    <3>3. CASE Continue
          BY <2>1, <3>3 DEF Continue, CheckPorts, ReconcileService, ReconcileCertificate, ReadSecret,
                     ReconcileDeployment, CheckReady, DeleteService, DisableCompiler,
                     ReconcileWorkload, StartCleanup, EndCleanup, ManageSuccess, cluster
    <3> QED BY <3>1, <3>2, <3>3 DEF Next
  <2>3. PICK h \in Gen : h < gen /\ service' \in {service, service \ {h}}
        BY <2>2, DeleteNextLemma
  <2>4. pods = {template} /\ template.host = gen
        BY <2>2 DEF IInv, UseInv, DeleteNext
  <2>5. g = h /\ h # gen
        BY <2>3 DEF Gen
  <2> QED BY <2>4, <2>5
<1> QED BY <1>1, Invariance, PTL DEF Spec, UsedCompilerKept
=============================================================================
