----------------------------- MODULE VGPUProofs -----------------------------
(***************************************************************************)
(* Theorems about VGPU, for any number of slots and any devices: a pass    *)
(* ends with the labels that the devices mean, or with the error that is   *)
(* meant (Outcome).  The walks follow offsets read from the devices, so    *)
(* most of the proof is about bytes: where FlattenSeq lays a record out,   *)
(* and what is read there.                                                 *)
(***************************************************************************)
EXTENDS VGPU, FiniteSetTheorems, SequenceTheorems, WellFoundedInduction, TLAPS

(* Inductive invariant: why the offsets stay in bounds, and why the labels *)
(* are what the devices mean.                                              *)

(* A sequence of slots in the order of the bus, and of which slots.        *)
Lists(seq, S) ==
  /\ \A k \in DOMAIN seq: seq[k] \in S
  /\ \A i \in S: \E k \in DOMAIN seq: seq[k] = i
  /\ \A k \in DOMAIN seq: \A j \in 1..(k - 1): seq[j] < seq[k]
VGPUSlots == [k \in DOMAIN vgpus |-> vgpus[k].pci]

Reading == /\ pc \notin {"list", "error"} => bus
           /\ pc = "list" => dev = 1 /\ entries = {}
           /\ pc \in {"list", "read"} => Lists(devices, {i \in Here: i < dev})
           /\ pc \in {"scan", "walk", "info", "record"} => Lists(devices, Here)

(* No vGPU is found but those of the devices that were scanned, and each   *)
(* with the capability it means.                                           *)
Scanned == {devices[k]: k \in 1..(dev - 1)}
IsCopy(bytes, capability) ==
  /\ Len(bytes) = 2 + Len(Body(capability))
  /\ \A i \in 3..Len(bytes): bytes[i] = Body(capability)[i - 2]
Scanning ==
  /\ pc \in {"list", "read"} => vgpus = <<>>
  /\ pc \in {"scan", "walk"} => /\ dev <= Len(devices) + 1
                                /\ Scanned \cap Unwalkable = {}
                                /\ Lists(VGPUSlots, Scanned \cap VGPUs)
  /\ pc \in {"info", "record"} => Unwalkable = {} /\ Lists(VGPUSlots, VGPUs)
  /\ \A k \in DOMAIN vgpus: IsCopy(vgpus[k].capability, CapabilityOf(slots[vgpus[k].pci]))

(* A walk is at a capability with none before it that would have ended it, *)
(* or has been at all of them.                                             *)
Passed(image, n) == \A k \in 1..n: image.chain[k].id \notin {VendorSpecific, ChainBroken}
OnTheWay(image, offset, seen) ==
  \/ \E k \in DOMAIN image.chain: /\ offset = 64 * k /\ Passed(image, k - 1)
                                  /\ \A before \in seen: before < offset
  \/ (\E k \in 0..3: offset = 64 * k) /\ Passed(image, Len(image.chain))
Walking ==
  pc = "walk" =>
    /\ dev <= Len(devices) /\ Device.size >= 256 /\ Listed(Device)
    /\ IF Device.alive THEN OnTheWay(Device, pos, visited) ELSE pos = 255 /\ visited = {}

(* The walk over the records is at one of them or at their end, and has    *)
(* not passed the version.                                                 *)
Meant(k) == CapabilityOf(slots[vgpus[k].pci])
RecordAt(capability, i) ==
  RecordStart + Len(FlattenSeq([j \in 1..(i - 1) |-> Encoded(capability.records[j])]))
AtRecord(capability, offset) ==
  \E i \in 1..(Len(capability.records) + 1):
    /\ offset = RecordAt(capability, i)
    /\ \A j \in 1..(i - 1): capability.records[j].id # 0
Reporting ==
  /\ pc \in {"list", "read", "scan", "walk"} => labels = NoLabels
  /\ pc \in {"info", "record"} => \A k \in 1..(dev - 1): IsComplete(Meant(k))
  /\ pc = "info" => /\ dev <= Len(vgpus) + 1
                    /\ IF dev = 1 THEN labels = NoLabels ELSE Says(Meant(dev - 1))
  /\ pc = "record" => /\ dev <= Len(vgpus) /\ labels.present
                      /\ AtRecord(Meant(dev), pos)

IInv == TypeOK /\ Reading /\ Scanning /\ Walking /\ Reporting /\ Outcome

-----------------------------------------------------------------------------
(* Numbers.                                                                *)

(* A nonempty set of naturals has a least element. *)
LEMMA Least ==
  ASSUME NEW S \in SUBSET Nat, S # {}
  PROVE  \E x \in S: \A y \in S: x <= y
<1> DEFINE R == OpToRel(<, Nat)
<1>1. \E x \in S: \A y \in S: ~ (<<y, x>> \in R)
  BY NatLessThanWellFounded, WFMin, Zenon
<1>2. \A x, y \in Nat: <<y, x>> \in R <=> y < x
  BY DEF OpToRel
<1> HIDE DEF R
<1>3. PICK x \in S: \A y \in S: ~ (<<y, x>> \in R)
  BY <1>1
<1>4. \A y \in S: ~ (y < x)
  BY <1>2, <1>3
<1>5. QED BY <1>4

(* The minimum that is known to be one. *)
LEMMA MinIs ==
  ASSUME NEW S \in SUBSET Nat, NEW x \in S, \A y \in S: x <= y
  PROVE  Min(S) = x
<1>1. Min(S) \in S /\ \A y \in S: Min(S) <= y
  BY DEF Min
<1>2. Min(S) <= x /\ x <= Min(S) /\ Min(S) \in Nat /\ x \in Nat
  BY <1>1
<1> HIDE DEF Min
<1>3. QED BY <1>1, <1>2

(* The maximum that is known to be one. *)
LEMMA MaxIs ==
  ASSUME NEW S \in SUBSET Nat, NEW x \in S, \A y \in S: y <= x
  PROVE  Max(S) = x
<1>1. Max(S) \in S /\ \A y \in S: y <= Max(S)
  <2>1. \E z \in S: \A y \in S: z >= y
    OBVIOUS
  <2>2. Max(S) \in S /\ \A y \in S: Max(S) >= y
    BY <2>1 DEF Max
  <2>3. QED BY <2>2
<1>2. Max(S) <= x /\ x <= Max(S) /\ Max(S) \in Nat /\ x \in Nat
  BY <1>1
<1>3. QED BY <1>1, <1>2

(* The minimum of a set that has one. *)
LEMMA MinOf ==
  ASSUME NEW S \in SUBSET Nat, S # {}
  PROVE  Min(S) \in S /\ \A y \in S: Min(S) <= y
  BY Least DEF Min

(* The greatest element of a bounded set is as far below the bound as the  *)
(* least of the distances is.                                              *)
LEMMA MaxOf ==
  ASSUME NEW n \in Nat, NEW S \in SUBSET (0..n), S # {}
  PROVE  Max(S) \in S /\ \A y \in S: y <= Max(S)
<1> DEFINE D == {n - x: x \in S}
<1>1. D \in SUBSET Nat
  OBVIOUS
<1>2. \A x \in S: n - x \in D
  OBVIOUS
<1>3. \A d \in D: \E x \in S: d = n - x
  OBVIOUS
<1> HIDE DEF D
<1>4. PICK d \in D: \A e \in D: d <= e
  <2>1. D # {}
    BY <1>2
  <2>2. QED BY <1>1, <2>1, Least
<1>5. PICK x \in S: d = n - x
  BY <1>3
<1>6. \A y \in S: y <= x
  BY <1>2, <1>4, <1>5
<1>7. QED BY <1>6, MaxIs

-----------------------------------------------------------------------------
(* FlattenSeq is a recursive function: it exists, and what it is up to an  *)
(* index depends on the sequence up to that index only.                    *)
IsFlat(f, s, n) == f = [i \in 1..n |-> IF i = 1 THEN s[i] ELSE f[i - 1] \o s[i]]

(* The function exists. *)
LEMMA FlatExists ==
  ASSUME NEW s, NEW n \in Nat
  PROVE  \E f: IsFlat(f, s, n)
<1> DEFINE Bad == {m \in Nat: ~ \E f: IsFlat(f, s, m)}
<1>1. SUFFICES Bad = {}
  OBVIOUS
<1>2. SUFFICES ASSUME Bad # {} PROVE FALSE
  OBVIOUS
<1>3. PICK m \in Bad: \A k \in Bad: m <= k
  BY <1>2, Least
<1>4. m \in Nat /\ ~ \E f: IsFlat(f, s, m)
  OBVIOUS
<1>5. CASE m = 0
  <2> DEFINE f == [i \in 1..0 |-> <<>>]
  <2>1. IsFlat(f, s, 0)
    BY DEF IsFlat
  <2>2. QED BY <1>4, <1>5, <2>1
<1>6. CASE m # 0
  <2>1. m - 1 \in Nat /\ m - 1 \notin Bad
    BY <1>3, <1>4, <1>6
  <2>2. PICK g: IsFlat(g, s, m - 1)
    BY <2>1
  <2> HIDE DEF Bad
  <2> DEFINE f == [i \in 1..m |-> IF i < m THEN g[i] ELSE IF m = 1 THEN s[1]
                                  ELSE g[m - 1] \o s[m]]
  <2>3. \A i \in 1..(m - 1): g[i] = IF i = 1 THEN s[i] ELSE g[i - 1] \o s[i]
    BY <1>4, <2>2 DEF IsFlat
  <2>4. ASSUME NEW i \in 1..m
        PROVE  f[i] = IF i = 1 THEN s[i] ELSE f[i - 1] \o s[i]
    <3>1. CASE i < m
      BY <1>4, <2>3, <3>1
    <3>2. CASE i = m
      BY <1>4, <3>2
    <3>3. QED BY <1>4, <3>1, <3>2
  <2>5. f = [i \in 1..m |-> f[i]]
    OBVIOUS
  <2> HIDE DEF f
  <2>6. f = [i \in 1..m |-> IF i = 1 THEN s[i] ELSE f[i - 1] \o s[i]]
    BY <2>4, <2>5
  <2>7. QED BY <1>4, <2>6 DEF IsFlat
<1>7. QED BY <1>5, <1>6

(* The values of that function. *)
LEMMA FlatAt ==
  ASSUME NEW f, NEW s, NEW n, IsFlat(f, s, n)
  PROVE  \A i \in 1..n: f[i] = IF i = 1 THEN s[i] ELSE f[i - 1] \o s[i]
<1> DEFINE rest(h, j) == IF j = 1 THEN s[j] ELSE h[j - 1] \o s[j]
<1>1. f = [j \in 1..n |-> rest(f, j)]
  BY DEF IsFlat
<1> HIDE DEF rest
<1>2. \A i \in 1..n: f[i] = rest(f, i)
  BY <1>1
<1>3. QED BY <1>2 DEF rest

(* The functions of two sequences that agree up to an index agree up to    *)
(* it.                                                                     *)
LEMMA FlatAgree ==
  ASSUME NEW n \in Nat, NEW m \in 0..n, NEW s, NEW t, \A i \in 1..m: s[i] = t[i],
         NEW f, NEW g, IsFlat(f, s, n), IsFlat(g, t, m)
  PROVE  \A i \in 1..m: f[i] = g[i]
<1> DEFINE Bad == {i \in 1..m: f[i] # g[i]}
<1>1. SUFFICES ASSUME Bad # {} PROVE FALSE
  OBVIOUS
<1>2. PICK i \in Bad: \A j \in Bad: i <= j
  <2>1. Bad \in SUBSET Nat
    OBVIOUS
  <2>2. QED BY <1>1, <2>1, Least
<1>3. /\ f[i] = IF i = 1 THEN s[i] ELSE f[i - 1] \o s[i]
      /\ g[i] = IF i = 1 THEN t[i] ELSE g[i - 1] \o t[i]
  <2>1. i \in 1..m /\ i \in 1..n
    OBVIOUS
  <2>2. QED BY <2>1, FlatAt
<1>4. CASE i = 1
  BY <1>3, <1>4
<1>5. CASE i # 1
  <2>1. i - 1 \in 1..m /\ i - 1 \notin Bad
    BY <1>2, <1>5
  <2>2. f[i - 1] = g[i - 1]
    BY <2>1
  <2>3. QED BY <1>3, <1>5, <2>2
<1>6. QED BY <1>4, <1>5

(* What FlattenSeq returns is the last value of that function. *)
LEMMA FlattenIsFlat ==
  ASSUME NEW s, Len(s) \in Nat \ {0}
  PROVE  \E f: IsFlat(f, s, Len(s)) /\ FlattenSeq(s) = f[Len(s)]
<1> DEFINE f == CHOOSE f: IsFlat(f, s, Len(s))
<1>1. IsFlat(f, s, Len(s))
  BY FlatExists
<1>2. FlattenSeq(s) = f[Len(s)]
  BY DEF FlattenSeq, IsFlat
<1>3. QED BY <1>1, <1>2

Extends(s, t, m) == m \in Nat /\ m > 0 /\ \A i \in 1..m: s[i] = t[i]
FlatUpTo(f, s, n, g, t, m) ==
  n = m + 1 /\ Extends(s, t, m) /\ IsFlat(f, s, n) /\ IsFlat(g, t, m)

Joined(a, b) == a \o b

(* One more sequence is joined to those before it. *)
LEMMA FlatLast ==
  ASSUME NEW f, NEW s, NEW n, NEW g, NEW t, NEW m, FlatUpTo(f, s, n, g, t, m)
  PROVE  f[n] = Joined(g[m], s[n])
<1>1. /\ n \in 1..n /\ m \in 1..m /\ m \in 0..n /\ n # 1 /\ n - 1 = m
      /\ n \in Nat /\ IsFlat(f, s, n) /\ IsFlat(g, t, m) /\ \A i \in 1..m: s[i] = t[i]
  BY DEF Extends, FlatUpTo
<1>2. f[n] = IF n = 1 THEN s[n] ELSE f[n - 1] \o s[n]
  <2>1. \A i \in 1..n: f[i] = IF i = 1 THEN s[i] ELSE f[i - 1] \o s[i]
    BY <1>1, FlatAt
  <2>2. QED BY <1>1, <2>1
<1>3. \A i \in 1..m: f[i] = g[i]
  BY <1>1, FlatAgree
<1>4. QED BY <1>1, <1>2, <1>3 DEF Joined

Longer(s, n, t, m) == n = m + 1 /\ Extends(s, t, m) /\ Len(s) = n /\ Len(t) = m

(* FlattenSeq of a sequence, from that of the one without its last         *)
(* element.                                                                *)
LEMMA FlattenLast ==
  ASSUME NEW s, NEW n, NEW t, NEW m, Longer(s, n, t, m)
  PROVE  FlattenSeq(s) = Joined(FlattenSeq(t), s[n])
<1>1. Len(s) \in Nat \ {0} /\ Len(t) \in Nat \ {0} /\ n = Len(s) /\ m = Len(t)
  BY DEF Longer, Extends
<1>2. PICK f: IsFlat(f, s, n) /\ FlattenSeq(s) = f[n]
  BY <1>1, FlattenIsFlat
<1>3. PICK g: IsFlat(g, t, m) /\ FlattenSeq(t) = g[m]
  BY <1>1, FlattenIsFlat
<1>4. FlatUpTo(f, s, n, g, t, m)
  BY <1>2, <1>3 DEF Longer, FlatUpTo
<1>5. QED BY <1>2, <1>3, <1>4, FlatLast

(* FlattenSeq appends the last sequence to the others. *)
LEMMA FlattenStep ==
  ASSUME NEW T, NEW s \in Seq(Seq(T)), NEW m \in Nat, Len(s) = m + 1
  PROVE  FlattenSeq(s) = Joined(FlattenSeq([i \in 1..m |-> s[i]]), s[m + 1])
<1> DEFINE front == [i \in 1..m |-> s[i]]
<1>1. PICK n \in Nat: n = m + 1
  OBVIOUS
<1>2. Len(front) = m /\ \A i \in 1..m: s[i] = front[i]
  OBVIOUS
<1>3. s[n] \in Seq(T)
  BY <1>1
<1> HIDE DEF front
<1>4. CASE m = 0
  <2>1. FlattenSeq(s) = s[n]
    <3>1. PICK f: IsFlat(f, s, n) /\ FlattenSeq(s) = f[n]
      BY <1>1, FlattenIsFlat
    <3>2. \A i \in 1..n: f[i] = IF i = 1 THEN s[i] ELSE f[i - 1] \o s[i]
      BY <3>1, FlatAt
    <3>3. QED BY <1>1, <1>4, <3>1, <3>2
  <2>2. FlattenSeq(front) = <<>>
    BY <1>4 DEF FlattenSeq, front
  <2>3. <<>> \o s[n] = s[n]
    BY <1>3
  <2>4. QED BY <1>1, <2>1, <2>2, <2>3 DEF front, Joined
<1>5. CASE m > 0
  <2>1. FlattenSeq(s) = Joined(FlattenSeq(front), s[n])
    <3>1. Longer(s, n, front, m)
      BY <1>1, <1>2, <1>5 DEF Longer, Extends
    <3>2. QED BY <3>1, FlattenLast
  <2>2. QED BY <1>1, <2>1 DEF front
<1>6. QED BY <1>4, <1>5

IsJoined(T, g, a, b) ==
  /\ g \in Seq(T) /\ Len(g) = Len(a) + Len(b)
  /\ \A i \in 1..Len(a): g[i] = a[i]
  /\ \A i \in 1..Len(b): g[Len(a) + i] = b[i]
(* The elements of two sequences that are joined. *)
LEMMA JoinedIs ==
  ASSUME NEW T, NEW a \in Seq(T), NEW b \in Seq(T)
  PROVE  IsJoined(T, Joined(a, b), a, b)
  BY DEF Joined, IsJoined

(* The first i sequences, flattened. *)
Flat(s, i) == FlattenSeq([j \in 1..i |-> s[j]])

(* All of them. *)
LEMMA FlatAll ==
  ASSUME NEW T, NEW s \in Seq(T)
  PROVE  Flat(s, Len(s)) = FlattenSeq(s)
<1>1. [j \in 1..Len(s) |-> s[j]] = s
  OBVIOUS
<1>2. QED BY <1>1 DEF Flat

(* None of them. *)
LEMMA FlatNone == ASSUME NEW s PROVE Flat(s, 0) = <<>>
  BY DEF Flat, FlattenSeq

(* One more of them. *)
LEMMA FlatMore ==
  ASSUME NEW T, NEW s \in Seq(Seq(T)), NEW m \in Nat, m < Len(s)
  PROVE  Flat(s, m + 1) = Joined(Flat(s, m), s[m + 1])
<1> DEFINE t == [j \in 1..(m + 1) |-> s[j]]
<1>1. t \in Seq(Seq(T)) /\ Len(t) = m + 1 /\ t[m + 1] = s[m + 1]
  OBVIOUS
<1>2. [j \in 1..m |-> t[j]] = [j \in 1..m |-> s[j]]
  OBVIOUS
<1> HIDE DEF t
<1>3. FlattenSeq(t) = Joined(FlattenSeq([j \in 1..m |-> t[j]]), t[m + 1])
  BY <1>1, FlattenStep
<1>4. FlattenSeq(t) = Joined(Flat(s, m), s[m + 1])
  BY <1>1, <1>2, <1>3 DEF Flat
<1>5. QED BY <1>4 DEF Flat, t

(* A sequence is found in another one from an index on. *)
IsPart(g, k, x) == k + Len(x) <= Len(g) /\ \A j \in 1..Len(x): g[k + j] = x[j]

(* A part of a sequence stays one when others are joined to it. *)
LEMMA PartOfJoined ==
  ASSUME NEW T, NEW a \in Seq(T), NEW b \in Seq(T), NEW x \in Seq(T), NEW k \in Nat
  PROVE  /\ IsPart(Joined(a, b), Len(a), b)
         /\ IsPart(a, k, x) => IsPart(Joined(a, b), k, x)
<1> DEFINE g == Joined(a, b)
<1>1. /\ g \in Seq(T) /\ Len(g) = Len(a) + Len(b)
      /\ \A i \in 1..Len(a): g[i] = a[i]
      /\ \A i \in 1..Len(b): g[Len(a) + i] = b[i]
  BY DEF Joined
<1>2. Len(a) \in Nat /\ Len(b) \in Nat /\ Len(x) \in Nat
  OBVIOUS
<1> HIDE DEF g
<1>3. IsPart(g, Len(a), b)
  BY <1>1, <1>2 DEF IsPart
<1>4. ASSUME IsPart(a, k, x) PROVE IsPart(g, k, x)
  <2>1. k + Len(x) <= Len(a) /\ \A j \in 1..Len(x): a[k + j] = x[j]
    BY <1>4 DEF IsPart
  <2>2. k + Len(x) <= Len(g)
    BY <1>1, <1>2, <2>1
  <2>3. ASSUME NEW j \in 1..Len(x) PROVE g[k + j] = x[j]
    <3>1. k + j \in 1..Len(a)
      BY <1>2, <2>1
    <3>2. QED BY <1>1, <2>1, <3>1
  <2>4. QED BY <2>2, <2>3 DEF IsPart
<1>5. QED BY <1>3, <1>4 DEF g

(* Bytes of records, one after another. *)
IsLaidOut(T, s, m) ==
  /\ Flat(s, m) \in Seq(T)
  /\ \A i \in 1..m: /\ Flat(s, i - 1) \in Seq(T)
                    /\ IsPart(Flat(s, m), Len(Flat(s, i - 1)), s[i])

(* One more record goes behind the others. *)
LEMMA LaidOutMore ==
  ASSUME NEW T, NEW s \in Seq(Seq(T)), NEW m \in Nat, m < Len(s), IsLaidOut(T, s, m)
  PROVE  IsLaidOut(T, s, m + 1)
<1>1. PICK f, g, r: f = Flat(s, m) /\ g = Flat(s, m + 1) /\ r = s[m + 1]
  OBVIOUS
<1>2. f \in Seq(T)
  BY <1>1 DEF IsLaidOut
<1>3. r \in Seq(T)
  BY <1>1
<1>4. g = Joined(f, r)
  BY <1>1, FlatMore
<1>5. g \in Seq(T)
  BY <1>2, <1>3, <1>4, JoinedIs DEF IsJoined
<1>6. ASSUME NEW i \in 1..(m + 1)
      PROVE  Flat(s, i - 1) \in Seq(T) /\ IsPart(g, Len(Flat(s, i - 1)), s[i])
  <2>1. CASE i = m + 1
    <3>1. Flat(s, i - 1) = f /\ s[i] = r
      BY <1>1, <2>1
    <3>2. QED BY <1>2, <1>3, <1>4, <3>1, PartOfJoined
  <2>2. CASE i \in 1..m
    <3>1. Flat(s, i - 1) \in Seq(T) /\ IsPart(f, Len(Flat(s, i - 1)), s[i])
      BY <1>1, <2>2 DEF IsLaidOut
    <3>2. s[i] \in Seq(T)
      BY <2>2
    <3>3. PICK k \in Nat: k = Len(Flat(s, i - 1))
      BY <3>1
    <3>4. IsPart(g, k, s[i])
      BY <1>2, <1>3, <1>4, <3>1, <3>2, <3>3, PartOfJoined
    <3>5. QED BY <3>1, <3>3, <3>4
  <2>3. i = m + 1 \/ i \in 1..m
    OBVIOUS
  <2>4. QED BY <2>1, <2>2, <2>3
<1>7. QED BY <1>1, <1>5, <1>6 DEF IsLaidOut

(* So do all of them. *)
LEMMA LaidOut ==
  ASSUME NEW T, NEW s \in Seq(Seq(T)), NEW n \in 0..Len(s)
  PROVE  IsLaidOut(T, s, n)
<1> DEFINE Bad == {m \in 0..Len(s): ~IsLaidOut(T, s, m)}
<1>1. SUFFICES ASSUME Bad # {} PROVE FALSE
  OBVIOUS
<1>2. PICK m \in Bad: \A k \in Bad: m <= k
  <2>1. Bad \in SUBSET Nat
    OBVIOUS
  <2>2. QED BY <1>1, <2>1, Least
<1>3. m \in 0..Len(s) /\ ~IsLaidOut(T, s, m)
  OBVIOUS
<1>4. CASE m = 0
  <2>1. <<>> \in Seq(T) /\ Flat(s, 0) = <<>>
    BY FlatNone
  <2>2. IsLaidOut(T, s, 0)
    <3>1. \A i \in 1..0: FALSE
      OBVIOUS
    <3>2. QED BY <2>1, <3>1 DEF IsLaidOut
  <2>3. QED BY <1>3, <1>4, <2>2
<1>5. CASE m # 0
  <2>1. PICK k \in Nat: m = k + 1 /\ k < Len(s)
    <3>1. m - 1 \in Nat /\ m = (m - 1) + 1 /\ m - 1 < Len(s)
      BY <1>3, <1>5
    <3>2. QED BY <3>1
  <2>2. k \notin Bad /\ k \in 0..Len(s)
    BY <1>2, <2>1
  <2>3. IsLaidOut(T, s, k)
    BY <2>2
  <2> HIDE DEF Bad
  <2>4. IsLaidOut(T, s, k + 1)
    BY <2>1, <2>3, LaidOutMore
  <2>5. QED BY <1>3, <2>1, <2>4
<1>6. QED BY <1>4, <1>5

RecordsOf(c) == [i \in DOMAIN c.records |-> Encoded(c.records[i])]

(* The numbers that are bytes. *)
LEMMA IsByte == ASSUME NEW n \in Nat, n <= 255 PROVE n \in Bytes
  BY DEF Bytes
(* Bytes are numbers. *)
LEMMA ByteIs == ASSUME NEW n \in Bytes PROVE n \in Nat /\ n <= 255
  BY DEF Bytes

(* Sequences of bytes are sequences of numbers. *)
LEMMA NatSequence == ASSUME NEW s \in Seq(Bytes) PROVE s \in Seq(Nat)
<1>1. \A i \in 1..Len(s): s[i] \in Nat
  BY ByteIs
<1>2. QED BY <1>1

(* The fields of a device's description. *)
LEMMA ImageFacts ==
  ASSUME NEW image \in Images
  PROVE  /\ image.nvidia \in BOOLEAN /\ image.size \in {64, 256, 4096}
         /\ image.alive \in BOOLEAN /\ image.listed \in BOOLEAN /\ image.back \in 0..3
         /\ image.chain \in Seq(CapabilityType) /\ Len(image.chain) <= 3
  BY ConstantsAssumption DEF ImageType

(* The fields of a capability's description. *)
LEMMA CapabilityFacts ==
  ASSUME NEW c \in CapabilityType
  PROVE  /\ c.id \in Bytes /\ c.signed \in BOOLEAN /\ c.pad \in Nat
         /\ c.records \in Seq(RecordType) /\ Len(Body(c)) <= 62
  BY DEF CapabilityType

(* A record in bytes. *)
LEMMA EncodedFacts ==
  ASSUME NEW r \in RecordType
  PROVE  /\ r.id \in Bytes /\ r.data \in Seq(Bytes)
         /\ Encoded(r) \in Seq(Bytes) /\ Len(Encoded(r)) = 2 + Len(r.data)
         /\ Encoded(r)[1] = r.id /\ Encoded(r)[2] = 2 + Len(r.data)
         /\ \A i \in 1..Len(r.data): Encoded(r)[2 + i] = r.data[i]
<1>1. r.id \in Bytes /\ r.data \in Seq(Bytes) /\ Len(r.data) <= 253
  BY DEF RecordType
<1> DEFINE head == <<r.id, 2 + Len(r.data)>>
<1>2. 2 + Len(r.data) \in Bytes
  BY <1>1, IsByte
<1>3. head \in Seq(Bytes) /\ Len(head) = 2 /\ head[1] = r.id /\ head[2] = 2 + Len(r.data)
  BY <1>1, <1>2
<1>4. Encoded(r) = Joined(head, r.data)
  BY DEF Encoded, Joined
<1> HIDE DEF head
<1>5. IsJoined(Bytes, Encoded(r), head, r.data)
  BY <1>1, <1>3, <1>4, JoinedIs
<1>6. QED BY <1>1, <1>3, <1>5 DEF IsJoined

(* The records of a capability in bytes. *)
LEMMA RecordsOfFacts ==
  ASSUME NEW c \in CapabilityType
  PROVE  /\ RecordsOf(c) \in Seq(Seq(Bytes)) /\ Len(RecordsOf(c)) = Len(c.records)
         /\ FlattenSeq(RecordsOf(c)) \in Seq(Bytes)
<1>1. c.records \in Seq(RecordType)
  BY CapabilityFacts
<1>2. \A i \in 1..Len(c.records): Encoded(c.records[i]) \in Seq(Bytes)
  BY <1>1, EncodedFacts
<1>3. RecordsOf(c) \in Seq(Seq(Bytes)) /\ Len(RecordsOf(c)) = Len(c.records)
  <2>1. Len(c.records) \in Nat /\ DOMAIN c.records = 1..Len(c.records)
    BY <1>1
  <2>2. RecordsOf(c) = [i \in 1..Len(c.records) |-> Encoded(c.records[i])]
    BY <2>1 DEF RecordsOf
  <2>3. QED BY <1>2, <2>1, <2>2
<1>4. PICK s \in Seq(Seq(Bytes)): s = RecordsOf(c)
  BY <1>3
<1>5. Len(s) \in 0..Len(s)
  OBVIOUS
<1>6. IsLaidOut(Bytes, s, Len(s))
  BY <1>5, LaidOut
<1>7. Flat(s, Len(s)) = FlattenSeq(s)
  BY FlatAll
<1>8. QED BY <1>3, <1>4, <1>6, <1>7 DEF IsLaidOut

(* Zero bytes are a sequence. *)
LEMMA ZeroBytes ==
  ASSUME NEW n \in Nat, NEW z, z = [i \in 1..n |-> 0]
  PROVE  z \in Seq(Bytes) /\ Len(z) = n /\ \A i \in 1..n: z[i] = 0
<1>1. 0 \in Bytes
  BY DEF Bytes
<1>2. QED BY <1>1

IsBody(b, f, c) ==
  /\ b \in Seq(Bytes) /\ f \in Seq(Bytes)
  /\ Len(b) = 3 + Len(f) + c.pad /\ Len(b) <= 62 /\ b[1] = 2 + Len(b)
  /\ c.signed <=> b[2] = Signature[1] /\ b[3] = Signature[2]
  /\ \A i \in 1..Len(f): b[3 + i] = f[i]
  /\ \A i \in 1..c.pad: b[3 + Len(f) + i] = 0

(* The bytes of a capability: its length, the signature, its records, and  *)
(* zero bytes.                                                             *)
LEMMA BodyFacts ==
  ASSUME NEW c \in CapabilityType, NEW f, f = FlattenSeq(RecordsOf(c)),
         NEW b, b = Body(c)
  PROVE  IsBody(b, f, c)
<1> DEFINE sig == IF c.signed THEN Signature ELSE <<0, 0>>
<1> DEFINE zeros == [i \in 1..c.pad |-> 0]
<1>1. f \in Seq(Bytes) /\ c.pad \in Nat /\ c.signed \in BOOLEAN /\ Len(b) <= 62
  BY CapabilityFacts, RecordsOfFacts
<1>2. /\ sig \in Seq(Bytes) /\ Len(sig) = 2
      /\ c.signed <=> sig[1] = Signature[1] /\ sig[2] = Signature[2]
  <2>1. 86 \in Bytes /\ 70 \in Bytes /\ 0 \in Bytes
    BY DEF Bytes
  <2>2. CASE c.signed
    <3>1. sig = <<86, 70>> /\ Signature = <<86, 70>>
      BY <2>2 DEF Signature
    <3> HIDE DEF sig
    <3>2. QED BY <2>1, <2>2, <3>1
  <2>3. CASE ~c.signed
    <3>1. sig = <<0, 0>> /\ Signature = <<86, 70>>
      BY <2>3 DEF Signature
    <3> HIDE DEF sig
    <3>2. QED BY <2>1, <2>3, <3>1
  <2>4. QED BY <2>2, <2>3
<1>3. zeros \in Seq(Bytes) /\ Len(zeros) = c.pad /\ \A i \in 1..c.pad: zeros[i] = 0
  <2>1. PICK n \in Nat: n = c.pad
    BY <1>1
  <2>2. \E z: z = [i \in 1..n |-> 0] /\ z = zeros
    BY <2>1
  <2>3. QED BY <2>1, <2>2, ZeroBytes
<1>4. Contents(c) = (sig \o f) \o zeros
  BY DEF Contents, RecordsOf
<1> HIDE DEF sig, zeros
<1>5. PICK g, h: g = Joined(sig, f) /\ h = Joined(g, zeros)
  OBVIOUS
<1>6. IsJoined(Bytes, g, sig, f)
  BY <1>1, <1>2, <1>5, JoinedIs
<1>7. g \in Seq(Bytes) /\ Len(g) = 2 + Len(f) /\ g[1] = sig[1] /\ g[2] = sig[2]
      /\ \A i \in 1..Len(f): g[2 + i] = f[i]
  BY <1>2, <1>6 DEF IsJoined
<1>8. /\ h \in Seq(Bytes) /\ Len(h) = 2 + Len(f) + c.pad
      /\ \A i \in 1..(2 + Len(f)): h[i] = g[i]
      /\ \A i \in 1..c.pad: h[2 + Len(f) + i] = 0
  <2>1. IsJoined(Bytes, h, g, zeros)
    BY <1>3, <1>5, <1>7, JoinedIs
  <2>2. QED BY <1>3, <1>7, <2>1 DEF IsJoined
<1>9. PICK e: e = <<3 + Len(h)>>
  OBVIOUS
<1>10. b = Joined(e, h)
  BY <1>4, <1>5, <1>9 DEF Body, Joined
<1>11. Len(e) = 1 /\ e[1] = 3 + Len(h) /\ Len(h) \in Nat
  BY <1>8, <1>9
<1>12. Len(b) = 1 + Len(h) /\ 3 + Len(h) \in Bytes
  <2>1. e \in Seq(Nat) /\ h \in Seq(Nat)
    BY <1>8, <1>9, <1>11, NatSequence
  <2>2. IsJoined(Nat, b, e, h)
    BY <1>10, <2>1, JoinedIs
  <2>3. Len(b) = 1 + Len(h)
    BY <1>11, <2>2 DEF IsJoined
  <2>4. 3 + Len(h) \in Nat /\ 3 + Len(h) <= 255
    BY <1>1, <1>11, <2>3
  <2>5. QED BY <2>3, <2>4, IsByte
<1>13. /\ b \in Seq(Bytes) /\ b[1] = 3 + Len(h) /\ \A i \in 1..Len(h): b[1 + i] = h[i]
  <2>1. e \in Seq(Bytes)
    BY <1>9, <1>12
  <2>2. IsJoined(Bytes, b, e, h)
    BY <1>8, <1>10, <2>1, JoinedIs
  <2>3. QED BY <1>11, <2>2 DEF IsJoined
<1>14. Len(f) \in Nat
  BY <1>1
<1>15. b[2] = sig[1] /\ b[3] = sig[2]
  <2>1. 1 \in 1..Len(h) /\ 2 \in 1..Len(h) /\ 1 \in 1..(2 + Len(f)) /\ 2 \in 1..(2 + Len(f))
    BY <1>1, <1>8, <1>14
  <2>2. b[1 + 1] = h[1] /\ b[1 + 2] = h[2]
    BY <1>13, <2>1
  <2>3. h[1] = sig[1] /\ h[2] = sig[2]
    BY <1>7, <1>8, <2>1
  <2>4. QED BY <2>2, <2>3
<1>16. ASSUME NEW i \in 1..Len(f) PROVE b[3 + i] = f[i]
  <2>1. 2 + i \in 1..(2 + Len(f)) /\ 2 + i \in 1..Len(h) /\ 1 + (2 + i) = 3 + i
    BY <1>1, <1>8, <1>14
  <2>2. b[1 + (2 + i)] = h[2 + i] /\ h[2 + i] = g[2 + i]
    BY <1>8, <1>13, <2>1
  <2>3. QED BY <1>7, <2>2
<1>17. ASSUME NEW i \in 1..c.pad PROVE b[3 + Len(f) + i] = 0
  <2>1. 2 + Len(f) + i \in 1..Len(h) /\ 1 + (2 + Len(f) + i) = 3 + Len(f) + i
    BY <1>1, <1>8, <1>14
  <2>2. b[1 + (2 + Len(f) + i)] = h[2 + Len(f) + i]
    BY <1>13, <2>1
  <2>3. QED BY <1>8, <2>1, <2>2
<1>18. b[2] = Signature[1] /\ b[3] = Signature[2] <=> c.signed
  BY <1>2, <1>15
<1>19. Len(b) = 3 + Len(f) + c.pad
  <2>1. Len(b) = 1 + Len(h) /\ Len(h) = 2 + Len(f) + c.pad
    BY <1>8, <1>12, Zenon
  <2>2. QED BY <1>1, <1>14, <2>1
<1>20. b[1] = 2 + Len(b)
  <2>1. Len(b) = 1 + Len(h) /\ b[1] = 3 + Len(h)
    BY <1>12, <1>13, Zenon
  <2>2. QED BY <1>11, <2>1
<1>21. QED BY <1>1, <1>13, <1>16, <1>17, <1>18, <1>19, <1>20, Zenon DEF IsBody

(* The same of the capability itself. *)
LEMMA BodyIs ==
  ASSUME NEW c \in CapabilityType
  PROVE  IsBody(Body(c), FlattenSeq(RecordsOf(c)), c)
<1>1. PICK b, f: b = Body(c) /\ f = FlattenSeq(RecordsOf(c))
  OBVIOUS
<1>2. IsBody(b, f, c)
  BY <1>1, BodyFacts
<1>3. QED BY <1>1, <1>2

-----------------------------------------------------------------------------
(* What is read of a configuration space.                                  *)

(* A capability is linked to the next one; the last one to any, or to      *)
(* none.                                                                   *)
LEMMA PointerFacts ==
  ASSUME NEW image \in Images, NEW k \in DOMAIN image.chain
  PROVE  \E n \in 0..3: /\ Pointer(image, k) = 64 * n
                        /\ k < Len(image.chain) => n = k + 1
<1>1. PICK chain, n, back: chain = image.chain /\ n = Len(chain) /\ back = image.back
  OBVIOUS
<1>2. chain \in Seq(CapabilityType) /\ n <= 3 /\ back \in 0..3
  BY <1>1, ImageFacts
<1>3. n \in 0..3 /\ k \in 1..n
  <2>1. DOMAIN chain = 1..n /\ n \in Nat
    BY <1>1, <1>2
  <2>2. k \in DOMAIN chain
    BY <1>1
  <2>3. QED BY <1>2, <2>1, <2>2
<1>4. Pointer(image, k) = 64 * IF k < n THEN k + 1 ELSE back
  BY <1>1 DEF Pointer
<1>5. CASE k < n
  <2>1. k + 1 \in 0..3 /\ Pointer(image, k) = 64 * (k + 1)
    BY <1>3, <1>4, <1>5
  <2>2. QED BY <2>1
<1>6. CASE ~(k < n)
  BY <1>1, <1>2, <1>3, <1>4, <1>6
<1>7. QED BY <1>5, <1>6

(* Only bytes are read. *)
LEMMA ByteAtIsByte ==
  ASSUME NEW image \in Images, NEW i \in Nat
  PROVE  ByteAt(image, i) \in Bytes
<1> DEFINE k == i \div 64
<1> DEFINE j == i % 64
<1> DEFINE c == image.chain[k]
<1>1. k \in Nat /\ j \in 0..63
  OBVIOUS
<1>2. 0 \in Bytes /\ 64 \in Bytes /\ 255 \in Bytes
  BY IsByte
<1>3. ASSUME k \in DOMAIN image.chain
      PROVE  /\ c.id \in Bytes /\ Pointer(image, k) \in Bytes
             /\ j - 1 \in DOMAIN Body(c) => Body(c)[j - 1] \in Bytes
  <2>1. c \in CapabilityType
    BY <1>3, ImageFacts
  <2>2. c.id \in Bytes
    BY <2>1, CapabilityFacts
  <2>3. Pointer(image, k) \in Bytes
    <3>1. PICK n \in 0..3: Pointer(image, k) = 64 * n
      BY <1>3, PointerFacts
    <3>2. 64 * n \in Nat /\ 64 * n <= 255
      OBVIOUS
    <3>3. QED BY <3>1, <3>2, IsByte
  <2>4. Body(c) \in Seq(Bytes)
    BY <2>1, BodyIs DEF IsBody
  <2>5. QED BY <2>2, <2>3, <2>4
<1> HIDE DEF k, j, c
<1>4. ByteAt(image, i) =
        IF i >= image.size THEN 0
        ELSE IF ~image.alive THEN 255
        ELSE IF i = PciCapabilityList THEN IF image.chain = <<>> THEN 0 ELSE 64
        ELSE IF k \notin DOMAIN image.chain THEN 0
        ELSE IF j = 0 THEN c.id
        ELSE IF j = 1 THEN Pointer(image, k)
        ELSE IF c.id = VendorSpecific /\ j - 1 \in DOMAIN Body(c) THEN Body(c)[j - 1] ELSE 0
  BY DEF ByteAt, k, j, c
<1>5. QED BY <1>2, <1>3, <1>4

Readable(image) == image \in Images /\ image.alive /\ image.size >= 256

(* The bytes of a capability in the chain. *)
LEMMA ByteInCapability ==
  ASSUME NEW image, Readable(image), NEW k \in DOMAIN image.chain, NEW j \in 0..63
  PROVE  ByteAt(image, 64 * k + j) =
           LET c == image.chain[k]
           IN IF j = 0 THEN c.id
              ELSE IF j = 1 THEN Pointer(image, k)
              ELSE IF c.id = VendorSpecific /\ j - 1 \in DOMAIN Body(c)
                   THEN Body(c)[j - 1] ELSE 0
<1>1. k \in 1..3
  BY ImageFacts DEF Readable
<1>2. image.size \in {256, 4096} /\ image.alive
  BY ImageFacts DEF Readable
<1>3. /\ (64 * k + j) \div 64 = k /\ (64 * k + j) % 64 = j
      /\ 64 * k + j < 256 /\ 64 * k + j # PciCapabilityList
  BY <1>1 DEF PciCapabilityList
<1>4. ~(64 * k + j >= image.size)
  <2>1. PICK m \in Nat: m = 64 * k + j
    BY <1>1
  <2>2. m < 256
    BY <1>3, <2>1
  <2>3. ~(m >= image.size)
    BY <1>2, <2>2
  <2>4. QED BY <2>1, <2>3
<1>5. QED BY <1>2, <1>3, <1>4 DEF ByteAt

(* There are none where no capability is. *)
LEMMA ByteOutside ==
  ASSUME NEW image, Readable(image), NEW k \in 0..3, k \notin DOMAIN image.chain, NEW j \in 0..1
  PROVE  ByteAt(image, 64 * k + j) = 0
<1>1. image.size \in {256, 4096} /\ image.alive
  BY ImageFacts DEF Readable
<1>2. /\ (64 * k + j) \div 64 = k
      /\ 64 * k + j < 256 /\ 64 * k + j # PciCapabilityList
  BY DEF PciCapabilityList
<1>3. ~(64 * k + j >= image.size)
  BY <1>1, <1>2
<1>4. QED BY <1>1, <1>2, <1>3 DEF ByteAt

(* The start of the chain. *)
LEMMA ByteAtList ==
  ASSUME NEW image, Readable(image)
  PROVE  ByteAt(image, PciCapabilityList) = IF image.chain = <<>> THEN 0 ELSE 64
<1>1. image.size \in {256, 4096} /\ image.alive
  BY ImageFacts DEF Readable
<1>2. ~(PciCapabilityList >= image.size)
  BY <1>1 DEF PciCapabilityList
<1>3. QED BY <1>1, <1>2 DEF ByteAt

(* A device that no longer answers. *)
LEMMA ByteOfDead ==
  ASSUME NEW image \in Images, ~image.alive, NEW i \in Nat, i < image.size
  PROVE  ByteAt(image, i) = 255
<1>1. image.size \in Nat
  BY ImageFacts
<1>2. ~(i >= image.size)
  BY <1>1
<1>3. QED BY <1>2 DEF ByteAt

-----------------------------------------------------------------------------
(* What is read of the records of a capability.                            *)
LEMMA RecordAtIs ==
  ASSUME NEW c \in CapabilityType, NEW i \in 1..(Len(c.records) + 1)
  PROVE  RecordAt(c, i) = 5 + Len(Flat(RecordsOf(c), i - 1))
<1>1. c.records \in Seq(RecordType)
  BY CapabilityFacts
<1>2. [j \in 1..(i - 1) |-> Encoded(c.records[j])] = [j \in 1..(i - 1) |-> RecordsOf(c)[j]]
  BY <1>1 DEF RecordsOf
<1>3. QED BY <1>2 DEF RecordAt, RecordStart, Flat

(* The bytes of a capability that was read. *)
LEMMA CopyFacts ==
  ASSUME NEW c \in CapabilityType, NEW f, f = FlattenSeq(RecordsOf(c)),
         NEW bytes, IsCopy(bytes, c)
  PROVE  /\ f \in Seq(Bytes) /\ Len(bytes) = 5 + Len(f) + c.pad /\ Len(bytes) <= 64
         /\ \A i \in 1..Len(f): bytes[5 + i] = f[i]
         /\ \A i \in 1..c.pad: bytes[5 + Len(f) + i] = 0
<1>1. PICK b: b = Body(c)
  OBVIOUS
<1>2. /\ b \in Seq(Bytes) /\ f \in Seq(Bytes)
      /\ Len(b) = 3 + Len(f) + c.pad /\ Len(b) <= 62
      /\ \A i \in 1..Len(f): b[3 + i] = f[i]
      /\ \A i \in 1..c.pad: b[3 + Len(f) + i] = 0
  <2>1. IsBody(Body(c), FlattenSeq(RecordsOf(c)), c)
    BY BodyIs
  <2>2. IsBody(b, f, c)
    BY <1>1, <2>1
  <2>3. QED BY <2>2 DEF IsBody
<1>3. Len(bytes) = 2 + Len(b) /\ \A i \in 3..Len(bytes): bytes[i] = b[i - 2]
  BY <1>1 DEF IsCopy
<1>4. Len(f) \in Nat /\ c.pad \in Nat /\ Len(b) \in Nat
  BY <1>2, CapabilityFacts
<1>5. ASSUME NEW i \in 1..(Len(f) + c.pad) PROVE bytes[5 + i] = b[3 + i]
  <2>1. 5 + i \in 3..Len(bytes) /\ (5 + i) - 2 = 3 + i
    BY <1>2, <1>3, <1>4
  <2>2. QED BY <1>3, <2>1
<1>6. ASSUME NEW i \in 1..Len(f) PROVE bytes[5 + i] = f[i]
  BY <1>2, <1>4, <1>5
<1>7. ASSUME NEW i \in 1..c.pad PROVE bytes[5 + Len(f) + i] = 0
  <2>1. Len(f) + i \in 1..(Len(f) + c.pad) /\ 5 + (Len(f) + i) = 5 + Len(f) + i
        /\ 3 + (Len(f) + i) = 3 + Len(f) + i
    BY <1>4
  <2>2. bytes[5 + (Len(f) + i)] = b[3 + (Len(f) + i)]
    BY <1>5, <2>1
  <2>3. QED BY <1>2, <2>1, <2>2
<1>8. QED BY <1>2, <1>3, <1>4, <1>6, <1>7

(* Where the records end. *)
LEMMA RecordsEndAt ==
  ASSUME NEW c \in CapabilityType, NEW bytes, IsCopy(bytes, c),
         NEW p, p = RecordAt(c, Len(c.records) + 1)
  PROVE  /\ p \in Nat /\ 5 <= p /\ p + c.pad = Len(bytes) /\ Len(bytes) <= 64
         /\ \A i \in 1..c.pad: bytes[p + i] = 0
<1>1. PICK s: s = RecordsOf(c)
  OBVIOUS
<1>2. s \in Seq(Seq(Bytes)) /\ Len(s) = Len(c.records) /\ Flat(s, Len(s)) = FlattenSeq(s)
  BY <1>1, RecordsOfFacts, FlatAll
<1>3. PICK f: f = FlattenSeq(s)
  OBVIOUS
<1>4. Len(c.records) \in Nat
  BY CapabilityFacts
<1>5. p = 5 + Len(f)
  <2>1. Len(c.records) + 1 \in 1..(Len(c.records) + 1) /\ (Len(c.records) + 1) - 1 = Len(s)
    BY <1>2, <1>4
  <2>2. p = 5 + Len(Flat(s, (Len(c.records) + 1) - 1))
    BY <1>1, <2>1, RecordAtIs
  <2>3. QED BY <1>2, <1>3, <2>1, <2>2
<1>6. /\ f \in Seq(Bytes) /\ Len(bytes) = 5 + Len(f) + c.pad /\ Len(bytes) <= 64
      /\ \A i \in 1..c.pad: bytes[5 + Len(f) + i] = 0
  <2>1. f = FlattenSeq(RecordsOf(c))
    BY <1>1, <1>3
  <2>2. /\ f \in Seq(Bytes) /\ Len(bytes) = 5 + Len(f) + c.pad /\ Len(bytes) <= 64
        /\ \A i \in 1..Len(f): bytes[5 + i] = f[i]
        /\ \A i \in 1..c.pad: bytes[5 + Len(f) + i] = 0
    BY <2>1, CopyFacts
  <2>3. QED BY <2>2, Zenon
<1>7. Len(f) \in Nat /\ c.pad \in Nat
  BY <1>6, CapabilityFacts
<1>8. QED BY <1>5, <1>6, <1>7

(* The first record is where the walk starts. *)
LEMMA RecordAtFirst ==
  ASSUME NEW c \in CapabilityType
  PROVE  RecordAt(c, 1) = 5
<1>1. 1 \in 1..(Len(c.records) + 1)
  BY CapabilityFacts
<1>2. RecordAt(c, 1) = 5 + Len(Flat(RecordsOf(c), 0))
  BY <1>1, RecordAtIs
<1>3. QED BY <1>2, FlatNone

(* The bytes of a record. *)
IsRecord(c, bytes, p, i) ==
  \E r \in RecordType: \E d \in Nat:
    /\ r = c.records[i] /\ d = Len(r.data) /\ r.data \in Seq(Bytes) /\ r.id \in Nat
    /\ p \in Nat /\ p = RecordAt(c, i) /\ RecordAt(c, i + 1) = p + 2 + d
    /\ bytes[p + 1] = r.id /\ bytes[p + 2] = 2 + d
    /\ \A j \in 1..d: bytes[p + 2 + j] = r.data[j]
    /\ p + 2 + d + c.pad <= Len(bytes)
    /\ i = Len(c.records) => p + 2 + d + c.pad = Len(bytes)

(* They are those of its description. *)
LEMMA RecordBytes ==
  ASSUME NEW c \in CapabilityType, NEW bytes, IsCopy(bytes, c),
         NEW i \in 1..Len(c.records), NEW r, r = c.records[i], NEW p, p = RecordAt(c, i)
  PROVE  IsRecord(c, bytes, p, i)
<1>1. PICK s: s = RecordsOf(c)
  OBVIOUS
<1>2. s \in Seq(Seq(Bytes)) /\ Len(s) = Len(c.records) /\ Flat(s, Len(s)) = FlattenSeq(s)
  BY <1>1, RecordsOfFacts, FlatAll
<1>3. PICK f: f = FlattenSeq(s)
  OBVIOUS
<1>4. c.records \in Seq(RecordType) /\ c.pad \in Nat /\ Len(c.records) \in Nat
  BY CapabilityFacts
<1>5. r \in RecordType /\ s[i] = Encoded(r)
  BY <1>1, <1>4 DEF RecordsOf
<1>6. /\ f \in Seq(Bytes) /\ Len(bytes) = 5 + Len(f) + c.pad
      /\ \A j \in 1..Len(f): bytes[5 + j] = f[j]
  BY <1>1, <1>3, CopyFacts
<1>7. IsLaidOut(Bytes, s, Len(s))
  <2>1. Len(s) \in 0..Len(s)
    BY <1>2, <1>4
  <2>2. QED BY <1>2, <2>1, LaidOut
<1>8. PICK before: before = Flat(s, i - 1)
  OBVIOUS
<1>9. before \in Seq(Bytes) /\ IsPart(f, Len(before), s[i])
  BY <1>2, <1>3, <1>7, <1>8 DEF IsLaidOut
<1>10. p = 5 + Len(before) /\ Len(before) \in Nat
  <2>1. i \in 1..(Len(c.records) + 1)
    BY <1>4
  <2>2. QED BY <1>1, <1>8, <1>9, <2>1, RecordAtIs
<1>11. /\ Encoded(r) \in Seq(Bytes) /\ Len(Encoded(r)) = 2 + Len(r.data)
       /\ Encoded(r)[1] = r.id /\ Encoded(r)[2] = 2 + Len(r.data)
       /\ \A j \in 1..Len(r.data): Encoded(r)[2 + j] = r.data[j]
       /\ r.data \in Seq(Bytes)
  BY <1>5, EncodedFacts
<1>12. PICK k, d, n: k = Len(before) /\ d = Len(r.data) /\ n = Len(f)
  OBVIOUS
<1>13. k \in Nat /\ d \in Nat /\ n \in Nat /\ p = 5 + k /\ Len(bytes) = 5 + n + c.pad
  <2>1. n \in Nat /\ Len(bytes) = 5 + n + c.pad
    BY <1>6, <1>12
  <2>2. d \in Nat
    BY <1>11, <1>12
  <2>3. QED BY <1>10, <1>12, <2>1, <2>2
<1>14. k + 2 + d <= n /\ \A j \in 1..(2 + d): f[k + j] = Encoded(r)[j]
  <2>1. IsPart(f, k, Encoded(r)) /\ Len(Encoded(r)) = 2 + d
    BY <1>5, <1>9, <1>11, <1>12
  <2>2. k + (2 + d) <= n /\ \A j \in 1..(2 + d): f[k + j] = Encoded(r)[j]
    BY <1>12, <2>1 DEF IsPart
  <2>3. QED BY <1>13, <2>2
<1>15. ASSUME NEW j \in 1..(2 + d) PROVE bytes[p + j] = Encoded(r)[j]
  <2>1. k + j \in 1..n /\ 5 + (k + j) = p + j
    BY <1>13, <1>14
  <2>2. bytes[5 + (k + j)] = f[k + j]
    BY <1>6, <1>12, <2>1
  <2>3. QED BY <1>14, <2>1, <2>2
<1>16. bytes[p + 1] = r.id /\ bytes[p + 2] = 2 + d
  <2>1. 1 \in 1..(2 + d) /\ 2 \in 1..(2 + d)
    BY <1>13
  <2>2. bytes[p + 1] = Encoded(r)[1] /\ bytes[p + 2] = Encoded(r)[2]
    BY <1>15, <2>1
  <2>3. QED BY <1>11, <1>12, <2>2
<1>17. ASSUME NEW j \in 1..d PROVE bytes[p + 2 + j] = r.data[j]
  <2>1. 2 + j \in 1..(2 + d) /\ p + (2 + j) = p + 2 + j
    BY <1>13
  <2>2. bytes[p + (2 + j)] = Encoded(r)[2 + j]
    BY <1>15, <2>1
  <2>3. QED BY <1>11, <1>12, <2>1, <2>2
<1>18. RecordAt(c, i + 1) = p + 2 + d
  <2>1. i + 1 \in 1..(Len(c.records) + 1) /\ (i + 1) - 1 = i
    BY <1>4
  <2>2. RecordAt(c, i + 1) = 5 + Len(Flat(s, i))
    BY <1>1, <2>1, RecordAtIs
  <2>3. Flat(s, i) = Joined(before, s[i])
    <3>1. PICK m \in Nat: m + 1 = i /\ m < Len(s)
      <4>1. i - 1 \in Nat /\ (i - 1) + 1 = i /\ i - 1 < Len(s)
        BY <1>2, <1>4
      <4>2. QED BY <4>1
    <3>2. Flat(s, m + 1) = Joined(Flat(s, m), s[m + 1])
      BY <1>2, <3>1, FlatMore
    <3>3. Flat(s, m) = before
      <4>1. m = i - 1
        BY <3>1
      <4>2. QED BY <1>8, <4>1
    <3>4. QED BY <3>1, <3>2, <3>3
  <2>4. Len(Flat(s, i)) = Len(before) + Len(s[i])
    <3>1. IsJoined(Bytes, Joined(before, s[i]), before, s[i])
      BY <1>5, <1>9, <1>11, JoinedIs
    <3>2. QED BY <2>3, <3>1 DEF IsJoined
  <2>5. Len(s[i]) = 2 + d
    BY <1>5, <1>11, <1>12
  <2>6. Len(Flat(s, i)) = k + (2 + d)
    BY <1>12, <2>4, <2>5
  <2>7. QED BY <1>13, <2>2, <2>6
<1>19. p + 2 + d + c.pad <= Len(bytes)
  BY <1>4, <1>13, <1>14
<1>20. ASSUME i = Len(c.records) PROVE p + 2 + d + c.pad = Len(bytes)
  <2>1. RecordAt(c, i + 1) + c.pad = Len(bytes)
    BY <1>20, RecordsEndAt
  <2>2. QED BY <1>18, <2>1
<1>21. p \in Nat /\ 5 <= p
  BY <1>13
<1>22. r.id \in Nat
  BY <1>5, EncodedFacts, ByteIs
<1>23. r \in RecordType /\ d \in Nat /\ r = c.records[i] /\ d = Len(r.data)
       /\ r.data \in Seq(Bytes) /\ p = RecordAt(c, i)
  BY <1>5, <1>11, <1>12, <1>13
<1>24. QED
  BY <1>16, <1>17, <1>18, <1>19, <1>20, <1>21, <1>22, <1>23, Zenon DEF IsRecord

-----------------------------------------------------------------------------
(* Sequences of slots in the order of the bus.                             *)

(* Which slots are listed, and that they are in order. *)
LEMMA ListedSlots ==
  ASSUME NEW s \in Seq(1..N), NEW S, Lists(s, S)
  PROVE  /\ S \subseteq 1..N /\ Len(s) \in Nat /\ N \in Nat
         /\ \A k \in 1..Len(s): s[k] \in S /\ s[k] \in 1..N
         /\ \A i \in S: \E k \in 1..Len(s): s[k] = i
         /\ \A k \in 1..Len(s): \A j \in 1..Len(s): j < k => s[j] < s[k]
<1>1. DOMAIN s = 1..Len(s) /\ Len(s) \in Nat /\ \A k \in 1..Len(s): s[k] \in 1..N
  <2>1. PICK T: T = 1..N
    OBVIOUS
  <2>2. s \in Seq(T)
    BY <2>1
  <2>3. DOMAIN s = 1..Len(s) /\ Len(s) \in Nat /\ \A k \in 1..Len(s): s[k] \in T
    BY <2>2
  <2>4. QED BY <2>1, <2>3
<1>2. ASSUME NEW k \in 1..Len(s), NEW j \in 1..Len(s), j < k
      PROVE  s[j] < s[k]
  <2>1. j \in 1..(k - 1)
    BY <1>1, <1>2
  <2>2. QED BY <1>1, <2>1 DEF Lists
<1>3. QED BY <1>1, <1>2, ConstantsAssumption DEF Lists

(* A sequence with one more element. *)
LEMMA AppendFacts ==
  ASSUME NEW T, NEW s \in Seq(T), NEW x \in T
  PROVE  /\ Append(s, x) \in Seq(T) /\ Len(Append(s, x)) = Len(s) + 1
         /\ Append(s, x) = [k \in 1..(Len(s) + 1) |-> IF k = Len(s) + 1 THEN x ELSE s[k]]
<1>1. PICK n, t: n = Len(s) /\ t = Append(s, x)
  OBVIOUS
<1>2. /\ n \in Nat /\ t \in Seq(T) /\ Len(t) = n + 1
      /\ t[n + 1] = x /\ \A k \in 1..n: t[k] = s[k]
  BY <1>1
<1>3. t = [k \in 1..(n + 1) |-> t[k]]
  BY <1>2
<1>4. \A k \in 1..(n + 1): t[k] = IF k = n + 1 THEN x ELSE s[k]
  BY <1>2
<1>5. QED BY <1>1, <1>2, <1>3, <1>4

(* The empty list. *)
LEMMA NoneListed == ASSUME NEW S, S = {} PROVE Lists(<<>>, S)
  BY DEF Lists

(* The next slot is listed behind those before it. *)
LEMMA ListMore ==
  ASSUME NEW s \in Seq(1..N), NEW S, Lists(s, S), NEW x \in 1..N, \A i \in S: i < x,
         NEW t, t = Append(s, x)
  PROVE  Lists(t, S \cup {x})
<1>1. PICK n: n = Len(s)
  OBVIOUS
<1>2. /\ n \in Nat /\ N \in Nat
      /\ \A k \in 1..n: s[k] \in S /\ s[k] \in 1..N
      /\ \A i \in S: \E k \in 1..n: s[k] = i
      /\ \A k \in 1..n: \A j \in 1..n: j < k => s[j] < s[k]
  BY <1>1, ListedSlots
<1>3. DOMAIN t = 1..(n + 1) /\ t[n + 1] = x /\ \A k \in 1..n: t[k] = s[k]
  BY <1>1
<1>4. \A k \in DOMAIN t: t[k] \in S \cup {x}
  BY <1>2, <1>3
<1>5. ASSUME NEW i \in S \cup {x} PROVE \E k \in DOMAIN t: t[k] = i
  <2>1. n + 1 \in DOMAIN t /\ \A k \in 1..n: k \in DOMAIN t
    BY <1>2, <1>3
  <2>2. CASE i = x
    BY <1>3, <2>1, <2>2, Zenon
  <2>3. CASE i \in S
    BY <1>2, <1>3, <2>1, <2>3, Zenon
  <2>4. QED BY <2>2, <2>3
<1>6. ASSUME NEW k \in DOMAIN t, NEW j \in 1..(k - 1) PROVE t[j] < t[k]
  <2>1. j \in 1..n /\ j < k /\ t[j] = s[j]
    BY <1>2, <1>3
  <2>2. CASE k = n + 1
    BY <1>2, <1>3, <2>1, <2>2
  <2>3. CASE k # n + 1
    <3>1. k \in 1..n
      BY <1>2, <1>3, <2>3
    <3>2. QED BY <1>2, <1>3, <2>1, <3>1
  <2>4. QED BY <2>2, <2>3
<1>7. QED BY <1>4, <1>5, <1>6 DEF Lists

(* There are as many as slots in the set. *)
LEMMA ListLength ==
  ASSUME NEW s \in Seq(1..N), NEW S, Lists(s, S)
  PROVE  IsFiniteSet(S) /\ Cardinality(S) = Len(s)
<1>1. PICK n: n = Len(s)
  OBVIOUS
<1>2. /\ n \in Nat /\ N \in Nat
      /\ \A k \in 1..n: s[k] \in S /\ s[k] \in 1..N
      /\ \A i \in S: \E k \in 1..n: s[k] = i
      /\ \A k \in 1..n: \A j \in 1..n: j < k => s[j] < s[k]
  BY <1>1, ListedSlots
<1>3. s \in [1..n -> S]
  BY <1>1, <1>2
<1>4. ASSUME NEW k \in 1..n, NEW j \in 1..n, s[k] = s[j] PROVE k = j
  <2>1. k < j \/ j < k \/ k = j
    BY <1>2
  <2>2. s[k] \in Nat /\ ~(s[k] < s[k])
    BY <1>2
  <2>3. QED BY <1>2, <1>4, <2>1, <2>2
<1>5. s \in Bijection(1..n, S)
  BY <1>2, <1>3, <1>4 DEF Bijection, Injection, Surjection, IsInjective
<1>6. ExistsBijection(1..n, S)
  BY <1>5 DEF ExistsBijection
<1>7. IsFiniteSet(S)
  BY <1>2, <1>6, FS_NatBijection
<1>8. QED BY <1>1, <1>2, <1>6, <1>7, FS_CountingElements

(* There are finitely many slots. *)
LEMMA FewSlots ==
  ASSUME NEW S \in SUBSET (1..N)
  PROVE  IsFiniteSet(S) /\ Cardinality(S) \in 0..N
<1>1. N \in Nat
  BY ConstantsAssumption
<1>2. IsFiniteSet(1..N) /\ Cardinality(1..N) = N
  <2>1. 1 \in Int /\ N \in Int
    BY <1>1
  <2>2. IsFiniteSet(1..N) /\ Cardinality(1..N) = IF 1 > N THEN 0 ELSE N - 1 + 1
    BY <2>1, FS_Interval
  <2>3. QED BY <1>1, <2>2
<1>3. IsFiniteSet(S) /\ Cardinality(S) <= N
  BY <1>2, FS_Subset
<1>4. QED BY <1>1, <1>3, FS_CardinalityType

(* The first of the listed slots that is in a set is the set's minimum,    *)
(* and the last is its maximum.                                            *)
LEMMA FirstListed ==
  ASSUME NEW s \in Seq(1..N), NEW S, Lists(s, S), NEW T \in SUBSET S,
         NEW k \in 1..Len(s), s[k] \in T, \A j \in 1..(k - 1): s[j] \notin T
  PROVE  Min(T) = s[k]
<1>1. PICK n: n = Len(s)
  OBVIOUS
<1>2. /\ n \in Nat /\ N \in Nat /\ S \subseteq 1..N
      /\ \A j \in 1..n: s[j] \in S /\ s[j] \in 1..N
      /\ \A i \in S: \E j \in 1..n: s[j] = i
      /\ \A i \in 1..n: \A j \in 1..n: j < i => s[j] < s[i]
  BY <1>1, ListedSlots
<1>3. T \in SUBSET Nat
  BY <1>2
<1>4. ASSUME NEW y \in T PROVE s[k] <= y
  <2>1. PICK j \in 1..n: s[j] = y
    BY <1>2
  <2>2. ~(j < k)
    <3>1. j < k => j \in 1..(k - 1)
      BY <1>2
    <3>2. QED BY <2>1, <3>1
  <2>3. j = k \/ k < j
    BY <1>1, <1>2, <2>2
  <2>4. k \in 1..n
    BY <1>1
  <2>5. s[j] \in Nat /\ s[k] \in Nat
    BY <1>2, <2>4
  <2>6. s[k] = s[j] \/ s[k] < s[j]
    BY <1>2, <2>3, <2>4
  <2>7. QED BY <2>1, <2>5, <2>6
<1>5. QED BY <1>3, <1>4, MinIs

(* The last of them is the maximum of the set. *)
LEMMA LastListed ==
  ASSUME NEW s \in Seq(1..N), NEW S, Lists(s, S), Len(s) # 0
  PROVE  Max(S) = s[Len(s)]
<1>1. PICK n: n = Len(s)
  OBVIOUS
<1>2. /\ n \in Nat /\ N \in Nat /\ S \subseteq 1..N
      /\ \A j \in 1..n: s[j] \in S /\ s[j] \in 1..N
      /\ \A i \in S: \E j \in 1..n: s[j] = i
      /\ \A i \in 1..n: \A j \in 1..n: j < i => s[j] < s[i]
  BY <1>1, ListedSlots
<1>3. S \in SUBSET Nat /\ n \in 1..n /\ s[n] \in S
  BY <1>1, <1>2
<1>4. ASSUME NEW y \in S PROVE y <= s[n]
  <2>1. PICK j \in 1..n: s[j] = y
    BY <1>2
  <2>2. j = n \/ j < n
    BY <1>2
  <2>3. s[j] = s[n] \/ s[j] < s[n]
    BY <1>2, <1>3, <2>2
  <2>4. s[j] \in Nat /\ s[n] \in Nat
    BY <1>2, <1>3
  <2>5. QED BY <2>1, <2>3, <2>4
<1>5. QED BY <1>1, <1>3, <1>4, MaxIs

-----------------------------------------------------------------------------
(* What is trimmed off a field is zero bytes, and no others are.           *)
LEMMA TrimFacts ==
  ASSUME NEW field \in Seq(Bytes)
  PROVE  Trim(field) \in Seq(Bytes) /\ IsTextOf(Trim(field), field)
<1>1. PICK n: n = Len(field)
  OBVIOUS
<1>2. n \in Nat /\ DOMAIN field = 1..n /\ \A i \in 1..n: field[i] \in Bytes
  BY <1>1
<1> DEFINE shown == {i \in DOMAIN field: field[i] # 0}
<1>3. Trim(field) = IF shown = {} THEN <<>> ELSE SubSeq(field, Min(shown), Max(shown))
  BY DEF Trim
<1>4. /\ shown \in SUBSET (0..n) /\ shown \in SUBSET Nat
      /\ \A i \in shown: i \in 1..n /\ field[i] # 0
      /\ \A i \in 1..n: field[i] # 0 => i \in shown
  BY <1>2
<1> HIDE DEF shown
<1>5. CASE shown = {}
  <2>1. \A i \in DOMAIN field: field[i] = 0
    BY <1>2, <1>4, <1>5
  <2>2. PICK text: text = Trim(field)
    OBVIOUS
  <2>3. text = <<>> /\ text \in Seq(Bytes) /\ Len(text) = 0
    BY <1>3, <1>5, <2>2
  <2>4. 0 \in 0..Len(field) /\ 0 + Len(text) <= Len(field)
    BY <1>1, <1>2, <2>3
  <2>5. \A i \in DOMAIN text: FALSE
    BY <2>3
  <2>6. IsTextOf(text, field)
    BY <2>1, <2>3, <2>4, <2>5 DEF IsTextOf
  <2>7. QED BY <2>2, <2>3, <2>6
<1>6. CASE shown # {}
  <2>1. PICK a, b, text: a = Min(shown) /\ b = Max(shown) /\ text = SubSeq(field, a, b)
    OBVIOUS
  <2>2. a \in shown /\ b \in shown /\ \A i \in shown: a <= i /\ i <= b
    BY <1>2, <1>4, <1>6, <2>1, MinOf, MaxOf
  <2>3. a \in 1..n /\ b \in 1..n /\ a <= b
    BY <1>4, <2>2
  <2>4. Trim(field) = text
    BY <1>3, <1>6, <2>1
  <2>5. PICK m \in Nat: m = b - a + 1
    <3>1. b - a + 1 \in Nat
      BY <1>2, <2>3
    <3>2. QED BY <3>1
  <2>6. /\ text \in Seq(Bytes) /\ Len(text) = m /\ DOMAIN text = 1..m
        /\ \A i \in 1..m: text[i] = field[a + i - 1]
    <3>1. a \in Int /\ b \in Int /\ a <= b /\ \A i \in a..b: i \in 1..n
      BY <1>2, <2>3
    <3>2. \A i \in a..b: field[i] \in Bytes
      BY <1>2, <3>1, Zenon
    <3>3. /\ text \in Seq(Bytes) /\ Len(text) = b - a + 1
          /\ \A i \in 1..(b - a + 1): text[i] = field[a + i - 1]
      BY <2>1, <3>1, <3>2, SubSeqProperties
    <3>4. QED BY <2>5, <3>3
  <2>7. PICK k \in Nat: k = a - 1
    <3>1. a - 1 \in Nat
      BY <1>2, <2>3
    <3>2. QED BY <3>1
  <2>8. \A i \in 1..m: text[i] = field[k + i]
    <3>1. \A i \in 1..m: a + i - 1 = k + i
      BY <1>2, <2>3, <2>7
    <3>2. QED BY <2>6, <3>1
  <2>9. k \in 0..n /\ k + m = b /\ k + m <= n
    BY <1>2, <2>3, <2>5, <2>7
  <2>10. ASSUME NEW i \in 1..n PROVE i <= k \/ i > k + m => field[i] = 0
    <3>1. i < a \/ i > b => i \notin shown
      BY <1>2, <1>4, <2>2, <2>3
    <3>2. i <= k \/ i > k + m => i < a \/ i > b
      BY <1>2, <2>3, <2>7, <2>9
    <3>3. QED BY <1>4, <3>1, <3>2
  <2>11. text[1] # 0 /\ text[Len(text)] # 0
    <3>1. 1 \in 1..m /\ m \in 1..m /\ k + 1 = a
      BY <1>2, <2>3, <2>5, <2>7
    <3>2. text[1] = field[a] /\ text[m] = field[b]
      BY <2>8, <2>9, <3>1
    <3>3. QED BY <1>4, <2>2, <2>6, <3>2
  <2>12. IsTextOf(text, field)
    BY <1>1, <1>2, <2>6, <2>8, <2>9, <2>10, <2>11 DEF IsTextOf
  <2>13. QED BY <2>4, <2>6, <2>12
<1>7. QED BY <1>5, <1>6

-----------------------------------------------------------------------------
(* What a device means.                                                    *)
LEMMA FirstIs ==
  ASSUME NEW n \in Nat, NEW S \in SUBSET (1..n)
  PROVE  /\ S = {} => First(S) = 0
         /\ S # {} => First(S) \in S
         /\ \A k \in S: (\A j \in 1..(k - 1): j \notin S) => First(S) = k
<1>1. S \in SUBSET Nat
  OBVIOUS
<1>2. S # {} => First(S) \in S
  BY <1>1, MinOf DEF First
<1>3. ASSUME NEW k \in S, \A j \in 1..(k - 1): j \notin S PROVE First(S) = k
  <2>1. \A y \in S: k <= y
    BY <1>3
  <2>2. Min(S) = k
    BY <1>1, <2>1, MinIs
  <2>3. QED BY <2>2 DEF First
<1>4. QED BY <1>2, <1>3 DEF First

(* The first capability with an identifier. *)
LEMMA FirstOfFacts ==
  ASSUME NEW image \in Images, NEW id
  PROVE  /\ \/ /\ FirstOf(image, id) = 0
               /\ \A k \in DOMAIN image.chain: image.chain[k].id # id
            \/ /\ FirstOf(image, id) \in DOMAIN image.chain
               /\ image.chain[FirstOf(image, id)].id = id
         /\ \A k \in DOMAIN image.chain:
              image.chain[k].id = id /\ (\A j \in 1..(k - 1): image.chain[j].id # id)
                => FirstOf(image, id) = k
<1>1. PICK chain, n: chain = image.chain /\ n = Len(chain)
  OBVIOUS
<1>2. DOMAIN chain = 1..n /\ n \in Nat
  <2>1. chain \in Seq(CapabilityType)
    BY <1>1, ImageFacts
  <2>2. QED BY <1>1, <2>1
<1>3. PICK S: S = {k \in DOMAIN chain: chain[k].id = id}
  OBVIOUS
<1>4. FirstOf(image, id) = First(S)
  BY <1>1, <1>3 DEF FirstOf
<1>5. /\ S \in SUBSET (1..n) /\ \A k \in 1..n: k \in S <=> chain[k].id = id
  BY <1>2, <1>3
<1> HIDE <1>3
<1>6. ASSUME NEW k \in 1..n, chain[k].id = id, \A j \in 1..(k - 1): chain[j].id # id
      PROVE  First(S) = k
  <2>1. k \in S /\ \A j \in 1..(k - 1): j \notin S
    BY <1>2, <1>5, <1>6
  <2>2. QED BY <1>2, <1>5, <2>1, FirstIs
<1>7. CASE S = {}
  <2>1. First(S) = 0
    BY <1>2, <1>5, <1>7, FirstIs
  <2>2. QED BY <1>1, <1>2, <1>4, <1>5, <1>6, <1>7, <2>1
<1>8. CASE S # {}
  <2>1. First(S) \in S
    BY <1>2, <1>5, <1>8, FirstIs
  <2>2. QED BY <1>1, <1>2, <1>4, <1>5, <1>6, <2>1
<1>9. QED BY <1>7, <1>8

(* The capabilities of the chain. *)
LEMMA ChainFacts ==
  ASSUME NEW image \in Images
  PROVE  /\ Len(image.chain) \in 0..3 /\ DOMAIN image.chain = 1..Len(image.chain)
         /\ \A k \in DOMAIN image.chain: image.chain[k] \in CapabilityType
<1>1. PICK chain, n: chain = image.chain /\ n = Len(chain)
  OBVIOUS
<1>2. chain \in Seq(CapabilityType) /\ n <= 3
  BY <1>1, ImageFacts
<1>3. n \in Nat /\ DOMAIN chain = 1..n /\ \A k \in 1..n: chain[k] \in CapabilityType
  BY <1>1, <1>2
<1>4. n \in 0..3
  BY <1>2, <1>3
<1>5. QED BY <1>1, <1>3, <1>4

(* What a vGPU has. *)
LEMMA VGPUFacts ==
  ASSUME NEW image \in Images, IsVGPU(image)
  PROVE  /\ CapabilityOf(image) \in CapabilityType /\ RecordsEnd(CapabilityOf(image))
         /\ image.alive /\ image.listed
<1>1. FirstOf(image, VendorSpecific) # 0 /\ image.alive /\ image.listed
  BY DEF IsVGPU
<1>2. FirstOf(image, VendorSpecific) \in DOMAIN image.chain
  BY <1>1, FirstOfFacts
<1>3. QED BY <1>1, <1>2, ChainFacts, RecordsAssumption DEF CapabilityOf

(* Its chain has no vendor-specific capability, or one that comes too late. *)
LEMMA NoVendor ==
  ASSUME NEW image \in Images, Passed(image, Len(image.chain))
  PROVE  ~IsVGPU(image)
<1>1. \A k \in DOMAIN image.chain: image.chain[k].id # VendorSpecific
  BY ChainFacts DEF Passed
<1>2. FirstOf(image, VendorSpecific) = 0
  BY <1>1, FirstOfFacts
<1>3. QED BY <1>2 DEF IsVGPU

(* A broken capability ends the chain before a vendor-specific one. *)
LEMMA BrokenFirst ==
  ASSUME NEW image \in Images, NEW k \in DOMAIN image.chain, Passed(image, k - 1),
         image.chain[k].id = ChainBroken
  PROVE  ~IsVGPU(image)
<1>1. \A j \in 1..(k - 1): image.chain[j].id \notin {VendorSpecific, ChainBroken}
  BY DEF Passed
<1>2. FirstOf(image, ChainBroken) = k
  BY <1>1, FirstOfFacts
<1>3. PICK v: v = FirstOf(image, VendorSpecific)
  OBVIOUS
<1>4. k \in 1..3
  BY ChainFacts
<1>5. v = 0 \/ (v \in 1..3 /\ image.chain[v].id = VendorSpecific)
  <2>1. v = 0 \/ (v \in DOMAIN image.chain /\ image.chain[v].id = VendorSpecific)
    BY <1>3, FirstOfFacts
  <2>2. QED BY <2>1, ChainFacts
<1>6. v = 0 \/ ~(v < k)
  <2>1. v \in 1..3 /\ v < k => v \in 1..(k - 1)
    BY <1>4
  <2>2. QED BY <1>1, <1>5, <2>1
<1>7. VendorSpecific # 0 /\ k # 0
  BY <1>4 DEF VendorSpecific
<1>8. QED BY <1>2, <1>3, <1>6, <1>7 DEF IsVGPU

(* The first vendor-specific capability decides whether it is a vGPU. *)
LEMMA VendorFirst ==
  ASSUME NEW image \in Images, image.alive, image.listed,
         NEW k \in DOMAIN image.chain, Passed(image, k - 1),
         image.chain[k].id = VendorSpecific
  PROVE  CapabilityOf(image) = image.chain[k] /\ (IsVGPU(image) <=> image.chain[k].signed)
<1>1. \A j \in 1..(k - 1): image.chain[j].id \notin {VendorSpecific, ChainBroken}
  BY DEF Passed
<1>2. FirstOf(image, VendorSpecific) = k
  BY <1>1, FirstOfFacts
<1>3. PICK b: b = FirstOf(image, ChainBroken)
  OBVIOUS
<1>4. k \in 1..3
  BY ChainFacts
<1>5. b = 0 \/ (b \in 1..3 /\ image.chain[b].id = ChainBroken)
  <2>1. b = 0 \/ (b \in DOMAIN image.chain /\ image.chain[b].id = ChainBroken)
    BY <1>3, FirstOfFacts
  <2>2. QED BY <2>1, ChainFacts
<1>6. b = 0 \/ k < b
  <2>1. b \in 1..3 /\ ~(k < b) => b = k \/ b \in 1..(k - 1)
    BY <1>4
  <2>2. VendorSpecific # ChainBroken
    BY DEF VendorSpecific, ChainBroken
  <2>3. QED BY <1>1, <1>5, <2>1, <2>2
<1>7. k # 0
  BY <1>4
<1>8. CapabilityOf(image) = image.chain[k]
  BY <1>2 DEF CapabilityOf
<1>9. QED BY <1>2, <1>3, <1>6, <1>7, <1>8 DEF IsVGPU

-----------------------------------------------------------------------------
(* The walk over a chain of capabilities.                                  *)

(* The places in a chain. *)
LEMMA ChainIndex ==
  ASSUME NEW image \in Images
  PROVE  \A k \in DOMAIN image.chain: /\ k \in 0..3 /\ k # 0 /\ k \in 1..Len(image.chain)
                                      /\ Len(image.chain) \in 0..3
<1>1. PICK n \in 0..3: n = Len(image.chain) /\ DOMAIN image.chain = 1..n
  BY ChainFacts
<1>2. \A k \in 1..n: k \in 0..3 /\ k # 0
  OBVIOUS
<1>3. QED BY <1>1, <1>2

(* An offset that the walk can be at. *)
LEMMA WalkIn ==
  ASSUME NEW image, Readable(image), NEW p, NEW seen, OnTheWay(image, p, seen)
  PROVE  /\ \E k \in 0..3: p = 64 * k
         /\ p \in Nat /\ p <= 192 /\ ~(p + 2 >= image.size)
<1>1. \E k \in 0..3: p = 64 * k
  <2>1. \A k \in DOMAIN image.chain: k \in 0..3
    BY ChainFacts DEF Readable
  <2>2. QED BY <2>1 DEF OnTheWay
<1>2. p \in Nat /\ p <= 192
  BY <1>1
<1>3. image.size \in Nat /\ image.size >= 256
  BY ImageFacts DEF Readable
<1>4. QED BY <1>1, <1>2, <1>3

(* The walk starts at the first capability, or at the end. *)
LEMMA WalkStarts ==
  ASSUME NEW image, Readable(image)
  PROVE  OnTheWay(image, ByteAt(image, PciCapabilityList), {})
<1>1. ByteAt(image, PciCapabilityList) = IF image.chain = <<>> THEN 0 ELSE 64
  BY ByteAtList
<1>2. CASE image.chain = <<>>
  <2>1. Len(image.chain) = 0
    BY <1>2
  <2>2. Passed(image, Len(image.chain))
    BY <2>1 DEF Passed
  <2>3. 0 \in 0..3 /\ 64 * 0 = 0
    OBVIOUS
  <2>4. QED BY <1>1, <1>2, <2>2, <2>3 DEF OnTheWay
<1>3. CASE image.chain # <<>>
  <2>1. PICK chain, n: chain = image.chain /\ n = Len(chain)
    OBVIOUS
  <2>2. chain \in Seq(CapabilityType) /\ chain # <<>>
    BY <1>3, <2>1, ImageFacts DEF Readable
  <2>3. n \in Nat /\ n # 0 /\ DOMAIN chain = 1..n
    BY <2>1, <2>2
  <2>4. 1 \in DOMAIN image.chain
    BY <2>1, <2>3
  <2>5. Passed(image, 1 - 1)
    BY DEF Passed
  <2>6. ByteAt(image, PciCapabilityList) = 64 * 1
    BY <1>1, <1>3
  <2>7. QED BY <2>4, <2>5, <2>6 DEF OnTheWay
<1>4. QED BY <1>2, <1>3

(* What the walk reads at such an offset. *)
LEMMA ReadHere ==
  ASSUME NEW image, Readable(image), NEW k \in 0..3
  PROVE  /\ k \in DOMAIN image.chain =>
              /\ ByteAt(image, 64 * k) = image.chain[k].id
              /\ ByteAt(image, 64 * k + 1) = Pointer(image, k)
         /\ k \notin DOMAIN image.chain =>
              ByteAt(image, 64 * k) = 0 /\ ByteAt(image, 64 * k + 1) = 0
<1>1. 64 * k + 0 = 64 * k /\ 0 \in 0..63 /\ 1 \in 0..63 /\ 0 \in 0..1 /\ 1 \in 0..1 /\ 1 # 0
  OBVIOUS
<1>2. ASSUME k \in DOMAIN image.chain
      PROVE  /\ ByteAt(image, 64 * k + 0) = image.chain[k].id
             /\ ByteAt(image, 64 * k + 1) = Pointer(image, k)
  BY <1>1, <1>2, ByteInCapability
<1>3. ASSUME k \notin DOMAIN image.chain
      PROVE  ByteAt(image, 64 * k + 0) = 0 /\ ByteAt(image, 64 * k + 1) = 0
  BY <1>1, <1>3, ByteOutside
<1>4. QED BY <1>1, <1>2, <1>3

(* One that does not end the walk leads on to another. *)
LEMMA WalkGoesOn ==
  ASSUME NEW image, Readable(image), NEW p, NEW seen \in SUBSET Nat,
         OnTheWay(image, p, seen), p # 0,
         ByteAt(image, p) \notin {VendorSpecific, ChainBroken}
  PROVE  OnTheWay(image, ByteAt(image, p + 1), seen \cup {p})
<1>1. DOMAIN image.chain = 1..Len(image.chain) /\ Len(image.chain) \in 0..3
  BY ChainFacts DEF Readable
<1>2. PICK q: q = ByteAt(image, p + 1)
  OBVIOUS
<1>3. CASE \E k \in DOMAIN image.chain: /\ p = 64 * k /\ Passed(image, k - 1)
                                        /\ \A before \in seen: before < p
  <2>1. PICK k \in DOMAIN image.chain: /\ p = 64 * k /\ Passed(image, k - 1)
                                       /\ \A before \in seen: before < p
    BY <1>3
  <2>2. k \in 1..Len(image.chain) /\ k \in 0..3
    BY ChainIndex DEF Readable
  <2>3. image.chain[k].id \notin {VendorSpecific, ChainBroken} /\ q = Pointer(image, k)
    BY <1>2, <2>1, <2>2, ReadHere
  <2>4. Passed(image, k)
    <3>1. \A j \in 1..k: j \in 1..(k - 1) \/ j = k
      BY <2>2
    <3>2. QED BY <2>1, <2>3, <3>1 DEF Passed
  <2>5. PICK n \in 0..3: q = 64 * n /\ (k < Len(image.chain) => n = k + 1)
    BY <2>3, PointerFacts DEF Readable
  <2>6. CASE k < Len(image.chain)
    <3>1. k + 1 \in DOMAIN image.chain /\ (k + 1) - 1 = k
      BY <1>1, <2>2, <2>6
    <3>2. q = 64 * (k + 1)
      BY <2>5, <2>6
    <3>3. \A before \in seen \cup {p}: before < q
      <4>1. p < q /\ p \in Nat /\ q \in Nat
        <5>1. k \in Nat /\ p = 64 * k /\ q = 64 * (k + 1)
          BY <2>1, <2>2, <3>2
        <5>2. QED BY <5>1
      <4>2. ASSUME NEW before \in seen PROVE before < q
        <5>1. before < p
          BY <2>1
        <5>2. QED BY <4>1, <5>1
      <4>3. QED BY <4>1, <4>2
    <3>4. QED BY <1>2, <2>4, <3>1, <3>2, <3>3 DEF OnTheWay
  <2>7. CASE ~(k < Len(image.chain))
    <3>1. k = Len(image.chain)
      BY <1>1, <2>2, <2>7
    <3>2. QED BY <1>2, <2>4, <2>5, <3>1 DEF OnTheWay
  <2>8. QED BY <2>6, <2>7
<1>4. CASE (\E k \in 0..3: p = 64 * k) /\ Passed(image, Len(image.chain))
  <2>1. PICK k \in 0..3: p = 64 * k
    BY <1>4
  <2>2. (q = Pointer(image, k) /\ k \in DOMAIN image.chain) \/ q = 0
    BY <1>2, <2>1, ReadHere
  <2>3. \E n \in 0..3: q = 64 * n
    <3>1. CASE q = 0
      <4>1. 0 \in 0..3 /\ q = 64 * 0
        BY <3>1
      <4>2. QED BY <4>1
    <3>2. CASE q = Pointer(image, k) /\ k \in DOMAIN image.chain
      BY <3>2, PointerFacts DEF Readable
    <3>3. QED BY <2>2, <3>1, <3>2
  <2>4. QED BY <1>2, <1>4, <2>3 DEF OnTheWay
<1>5. QED BY <1>3, <1>4 DEF OnTheWay

(* The walk ends without a vendor-specific capability if there is none. *)
LEMMA WalkInVain ==
  ASSUME NEW image, Readable(image), NEW p, NEW seen, OnTheWay(image, p, seen),
         p = 0 \/ p \in seen \/ ByteAt(image, p) = ChainBroken
  PROVE  ~IsVGPU(image)
<1>1. image \in Images /\ DOMAIN image.chain = 1..Len(image.chain)
  BY ChainFacts DEF Readable
<1>2. CASE \E k \in DOMAIN image.chain: /\ p = 64 * k /\ Passed(image, k - 1)
                                        /\ \A before \in seen: before < p
  <2>1. PICK k \in DOMAIN image.chain: /\ p = 64 * k /\ Passed(image, k - 1)
                                       /\ \A before \in seen: before < p
    BY <1>2
  <2>2. k \in 0..3 /\ k # 0
    BY <1>1, ChainIndex
  <2>3. p \in Nat /\ p # 0 /\ ~(p < p)
    BY <2>1, <2>2
  <2>4. ByteAt(image, p) = ChainBroken
    BY <2>1, <2>3
  <2>5. image.chain[k].id = ChainBroken
    BY <2>1, <2>2, <2>4, ReadHere
  <2>6. QED BY <1>1, <2>1, <2>5, BrokenFirst
<1>3. CASE Passed(image, Len(image.chain))
  BY <1>1, <1>3, NoVendor
<1>4. QED BY <1>2, <1>3 DEF OnTheWay

(* The vendor-specific capability that the walk finds is the one that is   *)
(* meant: it is signed if the device is a vGPU, and read to its end.       *)
SliceOf(image, p) ==
  [i \in 1..ByteAt(image, p + 2) |-> ByteAt(image, p + (i - 1))]

(* The capability that is cut out of the configuration space is the one    *)
(* that is meant.                                                          *)
LEMMA SliceFacts ==
  ASSUME NEW image, Readable(image), NEW k \in DOMAIN image.chain,
         image.chain[k].id = VendorSpecific, NEW c, c = image.chain[k]
  PROVE  IsCopy(SliceOf(image, 64 * k), c) /\ (IsVGPUDevice(SliceOf(image, 64 * k)) <=> c.signed)
<1>1. c \in CapabilityType /\ k \in 1..3 /\ c.id = VendorSpecific
  BY ChainFacts DEF Readable
<1>2. PICK b, n: b = Body(c) /\ n = Len(b)
  OBVIOUS
<1>3. IsBody(b, FlattenSeq(RecordsOf(c)), c)
  BY <1>1, <1>2, BodyIs
<1>4. /\ b \in Seq(Bytes) /\ n <= 62 /\ b[1] = 2 + n
      /\ (c.signed <=> b[2] = Signature[1] /\ b[3] = Signature[2])
  BY <1>2, <1>3 DEF IsBody
<1>5. n \in Nat /\ DOMAIN b = 1..n /\ n >= 3
  <2>1. n \in Nat /\ DOMAIN b = 1..n
    BY <1>2, <1>4
  <2>2. PICK f: f = FlattenSeq(RecordsOf(c))
    OBVIOUS
  <2>3. f \in Seq(Bytes) /\ n = 3 + Len(f) + c.pad
    BY <1>2, <1>3, <2>2 DEF IsBody
  <2>4. Len(f) \in Nat /\ c.pad \in Nat
    BY <1>1, <2>3, CapabilityFacts
  <2>5. QED BY <2>1, <2>3, <2>4
<1>6. ASSUME NEW j \in 2..63 PROVE j - 1 \in 1..n => ByteAt(image, 64 * k + j) = b[j - 1]
  <2>1. j \in 0..63 /\ j # 0 /\ j # 1
    OBVIOUS
  <2>2. ByteAt(image, 64 * k + j) =
          IF j = 0 THEN c.id
          ELSE IF j = 1 THEN Pointer(image, k)
          ELSE IF c.id = VendorSpecific /\ j - 1 \in DOMAIN Body(c) THEN Body(c)[j - 1] ELSE 0
    BY <2>1, ByteInCapability
  <2>3. QED BY <1>1, <1>2, <1>5, <2>1, <2>2
<1>7. PICK m: m = 64 * k
  OBVIOUS
<1>8. m \in Nat
  BY <1>1, <1>7
<1>9. PICK s: s = SliceOf(image, m)
  OBVIOUS
<1>10. ByteAt(image, m + 2) = 2 + n
  <2>1. 2 \in 2..63 /\ 2 - 1 = 1 /\ 2 - 1 \in 1..n
    BY <1>5
  <2>2. QED BY <1>4, <1>6, <1>7, <2>1
<1>11. s = [i \in 1..(2 + n) |-> ByteAt(image, m + (i - 1))]
  BY <1>9, <1>10 DEF SliceOf
<1>12. Len(s) = 2 + n
  BY <1>5, <1>11
<1>13. ASSUME NEW i \in 3..(2 + n) PROVE s[i] = b[i - 2]
  <2>1. i \in 1..(2 + n) /\ i - 1 \in 2..63 /\ (i - 1) - 1 = i - 2 /\ i - 2 \in 1..n
    BY <1>4, <1>5
  <2>2. s[i] = ByteAt(image, m + (i - 1))
    BY <1>11, <2>1
  <2>3. QED BY <1>6, <1>7, <2>1, <2>2
<1>14. IsCopy(s, c)
  BY <1>2, <1>12, <1>13 DEF IsCopy
<1>15. s[4] = b[2] /\ s[5] = b[3] /\ Len(s) >= 5
  <2>1. 4 \in 3..(2 + n) /\ 5 \in 3..(2 + n) /\ 4 - 2 = 2 /\ 5 - 2 = 3
    BY <1>5
  <2>2. s[4] = b[4 - 2] /\ s[5] = b[5 - 2]
    BY <1>13, <2>1
  <2>3. QED BY <1>5, <1>12, <2>1, <2>2
<1>16. IsVGPUDevice(s) <=> c.signed
  BY <1>4, <1>15 DEF IsVGPUDevice
<1>17. QED BY <1>7, <1>9, <1>14, <1>16

(* It consists of bytes. *)
LEMMA SliceIsBytes ==
  ASSUME NEW image \in Images, NEW p \in Nat
  PROVE  SliceOf(image, p) \in Seq(Bytes)
<1>1. PICK n \in Nat: n = ByteAt(image, p + 2)
  BY ByteAtIsByte, ByteIs
<1>2. \A i \in 1..n: ByteAt(image, p + (i - 1)) \in Bytes
  <2>1. \A i \in 1..n: p + (i - 1) \in Nat
    BY <1>1
  <2>2. QED BY <2>1, ByteAtIsByte
<1>3. [i \in 1..n |-> ByteAt(image, p + (i - 1))] \in Seq(Bytes)
  BY <1>1, <1>2
<1>4. QED BY <1>1, <1>3 DEF SliceOf

(* That is the capability the walk returns. *)
LEMMA WalkFinds ==
  ASSUME NEW image, Readable(image), image.listed, NEW p, NEW seen,
         OnTheWay(image, p, seen), p # 0, ByteAt(image, p) = VendorSpecific
  PROVE  /\ SliceOf(image, p) \in Seq(Bytes)
         /\ IsVGPUDevice(SliceOf(image, p)) <=> IsVGPU(image)
         /\ IsVGPU(image) => IsCopy(SliceOf(image, p), CapabilityOf(image))
<1>1. image \in Images /\ image.alive /\ DOMAIN image.chain = 1..Len(image.chain)
  BY ChainFacts DEF Readable
<1>2. VendorSpecific # 0
  BY DEF VendorSpecific
<1>3. PICK k \in DOMAIN image.chain: p = 64 * k /\ Passed(image, k - 1)
  <2>1. CASE \E k \in DOMAIN image.chain: p = 64 * k /\ Passed(image, k - 1)
    BY <2>1
  <2>2. CASE (\E k \in 0..3: p = 64 * k) /\ Passed(image, Len(image.chain))
    <3>1. PICK k \in 0..3: p = 64 * k
      BY <2>2
    <3>2. k \in DOMAIN image.chain /\ image.chain[k].id = VendorSpecific
      BY <1>2, <3>1, ReadHere
    <3>3. FALSE
      BY <1>1, <2>2, <3>2 DEF Passed
    <3>4. QED BY <3>3
  <2>3. QED BY <2>1, <2>2 DEF OnTheWay
<1>4. image.chain[k].id = VendorSpecific
  <2>1. k \in 0..3
    BY <1>1, ChainIndex
  <2>2. QED BY <1>3, <2>1, ReadHere
<1>5. CapabilityOf(image) = image.chain[k] /\ (IsVGPU(image) <=> image.chain[k].signed)
  BY <1>1, <1>3, <1>4, VendorFirst
<1>6. /\ IsCopy(SliceOf(image, 64 * k), image.chain[k])
      /\ IsVGPUDevice(SliceOf(image, 64 * k)) <=> image.chain[k].signed
  BY <1>4, SliceFacts
<1>7. SliceOf(image, p) \in Seq(Bytes)
  BY <1>1, WalkIn, SliceIsBytes
<1>8. QED BY <1>3, <1>5, <1>6, <1>7

-----------------------------------------------------------------------------
(* The walk over the records of a capability.                              *)
LEMMA RecordsFacts ==
  ASSUME NEW c \in CapabilityType
  PROVE  /\ c.pad \in Nat /\ Len(c.records) \in Nat
         /\ DOMAIN c.records = 1..Len(c.records)
         /\ \A i \in DOMAIN c.records: c.records[i] \in RecordType
<1>1. PICK records: records = c.records
  OBVIOUS
<1>2. records \in Seq(RecordType) /\ c.pad \in Nat
  BY <1>1, CapabilityFacts
<1>3. QED BY <1>1, <1>2

(* The first record with identifier 0 is the version. *)
LEMMA VersionFacts ==
  ASSUME NEW c \in CapabilityType
  PROVE  /\ (\A j \in 1..Len(c.records): c.records[j].id # 0) =>
              VersionIn(c) = 0 /\ ~IsComplete(c)
         /\ \A i \in 1..Len(c.records):
              c.records[i].id = 0 /\ (\A j \in 1..(i - 1): c.records[j].id # 0)
                => VersionIn(c) = i
<1>1. PICK n \in Nat: n = Len(c.records) /\ DOMAIN c.records = 1..n
  BY RecordsFacts
<1>2. PICK S: S = {i \in DOMAIN c.records: c.records[i].id = 0}
  OBVIOUS
<1>3. VersionIn(c) = First(S)
  BY <1>2 DEF VersionIn
<1>4. S \in SUBSET (1..n) /\ \A i \in 1..n: i \in S <=> c.records[i].id = 0
  BY <1>1, <1>2
<1> HIDE <1>2
<1>5. ASSUME \A j \in 1..n: c.records[j].id # 0 PROVE VersionIn(c) = 0 /\ ~IsComplete(c)
  <2>1. S = {}
    BY <1>4, <1>5
  <2>2. VersionIn(c) = 0
    BY <1>3, <1>4, <2>1, FirstIs
  <2>3. QED BY <2>2 DEF IsComplete
<1>6. ASSUME NEW i \in 1..n, c.records[i].id = 0, \A j \in 1..(i - 1): c.records[j].id # 0
      PROVE  VersionIn(c) = i
  <2>1. i \in S /\ \A j \in 1..(i - 1): j \notin S
    BY <1>4, <1>6
  <2>2. QED BY <1>3, <1>4, <2>1, FirstIs
<1>7. QED BY <1>1, <1>5, <1>6

(* The walk over the records starts at the first, or behind them. *)
LEMMA RecordsStart ==
  ASSUME NEW c \in CapabilityType
  PROVE  AtRecord(c, 5)
<1>1. 1 \in 1..(Len(c.records) + 1)
  BY RecordsFacts
<1>2. RecordAt(c, 1) = 5 /\ \A j \in 1..(1 - 1): FALSE
  BY RecordAtFirst
<1>3. QED BY <1>1, <1>2 DEF AtRecord

(* The walk is at a record that it has still to look at, or behind them.   *)
IsNext(c, bytes, p, i) ==
  /\ i \in 1..Len(c.records) /\ \A j \in 1..(i - 1): c.records[j].id # 0
  /\ IsRecord(c, bytes, p, i)
IsBehind(c, bytes, p) ==
  /\ VersionIn(c) = 0 /\ ~IsComplete(c)
  /\ p \in Nat /\ p + c.pad = Len(bytes) /\ \A i \in 1..c.pad: bytes[p + i] = 0

(* There are no other cases. *)
LEMMA AtRecordCases ==
  ASSUME NEW c \in CapabilityType, NEW bytes, IsCopy(bytes, c), NEW p, AtRecord(c, p)
  PROVE  /\ p \in Nat /\ p <= Len(bytes) /\ Len(bytes) \in Nat /\ Len(bytes) <= 64
         /\ IsBehind(c, bytes, p) \/ \E i \in 1..Len(c.records): IsNext(c, bytes, p, i)
<1>1. PICK n \in Nat: n = Len(c.records) /\ DOMAIN c.records = 1..n
  BY RecordsFacts
<1>2. c.pad \in Nat
  BY RecordsFacts
<1>3. Len(bytes) \in Nat /\ Len(bytes) <= 64
  <2>1. PICK f: f = FlattenSeq(RecordsOf(c))
    OBVIOUS
  <2>2. f \in Seq(Bytes) /\ Len(bytes) = 5 + Len(f) + c.pad /\ Len(bytes) <= 64
    BY <2>1, CopyFacts
  <2>3. Len(f) \in Nat
    BY <2>2
  <2>4. QED BY <1>2, <2>2, <2>3
<1>4. PICK i \in 1..(n + 1): p = RecordAt(c, i) /\ \A j \in 1..(i - 1): c.records[j].id # 0
  BY <1>1 DEF AtRecord
<1>5. CASE i = n + 1
  <2>1. VersionIn(c) = 0 /\ ~IsComplete(c)
    <3>1. i - 1 = n
      BY <1>5
    <3>2. QED BY <1>1, <1>4, <3>1, VersionFacts
  <2>2. p \in Nat /\ p + c.pad = Len(bytes) /\ \A j \in 1..c.pad: bytes[p + j] = 0
    BY <1>1, <1>4, <1>5, RecordsEndAt
  <2>3. p <= Len(bytes)
    BY <1>2, <1>3, <2>2
  <2>4. QED BY <1>3, <2>1, <2>2, <2>3 DEF IsBehind
<1>6. CASE i # n + 1
  <2>1. i \in 1..Len(c.records)
    BY <1>1, <1>6
  <2>2. IsRecord(c, bytes, p, i)
    BY <1>4, <2>1, RecordBytes
  <2>3. PICK d \in Nat: p \in Nat /\ p + 2 + d + c.pad <= Len(bytes)
    BY <2>2 DEF IsRecord
  <2>4. p <= Len(bytes)
    <3>1. PICK m \in Nat: m = Len(bytes)
      BY <1>3
    <3>2. QED BY <1>2, <2>3, <3>1
  <2>5. IsNext(c, bytes, p, i)
    BY <1>4, <2>1, <2>2 DEF IsNext
  <2>6. QED BY <1>3, <2>1, <2>3, <2>4, <2>5
<1>7. QED BY <1>5, <1>6

(* A record that is not the version leads to the next one. *)
LEMMA SkipsOn ==
  ASSUME NEW c \in CapabilityType, NEW bytes, IsCopy(bytes, c), NEW p, AtRecord(c, p),
         p < Len(bytes), bytes[p + 1] # 0
  PROVE  /\ p + 1 < Len(bytes) /\ AtRecord(c, p + bytes[p + 2])
         /\ p + bytes[p + 2] \in Nat /\ p + bytes[p + 2] <= 64
<1>1. /\ p \in Nat /\ Len(bytes) \in Nat /\ Len(bytes) <= 64 /\ c.pad \in Nat
      /\ IsBehind(c, bytes, p) \/ \E i \in 1..Len(c.records): IsNext(c, bytes, p, i)
  BY AtRecordCases, RecordsFacts
<1>2. CASE IsBehind(c, bytes, p)
  <2>1. p + c.pad = Len(bytes) /\ \A i \in 1..c.pad: bytes[p + i] = 0
    BY <1>2 DEF IsBehind
  <2>2. 1 \in 1..c.pad
    BY <1>1, <2>1
  <2>3. QED BY <2>1, <2>2
<1>3. ASSUME NEW i \in 1..Len(c.records), IsNext(c, bytes, p, i)
      PROVE  /\ p + 1 < Len(bytes) /\ AtRecord(c, p + bytes[p + 2])
             /\ p + bytes[p + 2] \in Nat /\ p + bytes[p + 2] <= 64
  <2>1. PICK r \in RecordType, d \in Nat:
          /\ r = c.records[i] /\ bytes[p + 1] = r.id /\ bytes[p + 2] = 2 + d
          /\ RecordAt(c, i + 1) = p + 2 + d /\ p + 2 + d + c.pad <= Len(bytes)
    BY <1>3 DEF IsNext, IsRecord
  <2>2. i \in Nat /\ i >= 1 /\ i <= Len(c.records) /\ Len(c.records) \in Nat
    BY RecordsFacts
  <2>3. p + bytes[p + 2] = p + 2 + d
    BY <1>1, <2>1
  <2>4. p + 1 < Len(bytes) /\ p + 2 + d \in Nat /\ p + 2 + d <= 64
    BY <1>1, <2>1
  <2>5. i + 1 \in 1..(Len(c.records) + 1)
    BY <2>2
  <2>6. \A j \in 1..((i + 1) - 1): c.records[j].id # 0
    <3>1. \A j \in 1..((i + 1) - 1): j \in 1..(i - 1) \/ j = i
      BY <2>2
    <3>2. \A j \in 1..(i - 1): c.records[j].id # 0
      BY <1>3 DEF IsNext
    <3>3. QED BY <2>1, <2>2, <3>1, <3>2
  <2>7. AtRecord(c, p + 2 + d)
    BY <2>1, <2>5, <2>6 DEF AtRecord
  <2>8. QED BY <2>3, <2>4, <2>7
<1>4. QED BY <1>1, <1>2, <1>3

(* The walk runs out of records if they are to end without a version. *)
LEMMA RunsOut ==
  ASSUME NEW c \in CapabilityType, NEW bytes, IsCopy(bytes, c), NEW p, AtRecord(c, p),
         ~(p < Len(bytes))
  PROVE  ~IsComplete(c) /\ IsOpen(c)
<1>1. /\ p \in Nat /\ Len(bytes) \in Nat /\ c.pad \in Nat
      /\ IsBehind(c, bytes, p) \/ \E i \in 1..Len(c.records): IsNext(c, bytes, p, i)
  BY AtRecordCases, RecordsFacts
<1>2. CASE IsBehind(c, bytes, p)
  <2>1. p + c.pad = Len(bytes) /\ VersionIn(c) = 0 /\ ~IsComplete(c)
    BY <1>2 DEF IsBehind
  <2>2. c.pad = 0
    BY <1>1, <2>1
  <2>3. QED BY <2>1, <2>2 DEF IsOpen
<1>3. ASSUME NEW i \in 1..Len(c.records), IsNext(c, bytes, p, i) PROVE FALSE
  <2>1. PICK d \in Nat: p + 2 + d + c.pad <= Len(bytes)
    BY <1>3 DEF IsNext, IsRecord
  <2>2. QED BY <1>1, <2>1
<1>4. QED BY <1>1, <1>2, <1>3

(* A zero byte is a version, read to its end; or the capability is too     *)
(* short for one, and has none that is complete.                           *)
IsVersionRead(c, bytes, p) ==
  /\ p + 22 > Len(bytes) => ~IsComplete(c) /\ ~IsOpen(c)
  /\ p + 22 <= Len(bytes) =>
       /\ IsComplete(c) /\ DataOf(c) \in Seq(Bytes) /\ Len(DataOf(c)) >= 20
       /\ \A j \in 1..20: bytes[p + 2 + j] = DataOf(c)[j]
(* So it is wherever the walk finds a zero byte. *)
LEMMA AtVersion ==
  ASSUME NEW c \in CapabilityType, RecordsEnd(c), NEW bytes, IsCopy(bytes, c),
         NEW p, AtRecord(c, p), p < Len(bytes), bytes[p + 1] = 0
  PROVE  IsVersionRead(c, bytes, p)
<1>1. /\ p \in Nat /\ Len(bytes) \in Nat /\ c.pad \in Nat
      /\ IsBehind(c, bytes, p) \/ \E i \in 1..Len(c.records): IsNext(c, bytes, p, i)
  BY AtRecordCases, RecordsFacts
<1>2. CASE IsBehind(c, bytes, p)
  <2>1. p + c.pad = Len(bytes) /\ VersionIn(c) = 0 /\ ~IsComplete(c)
    BY <1>2 DEF IsBehind
  <2>2. c.pad # 0
    BY <1>1, <2>1
  <2>3. 0 + c.pad < 22
    BY <2>1 DEF RecordsEnd, HostDriverVersionLength, HostDriverBranchLength
  <2>4. ~(p + 22 <= Len(bytes))
    BY <1>1, <2>1, <2>3
  <2>5. QED BY <2>1, <2>2, <2>4 DEF IsOpen, IsVersionRead
<1>3. ASSUME NEW i \in 1..Len(c.records), IsNext(c, bytes, p, i)
      PROVE  IsVersionRead(c, bytes, p)
  <2>1. PICK r \in RecordType, d \in Nat:
          /\ r = c.records[i] /\ d = Len(r.data) /\ r.data \in Seq(Bytes)
          /\ bytes[p + 1] = r.id
          /\ \A j \in 1..d: bytes[p + 2 + j] = r.data[j]
          /\ p + 2 + d + c.pad <= Len(bytes)
          /\ i = Len(c.records) => p + 2 + d + c.pad = Len(bytes)
    BY <1>3 DEF IsNext, IsRecord
  <2>2. i \in Nat /\ i >= 1 /\ i <= Len(c.records) /\ Len(c.records) \in Nat
    BY RecordsFacts
  <2>3. VersionIn(c) = i
    <3>1. c.records[i].id = 0 /\ \A j \in 1..(i - 1): c.records[j].id # 0
      BY <1>3, <2>1 DEF IsNext
    <3>2. QED BY <1>3, <3>1, VersionFacts
  <2>4. DataOf(c) = r.data /\ i # 0
    BY <2>1, <2>2, <2>3 DEF DataOf
  <2>5. IsComplete(c) <=> d >= 20
    <3>1. IsComplete(c) <=> d >= 10 + 10
      BY <2>1, <2>3, <2>4 DEF IsComplete, HostDriverVersionLength, HostDriverBranchLength
    <3>2. QED BY <3>1
  <2>6. ~IsOpen(c)
    BY <2>3, <2>4 DEF IsOpen
  <2>7. ASSUME p + 22 > Len(bytes) PROVE ~IsComplete(c)
    <3>1. PICK n \in Nat: n = Len(bytes)
      BY <1>1
    <3>2. p + 22 > n /\ p + 2 + d + c.pad <= n
      BY <2>1, <2>7, <3>1
    <3>3. ~(d >= 20)
      BY <1>1, <3>2
    <3>4. QED BY <2>5, <3>3
  <2>8. ASSUME p + 22 <= Len(bytes) PROVE IsComplete(c)
    <3>1. SUFFICES ASSUME ~IsComplete(c) PROVE FALSE
      OBVIOUS
    <3>2. i \in {0, Len(c.records)} /\ 2 + d + c.pad < 2 + 10 + 10
      BY <2>1, <2>3, <2>4, <3>1
         DEF RecordsEnd, HostDriverVersionLength, HostDriverBranchLength
    <3>3. p + 2 + d + c.pad = Len(bytes)
      BY <2>1, <2>4, <3>2
    <3>4. QED BY <1>1, <2>8, <3>2, <3>3
  <2>9. ASSUME IsComplete(c)
        PROVE  /\ DataOf(c) \in Seq(Bytes) /\ Len(DataOf(c)) >= 20
               /\ \A j \in 1..20: bytes[p + 2 + j] = DataOf(c)[j]
    <3>1. d >= 20
      BY <2>5, <2>9
    <3>2. \A j \in 1..20: j \in 1..d
      BY <3>1
    <3>3. QED BY <2>1, <2>4, <3>1, <3>1, <3>2
  <2>10. p + 22 > Len(bytes) \/ p + 22 <= Len(bytes)
    BY <1>1
  <2>11. QED BY <2>6, <2>7, <2>8, <2>9 DEF IsVersionRead
<1>4. QED BY <1>1, <1>2, <1>3

(* Ten elements of a sequence. *)
LEMMA PartOfSequence ==
  ASSUME NEW T, NEW s \in Seq(T), NEW n \in Nat, n = Len(s),
         NEW a \in Nat, a >= 1, a + 9 <= n
  PROVE  /\ SubSeq(s, a, a + 9) \in Seq(T) /\ Len(SubSeq(s, a, a + 9)) = 10
         /\ \A j \in 1..10: SubSeq(s, a, a + 9)[j] = s[a + j - 1]
<1>1. \A i \in 1..n: s[i] \in T
  OBVIOUS
<1>2. \A i \in a..(a + 9): i \in 1..n
  OBVIOUS
<1>3. \A i \in a..(a + 9): s[i] \in T
  BY <1>1, <1>2, Zenon
<1>4. PICK z \in Int: z = a + 9
  OBVIOUS
<1>5. a \in Int /\ (a <= z) /\ z - a + 1 = 10
  BY <1>4
<1>6. /\ SubSeq(s, a, z) \in Seq(T) /\ Len(SubSeq(s, a, z)) = IF a <= z THEN z - a + 1 ELSE 0
      /\ \A j \in 1..(z - a + 1): SubSeq(s, a, z)[j] = s[a + j - 1]
  BY <1>3, <1>5, SubSeqProperties
<1>7. QED BY <1>4, <1>5, <1>6, Zenon

(* Ten elements that two sequences share. *)
SameField(s, a, t, b) == \A j \in 1..10: s[a + j - 1] = t[b + j - 1]

(* The ten elements are the same sequence. *)
LEMMA SameFields ==
  ASSUME NEW T, NEW s \in Seq(T), NEW t \in Seq(T),
         NEW n \in Nat, n = Len(s), NEW m \in Nat, m = Len(t),
         NEW a \in Nat, a >= 1, a + 9 <= n, NEW b \in Nat, b >= 1, b + 9 <= m,
         SameField(s, a, t, b)
  PROVE  SubSeq(s, a, a + 9) = SubSeq(t, b, b + 9) /\ SubSeq(t, b, b + 9) \in Seq(T)
<1>1. PICK u, v: u = SubSeq(s, a, a + 9) /\ v = SubSeq(t, b, b + 9)
  OBVIOUS
<1>2. u \in Seq(T) /\ Len(u) = 10 /\ \A j \in 1..10: u[j] = s[a + j - 1]
  <2>1. /\ SubSeq(s, a, a + 9) \in Seq(T) /\ Len(SubSeq(s, a, a + 9)) = 10
        /\ \A j \in 1..10: SubSeq(s, a, a + 9)[j] = s[a + j - 1]
    BY PartOfSequence
  <2>2. QED BY <1>1, <2>1, Zenon
<1>3. v \in Seq(T) /\ Len(v) = 10 /\ \A j \in 1..10: v[j] = t[b + j - 1]
  <2>1. /\ SubSeq(t, b, b + 9) \in Seq(T) /\ Len(SubSeq(t, b, b + 9)) = 10
        /\ \A j \in 1..10: SubSeq(t, b, b + 9)[j] = t[b + j - 1]
    BY PartOfSequence
  <2>2. QED BY <1>1, <2>1, Zenon
<1>4. \A j \in 1..10: u[j] = v[j]
  BY <1>2, <1>3, Zenon DEF SameField
<1>5. u = v
  BY <1>2, <1>3, <1>4, SeqEqual
<1>6. QED BY <1>1, <1>3, <1>5

(* A field of a record's data, where the record is read. *)
LEMMA SameFieldOf ==
  ASSUME NEW s, NEW data, NEW p \in Nat, \A i \in 1..20: s[p + 2 + i] = data[i],
         NEW k \in {0, 10}, NEW a, a = p + 3 + k, NEW b, b = 1 + k
  PROVE  SameField(s, a, data, b)
<1>1. ASSUME NEW j \in 1..10 PROVE s[a + j - 1] = data[b + j - 1]
  <2>1. PICK i \in 1..20: i = k + j
    OBVIOUS
  <2>2. s[p + 2 + i] = data[i]
    OBVIOUS
  <2>3. a + j - 1 = p + 2 + i /\ b + j - 1 = i
    BY <2>1
  <2>4. QED BY <2>2, <2>3, Zenon
<1>2. QED BY <1>1 DEF SameField

(* The version and the branch, at the end. *)
LEMMA FieldsAre ==
  ASSUME NEW s \in Seq(Bytes), NEW data \in Seq(Bytes), NEW p \in Nat,
         p + 22 <= Len(s), Len(data) >= 20,
         SameField(s, p + 3, data, 1), SameField(s, p + 13, data, 11)
  PROVE  /\ SubSeq(s, p + 3, p + 12) = SubSeq(data, 1, 10)
         /\ SubSeq(s, p + 13, p + 22) = SubSeq(data, 11, 20)
         /\ SubSeq(data, 1, 10) \in Seq(Bytes) /\ SubSeq(data, 11, 20) \in Seq(Bytes)
<1>1. PICK n \in Nat: n = Len(s)
  OBVIOUS
<1>2. PICK m \in Nat: m = Len(data)
  OBVIOUS
<1>3. p + 22 <= n /\ 20 <= m
  BY <1>1, <1>2
<1>4. ASSUME NEW a \in Nat, NEW b \in Nat, a >= 1, b >= 1, a + 9 <= n, b + 9 <= m,
             SameField(s, a, data, b)
      PROVE  SubSeq(s, a, a + 9) = SubSeq(data, b, b + 9) /\ SubSeq(data, b, b + 9) \in Seq(Bytes)
  BY <1>1, <1>2, <1>4, SameFields, Zenon
<1>5. SubSeq(s, p + 3, p + 12) = SubSeq(data, 1, 10) /\ SubSeq(data, 1, 10) \in Seq(Bytes)
  <2>1. PICK a \in Nat: a = p + 3
    OBVIOUS
  <2>2. PICK b \in Nat: b = 1
    OBVIOUS
  <2>3. a >= 1 /\ b >= 1 /\ a + 9 <= n /\ b + 9 <= m
    BY <1>3, <2>1, <2>2
  <2>4. SameField(s, a, data, b)
    BY <2>1, <2>2
  <2>5. SubSeq(s, a, a + 9) = SubSeq(data, b, b + 9) /\ SubSeq(data, b, b + 9) \in Seq(Bytes)
    BY <1>4, <2>3, <2>4
  <2>6. a + 9 = p + 12 /\ b + 9 = 10
    BY <2>1, <2>2
  <2>7. QED BY <2>1, <2>2, <2>5, <2>6, Zenon
<1>6. SubSeq(s, p + 13, p + 22) = SubSeq(data, 11, 20) /\ SubSeq(data, 11, 20) \in Seq(Bytes)
  <2>1. PICK a \in Nat: a = p + 13
    OBVIOUS
  <2>2. PICK b \in Nat: b = 11
    OBVIOUS
  <2>3. a >= 1 /\ b >= 1 /\ a + 9 <= n /\ b + 9 <= m
    BY <1>3, <2>1, <2>2
  <2>4. SameField(s, a, data, b)
    BY <2>1, <2>2
  <2>5. SubSeq(s, a, a + 9) = SubSeq(data, b, b + 9) /\ SubSeq(data, b, b + 9) \in Seq(Bytes)
    BY <1>4, <2>3, <2>4
  <2>6. a + 9 = p + 22 /\ b + 9 = 20
    BY <2>1, <2>2
  <2>7. QED BY <2>1, <2>2, <2>5, <2>6, Zenon
<1>7. QED BY <1>5, <1>6

-----------------------------------------------------------------------------
(* States.                                                                 *)
LEMMA StateFacts ==
  ASSUME TypeOK
  PROVE  /\ N \in Nat /\ \A i \in 1..N: slots[i] \in Images
         /\ entries \subseteq 1..N /\ Here \subseteq entries
         /\ VGPUs \subseteq Here /\ Unwalkable \subseteq Here /\ Failing \subseteq VGPUs
  BY ConstantsAssumption DEF TypeOK, Here, VGPUs, Unwalkable, Failing

(* They are determined by the devices and by what was listed. *)
LEMMA Frame ==
  ASSUME slots' = slots, entries' = entries
  PROVE  Here' = Here /\ VGPUs' = VGPUs /\ Unwalkable' = Unwalkable /\ Failing' = Failing
  BY DEF Here, VGPUs, Unwalkable, Failing, Silent

(* The devices while they are looked at. *)
LEMMA DeviceFacts ==
  ASSUME TypeOK, Reading, pc \in {"scan", "walk"}
  PROVE  /\ Len(devices) \in Nat /\ dev \in Nat /\ dev >= 1
         /\ \A k \in 1..Len(devices):
              devices[k] \in Here /\ devices[k] \in 1..N /\ slots[devices[k]] \in Images
         /\ \A i \in Here: \E k \in 1..Len(devices): devices[k] = i
         /\ \A k \in 1..Len(devices): \A j \in 1..Len(devices): j < k => devices[j] < devices[k]
         /\ Len(devices) <= N
<1>1. devices \in Seq(1..N) /\ Lists(devices, Here) /\ dev \in 1..(N + 1)
  BY DEF TypeOK, Reading
<1>2. /\ Len(devices) \in Nat /\ N \in Nat
      /\ \A k \in 1..Len(devices): devices[k] \in Here /\ devices[k] \in 1..N
      /\ \A i \in Here: \E k \in 1..Len(devices): devices[k] = i
      /\ \A k \in 1..Len(devices): \A j \in 1..Len(devices): j < k => devices[j] < devices[k]
  BY <1>1, ListedSlots
<1>3. \A k \in 1..Len(devices): slots[devices[k]] \in Images
  BY <1>2, StateFacts
<1>4. Len(devices) <= N
  <2>1. Here \in SUBSET (1..N)
    BY <1>1, ListedSlots
  <2>2. Cardinality(Here) = Len(devices) /\ Cardinality(Here) \in 0..N
    BY <1>1, <2>1, ListLength, FewSlots
  <2>3. QED BY <2>2
<1>5. QED BY <1>1, <1>2, <1>3, <1>4

(* The vGPUs while they are looked at. *)
LEMMA VGPUListFacts ==
  ASSUME TypeOK, Scanning, pc \in {"info", "record"}
  PROVE  /\ Len(vgpus) \in Nat /\ dev \in Nat /\ dev >= 1
         /\ VGPUSlots \in Seq(1..N) /\ Len(VGPUSlots) = Len(vgpus) /\ Lists(VGPUSlots, VGPUs)
         /\ \A k \in 1..Len(vgpus):
              /\ VGPUSlots[k] = vgpus[k].pci /\ vgpus[k].pci \in VGPUs
              /\ vgpus[k].capability \in Seq(Bytes)
              /\ Meant(k) \in CapabilityType /\ RecordsEnd(Meant(k))
              /\ IsCopy(vgpus[k].capability, Meant(k))
         /\ \A i \in VGPUs: \E k \in 1..Len(vgpus): vgpus[k].pci = i
<1>1. PICK n: n = Len(vgpus)
  OBVIOUS
<1>2. /\ n \in Nat /\ DOMAIN vgpus = 1..n
      /\ \A k \in 1..n: vgpus[k].pci \in 1..N /\ vgpus[k].capability \in Seq(Bytes)
  <2>1. PICK T: T = [pci: 1..N, capability: Seq(Bytes)]
    OBVIOUS
  <2>2. vgpus \in Seq(T)
    BY <2>1 DEF TypeOK
  <2>3. n \in Nat /\ DOMAIN vgpus = 1..n /\ \A k \in 1..n: vgpus[k] \in T
    BY <1>1, <2>2
  <2>4. QED BY <2>1, <2>3
<1>3. PICK s: s = VGPUSlots
  OBVIOUS
<1>4. s = [k \in 1..n |-> vgpus[k].pci]
  BY <1>2, <1>3 DEF VGPUSlots
<1>5. s \in Seq(1..N) /\ Len(s) = n /\ \A k \in 1..n: s[k] = vgpus[k].pci
  BY <1>2, <1>4
<1>6. Lists(s, VGPUs)
  BY <1>3 DEF Scanning
<1>7. /\ \A k \in 1..n: s[k] \in VGPUs
      /\ \A i \in VGPUs: \E k \in 1..n: s[k] = i
  BY <1>5, <1>6, ListedSlots
<1>8. ASSUME NEW k \in 1..n
      PROVE  /\ Meant(k) \in CapabilityType /\ RecordsEnd(Meant(k))
             /\ IsCopy(vgpus[k].capability, Meant(k))
  <2>1. vgpus[k].pci \in VGPUs
    BY <1>5, <1>7
  <2>2. slots[vgpus[k].pci] \in Images /\ IsVGPU(slots[vgpus[k].pci])
    BY <1>2, <2>1, StateFacts DEF VGPUs
  <2>3. QED BY <1>2, <2>2, VGPUFacts DEF Meant, Scanning
<1>9. dev \in Nat /\ dev >= 1
  BY StateFacts DEF TypeOK
<1>10. QED BY <1>1, <1>2, <1>3, <1>5, <1>6, <1>7, <1>8, <1>9

-----------------------------------------------------------------------------
(* Stopping.                                                               *)
LEMMA StopKeeps ==
  ASSUME IInv, NEW how \in Terminal, Stop(how), how = "error" \/ bus, Outcome'
  PROVE  IInv'
<1>1. /\ pc' = how /\ how \in {"done", "error", "panic"}
      /\ UNCHANGED <<pci, devices, dev, pos, visited, vgpus, labels>>
  BY DEF Stop, Terminal
<1>2. UNCHANGED <<slots, bus, plugged, entries>>
  BY <1>1 DEF pci
<1>3. TypeOK'
  BY <1>1, <1>2 DEF IInv, TypeOK, Terminal
<1>4. Reading'
  BY <1>1, <1>2 DEF IInv, Reading
<1>5. Scanning'
  BY <1>1, <1>2 DEF IInv, Scanning
<1>6. Walking'
  BY <1>1 DEF Walking
<1>7. Reporting'
  BY <1>1 DEF Reporting
<1>8. QED BY <1>3, <1>4, <1>5, <1>6, <1>7 DEF IInv

(* A device that cannot be walked stops it, and is the first of its kind. *)
LEMMA StopsAtDevice ==
  ASSUME IInv, pc \in {"scan", "walk"}, dev <= Len(devices), devices[dev] \in Unwalkable,
         NEW how, how = (IF Silent(devices[dev]) THEN "panic" ELSE "error"), Stop(how)
  PROVE  IInv'
<1>1. TypeOK /\ Reading /\ Scanning
  BY DEF IInv
<1>2. bus /\ Lists(devices, Here) /\ devices \in Seq(1..N)
  BY <1>1 DEF TypeOK, Reading
<1>3. dev \in 1..Len(devices)
  BY <1>1, DeviceFacts
<1>4. \A j \in 1..(dev - 1): devices[j] \notin Unwalkable
  BY <1>1 DEF Scanning, Scanned
<1>5. Min(Unwalkable) = devices[dev]
  <2>1. Unwalkable \subseteq Here
    BY <1>1, StateFacts
  <2>2. QED BY <1>2, <1>3, <1>4, <2>1, FirstListed
<1>6. /\ pc' = how /\ how \in Terminal
      /\ UNCHANGED <<slots, bus, plugged, entries, labels>>
  BY DEF Stop, Terminal, pci
<1>7. Unwalkable' = Unwalkable
  BY <1>6, Frame
<1>8. AsMeant'
  <2>1. pc' = IF Silent(Min(Unwalkable)) THEN "panic" ELSE "error"
    BY <1>5, <1>6
  <2>2. pc' = (IF Silent(Min(Unwalkable)) THEN "panic" ELSE "error")'
    BY <1>6, <1>7, <2>1 DEF Silent
  <2>3. Unwalkable' # {}
    BY <1>7
  <2>4. QED BY <2>2, <2>3 DEF AsMeant
<1>9. Outcome'
  BY <1>2, <1>6, <1>8 DEF Outcome
<1>10. QED BY <1>2, <1>6, <1>9, StopKeeps

(* A vGPU without a complete version stops it. *)
LEMMA StopsAtVGPU ==
  ASSUME IInv, pc \in {"info", "record"}, dev <= Len(vgpus), ~IsComplete(Meant(dev)),
         NEW how, how = (IF IsOpen(Meant(dev)) THEN "panic" ELSE "error"), Stop(how)
  PROVE  IInv'
<1>1. TypeOK /\ Reading /\ Scanning /\ Reporting /\ Unwalkable = {}
  BY DEF IInv, Scanning
<1>2. bus
  BY <1>1 DEF Reading
<1>3. dev \in 1..Len(vgpus) /\ dev \in 1..Len(VGPUSlots)
  BY <1>1, VGPUListFacts
<1>4. VGPUSlots \in Seq(1..N) /\ Lists(VGPUSlots, VGPUs)
  BY <1>1, VGPUListFacts
<1>5. \A k \in 1..Len(vgpus): VGPUSlots[k] = vgpus[k].pci /\ vgpus[k].pci \in VGPUs
  BY <1>1, VGPUListFacts
<1>6. \A k \in 1..Len(vgpus): VGPUSlots[k] \in Failing <=> ~IsComplete(Meant(k))
  BY <1>5 DEF Failing, Meant
<1>7. \A j \in 1..(dev - 1): VGPUSlots[j] \notin Failing
  <2>1. \A j \in 1..(dev - 1): j \in 1..Len(vgpus)
    BY <1>1, VGPUListFacts
  <2>2. \A j \in 1..(dev - 1): IsComplete(Meant(j))
    BY <1>1 DEF Reporting
  <2>3. QED BY <1>6, <2>1, <2>2
<1>8. VGPUSlots[dev] \in Failing /\ Failing \in SUBSET VGPUs
  BY <1>1, <1>3, <1>6, StateFacts
<1>9. Min(Failing) = VGPUSlots[dev]
  <2>1. PICK s: s = VGPUSlots
    OBVIOUS
  <2>2. /\ s \in Seq(1..N) /\ Lists(s, VGPUs) /\ dev \in 1..Len(s) /\ s[dev] \in Failing
        /\ \A j \in 1..(dev - 1): s[j] \notin Failing
    BY <1>3, <1>4, <1>7, <1>8, <2>1
  <2>3. Min(Failing) = s[dev]
    BY <1>8, <2>2, FirstListed
  <2>4. QED BY <2>1, <2>3
<1>10. /\ pc' = how /\ how \in Terminal
       /\ UNCHANGED <<slots, bus, plugged, entries, labels>>
  BY DEF Stop, Terminal, pci
<1>11. Unwalkable' = {} /\ Failing' = Failing /\ Failing # {}
  BY <1>1, <1>8, <1>10, Frame
<1>12. AsMeant'
  <2>1. CapabilityOf(slots[Min(Failing)]) = Meant(dev)
    BY <1>3, <1>5, <1>9 DEF Meant
  <2>2. pc' = IF IsOpen(CapabilityOf(slots[Min(Failing)])) THEN "panic" ELSE "error"
    BY <1>10, <2>1
  <2>3. pc' = (IF IsOpen(CapabilityOf(slots[Min(Failing)])) THEN "panic" ELSE "error")'
    BY <1>10, <1>11, <2>2
  <2>4. QED BY <1>11, <2>3 DEF AsMeant
<1>13. Outcome'
  BY <1>2, <1>10, <1>12 DEF Outcome
<1>14. QED BY <1>2, <1>10, <1>13, StopKeeps

-----------------------------------------------------------------------------
(* Reading the devices.                                                    *)
LEMMA InitInvariant ==
  ASSUME Init
  PROVE  IInv
<1>1. /\ slots \in [1..N -> Images] /\ bus \in BOOLEAN /\ plugged \subseteq 1..N
      /\ entries = {} /\ devices = <<>> /\ pc = "list" /\ dev = 1 /\ pos = 0
      /\ visited = {} /\ vgpus = <<>> /\ labels = NoLabels
  BY DEF Init
<1>2. N \in Nat
  BY ConstantsAssumption
<1>3. TypeOK
  <2>1. labels \in [present: BOOLEAN, version: Seq(Bytes), branch: Seq(Bytes)]
    <3>1. <<>> \in Seq(Bytes)
      OBVIOUS
    <3>2. QED BY <1>1, <3>1 DEF NoLabels
  <2>2. devices \in Seq(1..N) /\ Len(devices) = 0 /\ Len(devices) <= Cardinality(entries)
    <3>1. Cardinality({}) = 0
      BY FS_EmptySet
    <3>2. QED BY <1>1, <3>1
  <2>3. vgpus \in Seq([pci: 1..N, capability: Seq(Bytes)]) /\ Len(vgpus) <= Len(devices)
    BY <1>1
  <2>4. entries \subseteq 1..N /\ visited \subseteq Bytes /\ dev \in 1..(N + 1) /\ pos \in 0..510
    BY <1>1, <1>2
  <2>5. QED BY <1>1, <2>1, <2>2, <2>3, <2>4 DEF TypeOK
<1>4. Reading
  <2>1. {i \in Here: i < dev} = {}
    BY <1>1 DEF Here
  <2>2. QED BY <1>1, <2>1, NoneListed DEF Reading
<1>5. Scanning
  BY <1>1 DEF Scanning
<1>6. Walking /\ Reporting /\ Outcome
  BY <1>1 DEF Walking, Reporting, Outcome, Terminal
<1>7. QED BY <1>3, <1>4, <1>5, <1>6 DEF IInv

(* Listing the devices. *)
LEMMA ListKeeps == IInv /\ List => IInv'
<1> SUFFICES ASSUME IInv, List PROVE IInv'
  OBVIOUS
<1>1. TypeOK /\ Reading /\ Scanning /\ Reporting /\ pc = "list"
  BY DEF IInv, List
<1>2. CASE ~bus /\ Stop("error")
  <2>1. Outcome'
    BY <1>2 DEF Stop, pci, Outcome
  <2>2. QED BY <1>2, <2>1, StopKeeps DEF Terminal
<1>3. CASE /\ bus /\ entries' = plugged /\ pc' = "read"
           /\ UNCHANGED <<slots, bus, plugged, devices, dev, pos, visited, vgpus, labels>>
  <2>1. dev = 1 /\ entries = {} /\ Lists(devices, {i \in Here: i < dev})
    BY <1>1 DEF Reading
  <2>2. N \in Nat
    BY ConstantsAssumption
  <2>3. {i \in Here: i < dev} = {} /\ {i \in Here: i < dev}' = {}
    <3>1. \A i \in 1..N: ~(i < 1)
      BY <2>2
    <3>2. plugged \subseteq 1..N
      BY <1>1 DEF TypeOK
    <3>3. QED BY <1>3, <2>1, <3>1, <3>2 DEF Here
  <2>4. Lists(devices, {i \in Here: i < dev})'
    BY <1>3, <2>1, <2>3
  <2>5. TypeOK'
    <3>1. Len(devices) <= Cardinality(entries')
      <4>1. devices \in Seq(1..N) /\ plugged \in SUBSET (1..N)
        BY <1>1 DEF TypeOK
      <4>2. Lists(devices, {})
        BY <2>1, <2>3
      <4>3. Cardinality({}) = Len(devices)
        BY <4>1, <4>2, ListLength
      <4>4. Cardinality(plugged) \in Nat
        BY <2>2, <4>1, FewSlots
      <4>5. QED BY <1>3, <4>3, <4>4, FS_EmptySet
    <3>2. QED BY <1>1, <1>3, <3>1 DEF TypeOK
  <2>6. Reading'
    BY <1>3, <2>4 DEF Reading
  <2>7. Scanning'
    BY <1>1, <1>3 DEF Scanning
  <2>8. Walking' /\ Reporting' /\ Outcome'
    BY <1>1, <1>3 DEF Walking, Reporting, Outcome, Terminal
  <2>9. QED BY <2>5, <2>6, <2>7, <2>8 DEF IInv
<1>4. QED BY <1>2, <1>3 DEF List

(* A device that goes. *)
LEMMA UnplugKeeps ==
  ASSUME IInv, NEW i \in 1..N, Unplug(i)
  PROVE  IInv'
<1>1. /\ pc = "read" /\ plugged' = plugged \ {i}
      /\ UNCHANGED <<slots, bus, entries, devices, pc, dev, pos, visited, vgpus, labels>>
  BY DEF Unplug
<1>2. Here' = Here /\ VGPUs' = VGPUs /\ Unwalkable' = Unwalkable
  BY <1>1, Frame
<1>3. TypeOK'
  BY <1>1 DEF IInv, TypeOK
<1>4. Reading'
  BY <1>1, <1>2 DEF IInv, Reading
<1>5. Scanning'
  BY <1>1 DEF IInv, Scanning
<1>6. Walking' /\ Reporting' /\ Outcome'
  BY <1>1 DEF IInv, Walking, Reporting, Outcome, Terminal
<1>7. QED BY <1>3, <1>4, <1>5, <1>6 DEF IInv

(* Reading the next device: the list stays in the order of the bus. *)
LEMMA ReadKeeps == IInv /\ Read => IInv'
<1> SUFFICES ASSUME IInv, Read PROVE IInv'
  OBVIOUS
<1>1. TypeOK /\ Reading /\ Scanning /\ Reporting /\ pc = "read" /\ bus
  BY DEF IInv, Reading, Read
<1>2. /\ N \in Nat /\ dev \in 1..(N + 1) /\ devices \in Seq(1..N) /\ Here \subseteq 1..N
      /\ Lists(devices, {i \in Here: i < dev}) /\ vgpus = <<>> /\ labels = NoLabels
  BY <1>1, StateFacts DEF TypeOK, Reading, Scanning, Reporting
<1>3. CASE dev \in entries \ plugged /\ Stop("error")
  <2>1. Outcome'
    BY <1>3 DEF Stop, pci, Outcome
  <2>2. QED BY <1>3, <2>1, StopKeeps DEF Terminal
<1>4. CASE /\ dev <= N /\ (dev \in entries => dev \in plugged)
           /\ devices' = IF dev \in entries /\ slots[dev].nvidia
                         THEN Append(devices, dev) ELSE devices
           /\ dev' = dev + 1
           /\ UNCHANGED <<pci, pc, pos, visited, vgpus, labels>>
  <2>1. UNCHANGED <<slots, bus, plugged, entries>> /\ dev' = dev + 1 /\ dev \in 1..N
    BY <1>2, <1>4 DEF pci
  <2>2. Here' = Here
    BY <2>1, Frame
  <2>3. dev \in Here <=> dev \in entries /\ slots[dev].nvidia
    BY DEF Here
  <2>4. devices' \in Seq(1..N)
    <3>1. PICK T: T = 1..N
      OBVIOUS
    <3>2. devices \in Seq(T) /\ dev \in T
      BY <1>2, <2>1, <3>1
    <3>3. Append(devices, dev) \in Seq(T)
      BY <3>2
    <3>4. devices' \in Seq(T)
      BY <1>4, <3>2, <3>3
    <3>5. QED BY <3>1, <3>4
  <2>5. Lists(devices', {i \in Here: i < dev + 1})
    <3>1. PICK S: S = {i \in Here: i < dev}
      OBVIOUS
    <3>2. \A i \in Here: i < dev + 1 <=> i < dev \/ i = dev
      BY <1>2
    <3>3. CASE dev \in Here
      <4>1. {i \in Here: i < dev + 1} = S \cup {dev}
        BY <3>1, <3>2, <3>3
      <4>2. devices' = Append(devices, dev)
        BY <1>4, <2>3, <3>3
      <4>3. Lists(devices, S) /\ \A i \in S: i < dev
        BY <1>2, <3>1
      <4>4. Lists(devices', S \cup {dev})
        BY <1>2, <2>1, <4>2, <4>3, ListMore
      <4>5. QED BY <4>1, <4>4
    <3>4. CASE dev \notin Here
      <4>1. {i \in Here: i < dev + 1} = S
        BY <3>1, <3>2, <3>4
      <4>2. devices' = devices
        BY <1>4, <2>3, <3>4
      <4>3. QED BY <1>2, <3>1, <4>1, <4>2
    <3>5. QED BY <3>3, <3>4
  <2>6. Len(devices') <= Cardinality(entries')
    <3>1. PICK S: S = {i \in Here: i < dev + 1}
      OBVIOUS
    <3>2. IsFiniteSet(S) /\ Cardinality(S) = Len(devices')
      BY <2>4, <2>5, <3>1, ListLength
    <3>3. S \in SUBSET entries /\ entries \in SUBSET (1..N)
      BY <1>1, <3>1 DEF Here, TypeOK
    <3>4. IsFiniteSet(entries)
      BY <3>3, FewSlots
    <3>5. QED BY <2>1, <3>2, <3>3, <3>4, FS_Subset
  <2>7. TypeOK'
    <3>1. vgpus' \in Seq([pci: 1..N, capability: Seq(Bytes)]) /\ Len(vgpus') <= Len(devices')
      <4>1. Len(devices') \in Nat
        BY <2>4
      <4>2. QED BY <1>2, <1>4, <4>1
    <3>2. dev' \in 1..(N + 1)
      BY <1>2, <2>1
    <3>3. QED BY <1>1, <1>4, <2>1, <2>4, <2>6, <3>1, <3>2 DEF TypeOK
  <2>8. Reading'
    <3>1. Lists(devices, {i \in Here: i < dev})'
      BY <2>1, <2>2, <2>5
    <3>2. QED BY <1>1, <1>4, <2>1, <3>1 DEF Reading
  <2>9. Scanning'
    BY <1>1, <1>2, <1>4 DEF Scanning
  <2>10. Walking' /\ Reporting' /\ Outcome'
    BY <1>1, <1>2, <1>4 DEF Walking, Reporting, Outcome, Terminal
  <2>11. QED BY <2>7, <2>8, <2>9, <2>10 DEF IInv
<1>5. CASE /\ dev = N + 1 /\ pc' = "scan" /\ dev' = 1
           /\ UNCHANGED <<pci, devices, pos, visited, vgpus, labels>>
  <2>1. UNCHANGED <<slots, bus, plugged, entries>>
    BY <1>5 DEF pci
  <2>2. /\ Here' = Here /\ VGPUs' = VGPUs /\ Unwalkable' = Unwalkable
    BY <2>1, Frame
  <2>3. {i \in Here: i < dev} = Here
    <3>1. \A i \in 1..N: i < N + 1
      BY <1>2
    <3>2. \A i \in Here: i < dev
      BY <1>2, <1>5, <3>1
    <3>3. QED BY <3>2
  <2>4. TypeOK'
    <3>1. 1 \in 1..(N + 1)
      BY <1>2
    <3>2. QED BY <1>1, <1>5, <2>1, <3>1 DEF TypeOK
  <2>5. Reading'
    BY <1>1, <1>2, <1>5, <2>1, <2>2, <2>3 DEF Reading
  <2>6. Scanning'
    <3>1. Scanned' = {}
      BY <1>5 DEF Scanned
    <3>2. VGPUSlots' = <<>>
      BY <1>2, <1>5 DEF VGPUSlots
    <3>3. Lists(VGPUSlots, Scanned \cap VGPUs)'
      BY <3>1, <3>2, NoneListed
    <3>4. dev' <= Len(devices') + 1
      <4>1. Len(devices) \in Nat
        BY <1>2
      <4>2. QED BY <1>5, <4>1
    <3>5. \A k \in DOMAIN vgpus': FALSE
      BY <1>2, <1>5
    <3>6. QED BY <1>5, <3>1, <3>3, <3>4, <3>5 DEF Scanning
  <2>7. Walking' /\ Reporting' /\ Outcome'
    BY <1>2, <1>5 DEF Walking, Reporting, Outcome, Terminal
  <2>8. QED BY <2>4, <2>5, <2>6, <2>7 DEF IInv
<1>6. QED BY <1>3, <1>4, <1>5 DEF Read

-----------------------------------------------------------------------------
(* Looking for the vGPUs among the devices.                                *)

(* The next device, when this one has been found to be a vGPU or not. *)
LEMMA NextDeviceKeeps ==
  ASSUME IInv, pc \in {"scan", "walk"}, dev <= Len(devices), NextDevice,
         devices[dev] \notin Unwalkable,
         \/ devices[dev] \notin VGPUs /\ vgpus' = vgpus
         \/ /\ devices[dev] \in VGPUs
            /\ \E bytes \in Seq(Bytes):
                 /\ IsCopy(bytes, CapabilityOf(slots[devices[dev]]))
                 /\ vgpus' = Append(vgpus, [pci |-> devices[dev], capability |-> bytes])
  PROVE  IInv'
<1>1. TypeOK /\ Reading /\ Scanning /\ Reporting /\ bus
  BY DEF IInv, Reading
<1>2. /\ pc' = "scan" /\ dev' = dev + 1
      /\ UNCHANGED <<slots, bus, plugged, entries, devices, pos, visited, labels>>
  BY DEF NextDevice, pci
<1>3. /\ N \in Nat /\ Len(devices) \in Nat /\ dev \in Nat /\ dev >= 1 /\ Len(devices) <= N
      /\ \A k \in 1..Len(devices): devices[k] \in Here /\ devices[k] \in 1..N
      /\ \A k \in 1..Len(devices): \A j \in 1..Len(devices): j < k => devices[j] < devices[k]
  BY <1>1, DeviceFacts, StateFacts
<1>4. dev \in 1..Len(devices) /\ dev + 1 \in 1..(N + 1) /\ dev + 1 <= Len(devices) + 1
  BY <1>3
<1>5. PICK x: x = devices[dev] /\ x \in Here /\ x \in 1..N
  BY <1>3, <1>4
<1>6. Here' = Here /\ VGPUs' = VGPUs /\ Unwalkable' = Unwalkable
  BY <1>2, Frame
<1>7. /\ Scanned \cap Unwalkable = {} /\ Lists(VGPUSlots, Scanned \cap VGPUs)
      /\ \A k \in DOMAIN vgpus: IsCopy(vgpus[k].capability, CapabilityOf(slots[vgpus[k].pci]))
  BY <1>1 DEF Scanning
<1>8. Scanned' = Scanned \cup {x}
  <2>1. Scanned' = {devices[k]: k \in 1..dev}
    <3>1. dev' - 1 = dev
      BY <1>2, <1>3
    <3>2. QED BY <1>2, <3>1 DEF Scanned
  <2>2. \A k \in 1..dev: k \in 1..(dev - 1) \/ k = dev
    BY <1>3
  <2>3. \A k \in 1..(dev - 1): k \in 1..dev
    BY <1>3
  <2>4. dev \in 1..dev
    BY <1>3
  <2>5. QED BY <1>5, <2>1, <2>2, <2>3, <2>4 DEF Scanned
<1>9. \A i \in Scanned: i < x
  <2>1. ASSUME NEW k \in 1..(dev - 1) PROVE devices[k] < x
    <3>1. k \in 1..Len(devices) /\ k < dev
      BY <1>3, <1>4
    <3>2. QED BY <1>3, <1>4, <1>5, <3>1
  <2>2. QED BY <2>1 DEF Scanned
<1>10. PICK n: n = Len(vgpus)
  OBVIOUS
<1>11. PICK T: T = [pci: 1..N, capability: Seq(Bytes)]
  OBVIOUS
<1>12. /\ vgpus \in Seq(T) /\ n \in Nat /\ DOMAIN vgpus = 1..n
       /\ \A k \in 1..n: vgpus[k].pci \in 1..N
  <2>1. vgpus \in Seq(T)
    BY <1>1, <1>11 DEF TypeOK
  <2>2. n \in Nat /\ DOMAIN vgpus = 1..n /\ \A k \in 1..n: vgpus[k] \in T
    BY <1>10, <2>1
  <2>3. QED BY <1>11, <2>1, <2>2
<1>13. VGPUSlots = [k \in 1..n |-> vgpus[k].pci]
  BY <1>12 DEF VGPUSlots
<1>14. VGPUSlots \in Seq(1..N) /\ Len(VGPUSlots) = n
  BY <1>12, <1>13
<1>15. /\ vgpus' \in Seq(T) /\ Lists(VGPUSlots', Scanned' \cap VGPUs)
       /\ VGPUSlots' \in Seq(1..N) /\ Len(VGPUSlots') = Len(vgpus')
       /\ \A k \in DOMAIN vgpus':
            IsCopy(vgpus'[k].capability, CapabilityOf(slots[vgpus'[k].pci]))
  <2>1. CASE devices[dev] \notin VGPUs /\ vgpus' = vgpus
    <3>1. Scanned' \cap VGPUs = Scanned \cap VGPUs
      BY <1>5, <1>8, <2>1
    <3>2. VGPUSlots' = VGPUSlots
      BY <2>1 DEF VGPUSlots
    <3>3. QED BY <1>7, <1>10, <1>12, <1>14, <2>1, <3>1, <3>2
  <2>2. ASSUME x \in VGPUs, NEW bytes \in Seq(Bytes), IsCopy(bytes, CapabilityOf(slots[x])),
               vgpus' = Append(vgpus, [pci |-> x, capability |-> bytes])
        PROVE  /\ vgpus' \in Seq(T) /\ Lists(VGPUSlots', Scanned' \cap VGPUs)
               /\ VGPUSlots' \in Seq(1..N) /\ Len(VGPUSlots') = Len(vgpus')
               /\ \A k \in DOMAIN vgpus':
                    IsCopy(vgpus'[k].capability, CapabilityOf(slots[vgpus'[k].pci]))
    <3>1. PICK e: e = [pci |-> x, capability |-> bytes]
      OBVIOUS
    <3>2. e \in T /\ e.pci = x /\ e.capability = bytes
      BY <1>5, <1>11, <3>1
    <3>3. /\ vgpus' \in Seq(T) /\ Len(vgpus') = n + 1 /\ DOMAIN vgpus' = 1..(n + 1)
          /\ vgpus'[n + 1] = e /\ \A k \in 1..n: vgpus'[k] = vgpus[k]
      BY <1>10, <1>12, <2>2, <3>1, <3>2
    <3>4. VGPUSlots' = Append(VGPUSlots, x)
      <4>1. VGPUSlots' = [k \in 1..(n + 1) |-> vgpus'[k].pci]
        BY <3>3 DEF VGPUSlots
      <4>2. ASSUME NEW k \in 1..(n + 1)
            PROVE  vgpus'[k].pci = IF k = n + 1 THEN x ELSE VGPUSlots[k]
        <5>1. CASE k = n + 1
          BY <3>2, <3>3, <5>1
        <5>2. CASE k # n + 1
          <6>1. k \in 1..n
            BY <1>12, <5>2
          <6>2. QED BY <1>13, <3>3, <5>2, <6>1
        <5>3. QED BY <5>1, <5>2
      <4>3. PICK s, t: s = VGPUSlots /\ t = VGPUSlots'
        OBVIOUS
      <4>4. s \in Seq(1..N) /\ Len(s) = n
        BY <1>14, <4>3
      <4>5. t = [k \in 1..(n + 1) |-> IF k = n + 1 THEN x ELSE s[k]]
        BY <4>1, <4>2, <4>3
      <4>6. Append(s, x) = [k \in 1..(n + 1) |-> IF k = n + 1 THEN x ELSE s[k]]
        BY <1>5, <4>4, AppendFacts
      <4>7. QED BY <4>3, <4>5, <4>6
    <3>5. Lists(VGPUSlots', (Scanned \cap VGPUs) \cup {x})
      BY <1>5, <1>7, <1>9, <1>14, <3>4, ListMore
    <3>6. (Scanned \cap VGPUs) \cup {x} = Scanned' \cap VGPUs
      BY <1>8, <2>2
    <3>7. VGPUSlots' \in Seq(1..N) /\ Len(VGPUSlots') = n + 1
      BY <1>5, <1>14, <3>4, AppendFacts
    <3>8. ASSUME NEW k \in 1..(n + 1)
          PROVE  IsCopy(vgpus'[k].capability, CapabilityOf(slots[vgpus'[k].pci]))
      <4>1. CASE k = n + 1
        BY <2>2, <3>2, <3>3, <4>1
      <4>2. CASE k # n + 1
        <5>1. k \in 1..n
          BY <1>12, <4>2
        <5>2. QED BY <1>7, <1>12, <3>3, <5>1
      <4>3. QED BY <4>1, <4>2
    <3>9. QED BY <3>3, <3>5, <3>6, <3>7, <3>8
  <2>3. QED BY <1>5, <2>1, <2>2
<1>16. Len(vgpus') <= Len(devices)
  <2>1. Lists(devices, Here) /\ devices \in Seq(1..N)
    BY <1>1 DEF Reading, TypeOK
  <2>2. IsFiniteSet(Here) /\ Cardinality(Here) = Len(devices)
    BY <2>1, ListLength
  <2>3. Scanned' \cap VGPUs \in SUBSET Here
    BY <1>1, StateFacts
  <2>4. Cardinality(Scanned' \cap VGPUs) = Len(VGPUSlots')
    BY <1>15, ListLength
  <2>5. Cardinality(Scanned' \cap VGPUs) <= Cardinality(Here)
    BY <2>2, <2>3, FS_Subset
  <2>6. QED BY <1>15, <2>2, <2>4, <2>5
<1>17. TypeOK'
  BY <1>1, <1>2, <1>4, <1>11, <1>15, <1>16 DEF TypeOK
<1>18. Reading'
  BY <1>1, <1>2, <1>6 DEF Reading
<1>19. Scanning'
  <2>1. Scanned' \cap Unwalkable = {}
    BY <1>5, <1>7, <1>8
  <2>2. QED BY <1>2, <1>4, <1>6, <1>15, <2>1 DEF Scanning
<1>20. Walking' /\ Reporting' /\ Outcome'
  BY <1>1, <1>2 DEF Walking, Reporting, Outcome, Terminal
<1>21. QED BY <1>17, <1>18, <1>19, <1>20 DEF IInv

(* The device looked at. *)
LEMMA DeviceIs ==
  ASSUME IInv, pc \in {"scan", "walk"}, dev <= Len(devices)
  PROVE  /\ Device = slots[devices[dev]] /\ Device \in Images /\ devices[dev] \in Here
         /\ Device.size \in {64, 256, 4096} /\ Device.alive \in BOOLEAN
         /\ devices[dev] \in VGPUs <=> IsVGPU(Device)
         /\ devices[dev] \in Unwalkable <=>
              Device.size < 256 \/ (Device.size = 256 /\ ~Device.alive)
         /\ Silent(devices[dev]) <=> Device.size = 256 /\ ~Device.alive
<1>1. TypeOK /\ Reading
  BY DEF IInv
<1>2. dev \in 1..Len(devices)
  BY <1>1, DeviceFacts
<1>3. devices[dev] \in Here /\ slots[devices[dev]] \in Images
  BY <1>1, <1>2, DeviceFacts
<1>4. Device.size \in {64, 256, 4096} /\ Device.alive \in BOOLEAN
  BY <1>3, ImageFacts DEF Device
<1>5. QED BY <1>3, <1>4 DEF Device, VGPUs, Unwalkable, Silent

(* The next device: the walk starts in its list, or passes it over. *)
LEMMA ScanKeeps == IInv /\ Scan => IInv'
<1> SUFFICES ASSUME IInv, Scan PROVE IInv'
  OBVIOUS
<1>1. TypeOK /\ Reading /\ Scanning /\ Reporting /\ pc = "scan" /\ bus /\ N \in Nat
  BY ConstantsAssumption DEF IInv, Scan, Reading
<1>2. /\ dev <= Len(devices) + 1 /\ Scanned \cap Unwalkable = {}
      /\ Lists(VGPUSlots, Scanned \cap VGPUs) /\ labels = NoLabels
  BY <1>1 DEF Scanning, Reporting
<1>3. CASE /\ dev = Len(devices) + 1 /\ pc' = "info" /\ dev' = 1
           /\ UNCHANGED <<pci, devices, pos, visited, vgpus, labels>>
  <2>1. UNCHANGED <<slots, bus, plugged, entries>>
    BY <1>3 DEF pci
  <2>2. Here' = Here /\ VGPUs' = VGPUs /\ Unwalkable' = Unwalkable
    BY <2>1, Frame
  <2>3. Here \subseteq Scanned
    <3>1. dev - 1 = Len(devices)
      BY <1>1, <1>3, DeviceFacts
    <3>2. \A i \in Here: \E k \in 1..Len(devices): devices[k] = i
      BY <1>1, DeviceFacts
    <3>3. QED BY <3>1, <3>2 DEF Scanned
  <2>4. Unwalkable = {} /\ Scanned \cap VGPUs = VGPUs
    BY <1>1, <1>2, <2>3, StateFacts
  <2>5. VGPUSlots' = VGPUSlots
    BY <1>3 DEF VGPUSlots
  <2>6. TypeOK'
    <3>1. 1 \in 1..(N + 1)
      BY <1>1
    <3>2. QED BY <1>1, <1>3, <2>1, <3>1 DEF TypeOK
  <2>7. Reading'
    BY <1>1, <1>3, <2>1, <2>2 DEF Reading
  <2>8. Scanning'
    BY <1>1, <1>2, <1>3, <2>1, <2>2, <2>4, <2>5 DEF Scanning
  <2>9. Reporting'
    <3>1. dev' <= Len(vgpus') + 1
      <4>1. Len(vgpus) \in Nat
        <5>1. PICK T: vgpus \in Seq(T)
          BY <1>1 DEF TypeOK
        <5>2. QED BY <5>1
      <4>2. QED BY <1>3, <4>1
    <3>2. \A k \in 1..(dev' - 1): FALSE
      BY <1>3
    <3>3. QED BY <1>2, <1>3, <3>1, <3>2 DEF Reporting
  <2>10. Walking' /\ Outcome'
    BY <1>3 DEF Walking, Outcome, Terminal
  <2>11. QED BY <2>6, <2>7, <2>8, <2>9, <2>10 DEF IInv
<1>4. CASE dev <= Len(devices) /\ Device.size < 256 /\ Stop("error")
  <2>1. devices[dev] \in Unwalkable /\ ~Silent(devices[dev])
    BY <1>1, <1>4, DeviceIs
  <2>2. QED BY <1>1, <1>4, <2>1, StopsAtDevice
<1>5. CASE /\ dev <= Len(devices) /\ Device.size >= 256 /\ ~Listed(Device)
           /\ NextDevice /\ UNCHANGED vgpus
  <2>1. Device.alive /\ ~Device.listed /\ Device \in Images
    BY <1>1, <1>5, DeviceIs DEF Listed
  <2>2. ~IsVGPU(Device)
    BY <2>1 DEF IsVGPU
  <2>3. devices[dev] \notin VGPUs /\ devices[dev] \notin Unwalkable
    BY <1>1, <1>5, <2>1, <2>2, DeviceIs
  <2>4. QED BY <1>1, <1>5, <2>3, NextDeviceKeeps
<1>6. CASE /\ dev <= Len(devices) /\ Device.size >= 256 /\ Listed(Device)
           /\ pc' = "walk" /\ pos' = ByteAt(Device, PciCapabilityList) /\ visited' = {}
           /\ UNCHANGED <<pci, devices, dev, vgpus, labels>>
  <2>1. UNCHANGED <<slots, bus, plugged, entries>>
    BY <1>6 DEF pci
  <2>2. Here' = Here /\ VGPUs' = VGPUs /\ Unwalkable' = Unwalkable
    BY <2>1, Frame
  <2>3. Device' = Device /\ Device \in Images /\ Device.size \in {64, 256, 4096}
    BY <1>1, <1>6, <2>1, DeviceIs DEF Device
  <2>4. pos' \in Bytes /\ pos' \in 0..510
    <3>1. PciCapabilityList \in Nat
      BY DEF PciCapabilityList
    <3>2. pos' \in Bytes
      BY <1>6, <2>3, <3>1, ByteAtIsByte
    <3>3. QED BY <3>2, ByteIs
  <2>5. IF Device.alive THEN OnTheWay(Device, pos', {}) ELSE pos' = 255
    <3>1. CASE Device.alive
      <4>1. Readable(Device)
        BY <1>6, <2>3, <3>1 DEF Readable
      <4>2. QED BY <1>6, <3>1, <4>1, WalkStarts
    <3>2. CASE ~Device.alive
      <4>1. PciCapabilityList \in Nat /\ PciCapabilityList < Device.size
        BY <1>6, <2>3 DEF PciCapabilityList
      <4>2. QED BY <1>6, <2>3, <3>2, <4>1, ByteOfDead
    <3>3. QED BY <3>1, <3>2
  <2>6. TypeOK'
    BY <1>1, <1>6, <2>1, <2>4 DEF TypeOK
  <2>7. Reading'
    BY <1>1, <1>6, <2>1, <2>2 DEF Reading
  <2>8. Scanning'
    <3>1. Scanned' = Scanned /\ VGPUSlots' = VGPUSlots
      BY <1>6 DEF Scanned, VGPUSlots
    <3>2. QED BY <1>1, <1>2, <1>6, <2>1, <2>2, <3>1 DEF Scanning
  <2>9. Walking'
    BY <1>6, <2>3, <2>5 DEF Walking
  <2>10. Reporting' /\ Outcome'
    BY <1>2, <1>6 DEF Reporting, Outcome, Terminal
  <2>11. QED BY <2>6, <2>7, <2>8, <2>9, <2>10 DEF IInv
<1>7. QED BY <1>3, <1>4, <1>5, <1>6 DEF Scan

(* A step of the walk over a list. *)
LEMMA WalkKeeps == IInv /\ Walk => IInv'
<1> SUFFICES ASSUME IInv, Walk PROVE IInv'
  OBVIOUS
<1>1. TypeOK /\ Reading /\ Scanning /\ Reporting /\ pc = "walk" /\ labels = NoLabels
  BY DEF IInv, Walk, Reporting
<1>2. /\ dev <= Len(devices) /\ Device.size >= 256 /\ Listed(Device)
      /\ IF Device.alive THEN OnTheWay(Device, pos, visited) ELSE pos = 255 /\ visited = {}
  BY <1>1 DEF IInv, Walking
<1>3. /\ Device = slots[devices[dev]] /\ Device \in Images /\ devices[dev] \in Here
      /\ Device.size \in {256, 4096} /\ Device.alive \in BOOLEAN
      /\ devices[dev] \in VGPUs <=> IsVGPU(Device)
      /\ devices[dev] \in Unwalkable <=> Device.size = 256 /\ ~Device.alive
      /\ Silent(devices[dev]) <=> Device.size = 256 /\ ~Device.alive
  BY <1>1, <1>2, DeviceIs
<1>4. pos \in Nat /\ pos + 0 = pos /\ visited \in SUBSET Nat /\ visited \subseteq Bytes
  BY <1>1, ByteIs DEF TypeOK
<1>5. At(0) = ByteAt(Device, pos) /\ At(1) = ByteAt(Device, pos + 1)
  BY <1>4 DEF At
<1>6. CASE ~Device.alive
  <2>1. pos = 255 /\ visited = {} /\ pos # 0
    BY <1>2, <1>6
  <2>2. pos + 2 >= Device.size <=> Device.size = 256
    BY <1>3, <2>1
  <2>3. CASE Device.size = 256
    <3>1. Stop("panic")
      BY <2>1, <2>2, <2>3 DEF Walk
    <3>2. QED BY <1>1, <1>2, <1>3, <1>6, <2>3, <3>1, StopsAtDevice
  <2>4. CASE Device.size # 256
    <3>1. At(0) = ChainBroken
      <4>1. pos \in Nat /\ pos < Device.size
        BY <1>3, <2>1, <2>4
      <4>2. QED BY <1>3, <1>5, <1>6, <4>1, ByteOfDead DEF ChainBroken
    <3>2. NextDevice /\ UNCHANGED vgpus
      BY <2>1, <2>2, <2>4, <3>1 DEF Walk
    <3>3. ~IsVGPU(Device)
      BY <1>6 DEF IsVGPU
    <3>4. QED BY <1>1, <1>2, <1>3, <2>4, <3>2, <3>3, NextDeviceKeeps
  <2>5. QED BY <2>3, <2>4
<1>7. CASE Device.alive
  <2>1. Readable(Device) /\ Device.listed /\ OnTheWay(Device, pos, visited)
    BY <1>2, <1>3, <1>7 DEF Readable, Listed
  <2>2. ~(pos + 2 >= Device.size)
    BY <2>1, WalkIn
  <2>3. devices[dev] \notin Unwalkable
    BY <1>3, <1>7
  <2>4. CASE /\ pos = 0 \/ pos \in visited \/ At(0) = ChainBroken
             /\ NextDevice /\ UNCHANGED vgpus
    <3>1. ~IsVGPU(Device)
      BY <1>5, <2>1, <2>4, WalkInVain
    <3>2. QED BY <1>1, <1>2, <1>3, <2>3, <2>4, <3>1, NextDeviceKeeps
  <2>5. CASE pos # 0 /\ At(0) = VendorSpecific /\ NextDevice /\ Found
    <3>1. Slice = SliceOf(Device, pos)
      BY DEF Slice, SliceOf, At
    <3>2. PICK s: s = Slice
      OBVIOUS
    <3>3. /\ s \in Seq(Bytes) /\ (IsVGPUDevice(s) <=> IsVGPU(Device))
          /\ IsVGPU(Device) => IsCopy(s, CapabilityOf(Device))
      BY <1>5, <2>1, <2>5, <3>1, <3>2, WalkFinds
    <3>4. vgpus' = IF IsVGPU(Device)
                   THEN Append(vgpus, [pci |-> devices[dev], capability |-> s]) ELSE vgpus
      BY <2>5, <3>2, <3>3 DEF Found
    <3>5. \/ devices[dev] \notin VGPUs /\ vgpus' = vgpus
          \/ /\ devices[dev] \in VGPUs
             /\ \E bytes \in Seq(Bytes):
                  /\ IsCopy(bytes, CapabilityOf(slots[devices[dev]]))
                  /\ vgpus' = Append(vgpus, [pci |-> devices[dev], capability |-> bytes])
      BY <1>3, <3>3, <3>4
    <3>6. QED BY <1>1, <1>2, <2>3, <2>5, <3>5, NextDeviceKeeps
  <2>6. CASE /\ pos # 0 /\ At(0) \notin {VendorSpecific, ChainBroken}
             /\ visited' = visited \cup {pos} /\ pos' = At(1)
             /\ UNCHANGED <<pci, devices, pc, dev, vgpus, labels>>
    <3>1. UNCHANGED <<slots, bus, plugged, entries>>
      BY <2>6 DEF pci
    <3>2. Here' = Here /\ VGPUs' = VGPUs /\ Unwalkable' = Unwalkable /\ Device' = Device
      BY <2>6, <3>1, Frame DEF Device
    <3>3. OnTheWay(Device, pos', visited')
      BY <1>4, <1>5, <2>1, <2>6, WalkGoesOn
    <3>4. pos' \in 0..510 /\ visited' \subseteq Bytes
      <4>1. pos' \in Bytes
        BY <1>3, <1>4, <1>5, <2>6, ByteAtIsByte
      <4>2. pos \in Bytes
        BY <1>4, <2>1, WalkIn, IsByte
      <4>3. QED BY <1>4, <2>6, <4>1, <4>2, ByteIs
    <3>5. TypeOK'
      BY <1>1, <2>6, <3>1, <3>4 DEF TypeOK
    <3>6. Reading'
      BY <1>1, <2>6, <3>1, <3>2 DEF Reading
    <3>7. Scanning'
      <4>1. Scanned' = Scanned /\ VGPUSlots' = VGPUSlots
        BY <2>6 DEF Scanned, VGPUSlots
      <4>2. QED BY <1>1, <2>6, <3>1, <3>2, <4>1 DEF Scanning
    <3>8. Walking'
      BY <1>2, <1>7, <2>6, <3>2, <3>3 DEF Walking
    <3>9. Reporting' /\ Outcome'
      BY <1>1, <2>6 DEF Reporting, Outcome, Terminal
    <3>10. QED BY <3>5, <3>6, <3>7, <3>8, <3>9 DEF IInv
  <2>7. QED BY <2>2, <2>4, <2>5, <2>6 DEF Walk
<1>8. QED BY <1>3, <1>6, <1>7

-----------------------------------------------------------------------------
(* Looking for the versions in the vGPUs' records.                         *)

(* The vGPU looked at. *)
LEMMA VGPUIs ==
  ASSUME IInv, pc \in {"info", "record"}, dev <= Len(vgpus)
  PROVE  /\ dev \in 1..Len(vgpus) /\ Records = vgpus[dev].capability /\ Records \in Seq(Bytes)
         /\ Meant(dev) \in CapabilityType /\ RecordsEnd(Meant(dev))
         /\ IsCopy(Records, Meant(dev))
<1>1. TypeOK /\ Scanning
  BY DEF IInv
<1>2. dev \in 1..Len(vgpus)
  BY <1>1, VGPUListFacts
<1>3. QED BY <1>1, <1>2, VGPUListFacts DEF Records

(* What stays while the records are read. *)
Rest == <<pci, devices, visited, vgpus>>
(* The invariant's parts about it. *)
LEMMA RestKeeps ==
  ASSUME IInv, pc \in {"info", "record"}, pc' \in {"info", "record"}, Rest' = Rest
  PROVE  /\ Reading' /\ Scanning' /\ Walking' /\ Outcome'
         /\ \A k \in 1..Len(vgpus): Meant(k)' = Meant(k)
<1>1. UNCHANGED <<slots, bus, plugged, entries, devices, visited, vgpus>>
  BY DEF Rest, pci
<1>2. Here' = Here /\ VGPUs' = VGPUs /\ Unwalkable' = Unwalkable /\ VGPUSlots' = VGPUSlots
  BY <1>1, Frame DEF VGPUSlots
<1>3. Reading'
  BY <1>1, <1>2 DEF IInv, Reading
<1>4. Scanning'
  BY <1>1, <1>2 DEF IInv, Scanning
<1>5. Walking' /\ Outcome'
  BY DEF Walking, Outcome, Terminal
<1>6. \A k \in 1..Len(vgpus): Meant(k)' = Meant(k)
  BY <1>1 DEF Meant
<1>7. QED BY <1>3, <1>4, <1>5, <1>6

(* The next vGPU, or the end. *)
LEMMA InfoKeeps == IInv /\ Info => IInv'
<1> SUFFICES ASSUME IInv, Info PROVE IInv'
  OBVIOUS
<1>1. TypeOK /\ Reading /\ Scanning /\ Reporting /\ pc = "info" /\ bus
  BY DEF IInv, Info, Reading
<1>2. /\ Unwalkable = {} /\ \A k \in 1..(dev - 1): IsComplete(Meant(k))
      /\ IF dev = 1 THEN labels = NoLabels ELSE Says(Meant(dev - 1))
  BY <1>1 DEF Scanning, Reporting
<1>3. /\ Len(vgpus) \in Nat /\ dev \in Nat /\ dev >= 1
      /\ VGPUSlots \in Seq(1..N) /\ Len(VGPUSlots) = Len(vgpus) /\ Lists(VGPUSlots, VGPUs)
      /\ \A k \in 1..Len(vgpus): VGPUSlots[k] = vgpus[k].pci /\ vgpus[k].pci \in VGPUs
      /\ \A i \in VGPUs: \E k \in 1..Len(vgpus): vgpus[k].pci = i
  BY <1>1, VGPUListFacts
<1>4. CASE dev = Len(vgpus) + 1 /\ Stop("done")
  <2>1. /\ pc' = "done" /\ UNCHANGED <<slots, bus, plugged, entries, labels>>
    BY <1>4 DEF Stop, pci
  <2>2. Failing = {}
    <3>1. ASSUME NEW i \in VGPUs PROVE IsComplete(CapabilityOf(slots[i]))
      <4>1. PICK k \in 1..Len(vgpus): vgpus[k].pci = i
        BY <1>3
      <4>2. k \in 1..(dev - 1)
        BY <1>3, <1>4
      <4>3. QED BY <1>2, <4>1, <4>2 DEF Meant
    <3>2. QED BY <3>1 DEF Failing
  <2>3. Unwalkable' = {} /\ Failing' = {} /\ VGPUs' = VGPUs
    BY <1>2, <2>1, <2>2, Frame
  <2>4. VGPUs = {} => labels = NoLabels
    <3>1. ASSUME VGPUs = {} PROVE dev = 1
      <4>1. \A k \in 1..Len(vgpus): FALSE
        BY <1>3, <3>1
      <4>2. QED BY <1>3, <1>4, <4>1
    <3>2. QED BY <1>2, <3>1
  <2>5. VGPUs # {} => Says(CapabilityOf(slots[Max(VGPUs)]))
    <3>1. SUFFICES ASSUME VGPUs # {} PROVE Says(CapabilityOf(slots[Max(VGPUs)]))
      OBVIOUS
    <3>2. PICK s: s = VGPUSlots
      OBVIOUS
    <3>3. s \in Seq(1..N) /\ Lists(s, VGPUs) /\ Len(s) = Len(vgpus)
      BY <1>3, <3>2
    <3>4. Len(vgpus) # 0
      BY <1>3, <3>1
    <3>5. Max(VGPUs) = s[Len(s)]
      BY <3>3, <3>4, LastListed
    <3>6. dev - 1 = Len(vgpus) /\ dev # 1 /\ Len(vgpus) \in 1..Len(vgpus)
      BY <1>3, <1>4, <3>4
    <3>7. Meant(dev - 1) = CapabilityOf(slots[Max(VGPUs)])
      BY <1>3, <3>2, <3>3, <3>5, <3>6 DEF Meant
    <3>8. QED BY <1>2, <3>6, <3>7
  <2>6. IF VGPUs = {} THEN labels = NoLabels ELSE Says(CapabilityOf(slots[Max(VGPUs)]))
    BY <2>4, <2>5
  <2>7. (IF VGPUs = {} THEN labels = NoLabels ELSE Says(CapabilityOf(slots[Max(VGPUs)])))'
    BY <2>1, <2>3, <2>6 DEF Says
  <2>8. AsMeant'
    BY <2>1, <2>3, <2>7 DEF AsMeant
  <2>9. Outcome'
    BY <1>1, <2>1, <2>8 DEF Outcome
  <2>10. QED BY <1>1, <1>4, <2>9, StopKeeps DEF Terminal
<1>5. CASE dev <= Len(vgpus) /\ ~InRange(RecordStart) /\ Stop("panic")
  <2>1. /\ Meant(dev) \in CapabilityType /\ IsCopy(Records, Meant(dev))
    BY <1>1, <1>5, VGPUIs
  <2>2. AtRecord(Meant(dev), 5) /\ ~(5 < Len(Records))
    BY <1>5, <2>1, RecordsStart DEF InRange, RecordStart
  <2>3. ~IsComplete(Meant(dev)) /\ IsOpen(Meant(dev))
    BY <2>1, <2>2, RunsOut
  <2>4. QED BY <1>1, <1>5, <2>3, StopsAtVGPU
<1>6. CASE /\ dev <= Len(vgpus) /\ InRange(RecordStart)
           /\ pc' = "record" /\ pos' = RecordStart
           /\ labels' = [labels EXCEPT !.present = TRUE]
           /\ UNCHANGED <<pci, devices, dev, visited, vgpus>>
  <2>1. Rest' = Rest /\ UNCHANGED <<slots, bus, plugged, entries>>
    BY <1>6 DEF Rest, pci
  <2>2. /\ Reading' /\ Scanning' /\ Walking' /\ Outcome'
        /\ \A k \in 1..Len(vgpus): Meant(k)' = Meant(k)
    BY <1>1, <1>6, <2>1, RestKeeps
  <2>3. Meant(dev) \in CapabilityType /\ dev \in 1..Len(vgpus)
    BY <1>1, <1>6, VGPUIs
  <2>4. /\ labels' \in [present: BOOLEAN, version: Seq(Bytes), branch: Seq(Bytes)]
        /\ labels'.present
    BY <1>1, <1>6 DEF TypeOK
  <2>5. TypeOK'
    BY <1>1, <1>6, <2>1, <2>4 DEF TypeOK, RecordStart
  <2>6. AtRecord(Meant(dev), pos)'
    <3>1. Meant(dev)' = Meant(dev)
      BY <1>6, <2>1 DEF Meant
    <3>2. AtRecord(Meant(dev), 5) /\ pos' = 5
      BY <1>6, <2>3, RecordsStart DEF RecordStart
    <3>3. QED BY <3>1, <3>2
  <2>7. \A k \in 1..(dev' - 1): IsComplete(Meant(k))'
    BY <1>2, <1>6, <2>1 DEF Meant
  <2>8. Reporting'
    BY <1>6, <2>4, <2>6, <2>7 DEF Reporting
  <2>9. QED BY <2>2, <2>5, <2>8 DEF IInv
<1>7. QED BY <1>4, <1>5, <1>6 DEF Info

(* The walk over the records of a vGPU, at one of them or behind. *)
LEMMA RecordIs ==
  ASSUME IInv, pc = "record"
  PROVE  /\ dev <= Len(vgpus) /\ labels.present /\ AtRecord(Meant(dev), pos)
         /\ Meant(dev) \in CapabilityType /\ RecordsEnd(Meant(dev))
         /\ Records \in Seq(Bytes) /\ IsCopy(Records, Meant(dev))
         /\ pos \in Nat /\ dev \in 1..Len(vgpus)
         /\ \A k \in 1..(dev - 1): IsComplete(Meant(k))
<1>1. TypeOK /\ Reporting
  BY DEF IInv
<1>2. /\ dev <= Len(vgpus) /\ labels.present /\ AtRecord(Meant(dev), pos)
      /\ \A k \in 1..(dev - 1): IsComplete(Meant(k))
  BY <1>1 DEF Reporting
<1>3. QED BY <1>1, <1>2, VGPUIs DEF TypeOK

(* A record that is skipped: reading its length never panics. *)
LEMMA SkipRecordKeeps == IInv /\ SkipRecord => IInv'
<1> SUFFICES ASSUME IInv, SkipRecord PROVE IInv'
  OBVIOUS
<1>1. TypeOK /\ pc = "record" /\ InRange(pos) /\ Byte(pos) # 0
  BY DEF IInv, SkipRecord
<1>2. /\ AtRecord(Meant(dev), pos) /\ Meant(dev) \in CapabilityType
      /\ IsCopy(Records, Meant(dev)) /\ pos \in Nat
      /\ dev <= Len(vgpus) /\ labels.present /\ dev \in 1..Len(vgpus)
      /\ \A k \in 1..(dev - 1): IsComplete(Meant(k))
  BY <1>1, RecordIs
<1>3. pos < Len(Records) /\ Records[pos + 1] # 0
  BY <1>1 DEF InRange, Byte
<1>4. /\ pos + 1 < Len(Records) /\ AtRecord(Meant(dev), pos + Records[pos + 2])
      /\ pos + Records[pos + 2] \in Nat /\ pos + Records[pos + 2] <= 64
  BY <1>2, <1>3, SkipsOn
<1>5. Byte(pos + 1) = Records[pos + 2]
  <2>1. pos + 1 + 1 = pos + 2
    BY <1>2
  <2>2. QED BY <2>1 DEF Byte
<1>6. /\ pos' = pos + Records[pos + 2]
      /\ UNCHANGED <<pci, devices, pc, dev, visited, vgpus, labels>>
  BY <1>4, <1>5 DEF SkipRecord, InRange
<1>7. Rest' = Rest /\ UNCHANGED <<slots, bus, plugged, entries>> /\ pc' = "record"
  BY <1>1, <1>6 DEF Rest, pci
<1>8. Reading' /\ Scanning' /\ Walking' /\ Outcome'
  BY <1>1, <1>7, RestKeeps
<1>9. pos' \in 0..510
  <2>1. PICK p \in Nat: p = pos + Records[pos + 2] /\ p <= 64
    BY <1>4
  <2>2. pos' = p
    BY <1>6, <2>1
  <2>3. QED BY <2>1, <2>2
<1>10. TypeOK'
  BY <1>1, <1>6, <1>7, <1>9 DEF TypeOK
<1>11. Reporting'
  <2>1. AtRecord(Meant(dev), pos)'
    <3>1. Meant(dev)' = Meant(dev)
      BY <1>6, <1>7 DEF Meant
    <3>2. QED BY <1>4, <1>6, <3>1
  <2>2. \A k \in 1..(dev' - 1): IsComplete(Meant(k))'
    BY <1>2, <1>6, <1>7 DEF Meant
  <2>3. QED BY <1>2, <1>6, <1>7, <2>1, <2>2 DEF Reporting
<1>12. QED BY <1>8, <1>10, <1>11 DEF IInv

(* Reading behind the records panics: none of them was the version. *)
LEMMA RunOutKeeps == IInv /\ RunOut => IInv'
<1> SUFFICES ASSUME IInv, RunOut PROVE IInv'
  OBVIOUS
<1>1. pc = "record" /\ ~(pos < Len(Records)) /\ Stop("panic")
  BY DEF RunOut, InRange
<1>2. /\ AtRecord(Meant(dev), pos) /\ Meant(dev) \in CapabilityType
      /\ IsCopy(Records, Meant(dev)) /\ dev <= Len(vgpus)
  BY <1>1, RecordIs
<1>3. ~IsComplete(Meant(dev)) /\ IsOpen(Meant(dev))
  BY <1>1, <1>2, RunsOut
<1>4. QED BY <1>1, <1>2, <1>3, StopsAtVGPU

(* The version: it is that of the record, or there is none. *)
LEMMA DriverVersionKeeps == IInv /\ DriverVersion => IInv'
<1> SUFFICES ASSUME IInv, DriverVersion PROVE IInv'
  OBVIOUS
<1>1. TypeOK /\ pc = "record" /\ pos < Len(Records) /\ Records[pos + 1] = 0
  BY DEF IInv, DriverVersion, InRange, Byte
<1>2. /\ AtRecord(Meant(dev), pos) /\ Meant(dev) \in CapabilityType /\ RecordsEnd(Meant(dev))
      /\ IsCopy(Records, Meant(dev)) /\ Records \in Seq(Bytes) /\ pos \in Nat
      /\ dev <= Len(vgpus) /\ labels.present /\ dev \in 1..Len(vgpus)
      /\ \A k \in 1..(dev - 1): IsComplete(Meant(k))
  BY <1>1, RecordIs
<1>3. /\ pos + 22 > Len(Records) => ~IsComplete(Meant(dev)) /\ ~IsOpen(Meant(dev))
      /\ pos + 22 <= Len(Records) =>
           /\ IsComplete(Meant(dev)) /\ DataOf(Meant(dev)) \in Seq(Bytes)
           /\ Len(DataOf(Meant(dev))) >= 20
           /\ \A j \in 1..20: Records[pos + 2 + j] = DataOf(Meant(dev))[j]
  <2>1. IsVersionRead(Meant(dev), Records, pos)
    BY <1>1, <1>2, AtVersion
  <2>2. QED BY <2>1 DEF IsVersionRead
<1>4. \/ pos + 22 > Len(Records) /\ Stop("error")
      \/ /\ pos + 22 <= Len(Records)
         /\ labels' = [labels EXCEPT !.version = Trim(SubSeq(Records, pos + 3, pos + 12)),
                                     !.branch = Trim(SubSeq(Records, pos + 13, pos + 22))]
         /\ pc' = "info" /\ dev' = dev + 1
         /\ UNCHANGED <<pci, devices, pos, visited, vgpus>>
  <2>1. pos + 2 + 10 = pos + 12 /\ pos + 12 + 10 = pos + 22 /\ pos + 12 + 1 = pos + 13
    BY <1>2
  <2>2. HostDriverVersionLength = 10 /\ HostDriverBranchLength = 10
    BY DEF HostDriverVersionLength, HostDriverBranchLength
  <2>3. QED BY <2>1, <2>2 DEF DriverVersion
<1>5. CASE pos + 22 > Len(Records) /\ Stop("error")
  BY <1>1, <1>2, <1>3, <1>5, StopsAtVGPU
<1>6. CASE /\ pos + 22 <= Len(Records)
           /\ labels' = [labels EXCEPT !.version = Trim(SubSeq(Records, pos + 3, pos + 12)),
                                       !.branch = Trim(SubSeq(Records, pos + 13, pos + 22))]
           /\ pc' = "info" /\ dev' = dev + 1
           /\ UNCHANGED <<pci, devices, pos, visited, vgpus>>
  <2>1. PICK data: data = DataOf(Meant(dev))
    OBVIOUS
  <2>2. /\ IsComplete(Meant(dev)) /\ data \in Seq(Bytes) /\ Len(data) >= 20
        /\ \A j \in 1..20: Records[pos + 2 + j] = data[j]
    BY <1>3, <1>6, <2>1
  <2>3. /\ SubSeq(Records, pos + 3, pos + 12) = SubSeq(data, 1, 10)
        /\ SubSeq(Records, pos + 13, pos + 22) = SubSeq(data, 11, 20)
        /\ SubSeq(data, 1, 10) \in Seq(Bytes) /\ SubSeq(data, 11, 20) \in Seq(Bytes)
    <3>1. PICK a \in Nat, b \in Nat: a = pos + 3 /\ b = pos + 13
      BY <1>2
    <3>2. a = pos + 3 + 0 /\ 1 = 1 + 0 /\ b = pos + 3 + 10 /\ 11 = 1 + 10
      BY <1>2, <3>1
    <3>3. \A k \in {0, 10}: SameField(Records, pos + 3 + k, data, 1 + k)
      BY <1>2, <2>2, SameFieldOf, Zenon
    <3>4. SameField(Records, pos + 3 + 0, data, 1 + 0) /\ SameField(Records, pos + 3 + 10, data, 1 + 10)
      BY <3>3, Zenon
    <3>5. SameField(Records, a, data, 1) /\ SameField(Records, b, data, 11)
      BY <3>2, <3>4, Zenon
    <3>6. QED BY <1>2, <1>6, <2>2, <3>1, <3>5, FieldsAre
  <2>4. PICK first, second: first = SubSeq(data, 1, 10) /\ second = SubSeq(data, 11, 20)
    OBVIOUS
  <2>5. /\ Trim(first) \in Seq(Bytes) /\ IsTextOf(Trim(first), first)
        /\ Trim(second) \in Seq(Bytes) /\ IsTextOf(Trim(second), second)
    BY <2>3, <2>4, TrimFacts
  <2>6. labels' = [labels EXCEPT !.version = Trim(first), !.branch = Trim(second)]
    BY <1>6, <2>3, <2>4
  <2>7. /\ labels' \in [present: BOOLEAN, version: Seq(Bytes), branch: Seq(Bytes)]
        /\ labels'.present /\ labels'.version = Trim(first) /\ labels'.branch = Trim(second)
    BY <1>1, <1>2, <2>5, <2>6 DEF TypeOK
  <2>8. Rest' = Rest /\ UNCHANGED <<slots, bus, plugged, entries>>
    BY <1>6 DEF Rest, pci
  <2>9. Reading' /\ Scanning' /\ Walking' /\ Outcome'
    BY <1>1, <1>6, <2>8, RestKeeps
  <2>10. PICK n \in Nat: n = Len(vgpus)
    <3>1. PICK T: vgpus \in Seq(T)
      BY <1>1 DEF TypeOK
    <3>2. QED BY <3>1
  <2>11. dev \in Nat /\ dev >= 1 /\ dev <= n
    BY <1>2, <2>10
  <2>12. dev + 1 \in 1..(N + 1)
    <3>1. Len(devices) \in Nat /\ Len(devices) <= N /\ N \in Nat
      <4>1. devices \in Seq(1..N) /\ entries \in SUBSET (1..N) /\ Len(devices) <= Cardinality(entries)
        BY <1>1 DEF TypeOK
      <4>2. Cardinality(entries) \in 0..N
        BY <4>1, FewSlots
      <4>3. Len(devices) \in Nat
        <5>1. PICK T: devices \in Seq(T)
          BY <4>1
        <5>2. QED BY <5>1
      <4>4. QED BY <4>1, <4>2, <4>3, ConstantsAssumption
    <3>2. n <= Len(devices)
      BY <1>1, <2>10 DEF TypeOK
    <3>3. QED BY <2>11, <3>1, <3>2
  <2>13. TypeOK'
    BY <1>1, <1>6, <2>7, <2>8, <2>12 DEF TypeOK
  <2>14. (Meant(dev - 1))' = Meant(dev)
    <3>1. dev' - 1 = dev
      BY <1>6, <2>11
    <3>2. QED BY <1>6, <2>8, <3>1 DEF Meant
  <2>15. Says(Meant(dev - 1))'
    <3>1. /\ SubSeq(data, 1, HostDriverVersionLength) = first
          /\ SubSeq(data, HostDriverVersionLength + 1,
                    HostDriverVersionLength + HostDriverBranchLength) = second
      <4>1. 10 + 1 = 11 /\ 10 + 10 = 20
        OBVIOUS
      <4>2. QED BY <2>4, <4>1 DEF HostDriverVersionLength, HostDriverBranchLength
    <3>2. DataOf((Meant(dev - 1))') = data
      BY <2>1, <2>14
    <3>3. QED BY <2>5, <2>7, <3>1, <3>2 DEF Says
  <2>16. \A k \in 1..(dev' - 1): IsComplete(Meant(k))'
    <3>1. \A k \in 1..(dev' - 1): k \in 1..(dev - 1) \/ k = dev
      BY <1>6, <2>11
    <3>2. QED BY <1>2, <1>6, <2>2, <2>8, <3>1 DEF Meant
  <2>17. dev' # 1 /\ dev' <= Len(vgpus') + 1
    BY <1>6, <2>10, <2>11
  <2>18. Reporting'
    BY <1>6, <2>15, <2>16, <2>17 DEF Reporting
  <2>19. QED BY <2>9, <2>13, <2>18 DEF IInv
<1>7. QED BY <1>4, <1>5, <1>6

-----------------------------------------------------------------------------
(* Every step keeps the invariant. *)
LEMMA NextKeeps == IInv /\ [Next]_vars => IInv'
<1> SUFFICES ASSUME IInv, [Next]_vars PROVE IInv'
  OBVIOUS
<1>1. CASE Step
  BY <1>1, ListKeeps, ReadKeeps, ScanKeeps, WalkKeeps, InfoKeeps, SkipRecordKeeps,
     RunOutKeeps, DriverVersionKeeps DEF Step
<1>2. CASE \E i \in 1..N: Unplug(i)
  BY <1>2, UnplugKeeps
<1>3. CASE UNCHANGED vars
  <2>1. UNCHANGED <<slots, bus, plugged, entries, devices, pc, dev, pos, visited, vgpus, labels>>
    BY <1>3 DEF vars, pci
  <2>2. /\ Here' = Here /\ VGPUs' = VGPUs /\ Unwalkable' = Unwalkable /\ Failing' = Failing
        /\ Scanned' = Scanned /\ VGPUSlots' = VGPUSlots /\ Device' = Device
    BY <2>1, Frame DEF Scanned, VGPUSlots, Device
  <2>3. TypeOK' /\ Reading' /\ Scanning' /\ Walking'
    BY <2>1, <2>2 DEF IInv, TypeOK, Reading, Scanning, Walking
  <2>4. Reporting'
    BY <2>1 DEF IInv, Reporting, Meant, Says
  <2>5. AsMeant' = AsMeant
    BY <2>1, <2>2 DEF AsMeant, Silent, Says
  <2>6. Outcome'
    BY <2>1, <2>5 DEF IInv, Outcome
  <2>7. QED BY <2>3, <2>4, <2>6 DEF IInv
<1>4. QED BY <1>1, <1>2, <1>3 DEF Next

(* IInv is an invariant: lists and offsets are where the bytes of what the *)
(* devices mean say they are, at every step of the walks.                  *)
THEOREM Invariance == Spec => []IInv
BY InitInvariant, NextKeeps, PTL DEF Spec

(* Offsets stay within what can be read, no device is walked twice, and    *)
(* there are no more vGPUs than devices.                                   *)
THEOREM TypeCorrect == Spec => []TypeOK
<1>1. IInv => TypeOK
  BY DEF IInv
<1>2. QED BY <1>1, Invariance, PTL

(* A pass that ends has the labels of the last vGPU that was listed, with  *)
(* the version it means, or fails because of the first device that cannot  *)
(* be walked or has no complete version; and it never panics otherwise.    *)
THEOREM OutcomeIsAsMeant == Spec => []Outcome
<1>1. IInv => Outcome
  BY DEF IInv
<1>2. QED BY <1>1, Invariance, PTL
=============================================================================
