----------------------------- MODULE LabelProofs -----------------------------
(***************************************************************************)
(* What the operators on labels do: a merge, seen from one resource; the   *)
(* labels of all models of GPUs, merged in any order; and what the labels  *)
(* of full GPUs, MIG devices and invalid configurations say.               *)
(***************************************************************************)
EXTENDS DiscoveryProofs, WellFoundedInduction

(* Sets: the least and greatest element, and the orders of their elements. *)

(* A nonempty set of naturals has a least element. *)
LEMMA Least ==
  ASSUME NEW S \in SUBSET Nat, S # {}
  PROVE  \E x \in S: \A y \in S: x <= y
<1> DEFINE R == OpToRel(<, Nat)
<1>1. \E x \in S: \A y \in S: ~ (<<y, x>> \in R)
  BY NatLessThanWellFounded, WFMin, Zenon
<1>2. \A x, y \in Nat: <<y, x>> \in R <=> y < x
  BY DEF OpToRel
<1> HIDE DEF R
<1>3. PICK x \in S: \A y \in S: ~ (<<y, x>> \in R)
  BY <1>1
<1>4. \A y \in S: ~ (y < x)
  BY <1>2, <1>3
<1>5. QED BY <1>4

(* What Min, a CHOOSE, returns. *)
LEMMA MinOf ==
  ASSUME NEW S \in SUBSET Nat, S # {}
  PROVE  Min(S) \in S /\ \A y \in S: Min(S) <= y
  BY Least DEF Min

(* The greatest element is the least upper bound. *)
LEMMA MaxOf ==
  ASSUME NEW S \in SUBSET Nat, S # {}, NEW n \in Nat, \A x \in S: x <= n
  PROVE  Max(S) \in S /\ \A y \in S: y <= Max(S)
<1> DEFINE Bounds == {b \in Nat: \A x \in S: x <= b}
<1>1. PICK b \in Bounds: \A c \in Bounds: b <= c
  <2>1. n \in Bounds /\ Bounds \in SUBSET Nat
    OBVIOUS
  <2>2. Bounds # {}
    BY <2>1
  <2> HIDE DEF Bounds
  <2>3. QED BY <2>1, <2>2, Least
<1>2. b \in S
  <2>1. SUFFICES ASSUME b \notin S PROVE FALSE
    OBVIOUS
  <2>2. PICK x \in S: TRUE
    OBVIOUS
  <2>3. \A y \in S: y <= b - 1
    BY <2>1
  <2>4. b - 1 \in Nat
    BY <2>2, <2>3
  <2>5. b - 1 \in Bounds
    BY <2>3, <2>4
  <2>6. QED BY <1>1, <2>4, <2>5
<1>3. \E x \in S: \A y \in S: x >= y
  BY <1>1, <1>2
<1>4. Max(S) \in S /\ \A y \in S: Max(S) >= y
  BY <1>3 DEF Max
<1>5. QED BY <1>4

(* A set enumerated: each of its elements once, and all of them. *)
LEMMA Enumerated ==
  ASSUME NEW S, IsFiniteSet(S), NEW s \in SetToSeqs(S)
  PROVE  /\ Cardinality(S) \in Nat
         /\ s \in [1..Cardinality(S) -> S]
         /\ \A i, j \in 1..Cardinality(S): s[i] = s[j] => i = j
         /\ \A x \in S: \E i \in 1..Cardinality(S): s[i] = x
         /\ S = {} <=> Cardinality(S) = 0
<1> DEFINE n == Cardinality(S)
<1>1. n \in Nat
  BY FS_CardinalityType
<1>2. s \in [1..n -> S] /\ \A i, j \in 1..n: i # j => s[i] # s[j]
  BY DEF SetToSeqs
<1>3. s \in Injection(1..n, S)
  BY <1>2 DEF Injection, IsInjective
<1>4. Cardinality(1..n) = n
  <2>1. 1 \in Int /\ n \in Int
    BY <1>1
  <2>2. Cardinality(1..n) = IF 1 > n THEN 0 ELSE n - 1 + 1
    BY <2>1, FS_Interval
  <2>3. QED BY <1>1, <2>2
<1>5. s \in Surjection(1..n, S)
  BY <1>3, <1>4, FS_Injection
<1>6. \A x \in S: \E i \in 1..n: s[i] = x
  BY <1>5 DEF Surjection
<1>7. S = {} <=> n = 0
  BY FS_EmptySet
<1>8. QED BY <1>1, <1>2, <1>6, <1>7

(* At most one element. *)
LEMMA OneElement ==
  ASSUME NEW S, IsFiniteSet(S), Cardinality(S) <= 1
  PROVE  \A x, y \in S: x = y
<1>1. SUFFICES ASSUME NEW x \in S, NEW y \in S, x # y PROVE FALSE
  OBVIOUS
<1>2. IsFiniteSet({x}) /\ Cardinality({x}) = 1
  BY FS_Singleton
<1>3. {x} \cup {y} = {x, y} /\ y \notin {x}
  BY <1>1
<1>4. Cardinality({x} \cup {y}) = 2
  <2>1. Cardinality({x} \cup {y}) = IF y \in {x} THEN Cardinality({x}) ELSE Cardinality({x}) + 1
    BY <1>2, FS_AddElement, Zenon
  <2>2. Cardinality({x} \cup {y}) = Cardinality({x}) + 1
    BY <1>3, <2>1, Zenon
  <2>3. QED BY <1>2, <2>2
<1>5. {x, y} \subseteq S /\ Cardinality({x, y}) <= Cardinality(S)
  BY FS_Subset
<1>6. Cardinality(S) \in Nat
  BY FS_CardinalityType
<1>7. QED BY <1>1, <1>3, <1>4, <1>5, <1>6

-----------------------------------------------------------------------------
(* The algebra of label sets.                                              *)

(* No labels speak of nothing. *)
LEMMA EmptyOf == IsLabels(Empty) /\ \A r: Of(Empty, r) = Empty
  BY DEF Empty, Of, IsLabels, IsFunction

(* The suffixes of which a label set speaks. *)
LEMMA SuffixesOf ==
  ASSUME NEW a, IsLabels(a), NEW r
  PROVE  /\ \A s: s \in DOMAIN Of(a, r) <=> <<r, s>> \in DOMAIN a
         /\ \A s \in DOMAIN Of(a, r): Of(a, r)[s] = a[<<r, s>>]
  BY DEF Of, IsLabels

(* Of builds a function. *)
LEMMA OfIsFunction ==
  ASSUME NEW a, NEW r
  PROVE  IsFunction(Of(a, r))
  BY DEF Of, IsFunction

(* Functions are the same if they have the same domain and values. *)
LEMMA SameFunction ==
  ASSUME NEW f, NEW g, IsFunction(f), IsFunction(g), DOMAIN f = DOMAIN g,
         \A x \in DOMAIN f: f[x] = g[x]
  PROVE  f = g
  BY DEF IsFunction

(* Labels speak of their resource, and of no other. *)
LEMMA LabelsOf ==
  ASSUME NEW r, NEW values, IsFunction(values)
  PROVE  /\ IsLabels(Labels(r, values))
         /\ Of(Labels(r, values), r) = values
         /\ \A other: other # r => Of(Labels(r, values), other) = Empty
<1>1. IsLabels(Labels(r, values))
  BY DEF IsLabels, IsFunction, Labels
<1>2. Of(Labels(r, values), r) = values
  <2> DEFINE said == Of(Labels(r, values), r)
  <2>1. \A s: s \in DOMAIN said <=> s \in DOMAIN values
    <3> DEFINE l == Labels(r, values)
    <3>1. \A s: <<r, s>> \in DOMAIN l <=> s \in DOMAIN values
      BY DEF Labels
    <3>2. IsLabels(l)
      BY <1>1
    <3> HIDE DEF l
    <3>3. \A s: s \in DOMAIN Of(l, r) <=> <<r, s>> \in DOMAIN l
      BY <3>2, SuffixesOf
    <3>4. \A s: s \in DOMAIN Of(l, r) <=> s \in DOMAIN values
      BY <3>1, <3>3
    <3>5. QED BY <3>4 DEF l
  <2>2. \A s \in DOMAIN said: said[s] = values[s]
    BY DEF Labels, Of
  <2>3. IsFunction(said)
    BY DEF Of, IsFunction
  <2> HIDE DEF said
  <2>4. DOMAIN said = DOMAIN values
    BY <2>1
  <2>5. said = values
    BY <2>2, <2>3, <2>4, SameFunction
  <2>6. QED BY <2>5 DEF said
<1>3. ASSUME NEW other, other # r PROVE Of(Labels(r, values), other) = Empty
  <2>1. {k \in DOMAIN Labels(r, values): k[1] = other} = {}
    BY <1>3 DEF Labels
  <2>2. QED BY <2>1 DEF Of, Empty
<1>4. QED BY <1>1, <1>2, <1>3

(* What a merge says of each resource is what its parts say, merged. *)
LEMMA MergeOf ==
  ASSUME NEW a, NEW b, IsLabels(a), IsLabels(b)
  PROVE  /\ IsLabels(Merge(a, b))
         /\ \A r: Of(Merge(a, b), r) = Merge(Of(a, r), Of(b, r))
<1>1. IsLabels(Merge(a, b))
  BY DEF IsLabels, IsFunction, Merge
<1>2. ASSUME NEW r PROVE Of(Merge(a, b), r) = Merge(Of(a, r), Of(b, r))
  <2>1. \A s: s \in DOMAIN Of(a, r) <=> <<r, s>> \in DOMAIN a
    BY DEF Of, IsLabels
  <2>2. \A s: s \in DOMAIN Of(b, r) <=> <<r, s>> \in DOMAIN b
    BY DEF Of, IsLabels
  <2>3. \A s: s \in DOMAIN Of(Merge(a, b), r) <=> <<r, s>> \in DOMAIN Merge(a, b)
    BY <1>1 DEF Of, IsLabels
  <2>4. DOMAIN Of(Merge(a, b), r) = DOMAIN Of(a, r) \cup DOMAIN Of(b, r)
    BY <2>1, <2>2, <2>3 DEF Merge
  <2>5. QED BY <2>1, <2>2, <2>4 DEF Merge, Of
<1>3. QED BY <1>1, <1>2

(* The merge of functions. *)
LEMMA MergeFacts ==
  ASSUME NEW a, NEW b
  PROVE  /\ IsFunction(Merge(a, b))
         /\ DOMAIN Merge(a, b) = DOMAIN a \cup DOMAIN b
         /\ \A x \in DOMAIN Merge(a, b): Merge(a, b)[x] = IF x \in DOMAIN b THEN b[x] ELSE a[x]
  BY DEF Merge, IsFunction

(* Empty is a function without arguments. *)
LEMMA EmptyFacts == IsFunction(Empty) /\ DOMAIN Empty = {}
  BY DEF Empty, IsFunction

(* Empty is neutral in a merge. *)
LEMMA MergeEmpty ==
  ASSUME NEW a, IsFunction(a)
  PROVE  Merge(a, Empty) = a /\ Merge(Empty, a) = a
<1>1. Merge(a, Empty) = a
  <2>1. DOMAIN Merge(a, Empty) = DOMAIN a
    BY EmptyFacts DEF Merge
  <2>2. \A x \in DOMAIN a: Merge(a, Empty)[x] = a[x]
    BY EmptyFacts DEF Merge
  <2>3. IsFunction(Merge(a, Empty))
    BY MergeFacts
  <2>4. QED BY <2>1, <2>2, <2>3, SameFunction
<1>2. Merge(Empty, a) = a
  <2>1. DOMAIN Merge(Empty, a) = DOMAIN a
    BY EmptyFacts DEF Merge
  <2>2. \A x \in DOMAIN a: Merge(Empty, a)[x] = a[x]
    BY EmptyFacts DEF Merge
  <2>3. IsFunction(Merge(Empty, a))
    BY MergeFacts
  <2>4. QED BY <2>1, <2>2, <2>3, SameFunction
<1>3. QED BY <1>1, <1>2

(* Labels with all the keys of others replace them. *)
LEMMA MergeOver ==
  ASSUME NEW a, NEW b, IsFunction(b), DOMAIN a \subseteq DOMAIN b
  PROVE  Merge(a, b) = b
<1>1. DOMAIN Merge(a, b) = DOMAIN b
  BY MergeFacts
<1>2. QED BY <1>1, MergeFacts, SameFunction

(* Merging is associative. *)
LEMMA MergeAssoc ==
  ASSUME NEW a, NEW b, NEW c
  PROVE  Merge(Merge(a, b), c) = Merge(a, Merge(b, c))
<1> DEFINE left == Merge(Merge(a, b), c)
<1> DEFINE right == Merge(a, Merge(b, c))
<1>1. /\ DOMAIN left = DOMAIN a \cup DOMAIN b \cup DOMAIN c
      /\ DOMAIN right = DOMAIN a \cup DOMAIN b \cup DOMAIN c
  BY DEF Merge
<1>2. \A x \in DOMAIN left: left[x] = right[x]
  BY DEF Merge
<1>3. IsFunction(left) /\ IsFunction(right)
  BY DEF Merge, IsFunction
<1> HIDE DEF left, right
<1>4. left = right
  BY <1>1, <1>2, <1>3, SameFunction
<1>5. QED BY <1>4 DEF left, right

(* Two label sets that say the same of each resource are the same. *)
LEMMA SameLabels ==
  ASSUME NEW a, NEW b, IsLabels(a), IsLabels(b), \A r: Of(a, r) = Of(b, r)
  PROVE  a = b
<1>1. ASSUME NEW x, NEW y, IsLabels(x), IsLabels(y), \A r: Of(x, r) = Of(y, r)
      PROVE  \A key \in DOMAIN x: key \in DOMAIN y /\ x[key] = y[key]
  <2>1. SUFFICES ASSUME NEW key \in DOMAIN x
                 PROVE  key \in DOMAIN y /\ x[key] = y[key]
    OBVIOUS
  <2>2. key = <<key[1], key[2]>>
    BY <1>1 DEF IsLabels
  <2>3. key[2] \in DOMAIN Of(x, key[1]) /\ Of(x, key[1])[key[2]] = x[key]
    BY <1>1, <2>2, SuffixesOf
  <2>4. key[2] \in DOMAIN Of(y, key[1]) /\ Of(y, key[1])[key[2]] = x[key]
    BY <1>1, <2>3
  <2>5. QED BY <1>1, <2>2, <2>4, SuffixesOf
<1>2. DOMAIN a = DOMAIN b /\ \A key \in DOMAIN a: a[key] = b[key]
  BY <1>1
<1>3. QED BY <1>2, SameFunction DEF IsLabels

-----------------------------------------------------------------------------
(* Labels that speak of one resource only, and say these values of it.     *)
About(l, res, values) ==
  /\ IsLabels(l)
  /\ Of(l, res) = values
  /\ \A other: other # res => Of(l, other) = Empty

(* The builders of labels, one after another, speak of one resource. *)
LEMMA AboutEmpty ==
  ASSUME NEW res
  PROVE  About(Empty, res, Empty)
  BY EmptyOf DEF About

(* Label, for a single suffix. *)
LEMMA AboutLabel ==
  ASSUME NEW res, NEW suffix, NEW value
  PROVE  About(Label(res, suffix, value), res, [s \in {suffix} |-> value])
<1> DEFINE values == [s \in {suffix} |-> value]
<1>1. Label(res, suffix, value) = Labels(res, values)
  BY DEF Label, Labels
<1>2. IsFunction(values)
  BY DEF IsFunction
<1> HIDE DEF values
<1>3. About(Label(res, suffix, value), res, values)
  BY <1>1, <1>2, LabelsOf DEF About
<1>4. QED BY <1>3 DEF values

(* Labels, for several. *)
LEMMA AboutLabels ==
  ASSUME NEW res, NEW values, IsFunction(values)
  PROVE  About(Labels(res, values), res, values)
  BY LabelsOf DEF About

(* Merging the labels of a resource merges what they say. *)
LEMMA AboutMerge ==
  ASSUME NEW res, NEW a, NEW b, NEW u, NEW v, About(a, res, u), About(b, res, v)
  PROVE  About(Merge(a, b), res, Merge(u, v))
<1>1. Merge(Empty, Empty) = Empty
  BY MergeEmpty, EmptyFacts
<1>2. QED BY <1>1, MergeOf DEF About

(* The three labels that every resource has. *)
ThreeLabels(product, count, replicas) ==
  [product |-> product, count |-> count, replicas |-> replicas]

(* The merges of BaseLabels give a record. *)
LEMMA ThreeMerged ==
  ASSUME NEW p, NEW c, NEW r
  PROVE  Merge(Merge([s \in {"product"} |-> p], [s \in {"count"} |-> c]),
               [s \in {"replicas"} |-> r]) = ThreeLabels(p, c, r)
  BY DEF Merge, ThreeLabels

(* What the product and the replicas of a resource are. *)
ProductParts(config, res, parts) ==
  IF IsShared(config, res) /\ ~IsRenamed(config, res) THEN Append(parts, "SHARED") ELSE parts
ReplicasOf(config, res) ==
  IF config = NoConfig THEN 0 ELSE IF IsListed(config, res) THEN config.replicas[res] ELSE 1

(* BaseLabels, with or without sharing. *)
LEMMA AboutBase ==
  ASSUME NEW config, NEW res, NEW count, NEW parts
  PROVE  About(BaseLabels(config, res, count, parts), res,
               ThreeLabels(ProductParts(config, res, parts), count, ReplicasOf(config, res)))
<1> DEFINE product == ProductLabel(config, res, parts)
<1> DEFINE replicas == ReplicasLabel(config, res)
<1> DEFINE n == Label(res, "count", count)
<1> DEFINE p == ProductParts(config, res, parts)
<1> DEFINE r == ReplicasOf(config, res)
<1>1. About(product, res, [s \in {"product"} |-> p])
  BY AboutLabel DEF ProductLabel, ProductParts
<1>2. About(n, res, [s \in {"count"} |-> count])
  BY AboutLabel
<1>3. About(replicas, res, [s \in {"replicas"} |-> r])
  BY AboutLabel DEF ReplicasLabel, ReplicasOf
<1>4. BaseLabels(config, res, count, parts) = Merge(Merge(product, n), replicas)
  BY DEF BaseLabels
<1> HIDE DEF product, replicas, n, p, r
<1>5. About(Merge(product, n), res, Merge([s \in {"product"} |-> p], [s \in {"count"} |-> count]))
  BY <1>1, <1>2, AboutMerge
<1>6. About(Merge(Merge(product, n), replicas), res,
            Merge(Merge([s \in {"product"} |-> p], [s \in {"count"} |-> count]),
                  [s \in {"replicas"} |-> r]))
  BY <1>3, <1>5, AboutMerge
<1>7. About(Merge(Merge(product, n), replicas), res, ThreeLabels(p, count, r))
  BY <1>6, ThreeMerged
<1>8. QED BY <1>4, <1>7 DEF p, r

(* The values of the labels of a full GPU, of a MIG profile, and of the    *)
(* marker of an invalid MIG configuration.                                 *)
MemoryOf(mib) == IF mib = 0 THEN Empty ELSE [s \in {"memory"} |-> mib]
ArchitectureOf(cc) ==
  IF cc[1] = 0 THEN Empty ELSE [family |-> ArchFamily(cc[1], cc[2]), compute |-> cc]
GPUValues(config, device, count) ==
  Merge(Merge(ThreeLabels(ProductParts(config, "gpu", <<device.GetName>>), count,
                          ReplicasOf(config, "gpu")),
              MemoryOf(device.GetTotalMemoryMB)),
        ArchitectureOf(device.GetCudaComputeCapability))

(* GPUResourceLabels of a device that is counted at least once. *)
LEMMA AboutGPU ==
  ASSUME NEW config, NEW device, NEW count, count # 0
  PROVE  About(GPUResourceLabels(config, device, count), "gpu", GPUValues(config, device, count))
<1> DEFINE parts == <<device.GetName>>
<1> DEFINE base == BaseLabels(config, "gpu", count, parts)
<1> DEFINE mib == device.GetTotalMemoryMB
<1> DEFINE memory == IF mib = 0 THEN Empty ELSE Label("gpu", "memory", mib)
<1> DEFINE cc == device.GetCudaComputeCapability
<1> DEFINE architecture == ArchitectureLabels("gpu", device)
<1> DEFINE three == ThreeLabels(ProductParts(config, "gpu", parts), count, ReplicasOf(config, "gpu"))
<1>1. About(base, "gpu", three)
  BY AboutBase
<1>2. About(memory, "gpu", MemoryOf(mib))
  <2>1. CASE mib = 0
    BY <2>1, AboutEmpty DEF MemoryOf
  <2>2. CASE mib # 0
    <3> HIDE DEF mib
    <3>1. About(Label("gpu", "memory", mib), "gpu", [s \in {"memory"} |-> mib])
      BY AboutLabel
    <3>2. QED BY <2>2, <3>1 DEF MemoryOf
  <2>3. QED BY <2>1, <2>2
<1>3. About(architecture, "gpu", ArchitectureOf(cc))
  <2>1. CASE cc[1] = 0
    <3>1. architecture = Empty /\ ArchitectureOf(cc) = Empty
      BY <2>1 DEF ArchitectureLabels, ArchitectureOf
    <3>2. QED BY <3>1, AboutEmpty
  <2>2. CASE cc[1] # 0
    <3> DEFINE values == [family |-> ArchFamily(cc[1], cc[2]), compute |-> cc]
    <3>1. architecture = Labels("gpu", values) /\ ArchitectureOf(cc) = values
      BY <2>2 DEF ArchitectureLabels, ArchitectureOf
    <3>2. IsFunction(values)
      BY DEF IsFunction
    <3> HIDE DEF values, architecture
    <3>3. QED BY <3>1, <3>2, AboutLabels
  <2>3. QED BY <2>1, <2>2
<1>4. GPUResourceLabels(config, device, count) = Merge(Merge(base, memory), architecture)
  BY DEF GPUResourceLabels
<1>5. GPUValues(config, device, count) = Merge(Merge(three, MemoryOf(mib)), ArchitectureOf(cc))
  BY DEF GPUValues
<1> HIDE DEF base, mib, memory, cc, architecture, three
<1>6. About(Merge(base, memory), "gpu", Merge(three, MemoryOf(mib)))
  BY <1>1, <1>2, AboutMerge
<1>7. QED BY <1>3, <1>4, <1>5, <1>6, AboutMerge

(* MIGResourceLabels of a profile that is counted at least once. *)
LEMMA AboutMIG ==
  ASSUME NEW config, NEW res, NEW device, NEW count, count # 0, IsFunction(device.GetAttributes)
  PROVE  About(MIGResourceLabels(config, res, device, count), res,
               Merge(ThreeLabels(ProductParts(config, res,
                                   <<device.GetDeviceHandleFromMigDeviceHandle.GetName,
                                     "MIG", device.GetName>>),
                                 count, ReplicasOf(config, res)),
                     device.GetAttributes))
<1> DEFINE parts == <<device.GetDeviceHandleFromMigDeviceHandle.GetName, "MIG", device.GetName>>
<1> DEFINE base == BaseLabels(config, res, count, parts)
<1> DEFINE attributes == Labels(res, device.GetAttributes)
<1> DEFINE three == ThreeLabels(ProductParts(config, res, parts), count, ReplicasOf(config, res))
<1>1. About(base, res, three)
  BY AboutBase
<1>2. About(attributes, res, device.GetAttributes)
  BY AboutLabels
<1>3. MIGResourceLabels(config, res, device, count) = Merge(base, attributes)
  BY DEF MIGResourceLabels
<1> HIDE DEF base, attributes, three
<1>4. About(Merge(base, attributes), res, Merge(three, device.GetAttributes))
  BY <1>1, <1>2, AboutMerge
<1>5. QED BY <1>3, <1>4 DEF three

(* InvalidLabels: the four suffixes of the marker. *)
LEMMA AboutInvalid ==
  ASSUME NEW device
  PROVE  About(InvalidLabels(device), "gpu",
               [product |-> <<device.GetName, "MIG", "INVALID">>,
                count |-> 0, replicas |-> 0, memory |-> 0])
<1> DEFINE values == [product |-> <<device.GetName, "MIG", "INVALID">>,
                      count |-> 0, replicas |-> 0, memory |-> 0]
<1>1. IsFunction(values) /\ InvalidLabels(device) = Labels("gpu", values)
  BY DEF IsFunction, InvalidLabels
<1> HIDE DEF values
<1>2. About(InvalidLabels(device), "gpu", values)
  BY <1>1, AboutLabels
<1>3. QED BY <1>2 DEF values

-----------------------------------------------------------------------------
(* Several label sets merged.                                              *)

(* MergeAll: of the lists that have a key, the last one gives its value. *)
LEMMA MergeAllFacts ==
  ASSUME NEW n \in Nat, NEW lists, DOMAIN lists = 1..n
  PROVE  /\ IsFunction(MergeAll(lists))
         /\ \A key: key \in DOMAIN MergeAll(lists) <=> \E i \in 1..n: key \in DOMAIN lists[i]
         /\ \A i \in 1..n: \A key \in DOMAIN lists[i]:
              \E j \in i..n: /\ key \in DOMAIN lists[j]
                             /\ \A k \in 1..n: key \in DOMAIN lists[k] => k <= j
                             /\ MergeAll(lists)[key] = lists[j][key]
<1>1. /\ IsFunction(MergeAll(lists))
      /\ \A key: key \in DOMAIN MergeAll(lists) <=> \E i \in 1..n: key \in DOMAIN lists[i]
  BY DEF MergeAll, IsFunction
<1>2. ASSUME NEW i \in 1..n, NEW key \in DOMAIN lists[i]
      PROVE  \E j \in i..n: /\ key \in DOMAIN lists[j]
                            /\ \A k \in 1..n: key \in DOMAIN lists[k] => k <= j
                            /\ MergeAll(lists)[key] = lists[j][key]
  <2> DEFINE S == {k \in DOMAIN lists: key \in DOMAIN lists[k]}
  <2>1. S \in SUBSET Nat /\ i \in S /\ \A k \in S: k <= n
    OBVIOUS
  <2>2. Max(S) \in S /\ \A k \in S: k <= Max(S)
    <3>1. S # {}
      BY <2>1
    <3> HIDE DEF S
    <3>2. QED BY <2>1, <3>1, MaxOf
  <2>3. key \in DOMAIN MergeAll(lists)
    BY <1>1
  <2>4. MergeAll(lists)[key] = lists[Max(S)][key]
    BY <2>3 DEF MergeAll
  <2>5. \A k \in 1..n: key \in DOMAIN lists[k] => k \in S
    OBVIOUS
  <2>6. Max(S) \in i..n /\ key \in DOMAIN lists[Max(S)]
    BY <2>1, <2>2
  <2>7. \A k \in 1..n: key \in DOMAIN lists[k] => k <= Max(S)
    BY <2>2, <2>5
  <2>8. QED BY <2>4, <2>6, <2>7
<1>3. QED BY <1>1, <1>2

(* Lists that speak of the same keys: the last one remains. *)
LEMMA MergeAllSame ==
  ASSUME NEW n \in Nat \ {0}, NEW lists, DOMAIN lists = 1..n,
         \A i \in 1..n: IsFunction(lists[i]) /\ DOMAIN lists[i] = DOMAIN lists[n]
  PROVE  MergeAll(lists) = lists[n]
<1>1. n \in 1..n
  OBVIOUS
<1>2. \A key: key \in DOMAIN MergeAll(lists) <=> key \in DOMAIN lists[n]
  BY <1>1, MergeAllFacts
<1>3. DOMAIN MergeAll(lists) = DOMAIN lists[n]
  <2>1. MergeAll(lists) = [key \in UNION {DOMAIN lists[i]: i \in DOMAIN lists} |->
                             MergeAll(lists)[key]]
    BY DEF MergeAll
  <2>2. QED BY <1>2
<1>4. \A key \in DOMAIN lists[n]: MergeAll(lists)[key] = lists[n][key]
  <2>1. SUFFICES ASSUME NEW key \in DOMAIN lists[n]
                 PROVE  MergeAll(lists)[key] = lists[n][key]
    OBVIOUS
  <2>2. PICK j \in n..n: MergeAll(lists)[key] = lists[j][key]
    BY <1>1, MergeAllFacts
  <2>3. j = n
    OBVIOUS
  <2>4. QED BY <2>2, <2>3
<1>5. IsFunction(MergeAll(lists))
  BY MergeAllFacts
<1>6. QED BY <1>1, <1>3, <1>4, <1>5, SameFunction

(* Nothing comes of no lists. *)
LEMMA MergeAllNone ==
  ASSUME NEW lists, DOMAIN lists = {}
  PROVE  MergeAll(lists) = Empty
  BY DEF MergeAll, Empty

(* Lists each about a resource of its own: all of them remain. *)
LEMMA MergeAllApart ==
  ASSUME NEW n \in Nat, NEW lists, DOMAIN lists = 1..n, NEW res, NEW values,
         \A i \in 1..n: About(lists[i], res[i], values[i]),
         \A i, j \in 1..n: res[i] = res[j] => i = j
  PROVE  /\ IsLabels(MergeAll(lists))
         /\ \A i \in 1..n: Of(MergeAll(lists), res[i]) = values[i]
         /\ \A r: (\A i \in 1..n: res[i] # r) => Of(MergeAll(lists), r) = Empty
<1> DEFINE all == MergeAll(lists)
<1>1. \A i \in 1..n: \A key \in DOMAIN lists[i]: key = <<key[1], key[2]>> /\ key[1] = res[i]
  <2>1. SUFFICES ASSUME NEW i \in 1..n, NEW key \in DOMAIN lists[i]
                 PROVE  key = <<key[1], key[2]>> /\ key[1] = res[i]
    OBVIOUS
  <2>2. IsLabels(lists[i])
    BY DEF About
  <2>3. key = <<key[1], key[2]>>
    BY <2>2 DEF IsLabels
  <2>4. key[2] \in DOMAIN Of(lists[i], key[1])
    BY <2>2, <2>3, SuffixesOf
  <2>5. key[1] # res[i] => Of(lists[i], key[1]) = Empty
    BY DEF About
  <2>6. QED BY <2>3, <2>4, <2>5, EmptyFacts
<1>2. IsLabels(all)
  <2>1. IsFunction(all)
    BY MergeAllFacts
  <2>2. \A key \in DOMAIN all: \E i \in 1..n: key \in DOMAIN lists[i]
    BY MergeAllFacts
  <2>3. QED BY <1>1, <2>1, <2>2 DEF IsLabels
<1>3. \A i \in 1..n: \A key \in DOMAIN lists[i]: key \in DOMAIN all /\ all[key] = lists[i][key]
  <2>1. SUFFICES ASSUME NEW i \in 1..n, NEW key \in DOMAIN lists[i]
                 PROVE  key \in DOMAIN all /\ all[key] = lists[i][key]
    OBVIOUS
  <2>2. PICK j \in i..n: key \in DOMAIN lists[j] /\ all[key] = lists[j][key]
    BY MergeAllFacts
  <2>3. j \in 1..n
    OBVIOUS
  <2>4. res[i] = res[j]
    BY <1>1, <2>2, <2>3
  <2>5. key \in DOMAIN all
    BY MergeAllFacts
  <2>6. QED BY <2>2, <2>3, <2>4, <2>5
<1>4. \A key \in DOMAIN all: \E i \in 1..n: key \in DOMAIN lists[i]
  BY MergeAllFacts
<1> HIDE DEF all
<1>5. ASSUME NEW i \in 1..n PROVE Of(all, res[i]) = values[i]
  <2> DEFINE one == lists[i]
  <2> DEFINE r == res[i]
  <2>1. IsLabels(one) /\ Of(one, r) = values[i]
    BY DEF About
  <2>2. \A s: <<r, s>> \in DOMAIN all <=> <<r, s>> \in DOMAIN one
    <3>1. SUFFICES ASSUME NEW s, <<r, s>> \in DOMAIN all PROVE <<r, s>> \in DOMAIN one
      BY <1>3
    <3>2. PICK j \in 1..n: <<r, s>> \in DOMAIN lists[j]
      BY <1>4, <3>1
    <3>3. res[j] = r
      BY <1>1, <3>2
    <3>4. QED BY <3>2, <3>3
  <2>3. \A s: <<r, s>> \in DOMAIN one => all[<<r, s>>] = one[<<r, s>>]
    BY <1>3
  <2> HIDE DEF one, r
  <2>4. /\ \A s: s \in DOMAIN Of(all, r) <=> <<r, s>> \in DOMAIN all
        /\ \A s \in DOMAIN Of(all, r): Of(all, r)[s] = all[<<r, s>>]
    BY <1>2, SuffixesOf
  <2>5. /\ \A s: s \in DOMAIN Of(one, r) <=> <<r, s>> \in DOMAIN one
        /\ \A s \in DOMAIN Of(one, r): Of(one, r)[s] = one[<<r, s>>]
    BY <2>1, SuffixesOf
  <2>6. DOMAIN Of(all, r) = DOMAIN Of(one, r)
    BY <2>2, <2>4, <2>5 DEF Of
  <2>7. \A s \in DOMAIN Of(all, r): Of(all, r)[s] = Of(one, r)[s]
    BY <2>2, <2>3, <2>4, <2>5
  <2>8. Of(all, r) = Of(one, r)
    BY <2>6, <2>7, OfIsFunction, SameFunction
  <2>9. QED BY <2>1, <2>8 DEF r
<1>6. ASSUME NEW r, \A i \in 1..n: res[i] # r PROVE Of(all, r) = Empty
  <2>1. \A s: <<r, s>> \notin DOMAIN all
    <3>1. SUFFICES ASSUME NEW s, <<r, s>> \in DOMAIN all PROVE FALSE
      OBVIOUS
    <3>2. PICK j \in 1..n: <<r, s>> \in DOMAIN lists[j]
      BY <1>4, <3>1
    <3>3. res[j] = r
      BY <1>1, <3>2
    <3>4. QED BY <1>6, <3>3
  <2>2. \A s: s \notin DOMAIN Of(all, r)
    BY <1>2, <2>1, SuffixesOf
  <2>3. DOMAIN Of(all, r) = DOMAIN Empty
    BY <2>2, EmptyFacts DEF Of
  <2>4. QED BY <2>2, <2>3, OfIsFunction, EmptyFacts, SameFunction
<1>7. QED BY <1>2, <1>5, <1>6 DEF all

-----------------------------------------------------------------------------
(* The labels of one device.                                               *)

(* The configuration of the process is not nil and has a strategy and replicas. *)
LEMMA ConfFacts ==
  ASSUME TypeOK
  PROVE  /\ conf # NoConfig /\ conf.renamed \in BOOLEAN /\ conf.noTimestamp \in BOOLEAN
         /\ conf.strategy \in {"none", "single", "mixed"}
         /\ \A res \in Resources: conf.replicas[res] \in Nat \ {0}
  BY ConstantsAssumption DEF TypeOK, ConfigType

(* Product and replicas, as the model of the code and as the properties say it. *)
LEMMA SharedAs ==
  ASSUME TypeOK, NEW res \in Resources, NEW parts
  PROVE  /\ ProductParts(conf, res, parts) = Product(parts, res)
         /\ ReplicasOf(conf, res) = Replicas(res)
         /\ ProductParts(NoConfig, res, parts) = parts
         /\ ReplicasOf(NoConfig, res) = 0
<1>1. /\ conf # NoConfig /\ conf.replicas[res] \in Nat \ {0}
      /\ IsListed(conf, res) <=> conf.replicas[res] > 1
      /\ ~IsListed(NoConfig, res)
  BY ConfFacts DEF IsListed
<1>2. ReplicasOf(conf, res) = Replicas(res) /\ ReplicasOf(NoConfig, res) = 0
  BY <1>1 DEF ReplicasOf, Replicas
<1>3. /\ ProductParts(conf, res, parts) = Product(parts, res)
      /\ ProductParts(NoConfig, res, parts) = parts
  BY <1>1 DEF ProductParts, Product, IsShared, IsRenamed, Replicas
<1>4. QED BY <1>2, <1>3

(* What any device of a full GPU says of itself. *)
LEMMA DeviceNames ==
  ASSUME TypeOK, NEW g \in GPUs, manager # "null"
  PROVE  /\ Device(g).GetName = ModelOf(g)
         /\ Device(g).GetTotalMemoryMB = Bytes[ModelOf(g)] \div MiB
         /\ Device(g).GetCudaComputeCapability = Compute[ModelOf(g)]
         /\ ModelOf(g) \in Models
         /\ Device(g).IsMigCapable \in BOOLEAN
         /\ Device(g).IsMigCapable <=> manager = "nvml" /\ ModelOf(g) \in Capable
<1>1. DOMAIN host.gpus = GPUs /\ ModelOf(g) \in Models
  BY HostFacts DEF ModelOf
<1>2. CASE manager = "nvml"
  <2>1. Devices = [h \in GPUs |-> NvmlDevice(host.gpus[h], hw[h])]
    BY <1>1, <1>2 DEF Devices, GetDevices
  <2>2. Device(g) = NvmlDevice(host.gpus[g], hw[g])
    BY <2>1 DEF Device
  <2>3. /\ Device(g).IsMigCapable \in BOOLEAN
        /\ Device(g).IsMigCapable <=> ModelOf(g) \in Capable
    <3>1. \A m, s: NvmlDevice(m, s).IsMigCapable \in BOOLEAN
      BY DEF NvmlDevice
    <3>2. \A m, s: NvmlDevice(m, s).IsMigCapable <=> m \in Capable
      BY DEF NvmlDevice
    <3>3. QED BY <2>2, <3>1, <3>2 DEF ModelOf
  <2>4. /\ Device(g).GetName = ModelOf(g)
        /\ Device(g).GetTotalMemoryMB = Bytes[ModelOf(g)] \div MiB
        /\ Device(g).GetCudaComputeCapability = Compute[ModelOf(g)]
    BY <2>2 DEF NvmlDevice, ModelOf
  <2>5. QED BY <1>1, <1>2, <2>3, <2>4
<1>3. CASE manager = "cuda"
  <2>1. Devices = [h \in GPUs |-> CudaDevice(host.gpus[h])]
    BY <1>1, <1>3 DEF Devices, GetDevices
  <2>2. Device(g) = CudaDevice(host.gpus[g])
    BY <2>1 DEF Device
  <2>3. Device(g).IsMigCapable = FALSE
    BY <2>2 DEF CudaDevice
  <2>4. /\ Device(g).GetName = ModelOf(g)
        /\ Device(g).GetTotalMemoryMB = Bytes[ModelOf(g)] \div MiB
        /\ Device(g).GetCudaComputeCapability = Compute[ModelOf(g)]
    BY <2>2 DEF CudaDevice, ModelOf
  <2>5. QED BY <1>1, <1>3, <2>3, <2>4
<1>4. QED BY <1>2, <1>3, ManagerFacts

(* A model that the host has is counted at least once. *)
LEMMA CountsOf ==
  ASSUME TypeOK, NEW m \in ModelsAmong(GPUs)
  PROVE  /\ Counts(GPUs, m) = Cardinality({g \in GPUs: ModelOf(g) = m})
         /\ Counts(GPUs, m) \in 1..N
<1> DEFINE S == {g \in GPUs: ModelOf(g) = m}
<1>1. IsFiniteSet(GPUs) /\ Cardinality(GPUs) = N
  <2>1. 1 \in Int /\ N \in Nat /\ GPUs = 1..N
    BY HostFacts
  <2>2. IsFiniteSet(1..N) /\ Cardinality(1..N) = IF 1 > N THEN 0 ELSE N - 1 + 1
    BY <2>1, FS_Interval
  <2>3. QED BY <2>1, <2>2
<1>2. S \in SUBSET GPUs /\ S # {}
  BY DEF ModelsAmong
<1> HIDE DEF S
<1>3. IsFiniteSet(S) /\ Cardinality(S) <= N
  BY <1>1, <1>2, FS_Subset
<1>4. Cardinality(S) \in Nat /\ Cardinality(S) # 0
  BY <1>2, <1>3, FS_EmptySet, FS_CardinalityType
<1>5. Counts(GPUs, m) = Cardinality(S)
  BY DEF Counts, S
<1>6. N \in Nat
  BY HostFacts
<1>7. QED BY <1>3, <1>4, <1>5, <1>6 DEF S

(* A full GPU, with the configuration and with none. *)
LEMMA PlainValues ==
  ASSUME TypeOK, NEW g \in GPUs, manager # "null", NEW m, m = ModelOf(g)
  PROVE  /\ GPUValues(conf, Device(g), Counts(GPUs, m)) = PlainGPU(m, TRUE)
         /\ GPUValues(NoConfig, Device(g), Counts(GPUs, m)) = PlainGPU(m, FALSE)
<1> DEFINE n == Counts(GPUs, m)
<1> DEFINE memory == IF Bytes[m] < MiB THEN Empty ELSE [memory |-> Bytes[m] \div MiB]
<1> DEFINE arch == IF Compute[m][1] = 0 THEN Empty
                   ELSE [family |-> ArchFamily(Compute[m][1], Compute[m][2]),
                         compute |-> Compute[m]]
<1>1. /\ Device(g).GetName = m
      /\ Device(g).GetTotalMemoryMB = Bytes[m] \div MiB
      /\ Device(g).GetCudaComputeCapability = Compute[m]
      /\ m \in Models
  BY DeviceNames
<1>2. n = Cardinality({h \in GPUs: ModelOf(h) = m})
  BY DEF Counts
<1>3. MemoryOf(Bytes[m] \div MiB) = memory
  <2>1. Bytes[m] \in Nat
    BY <1>1, ConstantsAssumption
  <2>2. Bytes[m] \div MiB = 0 <=> Bytes[m] < MiB
    BY <2>1 DEF MiB
  <2>3. \A x: [s \in {"memory"} |-> x] = [memory |-> x]
    OBVIOUS
  <2>4. QED BY <2>2, <2>3 DEF MemoryOf
<1>4. ArchitectureOf(Compute[m]) = arch
  BY DEF ArchitectureOf
<1>5. "gpu" \in Resources
  BY DEF Resources
<1>6. /\ ProductParts(conf, "gpu", <<m>>) = Product(<<m>>, "gpu")
      /\ ProductParts(NoConfig, "gpu", <<m>>) = <<m>>
      /\ ReplicasOf(conf, "gpu") = Replicas("gpu")
      /\ ReplicasOf(NoConfig, "gpu") = 0
  BY <1>5, SharedAs
<1>7. /\ PlainGPU(m, TRUE) =
           Merge(Merge(ThreeLabels(Product(<<m>>, "gpu"), n, Replicas("gpu")), memory), arch)
      /\ PlainGPU(m, FALSE) = Merge(Merge(ThreeLabels(<<m>>, n, 0), memory), arch)
  BY <1>2 DEF PlainGPU, ThreeLabels
<1> HIDE DEF memory, arch, n
<1>8. /\ GPUValues(conf, Device(g), n) =
           Merge(Merge(ThreeLabels(Product(<<m>>, "gpu"), n, Replicas("gpu")), memory), arch)
      /\ GPUValues(NoConfig, Device(g), n) = Merge(Merge(ThreeLabels(<<m>>, n, 0), memory), arch)
  BY <1>1, <1>3, <1>4, <1>6 DEF GPUValues
<1>9. QED BY <1>7, <1>8 DEF n

(* A MIG profile, by the first of its devices. *)
LEMMA MigValues ==
  ASSUME TypeOK, NEW g \in GPUs, manager # "null", NEW q \in Profiles,
         NEW res \in Resources, NEW n \in Nat \ {0}
  PROVE  About(MIGResourceLabels(conf, res, NvmlMigDevice(Device(g), q), n), res,
               MigDevices(res, q, ModelOf(g), n))
<1> DEFINE device == NvmlMigDevice(Device(g), q)
<1> DEFINE parts == <<ModelOf(g), "MIG", q>>
<1>1. /\ device.GetDeviceHandleFromMigDeviceHandle.GetName = ModelOf(g)
      /\ device.GetName = q
      /\ device.GetAttributes = [memory |-> ProfileMemory[q], slices |-> q]
  BY DeviceNames DEF NvmlMigDevice, Attributes
<1>2. IsFunction([memory |-> ProfileMemory[q], slices |-> q])
  BY DEF IsFunction
<1>3. About(MIGResourceLabels(conf, res, device, n), res,
            Merge(ThreeLabels(ProductParts(conf, res, parts), n, ReplicasOf(conf, res)),
                  [memory |-> ProfileMemory[q], slices |-> q]))
  <2>1. IsFunction(device.GetAttributes)
    BY <1>1, <1>2
  <2> HIDE DEF device
  <2>2. About(MIGResourceLabels(conf, res, device, n), res,
               Merge(ThreeLabels(ProductParts(conf, res,
                                   <<device.GetDeviceHandleFromMigDeviceHandle.GetName,
                                     "MIG", device.GetName>>),
                                 n, ReplicasOf(conf, res)),
                     device.GetAttributes))
    BY <2>1, AboutMIG
  <2>3. QED BY <1>1, <2>2
<1>4. ProductParts(conf, res, parts) = Product(parts, res) /\ ReplicasOf(conf, res) = Replicas(res)
  BY SharedAs
<1>5. \A p, r, b, s: Merge(ThreeLabels(p, n, r), [memory |-> b, slices |-> s]) =
        [product |-> p, count |-> n, replicas |-> r, memory |-> b, slices |-> s]
  BY DEF ThreeLabels, Merge
<1>6. QED BY <1>3, <1>4, <1>5 DEF MigDevices

(* The marker of an invalid configuration, by any GPU. *)
LEMMA InvalidValues ==
  ASSUME TypeOK, NEW g \in GPUs, manager # "null"
  PROVE  About(InvalidLabels(Device(g)), "gpu", InvalidMig(ModelOf(g)))
<1>1. Device(g).GetName = ModelOf(g)
  BY DeviceNames
<1>2. QED BY <1>1, AboutInvalid DEF InvalidMig

-----------------------------------------------------------------------------
(* The labels of all full GPUs.                                            *)

(* Labels that speak of one resource only. *)
OnlyOn(l, res) == IsLabels(l) /\ \A other: other # res => Of(l, other) = Empty

(* All the keys of such labels have that resource. *)
LEMMA KeysOnlyOn ==
  ASSUME NEW l, NEW res, OnlyOn(l, res)
  PROVE  \A key \in DOMAIN l: key = <<res, key[2]>>
<1>1. SUFFICES ASSUME NEW key \in DOMAIN l
               PROVE  key = <<res, key[2]>>
  OBVIOUS
<1>2. key = <<key[1], key[2]>> /\ IsLabels(l)
  BY DEF OnlyOn, IsLabels
<1>3. key[2] \in DOMAIN Of(l, key[1])
  BY <1>2, SuffixesOf
<1>4. key[1] # res => Of(l, key[1]) = Empty
  BY DEF OnlyOn
<1>5. QED BY <1>2, <1>3, <1>4, EmptyFacts

(* MergeAll of such labels gives such labels. *)
LEMMA MergeAllOnlyOn ==
  ASSUME NEW n \in Nat, NEW lists, DOMAIN lists = 1..n, NEW res,
         \A i \in 1..n: OnlyOn(lists[i], res)
  PROVE  OnlyOn(MergeAll(lists), res)
<1> DEFINE all == MergeAll(lists)
<1>1. IsFunction(all) /\ \A key \in DOMAIN all: \E i \in 1..n: key \in DOMAIN lists[i]
  BY MergeAllFacts
<1>2. \A key \in DOMAIN all: key = <<res, key[2]>>
  BY <1>1, KeysOnlyOn
<1> HIDE DEF all
<1>3. IsLabels(all)
  BY <1>1, <1>2 DEF IsLabels
<1>4. ASSUME NEW other, other # res PROVE Of(all, other) = Empty
  <2>1. \A s: <<other, s>> \notin DOMAIN all
    BY <1>2, <1>4
  <2>2. \A s: s \notin DOMAIN Of(all, other)
    BY <1>3, <2>1, SuffixesOf
  <2>3. DOMAIN Of(all, other) = DOMAIN Empty
    BY <2>2, EmptyFacts DEF Of
  <2>4. QED BY <2>2, <2>3, OfIsFunction, EmptyFacts, SameFunction
<1>5. QED BY <1>3, <1>4 DEF OnlyOn, all

(* So does Merge. *)
LEMMA MergeOnlyOn ==
  ASSUME NEW res, NEW a, NEW b, OnlyOn(a, res), OnlyOn(b, res)
  PROVE  OnlyOn(Merge(a, b), res)
<1>1. Merge(Empty, Empty) = Empty
  BY MergeEmpty, EmptyFacts
<1>2. QED BY <1>1, MergeOf DEF OnlyOn

(* Label sets with the same suffixes of one resource have the same keys. *)
LEMMA AboutDomain ==
  ASSUME NEW res, NEW a, NEW u, NEW b, NEW v, About(a, res, u), About(b, res, v),
         DOMAIN u \subseteq DOMAIN v
  PROVE  DOMAIN a \subseteq DOMAIN b
<1>1. SUFFICES ASSUME NEW key \in DOMAIN a PROVE key \in DOMAIN b
  OBVIOUS
<1>2. key = <<res, key[2]>>
  BY KeysOnlyOn DEF OnlyOn, About
<1>3. key[2] \in DOMAIN u
  <2>1. IsLabels(a) /\ Of(a, res) = u
    BY DEF About
  <2>2. QED BY <1>2, <2>1, SuffixesOf
<1>4. <<res, key[2]>> \in DOMAIN b
  <2>1. IsLabels(b) /\ Of(b, res) = v
    BY DEF About
  <2>2. QED BY <1>3, <2>1, SuffixesOf
<1>5. QED BY <1>2, <1>4

-----------------------------------------------------------------------------
(* A host has finitely many models, and GPUs have some. *)
LEMMA ModelsFinite ==
  ASSUME TypeOK, NEW S \in SUBSET GPUs
  PROVE  IsFiniteSet(ModelsAmong(S)) /\ (ModelsAmong(S) = {} <=> S = {})
<1>1. IsFiniteSet(S)
  <2>1. GPUs = 1..N /\ N \in Nat
    BY HostFacts
  <2>2. 1 \in Int /\ N \in Int
    BY <2>1
  <2>3. IsFiniteSet(1..N)
    BY <2>2, FS_Interval
  <2>4. QED BY <2>1, <2>3, FS_Subset
<1> DEFINE f == [g \in S |-> ModelOf(g)]
<1>2. f \in Surjection(S, ModelsAmong(S))
  BY DEF Surjection, ModelsAmong
<1>3. IsFiniteSet(ModelsAmong(S))
  BY <1>1, <1>2, FS_Surjection
<1>4. QED BY <1>3 DEF ModelsAmong

(* What is said of the GPUs in S, one model after another. *)
Config(shared) == IF shared THEN conf ELSE NoConfig
Said(shared, m, S) == GPUResourceLabels(Config(shared), Standing(S, m), Counts(GPUs, m))

(* What newGPULabelers says of one model among the GPUs of one mode. *)
LEMMA OneModel ==
  ASSUME TypeOK, manager # "null", NEW S \in SUBSET GPUs, NEW m \in ModelsAmong(S),
         NEW shared \in BOOLEAN
  PROVE  About(Said(shared, m, S), "gpu", PlainGPU(m, shared))
<1> DEFINE those == {g \in S: ModelOf(g) = m}
<1> DEFINE g == Max(those)
<1>1. g \in those
  <2>1. N \in Nat /\ GPUs = 1..N
    BY HostFacts
  <2>2. those \in SUBSET Nat /\ those # {} /\ \A h \in those: h <= N
    BY <2>1 DEF ModelsAmong
  <2> HIDE DEF those
  <2>3. QED BY <2>1, <2>2, MaxOf
<1>2. g \in GPUs /\ m = ModelOf(g) /\ Standing(S, m) = Device(g)
  BY <1>1 DEF Standing
<1> HIDE DEF g
<1>3. m \in ModelsAmong(GPUs)
  BY <1>2 DEF ModelsAmong
<1>4. Counts(GPUs, m) # 0
  <2>1. Counts(GPUs, m) \in 1..N
    BY <1>3, CountsOf
  <2>2. QED BY <2>1
<1>5. About(Said(shared, m, S), "gpu", GPUValues(Config(shared), Device(g), Counts(GPUs, m)))
  BY <1>2, <1>4, AboutGPU DEF Said
<1>6. GPUValues(Config(shared), Device(g), Counts(GPUs, m)) = PlainGPU(m, shared)
  <2>1. CASE shared = TRUE
    <3>1. Config(shared) = conf
      BY <2>1 DEF Config
    <3>2. QED BY <2>1, <3>1, <1>2, PlainValues
  <2>2. CASE shared = FALSE
    <3>1. Config(shared) = NoConfig
      BY <2>2 DEF Config
    <3>2. QED BY <2>2, <3>1, <1>2, PlainValues
  <2>3. QED BY <2>1, <2>2
<1>7. QED BY <1>5, <1>6

(* The labels of two models of one host have the same suffixes. *)
LEMMA PlainDomain ==
  ASSUME TypeOK, ModelsAlike, NEW m1 \in ModelsAmong(GPUs), NEW m2 \in ModelsAmong(GPUs),
         NEW s1 \in BOOLEAN, NEW s2 \in BOOLEAN
  PROVE  DOMAIN PlainGPU(m1, s1) = DOMAIN PlainGPU(m2, s2)
<1>1. /\ Bytes[m1] < MiB <=> Bytes[m2] < MiB
      /\ Compute[m1][1] = 0 <=> Compute[m2][1] = 0
  <2>1. PICK g1 \in GPUs, g2 \in GPUs: m1 = host.gpus[g1] /\ m2 = host.gpus[g2]
    BY DEF ModelsAmong, ModelOf
  <2>2. host \in Hosts /\ DOMAIN host.gpus = GPUs
    BY HostFacts DEF TypeOK
  <2>3. QED BY <2>1, <2>2 DEF ModelsAlike
<1> DEFINE plain == {"product", "count", "replicas"}
<1> DEFINE memory(m) == IF Bytes[m] < MiB THEN {} ELSE {"memory"}
<1> DEFINE arch(m) == IF Compute[m][1] = 0 THEN {} ELSE {"family", "compute"}
<1>2. \A m, s: DOMAIN PlainGPU(m, s) = plain \cup memory(m) \cup arch(m)
  <2>1. SUFFICES ASSUME NEW m, NEW s
                 PROVE  DOMAIN PlainGPU(m, s) = plain \cup memory(m) \cup arch(m)
    OBVIOUS
  <2> DEFINE three == [product |-> IF s THEN Product(<<m>>, "gpu") ELSE <<m>>,
                       count |-> Cardinality({g \in GPUs: ModelOf(g) = m}),
                       replicas |-> IF s THEN Replicas("gpu") ELSE 0]
  <2> DEFINE mem == IF Bytes[m] < MiB THEN Empty ELSE [memory |-> Bytes[m] \div MiB]
  <2> DEFINE cc == IF Compute[m][1] = 0 THEN Empty
                   ELSE [family |-> ArchFamily(Compute[m][1], Compute[m][2]),
                         compute |-> Compute[m]]
  <2>2. DOMAIN three = plain
    OBVIOUS
  <2>3. DOMAIN mem = memory(m)
    BY EmptyFacts
  <2>4. DOMAIN cc = arch(m)
    BY EmptyFacts
  <2>5. PlainGPU(m, s) = Merge(Merge(three, mem), cc)
    BY DEF PlainGPU
  <2> HIDE DEF three, mem, cc
  <2>6. DOMAIN Merge(three, mem) = DOMAIN three \cup DOMAIN mem
    BY MergeFacts
  <2>7. DOMAIN Merge(Merge(three, mem), cc) = DOMAIN Merge(three, mem) \cup DOMAIN cc
    BY DEF Merge
  <2>8. QED BY <2>2, <2>3, <2>4, <2>5, <2>6, <2>7
<1>3. memory(m1) = memory(m2) /\ arch(m1) = arch(m2)
  BY <1>1
<1> HIDE DEF memory, arch, plain
<1>4. QED BY <1>2, <1>3

(* What is said of all models of the GPUs in S. *)
LEMMA OneKind ==
  ASSUME TypeOK, manager # "null", NEW S \in SUBSET GPUs, NEW shared \in BOOLEAN,
         NEW order \in SetToSeqs(ModelsAmong(S)), NEW lists,
         lists = [i \in DOMAIN order |-> Said(shared, order[i], S)]
  PROVE  /\ OnlyOn(MergeAll(lists), "gpu")
         /\ S = {} => MergeAll(lists) = Empty
         /\ S # {} /\ ModelsAlike =>
              \E m \in ModelsAmong(S): About(MergeAll(lists), "gpu", PlainGPU(m, shared))
<1> DEFINE n == Cardinality(ModelsAmong(S))
<1>1. /\ n \in Nat /\ (S = {} <=> n = 0)
      /\ order \in [1..n -> ModelsAmong(S)]
  BY ModelsFinite, Enumerated
<1>2. DOMAIN lists = 1..n
  BY <1>1
<1>3. \A i \in 1..n: /\ order[i] \in ModelsAmong(S)
                     /\ About(lists[i], "gpu", PlainGPU(order[i], shared))
  <2>1. SUFFICES ASSUME NEW i \in 1..n
                 PROVE  /\ order[i] \in ModelsAmong(S)
                        /\ About(lists[i], "gpu", PlainGPU(order[i], shared))
    OBVIOUS
  <2>2. order[i] \in ModelsAmong(S) /\ lists[i] = Said(shared, order[i], S)
    BY <1>1
  <2>3. QED BY <2>2, OneModel
<1> HIDE DEF n
<1>4. OnlyOn(MergeAll(lists), "gpu")
  <2>1. \A i \in 1..n: OnlyOn(lists[i], "gpu")
    BY <1>3 DEF OnlyOn, About
  <2>2. QED BY <1>1, <1>2, <2>1, MergeAllOnlyOn
<1>5. ASSUME S = {} PROVE MergeAll(lists) = Empty
  <2>1. DOMAIN lists = {}
    BY <1>1, <1>2, <1>5
  <2>2. QED BY <2>1, MergeAllNone
<1>6. ASSUME S # {}, ModelsAlike
      PROVE  \E m \in ModelsAmong(S): About(MergeAll(lists), "gpu", PlainGPU(m, shared))
  <2>1. n \in Nat \ {0} /\ n \in 1..n
    BY <1>1, <1>6
  <2>2. \A i \in 1..n: IsFunction(lists[i]) /\ DOMAIN lists[i] = DOMAIN lists[n]
    <3>1. SUFFICES ASSUME NEW i \in 1..n
                   PROVE  IsFunction(lists[i]) /\ DOMAIN lists[i] = DOMAIN lists[n]
      OBVIOUS
    <3>2. order[i] \in ModelsAmong(GPUs) /\ order[n] \in ModelsAmong(GPUs)
      BY <1>3, <2>1 DEF ModelsAmong
    <3>3. DOMAIN PlainGPU(order[i], shared) = DOMAIN PlainGPU(order[n], shared)
      BY <1>6, <3>2, PlainDomain
    <3>4. DOMAIN lists[i] \subseteq DOMAIN lists[n] /\ DOMAIN lists[n] \subseteq DOMAIN lists[i]
      BY <1>3, <2>1, <3>3, AboutDomain
    <3>5. IsFunction(lists[i])
      BY <1>3 DEF About, IsLabels
    <3>6. QED BY <3>4, <3>5
  <2>3. MergeAll(lists) = lists[n]
    BY <1>2, <2>1, <2>2, MergeAllSame
  <2>4. QED BY <1>3, <2>1, <2>3
<1>7. QED BY <1>4, <1>5, <1>6

(* FullGPULabels writes on the GPU resource only; full GPUs come after     *)
(* those with MIG enabled, so that one of their models remains, if any.    *)
LEMMA FullGPUs ==
  ASSUME TypeOK, manager # "null", enabled \subseteq GPUs, GPUs # {},
         NEW onMig \in SetToSeqs(ModelsAmong(enabled)),
         NEW onFull \in SetToSeqs(ModelsAmong(GPUs \ enabled))
  PROVE  /\ OnlyOn(FullGPULabels(onMig, onFull), "gpu")
         /\ ModelsAlike =>
              \E m \in ModelsAmong(IF enabled = GPUs THEN GPUs ELSE GPUs \ enabled),
                 shared \in BOOLEAN:
                /\ shared <=> enabled # GPUs
                /\ About(FullGPULabels(onMig, onFull), "gpu", PlainGPU(m, shared))
<1> DEFINE full == GPUs \ enabled
<1> DEFINE lists1 == [i \in DOMAIN onMig |-> Said(FALSE, onMig[i], enabled)]
<1> DEFINE lists2 == [i \in DOMAIN onFull |-> Said(TRUE, onFull[i], full)]
<1> DEFINE a == MergeAll(lists1)
<1> DEFINE b == MergeAll(lists2)
<1>1. FullGPULabels(onMig, onFull) = Merge(a, b)
  BY DEF FullGPULabels, Said, Config
<1>2. full \in SUBSET GPUs /\ enabled \in SUBSET GPUs
  OBVIOUS
<1>3. /\ OnlyOn(a, "gpu")
      /\ enabled = {} => a = Empty
      /\ enabled # {} /\ ModelsAlike =>
           \E m \in ModelsAmong(enabled): About(a, "gpu", PlainGPU(m, FALSE))
  <2> HIDE DEF lists1
  <2>1. lists1 = [i \in DOMAIN onMig |-> Said(FALSE, onMig[i], enabled)]
    BY DEF lists1
  <2>2. QED BY <1>2, <2>1, OneKind
<1>4. /\ OnlyOn(b, "gpu")
      /\ full = {} => b = Empty
      /\ full # {} /\ ModelsAlike =>
           \E m \in ModelsAmong(full): About(b, "gpu", PlainGPU(m, TRUE))
  <2>1. lists2 = [i \in DOMAIN onFull |-> Said(TRUE, onFull[i], full)]
    OBVIOUS
  <2>2. onFull \in SetToSeqs(ModelsAmong(full))
    OBVIOUS
  <2> HIDE DEF lists2, full
  <2>3. QED BY <1>2, <2>1, <2>2, OneKind
<1>5. full = {} <=> enabled = GPUs
  BY <1>2
<1> HIDE DEF a, b, full
<1>6. OnlyOn(Merge(a, b), "gpu")
  BY <1>3, <1>4, MergeOnlyOn
<1>7. ASSUME ModelsAlike
      PROVE  \E m \in ModelsAmong(IF enabled = GPUs THEN GPUs ELSE full), shared \in BOOLEAN:
                /\ shared <=> enabled # GPUs
                /\ About(Merge(a, b), "gpu", PlainGPU(m, shared))
  <2>1. CASE enabled = GPUs
    <3>1. b = Empty /\ IsFunction(a)
      BY <1>3, <1>4, <1>5, <2>1 DEF OnlyOn, IsLabels
    <3>2. Merge(a, b) = a
      BY <3>1, MergeEmpty
    <3>3. PICK m \in ModelsAmong(GPUs): About(a, "gpu", PlainGPU(m, FALSE))
      BY <1>3, <1>7, <2>1
    <3>4. QED BY <2>1, <3>2, <3>3
  <2>2. CASE enabled # GPUs
    <3>1. PICK m2 \in ModelsAmong(full): About(b, "gpu", PlainGPU(m2, TRUE))
      BY <1>4, <1>5, <1>7, <2>2
    <3>2. IsFunction(b)
      BY <1>4 DEF OnlyOn, IsLabels
    <3>3. DOMAIN a \subseteq DOMAIN b
      <4>1. CASE enabled = {}
        BY <1>3, <4>1, EmptyFacts
      <4>2. CASE enabled # {}
        <5>1. PICK m1 \in ModelsAmong(enabled): About(a, "gpu", PlainGPU(m1, FALSE))
          BY <1>3, <1>7, <4>2
        <5>2. m1 \in ModelsAmong(GPUs) /\ m2 \in ModelsAmong(GPUs)
          BY <1>2 DEF ModelsAmong
        <5>3. DOMAIN PlainGPU(m1, FALSE) = DOMAIN PlainGPU(m2, TRUE)
          BY <1>7, <5>2, PlainDomain
        <5>4. QED BY <3>1, <5>1, <5>3, AboutDomain
      <4>3. QED BY <4>1, <4>2
    <3>4. Merge(a, b) = b
      BY <3>2, <3>3, MergeOver
    <3>5. QED BY <2>2, <3>1, <3>4
  <2>3. QED BY <2>1, <2>2
<1>8. QED BY <1>1, <1>6, <1>7 DEF full
=============================================================================
