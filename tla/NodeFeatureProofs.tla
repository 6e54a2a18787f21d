------------------------- MODULE NodeFeatureProofs -------------------------
(***************************************************************************)
(* Theorems about NodeFeature, for any number of instances and label sets, *)
(* whatever others do to the object and whether or not requests fail.      *)
(***************************************************************************)
EXTENDS NodeFeature, FiniteSetTheorems, TLAPS

(* An instance holds a version of the object from its Get to the answer of *)
(* its Update, which would change that; and it has labels all along.       *)
Requesting == {"create", "update"}
SeenInv == \A p \in Procs:
  IF pc[p] = "update" THEN seen[p] # NoObject /\ Wanted(p, seen[p]) # seen[p]
                      ELSE seen[p] = NoObject
LabelsInv == \A p \in Procs: pc[p] \in Requesting \cup {"get"} => labels[p] \in LabelSets
IInv == TypeOK /\ SeenInv /\ LabelsInv

(* A stored state of the object has a version nobody holds: the object and *)
(* each instance hold at most one.                                         *)
LEMMA FreshVersion == TypeOK => Fresh \in Versions
<1> SUFFICES ASSUME TypeOK, Versions \subseteq Held PROVE FALSE
  BY DEF Fresh
<1> DEFINE Holder(v) == IF obj # NoObject /\ obj.version = v THEN Others
                        ELSE CHOOSE p \in Procs: seen[p] # NoObject /\ seen[p].version = v
           f == [v \in Versions |-> Holder(v)]
           Holders == Procs \cup {Others}
<1>1. IsFiniteSet(Holders) /\ Cardinality(Holders) = Cardinality(Procs) + 1
  BY FS_AddElement, ConstantsAssumption, Zenon
<1>2. /\ IsFiniteSet(Versions) /\ Cardinality(Versions) = Cardinality(Procs) + 2
      /\ Cardinality(Procs) \in Nat
  <2>1. Cardinality(Procs) \in Nat
    BY FS_CardinalityType, ConstantsAssumption
  <2>2. /\ IsFiniteSet(1..(Cardinality(Procs) + 2))
        /\ Cardinality(1..(Cardinality(Procs) + 2)) = Cardinality(Procs) + 2
    BY <2>1, FS_Interval
  <2>3. QED BY <2>1, <2>2 DEF Versions
<1>3. ASSUME NEW v \in Versions
      PROVE  \/ Holder(v) = Others /\ obj # NoObject /\ obj.version = v
             \/ /\ Holder(v) \in Procs
                /\ seen[Holder(v)] # NoObject /\ seen[Holder(v)].version = v
  <2>1. PICK o \in ({obj} \cup {seen[p]: p \in Procs}) \ {NoObject}: o.version = v
    BY DEF Held
  <2>2. CASE obj # NoObject /\ obj.version = v
    BY <2>2
  <2>3. CASE ~(obj # NoObject /\ obj.version = v)
    <3>1. \E p \in Procs: seen[p] # NoObject /\ seen[p].version = v
      BY <2>1, <2>3
    <3>2. QED BY <2>3, <3>1
  <2>4. QED BY <2>2, <2>3
<1>4. f \in [Versions -> Holders]
  BY <1>3
<1>5. PICK v \in Versions, w \in Versions: v # w /\ f[v] = f[w]
  <2>1. Cardinality(Holders) < Cardinality(Versions)
    BY <1>1, <1>2
  <2> HIDE DEF f, Holders
  <2>2. QED BY <1>1, <1>2, <1>4, <2>1, FS_PigeonHole
<1>6. Holder(v) = Holder(w)
  BY <1>5
<1>7. QED
  BY <1>3, <1>5, <1>6, ConstantsAssumption

LEMMA WantedType ==
  ASSUME NEW p \in Procs, labels[p] \in LabelSets, NEW o \in Object
  PROVE  /\ Wanted(p, o) \in Object
         /\ Wanted(p, o).labels = labels[p] /\ Wanted(p, o).meta = "nodename"
         /\ \A v \in Versions: /\ [Wanted(p, o) EXCEPT !.version = v] \in Object
                               /\ [Wanted(p, o) EXCEPT !.version = v].labels = labels[p]
  BY DEF Wanted, Object, Metas

(* What a request on the way may do: nothing, or write the labels of the   *)
(* pass over what the instance has seen.                                   *)
LEMMA RequestEnds ==
  ASSUME IInv, NEW p \in Procs, Create(p) \/ Update(p)
  PROVE  /\ pc[p] \in Requesting
         /\ pc' \in [Procs -> {"off", "idle", "get", "create", "update"}]
         /\ pc'[p] \in {"off", "idle"}
         /\ \A q \in Procs \ {p}: pc'[q] = pc[q]
         /\ gone' = gone \ {p}
         /\ labels' = labels
         /\ seen' \in [Procs -> Object \cup {NoObject}]
         /\ seen'[p] = NoObject
         /\ \A q \in Procs \ {p}: seen'[q] = seen[q]
         /\ \/ obj' = obj
            \/ obj = seen[p] /\ obj' \in Object /\ obj'.labels = labels[p]
<1>0. NoObject \notin Object
  BY ConstantsAssumption
<1>1. labels[p] \in LabelSets
  BY DEF IInv, LabelsInv, Create, Update, Requesting
<1>2. Fresh \in Versions
  BY FreshVersion DEF IInv
<1>3. CASE Create(p)
  <2>1. seen[p] = NoObject /\ pc[p] = "create" /\ seen' = seen /\ labels' = labels
    BY <1>3 DEF IInv, SeenInv, Create
  <2> DEFINE new == [labels |-> labels[p], meta |-> "nodename", version |-> Fresh]
  <2>2. new \in Object /\ new.labels = labels[p]
    BY <1>1, <1>2 DEF Object, Metas
  <2>3. \/ obj' = obj
        \/ obj = NoObject /\ obj' = new
    BY <1>3 DEF Create, Request, Refused
  <2>4. /\ gone' = gone \ {p}
        /\ \/ Goto(p, "off") \/ Goto(p, "idle")
    BY <1>3 DEF Create, Request, Refused
  <2>5. QED
    BY <2>1, <2>2, <2>3, <2>4 DEF IInv, TypeOK, Goto, Requesting
<1>4. CASE Update(p)
  <2>1. /\ seen[p] \in Object /\ pc[p] = "update" /\ labels' = labels
        /\ seen' = [seen EXCEPT ![p] = NoObject]
    BY <1>4 DEF IInv, TypeOK, SeenInv, Update, Forget
  <2> DEFINE new == [Wanted(p, seen[p]) EXCEPT !.version = Fresh]
  <2>2. new \in Object /\ new.labels = labels[p]
    BY <1>1, <1>2, <2>1, WantedType
  <2>3. \/ obj' = obj
        \/ obj = seen[p] /\ obj' = new
    BY <1>4 DEF Update, Request, Refused
  <2>4. /\ gone' = gone \ {p}
        /\ \/ Goto(p, "off") \/ Goto(p, "idle")
    BY <1>4 DEF Update, Request, Refused
  <2>5. QED
    BY <2>1, <2>2, <2>3, <2>4 DEF IInv, TypeOK, Goto, Requesting
<1>5. QED BY <1>3, <1>4

LEMMA InitIInv == Init => IInv
  BY DEF Init, IInv, TypeOK, SeenInv, LabelsInv, Requesting

LEMMA StepIInv == IInv /\ [Next]_vars => IInv'
<1> SUFFICES ASSUME IInv, [Next]_vars PROVE IInv'
  OBVIOUS
<1> USE DEF IInv, TypeOK, SeenInv, LabelsInv, Requesting, Wanted
<1>0. NoObject \notin Object
  BY ConstantsAssumption
<1>1. ASSUME NEW p \in Procs, Start(p) PROVE IInv'
  BY <1>1 DEF Start, Goto
<1>2. ASSUME NEW p \in Procs, Generate(p) PROVE IInv'
  <2>1. PICK l \in LabelSets: labels' = [labels EXCEPT ![p] = l]
    BY <1>2 DEF Generate
  <2>2. pc[p] = "idle" /\ pc' = [pc EXCEPT ![p] = "get"] /\ UNCHANGED <<obj, seen, gone>>
    BY <1>2 DEF Generate, Goto
  <2>3. TypeOK'
    BY <2>1, <2>2
  <2>4. SeenInv'
    BY <2>1, <2>2
  <2>5. LabelsInv'
    BY <2>1, <2>2
  <2>6. QED BY <2>3, <2>4, <2>5
<1>3. ASSUME NEW p \in Procs, End(p) PROVE IInv'
  <2>1. CASE Goto(p, "off") /\ Forget(p) /\ UNCHANGED gone
    BY <1>3, <2>1 DEF End, Goto, Forget
  <2>2. CASE gone' = gone \cup {p} /\ pc[p] \in Requesting /\ UNCHANGED <<pc, seen>>
    BY <1>3, <2>2 DEF End
  <2>3. QED BY <1>3, <2>1, <2>2 DEF End
<1>4. ASSUME NEW p \in Procs, Get(p) PROVE IInv'
  <2>1. pc[p] = "get" /\ seen[p] = NoObject /\ UNCHANGED <<obj, labels, gone>>
    BY <1>4 DEF Get
  <2>2. CASE UNCHANGED seen /\ \E l \in {"create", "idle", "off"}: Goto(p, l)
    BY <2>1, <2>2 DEF Goto
  <2>3. CASE /\ obj # NoObject /\ Wanted(p, obj) # obj
             /\ seen' = [seen EXCEPT ![p] = obj] /\ Goto(p, "update")
    BY <2>1, <2>3 DEF Goto
  <2>4. QED BY <1>4, <2>2, <2>3 DEF Get
<1>5. ASSUME NEW p \in Procs, Create(p) \/ Update(p) PROVE IInv'
  <2> HIDE DEF IInv, TypeOK, SeenInv, LabelsInv, Requesting, Wanted
  <2>1. /\ pc[p] \in Requesting
        /\ pc' \in [Procs -> {"off", "idle", "get", "create", "update"}]
        /\ pc'[p] \in {"off", "idle"}
        /\ \A q \in Procs \ {p}: pc'[q] = pc[q]
        /\ gone' = gone \ {p} /\ labels' = labels
        /\ seen' \in [Procs -> Object \cup {NoObject}] /\ seen'[p] = NoObject
        /\ \A q \in Procs \ {p}: seen'[q] = seen[q]
        /\ obj' = obj \/ obj' \in Object
    BY <1>5, RequestEnds
  <2>2. TypeOK'
    BY <2>1 DEF IInv, TypeOK, Requesting
  <2>3. ASSUME NEW q \in Procs
        PROVE  IF pc'[q] = "update" THEN seen'[q] # NoObject /\ Wanted(q, seen[q])' # seen'[q]
                                    ELSE seen'[q] = NoObject
    <3>1. CASE q = p
      BY <2>1, <3>1
    <3>2. CASE q # p
      BY <2>1, <3>2 DEF IInv, SeenInv, Wanted
    <3>3. QED BY <3>1, <3>2
  <2>4. SeenInv'
    BY <2>3 DEF SeenInv
  <2>5. LabelsInv'
    BY <2>1 DEF IInv, LabelsInv, Requesting
  <2>6. QED BY <2>2, <2>4, <2>5 DEF IInv
<1>6. ASSUME Meddle PROVE IInv'
  <2>1. Fresh \in Versions
    BY FreshVersion
  <2>2. obj' \in Object \cup {NoObject}
    BY <1>6, <2>1 DEF Meddle, Object, Metas
  <2>3. QED BY <1>6, <2>2 DEF Meddle
<1>7. CASE UNCHANGED vars
  BY <1>7 DEF vars
<1>8. QED
  BY <1>1, <1>2, <1>3, <1>4, <1>5, <1>6, <1>7 DEF Next, Pass

THEOREM Invariance == Spec => []IInv
  BY InitIInv, StepIInv, PTL DEF Spec

(* Every variable keeps its type, and only requests outlive an instance.   *)
THEOREM TypeCorrect == Spec => []TypeOK
<1>1. IInv => TypeOK
  BY DEF IInv
<1>2. QED BY <1>1, Invariance, PTL

-----------------------------------------------------------------------------
(* Nothing is overwritten that the instance has not read.                  *)
THEOREM NothingUnseenIsOverwritten == Spec => NoLostUpdate
<1>1. ASSUME IInv, NEW p \in Procs, [Next]_vars, Wrote(p)
      PROVE  obj = seen[p]
  <2>1. pc[p] \in Requesting /\ obj' # obj /\ pc'[p] # pc[p]
    BY <1>1 DEF Wrote, Requesting
  <2>2. CASE \E q \in Procs: Start(q) \/ Generate(q) \/ End(q) \/ Get(q)
    BY <2>1, <2>2 DEF Start, Generate, End, Get
  <2>3. CASE \E q \in Procs: Create(q) \/ Update(q)
    <3>1. PICK q \in Procs: Create(q) \/ Update(q)
      BY <2>3
    <3>2. q = p
      BY <1>1, <2>1, <3>1, RequestEnds
    <3>3. QED BY <1>1, <2>1, <3>1, <3>2, RequestEnds
  <2>4. CASE Meddle
    BY <2>1, <2>4 DEF Meddle
  <2>5. CASE UNCHANGED vars
    BY <2>1, <2>5 DEF vars
  <2>6. QED BY <1>1, <2>2, <2>3, <2>4, <2>5 DEF Next, Pass
<1>2. IInv /\ [Next]_vars => [\A p \in Procs: Wrote(p) => obj = seen[p]]_vars
  BY <1>1
<1>3. QED
  BY <1>2, Invariance, PTL DEF Spec, NoLostUpdate

(* An instance that writes over an object changes its labels or its node.  *)
LEMMA Writes ==
  ASSUME IInv, NEW p \in Procs, Create(p) \/ Update(p), obj' # obj, obj # NoObject
  PROVE  obj.labels # obj'.labels \/ obj.meta # "nodename"
<1>1. Update(p)
  BY DEF Create, Request, Refused
<1>2. /\ obj = seen[p] /\ obj \in Object /\ pc[p] = "update"
      /\ obj'.labels = labels[p]
  <2>1. pc[p] = "update"
    BY <1>1 DEF Update
  <2>2. obj = seen[p] /\ obj'.labels = labels[p]
    BY RequestEnds
  <2>3. QED BY <2>1, <2>2 DEF IInv, TypeOK
<1>3. Wanted(p, obj) # obj
  BY <1>2 DEF IInv, SeenInv
<1>4. CASE obj.labels = labels[p] /\ obj.meta = "nodename"
  <2>1. Wanted(p, obj) = obj
    BY <1>2, <1>4 DEF Wanted, Object
  <2>2. QED BY <1>3, <2>1
<1>5. QED BY <1>2, <1>4

(* A pass with unchanged labels writes nothing.                            *)
THEOREM NothingIsWrittenInVain == Spec => NoUselessWrite
<1> DEFINE Useful(p) == Wrote(p) => \/ obj = NoObject
                                    \/ obj.labels # obj'.labels
                                    \/ obj.meta # "nodename"
<1>1. ASSUME IInv, NEW p \in Procs, [Next]_vars
      PROVE  Useful(p)
  <2> SUFFICES ASSUME Wrote(p), obj # NoObject
               PROVE  obj.labels # obj'.labels \/ obj.meta # "nodename"
    OBVIOUS
  <2>1. pc[p] \in Requesting /\ obj' # obj /\ pc'[p] # pc[p]
    BY DEF Wrote, Requesting
  <2>2. CASE \E q \in Procs: Start(q) \/ Generate(q) \/ End(q) \/ Get(q)
    BY <2>1, <2>2 DEF Start, Generate, End, Get
  <2>3. CASE \E q \in Procs: Create(q) \/ Update(q)
    BY <1>1, <2>1, <2>3, Writes
  <2>4. CASE Meddle
    BY <2>1, <2>4 DEF Meddle
  <2>5. CASE UNCHANGED vars
    BY <2>1, <2>5 DEF vars
  <2>6. QED BY <1>1, <2>2, <2>3, <2>4, <2>5 DEF Next, Pass
<1>2. IInv /\ [Next]_vars => [\A p \in Procs: Useful(p)]_vars
  BY <1>1
<1>3. QED
  BY <1>2, Invariance, PTL DEF Spec, NoUselessWrite

-----------------------------------------------------------------------------
(* NodeFeature implements LabelStore.                                      *)

Writers == Procs \cup {Others}
Visible == IF obj = NoObject THEN NoObject ELSE obj.labels
InFlight == [w \in Writers |-> IF w = Others THEN NoObject ELSE Pending(w)]

(* What a step of one instance makes of the abstract variables. *)
LEMMA Invisible ==
  ASSUME obj' = obj, \A q \in Procs: Pending(q)' = Pending(q)
  PROVE  UNCHANGED Store!vars
<1>1. InFlight' = InFlight
  BY DEF InFlight, Writers
<1>2. QED BY <1>1 DEF Store!vars, InFlight, Writers

LEMMA OnePending ==
  ASSUME NEW p \in Procs, NEW l, Pending(p)' = l,
         \A q \in Procs \ {p}: Pending(q)' = Pending(q)
  PROVE  InFlight' = [InFlight EXCEPT ![p] = l] /\ InFlight[p] = Pending(p)
<1>1. p # Others /\ p \in Writers
  BY ConstantsAssumption DEF Writers
<1>2. \A q \in Procs: q # Others
  BY ConstantsAssumption
<1>3. ASSUME NEW w \in Writers
      PROVE  (IF w = Others THEN NoObject ELSE Pending(w))'
               = [InFlight EXCEPT ![p] = l][w]
  BY <1>1, <1>2 DEF InFlight, Writers
<1>4. QED BY <1>1, <1>3 DEF InFlight

LEMMA Abandons ==
  ASSUME NEW p \in Procs, obj' = obj, Pending(p) # NoObject, Pending(p)' = NoObject,
         \A q \in Procs \ {p}: Pending(q)' = Pending(q)
  PROVE  Store!Abandon(p)
<1>1. InFlight' = [InFlight EXCEPT ![p] = NoObject] /\ InFlight[p] # NoObject
  BY OnePending
<1>2. QED BY <1>1 DEF Store!Abandon, InFlight, Writers

(* Labels are never the absence of an object. *)
LEMMA Pends ==
  ASSUME IInv, NEW p \in Procs
  PROVE  Pending(p) = IF pc[p] \in Requesting \cup {"get"} THEN labels[p] ELSE NoObject
  BY DEF Pending, Requesting

LEMMA StepImplements ==
  IInv /\ IInv' /\ [Next]_vars => [Store!Next]_(Store!vars)
<1> SUFFICES ASSUME IInv, IInv', [Next]_vars
             PROVE  Store!Next \/ UNCHANGED Store!vars
  BY DEF Store!vars
<1> DEFINE Unmoved(p) == \A q \in Procs \ {p}: Pending(q)' = Pending(q)
<1>0. NoObject \notin LabelSets /\ NoObject \notin Object
  BY ConstantsAssumption
<1>1. ASSUME NEW p \in Procs, Start(p) PROVE UNCHANGED Store!vars
  <2>1. obj' = obj /\ \A q \in Procs: Pending(q)' = Pending(q)
    BY <1>1 DEF Start, Goto, Pending, IInv, TypeOK
  <2>2. QED BY <2>1, Invisible
<1>2. ASSUME NEW p \in Procs, Generate(p) PROVE Store!Generate(p)
  <2>1. PICK l \in LabelSets: labels' = [labels EXCEPT ![p] = l]
    BY <1>2 DEF Generate
  <2>2. Pending(p) = NoObject /\ Pending(p)' = l /\ Unmoved(p) /\ obj' = obj
    BY <1>2, <2>1 DEF Generate, Goto, Pending, IInv, TypeOK
  <2>3. InFlight' = [InFlight EXCEPT ![p] = l] /\ InFlight[p] = NoObject
    BY <2>2, OnePending
  <2>4. QED BY <2>2, <2>3 DEF Store!Generate, InFlight, Writers
<1>3. ASSUME NEW p \in Procs, End(p) PROVE Store!Abandon(p) \/ UNCHANGED Store!vars
  <2>1. obj' = obj /\ Unmoved(p)
    BY <1>3 DEF End, Goto, Pending, IInv, TypeOK
  <2>2. CASE Pending(p)' = Pending(p)
    BY <2>1, <2>2, Invisible
  <2>3. CASE Pending(p)' # Pending(p)
    <3>1. Goto(p, "off")
      BY <1>3, <2>3 DEF End, Pending
    <3>2. Pending(p)' = NoObject
      BY <3>1 DEF Goto, Pending, IInv, TypeOK
    <3>3. QED BY <2>1, <2>3, <3>2, Abandons
  <2>4. QED BY <2>2, <2>3
<1>4. ASSUME NEW p \in Procs, Get(p) PROVE Store!Abandon(p) \/ UNCHANGED Store!vars
  <2>1. PICK l \in {"create", "update", "idle", "off"}: Goto(p, l)
    BY <1>4 DEF Get
  <2>2. pc[p] = "get" /\ obj' = obj /\ labels' = labels /\ labels[p] \in LabelSets
    BY <1>4 DEF Get, IInv, LabelsInv
  <2>3. Unmoved(p) /\ Pending(p)' \in {Pending(p), NoObject}
    BY <2>1, <2>2 DEF Goto, Pending, IInv, TypeOK
  <2>4. CASE Pending(p)' = Pending(p)
    BY <2>2, <2>3, <2>4, Invisible
  <2>5. CASE Pending(p)' # Pending(p)
    BY <2>2, <2>3, <2>5, Abandons
  <2>6. QED BY <2>4, <2>5
<1>5. ASSUME NEW p \in Procs, Create(p) \/ Update(p)
      PROVE  Store!Publish(p) \/ Store!Abandon(p)
  <2>1. /\ pc[p] \in Requesting /\ pc'[p] \in {"off", "idle"} /\ labels' = labels
        /\ \A q \in Procs \ {p}: pc'[q] = pc[q]
        /\ \/ obj' = obj
           \/ obj' \in Object /\ obj'.labels = labels[p]
    BY <1>5, RequestEnds
  <2>2. labels[p] \in LabelSets
    BY <2>1 DEF IInv, LabelsInv
  <2>3. Pending(p) = labels[p] /\ Pending(p)' = NoObject /\ Unmoved(p)
    BY <2>1 DEF Pending, Requesting
  <2>4. CASE obj' = obj
    BY <1>0, <2>2, <2>3, <2>4, Abandons
  <2>5. CASE obj' \in Object /\ obj'.labels = labels[p]
    <3>1. Visible' = labels[p]
      BY <1>0, <2>5 DEF Visible
    <3>2. InFlight' = [InFlight EXCEPT ![p] = NoObject] /\ InFlight[p] = labels[p]
      BY <2>3, OnePending
    <3>3. QED BY <1>0, <2>2, <3>1, <3>2 DEF Store!Publish, InFlight, Writers, Visible
  <2>6. QED BY <2>1, <2>4, <2>5
<1>6. ASSUME Meddle PROVE Store!Withdraw(Others) \/ UNCHANGED Store!vars
  <2>1. \A q \in Procs: Pending(q)' = Pending(q)
    BY <1>6 DEF Meddle, Pending
  <2>2. InFlight' = InFlight
    BY <2>1 DEF InFlight, Writers
  <2>3. CASE obj' = NoObject
    <3>1. Others \notin Procs /\ InFlight[Others] = NoObject
      BY ConstantsAssumption DEF InFlight, Writers
    <3>2. QED BY <2>2, <2>3, <3>1 DEF Store!Withdraw, InFlight, Writers
  <2>4. CASE obj' # NoObject
    <3>1. obj \in Object /\ obj' = [obj EXCEPT !.meta = "other", !.version = Fresh]
      BY <1>6, <2>4 DEF Meddle, IInv, TypeOK
    <3>2. Visible' = Visible
      BY <1>0, <2>4, <3>1 DEF Visible, Object
    <3>3. QED BY <2>2, <3>2 DEF Store!vars, InFlight, Writers, Visible
  <2>5. QED BY <2>3, <2>4
<1>7. CASE UNCHANGED vars
  BY <1>7, Invisible DEF vars, Pending
<1>8. ASSUME NEW w \in Writers,
             Store!Generate(w) \/ Store!Publish(w) \/ Store!Abandon(w) \/ Store!Withdraw(w)
      PROVE  Store!Next
  BY <1>8 DEF Store!Next, Writers
<1>9. QED
  BY <1>1, <1>2, <1>3, <1>4, <1>5, <1>6, <1>7, <1>8 DEF Next, Pass, Writers

(* To its readers the object is a store of complete label sets, that the   *)
(* program never empties, although requests outlive their instances.       *)
THEOREM Refinement == Spec => StoreSpec
<1>1. Init => Store!Init
  BY DEF Init, Store!Init, Pending
<1>2. QED
  BY Invariance, <1>1, StepImplements, PTL DEF Spec, StoreSpec, Store!Spec
=============================================================================
