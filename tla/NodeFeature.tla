----------------------------- MODULE NodeFeature -----------------------------
(***************************************************************************)
(* Publishing labels through the Kubernetes API: UpdateNodeFeatureObject   *)
(* (labels.go) reads the node's NodeFeature object and then creates it,    *)
(* updates it, or leaves it.  Between the read and the write other         *)
(* instances of the program, an administrator or a garbage collector may   *)
(* change or delete the object, and the answer of the API server may be    *)
(* lost after the server did what was asked.  An instance may be killed    *)
(* while its request is on the way, which the server then serves at any    *)
(* later time, when the instance's successors have run: requests have no   *)
(* deadline (context.TODO).                                                *)
(*                                                                         *)
(* The API server is external: it serves one request at a time, stamps     *)
(* each stored state of the object with a new resource version, and        *)
(* refuses an update made from another version.  Versions are only         *)
(* compared for equality, so a version nobody holds may be used again.     *)
(***************************************************************************)
EXTENDS Naturals, FiniteSets

CONSTANTS Procs,        \* program instances for the same node: pods, one after
                        \* the other or several at a time
          LabelSets,    \* complete label sets a pass can generate
          NoObject,     \* there is no NodeFeature object
          NoLabels,     \* no pass under way
          Others,       \* whoever else may change the object
          Meddling,     \* what the others do: a subset of {"delete", "relabel"}
          Faulty        \* whether requests may fail

Versions == 1..(Cardinality(Procs) + 2)
Metas == {"nodename", "other"}   \* the object's own labels: as written here, or not
Object == [labels: LabelSets, meta: Metas, version: Versions]

ASSUME ConstantsAssumption ==
  /\ IsFiniteSet(Procs)
  /\ Others \notin Procs
  /\ NoObject \notin Object \cup LabelSets
  /\ NoLabels \notin LabelSets
  /\ Meddling \subseteq {"delete", "relabel"}
  /\ Faulty \in BOOLEAN

VARIABLES obj,      \* the NodeFeature object on the API server
          pc,       \* where each instance is
          labels,   \* the label set of its current or last pass
          seen,     \* the object its Get returned
          gone      \* instances that have ended with a request on the way

vars == <<obj, pc, labels, seen, gone>>

TypeOK == /\ obj \in Object \cup {NoObject}
          /\ pc \in [Procs -> {"off", "idle", "get", "create", "update"}]
          /\ labels \in [Procs -> LabelSets \cup {NoLabels}]
          /\ seen \in [Procs -> Object \cup {NoObject}]
          /\ gone \subseteq {p \in Procs: pc[p] \in {"create", "update"}}

Init == /\ obj = NoObject
        /\ pc = [p \in Procs |-> "off"]
        /\ labels = [p \in Procs |-> NoLabels]
        /\ seen = [p \in Procs |-> NoObject]
        /\ gone = {}

Held == {o.version: o \in ({obj} \cup {seen[p]: p \in Procs}) \ {NoObject}}
Fresh == CHOOSE v \in Versions: v \notin Held
Goto(p, l) == pc' = [pc EXCEPT ![p] = l]
Forget(p) == seen' = [seen EXCEPT ![p] = NoObject]

(* The request of p, whose effect on the object is `effect`, is answered;  *)
(* or it fails, before or after the server has done it, and the program    *)
(* ends with the error.  An instance that has gone hears no answer.        *)
Request(p, effect) ==
  /\ \/ effect /\ Goto(p, IF p \in gone THEN "off" ELSE "idle")
     \/ Faulty /\ effect /\ Goto(p, "off")
     \/ Faulty /\ UNCHANGED obj /\ Goto(p, "off")
  /\ gone' = gone \ {p}

(* The server refuses the request. *)
Refused(p) == Goto(p, "off") /\ gone' = gone \ {p} /\ UNCHANGED obj

-----------------------------------------------------------------------------
Start(p) == /\ pc[p] = "off"
            /\ Goto(p, "idle")
            /\ labels' = [labels EXCEPT ![p] = NoLabels]
            /\ UNCHANGED <<obj, seen, gone>>

(* Mutant: the error of the labelers ignored, their nil result written. *)
GenerateIgnoringError(p) ==
  /\ pc[p] = "idle"
  /\ \E l \in LabelSets \cup {NoLabels}: labels' = [labels EXCEPT ![p] = l]
  /\ Goto(p, "get")
  /\ UNCHANGED <<obj, seen, gone>>

(* A pass generates labels. *)
Generate(p) == /\ pc[p] = "idle"
               /\ \E l \in LabelSets: labels' = [labels EXCEPT ![p] = l]
               /\ Goto(p, "get")
               /\ UNCHANGED <<obj, seen, gone>>

(* Mutant: the object deleted at the end, as the output file is. *)
EndDeleting(p) == /\ pc[p] # "off" /\ p \notin gone
                  /\ Goto(p, "off")
                  /\ Forget(p)
                  /\ obj' = NoObject
                  /\ UNCHANGED <<labels, gone>>

(* The program ends: a signal while it sleeps, an error of the labelers or *)
(* of the API client's configuration, or it is killed anywhere, with the   *)
(* request it has made on the way or not.                                  *)
End(p) == /\ pc[p] # "off" /\ p \notin gone
          /\ \/ Goto(p, "off") /\ Forget(p) /\ UNCHANGED gone
             \/ /\ pc[p] \in {"create", "update"}
                /\ gone' = gone \cup {p}
                /\ UNCHANGED <<pc, seen>>
          /\ UNCHANGED <<obj, labels>>

(* What the object should be: DeepCopy of what was read, with the labels   *)
(* and the spec replaced.                                                  *)
Wanted(p, o) == [o EXCEPT !.labels = labels[p], !.meta = "nodename"]

(* Mutant: the object written on every pass, changed or not. *)
GetNoCompare(p) ==
  /\ pc[p] = "get"
  /\ seen' = [seen EXCEPT ![p] = obj]
  /\ Goto(p, IF obj = NoObject THEN "create" ELSE "update")
  /\ UNCHANGED <<obj, labels, gone>>

(* Mutant: the absence of the object not told from an error. *)
GetNotFoundIsError(p) ==
  /\ pc[p] = "get"
  /\ \/ obj # NoObject /\ Wanted(p, obj) # obj /\ seen' = [seen EXCEPT ![p] = obj]
        /\ Goto(p, "update")
     \/ obj # NoObject /\ Wanted(p, obj) = obj /\ Goto(p, "idle") /\ UNCHANGED seen
     \/ obj = NoObject /\ Goto(p, "idle") /\ UNCHANGED seen
  /\ UNCHANGED <<obj, labels, gone>>

(* Get, and the comparison of what it returned with what is wanted. *)
Get(p) ==
  /\ pc[p] = "get"
  /\ \/ /\ obj = NoObject
        /\ Goto(p, "create")
        /\ UNCHANGED seen
     \/ /\ obj # NoObject
        /\ Wanted(p, obj) # obj
        /\ seen' = [seen EXCEPT ![p] = obj]
        /\ Goto(p, "update")
     \/ /\ obj # NoObject
        /\ Wanted(p, obj) = obj
        /\ Goto(p, "idle")
        /\ UNCHANGED seen
     \/ /\ Faulty
        /\ Goto(p, "off")
        /\ UNCHANGED seen
  /\ UNCHANGED <<obj, labels, gone>>

(* Create fails when the object has appeared since the Get. *)
Create(p) ==
  /\ pc[p] = "create"
  /\ \/ /\ obj = NoObject
        /\ Request(p, obj' = [labels |-> labels[p], meta |-> "nodename",
                              version |-> Fresh])
     \/ obj # NoObject /\ Refused(p)
  /\ UNCHANGED <<labels, seen>>

(* Mutant: an object made from nothing is written, which has no version.   *)
UpdateAnyVersion(p) ==
  /\ pc[p] = "update"
  /\ \/ /\ obj # NoObject
        /\ Request(p, obj' = [Wanted(p, seen[p]) EXCEPT !.version = Fresh])
     \/ obj = NoObject /\ Refused(p)
  /\ Forget(p)
  /\ UNCHANGED labels

(* Update is refused when the object is not the one that was read; the     *)
(* program does not read it again, it ends.                                *)
Update(p) ==
  /\ pc[p] = "update"
  /\ \/ /\ obj = seen[p]
        /\ Request(p, obj' = [Wanted(p, seen[p]) EXCEPT !.version = Fresh])
     \/ obj # seen[p] /\ Refused(p)
  /\ Forget(p)
  /\ UNCHANGED labels

(* The rest of the cluster: deletes the object, or edits its own labels. *)
Meddle == /\ obj # NoObject
          /\ \/ /\ "delete" \in Meddling
                /\ obj' = NoObject
             \/ /\ "relabel" \in Meddling
                /\ obj' = [obj EXCEPT !.meta = "other", !.version = Fresh]
          /\ UNCHANGED <<pc, labels, seen, gone>>

-----------------------------------------------------------------------------
Pass(p) == Generate(p) \/ Get(p) \/ Create(p) \/ Update(p)

Next == \/ \E p \in Procs: Start(p) \/ End(p) \/ Pass(p)
        \/ Meddle

Spec == Init /\ [][Next]_vars

(* A running instance makes its passes.  Nothing is assumed of restarts,   *)
(* failures, requests left behind and the rest of the cluster.             *)
FairSpec == Spec /\ \A p \in Procs: WF_vars(p \notin gone /\ Pass(p))

-----------------------------------------------------------------------------
(* Properties.                                                             *)

Wrote(p) == pc[p] \in {"create", "update"} /\ obj' # obj /\ pc'[p] # pc[p]

(* No lost update: what an instance overwrites is what it has read and     *)
(* compared, however the object was changed, deleted or made anew between  *)
(* its Get and its Update, also when the server serves the request after   *)
(* its instance was killed and successors have written.                    *)
NoLostUpdate == [][\A p \in Procs: Wrote(p) => obj = seen[p]]_vars

(* No useless write: a write of the program changes the labels of the      *)
(* object or repairs its node name, so passes with unchanged labels cause  *)
(* no traffic to those who watch the object (labels.go:169-180).           *)
NoUselessWrite ==
  [][\A p \in Procs: Wrote(p) =>
       \/ obj = NoObject
       \/ obj.labels # obj'.labels
       \/ obj.meta # "nodename"]_vars

(* An instance that stays up while the others are down publishes each      *)
(* pass, with the node's name on the object, although the object may be    *)
(* deleted or relabelled any finite number of times and requests of        *)
(* instances before it may still be served.                                *)
Up(p) == pc[p] # "off" /\ p \notin gone
Published(p) == obj # NoObject /\ obj.labels = labels[p] /\ obj.meta = "nodename"
Republished ==
  \A p \in Procs:
    <>[](Up(p) /\ \A q \in Procs \ {p}: ~Up(q))
      => []<>(pc[p] = "idle" /\ Published(p)) \/ []<><<Meddle>>_vars

(* The object is an abstract label store: every pass publishes what it     *)
(* generated at most once, and the program never withdraws labels, it      *)
(* leaves the object behind when it ends; only others delete it.           *)
Pending(p) == IF pc[p] \in {"get", "create", "update"} THEN labels[p] ELSE NoObject
Store == INSTANCE LabelStore WITH
           Writers <- Procs \cup {Others},
           Retainers <- Procs,
           Absent <- NoObject,
           store <- IF obj = NoObject THEN NoObject ELSE obj.labels,
           pending <- [w \in Procs \cup {Others} |->
                         IF w = Others THEN NoObject ELSE Pending(w)]
StoreSpec == Store!Spec
=============================================================================
