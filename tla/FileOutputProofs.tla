-------------------------- MODULE FileOutputProofs --------------------------
(***************************************************************************)
(* Theorems about FileOutput, for any number of instances, label sets and  *)
(* temporary files, and any subset of calls that may fail.                 *)
(***************************************************************************)
EXTENDS FileOutput, TLAPS

(* A process step changes the program counter of that process only. *)
LEMMA GotoType ==
  ASSUME TypeOK, NEW p \in Procs, NEW l \in PC, Goto(p, l)
  PROVE  /\ pc' \in [Procs -> PC]
         /\ pc'[p] = l
         /\ \A q \in Procs \ {p}: pc'[q] = pc[q]
  BY DEF Goto, TypeOK

(* The deferred function of run() leads to the removal or straight to its  *)
(* target; either way no temporary file is in use and no write under way.  *)
LEMMA ReturnType ==
  ASSUME TypeOK, NEW p \in Procs, NEW to \in Targets, Return(p, to)
  PROVE  /\ pc' \in [Procs -> PC]
         /\ after' \in [Procs -> Targets]
         /\ pc'[p] \in {to, "purgeOut"}
         /\ p \notin Oneshot => pc'[p] = "purgeOut"
         /\ \A q \in Procs \ {p}: pc'[q] = pc[q]
<1>1. to \in PC /\ "purgeOut" \in PC
  BY DEF PC, Targets, Stopped
<1>2. CASE p \in Oneshot
  BY <1>1, <1>2, GotoType DEF Return, TypeOK
<1>3. CASE p \notin Oneshot
  <2>1. Goto(p, "purgeOut") /\ after' = [after EXCEPT ![p] = to]
    BY <1>3 DEF Return
  <2>2. QED BY <1>1, <2>1, GotoType DEF TypeOK
<1>4. QED BY <1>2, <1>3

(* RemoveAll ends in the deferred function of run(), in os.Remove or, when *)
(* removeOutputFile gives up, in the target of the removal.                *)
LEMMA PurgeReturnsType ==
  ASSUME TypeOK, NEW p \in Procs, NEW ok \in BOOLEAN, PurgeReturns(p, ok)
  PROVE  /\ pc' \in [Procs -> PC]
         /\ after' \in [Procs -> Targets]
         /\ pc'[p] \in Targets \cup {"remove", "purgeOut"}
         /\ \A q \in Procs \ {p}: pc'[q] = pc[q]
<1>1. CASE pc[p] \in {"purgeErr", "sweepErr"}
  BY <1>1, ReturnType DEF PurgeReturns, Targets
<1>2. CASE pc[p] \notin {"purgeErr", "sweepErr"}
  <2>1. (IF ok THEN "remove" ELSE after[p]) \in Targets \cup {"remove"}
    BY DEF TypeOK
  <2>2. Targets \cup {"remove"} \subseteq PC
    BY DEF PC, Targets, Stopped, Calls
  <2>3. QED BY <1>2, <2>1, <2>2, GotoType DEF PurgeReturns, TypeOK
<1>3. QED BY <1>1, <1>2

(* No step other than Create, Chmod, Unlink and Crash touches a name, and  *)
(* no one enters or leaves the use of a temporary file elsewhere: a step   *)
(* that leaves name alone and keeps every instance on its side of Using    *)
(* keeps NamesOwned.                                                       *)
LEMMA NamesKept ==
  ASSUME NamesOwned, name' = name,
         \A q \in Procs: pc'[q] \in Using <=> pc[q] \in Using
  PROVE  NamesOwned'
  BY DEF NamesOwned

(* A step that brings no instance to "rename" or into a write, keeps       *)
(* labels, and at most removes temporary files, keeps ReadyWhole.          *)
LEMMA ReadyKept ==
  ASSUME TypeOK, NamesOwned, ReadyWhole, labels' = labels,
         \A n \in Names: tmp'[n] = tmp[n] \/ tmp'[n] = NoFile,
         \A q \in Procs: name'[q] = name[q] \/ pc'[q] \notin Using,
         \A q \in Procs: pc'[q] \in Writing => pc[q] \in Writing,
         \A q \in Procs: pc'[q] = "rename" => pc[q] = "rename"
  PROVE  ReadyWhole'
<1>1. ASSUME NEW q \in Procs, pc'[q] \in Writing
      PROVE  labels'[q] \in LabelSets
  BY <1>1 DEF ReadyWhole
<1>2. ASSUME NEW q \in Procs, pc'[q] = "rename", tmp'[name'[q]] # NoFile
      PROVE  tmp'[name'[q]].content = labels'[q]
  <2>1. pc[q] = "rename" /\ name'[q] = name[q]
    BY <1>2 DEF Using
  <2>2. name[q] \in Names
    BY <2>1 DEF NamesOwned, TypeOK, Using
  <2>3. tmp'[name[q]] = tmp[name[q]]
    BY <1>2, <2>1, <2>2
  <2>4. QED BY <1>2, <2>1, <2>3 DEF ReadyWhole
<1>3. QED BY <1>1, <1>2 DEF ReadyWhole

(* An instance in Using holds a file name. *)
LEMMA UsingName ==
  ASSUME TypeOK, NamesOwned, NEW p \in Procs, pc[p] \in Using
  PROVE  name[p] \in Names
  BY DEF TypeOK, NamesOwned

-----------------------------------------------------------------------------
LEMMA InitIInv == Init => IInv
<1> SUFFICES ASSUME Init PROVE IInv
  OBVIOUS
<1>1. TypeOK
  BY DEF Init, TypeOK, PC, Stopped, Targets
<1>2. \A p \in Procs: pc[p] = "off" /\ name[p] = NoName
  BY DEF Init
<1>3. NamesOwned
  BY <1>2 DEF NamesOwned, Using
<1>4. ReadyWhole
  BY <1>2 DEF ReadyWhole, Writing
<1>5. OutputWhole
  BY DEF Init, OutputWhole
<1>6. QED BY <1>1, <1>3, <1>4, <1>5 DEF IInv

(* The steps that leave names, temporary files and the output alone. *)
LEMMA QuietStep ==
  ASSUME IInv, pc' \in [Procs -> PC], after' \in [Procs -> Targets],
         todo' \in [Procs -> SUBSET Names], tmpDir' \in BOOLEAN,
         UNCHANGED <<labels, name, out, tmp>>,
         \A q \in Procs: pc'[q] # pc[q] =>
           /\ pc[q] \notin Using
           /\ pc'[q] \notin Using
           /\ pc'[q] \in Writing => pc[q] \in Writing
  PROVE  IInv'
<1>1. TypeOK' BY DEF IInv, TypeOK
<1>2. NamesOwned' BY NamesKept DEF IInv
<1>3. ReadyWhole'
  <2>1. \A q \in Procs: pc'[q] = "rename" => pc[q] = "rename"
    BY DEF Using
  <2>2. QED BY <2>1, ReadyKept DEF IInv
<1>4. OutputWhole' BY DEF IInv, OutputWhole
<1>5. QED BY <1>1, <1>2, <1>3, <1>4 DEF IInv

LEMMA StepIInv == IInv /\ [Next]_vars => IInv'
<1> SUFFICES ASSUME IInv, [Next]_vars PROVE IInv'
  OBVIOUS
<1> USE DEF IInv
<1>t. TypeOK /\ NamesOwned /\ ReadyWhole /\ OutputWhole
  OBVIOUS
<1>l. {"load", "label", "mkdir", "create", "open", "write", "rename", "chmod",
       "unlink", "sleep", "purgeErr", "sweepErr", "purgeOut", "sweepOut",
       "remove", "off", "done", "failed"} \subseteq PC
  BY DEF PC, Calls, Stopped
<1>1. ASSUME NEW p \in Procs, Start(p) PROVE IInv'
  <2>1. pc' \in [Procs -> PC] /\ pc'[p] = "load"
        /\ \A q \in Procs \ {p}: pc'[q] = pc[q]
    BY <1>1, <1>l, GotoType DEF Start
  <2>2. TypeOK'
    BY <1>1, <2>1 DEF Start, TypeOK
  <2>3. NamesOwned'
    BY <1>1, <2>1, NamesKept DEF Start, Using, Stopped
  <2>4. ReadyWhole'
    BY <1>1, <2>1 DEF Start, ReadyWhole, Writing, TypeOK
  <2>5. QED BY <1>1, <2>2, <2>3, <2>4 DEF Start, OutputWhole
<1>2. ASSUME NEW p \in Procs, Load(p) PROVE IInv'
  BY <1>2, <1>l, GotoType, QuietStep DEF Load, Using, Writing, TypeOK
<1>3. ASSUME NEW p \in Procs, GenerateLabels(p) PROVE IInv'
  <2>1. CASE Return(p, "failed") /\ UNCHANGED labels
    BY <1>3, <2>1, ReturnType, QuietStep
       DEF GenerateLabels, Using, Writing, TypeOK, Targets
  <2>2. ASSUME NEW l \in LabelSets, labels' = [labels EXCEPT ![p] = l],
               Goto(p, "mkdir"), UNCHANGED after
        PROVE  IInv'
    <3>1. pc' \in [Procs -> PC] /\ pc'[p] = "mkdir"
          /\ \A q \in Procs \ {p}: pc'[q] = pc[q]
      BY <2>2, <1>l, GotoType
    <3>2. TypeOK'
      BY <1>3, <2>2, <3>1 DEF GenerateLabels, TypeOK
    <3>3. NamesOwned'
      BY <1>3, <3>1, NamesKept DEF GenerateLabels, Using
    <3>4. ReadyWhole'
      BY <1>3, <2>2, <3>1 DEF GenerateLabels, ReadyWhole, Writing, TypeOK
    <3>5. QED BY <1>3, <3>2, <3>3, <3>4 DEF GenerateLabels, OutputWhole
  <2>3. QED BY <1>3, <2>1, <2>2 DEF GenerateLabels
<1>4. ASSUME NEW p \in Procs, Timer(p) \/ Signal(p) PROVE IInv'
  BY <1>4, <1>l, GotoType, ReturnType, QuietStep
     DEF Timer, Signal, Using, Writing, TypeOK, Targets
<1>5. ASSUME NEW p \in Procs, Mkdir(p) PROVE IInv'
  <2>1. /\ pc' \in [Procs -> PC] /\ after' \in [Procs -> Targets]
        /\ pc'[p] \in {"create", "failed", "purgeOut"}
        /\ \A q \in Procs \ {p}: pc'[q] = pc[q]
        /\ tmpDir' \in BOOLEAN
    BY <1>5, <1>l, GotoType, ReturnType DEF Mkdir, Targets, TypeOK
  <2>2. QED BY <1>5, <2>1, QuietStep DEF Mkdir, Using, Writing, TypeOK
<1>6. ASSUME NEW p \in Procs, Create(p) PROVE IInv'
  <2>1. CASE Goto(p, "purgeErr") /\ UNCHANGED <<name, tmp>>
    BY <1>6, <2>1, <1>l, GotoType, QuietStep DEF Create, Using, Writing, TypeOK
  <2>2. ASSUME NEW n \in Names \ (Present \cup {name[q]: q \in Procs}),
               name' = [name EXCEPT ![p] = n],
               tmp' = [tmp EXCEPT ![n] = [content |-> Partial, mode |-> "0600"]],
               Goto(p, "open")
        PROVE  IInv'
    <3>1. pc' \in [Procs -> PC] /\ pc'[p] = "open"
          /\ \A q \in Procs \ {p}: pc'[q] = pc[q]
      BY <2>2, <1>l, GotoType
    <3>2. n # NoName /\ \A q \in Procs: name[q] # n
      BY <2>2, ConstantsAssumption
    <3>3. TypeOK'
      BY <1>6, <2>2, <3>1 DEF Create, TypeOK, File, Modes
    <3>4. NamesOwned'
      BY <1>6, <2>2, <3>1, <3>2 DEF Create, NamesOwned, TypeOK, Using
    <3>5. ReadyWhole'
      <4>1. ASSUME NEW q \in Procs, pc'[q] \in Writing
            PROVE  labels'[q] \in LabelSets
        BY <1>6, <3>1, <4>1 DEF Create, ReadyWhole, Writing
      <4>2. ASSUME NEW q \in Procs, pc'[q] = "rename", tmp'[name'[q]] # NoFile
            PROVE  tmp'[name'[q]].content = labels'[q]
        <5>1. q # p /\ pc[q] = "rename" /\ name'[q] = name[q]
          BY <2>2, <3>1, <4>2 DEF TypeOK
        <5>2. name[q] \in Names /\ name[q] # n
          BY <3>2, <5>1, UsingName DEF Using
        <5>3. tmp'[name[q]] = tmp[name[q]]
          BY <2>2, <5>2 DEF TypeOK
        <5>4. QED BY <1>6, <4>2, <5>1, <5>3 DEF Create, ReadyWhole
      <4>3. QED BY <4>1, <4>2 DEF ReadyWhole
    <3>6. QED BY <1>6, <3>3, <3>4, <3>5 DEF Create, OutputWhole
  <2>3. QED BY <1>6, <2>1, <2>2 DEF Create
<1>7. ASSUME NEW p \in Procs, Open(p) PROVE IInv'
  <2>1. CASE Goto(p, "unlink") /\ UNCHANGED tmp
    <3>1. pc' \in [Procs -> PC] /\ pc'[p] = "unlink"
          /\ \A q \in Procs \ {p}: pc'[q] = pc[q]
      BY <2>1, <1>l, GotoType
    <3>2. TypeOK' BY <1>7, <2>1, <3>1 DEF Open, TypeOK
    <3>3. NamesOwned' BY <1>7, <3>1, NamesKept DEF Open, Using
    <3>4. ReadyWhole' BY <1>7, <2>1, <3>1, ReadyKept DEF Open, Writing
    <3>5. QED BY <1>7, <3>2, <3>3, <3>4 DEF Open, OutputWhole
  <2>2. CASE /\ tmp' = [tmp EXCEPT ![name[p]] =
                          [content |-> Partial,
                           mode |-> IF @ = NoFile THEN "0644" ELSE @.mode]]
             /\ Goto(p, "write")
    <3>1. pc' \in [Procs -> PC] /\ pc'[p] = "write"
          /\ \A q \in Procs \ {p}: pc'[q] = pc[q]
      BY <2>2, <1>l, GotoType
    <3>2. name[p] \in Names
      BY <1>7, UsingName DEF Open, Using
    <3>3. tmp'[name[p]] \in File
      BY <2>2, <3>2 DEF TypeOK, File, Modes
    <3>4. TypeOK'
      BY <1>7, <2>2, <3>1, <3>2, <3>3 DEF Open, TypeOK
    <3>5. NamesOwned' BY <1>7, <3>1, NamesKept DEF Open, Using
    <3>6. ReadyWhole'
      <4>1. ASSUME NEW q \in Procs, pc'[q] \in Writing
            PROVE  labels'[q] \in LabelSets
        BY <1>7, <3>1, <4>1 DEF Open, ReadyWhole, Writing
      <4>2. ASSUME NEW q \in Procs, pc'[q] = "rename", tmp'[name'[q]] # NoFile
            PROVE  tmp'[name'[q]].content = labels'[q]
        <5>1. q # p /\ pc[q] = "rename" /\ name' = name
          BY <1>7, <3>1, <4>2 DEF Open
        <5>2. name[q] \in Names /\ name[q] # name[p]
          BY <1>7, <5>1, UsingName DEF Open, Using, NamesOwned
        <5>3. tmp'[name[q]] = tmp[name[q]]
          BY <2>2, <5>2 DEF TypeOK
        <5>4. QED BY <1>7, <4>2, <5>1, <5>3 DEF Open, ReadyWhole
      <4>3. QED BY <4>1, <4>2 DEF ReadyWhole
    <3>7. QED BY <1>7, <3>4, <3>5, <3>6 DEF Open, OutputWhole
  <2>3. QED BY <1>7, <2>1, <2>2 DEF Open
<1>8. ASSUME NEW p \in Procs, Write(p) PROVE IInv'
  <2>1. CASE Goto(p, "unlink") /\ UNCHANGED tmp
    <3>1. pc' \in [Procs -> PC] /\ pc'[p] = "unlink"
          /\ \A q \in Procs \ {p}: pc'[q] = pc[q]
      BY <2>1, <1>l, GotoType
    <3>2. TypeOK' BY <1>8, <2>1, <3>1 DEF Write, TypeOK
    <3>3. NamesOwned' BY <1>8, <3>1, NamesKept DEF Write, Using
    <3>4. ReadyWhole' BY <1>8, <2>1, <3>1, ReadyKept DEF Write, Writing
    <3>5. QED BY <1>8, <3>2, <3>3, <3>4 DEF Write, OutputWhole
  <2>2. CASE /\ tmp' = IF tmp[name[p]] = NoFile THEN tmp
                       ELSE [tmp EXCEPT ![name[p]].content = labels[p]]
             /\ Goto(p, "rename")
    <3>1. pc' \in [Procs -> PC] /\ pc'[p] = "rename"
          /\ \A q \in Procs \ {p}: pc'[q] = pc[q]
      BY <2>2, <1>l, GotoType
    <3>2. name[p] \in Names /\ labels[p] \in LabelSets
      BY <1>8, UsingName DEF Write, Using, ReadyWhole, Writing
    <3>3. /\ tmp'[name[p]] \in File \cup {NoFile}
          /\ tmp'[name[p]] # NoFile => tmp'[name[p]].content = labels[p]
          /\ \A n \in Names \ {name[p]}: tmp'[n] = tmp[n]
      <4>1. CASE tmp[name[p]] = NoFile
        BY <2>2, <3>2, <4>1
      <4>2. CASE tmp[name[p]] # NoFile
        <5>1. tmp[name[p]] \in File
          BY <3>2, <4>2 DEF TypeOK
        <5>2. tmp'[name[p]] = [tmp[name[p]] EXCEPT !.content = labels[p]]
          BY <2>2, <3>2, <4>2 DEF TypeOK
        <5>3. QED BY <2>2, <3>2, <4>2, <5>1, <5>2 DEF TypeOK, File
      <4>3. QED BY <4>1, <4>2
    <3>4. tmp' \in [Names -> File \cup {NoFile}]
      BY <2>2, <3>2, <3>3 DEF TypeOK
    <3>5. TypeOK'
      BY <1>8, <3>1, <3>4 DEF Write, TypeOK
    <3>6. NamesOwned' BY <1>8, <3>1, NamesKept DEF Write, Using
    <3>7. ReadyWhole'
      <4>1. ASSUME NEW q \in Procs, pc'[q] \in Writing
            PROVE  labels'[q] \in LabelSets
        BY <1>8, <3>1, <4>1 DEF Write, ReadyWhole, Writing
      <4>2. ASSUME NEW q \in Procs, pc'[q] = "rename", tmp'[name'[q]] # NoFile
            PROVE  tmp'[name'[q]].content = labels'[q]
        <5>1. CASE q = p
          BY <1>8, <3>3, <4>2, <5>1 DEF Write
        <5>2. CASE q # p
          <6>1. pc[q] = "rename" /\ name' = name
            BY <1>8, <3>1, <4>2, <5>2 DEF Write
          <6>2. name[q] \in Names /\ name[q] # name[p]
            BY <1>8, <5>2, <6>1, UsingName DEF Write, Using, NamesOwned
          <6>3. tmp'[name[q]] = tmp[name[q]]
            BY <3>3, <6>2
          <6>4. QED BY <1>8, <4>2, <6>1, <6>3 DEF Write, ReadyWhole
        <5>3. QED BY <5>1, <5>2
      <4>3. QED BY <4>1, <4>2 DEF ReadyWhole
    <3>8. QED BY <1>8, <3>5, <3>6, <3>7 DEF Write, OutputWhole
  <2>3. QED BY <1>8, <2>1, <2>2 DEF Write
<1>9. ASSUME NEW p \in Procs, Rename(p) PROVE IInv'
  <2>1. CASE Goto(p, "unlink") /\ UNCHANGED <<out, tmp>>
    <3>1. pc' \in [Procs -> PC] /\ pc'[p] = "unlink"
          /\ \A q \in Procs \ {p}: pc'[q] = pc[q]
      BY <2>1, <1>l, GotoType
    <3>2. TypeOK' BY <1>9, <2>1, <3>1 DEF Rename, TypeOK
    <3>3. NamesOwned' BY <1>9, <3>1, NamesKept DEF Rename, Using
    <3>4. ReadyWhole' BY <1>9, <2>1, <3>1, ReadyKept DEF Rename, Writing
    <3>5. QED BY <1>9, <2>1, <3>2, <3>3, <3>4 DEF Rename, OutputWhole
  <2>2. CASE /\ tmp[name[p]] # NoFile
             /\ out' = tmp[name[p]]
             /\ tmp' = [tmp EXCEPT ![name[p]] = NoFile]
             /\ Goto(p, "chmod")
    <3>1. pc' \in [Procs -> PC] /\ pc'[p] = "chmod"
          /\ \A q \in Procs \ {p}: pc'[q] = pc[q]
      BY <2>2, <1>l, GotoType
    <3>2. name[p] \in Names /\ labels[p] \in LabelSets
      BY <1>9, UsingName DEF Rename, Using, ReadyWhole, Writing
    <3>3. TypeOK' BY <1>9, <2>2, <3>1, <3>2 DEF Rename, TypeOK
    <3>4. NamesOwned' BY <1>9, <3>1, NamesKept DEF Rename, Using
    <3>5. \A n \in Names: tmp'[n] = tmp[n] \/ tmp'[n] = NoFile
      BY <2>2 DEF TypeOK
    <3>6. ReadyWhole' BY <1>9, <3>1, <3>5, ReadyKept DEF Rename, Writing
    <3>7. OutputWhole'
      BY <1>9, <2>2, <3>2 DEF Rename, OutputWhole, ReadyWhole
    <3>8. QED BY <3>3, <3>4, <3>6, <3>7
  <2>3. QED BY <1>9, <2>1, <2>2 DEF Rename
<1>10. ASSUME NEW p \in Procs, Chmod(p) PROVE IInv'
  <2>1. CASE Goto(p, "unlink") /\ UNCHANGED <<out, name>>
    <3>1. pc' \in [Procs -> PC] /\ pc'[p] = "unlink"
          /\ \A q \in Procs \ {p}: pc'[q] = pc[q]
      BY <2>1, <1>l, GotoType
    <3>2. TypeOK' BY <1>10, <2>1, <3>1 DEF Chmod, TypeOK
    <3>3. NamesOwned' BY <1>10, <2>1, <3>1, NamesKept DEF Chmod, Using
    <3>4. ReadyWhole' BY <1>10, <2>1, <3>1, ReadyKept DEF Chmod, Writing
    <3>5. QED BY <1>10, <2>1, <3>2, <3>3, <3>4 DEF Chmod, OutputWhole
  <2>2. CASE /\ out # NoFile
             /\ out' = [out EXCEPT !.mode = "0644"]
             /\ name' = [name EXCEPT ![p] = NoName]
             /\ Goto(p, IF p \in Oneshot THEN "done" ELSE "sleep")
    <3>1. pc' \in [Procs -> PC] /\ pc'[p] \in {"done", "sleep"}
          /\ \A q \in Procs \ {p}: pc'[q] = pc[q]
      BY <2>2, <1>l, GotoType
    <3>2. out \in File /\ out' \in File /\ out'.content = out.content
      BY <2>2 DEF TypeOK, File, Modes
    <3>3. TypeOK' BY <1>10, <2>2, <3>1, <3>2 DEF Chmod, TypeOK
    <3>4. NamesOwned' BY <1>10, <2>2, <3>1 DEF Chmod, Using, NamesOwned, TypeOK
    <3>5. \A q \in Procs: name'[q] = name[q] \/ pc'[q] \notin Using
      BY <2>2, <3>1 DEF Using, TypeOK
    <3>6. ReadyWhole' BY <1>10, <3>1, <3>5, ReadyKept DEF Chmod, Writing
    <3>7. OutputWhole' BY <2>2, <3>2 DEF OutputWhole
    <3>8. QED BY <3>3, <3>4, <3>6, <3>7
  <2>3. QED BY <1>10, <2>1, <2>2 DEF Chmod
<1>11. ASSUME NEW p \in Procs, Unlink(p) PROVE IInv'
  <2>1. pc' \in [Procs -> PC] /\ pc'[p] = "purgeErr"
        /\ \A q \in Procs \ {p}: pc'[q] = pc[q]
    BY <1>11, <1>l, GotoType DEF Unlink
  <2>2. TypeOK' BY <1>11, <2>1 DEF Unlink, TypeOK
  <2>3. NamesOwned' BY <1>11, <2>1 DEF Unlink, Using, NamesOwned, TypeOK
  <2>4. \A n \in Names: tmp'[n] = tmp[n] \/ tmp'[n] = NoFile
    BY <1>11 DEF Unlink, TypeOK
  <2>5. \A q \in Procs: name'[q] = name[q] \/ pc'[q] \notin Using
    BY <1>11, <2>1 DEF Unlink, Using, TypeOK
  <2>6. ReadyWhole' BY <1>11, <2>1, <2>4, <2>5, ReadyKept DEF Unlink, Writing
  <2>7. QED BY <1>11, <2>2, <2>3, <2>6 DEF Unlink, OutputWhole
<1>12. ASSUME NEW p \in Procs, Purge(p) PROVE IInv'
  <2>1. /\ pc' \in [Procs -> PC] /\ after' \in [Procs -> Targets]
        /\ pc'[p] \in Targets \cup {"remove", "purgeOut", "sweepErr", "sweepOut"}
        /\ \A q \in Procs \ {p}: pc'[q] = pc[q]
    <3>1. CASE PurgeReturns(p, TRUE)
      BY <3>1, PurgeReturnsType
    <3>2. CASE /\ Goto(p, IF pc[p] = "purgeErr" THEN "sweepErr" ELSE "sweepOut")
               /\ UNCHANGED <<after, tmpDir>>
      BY <3>2, <1>l, GotoType DEF TypeOK
    <3>3. QED BY <1>12, <3>1, <3>2 DEF Purge
  <2>2. todo' \in [Procs -> SUBSET Names] /\ tmpDir' \in BOOLEAN
    BY <1>12 DEF Purge, TypeOK, Present
  <2>3. QED BY <1>12, <2>1, <2>2, QuietStep DEF Purge, Using, Writing, Targets
<1>13. ASSUME NEW p \in Procs, SweepEntry(p) PROVE IInv'
  <2>1. TypeOK' BY <1>13 DEF SweepEntry, TypeOK
  <2>2. \A n \in Names: tmp'[n] = tmp[n] \/ tmp'[n] = NoFile
    BY <1>13 DEF SweepEntry, TypeOK
  <2>3. ReadyWhole' BY <1>13, <2>2, ReadyKept DEF SweepEntry
  <2>4. NamesOwned' BY <1>13, NamesKept DEF SweepEntry
  <2>5. QED BY <1>13, <2>1, <2>3, <2>4 DEF SweepEntry, OutputWhole
<1>14. ASSUME NEW p \in Procs, SweepDir(p) PROVE IInv'
  <2>1. /\ pc' \in [Procs -> PC] /\ after' \in [Procs -> Targets]
        /\ pc'[p] \in Targets \cup {"remove", "purgeOut"}
        /\ \A q \in Procs \ {p}: pc'[q] = pc[q]
    BY <1>14, PurgeReturnsType DEF SweepDir
  <2>2. tmpDir' \in BOOLEAN
    BY <1>14 DEF SweepDir, TypeOK
  <2>3. QED BY <1>14, <2>1, <2>2, QuietStep DEF SweepDir, Using, Writing, Targets, TypeOK
<1>15. ASSUME NEW p \in Procs, Remove(p) PROVE IInv'
  <2>1. after[p] \in Targets /\ after[p] \in PC
    BY <1>l DEF TypeOK, Targets
  <2>2. pc' \in [Procs -> PC] /\ pc'[p] \in Targets
        /\ \A q \in Procs \ {p}: pc'[q] = pc[q]
    BY <1>15, <2>1, GotoType DEF Remove
  <2>3. TypeOK' BY <1>15, <2>2 DEF Remove, TypeOK
  <2>4. NamesOwned' BY <1>15, <2>2, NamesKept DEF Remove, Using, Targets
  <2>5. ReadyWhole' BY <1>15, <2>2, ReadyKept DEF Remove, Writing, Targets
  <2>6. QED BY <1>15, <2>3, <2>4, <2>5 DEF Remove, OutputWhole
<1>16. ASSUME NEW p \in Procs, Crash(p) PROVE IInv'
  <2>1. pc' \in [Procs -> PC] /\ pc'[p] = "off"
        /\ \A q \in Procs \ {p}: pc'[q] = pc[q]
    BY <1>16, <1>l, GotoType DEF Crash
  <2>2. TypeOK' BY <1>16, <2>1 DEF Crash, TypeOK
  <2>3. NamesOwned' BY <1>16, <2>1 DEF Crash, Using, NamesOwned, TypeOK
  <2>4. \A q \in Procs: name'[q] = name[q] \/ pc'[q] \notin Using
    BY <1>16, <2>1 DEF Crash, Using, TypeOK
  <2>5. ReadyWhole' BY <1>16, <2>1, <2>4, ReadyKept DEF Crash, Writing
  <2>6. QED BY <1>16, <2>2, <2>3, <2>5 DEF Crash, OutputWhole
<1>17. CASE UNCHANGED vars
  BY <1>17 DEF vars, TypeOK, NamesOwned, ReadyWhole, OutputWhole
<1>18. QED
  BY <1>1, <1>2, <1>3, <1>4, <1>5, <1>6, <1>7, <1>8, <1>9, <1>10, <1>11,
     <1>12, <1>13, <1>14, <1>15, <1>16, <1>17 DEF Next, Step

(* The state of every instance and of the directory is what the system     *)
(* calls of labels.go and main.go can leave, no instance writes another's  *)
(* temporary file, and a file about to be renamed holds a complete pass.   *)
THEOREM Invariance == Spec => []IInv
  BY InitIInv, StepIInv, PTL DEF Spec

(* Variables keep their types. *)
THEOREM TypeCorrect == Spec => []TypeOK
<1>1. IInv => TypeOK BY DEF IInv
<1>2. QED BY <1>1, Invariance, PTL

(* The reader of the output file never sees a partial label set, for any   *)
(* number of instances sharing the directory, whichever calls fail and     *)
(* whoever is killed.                                                      *)
THEOREM OutputIsWhole == Spec => []OutputWhole
<1>1. IInv => OutputWhole BY DEF IInv
<1>2. QED BY <1>1, Invariance, PTL

-----------------------------------------------------------------------------
(* Nobody is killed, there is no one-shot instance, and the calls that     *)
(* remove files do not fail (those that write may).                        *)
OrderlyEnds == /\ Oneshot = {}
               /\ MayCrash = {}
               /\ Faults \cap {"unlink", "sweep", "remove"} = {}

(* A step of p that keeps p in run() keeps the rest of CleanInv: p itself  *)
(* answers for the directory and the output.                               *)
LEMMA StaysInRun ==
  ASSUME CleanInv, NEW p \in Procs, pc'[p] \in InRun, NoLeakedTemp', RenamedAway'
  PROVE  CleanInv'
  BY DEF CleanInv

(* A temporary file that was renamed does not come back: its name is still *)
(* held, and the step of another instance makes no file of that name.      *)
LEMMA RenamedKept ==
  ASSUME RenamedAway, NEW p \in Procs, pc'[p] # "chmod",
         \A q \in Procs \ {p}: pc'[q] = pc[q] /\ name'[q] = name[q],
         \A q \in Procs \ {p}: pc[q] = "chmod" /\ tmp[name[q]] = NoFile
                                 => tmp'[name[q]] = NoFile
  PROVE  RenamedAway'
  BY DEF RenamedAway

(* Temporary files that stay where they are keep their owners. *)
LEMMA OwnersKept ==
  ASSUME NoLeakedTemp, UNCHANGED name,
         \A n \in Names: tmp'[n] # NoFile => tmp[n] # NoFile
  PROVE  NoLeakedTemp'
  BY DEF NoLeakedTemp, Present

(* RemoveAll that finds a file finds one of another instance, which is in  *)
(* its write ...                                                           *)
LEMMA OtherWrites ==
  ASSUME IInv, CleanInv, NEW p \in Procs, pc[p] \notin Using, Present # {}
  PROVE  \E q \in Procs \ {p}: pc[q] \in Using
<1>1. PICK n \in Present: TRUE
  OBVIOUS
<1>2. PICK q \in Procs: name[q] = n
  BY <1>1 DEF CleanInv, NoLeakedTemp
<1>3. name[q] # NoName
  BY <1>1, <1>2, ConstantsAssumption DEF Present
<1>4. pc[q] \in Using
  BY <1>3 DEF IInv, NamesOwned
<1>5. QED
  BY <1>4

(* ... and so in run(), and will answer for the directory.                 *)
LEMMA OtherInRun ==
  ASSUME IInv, CleanInv, NEW p \in Procs, pc[p] \notin Using, Present # {}
  PROVE  \E q \in Procs \ {p}: pc[q] \in InRun
<1>1. Using \subseteq InRun
  BY DEF Using, InRun, PC, Calls, Stopped
<1>2. QED BY <1>1, OtherWrites

LEMMA StepCleanInv ==
  ASSUME OrderlyEnds, IInv, CleanInv, [Next]_vars
  PROVE  CleanInv'
<1>t. TypeOK /\ NamesOwned /\ NoLeakedTemp /\ RenamedAway
  BY DEF IInv, CleanInv
<1>r. {"label", "mkdir", "create", "open", "write", "rename", "chmod", "unlink",
       "sleep", "purgeErr", "sweepErr", "purgeOut", "sweepOut"} \subseteq InRun
  BY DEF InRun, PC, Calls, Stopped
<1>l. InRun \subseteq PC /\ {"load", "remove", "failed", "off", "done"} \subseteq PC
      /\ {"load", "remove", "failed", "off", "done"} \cap InRun = {}
  BY DEF InRun, PC, Calls, Stopped
<1>1. ASSUME NEW p \in Procs, Start(p) \/ Load(p) PROVE CleanInv'
  <2>1. /\ pc[p] \in Stopped \cup {"load"}
        /\ pc'[p] # "chmod"
        /\ \A q \in Procs \ {p}: pc'[q] = pc[q]
    BY <1>1, <1>t, <1>l, GotoType, <1>r DEF Start, Load
  <2>2. \A q \in Procs: pc[q] \in InRun \cup {"remove"} => pc'[q] = pc[q]
    BY <2>1 DEF InRun, Stopped
  <2>3. UNCHANGED <<name, out, tmpDir, tmp>>
    BY <1>1 DEF Start, Load
  <2>4. NoLeakedTemp' /\ RenamedAway'
    BY <1>t, <2>1, <2>3, OwnersKept, RenamedKept
  <2>5. QED BY <2>2, <2>3, <2>4 DEF CleanInv
<1>2. ASSUME NEW p \in Procs, GenerateLabels(p) \/ Timer(p) \/ Signal(p) \/ Mkdir(p)
      PROVE  CleanInv'
  <2>1. UNCHANGED <<name, tmp>>
    BY <1>2 DEF GenerateLabels, Timer, Signal, Mkdir
  <2>2. p \notin Oneshot
    BY DEF OrderlyEnds
  <2>3. /\ pc'[p] \in {"mkdir", "label", "create", "purgeOut"}
        /\ \A q \in Procs \ {p}: pc'[q] = pc[q]
    BY <1>2, <1>t, <1>r, <1>l, <2>2, GotoType, ReturnType
       DEF GenerateLabels, Timer, Signal, Mkdir, Targets
  <2>4. NoLeakedTemp' /\ RenamedAway'
    BY <1>t, <2>1, <2>3, OwnersKept, RenamedKept
  <2>5. QED BY <1>r, <2>3, <2>4, StaysInRun
<1>3. ASSUME NEW p \in Procs, Create(p) PROVE CleanInv'
  <2>1. /\ pc'[p] \in {"open", "purgeErr"}
        /\ \A q \in Procs \ {p}: pc'[q] = pc[q]
    BY <1>3, <1>t, <1>r, <1>l, GotoType DEF Create
  <2>2. NoLeakedTemp' /\ RenamedAway'
    <3>1. CASE UNCHANGED <<name, tmp>>
      BY <2>1, <3>1, <1>t, OwnersKept, RenamedKept
    <3>2. ASSUME NEW n \in Names \ (Present \cup {name[q]: q \in Procs}),
                 name' = [name EXCEPT ![p] = n],
                 tmp' = [tmp EXCEPT ![n] = [content |-> Partial, mode |-> "0600"]],
                 pc[p] = "create"
          PROVE  NoLeakedTemp' /\ RenamedAway'
      <4>1. name[p] = NoName
        BY <3>2, <1>t DEF NamesOwned, Using
      <4>2. ASSUME NEW m \in Names, tmp'[m] # NoFile
            PROVE  \E q \in Procs: name'[q] = m
        <5>1. CASE m = n
          BY <3>2, <5>1, <1>t DEF TypeOK
        <5>2. CASE m # n
          <6>1. PICK q \in Procs: name[q] = m
            BY <3>2, <4>2, <5>2, <1>t DEF NoLeakedTemp, Present, TypeOK
          <6>2. q # p
            BY <4>1, <6>1, ConstantsAssumption
          <6>3. QED BY <3>2, <6>1, <6>2, <1>t DEF TypeOK
        <5>3. QED BY <5>1, <5>2
      <4>3. ASSUME NEW q \in Procs \ {p}, pc[q] = "chmod", tmp[name[q]] = NoFile
            PROVE  tmp'[name[q]] = NoFile
        <5>1. name[q] \in Names /\ name[q] # n
          BY <4>3, <3>2, <1>t, UsingName DEF Using
        <5>2. QED BY <3>2, <4>3, <5>1, <1>t DEF TypeOK
      <4>4. RenamedAway'
        BY <2>1, <3>2, <4>3, <1>t, RenamedKept DEF TypeOK
      <4>5. QED BY <4>2, <4>4 DEF NoLeakedTemp, Present
    <3>3. QED BY <1>3, <3>1, <3>2 DEF Create
  <2>3. QED BY <1>r, <2>1, <2>2, StaysInRun
<1>4. ASSUME NEW p \in Procs, Open(p) \/ Write(p) PROVE CleanInv'
  <2>1. /\ pc[p] \in Using /\ UNCHANGED name
        /\ pc'[p] \in {"write", "unlink", "rename"}
        /\ \A q \in Procs \ {p}: pc'[q] = pc[q]
    BY <1>4, <1>t, <1>r, <1>l, GotoType DEF Open, Write, Using
  <2>2. \A n \in Names \ {name[p]}: tmp'[n] = tmp[n]
    BY <1>4, <1>t DEF Open, Write, TypeOK
  <2>3. NoLeakedTemp'
    BY <1>t, <2>1, <2>2 DEF NoLeakedTemp, Present
  <2>4. ASSUME NEW q \in Procs \ {p}, pc[q] = "chmod", tmp[name[q]] = NoFile
        PROVE  tmp'[name[q]] = NoFile
    <3>1. name[q] \in Names /\ name[q] # name[p]
      BY <2>1, <2>4, <1>t, UsingName DEF Using, NamesOwned
    <3>2. QED BY <2>2, <2>4, <3>1
  <2>5. RenamedAway'
    BY <2>1, <2>4, <1>t, RenamedKept
  <2>6. QED BY <1>r, <2>1, <2>3, <2>5, StaysInRun
<1>5. ASSUME NEW p \in Procs, Rename(p) PROVE CleanInv'
  <2>1. /\ pc'[p] \in {"chmod", "unlink"}
        /\ \A q \in Procs \ {p}: pc'[q] = pc[q]
        /\ pc[p] = "rename" /\ UNCHANGED name
    BY <1>5, <1>t, <1>r, <1>l, GotoType DEF Rename
  <2>2. \A n \in Names: tmp'[n] = tmp[n] \/ tmp'[n] = NoFile
    BY <1>5, <1>t DEF Rename, TypeOK
  <2>3. NoLeakedTemp'
    BY <1>t, <2>1, <2>2, OwnersKept
  <2>4. pc'[p] = "chmod" => tmp'[name[p]] = NoFile
    BY <1>5, <1>t, <1>l, <1>r, GotoType, UsingName DEF Rename, Using, TypeOK
  <2>5. RenamedAway'
    <3>1. \A q \in Procs: pc[q] = "chmod" => name[q] \in Names
      BY <1>t, UsingName DEF Using
    <3>2. QED BY <2>1, <2>2, <2>4, <3>1, <1>t DEF RenamedAway
  <2>6. QED BY <1>r, <2>1, <2>3, <2>5, StaysInRun
<1>6. ASSUME NEW p \in Procs, Chmod(p) PROVE CleanInv'
  <2>1. p \notin Oneshot
    BY DEF OrderlyEnds
  <2>2. /\ pc[p] = "chmod" /\ UNCHANGED tmp
        /\ pc'[p] \in {"sleep", "unlink"}
        /\ \A q \in Procs \ {p}: pc'[q] = pc[q] /\ name'[q] = name[q]
    BY <1>6, <1>t, <1>r, <1>l, <2>1, GotoType DEF Chmod, TypeOK
  <2>3. NoLeakedTemp'
    BY <2>2, <1>t DEF NoLeakedTemp, RenamedAway, Present
  <2>4. RenamedAway'
    BY <2>2, <1>t, RenamedKept
  <2>5. QED BY <1>r, <2>2, <2>3, <2>4, StaysInRun
<1>7. ASSUME NEW p \in Procs, Unlink(p) PROVE CleanInv'
  <2>1. /\ pc[p] = "unlink" /\ pc'[p] = "purgeErr"
        /\ \A q \in Procs \ {p}: pc'[q] = pc[q] /\ name'[q] = name[q]
    BY <1>7, <1>t, <1>r, <1>l, GotoType DEF Unlink, TypeOK
  <2>2. tmp' = [tmp EXCEPT ![name[p]] = NoFile]
    BY <1>7 DEF Unlink, MayFail, OrderlyEnds
  <2>3. NoLeakedTemp'
    BY <2>1, <2>2, <1>t DEF NoLeakedTemp, Present, TypeOK
  <2>4. \A q \in Procs: pc[q] = "chmod" => name[q] \in Names
    BY <1>t, UsingName DEF Using
  <2>5. RenamedAway'
    BY <2>1, <2>2, <2>4, <1>t, RenamedKept DEF TypeOK
  <2>6. QED BY <1>r, <2>1, <2>3, <2>5, StaysInRun
<1>8. ASSUME NEW p \in Procs, SweepEntry(p) PROVE CleanInv'
  <2>1. UNCHANGED <<pc, name, tmpDir, out>>
    BY <1>8 DEF SweepEntry
  <2>2. \A n \in Names: tmp'[n] = tmp[n] \/ tmp'[n] = NoFile
    BY <1>8, <1>t DEF SweepEntry, TypeOK
  <2>3. NoLeakedTemp'
    BY <1>t, <2>1, <2>2, OwnersKept
  <2>4. \A q \in Procs: pc[q] = "chmod" => name[q] \in Names
    BY <1>t, UsingName DEF Using
  <2>5. RenamedAway'
    BY <1>t, <2>1, <2>2, <2>4 DEF RenamedAway
  <2>6. QED BY <2>1, <2>3, <2>5 DEF CleanInv
<1>9. ASSUME NEW p \in Procs, Purge(p) \/ SweepDir(p) PROVE CleanInv'
  <2>1. /\ UNCHANGED <<name, tmp, out>>
        /\ pc[p] \in {"purgeErr", "purgeOut", "sweepErr", "sweepOut"}
        /\ p \notin Oneshot
    BY <1>9 DEF Purge, SweepDir, OrderlyEnds
  <2>2. /\ pc'[p] # "chmod"
        /\ \A q \in Procs \ {p}: pc'[q] = pc[q]
    BY <1>9, <1>t, <1>r, <1>l, GotoType, PurgeReturnsType
       DEF Purge, SweepDir, Targets
  <2>3. NoLeakedTemp' /\ RenamedAway'
    BY <1>t, <2>1, <2>2, OwnersKept, RenamedKept
  <2>4. CASE pc'[p] \in InRun
    BY <2>3, <2>4, StaysInRun
  <2>5. CASE tmpDir' = FALSE /\ PurgeReturns(p, TRUE)
    <3>1. CASE pc[p] \in {"purgeErr", "sweepErr"}
      BY <2>1, <2>5, <3>1, <2>4, <1>t, <1>r, ReturnType DEF PurgeReturns, Targets
    <3>2. CASE pc[p] \notin {"purgeErr", "sweepErr"}
      <4>1. pc'[p] = "remove"
        BY <2>5, <3>2, <1>t, <1>l, GotoType DEF PurgeReturns
      <4>2. QED BY <2>3, <2>5, <4>1 DEF CleanInv
    <3>3. QED BY <3>1, <3>2
  <2>6. CASE Present # {} /\ UNCHANGED tmpDir
    <3>1. PICK q \in Procs \ {p}: pc[q] \in InRun
      BY <2>1, <2>6, OtherInRun DEF Using
    <3>2. pc'[q] \in InRun
      BY <2>2, <3>1
    <3>3. QED BY <2>3, <3>2 DEF CleanInv
  <2>7. QED
    <3>1. ~MayFail("sweep")
      BY DEF MayFail, OrderlyEnds
    <3>2. QED BY <1>9, <2>5, <2>6, <3>1 DEF Purge, SweepDir
<1>10. ASSUME NEW p \in Procs, Remove(p) PROVE CleanInv'
  <2>1. out' = NoFile /\ UNCHANGED <<name, tmp, tmpDir>>
    BY <1>10 DEF Remove, MayFail, OrderlyEnds
  <2>2. after[p] \in Targets /\ Targets \subseteq PC
    BY <1>t, <1>l DEF TypeOK, Targets
  <2>3. /\ pc[p] = "remove" /\ pc'[p] \in Targets
        /\ \A q \in Procs \ {p}: pc'[q] = pc[q]
    BY <1>10, <1>t, <2>2, GotoType DEF Remove
  <2>4. NoLeakedTemp' /\ RenamedAway'
    BY <1>t, <2>1, <2>3, OwnersKept, RenamedKept DEF Targets
  <2>5. tmpDir' => \E q \in Procs: pc'[q] \in InRun
    BY <1>l, <2>1, <2>3 DEF CleanInv
  <2>6. QED BY <2>1, <2>4, <2>5 DEF CleanInv
<1>11. ASSUME NEW p \in Procs, Crash(p) PROVE CleanInv'
  BY <1>11 DEF Crash, OrderlyEnds
<1>12. CASE UNCHANGED vars
  BY <1>12 DEF vars, CleanInv, NoLeakedTemp, RenamedAway, Present
<1>13. QED
  BY <1>1, <1>2, <1>3, <1>4, <1>5, <1>6, <1>7, <1>8, <1>9, <1>10, <1>11, <1>12
     DEF Next, Step

LEMMA InitCleanInv == Init => CleanInv
  BY DEF Init, CleanInv, NoLeakedTemp, RenamedAway, Present

(* When all the daemons that shared the directory have ended by themselves *)
(* nothing stale is left, although each one's RemoveAll may have given up  *)
(* on a file that another was writing: that other one removes all later.   *)
THEOREM AllStoppedIsClean ==
  ASSUME OrderlyEnds
  PROVE  Spec => []AllStoppedClean
<1>1. IInv /\ CleanInv /\ [Next]_vars => CleanInv'
  BY StepCleanInv
<1>2. CleanInv => AllStoppedClean
  BY DEF CleanInv, AllStoppedClean, InRun, PC, Stopped
<1>3. QED BY InitCleanInv, Invariance, <1>1, <1>2, PTL DEF Spec

(* Under the same conditions no temporary file outlives its write. *)
THEOREM NoTempLeaks ==
  ASSUME OrderlyEnds
  PROVE  Spec => []NoLeakedTemp
<1>1. IInv /\ CleanInv /\ [Next]_vars => CleanInv'
  BY StepCleanInv
<1>2. CleanInv => NoLeakedTemp
  BY DEF CleanInv
<1>3. QED BY InitCleanInv, Invariance, <1>1, <1>2, PTL DEF Spec

(* While the instances that use or remove things stay at it, and the mode  *)
(* of the output is not changed, an output that cannot be read is in       *)
(* passing.                                                                *)
LEMMA StaysAtIt ==
  ASSUME UnreadableInPassing, UNCHANGED out,
         \A p \in Procs: pc[p] \in Using \cup Removing
                           => pc'[p] \in Using \cup Removing
  PROVE  UnreadableInPassing'
  BY DEF UnreadableInPassing

LEMMA StepUnreadable ==
  ASSUME OrderlyEnds, IInv, CleanInv, UnreadableInPassing, [Next]_vars
  PROVE  UnreadableInPassing'
<1>t. TypeOK
  BY DEF IInv
<1>b. Using \cup Removing \subseteq PC
      /\ {"create", "label", "sleep"} \subseteq PC
  BY DEF Using, Removing, PC, Calls, Stopped
<1>1. ASSUME NEW p \in Procs, pc'[p] \in Using \cup Removing
      PROVE  UnreadableInPassing'
  BY <1>1 DEF UnreadableInPassing
<1>2. ASSUME NEW p \in Procs, pc[p] \notin Using \cup Removing, UNCHANGED out,
             \A q \in Procs \ {p}: pc'[q] = pc[q]
      PROVE  UnreadableInPassing'
  BY <1>2, StaysAtIt
<1>3. ASSUME NEW p \in Procs,
             \/ Start(p) \/ Load(p) \/ GenerateLabels(p) \/ Timer(p) \/ Signal(p)
             \/ Mkdir(p) \/ Create(p)
      PROVE  UnreadableInPassing'
  <2>1. pc[p] \notin Using \cup Removing /\ UNCHANGED out
    BY <1>3 DEF Start, Load, GenerateLabels, Timer, Signal, Mkdir, Create,
                Using, Removing, Stopped
  <2>2. \A q \in Procs \ {p}: pc'[q] = pc[q]
    BY <1>3, <1>t DEF Start, Load, GenerateLabels, Timer, Signal, Mkdir, Create,
                      Return, Goto, TypeOK
  <2>3. QED BY <1>2, <2>1, <2>2
<1>4. ASSUME NEW p \in Procs, Open(p) \/ Write(p) \/ Rename(p) \/ Unlink(p)
      PROVE  UnreadableInPassing'
  <2>1. pc'[p] \in {"write", "unlink", "rename", "chmod", "purgeErr"}
    BY <1>4, <1>t DEF Open, Write, Rename, Unlink, Goto, TypeOK
  <2>2. QED BY <1>1, <2>1 DEF Using, Removing
<1>5. ASSUME NEW p \in Procs, Chmod(p) PROVE UnreadableInPassing'
  <2>1. CASE out # NoFile /\ out' = [out EXCEPT !.mode = "0644"]
    <3>1. out \in File
      BY <2>1, <1>t DEF TypeOK
    <3>2. out'.mode = "0644"
      BY <2>1, <3>1 DEF File
    <3>3. QED BY <3>2 DEF UnreadableInPassing
  <2>2. CASE Goto(p, "unlink")
    <3>1. pc'[p] = "unlink"
      BY <2>2, <1>t DEF Goto, TypeOK
    <3>2. QED BY <1>1, <3>1 DEF Using
  <2>3. QED BY <1>5, <2>1, <2>2 DEF Chmod
<1>6. ASSUME NEW p \in Procs, Purge(p) \/ SweepDir(p) PROVE UnreadableInPassing'
  <2>1. /\ UNCHANGED out
        /\ pc[p] \in {"purgeErr", "purgeOut", "sweepErr", "sweepOut"}
        /\ p \notin Oneshot
    BY <1>6 DEF Purge, SweepDir, OrderlyEnds
  <2>2. \A q \in Procs \ {p}: pc'[q] = pc[q]
    BY <1>6, <1>t DEF Purge, SweepDir, PurgeReturns, Return, Goto, TypeOK
  <2>3. CASE Present # {}
    <3>1. PICK q \in Procs \ {p}: pc[q] \in Using
      BY <2>1, <2>3, OtherWrites DEF Using
    <3>2. pc'[q] \in Using
      BY <2>2, <3>1
    <3>3. QED BY <1>1, <3>2
  <2>4. CASE Present = {}
    <3>1. \/ Goto(p, "sweepErr") \/ Goto(p, "sweepOut")
          \/ PurgeReturns(p, TRUE)
      BY <1>6, <2>4 DEF Purge, SweepDir, MayFail, OrderlyEnds
    <3>2. Goto(p, "sweepErr") \/ Goto(p, "sweepOut") \/ Goto(p, "purgeOut")
          \/ Goto(p, "remove")
      BY <2>1, <3>1 DEF PurgeReturns, Return
    <3>3. pc'[p] \in Removing
      BY <3>2, <1>t DEF Goto, TypeOK, Removing
    <3>4. QED BY <1>1, <3>3
  <2>5. QED BY <2>3, <2>4
<1>7. ASSUME NEW p \in Procs, SweepEntry(p) PROVE UnreadableInPassing'
  BY <1>7, StaysAtIt DEF SweepEntry
<1>8. ASSUME NEW p \in Procs, Remove(p) PROVE UnreadableInPassing'
  BY <1>8 DEF Remove, MayFail, OrderlyEnds, UnreadableInPassing
<1>9. ASSUME NEW p \in Procs, Crash(p) PROVE UnreadableInPassing'
  BY <1>9 DEF Crash, OrderlyEnds
<1>10. CASE UNCHANGED vars
  BY <1>10 DEF vars, UnreadableInPassing
<1>11. QED
  BY <1>3, <1>4, <1>5, <1>6, <1>7, <1>8, <1>9, <1>10 DEF Next, Step

(* Daemons that are not killed never leave behind an output that others    *)
(* cannot read: the one whose chmod failed removes it, unless it gives up  *)
(* on a temporary file, whose owner then is about to publish or to remove. *)
THEOREM UnreadableIsInPassing ==
  ASSUME OrderlyEnds
  PROVE  Spec => []UnreadableInPassing
<1>1. IInv /\ CleanInv /\ [Next]_vars => CleanInv'
  BY StepCleanInv
<1>2. IInv /\ CleanInv /\ UnreadableInPassing /\ [Next]_vars => UnreadableInPassing'
  BY StepUnreadable
<1>3. Init => UnreadableInPassing
  BY DEF Init, UnreadableInPassing
<1>4. QED BY InitCleanInv, Invariance, <1>1, <1>2, <1>3, PTL DEF Spec

-----------------------------------------------------------------------------
(* A daemon that is alone.                                                 *)

(* What it has renamed is its label set until it changes the mode of it,   *)
(* and then until it wakes up.                                             *)
RenamedOwn == \A p \in Procs: pc[p] = "chmod" => out # NoFile /\ out.content = labels[p]
SleepInv == RenamedOwn /\ SleepPublished

LEMMA StepSleepInv ==
  ASSUME NEW d, Procs = {d}, IInv, SleepInv, [Next]_vars
  PROVE  SleepInv'
<1>t. TypeOK /\ NamesOwned /\ ReadyWhole
  BY DEF IInv
<1>l. {"load", "label", "mkdir", "create", "open", "write", "rename", "chmod",
       "unlink", "sleep", "purgeErr", "sweepErr", "sweepOut", "purgeOut",
       "remove", "off", "done", "failed"} \subseteq PC
  BY DEF PC, Calls, Stopped
<1> SUFFICES ASSUME pc'[d] \in {"chmod", "sleep"}
             PROVE  /\ pc'[d] = "chmod" => out' # NoFile /\ out'.content = labels'[d]
                    /\ pc'[d] = "sleep" => out' = [content |-> labels'[d], mode |-> "0644"]
  BY DEF SleepInv, RenamedOwn, SleepPublished
<1>1. ASSUME \/ Start(d) \/ Load(d) \/ Timer(d) \/ Create(d) \/ Open(d)
             \/ Write(d) \/ Unlink(d) \/ Crash(d)
      PROVE  FALSE
  BY <1>1, <1>t, <1>l, GotoType DEF Start, Load, Timer, Create, Open, Write, Unlink, Crash
<1>2. ASSUME GenerateLabels(d) \/ Signal(d) \/ Mkdir(d)
      PROVE  FALSE
  BY <1>2, <1>t, <1>l, GotoType, ReturnType DEF GenerateLabels, Signal, Mkdir, Targets
<1>3. ASSUME Purge(d) \/ SweepDir(d) \/ Remove(d)
      PROVE  FALSE
  <2>1. after[d] \in Targets /\ Targets \subseteq PC
    BY <1>t, <1>l DEF TypeOK, Targets
  <2>2. CASE Purge(d) \/ SweepDir(d)
    <3>1. CASE Goto(d, "sweepErr") \/ Goto(d, "sweepOut")
      BY <3>1, <1>t, <1>l, GotoType
    <3>2. CASE Return(d, "failed")
      BY <3>2, <1>t, <1>l, ReturnType DEF Targets
    <3>3. CASE Goto(d, "remove") \/ Goto(d, after[d])
      BY <2>1, <3>3, <1>t, <1>l, GotoType DEF Targets
    <3>4. QED BY <2>2, <3>1, <3>2, <3>3 DEF Purge, SweepDir, PurgeReturns
  <2>3. CASE Remove(d)
    BY <2>1, <2>3, <1>t, GotoType DEF Remove, Targets
  <2>4. QED BY <1>3, <2>2, <2>3
<1>4. CASE Rename(d)
  <2>1. CASE /\ tmp[name[d]] # NoFile /\ out' = tmp[name[d]]
             /\ Goto(d, "chmod") /\ labels' = labels /\ pc[d] = "rename"
    <3>1. pc'[d] = "chmod"
      BY <2>1, <1>t, <1>l, GotoType
    <3>2. tmp[name[d]].content = labels[d]
      BY <2>1, <1>t DEF ReadyWhole
    <3>3. QED BY <2>1, <3>1, <3>2
  <2>2. CASE Goto(d, "unlink")
    BY <2>2, <1>t, <1>l, GotoType
  <2>3. QED BY <1>4, <2>1, <2>2 DEF Rename
<1>5. CASE Chmod(d)
  <2>1. CASE /\ out # NoFile /\ out' = [out EXCEPT !.mode = "0644"]
             /\ Goto(d, IF d \in Oneshot THEN "done" ELSE "sleep")
    <3>1. pc'[d] # "chmod"
      BY <2>1, <1>t, <1>l, GotoType
    <3>2. out \in File /\ out.content = labels[d] /\ labels' = labels
      BY <1>5, <2>1, <1>t DEF Chmod, SleepInv, RenamedOwn, TypeOK
    <3>3. out' = [content |-> labels[d], mode |-> "0644"]
      BY <2>1, <3>2 DEF File
    <3>4. QED BY <3>1, <3>2, <3>3
  <2>2. CASE Goto(d, "unlink")
    BY <2>2, <1>t, <1>l, GotoType
  <2>3. QED BY <1>5, <2>1, <2>2 DEF Chmod
<1>6. CASE SweepEntry(d)
  BY <1>6 DEF SweepEntry, SleepInv, RenamedOwn, SleepPublished
<1>7. CASE UNCHANGED vars
  BY <1>7 DEF vars, SleepInv, RenamedOwn, SleepPublished
<1>8. QED
  BY <1>1, <1>2, <1>3, <1>4, <1>5, <1>6, <1>7 DEF Next, Step

(* While a daemon that is alone sleeps, its labels are in the file,        *)
(* readable, whatever calls have failed and however often it was killed.   *)
THEOREM SleepIsPublished ==
  ASSUME NEW d, Procs = {d}
  PROVE  Spec => []SleepPublished
<1>1. Init => SleepInv
  BY DEF Init, SleepInv, RenamedOwn, SleepPublished
<1>2. IInv /\ SleepInv /\ [Next]_vars => SleepInv'
  BY StepSleepInv
<1>3. SleepInv => SleepPublished
  BY DEF SleepInv
<1>4. QED BY Invariance, <1>1, <1>2, <1>3, PTL DEF Spec

(* RemoveAll of a daemon that is alone has listed all there is, so that it *)
(* goes on to remove the output.                                           *)
Sweeping == {"sweepErr", "sweepOut"}
ListedAll == \A p \in Procs: pc[p] \in Sweeping => Present \subseteq todo[p]
ExitInv == /\ ListedAll
           /\ \A p \in Procs: pc[p] = "remove" => ~tmpDir
           /\ ExitClean

LEMMA StepExitInv ==
  ASSUME NEW d, Procs = {d}, Oneshot = {}, Faults \cap {"sweep", "remove"} = {},
         IInv, ExitInv, [Next]_vars
  PROVE  ExitInv'
<1>t. TypeOK
  BY DEF IInv
<1>l. {"load", "label", "mkdir", "create", "open", "write", "rename", "chmod",
       "unlink", "sleep", "purgeErr", "sweepErr", "sweepOut", "purgeOut",
       "remove", "off", "done", "failed"} \subseteq PC
  BY DEF PC, Calls, Stopped
<1>o. d \notin Oneshot /\ ~MayFail("sweep") /\ ~MayFail("remove")
  BY DEF MayFail
<1> SUFFICES ASSUME pc'[d] \in Sweeping \cup {"remove", "done"}
             PROVE  /\ pc'[d] \in Sweeping => Present' \subseteq todo'[d]
                    /\ pc'[d] = "remove" => ~tmpDir'
                    /\ pc'[d] = "done" => out' = NoFile /\ ~tmpDir'
  BY DEF ExitInv, ListedAll, ExitClean, Sweeping
<1>1. ASSUME \/ Start(d) \/ Load(d) \/ Timer(d) \/ Create(d) \/ Open(d)
             \/ Write(d) \/ Rename(d) \/ Chmod(d) \/ Unlink(d) \/ Crash(d)
      PROVE  FALSE
  BY <1>1, <1>o, <1>t, <1>l, GotoType
     DEF Start, Load, Timer, Create, Open, Write, Rename, Chmod, Unlink, Crash, Sweeping
<1>2. ASSUME NEW to \in Targets, Return(d, to)
      PROVE  FALSE
  BY <1>2, <1>o, <1>t, <1>l, ReturnType DEF Sweeping
<1>3. ASSUME GenerateLabels(d) \/ Signal(d) \/ Mkdir(d)
      PROVE  FALSE
  <2>1. CASE \E to \in Targets: Return(d, to)
    BY <1>2, <2>1
  <2>2. CASE Goto(d, "mkdir") \/ Goto(d, "create")
    BY <2>2, <1>t, <1>l, GotoType DEF Sweeping
  <2>3. QED BY <1>3, <2>1, <2>2 DEF GenerateLabels, Signal, Mkdir, Targets
<1>4. CASE Purge(d)
  <2>1. CASE tmpDir' = FALSE /\ PurgeReturns(d, TRUE)
    <3>1. Goto(d, "remove")
      BY <1>2, <2>1 DEF PurgeReturns, Targets
    <3>2. pc'[d] = "remove"
      BY <3>1, <1>t, <1>l, GotoType
    <3>3. QED BY <2>1, <3>2 DEF Sweeping
  <2>2. CASE /\ todo' = [todo EXCEPT ![d] = Present] /\ UNCHANGED tmp
             /\ Goto(d, IF pc[d] = "purgeErr" THEN "sweepErr" ELSE "sweepOut")
    <3>1. pc'[d] \in Sweeping
      BY <2>2, <1>t, <1>l, GotoType DEF Sweeping
    <3>2. Present' = Present /\ todo'[d] = Present
      BY <2>2, <1>t DEF Present, TypeOK
    <3>3. QED BY <3>1, <3>2 DEF Sweeping
  <2>3. QED BY <1>4, <2>1, <2>2 DEF Purge
<1>5. CASE SweepEntry(d)
  <2>1. PICK n \in todo[d]: /\ tmp' = [tmp EXCEPT ![n] = NoFile]
                            /\ todo' = [todo EXCEPT ![d] = @ \ {n}]
    BY <1>5, <1>o DEF SweepEntry
  <2>2. pc' = pc /\ pc[d] \in Sweeping
    BY <1>5 DEF SweepEntry, Sweeping
  <2>3. Present' \subseteq Present \ {n} /\ todo'[d] = todo[d] \ {n}
    BY <2>1, <1>t DEF Present, TypeOK
  <2>4. Present \subseteq todo[d]
    BY <2>2 DEF ExitInv, ListedAll
  <2>5. QED BY <2>2, <2>3, <2>4 DEF Sweeping
<1>6. CASE SweepDir(d)
  <2>1. Present = {}
    BY <1>6 DEF SweepDir, ExitInv, ListedAll, Sweeping
  <2>2. tmpDir' = FALSE /\ PurgeReturns(d, TRUE)
    BY <1>6, <1>o, <2>1 DEF SweepDir
  <2>3. Goto(d, "remove")
    BY <1>2, <2>2 DEF PurgeReturns, Targets
  <2>4. pc'[d] = "remove"
    BY <2>3, <1>t, <1>l, GotoType
  <2>5. QED BY <2>2, <2>4 DEF Sweeping
<1>7. CASE Remove(d)
  <2>1. after[d] \in Targets /\ Targets \subseteq PC
    BY <1>t, <1>l DEF TypeOK, Targets
  <2>2. pc[d] = "remove" /\ pc'[d] = after[d] /\ out' = NoFile /\ UNCHANGED tmpDir
    BY <1>7, <1>o, <1>t, <2>1, GotoType DEF Remove
  <2>3. QED BY <2>1, <2>2 DEF ExitInv, Targets, Sweeping
<1>8. CASE UNCHANGED vars
  <2>1. Present' = Present
    BY <1>8 DEF vars, Present
  <2>2. QED BY <1>8, <2>1, <1>o DEF vars, ExitInv, ListedAll, ExitClean
<1>9. QED
  BY <1>1, <1>3, <1>4, <1>5, <1>6, <1>7, <1>8 DEF Next, Step

(* A daemon that is alone leaves nothing when it ends on a signal, also of *)
(* what earlier runs that were killed had left, if removals do not fail.   *)
THEOREM ExitIsClean ==
  ASSUME NEW d, Procs = {d}, Oneshot = {}, Faults \cap {"sweep", "remove"} = {}
  PROVE  Spec => []ExitClean
<1>1. Init => ExitInv
  BY DEF Init, ExitInv, ListedAll, Sweeping, ExitClean
<1>2. IInv /\ ExitInv /\ [Next]_vars => ExitInv'
  BY StepExitInv
<1>3. ExitInv => ExitClean
  BY DEF ExitInv
<1>4. QED BY Invariance, <1>1, <1>2, <1>3, PTL DEF Spec

-----------------------------------------------------------------------------
(* FileOutput implements LabelStore.                                       *)

LEMMA StepOneshotKeeps ==
  ASSUME IInv, OneshotKeeps, [Next]_vars
  PROVE  OneshotKeeps'
<1>t. TypeOK
  BY DEF IInv
<1>l. {"load", "label", "mkdir", "create", "open", "write", "rename", "chmod",
       "unlink", "sleep", "purgeErr", "sweepErr", "sweepOut", "purgeOut",
       "remove", "off", "done", "failed"} \subseteq PC
  BY DEF PC, Calls, Stopped
<1>c. Oneshot \subseteq Procs
  BY ConstantsAssumption
<1>1. ASSUME NEW p \in Procs,
             Start(p) \/ Load(p) \/ Timer(p) \/ Create(p) \/ Open(p) \/ Write(p)
               \/ Rename(p) \/ Unlink(p) \/ Crash(p)
      PROVE  OneshotKeeps'
  <2>1. /\ pc'[p] \in {"load", "label", "failed", "open", "write", "rename",
                       "chmod", "unlink", "purgeErr", "off"}
        /\ \A q \in Procs \ {p}: pc'[q] = pc[q]
    BY <1>1, <1>t, <1>l, GotoType
       DEF Start, Load, Timer, Create, Open, Write, Rename, Unlink, Crash
  <2>2. QED BY <2>1, <1>c DEF OneshotKeeps
<1>2. ASSUME NEW p \in Procs, GenerateLabels(p) \/ Signal(p) \/ Mkdir(p) \/ Chmod(p)
      PROVE  OneshotKeeps'
  <2>1. /\ pc'[p] \in {"mkdir", "create", "done", "sleep", "unlink"}
           \/ \E to \in Targets: Return(p, to)
        /\ \A q \in Procs \ {p}: pc'[q] = pc[q]
    BY <1>2, <1>t, <1>l, GotoType, ReturnType
       DEF GenerateLabels, Signal, Mkdir, Chmod, Targets
  <2>2. CASE \E to \in Targets: Return(p, to)
    <3>1. p \in Oneshot => pc'[p] \in Targets
      BY <2>2, <1>t, GotoType, <1>l DEF Return, Targets
    <3>2. QED BY <2>1, <3>1, <1>c DEF OneshotKeeps, Targets
  <2>3. QED BY <2>1, <2>2, <1>c DEF OneshotKeeps
<1>3. ASSUME NEW p \in Procs, Purge(p) \/ SweepDir(p) \/ Remove(p)
      PROVE  OneshotKeeps'
  <2>1. \A q \in Procs \ {p}: pc'[q] = pc[q]
    <3>1. after[p] \in PC
      BY <1>t, <1>l DEF TypeOK, Targets
    <3>2. QED BY <1>3, <3>1, <1>t, <1>l, GotoType, PurgeReturnsType
                 DEF Purge, SweepDir, Remove
  <2>2. ASSUME p \in Oneshot
        PROVE  pc'[p] \notin {"purgeOut", "sweepOut", "remove"}
    <3>1. pc[p] \in {"purgeErr", "sweepErr"}
      BY <1>3, <2>2 DEF OneshotKeeps, Purge, SweepDir, Remove
    <3>2. CASE Goto(p, "sweepErr")
      BY <3>2, <1>t, <1>l, GotoType
    <3>3. CASE Return(p, "failed")
      BY <2>2, <3>3, <1>t, <1>l, GotoType DEF Return
    <3>4. QED BY <1>3, <3>1, <3>2, <3>3 DEF Purge, SweepDir, Remove, PurgeReturns
  <2>3. QED BY <2>1, <2>2, <1>c DEF OneshotKeeps
<1>4. ASSUME NEW p \in Procs, SweepEntry(p) PROVE OneshotKeeps'
  BY <1>4 DEF SweepEntry, OneshotKeeps
<1>5. CASE UNCHANGED vars
  BY <1>5 DEF vars, OneshotKeeps
<1>6. QED
  BY <1>1, <1>2, <1>3, <1>4, <1>5 DEF Next, Step

(* A step of p that leaves it outside a write, or inside one with the same *)
(* labels, and leaves the visible content alone, is invisible.             *)
LEMMA Invisible ==
  ASSUME NEW p \in Procs,
         \A q \in Procs \ {p}: pc'[q] = pc[q] /\ labels'[q] = labels[q],
         Visible' = Visible,
         pc'[p] \in Writing <=> pc[p] \in Writing,
         pc[p] \in Writing => labels'[p] = labels[p]
  PROVE  UNCHANGED Store!vars
<1>1. Pending' = Pending
  BY DEF Pending
<1>2. QED BY <1>1 DEF Store!vars

(* A write that p leaves with nothing published is an abandoned pass. *)
LEMMA Abandons ==
  ASSUME IInv, NEW p \in Procs, pc[p] \in Writing, pc'[p] \notin Writing,
         \A q \in Procs \ {p}: pc'[q] = pc[q],
         labels' = labels, Visible' = Visible
  PROVE  Store!Abandon(p)
<1>1. Pending[p] # NoFile
  BY ConstantsAssumption DEF Pending, IInv, ReadyWhole
<1>2. Pending' = [Pending EXCEPT ![p] = NoFile]
  <2>1. \A q \in Procs: (IF pc'[q] \in Writing THEN labels'[q] ELSE NoFile)
                        = IF q = p THEN NoFile
                          ELSE IF pc[q] \in Writing THEN labels[q] ELSE NoFile
    OBVIOUS
  <2>2. QED BY <2>1 DEF Pending
<1>3. QED BY <1>1, <1>2 DEF Store!Abandon

LEMMA StepImplements ==
  ASSUME IInv, OneshotKeeps, [Next]_vars
  PROVE  [Store!Next]_(Store!vars)
<1>t. TypeOK /\ NamesOwned /\ ReadyWhole
  BY DEF IInv
<1>l. {"load", "label", "mkdir", "create", "open", "write", "rename", "chmod",
       "unlink", "sleep", "purgeErr", "sweepErr", "sweepOut", "purgeOut",
       "remove", "off", "done", "failed"} \subseteq PC
  BY DEF PC, Calls, Stopped
<1>w. {"load", "label", "chmod", "unlink", "sleep", "purgeErr", "sweepErr",
       "sweepOut", "purgeOut", "remove", "off", "done", "failed"} \cap Writing = {}
  BY DEF Writing
<1>1. ASSUME NEW p \in Procs, Start(p) \/ Load(p) \/ Timer(p) \/ Signal(p)
      PROVE  UNCHANGED Store!vars
  <2>1. /\ pc[p] \notin Writing /\ pc'[p] \notin Writing
        /\ \A q \in Procs \ {p}: pc'[q] = pc[q] /\ labels'[q] = labels[q]
    BY <1>1, <1>t, <1>l, GotoType, ReturnType
       DEF Start, Load, Timer, Signal, Stopped, Writing, Targets, TypeOK
  <2>2. Visible' = Visible
    BY <1>1 DEF Start, Load, Timer, Signal, Visible
  <2>3. QED BY <2>1, <2>2, Invisible
<1>2. ASSUME NEW p \in Procs, GenerateLabels(p)
      PROVE  Store!Generate(p) \/ UNCHANGED Store!vars
  <2>1. Visible' = Visible /\ pc[p] \notin Writing
    BY <1>2, <1>w DEF GenerateLabels, Visible
  <2>2. CASE Return(p, "failed") /\ UNCHANGED labels
    <3>1. pc'[p] \notin Writing /\ \A q \in Procs \ {p}: pc'[q] = pc[q]
      BY <2>2, <1>t, <1>w, ReturnType DEF Targets
    <3>2. QED BY <2>1, <2>2, <3>1, Invisible
  <2>3. ASSUME NEW l \in LabelSets, labels' = [labels EXCEPT ![p] = l],
               Goto(p, "mkdir")
        PROVE  Store!Generate(p)
    <3>1. Pending' = [Pending EXCEPT ![p] = l]
      BY <2>3, <1>t DEF Pending, Goto, Writing, TypeOK
    <3>2. Pending[p] = NoFile
      BY <2>1 DEF Pending
    <3>3. QED BY <2>1, <3>1, <3>2 DEF Store!Generate
  <2>4. QED BY <1>2, <2>2, <2>3 DEF GenerateLabels
<1>3. ASSUME NEW p \in Procs, Mkdir(p) \/ Create(p) \/ Open(p) \/ Write(p)
      PROVE  Store!Abandon(p) \/ UNCHANGED Store!vars
  <2>1. /\ pc[p] \in Writing /\ labels' = labels /\ Visible' = Visible
        /\ \A q \in Procs \ {p}: pc'[q] = pc[q]
    BY <1>3, <1>t, <1>l, GotoType, ReturnType
       DEF Mkdir, Create, Open, Write, Writing, Visible, Targets
  <2>2. CASE pc'[p] \in Writing
    BY <2>1, <2>2, Invisible
  <2>3. CASE pc'[p] \notin Writing
    BY <2>1, <2>3, Abandons
  <2>4. QED BY <2>2, <2>3
<1>4. ASSUME NEW p \in Procs, Rename(p)
      PROVE  Store!Publish(p) \/ Store!Abandon(p)
  <2>1. /\ pc[p] = "rename" /\ labels' = labels /\ pc'[p] \in {"chmod", "unlink"}
        /\ \A q \in Procs \ {p}: pc'[q] = pc[q]
    BY <1>4, <1>t, <1>l, GotoType DEF Rename
  <2>2. CASE UNCHANGED out
    BY <2>1, <2>2, Abandons, <1>w DEF Visible, Writing
  <2>3. CASE tmp[name[p]] # NoFile /\ out' = tmp[name[p]]
    <3>1. Pending[p] = labels[p] /\ Pending[p] # NoFile
      BY <2>1, <1>t, ConstantsAssumption DEF Pending, Writing, ReadyWhole
    <3>2. Visible' = labels[p]
      BY <2>1, <2>3, <1>t DEF Visible, ReadyWhole
    <3>3. Pending' = [Pending EXCEPT ![p] = NoFile]
      BY <2>1, <1>w DEF Pending
    <3>4. QED BY <3>1, <3>2, <3>3 DEF Store!Publish
  <2>4. QED BY <1>4, <2>2, <2>3 DEF Rename
<1>5. ASSUME NEW p \in Procs,
             Chmod(p) \/ Unlink(p) \/ Purge(p) \/ SweepEntry(p) \/ SweepDir(p)
      PROVE  UNCHANGED Store!vars
  <2>1. Visible' = Visible
    <3>1. CASE out # NoFile /\ out' = [out EXCEPT !.mode = "0644"]
      <4>1. out \in File /\ out' \in File /\ out'.content = out.content
        BY <3>1, <1>t DEF TypeOK, File, Modes
      <4>2. QED BY <3>1, <4>1, ConstantsAssumption DEF Visible
    <3>2. CASE UNCHANGED out
      BY <3>2 DEF Visible
    <3>3. QED BY <1>5, <3>1, <3>2 DEF Chmod, Unlink, Purge, SweepEntry, SweepDir
  <2>2. labels' = labels /\ pc[p] \notin Writing
    BY <1>5 DEF Chmod, Unlink, Purge, SweepEntry, SweepDir, Writing
  <2>3. pc'[p] \notin Writing /\ \A q \in Procs \ {p}: pc'[q] = pc[q]
    <3>1. CASE PurgeReturns(p, TRUE) \/ PurgeReturns(p, FALSE)
      BY <3>1, <1>t, <1>w, PurgeReturnsType DEF Targets
    <3>2. CASE UNCHANGED pc
      BY <2>2, <3>2
    <3>3. CASE \E l \in {"done", "sleep", "unlink", "purgeErr", "sweepErr", "sweepOut"}:
                 Goto(p, l)
      BY <3>3, <1>t, <1>l, <1>w, GotoType
    <3>4. QED
      BY <1>5, <3>1, <3>2, <3>3 DEF Chmod, Unlink, Purge, SweepEntry, SweepDir
  <2>4. QED BY <2>1, <2>2, <2>3, Invisible
<1>6. ASSUME NEW p \in Procs, Remove(p)
      PROVE  Store!Withdraw(p) \/ UNCHANGED Store!vars
  <2>1. after[p] \in Targets /\ Targets \subseteq PC
    BY <1>t, <1>l DEF TypeOK, Targets
  <2>2. /\ pc[p] = "remove" /\ pc'[p] \in Targets /\ labels' = labels
        /\ \A q \in Procs \ {p}: pc'[q] = pc[q]
    BY <1>6, <1>t, <2>1, GotoType DEF Remove
  <2>3. pc[p] \notin Writing /\ pc'[p] \notin Writing
    BY <2>2, <1>w DEF Targets
  <2>4. Pending' = Pending /\ Pending[p] = NoFile
    BY <2>2, <2>3 DEF Pending
  <2>5. p \notin Oneshot
    BY <2>2 DEF OneshotKeeps
  <2>6. Visible' = NoFile \/ Visible' = Visible
    BY <1>6 DEF Remove, Visible
  <2>7. QED BY <2>4, <2>5, <2>6 DEF Store!Withdraw, Store!vars
<1>7. ASSUME NEW p \in Procs, Crash(p)
      PROVE  Store!Abandon(p) \/ UNCHANGED Store!vars
  <2>1. /\ pc'[p] \notin Writing /\ labels' = labels /\ Visible' = Visible
        /\ \A q \in Procs \ {p}: pc'[q] = pc[q]
    BY <1>7, <1>t, <1>l, <1>w, GotoType DEF Crash, Visible
  <2>2. QED BY <2>1, Invisible, Abandons
<1>8. CASE UNCHANGED vars
  BY <1>8 DEF vars, Store!vars, Visible, Pending
<1>9. QED
  BY <1>1, <1>2, <1>3, <1>4, <1>5, <1>6, <1>7, <1>8
     DEF Next, Step, Store!Next

(* For its readers the shared file is the abstract store: what a pass      *)
(* generated becomes visible whole and at most once, and only daemons take *)
(* it away.                                                                *)
THEOREM Refinement == Spec => StoreSpec
<1>1. Init => Store!Init
  BY DEF Init, Store!Init, Visible, Pending, Writing
<1>2. Init => OneshotKeeps
  BY ConstantsAssumption DEF Init, OneshotKeeps
<1>3. IInv /\ OneshotKeeps /\ [Next]_vars => OneshotKeeps'
  BY StepOneshotKeeps
<1>4. IInv /\ OneshotKeeps /\ [Next]_vars => [Store!Next]_(Store!vars)
  BY StepImplements
<1>5. QED
  BY Invariance, <1>1, <1>2, <1>3, <1>4, PTL DEF Spec, StoreSpec, Store!Spec
=============================================================================
