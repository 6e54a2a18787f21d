---------------------------- MODULE DaemonProofs ----------------------------
(***************************************************************************)
(* Theorems about Daemon, for any output paths and configurations, with    *)
(* and without the NodeFeature API, and any number of signals.             *)
(***************************************************************************)
EXTENDS Daemon, TLAPS

(* With the NodeFeature API no file is written, and with nothing in the    *)
(* way of a removal no file outlives its run; a one-shot program never     *)
(* gets to wait for a signal.                                              *)
FilesInv == /\ NodeFeatureAPI => \A p \in Paths: published[p] = Nothing
            /\ pc = "select" => ~cfg.oneshot
            /\ ~RemovalFails => NoStaleOutput

(* A run in which the driver's library still initialises has closed every  *)
(* handle it opened, so one fewer than loads can be open; during the       *)
(* queries the handle of the pass is open.                                 *)
HandlesInv == /\ handles <= loads
              /\ manager = "real" /\ pc \in {"init", "output", "select"}
                   => handles + 1 <= loads
              /\ manager = "real" /\ pc = "query" => handles >= 1

IInv == TypeOK /\ FilesInv /\ HandlesInv

USE DEF PCs, Drivers, Managers, Classes, Signals, SigCap

(* The configurations that are loaded have the fields that are used. *)
LEMMA CfgType ==
  ASSUME TypeOK
  PROVE  /\ cfg.path \in Paths \cup {Stdout}
         /\ cfg.oneshot \in BOOLEAN
         /\ cfg.failOnInit \in BOOLEAN
  BY ConstantsAssumption DEF TypeOK

(* The deferred function of run() leads to the removal, or past it when    *)
(* there is nothing of its own to remove.                                  *)
LEMMA ReturnGoes ==
  ASSUME TypeOK, NEW to \in {"load", "exited"}, Return(to)
  PROVE  /\ pc' \in {to, "cleanup"} /\ next' \in {"load", "exited"}
         /\ pc' # "cleanup" => NodeFeatureAPI \/ cfg.oneshot \/ cfg.path = Stdout
  BY DEF Return, TypeOK

(* A step that leaves what is published and the configuration alone keeps  *)
(* FilesInv, if it stays in the run, or ends one that published no file,   *)
(* or ends a one-shot one.                                                 *)
LEMMA FilesKept ==
  ASSUME FilesInv, published' = published, cfg' = cfg,
         pc' = "select" => pc = "select",
         \/ pc' = pc
         \/ pc' \in InRun
         \/ pc' = "exited" /\ cfg.oneshot
         \/ NodeFeatureAPI
         \/ pc \notin InRun /\ pc # "exited"
         \/ \A p \in Paths: p # cfg.path
  PROVE  FilesInv'
  BY DEF FilesInv, NoStaleOutput, InRun

LEMMA InitIInv == Init => IInv
<1> SUFFICES ASSUME Init PROVE IInv
  OBVIOUS
<1>1. hups \in 0..MaxHups
  BY ConstantsAssumption DEF Init
<1>2. sigs \in Seq(Signals) /\ Len(sigs) <= SigCap
  BY DEF Init
<1>3. published \in [Paths \cup {Stdout, CR} -> Classes \cup {Nothing}]
  BY DEF Init
<1>4. TypeOK
  BY <1>1, <1>2, <1>3 DEF Init, TypeOK
<1>5. FilesInv /\ HandlesInv
  BY DEF Init, FilesInv, HandlesInv, NoStaleOutput
<1>6. QED BY <1>4, <1>5 DEF IInv

LEMMA StepTypeOK == IInv /\ [Next]_vars => TypeOK'
<1> SUFFICES ASSUME IInv, [Next]_vars PROVE TypeOK'
  OBVIOUS
<1>t. TypeOK
  BY DEF IInv
<1>1. CASE Watch
  BY <1>1, <1>t DEF Watch, TypeOK, signals, node
<1>2. CASE Load
  BY <1>2, <1>t DEF Load, GetManager, TypeOK, signals, node
<1>3. CASE InitLibrary
  <2>1. handles' \in Nat /\ manager' \in Managers
    BY <1>3, <1>t DEF InitLibrary, TypeOK
  <2>2. pc' \in PCs /\ next' \in {"load", "exited"}
    BY <1>3, <1>t, ReturnGoes DEF InitLibrary, TypeOK
  <2>3. QED BY <1>3, <1>t, <2>1, <2>2 DEF InitLibrary, TypeOK, signals, node
<1>4. CASE Query
  <2>1. handles' \in Nat
    BY <1>4, <1>t DEF Query, TypeOK, IInv, HandlesInv
  <2>2. pc' \in PCs /\ next' \in {"load", "exited"} /\ labels' \in Classes
    BY <1>4, <1>t, ReturnGoes DEF Query, TypeOK
  <2>3. QED BY <1>4, <1>t, <2>1, <2>2 DEF Query, TypeOK, signals, node
<1>5. CASE Output
  <2>1. published' \in [Paths \cup {Stdout, CR} -> Classes \cup {Nothing}]
    BY <1>5, <1>t DEF Output, TypeOK
  <2>2. pc' \in PCs /\ next' \in {"load", "exited"}
    BY <1>5, <1>t, ReturnGoes DEF Output, TypeOK
  <2>3. QED BY <1>5, <1>t, <2>1, <2>2 DEF Output, TypeOK, signals, node
<1>6. CASE Cleanup
  BY <1>6, <1>t DEF Cleanup, TypeOK, signals, node
<1>7. CASE Timer
  BY <1>7, <1>t DEF Timer, TypeOK, signals, node
<1>8. CASE TakeSignal
  <2>1. pc' \in PCs /\ next' \in {"load", "exited"}
    BY <1>8, <1>t, ReturnGoes DEF TakeSignal, TypeOK
  <2>2. sigs' \in Seq(Signals) /\ Len(sigs') <= SigCap
    BY <1>8, <1>t DEF TakeSignal, TypeOK
  <2>3. QED BY <1>8, <1>t, <2>1, <2>2 DEF TakeSignal, TypeOK, node
<1>9. ASSUME NEW s \in Signals, Deliver(s)
      PROVE  TypeOK'
  <2>1. sigs' \in Seq(Signals) /\ Len(sigs') <= SigCap
    BY <1>9, <1>t DEF Deliver, TypeOK
  <2>2. /\ pending' = pending \ {s} /\ pc' \in {pc, "exited"} /\ lost' \in BOOLEAN
        /\ UNCHANGED <<node, hups>>
    BY <1>9, <1>t DEF Deliver, TypeOK
  <2>3. QED BY <1>9, <1>t, <2>1, <2>2 DEF Deliver, TypeOK, node
<1>10. CASE Environment
  <2>1. CASE EditConfig \/ ChangeDriver
    BY <2>1, <1>t DEF EditConfig, ChangeDriver, TypeOK, process, signals
  <2>2. ASSUME NEW s \in Signals, Send(s)
        PROVE  TypeOK'
    <3>1. hups' \in 0..MaxHups
      BY <2>2, <1>t, ConstantsAssumption DEF Send, TypeOK
    <3>2. pending' \subseteq Signals
      BY <2>2, <1>t DEF Send, TypeOK
    <3>3. QED BY <2>2, <1>t, <3>1, <3>2 DEF Send, TypeOK, process, node
  <2>3. QED BY <1>10, <2>1, <2>2 DEF Environment
<1>11. CASE UNCHANGED vars
  BY <1>11, <1>t DEF vars, process, signals, node, TypeOK
<1>12. QED
  BY <1>1, <1>2, <1>3, <1>4, <1>5, <1>6, <1>7, <1>8, <1>9, <1>10, <1>11
     DEF Next, Run

LEMMA StepFilesInv == IInv /\ [Next]_vars => FilesInv'
<1> SUFFICES ASSUME IInv, [Next]_vars PROVE FilesInv'
  OBVIOUS
<1>t. TypeOK /\ FilesInv
  BY DEF IInv
<1>r. ASSUME NEW to \in {"load", "exited"}, pc \in InRun, Return(to),
             published' = published /\ cfg' = cfg, cfg.oneshot => to = "exited"
      PROVE  FilesInv'
  <2>1. Stdout \notin Paths
    BY ConstantsAssumption
  <2>2. QED BY <1>r, <1>t, <2>1, ReturnGoes, FilesKept DEF InRun
<1>1. CASE Watch
  BY <1>1, <1>t, FilesKept DEF Watch, InRun
<1>2. CASE Load
  BY <1>2, <1>t DEF Load, FilesInv, NoStaleOutput, InRun
<1>3. CASE InitLibrary
  <2>1. pc \in InRun /\ published' = published /\ cfg' = cfg
    BY <1>3 DEF InitLibrary, InRun
  <2>2. Return("exited") \/ pc' = "query"
    BY <1>3 DEF InitLibrary
  <2>3. QED BY <1>r, <1>t, <2>1, <2>2, FilesKept DEF InRun
<1>4. CASE Query
  <2>1. pc \in InRun /\ published' = published /\ cfg' = cfg
    BY <1>4 DEF Query, InRun
  <2>2. Return("exited") \/ pc' = "output"
    BY <1>4 DEF Query
  <2>3. QED BY <1>r, <1>t, <2>1, <2>2, FilesKept DEF InRun
<1>5. CASE Output
  <2>1. CASE UNCHANGED published
    <3>1. pc \in InRun /\ UNCHANGED cfg
      BY <1>5 DEF Output, InRun
    <3>2. Return("exited") \/ (pc' = "select" /\ ~cfg.oneshot)
      BY <1>5 DEF Output
    <3>3. CASE pc' = "select" /\ ~cfg.oneshot
      BY <1>t, <2>1, <3>1, <3>3 DEF FilesInv, NoStaleOutput, InRun
    <3>4. QED BY <1>r, <2>1, <3>1, <3>2, <3>3
  <2>2. CASE published' = [published EXCEPT ![Target] = labels]
    <3>1. \A p \in Paths: p # Target => published'[p] = published[p]
      BY <1>t, <2>2 DEF TypeOK
    <3>2. NodeFeatureAPI => Target \notin Paths
      BY ConstantsAssumption DEF Target
    <3>3. ~NodeFeatureAPI => Target = cfg.path
      BY DEF Target
    <3>4. pc = "output" /\ cfg' = cfg
      BY <1>5 DEF Output
    <3>5. \/ pc' = "exited" /\ (NodeFeatureAPI \/ cfg.oneshot \/ cfg.path = Stdout)
          \/ pc' = "cleanup"
          \/ pc' = "select" /\ ~cfg.oneshot
      BY <1>5, <1>t, ReturnGoes DEF Output
    <3>6. pc' = "exited" => cfg.oneshot \/ UNCHANGED published
      BY <1>5, <1>t, <2>2, ReturnGoes DEF Output
    <3>7. QED
      BY <1>t, <2>1, <3>1, <3>2, <3>3, <3>4, <3>5, <3>6
         DEF FilesInv, NoStaleOutput, InRun
  <2>3. QED BY <1>5, <2>1, <2>2 DEF Output
<1>6. CASE Cleanup
  <2>1. pc = "cleanup" /\ pc' \in {"load", "exited"} /\ cfg' = cfg
    BY <1>6, <1>t DEF Cleanup, TypeOK
  <2>2. \A p \in Paths: published'[p] \in {published[p], Nothing}
    BY <1>6, <1>t DEF Cleanup, TypeOK
  <2>3. ~RemovalFails => \A p \in Paths: p = cfg.path => published'[p] = Nothing
    BY <1>6, <1>t DEF Cleanup, TypeOK
  <2>4. QED
    BY <1>t, <2>1, <2>2, <2>3 DEF FilesInv, NoStaleOutput, InRun
<1>7. CASE Timer
  BY <1>7, <1>t, FilesKept DEF Timer, InRun
<1>8. CASE TakeSignal
  <2>1. ~cfg.oneshot /\ pc \in InRun /\ published' = published /\ cfg' = cfg
    BY <1>8, <1>t DEF TakeSignal, FilesInv, InRun
  <2>2. \E to \in {"load", "exited"}: Return(to)
    BY <1>8 DEF TakeSignal
  <2>3. QED BY <1>r, <1>t, <2>1, <2>2, CfgType
<1>9. ASSUME NEW s \in Signals, Deliver(s)
      PROVE  FilesInv'
  BY <1>9, <1>t, FilesKept DEF Deliver, InRun
<1>10. CASE Environment
  BY <1>10, <1>t, FilesKept DEF Environment, EditConfig, ChangeDriver, Send, process
<1>11. CASE UNCHANGED vars
  BY <1>11, <1>t, FilesKept DEF vars, process
<1>12. QED
  BY <1>1, <1>2, <1>3, <1>4, <1>5, <1>6, <1>7, <1>8, <1>9, <1>10, <1>11
     DEF Next, Run

LEMMA StepHandlesInv == IInv /\ [Next]_vars => HandlesInv'
<1> SUFFICES ASSUME IInv, [Next]_vars PROVE HandlesInv'
  OBVIOUS
<1>t. TypeOK /\ HandlesInv
  BY DEF IInv
<1>n. handles \in Nat /\ loads \in Nat
  BY <1>t DEF TypeOK
<1>1. CASE Watch
  BY <1>1, <1>t DEF Watch, HandlesInv
<1>2. CASE Load
  BY <1>2, <1>t, <1>n DEF Load, HandlesInv
<1>3. CASE InitLibrary
  BY <1>3, <1>t, <1>n, ReturnGoes DEF InitLibrary, HandlesInv
<1>4. CASE Query
  BY <1>4, <1>t, <1>n, ReturnGoes DEF Query, HandlesInv
<1>5. CASE Output
  BY <1>5, <1>t, <1>n, ReturnGoes DEF Output, HandlesInv
<1>6. CASE Cleanup
  BY <1>6, <1>t DEF Cleanup, HandlesInv, TypeOK
<1>7. CASE Timer
  BY <1>7, <1>t DEF Timer, HandlesInv
<1>8. CASE TakeSignal
  <2>1. \E to \in {"load", "exited"}: Return(to)
    BY <1>8 DEF TakeSignal
  <2>2. QED BY <1>8, <1>t, <2>1, ReturnGoes DEF TakeSignal, HandlesInv
<1>9. ASSUME NEW s \in Signals, Deliver(s)
      PROVE  HandlesInv'
  BY <1>9, <1>t DEF Deliver, HandlesInv
<1>10. CASE Environment
  BY <1>10, <1>t DEF Environment, EditConfig, ChangeDriver, Send, process, HandlesInv
<1>11. CASE UNCHANGED vars
  BY <1>11, <1>t DEF vars, process, HandlesInv
<1>12. QED
  BY <1>1, <1>2, <1>3, <1>4, <1>5, <1>6, <1>7, <1>8, <1>9, <1>10, <1>11
     DEF Next, Run

(* The inductive invariant of the process. *)
THEOREM Invariance == Spec => []IInv
<1>1. IInv /\ [Next]_vars => IInv'
  BY StepTypeOK, StepFilesInv, StepHandlesInv DEF IInv
<1>2. QED BY <1>1, InitIInv, PTL DEF Spec

(* The variables keep their types: above all, a pass closes only a handle  *)
(* that it opened, and the signal channel keeps to its capacity.           *)
THEOREM TypeCorrect == Spec => []TypeOK
<1>1. IInv => TypeOK
  BY DEF IInv
<1>2. QED BY <1>1, Invariance, PTL

(* However often the configuration and its output path change, a label     *)
(* file is found only where the run under way, or a one-shot program, put  *)
(* it, if removals do not fail (main.go:157-164).                          *)
THEOREM NoFileOutlivesItsRun ==
  ASSUME ~RemovalFails
  PROVE  Spec => []NoStaleOutput
<1>1. IInv => NoStaleOutput
  BY DEF IInv, FilesInv
<1>2. QED BY <1>1, Invariance, PTL

(* Failing initialisations leak at most one handle of the driver's library *)
(* per configuration load, for any number of passes and reloads.           *)
THEOREM LeakIsBounded == Spec => []LeakPerLoad
<1>1. IInv => LeakPerLoad
  BY DEF IInv, HandlesInv, LeakPerLoad
<1>2. QED BY <1>1, Invariance, PTL
=============================================================================
