----------------------------- MODULE LabelStore -----------------------------
(***************************************************************************)
(* What gpu-feature-discovery promises the reader of its label file (the   *)
(* node-feature-discovery worker), whatever the number of program          *)
(* instances that share the file: at every moment there is either nothing  *)
(* or the complete label set of one pass of one instance, a pass publishes *)
(* what it generated and at most once, and only a daemon withdraws labels. *)
(***************************************************************************)
CONSTANTS Writers,     \* program instances sharing one output
          Retainers,   \* instances that never withdraw what is published
          LabelSets,   \* complete label sets, one per possible pass
          Absent       \* no labels

VARIABLES store,       \* what the reader sees
          pending      \* the label set a pass has generated and not published

vars == <<store, pending>>

Init == /\ store = Absent
        /\ pending = [w \in Writers |-> Absent]

(* A pass produces its label set. *)
Generate(w) == /\ pending[w] = Absent
               /\ \E l \in LabelSets: pending' = [pending EXCEPT ![w] = l]
               /\ UNCHANGED store

(* The label set of the pass becomes visible, whole and once. *)
Publish(w) == /\ pending[w] # Absent
              /\ store' = pending[w]
              /\ pending' = [pending EXCEPT ![w] = Absent]

(* The pass fails, or the instance dies, before its labels are visible. *)
Abandon(w) == /\ pending[w] # Absent
              /\ pending' = [pending EXCEPT ![w] = Absent]
              /\ UNCHANGED store

(* A daemon that stops or reloads takes the labels away. *)
Withdraw(w) == /\ w \notin Retainers
               /\ pending[w] = Absent
               /\ store' = Absent
               /\ UNCHANGED pending

Next == \E w \in Writers: Generate(w) \/ Publish(w) \/ Abandon(w) \/ Withdraw(w)

Spec == Init /\ [][Next]_vars
=============================================================================
