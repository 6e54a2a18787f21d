----------------------------- MODULE PassProofs ------------------------------
(***************************************************************************)
(* Proofs of what the labels of a pass say: exactly what the node has, if  *)
(* nothing is reconfigured during the pass (QuietPassExact); the right     *)
(* versions (VersionsExact); labels that fit together, whatever is         *)
(* reconfigured (Coherent); and the same again in the next pass (Steady).  *)
(* All follow from PassInv, which says group by group what the labels say at *)
(* each point of a pass.                                                   *)
(***************************************************************************)
EXTENDS LabelProofs, SequenceTheorems

(* What host, hardware and run determine.                                  *)

(* The names of the resources and groups are different. *)
LEMMA Names ==
  /\ "gpu" \in Resources /\ Profiles \subseteq Resources
  /\ \A q \in Profiles: q # "gpu" /\ q \notin Groups
  /\ "gpu" \notin Groups
  /\ Groups = {"cuda", "mig", "gfd", "vgpu"}
  BY NamesAssumption DEF Resources, Groups

(* Nothing outside of some resources. *)
LEMMA KnownResources ==
  ASSUME NEW l, IsLabels(l), NEW R
  PROVE  ({key[1]: key \in DOMAIN l} \subseteq R) <=> (\A r: r \notin R => Of(l, r) = Empty)
<1>1. ASSUME {key[1]: key \in DOMAIN l} \subseteq R, NEW r, r \notin R
      PROVE  Of(l, r) = Empty
  <2>1. {key \in DOMAIN l: key[1] = r} = {}
    BY <1>1
  <2>2. QED BY <2>1 DEF Of, Empty
<1>2. ASSUME \A r: r \notin R => Of(l, r) = Empty, NEW key \in DOMAIN l
      PROVE  key[1] \in R
  <2>1. key = <<key[1], key[2]>>
    BY DEF IsLabels
  <2>2. key[2] \in DOMAIN Of(l, key[1])
    BY <2>1, SuffixesOf
  <2>3. QED BY <1>2, <2>2, EmptyFacts
<1>3. QED BY <1>1, <1>2

(* What depends on the host and the run only. *)
LEMMA RunKept ==
  ASSUME UNCHANGED <<host, conf, manager, stamp>>
  PROVE  /\ UNCHANGED <<N, GPUs, TimeSaid, VGPUSaid, Machine, Flags, Versions>>
         /\ Unlabelled' <=> Unlabelled
         /\ \A S: ModelsAmong(S)' = ModelsAmong(S)
         /\ \A m, s: PlainGPU(m, s)' = PlainGPU(m, s)
         /\ \A res, q, m, n: MigDevices(res, q, m, n)' = MigDevices(res, q, m, n)
<1>1. UNCHANGED <<N, GPUs, TimeSaid, VGPUSaid, Machine, Flags, Versions>>
  BY DEF N, GPUs, TimeSaid, VGPUSaid, Machine, Flags, Versions, ModelOf
<1>2. Unlabelled' <=> Unlabelled
  BY <1>1 DEF Unlabelled
<1>3. \A S: ModelsAmong(S)' = ModelsAmong(S)
  BY DEF ModelsAmong, ModelOf
<1>4. \A m, s: PlainGPU(m, s)' = PlainGPU(m, s)
  BY <1>1 DEF PlainGPU, Product, Replicas, ModelOf
<1>5. \A res, q, m, n: MigDevices(res, q, m, n)' = MigDevices(res, q, m, n)
  BY DEF MigDevices, Product, Replicas
<1>6. QED BY <1>1, <1>2, <1>3, <1>4, <1>5

(* What depends on the MIG configuration, too. *)
LEMMA NodeKept ==
  ASSUME UNCHANGED <<host, hw, conf, manager, stamp>>
  PROVE  /\ UNCHANGED <<MigEnabled, Labelled, Present, SingleMig>>
         /\ \A res, q: AllOf(res, q)' = AllOf(res, q)
<1>1. /\ UNCHANGED <<N, GPUs, MigEnabled>> /\ \A S: ModelsAmong(S)' = ModelsAmong(S)
      /\ \A q: DevicesOf(q)' = DevicesOf(q)
      /\ \A res, q, m, n: MigDevices(res, q, m, n)' = MigDevices(res, q, m, n)
  BY HardwareKept, RunKept
<1>2. \A q: Total(q)' = Total(q) /\ Owner(q)' = Owner(q)
  BY <1>1 DEF Total, Owner
<1>3. UNCHANGED <<Labelled, Present>>
  BY <1>1, <1>2 DEF Labelled, Present
<1>4. \A res, q: AllOf(res, q)' = AllOf(res, q)
  BY <1>1, <1>2 DEF AllOf, ModelOf
<1>5. Regular' <=> Regular
  BY <1>1, <1>3 DEF Regular, NoMigs
<1>6. SingleMig' = SingleMig
  BY <1>1, <1>3, <1>4, <1>5 DEF SingleMig, ModelOf
<1>7. QED BY <1>1, <1>3, <1>4, <1>6

-----------------------------------------------------------------------------
(* Steps that leave the labels alone. *)
SameStage == /\ pc' \in Begun <=> pc \in Begun
             /\ pc' \in {"vgpu", "done"} <=> pc \in {"vgpu", "done"}
             /\ pc' = "full" <=> pc = "full"
             /\ pc' = "done" <=> pc = "done"
             /\ pc' \in Looking => pc \in Looking

(* Steps that leave labels and stage alone keep what the labels say. *)
LEMMA LabelsKept ==
  ASSUME UNCHANGED <<host, conf, manager, stamp, labels>>, SameStage,
         quiet' => quiet /\ hw' = hw
  PROVE  (NodeInv => NodeInv') /\ (GPUInv => GPUInv')
<1>1. /\ UNCHANGED <<N, GPUs, TimeSaid, VGPUSaid, Machine, Flags, Versions>>
      /\ Unlabelled' <=> Unlabelled
      /\ \A S: ModelsAmong(S)' = ModelsAmong(S)
      /\ \A m, s: PlainGPU(m, s)' = PlainGPU(m, s)
      /\ \A res, q, m, n: MigDevices(res, q, m, n)' = MigDevices(res, q, m, n)
  BY RunKept
<1>2. quiet' => /\ UNCHANGED <<MigEnabled, Labelled, Present, SingleMig>>
                /\ \A res, q: AllOf(res, q)' = AllOf(res, q)
  BY NodeKept
<1>3. /\ pc' \in Begun <=> pc \in Begun
      /\ MigsAdded' <=> MigsAdded
      /\ pc' = "full" <=> pc = "full"
      /\ pc' = "done" <=> pc = "done"
      /\ pc' \in Looking => pc \in Looking
  BY DEF SameStage, MigsAdded
<1>4. GroupsSaid => GroupsSaid'
  BY <1>1, <1>3 DEF GroupsSaid
<1>5. NodeSaid => NodeSaid'
  BY <1>1, <1>3 DEF NodeSaid, ModelOf
<1>6. ProfilesSaid => ProfilesSaid'
  BY <1>1, <1>2, <1>3 DEF ProfilesSaid
<1>7. \A m, s: GPUSaidAs(m, s) => GPUSaidAs(m, s)'
  <2>1. \A part: SinglePart(part) => SinglePart(part)'
    BY <1>1, <1>3 DEF SinglePart
  <2>2. SUFFICES ASSUME NEW m, NEW s, GPUSaidAs(m, s)
                 PROVE  GPUSaidAs(m, s)'
    OBVIOUS
  <2> DEFINE Parts == {Empty} \cup {InvalidMig(g): g \in ModelsAmong(GPUs)}
               \cup {MigDevices("gpu", q, g, n): q \in Profiles, g \in ModelsAmong(GPUs),
                                               n \in 1..(N * MaxMigs)}
  <2>3. PICK part \in Parts:
          /\ SinglePart(part)
          /\ quiet /\ MigsAdded => part = SingleMig
          /\ Of(labels, "gpu") = Merge(Merge(Machine, PlainGPU(m, s)), part)
    BY <2>2 DEF GPUSaidAs
  <2>4. Parts' = Parts
    BY <1>1
  <2> HIDE DEF Parts
  <2>5. /\ part \in Parts' /\ SinglePart(part)'
        /\ quiet' /\ MigsAdded' => part = SingleMig'
        /\ Of(labels', "gpu") = Merge(Merge(Machine', PlainGPU(m, s)'), part)
    BY <1>1, <1>2, <1>3, <2>1, <2>3, <2>4
  <2>6. QED BY <2>5 DEF GPUSaidAs, Parts
<1>8. GPUSaid => GPUSaid'
  BY <1>1, <1>2, <1>3, <1>7 DEF GPUSaid
<1>9. QED BY <1>1, <1>3, <1>4, <1>5, <1>6, <1>8 DEF NodeInv, GPUInv

(* Nothing is said before a pass has begun. *)
LEMMA LabelsCleared ==
  ASSUME labels' = Empty, pc' \in {"off", "init"}
  PROVE  NodeInv' /\ GPUInv'
<1>1. IsLabels(Empty) /\ \A r: Of(Empty, r) = Empty
  BY EmptyOf
<1>2. {key[1]: key \in DOMAIN Empty} \subseteq (Resources \cup Groups)
  BY <1>1, KnownResources
<1>3. GroupsSaid'
  BY <1>1, <1>2 DEF GroupsSaid
<1>4. pc' \notin Looking /\ pc' \notin Begun
  BY DEF Looking, Begun
<1>5. QED BY <1>3, <1>4 DEF NodeInv, GPUInv

-----------------------------------------------------------------------------
(* What NodeInv says of every state of a pass. *)
LEMMA NodeParts ==
  ASSUME NodeInv
  PROVE  /\ IsLabels(labels)
         /\ \A r: r \notin Resources \cup Groups => Of(labels, r) = Empty
         /\ pc # "done" => Of(labels, "gfd") = Empty /\ Of(labels, "vgpu") = Empty
<1>1. IsLabels(labels) /\ {key[1]: key \in DOMAIN labels} \subseteq (Resources \cup Groups)
  BY DEF NodeInv, GroupsSaid
<1>2. QED BY <1>1, KnownResources DEF NodeInv, GroupsSaid

(* More is said of resources; of the rest it stays as it was. *)
LEMMA GroupsAdded ==
  ASSUME NodeInv, NEW more, IsLabels(more), labels' = Merge(labels, more),
         \A r: r \notin Resources \cup {"cuda", "mig"} => Of(more, r) = Empty,
         UNCHANGED <<host, conf, manager, stamp>>,
         pc # "done", pc' # "done", pc' \in Begun, ~Unlabelled
  PROVE  /\ GroupsSaid' /\ ~Unlabelled'
         /\ \A r: Of(labels', r) = Merge(Of(labels, r), Of(more, r))
<1>1. /\ IsLabels(labels')
      /\ \A r: Of(labels', r) = Merge(Of(labels, r), Of(more, r))
  BY NodeParts, MergeOf
<1>2. Merge(Empty, Empty) = Empty
  BY MergeEmpty, EmptyFacts
<1>3. \A r: r \notin Resources \cup Groups => Of(labels', r) = Empty
  BY <1>1, <1>2, NodeParts, Names
<1>4. {key[1]: key \in DOMAIN labels'} \subseteq (Resources \cup Groups)
  BY <1>1, <1>3, KnownResources
<1>5. Of(labels', "gfd") = Empty /\ Of(labels', "vgpu") = Empty
  <2>1. "gfd" \notin Resources \cup {"cuda", "mig"} /\ "vgpu" \notin Resources \cup {"cuda", "mig"}
    BY Names DEF Resources
  <2>2. QED BY <1>1, <1>2, <2>1, NodeParts
<1>6. ~Unlabelled'
  BY RunKept
<1>7. GroupsSaid'
  BY <1>1, <1>4, <1>5, <1>6 DEF GroupsSaid
<1>8. QED BY <1>1, <1>6, <1>7

-----------------------------------------------------------------------------
(* The labels that do not depend on the MIG configuration. *)

(* There are devices unless the node is to stay without labels. *)
LEMMA DevicesThere ==
  ASSUME TypeOK
  PROVE  /\ Devices # <<>> <=> ~Unlabelled
         /\ ~Unlabelled => DOMAIN Devices = GPUs
<1>1. DOMAIN host.gpus = GPUs
  BY HostFacts
<1>2. manager = "null" => Devices = <<>>
  BY DEF Devices, GetDevices
<1>3. manager \in {"nvml", "cuda"} => DOMAIN Devices = GPUs /\ (GPUs = {} => Devices = <<>>)
  <2>1. CASE manager = "nvml"
    <3>1. Devices = [h \in GPUs |-> NvmlDevice(host.gpus[h], hw[h])]
      BY <1>1, <2>1 DEF Devices, GetDevices
    <3>2. QED BY <3>1
  <2>2. CASE manager = "cuda"
    <3>1. Devices = [h \in GPUs |-> CudaDevice(host.gpus[h])]
      BY <1>1, <2>2 DEF Devices, GetDevices
    <3>2. QED BY <3>1
  <2>3. QED BY <2>1, <2>2
<1>4. QED BY <1>2, <1>3, ManagerFacts DEF Unlabelled

(* The label mig.capable. *)
LEMMA CapableSaid ==
  ASSUME TypeOK, ~Unlabelled
  PROVE  (\E g \in DOMAIN Devices: Device(g).IsMigCapable)
           <=> (host.nvml /\ \E g \in GPUs: ModelOf(g) \in Capable)
<1>1. DOMAIN Devices = GPUs /\ manager # "null"
  BY DevicesThere DEF Unlabelled
<1>2. manager = "nvml" <=> host.nvml
  <2>1. manager = GetManager(host) /\ host.nvml \in BOOLEAN
    BY <1>1, HostFacts DEF TypeOK
  <2>2. QED BY <2>1 DEF GetManager
<1>3. \A g \in GPUs: Device(g).IsMigCapable <=> host.nvml /\ ModelOf(g) \in Capable
  BY <1>1, <1>2, DeviceNames
<1>4. QED BY <1>1, <1>3

(* Machine type, versions and mig.capable are said. *)
LEMMA BasicSaid ==
  ASSUME IInv, NodeInv, pc = "basic", ~Unlabelled, UNCHANGED <<host, conf, manager, stamp, hw>>,
         WellFormed(GetDriverVersion(manager, host)),
         labels' = Merge(Merge(MachineTypeLabels, VersionLabels), CapableLabels),
         pc' = "full"
  PROVE  NodeInv' /\ GPUInv'
<1> DEFINE capable == host.nvml /\ \E g \in GPUs: ModelOf(g) \in Capable
<1>1. About(MachineTypeLabels, "gpu", Machine)
  <2> DEFINE machine == IF host.machine = Nothing THEN Unknown ELSE host.machine
  <2>1. Machine = [s \in {"machine"} |-> machine]
    BY DEF Machine, Unknown
  <2>2. MachineTypeLabels = Label("gpu", "machine", machine)
    BY DEF MachineTypeLabels
  <2> HIDE DEF machine
  <2>3. About(Label("gpu", "machine", machine), "gpu", [s \in {"machine"} |-> machine])
    BY AboutLabel
  <2>4. QED BY <2>1, <2>2, <2>3
<1>2. About(VersionLabels, "cuda", Versions)
  <2>1. IsFunction(Versions)
    BY DEF Versions, IsFunction
  <2>2. QED BY <2>1, AboutLabels DEF VersionLabels
<1>3. About(CapableLabels, "mig", [capable |-> capable])
  <2> DEFINE there == \E g \in DOMAIN Devices: Device(g).IsMigCapable
  <2>1. there <=> capable
    BY CapableSaid DEF IInv
  <2>2. CapableLabels = Label("mig", "capable", there)
    BY DEF CapableLabels
  <2>3. there = capable
    BY <2>1
  <2>4. \A v: [s \in {"capable"} |-> v] = [capable |-> v]
    OBVIOUS
  <2> HIDE DEF there, capable
  <2>5. About(Label("mig", "capable", there), "mig", [s \in {"capable"} |-> there])
    BY AboutLabel
  <2>6. QED BY <2>2, <2>3, <2>4, <2>5
<1> DEFINE a == MachineTypeLabels
<1> DEFINE b == VersionLabels
<1> DEFINE c == CapableLabels
<1>4. IsLabels(a) /\ IsLabels(b) /\ IsLabels(c)
  BY <1>1, <1>2, <1>3 DEF About
<1> HIDE DEF a, b, c, capable
<1>5. IsLabels(Merge(a, b)) /\ \A r: Of(Merge(a, b), r) = Merge(Of(a, r), Of(b, r))
  BY <1>4, MergeOf
<1>6. /\ IsLabels(labels')
      /\ \A r: Of(labels', r) = Merge(Merge(Of(a, r), Of(b, r)), Of(c, r))
  <2>1. labels' = Merge(Merge(a, b), c)
    BY DEF a, b, c
  <2>2. IsLabels(Merge(Merge(a, b), c))
    BY <1>4, <1>5, MergeOf
  <2>3. \A r: Of(Merge(Merge(a, b), c), r) = Merge(Of(Merge(a, b), r), Of(c, r))
    BY <1>4, <1>5, MergeOf
  <2>4. QED BY <1>5, <2>1, <2>2, <2>3
<1>7. /\ Of(a, "gpu") = Machine /\ \A r: r # "gpu" => Of(a, r) = Empty
      /\ Of(b, "cuda") = Versions /\ \A r: r # "cuda" => Of(b, r) = Empty
      /\ Of(c, "mig") = [capable |-> capable] /\ \A r: r # "mig" => Of(c, r) = Empty
  BY <1>1, <1>2, <1>3 DEF About, a, b, c
<1>8. /\ IsFunction(Machine) /\ IsFunction(Versions) /\ IsFunction([capable |-> capable])
      /\ IsFunction(Empty)
  BY EmptyFacts DEF Machine, Versions, IsFunction
<1>9. /\ Of(labels', "gpu") = Machine
      /\ Of(labels', "cuda") = Versions
      /\ Of(labels', "mig") = [capable |-> capable]
      /\ \A r: r \notin {"gpu", "cuda", "mig"} => Of(labels', r) = Empty
  <2> DEFINE flag == [capable |-> capable]
  <2>0. IsFunction(flag) /\ Of(c, "mig") = flag
    BY <1>7, <1>8
  <2> HIDE DEF flag
  <2>1. Of(labels', "gpu") = Merge(Merge(Machine, Empty), Empty)
    BY <1>6, <1>7
  <2>2. Of(labels', "cuda") = Merge(Merge(Empty, Versions), Empty)
    BY <1>6, <1>7
  <2>3. Of(labels', "mig") = Merge(Merge(Empty, Empty), flag)
    BY <1>6, <1>7, <2>0
  <2>4. \A r: r \notin {"gpu", "cuda", "mig"} => Of(labels', r) = Merge(Merge(Empty, Empty), Empty)
    BY <1>6, <1>7
  <2>5. Merge(Empty, Empty) = Empty
    BY <1>8, MergeEmpty
  <2>6. Merge(Machine, Empty) = Machine /\ Merge(Empty, Versions) = Versions
        /\ Merge(Versions, Empty) = Versions /\ Merge(Empty, flag) = flag
    BY <1>8, <2>0, MergeEmpty
  <2>7. QED BY <2>1, <2>2, <2>3, <2>4, <2>5, <2>6 DEF flag
<1>10. /\ UNCHANGED <<Machine, Versions, GPUs>> /\ ~Unlabelled'
       /\ capable' = capable
  BY RunKept DEF capable, ModelOf
<1>11. GroupsSaid'
  <2>1. \A r: r \notin Resources \cup Groups => Of(labels', r) = Empty
    BY <1>9, Names
  <2>2. {key[1]: key \in DOMAIN labels'} \subseteq (Resources \cup Groups)
    BY <1>6, <2>1, KnownResources
  <2>3. QED BY <1>6, <1>9, <1>10, <2>2 DEF GroupsSaid, Begun, Looking
<1>12. NodeSaid'
  BY <1>9, <1>10 DEF NodeSaid, capable
<1>13. ProfilesSaid'
  <2>1. \A q \in Profiles: Of(labels', q) = Empty
    BY <1>9, Names
  <2>2. QED BY <2>1 DEF ProfilesSaid, MigsAdded
<1>14. GPUSaid'
  BY <1>9, <1>10 DEF GPUSaid
<1>15. QED BY <1>10, <1>11, <1>12, <1>13, <1>14 DEF NodeInv, GPUInv

-----------------------------------------------------------------------------
(* The end of a pass adds to groups of which nothing has been said.  *)
LEMMA VGPUsSaid ==
  ASSUME IInv, NodeInv, LabelVGPUs, ~Abort
  PROVE  NodeInv' /\ (GPUInv => GPUInv')
<1> DEFINE c == VGPULabels
<1> DEFINE t == TimestampLabels
<1>1. /\ pc = "vgpu" /\ pc' = "done" /\ host.vgpu # "error"
      /\ labels' = Merge(t, Merge(labels, c))
      /\ UNCHANGED <<host, hw, conf, manager, stamp, quiet>>
  BY DEF LabelVGPUs, run
<1>2. About(c, "vgpu", VGPUSaid)
  <2>1. host.vgpu \in {"none", "present"}
    BY <1>1, ConstantsAssumption DEF IInv, TypeOK, VGPUs
  <2>2. CASE host.vgpu = "present"
    <3>1. VGPUSaid = [present |-> TRUE]
      BY <2>2 DEF VGPUSaid
    <3>2. c = Label("vgpu", "present", TRUE)
      BY <2>2 DEF VGPULabels
    <3>3. \A v: [s \in {"present"} |-> v] = [present |-> v]
      OBVIOUS
    <3>4. About(Label("vgpu", "present", TRUE), "vgpu", [s \in {"present"} |-> TRUE])
      BY AboutLabel
    <3> HIDE DEF c
    <3>5. QED BY <3>1, <3>2, <3>3, <3>4
  <2>3. CASE host.vgpu = "none"
    <3>1. VGPUSaid = Empty /\ c = Empty
      BY <2>3 DEF VGPUSaid, VGPULabels
    <3> HIDE DEF c
    <3>2. QED BY <3>1, AboutEmpty
  <2>4. QED BY <2>1, <2>2, <2>3
<1>3. About(t, "gfd", TimeSaid)
  <2>1. CASE conf.noTimestamp
    <3>1. TimeSaid = Empty /\ t = Empty
      BY <2>1 DEF TimeSaid, TimestampLabels
    <3> HIDE DEF t
    <3>2. QED BY <3>1, AboutEmpty
  <2>2. CASE ~conf.noTimestamp
    <3>1. TimeSaid = [s \in {"timestamp"} |-> stamp] /\ t = Label("gfd", "timestamp", stamp)
      BY <2>2 DEF TimeSaid, TimestampLabels
    <3> HIDE DEF t
    <3>2. QED BY <3>1, AboutLabel
  <2>3. QED BY <2>1, <2>2
<1>4. IsLabels(labels) /\ IsLabels(c) /\ IsLabels(t)
  BY <1>2, <1>3, NodeParts DEF About
<1> HIDE DEF c, t
<1>5. IsLabels(Merge(labels, c)) /\ \A r: Of(Merge(labels, c), r) = Merge(Of(labels, r), Of(c, r))
  BY <1>4, MergeOf
<1>6. /\ IsLabels(labels')
      /\ \A r: Of(labels', r) = Merge(Of(t, r), Merge(Of(labels, r), Of(c, r)))
  <2> DEFINE rest == Merge(labels, c)
  <2>1. IsLabels(rest)
    BY <1>5
  <2> HIDE DEF rest
  <2>2. IsLabels(Merge(t, rest)) /\ \A r: Of(Merge(t, rest), r) = Merge(Of(t, r), Of(rest, r))
    BY <1>4, <2>1, MergeOf
  <2>3. QED BY <1>1, <1>5, <2>2 DEF rest
<1>7. /\ Of(c, "vgpu") = VGPUSaid /\ \A r: r # "vgpu" => Of(c, r) = Empty
      /\ Of(t, "gfd") = TimeSaid /\ \A r: r # "gfd" => Of(t, r) = Empty
  BY <1>2, <1>3 DEF About
<1>8. /\ \A r: r \notin {"gfd", "vgpu"} => Of(labels', r) = Of(labels, r)
      /\ Of(labels', "gfd") = TimeSaid /\ Of(labels', "vgpu") = VGPUSaid
  <2>1. \A r: Merge(Of(labels, r), Empty) = Of(labels, r) /\ Merge(Empty, Of(labels, r)) = Of(labels, r)
    BY OfIsFunction, MergeEmpty
  <2>2. Of(labels, "gfd") = Empty /\ Of(labels, "vgpu") = Empty
    BY <1>1, NodeParts
  <2>3. IsFunction(TimeSaid) /\ IsFunction(VGPUSaid) /\ IsFunction(Empty)
    BY EmptyFacts DEF TimeSaid, VGPUSaid, IsFunction
  <2>4. /\ Merge(TimeSaid, Empty) = TimeSaid /\ Merge(Empty, VGPUSaid) = VGPUSaid
        /\ Merge(Empty, Empty) = Empty
    BY <2>3, MergeEmpty
  <2>5. \A r: r \notin {"gfd", "vgpu"} => Of(labels', r) = Of(labels, r)
    BY <1>6, <1>7, <2>1
  <2>6. Of(labels', "gfd") = Merge(TimeSaid, Merge(Empty, Empty))
    BY <1>6, <1>7, <2>2
  <2>7. Of(labels', "vgpu") = Merge(Empty, Merge(Empty, VGPUSaid))
    BY <1>6, <1>7, <2>2
  <2>8. QED BY <2>4, <2>5, <2>6, <2>7
<1>9. /\ UNCHANGED <<N, GPUs, TimeSaid, VGPUSaid, Machine, Flags, Versions>>
      /\ Unlabelled' <=> Unlabelled
      /\ \A S: ModelsAmong(S)' = ModelsAmong(S)
      /\ \A m, s: PlainGPU(m, s)' = PlainGPU(m, s)
      /\ \A res, q, m, n: MigDevices(res, q, m, n)' = MigDevices(res, q, m, n)
      /\ UNCHANGED <<MigEnabled, Labelled, Present, SingleMig>>
      /\ \A res, q: AllOf(res, q)' = AllOf(res, q)
  BY <1>1, RunKept, NodeKept
<1>10. /\ Of(labels', "gpu") = Of(labels, "gpu")
       /\ Of(labels', "cuda") = Of(labels, "cuda")
       /\ Of(labels', "mig") = Of(labels, "mig")
       /\ \A q \in Profiles: Of(labels', q) = Of(labels, q)
  BY <1>8, Names
<1>11. GroupsSaid'
  <2>1. \A r: r \notin Resources \cup Groups => Of(labels', r) = Empty
    BY <1>8, NodeParts, Names
  <2>2. {key[1]: key \in DOMAIN labels'} \subseteq (Resources \cup Groups)
    BY <1>6, <2>1, KnownResources
  <2>3. Unlabelled => \A res \in Resources \cup {"cuda", "mig"}: Of(labels', res) = Empty
    BY <1>10 DEF NodeInv, GroupsSaid, Resources
  <2>4. pc' \in Begun
    BY <1>1 DEF Begun
  <2>5. QED BY <1>1, <1>6, <1>8, <1>9, <2>2, <2>3, <2>4 DEF GroupsSaid
<1>12. pc \in Begun /\ MigsAdded /\ MigsAdded' /\ pc' \notin Looking
  BY <1>1 DEF Begun, MigsAdded, Looking
<1>13. NodeSaid => NodeSaid'
  BY <1>1, <1>9, <1>10 DEF NodeSaid
<1>14. ProfilesSaid => ProfilesSaid'
  BY <1>1, <1>9, <1>10, <1>12 DEF ProfilesSaid
<1>15. \A m, s: GPUSaidAs(m, s) => GPUSaidAs(m, s)'
  BY <1>1, <1>9, <1>10, <1>12 DEF GPUSaidAs, SinglePart
<1>16. GPUSaid => GPUSaid'
  BY <1>1, <1>9, <1>15 DEF GPUSaid
<1>17. QED BY <1>9, <1>11, <1>12, <1>13, <1>14, <1>16 DEF NodeInv, GPUInv

-----------------------------------------------------------------------------
(* The full GPUs. *)

(* The labels of the full GPUs are added. *)
LEMMA FullGPUsSaid ==
  ASSUME IInv, Scan, NodeInv, LabelFullGPUs
  PROVE  NodeInv' /\ (ModelsAlike /\ GPUInv => GPUInv')
<1>1. /\ pc = "full" /\ at = N + 1 /\ pc' = IF conf.strategy = "none" THEN "vgpu" ELSE "mig"
      /\ UNCHANGED <<host, hw, conf, manager, stamp, quiet>>
  BY DEF LabelFullGPUs, run
<1>2. /\ IInv => TypeOK /\ enabled \subseteq GPUs
      /\ manager # "null" /\ ~Unlabelled /\ GPUs # {}
      /\ pc \in Begun /\ pc' \in Begun /\ pc # "done" /\ pc' # "done"
  BY <1>1 DEF IInv, TypeOK, NodeInv, Looking, Unlabelled, Begun
<1>3. PICK onMig \in SetToSeqs(ModelsAmong(enabled)),
           onFull \in SetToSeqs(ModelsAmong(GPUs \ enabled)):
        labels' = IF conf.strategy = "none" THEN Merge(labels, FullGPULabels(onMig, onFull))
                  ELSE Merge(Merge(labels, FullGPULabels(onMig, onFull)), StrategyLabels)
  BY DEF LabelFullGPUs
<1> DEFINE full == FullGPULabels(onMig, onFull)
<1> DEFINE strategy == IF conf.strategy = "none" THEN Empty ELSE StrategyLabels
<1> DEFINE strategySaid == IF conf.strategy = "none" THEN Empty ELSE [strategy |-> conf.strategy]
<1>4. OnlyOn(full, "gpu")
  BY <1>2, FullGPUs
<1>5. About(strategy, "mig", strategySaid)
  <2>1. CASE conf.strategy = "none"
    BY <2>1, AboutEmpty
  <2>2. CASE conf.strategy # "none"
    <3>1. strategySaid = [s \in {"strategy"} |-> conf.strategy]
      BY <2>2
    <3>2. strategy = Label("mig", "strategy", conf.strategy)
      BY <2>2 DEF StrategyLabels
    <3> HIDE DEF strategy, strategySaid
    <3>3. QED BY <3>1, <3>2, AboutLabel
  <2>3. QED BY <2>1, <2>2
<1> HIDE DEF full, strategy, strategySaid
<1>6. labels' = Merge(labels, Merge(full, strategy))
  <2>1. IsLabels(full) /\ IsLabels(labels)
    BY <1>4, NodeParts DEF OnlyOn
  <2>2. Merge(full, Empty) = full
    BY <2>1, MergeEmpty DEF IsLabels
  <2>3. CASE conf.strategy = "none"
    BY <1>3, <2>2, <2>3 DEF full, strategy
  <2>4. CASE conf.strategy # "none"
    <3>1. labels' = Merge(Merge(labels, full), strategy)
      BY <1>3, <2>4 DEF full, strategy
    <3>2. QED BY <3>1, MergeAssoc
  <2>5. QED BY <2>3, <2>4
<1> DEFINE more == Merge(full, strategy)
<1>7. /\ IsLabels(more)
      /\ \A r: Of(more, r) = Merge(Of(full, r), Of(strategy, r))
  BY <1>4, <1>5, MergeOf DEF OnlyOn, About
<1> HIDE DEF more
<1>8. /\ Of(more, "gpu") = Of(full, "gpu")
      /\ Of(more, "mig") = strategySaid
      /\ \A r: r \notin {"gpu", "mig"} => Of(more, r) = Empty
  <2>1. /\ \A r: r # "gpu" => Of(full, r) = Empty
        /\ Of(strategy, "mig") = strategySaid
        /\ \A r: r # "mig" => Of(strategy, r) = Empty
    BY <1>4, <1>5 DEF OnlyOn, About
  <2>2. /\ Merge(Empty, Empty) = Empty
        /\ Merge(Of(full, "gpu"), Empty) = Of(full, "gpu")
        /\ Merge(Empty, strategySaid) = strategySaid
    <3>1. IsFunction(strategySaid) /\ IsFunction(Of(full, "gpu"))
      BY <2>1, OfIsFunction
    <3>2. QED BY <3>1, MergeEmpty, EmptyFacts
  <2>3. QED BY <1>7, <2>1, <2>2
<1>9. labels' = Merge(labels, more)
  BY <1>6 DEF more
<1>10. /\ GroupsSaid' /\ ~Unlabelled'
       /\ \A r: Of(labels', r) = Merge(Of(labels, r), Of(more, r))
  <2>1. \A r: r \notin Resources \cup {"cuda", "mig"} => Of(more, r) = Empty
    BY <1>8, Names
  <2>2. QED BY <1>1, <1>2, <1>7, <1>9, <2>1, GroupsAdded
<1>11. /\ Of(labels', "mig") = Merge(Of(labels, "mig"), strategySaid)
       /\ Of(labels', "gpu") = Merge(Of(labels, "gpu"), Of(full, "gpu"))
       /\ \A r: r \notin {"gpu", "mig"} => Of(labels', r) = Of(labels, r)
  <2>1. \A r: Merge(Of(labels, r), Empty) = Of(labels, r)
    BY OfIsFunction, MergeEmpty
  <2>2. QED BY <1>8, <1>10, <2>1
<1>12. /\ UNCHANGED <<N, GPUs, Machine, Flags, Versions>>
       /\ \A S: ModelsAmong(S)' = ModelsAmong(S)
       /\ \A m, s: PlainGPU(m, s)' = PlainGPU(m, s)
       /\ UNCHANGED <<MigEnabled, Labelled, SingleMig>>
  BY <1>1, RunKept, NodeKept
<1>13. NodeSaid /\ ProfilesSaid
  BY <1>2 DEF NodeInv
<1>14. NodeSaid'
  <2>1. Of(labels', "mig") = Flags
    BY <1>1, <1>11, <1>13 DEF NodeSaid, Flags, strategySaid
  <2>2. Of(labels', "cuda") = Versions
    BY <1>11, <1>13 DEF NodeSaid
  <2>3. WellFormed(GetDriverVersion(manager', host'))
    BY <1>1, <1>13 DEF NodeSaid
  <2>4. pc' # "full"
    BY <1>1
  <2>5. QED BY <1>12, <2>1, <2>2, <2>3, <2>4 DEF NodeSaid
<1>15. MigsAdded' => conf'.strategy = "none"
  BY <1>1 DEF MigsAdded
<1>16. ProfilesSaid'
  <2>1. \A q \in Profiles: Of(labels', q) = Empty
    <3>1. ~MigsAdded
      BY <1>1 DEF MigsAdded
    <3>2. QED BY <1>11, <1>13, <3>1, Names DEF ProfilesSaid
  <2>2. QED BY <1>15, <2>1 DEF ProfilesSaid
<1>17. ASSUME ModelsAlike, GPUInv PROVE GPUSaid'
  <2>1. PICK m \in ModelsAmong(IF enabled = GPUs THEN GPUs ELSE GPUs \ enabled),
             shared \in BOOLEAN:
               /\ shared <=> enabled # GPUs
               /\ About(full, "gpu", PlainGPU(m, shared))
    BY <1>2, <1>17, FullGPUs DEF full
  <2>2. m \in ModelsAmong(GPUs)
    BY <2>1 DEF ModelsAmong
  <2>3. quiet => m \in ModelsAmong(Labelled) /\ (shared <=> Labelled # MigEnabled)
    <3>1. SUFFICES ASSUME quiet
                   PROVE  m \in ModelsAmong(Labelled) /\ (shared <=> Labelled # MigEnabled)
      OBVIOUS
    <3>2. enabled = MigEnabled
      <4>1. enabled = {g \in MigEnabled: g < N + 1}
        BY <1>1, <3>1 DEF Scan, Seen
      <4>2. N \in Nat /\ MigEnabled \subseteq 1..N
        BY HostFacts DEF IInv, MigEnabled
      <4>3. \A g \in MigEnabled: g < N + 1
        BY <4>2
      <4>4. QED BY <4>1, <4>3
    <3>3. Labelled = IF enabled = GPUs THEN GPUs ELSE GPUs \ enabled
      BY <3>2 DEF Labelled
    <3>4. enabled # GPUs <=> Labelled # enabled
      <4>1. enabled \subseteq GPUs /\ GPUs # {}
        BY <1>2
      <4>2. GPUs \ enabled = enabled => GPUs = {}
        BY <4>1
      <4>3. QED BY <3>3, <4>1, <4>2
    <3>5. QED BY <2>1, <3>2, <3>3, <3>4
  <2>4. Of(labels', "gpu") = Merge(Merge(Machine, PlainGPU(m, shared)), Empty)
    <3>1. Of(labels, "gpu") = Machine
      BY <1>1, <1>2, <1>17 DEF GPUInv, GPUSaid
    <3>2. Of(full, "gpu") = PlainGPU(m, shared)
      BY <2>1 DEF About
    <3>3. Of(labels', "gpu") = Merge(Machine, PlainGPU(m, shared))
      BY <1>11, <3>1, <3>2
    <3>4. IsFunction(Of(labels', "gpu"))
      BY OfIsFunction
    <3>5. Merge(Of(labels', "gpu"), Empty) = Of(labels', "gpu")
      BY <3>4, MergeEmpty
    <3>6. QED BY <3>3, <3>5
  <2>5. MigsAdded' => SingleMig' = Empty
    BY <1>15 DEF SingleMig
  <2>6. GPUSaidAs(m, shared)'
    BY <1>12, <2>4, <2>5 DEF GPUSaidAs, SinglePart
  <2>7. pc' # "full"
    BY <1>1
  <2>8. QED BY <1>1, <1>12, <2>2, <2>3, <2>6, <2>7 DEF GPUSaid
<1>18. pc \in Looking
  BY <1>1 DEF Looking
<1>19. QED BY <1>10, <1>14, <1>16, <1>17 DEF NodeInv, GPUInv

-----------------------------------------------------------------------------
(* What the strategies add.                                                *)

(* The labels of the GPU resource before a strategy adds to them. *)
LEMMA SingleAdded ==
  ASSUME IInv, NodeInv, NEW more, NEW part, About(more, "gpu", part), Add(more),
         pc \in {"mig", "empty", "list"}, conf.strategy = "single",
         \/ part = Empty
         \/ \E g \in ModelsAmong(GPUs): part = InvalidMig(g)
         \/ \E q \in Profiles, g \in ModelsAmong(GPUs), n \in 1..(N * MaxMigs):
              part = MigDevices("gpu", q, g, n),
         quiet => part = SingleMig
  PROVE  NodeInv' /\ (GPUInv => GPUInv')
<1>1. /\ labels' = Merge(labels, more) /\ pc' = "vgpu"
      /\ UNCHANGED <<host, hw, conf, manager, stamp, quiet>>
  BY DEF Add, run
<1>2. /\ ~Unlabelled /\ pc \in Begun /\ pc' \in Begun /\ pc # "done" /\ pc' # "done"
      /\ pc # "full" /\ pc' # "full" /\ ~MigsAdded /\ MigsAdded' /\ pc' \notin Looking
  BY <1>1 DEF NodeInv, Looking, Begun, MigsAdded
<1>3. NodeSaid /\ ProfilesSaid
  BY <1>2 DEF NodeInv
<1>4. IsLabels(more) /\ Of(more, "gpu") = part /\ \A r: r # "gpu" => Of(more, r) = Empty
  BY DEF About
<1>5. /\ GroupsSaid' /\ ~Unlabelled'
      /\ \A r: Of(labels', r) = Merge(Of(labels, r), Of(more, r))
  <2>1. \A r: r \notin Resources \cup {"cuda", "mig"} => Of(more, r) = Empty
    BY <1>4, Names
  <2>2. QED BY <1>1, <1>2, <1>4, <2>1, GroupsAdded
<1>6. /\ Of(labels', "gpu") = Merge(Of(labels, "gpu"), part)
      /\ \A r: r # "gpu" => Of(labels', r) = Of(labels, r)
  <2>1. \A r: Merge(Of(labels, r), Empty) = Of(labels, r)
    BY OfIsFunction, MergeEmpty
  <2>2. QED BY <1>4, <1>5, <2>1
<1>7. /\ UNCHANGED <<N, GPUs, Machine, Flags, Versions>>
      /\ \A S: ModelsAmong(S)' = ModelsAmong(S)
      /\ \A m, s: PlainGPU(m, s)' = PlainGPU(m, s)
      /\ \A res, q, m, n: MigDevices(res, q, m, n)' = MigDevices(res, q, m, n)
      /\ UNCHANGED <<MigEnabled, Labelled, SingleMig>>
  BY <1>1, RunKept, NodeKept
<1>8. NodeSaid'
  BY <1>1, <1>2, <1>3, <1>6, <1>7 DEF NodeSaid
<1>9. ProfilesSaid'
  <2>1. \A q \in Profiles: Of(labels', q) = Empty
    BY <1>2, <1>3, <1>6, Names DEF ProfilesSaid
  <2>2. conf'.strategy # "mixed"
    BY <1>1
  <2>3. QED BY <2>1, <2>2 DEF ProfilesSaid
<1>10. ASSUME GPUInv PROVE GPUSaid'
  <2>1. PICK m \in ModelsAmong(GPUs), shared \in BOOLEAN:
           /\ quiet => m \in ModelsAmong(Labelled) /\ (shared <=> Labelled # MigEnabled)
           /\ GPUSaidAs(m, shared)
    BY <1>2, <1>10 DEF GPUInv, GPUSaid
  <2>2. Of(labels', "gpu") = Merge(Merge(Machine, PlainGPU(m, shared)), part)
    <3> DEFINE base == Merge(Machine, PlainGPU(m, shared))
    <3>1. Of(labels, "gpu") = Merge(base, Empty)
      BY <1>2, <2>1 DEF GPUSaidAs, SinglePart
    <3>2. IsFunction(base)
      BY DEF Merge, IsFunction
    <3> HIDE DEF base
    <3>3. Of(labels, "gpu") = base
      BY <3>1, <3>2, MergeEmpty
    <3>4. QED BY <1>6, <3>3 DEF base
  <2>3. GPUSaidAs(m, shared)'
    <3> DEFINE Parts == {Empty} \cup {InvalidMig(g): g \in ModelsAmong(GPUs)}
                   \cup {MigDevices("gpu", q, g, n): q \in Profiles, g \in ModelsAmong(GPUs),
                                                 n \in 1..(N * MaxMigs)}
    <3>1. part \in Parts /\ Parts' = Parts
      BY <1>7
    <3>2. SinglePart(part)'
      BY <1>1, <1>2, <1>7 DEF SinglePart
    <3>3. quiet' /\ MigsAdded' => part = SingleMig'
      BY <1>1, <1>7
    <3>4. Of(labels', "gpu") = Merge(Merge(Machine', PlainGPU(m, shared)'), part)
      BY <1>7, <2>2
    <3> HIDE DEF Parts
    <3>5. part \in Parts'
      BY <3>1
    <3>6. QED BY <3>2, <3>3, <3>4, <3>5 DEF GPUSaidAs, Parts
  <2>4. QED BY <1>1, <1>2, <1>7, <2>1, <2>3 DEF GPUSaid
<1>11. QED BY <1>2, <1>5, <1>8, <1>9, <1>10 DEF NodeInv, GPUInv

(* The strategy has seen all GPUs. *)
LEMMA AtEnd ==
  ASSUME IInv, Scan, pc = "mig", at = N + 1, quiet
  PROVE  enabled = MigEnabled
<1>1. enabled = {g \in MigEnabled: g < N + 1}
  BY DEF Scan, Seen
<1>2. N \in Nat /\ MigEnabled \subseteq 1..N
  BY HostFacts DEF IInv, MigEnabled
<1>3. \A g \in MigEnabled: g < N + 1
  BY <1>2
<1>4. QED BY <1>1, <1>3

(* Nothing is added if no GPU has MIG enabled. *)
LEMMA ChooseStrategySaid ==
  ASSUME IInv, Scan, NodeInv, ChooseStrategy
  PROVE  NodeInv' /\ (GPUInv => GPUInv')
<1>1. CASE conf.strategy = "single" /\ enabled = {} /\ Add(Empty)
  <2>1. pc = "mig" /\ at = N + 1
    BY DEF ChooseStrategy
  <2>2. quiet => Empty = SingleMig
    BY <1>1, <2>1, AtEnd DEF SingleMig
  <2>3. About(Empty, "gpu", Empty)
    BY AboutEmpty
  <2>4. QED BY <1>1, <2>1, <2>2, <2>3, SingleAdded
<1>2. CASE ~(conf.strategy = "single" /\ enabled = {} /\ Add(Empty))
  <2>1. /\ pc = "mig" /\ pc' \in {"empty", "list"}
        /\ UNCHANGED <<host, hw, conf, manager, stamp, labels, quiet>>
    BY <1>2 DEF ChooseStrategy, run
  <2>2. SameStage
    BY <2>1 DEF SameStage, Begun, Looking
  <2>3. QED BY <2>1, <2>2, LabelsKept
<1>3. QED BY <1>1, <1>2

(* The marker of an invalid configuration, over the labels of a full GPU. *)
LEMMA InvalidSaid ==
  ASSUME IInv, NodeInv, Invalid,
         pc \in {"empty", "list"}, conf.strategy = "single", enabled # {},
         quiet => enabled = MigEnabled /\ ~Regular
  PROVE  NodeInv' /\ (GPUInv => GPUInv')
<1> DEFINE g == Min(enabled)
<1>1. g \in enabled
  <2>1. enabled \in SUBSET Nat
    BY ScanFacts
  <2>2. QED BY <2>1, MinOf
<1>2. g \in GPUs /\ manager = "nvml"
  BY <1>1, ScanFacts
<1>3. Add(InvalidLabels(Device(g)))
  BY DEF Invalid
<1>4. quiet => InvalidMig(ModelOf(g)) = SingleMig
  BY <1>1 DEF SingleMig
<1>5. ModelOf(g) \in ModelsAmong(GPUs)
  BY <1>2 DEF ModelsAmong
<1> HIDE DEF g
<1>6. About(InvalidLabels(Device(g)), "gpu", InvalidMig(ModelOf(g)))
  BY <1>2, InvalidValues DEF IInv
<1>7. QED BY <1>3, <1>4, <1>5, <1>6, SingleAdded

(* A GPU without MIG devices, or without MIG, makes "single" invalid. *)
LEMMA CheckEmptySaid ==
  ASSUME IInv, Scan, NodeInv, CheckEmpty
  PROVE  NodeInv' /\ (GPUInv => GPUInv')
<1>1. pc = "empty" /\ conf.strategy = "single" /\ enabled # {}
  BY DEF CheckEmpty, Scan, Chosen
<1>2. CASE Invalid /\ (IF at <= N THEN at \in enabled /\ Device(at).GetMigDevices = NoMigs
                                  ELSE enabled # GPUs)
  <2>1. quiet => enabled = MigEnabled
    BY <1>1 DEF Scan, Seen
  <2>2. quiet => ~Regular
    <3>1. CASE at <= N
      <4>1. at \in enabled /\ hw[at].migs = NoMigs
      BY <1>2, <3>1, MigsSaid
      <4>2. at \in GPUs
      BY <4>1, ScanFacts
      <4>3. QED BY <4>1, <4>2 DEF Regular
    <3>2. CASE ~(at <= N)
      BY <1>2, <2>1, <3>2 DEF Regular
    <3>3. QED BY <3>1, <3>2
  <2>3. QED BY <1>1, <1>2, <2>1, <2>2, InvalidSaid
<1>3. CASE ~(Invalid /\ (IF at <= N THEN at \in enabled /\ Device(at).GetMigDevices = NoMigs
                                    ELSE enabled # GPUs))
  <2>1. /\ pc' \in {"empty", "list"}
        /\ UNCHANGED <<host, hw, conf, manager, stamp, labels, quiet>>
    BY <1>1, <1>3 DEF CheckEmpty, run
  <2>2. SameStage
    BY <1>1, <2>1 DEF SameStage, Begun, Looking
  <2>3. QED BY <2>1, <2>2, LabelsKept
<1>4. QED BY <1>2, <1>3

-----------------------------------------------------------------------------
(* The MIG devices that were listed, when all GPUs have been asked. *)
LEMMA ListedFacts ==
  ASSUME IInv, Scan, ~Unlabelled, pc = "list", at = N + 1, NEW q \in Profiles
  PROVE  /\ first[q] \in GPUs /\ found[q] \in Nat
         /\ found[q] > 0 => found[q] \in 1..(N * MaxMigs)
         /\ quiet => /\ found[q] = Total(q)
                     /\ found[q] > 0 => Owner(q) = first[q]
<1>1. N \in Nat /\ GPUs = 1..N /\ MaxMigs \in Nat /\ N * MaxMigs \in Nat
  <2>1. N \in Nat /\ MaxMigs \in Nat /\ GPUs = 1..N
    BY ScanFacts
  <2>2. QED BY <2>1
<1>2. first[q] \in GPUs
  <2>1. N # 0
    BY <1>1 DEF Unlabelled
  <2>2. 1 \in GPUs
    BY <1>1, <2>1
  <2>3. QED BY <2>2, ScanFacts
<1>3. found[q] \in 0..(N * MaxMigs)
  BY DEF IInv, TypeOK
<1>4. ASSUME quiet PROVE found[q] = Total(q)
  <2>1. found[q] = Cardinality(Before(q, at))
    BY <1>4, SeenAs DEF Scan
  <2>2. QED BY <2>1, DevicesBefore DEF Total, IInv
<1>5. ASSUME quiet, found[q] > 0 PROVE Owner(q) = first[q]
  <2>1. /\ hw[first[q]].migs[q] > 0
        /\ \A h \in 1..(first[q] - 1): hw[h].migs[q] = 0
    BY <1>5 DEF Scan, Seen
  <2>2. \A g \in GPUs: hw[g].migs[q] > 0 /\ (\A h \in 1..(g - 1): hw[h].migs[q] = 0)
                         => g = first[q]
    <3>1. SUFFICES ASSUME NEW g \in GPUs, hw[g].migs[q] > 0,
                          \A h \in 1..(g - 1): hw[h].migs[q] = 0
                   PROVE  g = first[q]
      OBVIOUS
    <3>2. g \in Nat \ {0} /\ first[q] \in Nat \ {0}
      BY <1>1, <1>2
    <3>3. ~(g < first[q])
      BY <2>1, <3>1, <3>2
    <3>4. ~(first[q] < g)
      BY <2>1, <3>1, <3>2
    <3>5. QED BY <3>2, <3>3, <3>4
  <2>3. QED BY <1>2, <2>1, <2>2 DEF Owner
<1>6. QED BY <1>1, <1>2, <1>3, <1>4, <1>5

(* The labels of a profile by its first MIG device. *)
LEMMA ListedLabels ==
  ASSUME IInv, Scan, ~Unlabelled, pc = "list", at = N + 1, NEW q \in Profiles, found[q] > 0,
         NEW res \in Resources
  PROVE  /\ About(MIGResourceLabels(conf, res, Listed(q), found[q]), res,
                  MigDevices(res, q, ModelOf(first[q]), found[q]))
         /\ ModelOf(first[q]) \in ModelsAmong(GPUs)
         /\ quiet => AllOf(res, q) = MigDevices(res, q, ModelOf(first[q]), found[q])
<1>1. first[q] \in GPUs /\ found[q] \in Nat \ {0}
  BY ListedFacts
<1>2. manager # "null"
  BY DEF Unlabelled
<1>3. About(MIGResourceLabels(conf, res, NvmlMigDevice(Device(first[q]), q), found[q]), res,
            MigDevices(res, q, ModelOf(first[q]), found[q]))
  BY <1>1, <1>2, MigValues DEF IInv
<1>4. quiet => AllOf(res, q) = MigDevices(res, q, ModelOf(first[q]), found[q])
  BY ListedFacts DEF AllOf
<1>5. QED BY <1>1, <1>3, <1>4 DEF Listed, ModelsAmong

(* "single" with devices of one profile. *)
LEMMA OneProfileSaid ==
  ASSUME IInv, Scan, NodeInv, pc = "list", at = N + 1, conf.strategy = "single",
         NEW q \in Profiles, {r \in Profiles: found[r] > 0} = {q},
         Add(MIGResourceLabels(conf, "gpu", Listed(q), found[q]))
  PROVE  NodeInv' /\ (GPUInv => GPUInv')
<1> DEFINE part == MigDevices("gpu", q, ModelOf(first[q]), found[q])
<1> DEFINE more == MIGResourceLabels(conf, "gpu", Listed(q), found[q])
<1>1. ~Unlabelled /\ found[q] > 0
  BY DEF NodeInv, Looking
<1>2. /\ About(more, "gpu", part)
      /\ ModelOf(first[q]) \in ModelsAmong(GPUs)
      /\ quiet => AllOf("gpu", q) = part
  BY <1>1, ListedLabels, Names
<1>3. found[q] \in 1..(N * MaxMigs)
  BY <1>1, ListedFacts
<1>4. quiet => part = SingleMig
  <2>1. SUFFICES ASSUME quiet PROVE part = SingleMig
    OBVIOUS
  <2>2. MigEnabled = GPUs /\ \A g \in GPUs: hw[g].migs # NoMigs
    BY <2>1 DEF Scan, Seen
  <2>3. Present = {q}
    <3>1. \A r \in Profiles: found[r] = Total(r)
      BY <1>1, <2>1, ListedFacts
    <3>2. QED BY <3>1 DEF Present
  <2>4. Cardinality(Present) = 1
    BY <2>3, FS_Singleton
  <2>5. Regular
    BY <2>2, <2>4 DEF Regular
  <2>6. MigEnabled # {}
    BY <1>1, <2>2 DEF Unlabelled
  <2>7. (CHOOSE r \in Present: TRUE) = q
    BY <2>3
  <2>8. SingleMig = AllOf("gpu", CHOOSE r \in Present: TRUE)
    BY <2>5, <2>6 DEF SingleMig
  <2>9. QED BY <1>2, <2>1, <2>7, <2>8
<1>5. \E r \in Profiles, g \in ModelsAmong(GPUs), n \in 1..(N * MaxMigs):
        part = MigDevices("gpu", r, g, n)
  BY <1>2, <1>3
<1>6. Add(more)
  OBVIOUS
<1> HIDE DEF part, more
<1>7. QED BY <1>2, <1>4, <1>5, <1>6, SingleAdded

-----------------------------------------------------------------------------
(* "mixed": every profile on a resource of its own. *)
LEMMA MixedSaid ==
  ASSUME IInv, Scan, NodeInv, pc = "list", at = N + 1, conf.strategy = "mixed",
         NEW order \in SetToSeqs({q \in Profiles: found[q] > 0}), NEW lists,
         lists = [i \in DOMAIN order |-> MIGResourceLabels(conf, order[i], Listed(order[i]),
                                                         found[order[i]])],
         Add(MergeAll(lists))
  PROVE  NodeInv' /\ (GPUInv => GPUInv')
<1> DEFINE present == {q \in Profiles: found[q] > 0}
<1> DEFINE n == Cardinality(present)
<1> DEFINE values == [i \in 1..n |-> MigDevices(order[i], order[i], ModelOf(first[order[i]]),
                                                found[order[i]])]
<1> DEFINE more == MergeAll(lists)
<1>1. /\ labels' = Merge(labels, more) /\ pc' = "vgpu"
      /\ UNCHANGED <<host, hw, conf, manager, stamp, quiet>>
  BY DEF Add, run
<1>2. /\ ~Unlabelled /\ pc \in Begun /\ pc' \in Begun /\ pc # "done" /\ pc' # "done"
      /\ pc # "full" /\ pc' # "full" /\ ~MigsAdded /\ MigsAdded' /\ pc' \notin Looking
  BY <1>1 DEF NodeInv, Looking, Begun, MigsAdded
<1>3. /\ n \in Nat /\ order \in [1..n -> present]
      /\ \A i, j \in 1..n: order[i] = order[j] => i = j
      /\ \A q \in present: \E i \in 1..n: order[i] = q
  <2>1. IsFiniteSet(present)
    <3>1. present \in SUBSET Profiles /\ IsFiniteSet(Profiles)
      BY NamesAssumption
    <3>2. QED BY <3>1, FS_Subset
  <2> HIDE DEF present
  <2>2. order \in SetToSeqs(present)
    BY DEF present
  <2>3. QED BY <2>1, <2>2, Enumerated
<1>4. DOMAIN lists = 1..n
  BY <1>3
<1>5. \A i \in 1..n: About(lists[i], order[i], values[i])
  <2>1. SUFFICES ASSUME NEW i \in 1..n PROVE About(lists[i], order[i], values[i])
    OBVIOUS
  <2>2. order[i] \in Profiles /\ found[order[i]] > 0 /\ order[i] \in Resources
    BY <1>3, Names
  <2>3. lists[i] = MIGResourceLabels(conf, order[i], Listed(order[i]), found[order[i]])
    BY <1>3
  <2>4. values[i] = MigDevices(order[i], order[i], ModelOf(first[order[i]]), found[order[i]])
    OBVIOUS
  <2> HIDE DEF values
  <2>5. QED BY <1>2, <2>2, <2>3, <2>4, ListedLabels
<1>6. \A i \in 1..n: LET q == order[i] IN
        /\ q \in Profiles /\ found[q] > 0
        /\ values[i] = MigDevices(q, q, ModelOf(first[q]), found[q])
  BY <1>3
<1>7. /\ IsLabels(more)
      /\ \A i \in 1..n: Of(more, order[i]) = values[i]
      /\ \A r: (\A i \in 1..n: order[i] # r) => Of(more, r) = Empty
  <2>1. n \in Nat
    BY <1>3
  <2>2. DOMAIN lists = 1..n
    BY <1>4
  <2>3. \A i, j \in 1..n: order[i] = order[j] => i = j
    BY <1>3
  <2>4. \A i \in 1..n: About(lists[i], order[i], values[i])
    BY <1>5
  <2> HIDE DEF n, values, present
  <2>5. /\ IsLabels(MergeAll(lists))
        /\ \A i \in 1..n: Of(MergeAll(lists), order[i]) = values[i]
        /\ \A r: (\A i \in 1..n: order[i] # r) => Of(MergeAll(lists), r) = Empty
    BY ONLY <2>1, <2>2, <2>3, <2>4, MergeAllApart
  <2>6. QED BY <2>5
<1>8. \A q \in Profiles:
        Of(more, q) = IF found[q] > 0 THEN MigDevices(q, q, ModelOf(first[q]), found[q]) ELSE Empty
  <2>1. SUFFICES ASSUME NEW q \in Profiles
                 PROVE  Of(more, q) = IF found[q] > 0
                                      THEN MigDevices(q, q, ModelOf(first[q]), found[q]) ELSE Empty
    OBVIOUS
  <2>2. CASE found[q] > 0
    <3>1. PICK i \in 1..n: order[i] = q
      BY <1>3, <2>2
    <3>2. Of(more, q) = values[i] /\ values[i] = MigDevices(q, q, ModelOf(first[q]), found[q])
      BY <1>6, <1>7, <3>1
    <3>3. QED BY <2>2, <3>2
  <2>3. CASE ~(found[q] > 0)
    <3>1. \A i \in 1..n: order[i] # q
      BY <1>6, <2>3
    <3>2. QED BY <1>7, <2>3, <3>1
  <2>4. QED BY <2>2, <2>3
<1>9. \A r: r \notin Profiles => Of(more, r) = Empty
  BY <1>6, <1>7
<1> HIDE DEF present, n, values, more
<1>10. /\ GroupsSaid' /\ ~Unlabelled'
       /\ \A r: Of(labels', r) = Merge(Of(labels, r), Of(more, r))
  <2>1. \A r: r \notin Resources \cup {"cuda", "mig"} => Of(more, r) = Empty
    BY <1>9, Names
  <2>2. QED BY <1>1, <1>2, <1>7, <2>1, GroupsAdded
<1>11. \A r: r \notin Profiles => Of(labels', r) = Of(labels, r)
  <2>1. \A r: Merge(Of(labels, r), Empty) = Of(labels, r)
    BY OfIsFunction, MergeEmpty
  <2>2. QED BY <1>9, <1>10, <2>1
<1>12. /\ Of(labels', "gpu") = Of(labels, "gpu")
       /\ Of(labels', "cuda") = Of(labels, "cuda")
       /\ Of(labels', "mig") = Of(labels, "mig")
  BY <1>11, Names
<1>13. /\ UNCHANGED <<N, GPUs, Machine, Flags, Versions>>
       /\ \A S: ModelsAmong(S)' = ModelsAmong(S)
       /\ \A m, s: PlainGPU(m, s)' = PlainGPU(m, s)
       /\ \A res, q, m, k: MigDevices(res, q, m, k)' = MigDevices(res, q, m, k)
       /\ UNCHANGED <<MigEnabled, Labelled, Present, SingleMig>>
       /\ \A res, q: AllOf(res, q)' = AllOf(res, q)
  BY <1>1, RunKept, NodeKept
<1>14. NodeSaid /\ ProfilesSaid
  BY <1>2 DEF NodeInv
<1>15. NodeSaid'
  BY <1>1, <1>2, <1>12, <1>13, <1>14 DEF NodeSaid
<1>16. ProfilesSaid'
  <2>1. SUFFICES ASSUME NEW q \in Profiles
                 PROVE  /\ \/ Of(labels', q) = Empty
                           \/ /\ MigsAdded' /\ conf'.strategy = "mixed"
                              /\ \E m \in ModelsAmong(GPUs)', k \in 1..(N' * MaxMigs):
                                   Of(labels', q) = MigDevices(q, q, m, k)'
                        /\ quiet' /\ MigsAdded' =>
                             Of(labels', q) = IF conf'.strategy = "mixed" /\ q \in Present'
                                              THEN AllOf(q, q)' ELSE Empty
    BY DEF ProfilesSaid
  <2>2. Of(labels', q) = Of(more, q)
    <3>1. Of(labels, q) = Empty
      BY <1>2, <1>14 DEF ProfilesSaid
    <3>2. Merge(Empty, Of(more, q)) = Of(more, q)
      BY OfIsFunction, MergeEmpty
    <3>3. QED BY <1>10, <3>1, <3>2
  <2>3. quiet => found[q] = Total(q)
    BY <1>2, ListedFacts
  <2>4. quiet => (q \in Present <=> found[q] > 0)
    BY <2>3 DEF Present
  <2>5. CASE found[q] > 0
    <3>1. Of(labels', q) = MigDevices(q, q, ModelOf(first[q]), found[q])
      BY <1>8, <2>2, <2>5
    <3>2. /\ ModelOf(first[q]) \in ModelsAmong(GPUs)
          /\ quiet => AllOf(q, q) = MigDevices(q, q, ModelOf(first[q]), found[q])
      BY <1>2, <2>5, ListedLabels, Names
    <3>3. found[q] \in 1..(N * MaxMigs)
      BY <1>2, <2>5, ListedFacts
    <3>4. QED BY <1>1, <1>2, <1>13, <2>4, <2>5, <3>1, <3>2, <3>3
  <2>6. CASE ~(found[q] > 0)
    <3>1. Of(labels', q) = Empty
      BY <1>8, <2>2, <2>6
    <3>2. QED BY <1>1, <1>13, <2>4, <2>6, <3>1
  <2>7. QED BY <2>5, <2>6
<1>17. ASSUME GPUInv PROVE GPUSaid'
  <2>1. PICK m \in ModelsAmong(GPUs), shared \in BOOLEAN:
          /\ quiet => m \in ModelsAmong(Labelled) /\ (shared <=> Labelled # MigEnabled)
          /\ GPUSaidAs(m, shared)
    BY <1>2, <1>17 DEF GPUInv, GPUSaid
  <2>2. Of(labels', "gpu") = Merge(Merge(Machine, PlainGPU(m, shared)), Empty)
    BY <1>2, <1>12, <2>1 DEF GPUSaidAs, SinglePart
  <2>3. SingleMig = Empty
    BY DEF SingleMig
  <2>4. GPUSaidAs(m, shared)'
    BY <1>13, <2>2, <2>3 DEF GPUSaidAs, SinglePart
  <2>5. QED BY <1>1, <1>2, <1>13, <2>1, <2>4 DEF GPUSaid
<1>18. QED BY <1>2, <1>10, <1>15, <1>16, <1>17 DEF NodeInv, GPUInv

(* The labels of the MIG devices are added, or the marker. *)
LEMMA LabelMigsSaid ==
  ASSUME IInv, Scan, NodeInv, LabelMigs
  PROVE  NodeInv' /\ (GPUInv => GPUInv')
<1> DEFINE present == {q \in Profiles: found[q] > 0}
<1>1. pc = "list" /\ at = N + 1 /\ ~Unlabelled
  BY DEF LabelMigs, NodeInv, Looking
<1>2. CASE conf.strategy = "single" /\ Cardinality(present) # 1 /\ Invalid
  <2>1. enabled # {}
    BY <1>1, <1>2 DEF Scan, Chosen
  <2>2. quiet => enabled = MigEnabled
    BY <1>1 DEF Scan, Seen
  <2>3. quiet => present = Present
    <3>1. quiet => \A q \in Profiles: found[q] = Total(q)
      BY <1>1, ListedFacts
    <3>2. QED BY <3>1 DEF Present
  <2>4. quiet => ~Regular
    BY <1>2, <2>3 DEF Regular
  <2>5. QED BY <1>1, <1>2, <2>1, <2>2, <2>4, InvalidSaid
<1>3. CASE conf.strategy = "single" /\ \E q \in present:
             present = {q} /\ Add(MIGResourceLabels(conf, "gpu", Listed(q), found[q]))
  BY <1>1, <1>3, OneProfileSaid
<1>4. CASE conf.strategy = "mixed" /\ \E order \in SetToSeqs(present):
             Add(MergeAll([i \in DOMAIN order |->
               MIGResourceLabels(conf, order[i], Listed(order[i]), found[order[i]])]))
  <2>1. PICK order \in SetToSeqs(present):
          Add(MergeAll([i \in DOMAIN order |->
            MIGResourceLabels(conf, order[i], Listed(order[i]), found[order[i]])]))
    BY <1>4
  <2> DEFINE lists == [i \in DOMAIN order |->
            MIGResourceLabels(conf, order[i], Listed(order[i]), found[order[i]])]
  <2>2. lists = [i \in DOMAIN order |->
            MIGResourceLabels(conf, order[i], Listed(order[i]), found[order[i]])]
    OBVIOUS
  <2>3. Add(MergeAll(lists))
    BY <2>1
  <2> HIDE DEF lists
  <2>4. QED BY <1>1, <1>4, <2>2, <2>3, MixedSaid
<1>5. QED BY <1>2, <1>3, <1>4 DEF LabelMigs

-----------------------------------------------------------------------------
(* NewNVMLLabeler, with or without devices. *)
LEMMA BasicLabelsSaid ==
  ASSUME IInv, NodeInv, BasicLabels, ~Abort
  PROVE  NodeInv' /\ (GPUInv => GPUInv')
<1>1. pc = "basic" /\ UNCHANGED <<host, hw, conf, manager, stamp, quiet>>
  BY DEF BasicLabels, Goto, run
<1>2. CASE ~Unlabelled
  <2>1. Devices # <<>>
    BY <1>2, DevicesThere DEF IInv
  <2>2. /\ WellFormed(GetDriverVersion(manager, host)) /\ pc' = "full"
        /\ labels' = Merge(Merge(MachineTypeLabels, VersionLabels), CapableLabels)
    BY <2>1 DEF BasicLabels
  <2>3. QED BY <1>1, <1>2, <2>2, BasicSaid
<1>3. CASE Unlabelled
  <2>1. Devices = <<>>
    BY <1>3, DevicesThere DEF IInv
  <2>2. pc' = "vgpu" /\ UNCHANGED labels
    BY <2>1 DEF BasicLabels, Goto
  <2>3. UNCHANGED <<TimeSaid, VGPUSaid>> /\ Unlabelled'
    BY <1>1, <1>3, RunKept
  <2>4. GroupsSaid'
    BY <1>1, <1>3, <2>2, <2>3 DEF NodeInv, GroupsSaid
  <2>5. pc' \notin Looking
    BY <2>2 DEF Looking
  <2>6. QED BY <2>3, <2>4, <2>5 DEF NodeInv, GPUInv
<1>4. QED BY <1>2, <1>3

(* The library is initialised, or replaced; nothing has been said yet. *)
LEMMA InitLibrarySaid ==
  ASSUME NodeInv, InitLibrary, ~Abort
  PROVE  NodeInv' /\ (GPUInv => GPUInv')
<1>1. pc = "init" /\ pc' = "basic" /\ UNCHANGED labels
  BY DEF InitLibrary, Goto
<1>2. pc \notin Begun /\ pc' \notin Begun /\ pc' \notin Looking /\ pc # "done" /\ pc' # "done"
  BY <1>1 DEF Begun, Looking
<1>3. GroupsSaid'
  BY <1>1, <1>2 DEF NodeInv, GroupsSaid
<1>4. QED BY <1>2, <1>3 DEF NodeInv, GPUInv

(* Every step keeps what the labels say, with one hypothesis: which model's *)
(* labels remain on the GPU resource depends on the random order of maps, and *)
(* only if the models of a host are alike do they overwrite one another whole. *)
LEMMA StepLabels ==
  IInv /\ Scan /\ NodeInv /\ [Next]_vars => NodeInv' /\ (ModelsAlike /\ GPUInv => GPUInv')
<1> SUFFICES ASSUME IInv, Scan, NodeInv, [Next]_vars
             PROVE  NodeInv' /\ (ModelsAlike /\ GPUInv => GPUInv')
  OBVIOUS
<1>1. ASSUME NEW g \in GPUs, Reconfigure(g) PROVE NodeInv' /\ (GPUInv => GPUInv')
  <2>1. UNCHANGED <<host, conf, manager, stamp, labels, pc>> /\ quiet' = FALSE
    BY <1>1 DEF Reconfigure, run
  <2>2. SameStage
    BY <2>1 DEF SameStage
  <2>3. QED BY <2>1, <2>2, LabelsKept
<1>2. CASE Tick \/ Classify \/ ListMigs \/ UNCHANGED vars
  <2>1. UNCHANGED <<host, hw, conf, manager, stamp, labels, pc, quiet>>
    BY <1>2 DEF Tick, Classify, ListMigs, vars, run
  <2>2. SameStage
    BY <2>1 DEF SameStage
  <2>3. QED BY <2>1, <2>2, LabelsKept
<1>3. CASE Load \/ Timer
  BY <1>3, LabelsCleared DEF Load, Timer, NewPass
<1>4. CASE Abort
  BY <1>4, LabelsCleared DEF Abort
<1>5. CASE Fail
  BY <1>4, <1>5 DEF Fail
<1>6. CASE InitLibrary
  BY <1>4, <1>6, InitLibrarySaid
<1>7. CASE BasicLabels
  BY <1>4, <1>7, BasicLabelsSaid
<1>8. CASE LabelVGPUs
  BY <1>4, <1>8, VGPUsSaid
<1>9. CASE LabelFullGPUs
  BY <1>9, FullGPUsSaid
<1>10. CASE ChooseStrategy
  BY <1>10, ChooseStrategySaid
<1>11. CASE CheckEmpty
  BY <1>11, CheckEmptySaid
<1>12. CASE LabelMigs
  BY <1>12, LabelMigsSaid
<1>13. QED
  BY <1>1, <1>2, <1>3, <1>5, <1>6, <1>7, <1>8, <1>9, <1>10, <1>11, <1>12 DEF Next

-----------------------------------------------------------------------------
(* The labels remembered of the last pass.                                 *)

(* PlainGPU depends on the truth of its argument only. *)
LEMMA SharingSaid ==
  ASSUME NEW m, NEW s, NEW t, s <=> t
  PROVE  PlainGPU(m, s) = PlainGPU(m, t)
  BY DEF PlainGPU

(* A quiet pass is exact. *)
LEMMA QuietIsExact ==
  ASSUME IInv, NodeInv, GPUInv, pc = "done", quiet
  PROVE  Exact(labels) /\ (~Unlabelled => Of(labels, "cuda") = Versions)
<1>1. pc \in Begun /\ MigsAdded
  BY DEF Begun, MigsAdded
<1>2. GroupsSaid /\ (~Unlabelled => NodeSaid /\ ProfilesSaid /\ GPUSaid)
  BY <1>1 DEF NodeInv, GPUInv
<1>3. ASSUME ~Unlabelled
      PROVE  /\ DOMAIN Of(labels, "cuda") = {"driver", "runtime"}
             /\ Of(labels, "cuda") = Versions
             /\ Of(labels, "mig") = Flags
  <2>1. Of(labels, "cuda") = Versions /\ Of(labels, "mig") = Flags
    BY <1>2, <1>3 DEF NodeSaid
  <2>2. DOMAIN Versions = {"driver", "runtime"}
    BY DEF Versions
  <2>3. QED BY <2>1, <2>2
<1>4. ASSUME ~Unlabelled
      PROVE  \E m \in ModelsAmong(Labelled):
               Of(labels, "gpu") = Merge(Merge(Machine, PlainGPU(m, Labelled # MigEnabled)),
                                         SingleMig)
  <2>1. PICK m \in ModelsAmong(GPUs), shared \in BOOLEAN:
          /\ m \in ModelsAmong(Labelled) /\ (shared <=> Labelled # MigEnabled)
          /\ GPUSaidAs(m, shared)
    BY <1>2, <1>4 DEF GPUSaid
  <2>2. Of(labels, "gpu") = Merge(Merge(Machine, PlainGPU(m, shared)), SingleMig)
    BY <1>1, <2>1 DEF GPUSaidAs
  <2>3. PlainGPU(m, shared) = PlainGPU(m, Labelled # MigEnabled)
    BY <2>1, SharingSaid
  <2>4. QED BY <2>1, <2>2, <2>3
<1>5. ASSUME ~Unlabelled
      PROVE  \A q \in Profiles: Of(labels, q) = IF conf.strategy = "mixed" /\ q \in Present
                                                THEN AllOf(q, q) ELSE Empty
  BY <1>1, <1>2, <1>5 DEF ProfilesSaid
<1>6. QED BY <1>2, <1>3, <1>4, <1>5 DEF Exact, GroupsSaid

(* Labels that are exact stay so while host, hardware and run stay the same. *)
LEMMA ExactKept ==
  ASSUME UNCHANGED <<host, hw, conf, manager, stamp>>, NEW l, Exact(l)
  PROVE  (last' = l) => Exact(last)'
<1>1. /\ UNCHANGED <<N, GPUs, TimeSaid, VGPUSaid, Machine, Flags, Versions>>
      /\ Unlabelled' <=> Unlabelled
      /\ \A S: ModelsAmong(S)' = ModelsAmong(S)
      /\ \A m, s: PlainGPU(m, s)' = PlainGPU(m, s)
  BY RunKept
<1>2. /\ UNCHANGED <<MigEnabled, Labelled, Present, SingleMig>>
      /\ \A res, q: AllOf(res, q)' = AllOf(res, q)
  BY NodeKept
<1>3. QED BY <1>1, <1>2 DEF Exact

(* Steps after which the labels of the last pass, if they are still        *)
(* remembered, are those remembered before or those of the pass.           *)
LEMMA StepLast ==
  IInv /\ NodeInv /\ GPUInv /\ LastInv /\ [Next]_vars => LastInv'
<1> SUFFICES ASSUME IInv, NodeInv, GPUInv, LastInv, [Next]_vars PROVE LastInv'
  OBVIOUS
<1>1. ASSUME UNCHANGED <<host, hw, conf, manager, stamp, quiet, last>> PROVE LastInv'
  <2>1. SUFFICES ASSUME last' # Nothing
                 PROVE  quiet' /\ IsLabels(last') /\ Exact(last)'
                        /\ (~Unlabelled' => Of(last', "cuda") = Versions')
    BY DEF LastInv
  <2>2. last # Nothing /\ quiet /\ IsLabels(last) /\ Exact(last)
        /\ (~Unlabelled => Of(last, "cuda") = Versions)
    BY <1>1, <2>1 DEF LastInv
  <2>3. Exact(last)'
    BY <1>1, <2>2, ExactKept
  <2>4. UNCHANGED Versions /\ (Unlabelled' <=> Unlabelled)
    BY <1>1, RunKept
  <2>5. QED BY <1>1, <2>2, <2>3, <2>4
<1>2. ASSUME last' = Nothing PROVE LastInv'
  BY <1>2 DEF LastInv
<1>3. CASE Timer
  <2>1. /\ pc = "done" /\ quiet' = TRUE
        /\ UNCHANGED <<host, hw, conf, manager, stamp>>
        /\ last' = IF quiet THEN labels ELSE Nothing
    BY <1>3 DEF Timer, NewPass, run
  <2>2. SUFFICES ASSUME quiet, last' = labels PROVE LastInv'
    BY <1>2, <2>1
  <2>3. Exact(labels) /\ (~Unlabelled => Of(labels, "cuda") = Versions)
    BY <2>1, <2>2, QuietIsExact
  <2>4. Exact(last)'
    BY <2>1, <2>2, <2>3, ExactKept
  <2>5. IsLabels(last')
    BY <2>2, NodeParts
  <2>6. UNCHANGED Versions /\ (Unlabelled' <=> Unlabelled)
    BY <2>1, RunKept
  <2>7. QED BY <2>1, <2>2, <2>3, <2>4, <2>5, <2>6 DEF LastInv
<1>4. ASSUME NEW g \in GPUs, Reconfigure(g) PROVE LastInv'
  BY <1>2, <1>4 DEF Reconfigure
<1>5. CASE Load
  BY <1>2, <1>5 DEF Load
<1>6. CASE Abort
  BY <1>2, <1>6 DEF Abort
<1>7. CASE Fail
  BY <1>6, <1>7 DEF Fail
<1>8. CASE InitLibrary
  BY <1>1, <1>2, <1>6, <1>8 DEF InitLibrary, Goto, run
<1>9. CASE BasicLabels
  BY <1>1, <1>6, <1>9 DEF BasicLabels, Goto, run
<1>10. CASE LabelVGPUs
  BY <1>1, <1>6, <1>10 DEF LabelVGPUs, run
<1>11. CASE LabelFullGPUs
  BY <1>1, <1>11 DEF LabelFullGPUs, run
<1>12. CASE Tick \/ Classify \/ ListMigs \/ UNCHANGED vars
  BY <1>1, <1>12 DEF Tick, Classify, ListMigs, vars, run
<1>13. ASSUME NEW more, Add(more) PROVE LastInv'
  BY <1>1, <1>13 DEF Add, run
<1>14. CASE ChooseStrategy
  BY <1>1, <1>13, <1>14 DEF ChooseStrategy, run
<1>15. CASE CheckEmpty
  BY <1>1, <1>13, <1>15 DEF CheckEmpty, Invalid, run
<1>16. CASE LabelMigs
  BY <1>13, <1>16 DEF LabelMigs, Invalid
<1>17. QED
  BY <1>3, <1>4, <1>5, <1>7, <1>8, <1>9, <1>10, <1>11, <1>12, <1>14, <1>15, <1>16 DEF Next

-----------------------------------------------------------------------------
(* Before the first run nothing is said. *)
LEMMA InitPass == Init => Scan /\ NodeInv /\ GPUInv /\ LastInv
<1> SUFFICES ASSUME Init PROVE Scan /\ NodeInv /\ GPUInv /\ LastInv
  OBVIOUS
<1>1. pc = "off" /\ labels = Empty /\ last = Nothing
  BY DEF Init
<1>2. Scan
  BY <1>1 DEF Scan, Chosen, Seen
<1>3. IsLabels(Empty) /\ \A r: Of(Empty, r) = Empty
  BY EmptyOf
<1>4. {key[1]: key \in DOMAIN Empty} \subseteq (Resources \cup Groups)
  BY <1>3, KnownResources
<1>5. GroupsSaid
  BY <1>1, <1>3, <1>4 DEF GroupsSaid
<1>6. pc \notin Looking /\ pc \notin Begun
  BY <1>1 DEF Looking, Begun
<1>7. NodeInv /\ GPUInv
  BY <1>5, <1>6 DEF NodeInv, GPUInv
<1>8. QED BY <1>1, <1>2, <1>7 DEF LastInv

-----------------------------------------------------------------------------
(* The invariant, and what follows from it.                                *)

(* Whatever the models of the GPUs are, a pass sees of the GPUs what Seen says, *)
(* and labels the groups other than the GPU resource as NodeInv says.      *)
THEOREM NodeInvariance == Spec => [](IInv /\ Scan /\ NodeInv)
<1>1. Init => IInv /\ Scan /\ NodeInv
  BY InitIInv, InitPass
<1>2. IInv /\ Scan /\ NodeInv /\ [Next]_vars => (IInv /\ Scan /\ NodeInv)'
  BY StepIInv, StepScan, StepLabels
<1>3. QED BY <1>1, <1>2, PTL DEF Spec

(* On hosts whose GPU models are alike, the whole invariant of a pass holds: *)
(* whatever is reconfigured between two queries of run, NewNVMLLabeler and *)
(* NewResourceLabeler, the labels of the pass remain those of one model, and *)
(* over them those of one outcome of the MIG strategy.                     *)
THEOREM PassInvariance == ASSUME ModelsAlike PROVE Spec => []PassInv
<1>1. Init => IInv /\ PassInv
  BY InitIInv, InitPass DEF PassInv, Scan
<1>2. IInv /\ PassInv /\ [Next]_vars => (IInv /\ PassInv)'
  BY StepIInv, StepScan, StepLabels, StepLast DEF PassInv, Scan
<1>3. QED BY <1>1, <1>2, PTL DEF Spec

(* A pass during which nobody reconfigures the node produces exactly the labels *)
(* of the node: for any hosts whose GPU models are alike, any configurations, *)
(* any order in which Go ranges over the maps, and whatever was reconfigured *)
(* before the pass began.                                                  *)
THEOREM QuietPassesAreExact == ASSUME ModelsAlike PROVE Spec => []QuietPassExact
<1>1. IInv /\ PassInv => QuietPassExact
  BY QuietIsExact DEF PassInv, QuietPassExact
<1>2. QED BY Invariance, PassInvariance, <1>1, PTL

(* Two or three parts of a version, padded to three. *)
LEMMA PartsOf ==
  ASSUME NEW n, n = 2 \/ n = 3, NEW h, NEW third, n = 2 => third = NoPart, n = 3 => third = h[3]
  PROVE  \A i \in 1..3: <<h[1], h[2], third>>[i] = IF i <= n THEN h[i] ELSE NoPart
<1> DEFINE d == <<h[1], h[2], third>>
<1>1. d[1] = h[1] /\ d[2] = h[2] /\ d[3] = third
  OBVIOUS
<1> HIDE DEF d
<1>2. n = 2 => \A i \in 1..3: d[i] = IF i <= n THEN h[i] ELSE NoPart
  BY <1>1
<1>3. n = 3 => \A i \in 1..3: d[i] = IF i <= n THEN h[i] ELSE NoPart
  BY <1>1
<1>4. QED BY <1>2, <1>3 DEF d

(* The labels of a pass that has any of cuda are Versions. *)
LEMMA VersionsSaid ==
  ASSUME IInv, NodeInv
  PROVE  VersionsExact
<1>1. SUFFICES ASSUME pc = "done", <<"cuda", "runtime">> \in DOMAIN labels
               PROVE  LET driver == labels[<<"cuda", "driver">>]
                          cuda == labels[<<"cuda", "runtime">>]
                          minor == (host.cuda - 1000 * cuda[1]) \div 10
                      IN /\ cuda[1] = host.cuda \div 1000
                         /\ host.nvml \/ minor < 10 => cuda[2] = minor
                         /\ host.nvml => /\ Len(host.driver) \in 2..3
                                         /\ \A i \in 1..3: driver[i] = IF i <= Len(host.driver)
                                                                      THEN host.driver[i] ELSE NoPart
                         /\ ~host.nvml => driver = <<"unknown", "unknown", "unknown">>
  BY DEF VersionsExact
<1>2. ~Unlabelled
  <2>1. SUFFICES ASSUME Unlabelled PROVE FALSE
    OBVIOUS
  <2>2. Of(labels, "cuda") = Empty
    BY <2>1 DEF NodeInv, GroupsSaid
  <2>3. "runtime" \in DOMAIN Of(labels, "cuda")
    BY <1>1, NodeParts, SuffixesOf
  <2>4. QED BY <2>2, <2>3, EmptyFacts
<1>3. Of(labels, "cuda") = Versions /\ WellFormed(GetDriverVersion(manager, host))
  BY <1>1, <1>2 DEF NodeInv, Begun, NodeSaid
<1>4. labels[<<"cuda", "driver">>] = Versions.driver
      /\ labels[<<"cuda", "runtime">>] = Versions.runtime
  <2>1. "driver" \in DOMAIN Versions /\ "runtime" \in DOMAIN Versions
    BY DEF Versions
  <2>2. QED BY <1>3, <2>1, NodeParts, SuffixesOf
<1>5. host.cuda \in Nat /\ host.nvml \in BOOLEAN
  BY ConstantsAssumption DEF IInv, TypeOK
<1>6. \/ manager = "nvml" /\ host.nvml
      \/ manager = "cuda" /\ ~host.nvml
  BY <1>2 DEF IInv, TypeOK, GetManager, Unlabelled
<1>7. ASSUME NEW v \in Nat
      PROVE  /\ v - 1000 * (v \div 1000) = v % 1000
             /\ v % 1000 \in 0..999
             /\ (v % 1000) \div 10 < 10 => CudaMinor(v) = (v % 1000) \div 10
  <2>1. v - 1000 * (v \div 1000) = v % 1000 /\ v % 1000 \in 0..999
    OBVIOUS
  <2>2. ASSUME (v % 1000) \div 10 < 10 PROVE CudaMinor(v) = (v % 1000) \div 10
    <3>1. v % 1000 < 100
      BY <2>1, <2>2
    <3>2. v % 100 = v % 1000
      BY <3>1
    <3>3. QED BY <3>2 DEF CudaMinor
  <2>3. QED BY <2>1, <2>2
<1>8. CASE manager = "nvml" /\ host.nvml
  <2>1. GetDriverVersion(manager, host) = host.driver
    BY <1>8 DEF GetDriverVersion
  <2>2. GetCudaDriverVersion(manager, host) = <<host.cuda \div 1000, NvmlMinor(host.cuda)>>
    BY <1>8 DEF GetCudaDriverVersion
  <2>3. /\ Versions.runtime = <<host.cuda \div 1000, NvmlMinor(host.cuda)>>
        /\ Versions.driver = <<host.driver[1], host.driver[2],
                               IF Len(host.driver) > 2 THEN host.driver[3] ELSE NoPart>>
    BY <2>1, <2>2 DEF Versions
  <2>4. Len(host.driver) \in 2..3
    BY <1>3, <2>1 DEF WellFormed
  <2>5. \A i \in 1..3: Versions.driver[i] = IF i <= Len(host.driver)
                                           THEN host.driver[i] ELSE NoPart
    <3> DEFINE h == host.driver
    <3> DEFINE n == Len(h)
    <3> DEFINE third == IF n > 2 THEN h[3] ELSE NoPart
    <3>1. Versions.driver = <<h[1], h[2], third>> /\ n \in 2..3
      BY <2>3, <2>4
    <3> HIDE DEF n, h
    <3>2. (n = 2 \/ n = 3) /\ (n = 2 => third = NoPart) /\ (n = 3 => third = h[3])
      BY <3>1
    <3> HIDE DEF third
    <3>3. \A i \in 1..3: <<h[1], h[2], third>>[i] = IF i <= n THEN h[i] ELSE NoPart
      BY <3>2, PartsOf
    <3>4. QED BY <3>1, <3>3 DEF n, h
  <2> DEFINE v == host.cuda
  <2> DEFINE runtime == labels[<<"cuda", "runtime">>]
  <2> DEFINE driver == labels[<<"cuda", "driver">>]
  <2>6. v \in Nat /\ runtime = <<v \div 1000, NvmlMinor(v)>>
    BY <1>4, <1>5, <2>3
  <2> HIDE DEF v, runtime
  <2>7. runtime[1] = v \div 1000 /\ runtime[2] = (v - 1000 * runtime[1]) \div 10
    <3>1. runtime[1] = v \div 1000 /\ runtime[2] = NvmlMinor(v)
      BY <2>6
    <3>2. v - 1000 * (v \div 1000) = v % 1000
      BY <1>7, <2>6
    <3>3. NvmlMinor(v) = (v % 1000) \div 10
      BY DEF NvmlMinor
    <3>4. QED BY <3>1, <3>2, <3>3
  <2>8. \A i \in 1..3: driver[i] = IF i <= Len(host.driver) THEN host.driver[i] ELSE NoPart
    BY <1>4, <2>5
  <2> HIDE DEF driver
  <2>9. QED BY <1>8, <2>4, <2>7, <2>8 DEF v, runtime, driver
<1>9. CASE manager = "cuda" /\ ~host.nvml
  <2>1. GetDriverVersion(manager, host) = <<"unknown", "unknown", "unknown">>
    BY <1>9 DEF GetDriverVersion, Unknown
  <2>2. GetCudaDriverVersion(manager, host) = <<host.cuda \div 1000, CudaMinor(host.cuda)>>
    BY <1>9 DEF GetCudaDriverVersion
  <2>3. /\ Versions.runtime = <<host.cuda \div 1000, CudaMinor(host.cuda)>>
        /\ Versions.driver = <<"unknown", "unknown", "unknown">>
    BY <2>1, <2>2 DEF Versions
  <2>4. (host.cuda - 1000 * (host.cuda \div 1000)) \div 10 < 10 =>
          CudaMinor(host.cuda) = (host.cuda - 1000 * (host.cuda \div 1000)) \div 10
    BY <1>5, <1>7
  <2>5. QED BY <1>4, <1>9, <2>3, <2>4
<1>10. QED BY <1>6, <1>8, <1>9

(* The version labels of every pass are those of the driver, whichever library *)
(* was asked (newVersionLabeler, cuda-lib.go:61).                          *)
THEOREM VersionsAreExact == Spec => []VersionsExact
<1>1. IInv /\ Scan /\ NodeInv => VersionsExact
  BY VersionsSaid
<1>2. QED BY NodeInvariance, <1>1, PTL

(* Two exact label sets of one node and one run are the same, if the GPUs that *)
(* they describe are of one model.                                         *)
LEMMA StaysTheSame ==
  ASSUME IInv, PassInv
  PROVE  Steady
<1>1. SUFFICES ASSUME pc = "done", last # Nothing, Cardinality(ModelsAmong(Labelled)) <= 1
               PROVE  labels = last
  BY DEF Steady
<1>2. quiet /\ IsLabels(last) /\ Exact(last) /\ (~Unlabelled => Of(last, "cuda") = Versions)
  BY <1>1 DEF PassInv, LastInv
<1>3. IsLabels(labels) /\ Exact(labels) /\ (~Unlabelled => Of(labels, "cuda") = Versions)
  BY <1>1, <1>2, QuietIsExact, NodeParts DEF PassInv
<1>4. ASSUME NEW r, r \notin Resources \cup Groups PROVE Of(labels, r) = Of(last, r)
  <2>1. /\ {key[1]: key \in DOMAIN labels} \subseteq Resources \cup Groups
        /\ {key[1]: key \in DOMAIN last} \subseteq Resources \cup Groups
    BY <1>2, <1>3 DEF Exact
  <2>2. Of(labels, r) = Empty
    BY <1>3, <1>4, <2>1, KnownResources
  <2>3. Of(last, r) = Empty
    BY <1>2, <1>4, <2>1, KnownResources
  <2>4. QED BY <2>2, <2>3
<1>5. Of(labels, "gfd") = Of(last, "gfd") /\ Of(labels, "vgpu") = Of(last, "vgpu")
  BY <1>2, <1>3 DEF Exact
<1>6. ASSUME Unlabelled, NEW r \in Resources \cup {"cuda", "mig"}
      PROVE  Of(labels, r) = Of(last, r)
  BY <1>2, <1>3, <1>6 DEF Exact
<1>7. ASSUME ~Unlabelled, NEW r \in Resources \cup {"cuda", "mig"}
      PROVE  Of(labels, r) = Of(last, r)
  <2>1. \A m1, m2 \in ModelsAmong(Labelled): m1 = m2
    <3>1. Labelled \in SUBSET GPUs
      BY DEF Labelled
    <3>2. IsFiniteSet(ModelsAmong(Labelled))
      BY <3>1, ModelsFinite DEF IInv
    <3>3. QED BY <1>1, <3>2, OneElement
  <2>2. CASE r = "gpu"
    <3>1. PICK m1 \in ModelsAmong(Labelled):
            Of(labels, "gpu") = Merge(Merge(Machine, PlainGPU(m1, Labelled # MigEnabled)),
                                      SingleMig)
      BY <1>3, <1>7 DEF Exact
    <3>2. PICK m2 \in ModelsAmong(Labelled):
            Of(last, "gpu") = Merge(Merge(Machine, PlainGPU(m2, Labelled # MigEnabled)),
                                    SingleMig)
      BY <1>2, <1>7 DEF Exact
    <3>3. m1 = m2
      BY <2>1
    <3>4. QED BY <2>2, <3>1, <3>2, <3>3
  <2>3. CASE r \in Profiles
    BY <1>2, <1>3, <1>7, <2>3 DEF Exact
  <2>4. CASE r \in {"cuda", "mig"}
    BY <1>2, <1>3, <1>7, <2>4 DEF Exact
  <2>5. QED BY <2>2, <2>3, <2>4 DEF Resources
<1>8. \A r: Of(labels, r) = Of(last, r)
  BY <1>4, <1>5, <1>6, <1>7, Names
<1>9. QED BY <1>2, <1>3, <1>8, SameLabels

(* While nothing is reconfigured, the passes of one run produce the same   *)
(* labels, so that a NodeFeature object is not updated (labels.go:172), unless *)
(* the labelled GPUs are of several models.                                *)
THEOREM PassesAreSteady == ASSUME ModelsAlike PROVE Spec => []Steady
<1>1. IInv /\ PassInv => Steady
  BY StaysTheSame
<1>2. QED BY Invariance, PassInvariance, <1>1, PTL

-----------------------------------------------------------------------------
(* Labels that fit together.                                               *)

(* The parts of a product, with and without the suffix of sharing. *)
ProductWords == Models \cup Profiles \cup {"MIG", "INVALID"}
(* Whether the last part of a product is SHARED tells whether it was added. *)
LEMMA MarkedParts ==
  ASSUME NEW p \in Seq(ProductWords), Len(p) > 0, NEW shared \in BOOLEAN, NEW product,
         product = IF shared THEN Append(p, "SHARED") ELSE p
  PROVE  /\ (product[Len(product)] = "SHARED") <=> shared
         /\ shared => Front(product) = p
<1>1. "SHARED" \notin ProductWords
  BY NamesAssumption DEF ProductWords
<1>2. CASE ~shared
  <2>1. product = p /\ p[Len(p)] \in ProductWords
    BY <1>2
  <2>2. QED BY <1>1, <1>2, <2>1
<1>3. CASE shared
  <2>1. product = Append(p, "SHARED")
    BY <1>3
  <2>2. /\ product \in Seq(ProductWords \cup {"SHARED"})
        /\ Len(product) = Len(p) + 1 /\ product[Len(p) + 1] = "SHARED"
        /\ \A i \in 1..Len(p): product[i] = p[i]
    BY <2>1, AppendProperties
  <2>3. Front(product) = SubSeq(product, 1, Len(p))
    BY <2>2 DEF Front
  <2>4. SubSeq(product, 1, Len(p)) = p
    <3> DEFINE front == SubSeq(product, 1, Len(p))
    <3>1. front \in Seq(ProductWords \cup {"SHARED"}) /\ Len(front) = Len(p)
          /\ \A i \in 1..Len(p): front[i] = product[i]
      BY <2>2, SubSeqProperties
    <3>2. p \in Seq(ProductWords \cup {"SHARED"})
      OBVIOUS
    <3> HIDE DEF front
    <3>3. front = p
      BY <2>2, <3>1, <3>2, SeqEqual
    <3>4. QED BY <3>3 DEF front
  <2>5. QED BY <1>3, <2>2, <2>3, <2>4
<1>4. QED BY <1>2, <1>3

(* The labels of a resource that Coherent accepts. *)
Fit(said, res) ==
  LET marked == said.product[Len(said.product)] = "SHARED"
      parts == IF marked THEN Front(said.product) ELSE said.product
      plain == Len(parts) = 1
      invalid == Len(parts) = 3 /\ parts[3] = "INVALID"
      profile == Len(parts) = 3 /\ ~invalid
      Has(suffix) == suffix \in DOMAIN said
  IN /\ parts[1] \in Models /\ (plain \/ invalid \/ profile)
     /\ plain => /\ said.count = Cardinality({g \in GPUs: ModelOf(g) = parts[1]})
                 /\ Has("memory") <=> Bytes[parts[1]] >= MiB
                 /\ Has("memory") => said.memory = Bytes[parts[1]] \div MiB
                 /\ Has("compute") => said.compute = Compute[parts[1]]
     /\ invalid => said.count = 0 /\ said.replicas = 0 /\ said.memory = 0
     /\ profile => /\ said.count \in 1..(N * MaxMigs)
                   /\ said.memory = ProfileMemory[parts[3]]
                   /\ said.slices = parts[3]
                   /\ said.replicas = Replicas(res)
     /\ Has("slices") => profile
     /\ marked <=> said.replicas > 1 /\ ~conf.renamed

(* Coherent says Fit of every resource that has labels. *)
LEMMA CoherentIsFit ==
  ASSUME \A res \in Resources: Of(labels, res) = Empty \/ Fit(Of(labels, res), res)
  PROVE  Coherent
  BY DEF Coherent, Fit

(* It does for the three kinds of labels there are, of a product of parts  *)
(* p.                                                                      *)
Matches(said, res, p) ==
  \/ /\ Len(p) = 1
     /\ said.count = Cardinality({g \in GPUs: ModelOf(g) = p[1]})
     /\ "memory" \in DOMAIN said <=> Bytes[p[1]] >= MiB
     /\ "memory" \in DOMAIN said => said.memory = Bytes[p[1]] \div MiB
     /\ "compute" \in DOMAIN said => said.compute = Compute[p[1]]
     /\ "slices" \notin DOMAIN said
  \/ /\ Len(p) = 3 /\ p[3] = "INVALID"
     /\ said.count = 0 /\ said.replicas = 0 /\ said.memory = 0
     /\ "slices" \notin DOMAIN said
  \/ /\ Len(p) = 3 /\ p[3] # "INVALID"
     /\ said.count \in 1..(N * MaxMigs)
     /\ said.memory = ProfileMemory[p[3]]
     /\ said.slices = p[3]
     /\ said.replicas = Replicas(res)
Marked(said, p, shared) ==
  /\ said.product = IF shared THEN Append(p, "SHARED") ELSE p
  /\ shared <=> said.replicas > 1 /\ ~conf.renamed

(* Either kind of labels, with the suffix that sharing adds, is Fit. *)
LEMMA FitParts ==
  ASSUME NEW said, NEW res, NEW p, p \in Seq(ProductWords), Len(p) > 0, p[1] \in Models,
         NEW shared \in BOOLEAN, Marked(said, p, shared), Matches(said, res, p)
  PROVE  Fit(said, res)
<1> DEFINE product == said.product
<1> DEFINE marked == product[Len(product)] = "SHARED"
<1> DEFINE parts == IF marked THEN Front(product) ELSE product
<1>1. (marked <=> shared) /\ parts = p
  <2>1. product = IF shared THEN Append(p, "SHARED") ELSE p
    BY DEF Marked
  <2> HIDE DEF product
  <2>2. marked <=> shared
    BY <2>1, MarkedParts
  <2>3. shared => Front(product) = p
    BY <2>1, MarkedParts
  <2> HIDE DEF marked
  <2>4. QED BY <2>1, <2>2, <2>3
<1> HIDE DEF marked, parts, product
<1>2. marked <=> said.replicas > 1 /\ ~conf.renamed
  BY <1>1 DEF Marked
<1>3. /\ parts[1] \in Models
      /\ \/ Len(parts) = 1
         \/ Len(parts) = 3 /\ parts[3] = "INVALID"
         \/ Len(parts) = 3 /\ ~(Len(parts) = 3 /\ parts[3] = "INVALID")
  BY <1>1 DEF Matches
<1>4. Len(parts) = 1 =>
        /\ said.count = Cardinality({g \in GPUs: ModelOf(g) = parts[1]})
        /\ "memory" \in DOMAIN said <=> Bytes[parts[1]] >= MiB
        /\ "memory" \in DOMAIN said => said.memory = Bytes[parts[1]] \div MiB
        /\ "compute" \in DOMAIN said => said.compute = Compute[parts[1]]
  BY <1>1 DEF Matches
<1>5. Len(parts) = 3 /\ parts[3] = "INVALID" =>
        said.count = 0 /\ said.replicas = 0 /\ said.memory = 0
  BY <1>1 DEF Matches
<1>6. Len(parts) = 3 /\ ~(Len(parts) = 3 /\ parts[3] = "INVALID") =>
        /\ said.count \in 1..(N * MaxMigs)
        /\ said.memory = ProfileMemory[parts[3]]
        /\ said.slices = parts[3]
        /\ said.replicas = Replicas(res)
  BY <1>1 DEF Matches
<1>7. "slices" \in DOMAIN said => Len(parts) = 3 /\ ~(Len(parts) = 3 /\ parts[3] = "INVALID")
  BY <1>1 DEF Matches
<1>8. QED BY ONLY <1>2, <1>3, <1>4, <1>5, <1>6, <1>7 DEF Fit, marked, parts, product

(* Product adds SHARED exactly if the resource is shared under its own name. *)
LEMMA Sharing ==
  ASSUME TypeOK, NEW res \in Resources, NEW p
  PROVE  \E shared \in BOOLEAN: /\ Product(p, res) = IF shared THEN Append(p, "SHARED") ELSE p
                                /\ shared <=> Replicas(res) > 1 /\ ~conf.renamed
<1> DEFINE shared == Replicas(res) > 1 /\ ~conf.renamed
<1>1. /\ shared \in BOOLEAN
      /\ Product(p, res) = IF shared THEN Append(p, "SHARED") ELSE p
  BY DEF Product
<1> HIDE DEF shared
<1>2. QED BY <1>1 DEF shared

(* The labels of MIG devices, whatever else remains beside them. *)
LEMMA MigFits ==
  ASSUME TypeOK, NEW res \in Resources, NEW q \in Profiles, NEW m \in Models,
         NEW n \in 1..(N * MaxMigs), NEW said,
         LET mig == MigDevices(res, q, m, n)
         IN \A s \in DOMAIN mig: said[s] = mig[s]
  PROVE  Fit(said, res)
<1> DEFINE p == <<m, "MIG", q>>
<1>1. /\ said.product = Product(p, res) /\ said.count = n /\ said.replicas = Replicas(res)
      /\ said.memory = ProfileMemory[q] /\ said.slices = q
  BY DEF MigDevices
<1>2. p \in Seq(ProductWords) /\ Len(p) = 3 /\ p[1] = m /\ p[3] = q
  BY DEF ProductWords
<1>3. q # "INVALID"
  BY NamesAssumption
<1> HIDE DEF p
<1>4. PICK shared \in BOOLEAN: /\ Product(p, res) = IF shared THEN Append(p, "SHARED") ELSE p
                               /\ shared <=> Replicas(res) > 1 /\ ~conf.renamed
  BY Sharing
<1>5. Marked(said, p, shared)
  BY <1>1, <1>4 DEF Marked
<1>6. p \in Seq(ProductWords) /\ Len(p) > 0 /\ p[1] \in Models
  BY <1>2
<1>7. Matches(said, res, p)
  BY <1>1, <1>2, <1>3 DEF Matches
<1>8. QED BY <1>5, <1>6, <1>7, FitParts

(* The marker of an invalid configuration, over the labels of full GPUs. *)
LEMMA InvalidFits ==
  ASSUME NEW res, NEW m \in Models, NEW said,
         LET invalid == InvalidMig(m)
         IN \A s \in DOMAIN invalid: said[s] = invalid[s],
         "slices" \notin DOMAIN said
  PROVE  Fit(said, res)
<1> DEFINE p == <<m, "MIG", "INVALID">>
<1>1. said.product = p /\ said.count = 0 /\ said.replicas = 0 /\ said.memory = 0
  BY DEF InvalidMig
<1>2. p \in Seq(ProductWords) /\ Len(p) = 3 /\ p[1] = m /\ p[3] = "INVALID"
  BY DEF ProductWords
<1> HIDE DEF p
<1>3. Marked(said, p, FALSE)
  BY <1>1 DEF Marked
<1>4. Matches(said, res, p)
  BY <1>1, <1>2 DEF Matches
<1>5. Len(p) > 0 /\ p[1] \in Models
  BY <1>2
<1>6. QED BY <1>2, <1>3, <1>4, <1>5, FitParts

(* The labels of full GPUs, to which nothing about MIG was added. *)
LEMMA PlainFacts ==
  ASSUME NEW m, NEW shared \in BOOLEAN, NEW said, said = Merge(Machine, PlainGPU(m, shared))
  PROVE  /\ said.product = IF shared THEN Product(<<m>>, "gpu") ELSE <<m>>
         /\ said.count = Cardinality({g \in GPUs: ModelOf(g) = m})
         /\ said.replicas = IF shared THEN Replicas("gpu") ELSE 0
         /\ "memory" \in DOMAIN said <=> ~(Bytes[m] < MiB)
         /\ "memory" \in DOMAIN said => said.memory = Bytes[m] \div MiB
         /\ "compute" \in DOMAIN said => said.compute = Compute[m]
         /\ "slices" \notin DOMAIN said
<1> DEFINE three == [product |-> IF shared THEN Product(<<m>>, "gpu") ELSE <<m>>,
                     count |-> Cardinality({g \in GPUs: ModelOf(g) = m}),
                     replicas |-> IF shared THEN Replicas("gpu") ELSE 0]
<1> DEFINE memory == IF Bytes[m] < MiB THEN Empty ELSE [memory |-> Bytes[m] \div MiB]
<1> DEFINE family == IF Compute[m][1] = 0 THEN Empty
                     ELSE [family |-> ArchFamily(Compute[m][1], Compute[m][2]),
                           compute |-> Compute[m]]
<1>1. PlainGPU(m, shared) = Merge(Merge(three, memory), family)
  BY DEF PlainGPU
<1>2. DOMAIN three = {"product", "count", "replicas"}
  OBVIOUS
<1>3. /\ DOMAIN memory \subseteq {"memory"}
      /\ "memory" \in DOMAIN memory <=> ~(Bytes[m] < MiB)
      /\ "memory" \in DOMAIN memory => memory["memory"] = Bytes[m] \div MiB
  BY EmptyFacts
<1>4. /\ DOMAIN family \subseteq {"family", "compute"}
      /\ "compute" \in DOMAIN family => family["compute"] = Compute[m]
  BY EmptyFacts
<1>5. DOMAIN Machine = {"machine"}
  BY DEF Machine
<1>6. /\ three["product"] = IF shared THEN Product(<<m>>, "gpu") ELSE <<m>>
      /\ three["count"] = Cardinality({g \in GPUs: ModelOf(g) = m})
      /\ three["replicas"] = IF shared THEN Replicas("gpu") ELSE 0
  OBVIOUS
<1> DEFINE size == Bytes[m] \div MiB
<1> DEFINE small == Bytes[m] < MiB
<1> HIDE DEF three, memory, family
<1>7. said = Merge(Machine, Merge(Merge(three, memory), family))
  BY <1>1
<1>8. /\ DOMAIN said = DOMAIN Machine \cup DOMAIN three \cup DOMAIN memory \cup DOMAIN family
      /\ \A x \in DOMAIN family: said[x] = family[x]
      /\ \A x \in DOMAIN memory \ DOMAIN family: said[x] = memory[x]
      /\ \A x \in DOMAIN three \ (DOMAIN memory \cup DOMAIN family): said[x] = three[x]
  <2> DEFINE machine == Machine
  <2> HIDE DEF machine
  <2>1. said = Merge(machine, Merge(Merge(three, memory), family))
    BY <1>7 DEF machine
  <2>2. /\ DOMAIN said = DOMAIN machine \cup DOMAIN three \cup DOMAIN memory \cup DOMAIN family
        /\ \A x \in DOMAIN family: said[x] = family[x]
        /\ \A x \in DOMAIN memory \ DOMAIN family: said[x] = memory[x]
        /\ \A x \in DOMAIN three \ (DOMAIN memory \cup DOMAIN family): said[x] = three[x]
    BY ONLY <2>1 DEF Merge
  <2>3. QED BY <2>2 DEF machine
<1>9. /\ said["product"] = three["product"] /\ said["count"] = three["count"]
      /\ said["replicas"] = three["replicas"]
  BY ONLY <1>2, <1>3, <1>4, <1>8
<1>10. "memory" \in DOMAIN memory => memory["memory"] = size
  BY <1>3
<1>11. "memory" \in DOMAIN memory <=> ~small
  BY <1>3
<1> HIDE DEF size, small
<1>12. "memory" \in DOMAIN said <=> ~small
  BY ONLY <1>2, <1>3, <1>4, <1>5, <1>8, <1>11
<1>13. "memory" \in DOMAIN said => said["memory"] = size
  BY ONLY <1>2, <1>3, <1>4, <1>5, <1>8, <1>10
<1>14. "compute" \in DOMAIN said => said["compute"] = Compute[m]
  BY ONLY <1>2, <1>3, <1>4, <1>5, <1>8
<1>15. "slices" \notin DOMAIN said
  BY ONLY <1>2, <1>3, <1>4, <1>5, <1>8
<1>16. QED BY <1>6, <1>9, <1>12, <1>13, <1>14, <1>15 DEF size, small

(* The labels of full GPUs alone. *)
LEMMA PlainFits ==
  ASSUME TypeOK, NEW m \in Models, NEW shared \in BOOLEAN
  PROVE  Fit(Merge(Machine, PlainGPU(m, shared)), "gpu")
<1> DEFINE said == Merge(Machine, PlainGPU(m, shared))
<1> DEFINE p == <<m>>
<1>1. /\ said.product = IF shared THEN Product(p, "gpu") ELSE p
      /\ said.count = Cardinality({g \in GPUs: ModelOf(g) = m})
      /\ said.replicas = IF shared THEN Replicas("gpu") ELSE 0
      /\ "memory" \in DOMAIN said <=> ~(Bytes[m] < MiB)
      /\ "memory" \in DOMAIN said => said.memory = Bytes[m] \div MiB
      /\ "compute" \in DOMAIN said => said.compute = Compute[m]
      /\ "slices" \notin DOMAIN said
  BY PlainFacts
<1>2. p \in Seq(ProductWords) /\ Len(p) = 1 /\ p[1] = m
  BY DEF ProductWords
<1>3. ~(Bytes[m] < MiB) <=> Bytes[m] >= MiB
  <2>1. Bytes[m] \in Nat /\ MiB \in Nat
    BY ConstantsAssumption DEF MiB
  <2>2. QED BY <2>1
<1> HIDE DEF p, said
<1>4. PICK marked \in BOOLEAN: /\ Product(p, "gpu") = IF marked THEN Append(p, "SHARED") ELSE p
                               /\ marked <=> Replicas("gpu") > 1 /\ ~conf.renamed
  BY Names, Sharing
<1>5. \E suffix \in BOOLEAN: Marked(said, p, suffix)
  <2>1. CASE shared
    BY <1>1, <1>4, <2>1 DEF Marked
  <2>2. CASE ~shared
    <3>1. said.product = p /\ said.replicas = 0
      BY <1>1, <2>2
    <3>2. Marked(said, p, FALSE)
      BY <3>1 DEF Marked
    <3>3. QED BY <3>2
  <2>3. QED BY <2>1, <2>2
<1>6. Matches(said, "gpu", p)
  BY <1>1, <1>2, <1>3 DEF Matches
<1>7. Len(p) > 0 /\ p[1] \in Models
  BY <1>2
<1>8. Fit(said, "gpu")
  BY <1>2, <1>5, <1>6, <1>7, FitParts
<1>9. QED BY <1>8 DEF said

(* The GPU resource: full GPUs, and what "single" wrote over them. *)
LEMMA GPUFits ==
  ASSUME TypeOK, NEW m \in Models, NEW shared \in BOOLEAN, NEW part, SinglePart(part)
  PROVE  Fit(Merge(Merge(Machine, PlainGPU(m, shared)), part), "gpu")
<1> DEFINE plain == Merge(Machine, PlainGPU(m, shared))
<1> DEFINE said == Merge(plain, part)
<1>1. IsFunction(plain) /\ "slices" \notin DOMAIN plain
  BY MergeFacts, PlainFacts
<1>2. CASE part = Empty
  <2>1. Fit(plain, "gpu")
    BY PlainFits
  <2> HIDE DEF plain
  <2>2. said = plain
    BY <1>1, <1>2, MergeEmpty
  <2>3. QED BY <2>1, <2>2 DEF plain
<1>3. ModelsAmong(GPUs) \subseteq Models
  BY HostFacts DEF ModelsAmong, ModelOf
<1> HIDE DEF plain
<1>4. DOMAIN said = DOMAIN plain \cup DOMAIN part /\ \A s \in DOMAIN part: said[s] = part[s]
  BY MergeFacts
<1>5. CASE \E g \in ModelsAmong(GPUs): part = InvalidMig(g)
  <2>1. PICK g \in ModelsAmong(GPUs): part = InvalidMig(g)
    BY <1>5
  <2>2. "slices" \notin DOMAIN part
    BY <2>1 DEF InvalidMig
  <2> HIDE DEF said
  <2>3. Fit(said, "gpu")
    BY <1>1, <1>3, <1>4, <2>1, <2>2, InvalidFits
  <2>4. QED BY <2>3 DEF said, plain
<1>6. CASE \E g \in ModelsAmong(GPUs), q \in Profiles, n \in 1..(N * MaxMigs):
             part = MigDevices("gpu", q, g, n)
  <2>1. PICK g \in ModelsAmong(GPUs), q \in Profiles, n \in 1..(N * MaxMigs):
          part = MigDevices("gpu", q, g, n)
    BY <1>6
  <2> HIDE DEF said
  <2>2. Fit(said, "gpu")
    BY <1>3, <1>4, <2>1, MigFits, Names
  <2>3. QED BY <2>2 DEF said, plain
<1>7. QED BY <1>2, <1>5, <1>6 DEF SinglePart

(* The labels of every resource are of one kind of device. *)
LEMMA LabelsFit ==
  ASSUME IInv, NodeInv, GPUInv
  PROVE  Coherent
<1>1. SUFFICES ASSUME pc = "done", NEW res \in Resources, Of(labels, res) # Empty
               PROVE  Fit(Of(labels, res), res)
  BY DEF Coherent, Fit
<1>2. ~Unlabelled
  BY <1>1 DEF NodeInv, GroupsSaid
<1>3. ModelsAmong(GPUs) \subseteq Models
  BY HostFacts DEF ModelsAmong, ModelOf, IInv
<1>4. CASE res = "gpu"
  <2>1. GPUSaid
    BY <1>1, <1>2 DEF GPUInv, Begun
  <2>2. PICK m \in ModelsAmong(GPUs), shared \in BOOLEAN: GPUSaidAs(m, shared)
    BY <1>1, <2>1 DEF GPUSaid
  <2>3. PICK part: /\ SinglePart(part)
                   /\ Of(labels, "gpu") = Merge(Merge(Machine, PlainGPU(m, shared)), part)
    BY <2>2 DEF GPUSaidAs
  <2>4. QED BY <1>3, <1>4, <2>2, <2>3, GPUFits DEF IInv
<1>5. CASE res \in Profiles
  <2>1. ProfilesSaid
    BY <1>1, <1>2 DEF NodeInv, Begun
  <2>2. PICK m \in ModelsAmong(GPUs), n \in 1..(N * MaxMigs):
          Of(labels, res) = MigDevices(res, res, m, n)
    BY <1>1, <1>5, <2>1 DEF ProfilesSaid
  <2>3. QED BY <1>3, <1>5, <2>2, MigFits, Names DEF IInv
<1>6. QED BY <1>4, <1>5 DEF Resources

(* Whatever is reconfigured between two queries of a pass, the labels of one *)
(* resource fit together: product, count, replicas, memory and the rest come *)
(* from the same kind of device, although newGPULabelers, the strategy and its *)
(* invalid marker write them over one another.                             *)
THEOREM LabelsAreCoherent == ASSUME ModelsAlike PROVE Spec => []Coherent
<1>1. IInv /\ PassInv => Coherent
  BY LabelsFit DEF PassInv
<1>2. QED BY Invariance, PassInvariance, <1>1, PTL
=============================================================================
