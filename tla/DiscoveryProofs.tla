--------------------------- MODULE DiscoveryProofs ---------------------------
(***************************************************************************)
(* Proofs about Discovery for any hosts, configurations, models and        *)
(* profiles: the type invariant, NoUnsupported, and what a pass has seen of *)
(* the GPUs (Chosen and Seen), on which PassProofs rests.                  *)
(***************************************************************************)
EXTENDS Discovery, FiniteSetTheorems, TLAPS

LEMMA HostFacts ==
  ASSUME TypeOK
  PROVE  /\ host.nvml \in BOOLEAN /\ host.gpus \in Seq(Models)
         /\ host.driver # Unsupported
         /\ N \in Nat /\ GPUs = 1..N /\ DOMAIN host.gpus = GPUs
  BY ConstantsAssumption DEF TypeOK, N, GPUs

(* GPUStates of any GPU bounds the MIG devices of each profile. *)
LEMMA StateFacts ==
  ASSUME NEW g, NEW s \in GPUStates(g)
  PROVE  s.mig \in BOOLEAN /\ s.migs \in [Profiles -> 0..MaxMigs]
<1>1. NoMigs \in [Profiles -> 0..MaxMigs]
  BY ConstantsAssumption DEF NoMigs
<1>2. CASE s = NoMode
  BY <1>1, <1>2 DEF NoMode
<1>3. CASE s # NoMode
  <2>1. PICK m \in [Profiles -> 0..MaxMigs]: s = [mig |-> TRUE, migs |-> m]
    BY <1>3 DEF GPUStates
  <2>2. QED BY <2>1
<1>4. QED BY <1>2, <1>3

(* What the devices of the managers that have any answer. *)
LEMMA DeviceFacts ==
  ASSUME TypeOK, NEW g \in GPUs
  PROVE  /\ manager = "nvml" => /\ Device(g).IsMigEnabled = hw[g].mig
                                /\ Device(g).GetMigDevices = hw[g].migs
                                /\ Device(g).IsMigCapable \in BOOLEAN
         /\ manager = "cuda" => /\ Device(g).IsMigEnabled = FALSE
                                /\ Device(g).IsMigCapable = FALSE
<1>1. DOMAIN host.gpus = GPUs
  BY HostFacts
<1>2. CASE manager = "nvml"
  <2>1. Devices = [h \in GPUs |-> NvmlDevice(host.gpus[h], hw[h])]
    BY <1>1, <1>2 DEF Devices, GetDevices
  <2>2. Device(g) = NvmlDevice(host.gpus[g], hw[g])
    BY <2>1 DEF Device
  <2>3. Device(g).IsMigCapable \in BOOLEAN
    BY <2>2 DEF NvmlDevice
  <2>4. QED BY <1>2, <2>2, <2>3 DEF NvmlDevice
<1>3. CASE manager = "cuda"
  <2>1. Devices = [h \in GPUs |-> CudaDevice(host.gpus[h])]
    BY <1>1, <1>3 DEF Devices, GetDevices
  <2>2. Device(g) = CudaDevice(host.gpus[g])
    BY <2>1 DEF Device
  <2>3. QED BY <1>3, <2>2 DEF CudaDevice
<1>4. QED BY <1>2, <1>3

LEMMA ManagerFacts ==
  ASSUME TypeOK
  PROVE  manager \in {"nvml", "cuda", "null"}
  BY DEF TypeOK, GetManager

(* Whatever ends the use of a DeviceInfo keeps the invariant. *)
LEMMA FreshInv ==
  ASSUME IInv, Fresh, UNCHANGED <<host, hw, now>>, conf' \in Configs,
         manager' \in {GetManager(host), "null"}, stamp' \in 0..now,
         pc' \in InPass \cup {"off", "done"}, pc' # "list",
         pc' \in Looking => manager' # "null",
         quiet' \in BOOLEAN, last' # Nothing => pc' \in InPass \cup {"done"}
  PROVE  IInv'
<1>1. N \in Nat /\ MaxMigs \in Nat /\ N * MaxMigs \in Nat
  BY HostFacts, ConstantsAssumption DEF IInv
<1>2. UNCHANGED <<N, GPUs>> /\ \A g: GPUStates(g)' = GPUStates(g)
  BY DEF N, GPUs, GPUStates, ModelOf, NoMode, NoMigs
<1>3. found' \in [Profiles -> 0..(N * MaxMigs)] /\ \A q \in Profiles: found'[q] = 0
  BY <1>1 DEF Fresh, NoMigs
<1>4. /\ at' \in 1..(N + 1) /\ enabled' = {}
      /\ \A q \in Profiles: first'[q] = 1
  BY <1>1 DEF Fresh
<1>5. TypeOK'
  BY <1>2, <1>3, <1>4 DEF IInv, TypeOK, GetManager
<1>6. LookingAtDevices' /\ FoundSoFar'
  BY <1>1, <1>3, <1>4 DEF LookingAtDevices, FoundSoFar
<1>7. QED BY <1>5, <1>6 DEF IInv

(* A step that touches neither the hardware nor the scan. *)
LEMMA ScanKept ==
  ASSUME IInv, UNCHANGED <<host, hw, now, scan, stamp, quiet, conf>>,
         manager' \in {GetManager(host), "null"},
         pc \in InPass, pc' \in InPass \cup {"done"}, pc' # "list", pc # "list",
         pc \notin Looking,
         pc' \in Looking => manager' # "null"
  PROVE  IInv'
<1>1. N \in Nat /\ MaxMigs \in Nat /\ N * MaxMigs \in Nat
  BY HostFacts, ConstantsAssumption DEF IInv
<1>2. UNCHANGED <<N, GPUs>> /\ \A g: GPUStates(g)' = GPUStates(g)
  BY DEF N, GPUs, GPUStates, ModelOf, NoMode, NoMigs
<1>3. TypeOK'
  BY <1>2 DEF IInv, TypeOK, GetManager, scan
<1>4. LookingAtDevices' /\ FoundSoFar'
  BY DEF IInv, LookingAtDevices, FoundSoFar, scan
<1>5. QED BY <1>3, <1>4 DEF IInv

(* The devices on the GPUs before i, if there are at most m on each of n. *)
LEMMA EarlierGPUs ==
  ASSUME NEW n \in Nat, NEW m \in Nat, NEW i \in 1..(n + 1)
  PROVE  (i - 1) * m \in Int /\ (i - 1) * m <= n * m
<1>1. i - 1 \in Nat /\ i - 1 <= n
  OBVIOUS
<1>2. \A j \in Nat: j <= n => j * m \in Int /\ j * m <= n * m
  OBVIOUS
<1>3. QED BY <1>1, <1>2

(* A step of the scan itself: the GPU in at is answered for, or a strategy *)
(* goes on to its next query with the GPUs classified.                    *)
LEMMA ScanAdvanced ==
  ASSUME IInv, UNCHANGED <<host, now, hw, conf, manager, stamp, labels, quiet, last>>,
         pc \in Looking, pc' \in Looking,
         at' \in 1..(N + 1), enabled' \subseteq GPUs,
         enabled' # {} => manager = "nvml",
         pc' = "list" \/ UNCHANGED found,
         found' \in [Profiles -> Nat],
         \A q \in Profiles: first'[q] \in GPUs \cup {1},
         \A q \in Profiles: found'[q] <= IF pc' = "list" THEN (at' - 1) * MaxMigs ELSE 0
  PROVE  IInv'
<1>1. N \in Nat /\ MaxMigs \in Nat /\ N * MaxMigs \in Nat
  BY HostFacts, ConstantsAssumption DEF IInv
<1>2. UNCHANGED <<N, GPUs>> /\ \A g: GPUStates(g)' = GPUStates(g)
  BY DEF N, GPUs, GPUStates, ModelOf, NoMode, NoMigs
<1>3. (at' - 1) * MaxMigs \in Int /\ (at' - 1) * MaxMigs <= N * MaxMigs
  BY <1>1, EarlierGPUs
<1>4. \A q \in Profiles: found'[q] \in 0..(N * MaxMigs)
  BY <1>1, <1>3
<1>5. TypeOK'
  BY <1>2, <1>4 DEF IInv, TypeOK, InPass, Looking, GetManager
<1>6. LookingAtDevices' /\ FoundSoFar'
  BY <1>2 DEF IInv, LookingAtDevices, FoundSoFar
<1>7. QED BY <1>5, <1>6 DEF IInv

LEMMA StepReconfigure ==
  ASSUME IInv, NEW g \in GPUs, Reconfigure(g)
  PROVE  IInv'
<1>1. PICK s \in GPUStates(g): hw' = [hw EXCEPT ![g] = s]
  BY DEF Reconfigure
<1>2. UNCHANGED <<host, now, conf, manager, stamp, pc, at, enabled, found, first>>
      /\ quiet' = FALSE /\ last' = Nothing
  BY DEF Reconfigure, run, scan
<1>3. UNCHANGED <<N, GPUs>> /\ \A h: GPUStates(h)' = GPUStates(h)
  BY <1>2 DEF N, GPUs, GPUStates, ModelOf, NoMode, NoMigs
<1>4. TypeOK'
  BY <1>1, <1>2, <1>3 DEF IInv, TypeOK, GetManager
<1>5. LookingAtDevices' /\ FoundSoFar'
  BY <1>2 DEF IInv, LookingAtDevices, FoundSoFar
<1>6. QED BY <1>4, <1>5 DEF IInv

LEMMA StepTick ==
  ASSUME IInv, Tick
  PROVE  IInv'
<1>1. UNCHANGED <<host, hw, conf, manager, stamp, pc, at, enabled, found, first, quiet, last>>
      /\ now' = now + 1 /\ now < MaxTime
  BY DEF Tick, run, scan
<1>2. UNCHANGED <<N, GPUs>> /\ \A h: GPUStates(h)' = GPUStates(h)
  BY <1>1 DEF N, GPUs, GPUStates, ModelOf, NoMode, NoMigs
<1>3. TypeOK'
  BY <1>1, <1>2, ConstantsAssumption DEF IInv, TypeOK, GetManager
<1>4. LookingAtDevices' /\ FoundSoFar'
  BY <1>1 DEF IInv, LookingAtDevices, FoundSoFar
<1>5. QED BY <1>3, <1>4 DEF IInv

LEMMA StepStutter ==
  ASSUME IInv, UNCHANGED vars
  PROVE  IInv'
<1>1. UNCHANGED <<host, now, hw, conf, manager, stamp, pc, at, enabled, found, first, quiet, last>>
  BY DEF vars, run, scan
<1>2. UNCHANGED <<N, GPUs>> /\ \A h: GPUStates(h)' = GPUStates(h)
  BY <1>1 DEF N, GPUs, GPUStates, ModelOf, NoMode, NoMigs
<1>3. TypeOK'
  BY <1>1, <1>2 DEF IInv, TypeOK, GetManager
<1>4. LookingAtDevices' /\ FoundSoFar'
  BY <1>1 DEF IInv, LookingAtDevices, FoundSoFar
<1>5. QED BY <1>3, <1>4 DEF IInv

(* The steps that begin or end a pass, or its use of a DeviceInfo. *)
LEMMA StepRuns ==
  ASSUME IInv, Load \/ Timer
  PROVE  IInv'
<1>1. Fresh /\ UNCHANGED <<host, hw, now>> /\ conf' \in Configs /\ pc' = "init"
      /\ manager' \in {GetManager(host), "null"} /\ stamp' \in 0..now
      /\ quiet' = TRUE
  <2>1. now \in Nat
    BY ConstantsAssumption DEF IInv, TypeOK
  <2>2. QED BY <2>1 DEF Load, Timer, NewPass, IInv, TypeOK, run
<1>2. QED BY <1>1, FreshInv DEF InPass, Looking

LEMMA StepAbort ==
  ASSUME IInv, Abort
  PROVE  IInv'
<1>1. Fresh /\ UNCHANGED <<host, hw, now, conf, manager, stamp, quiet>>
      /\ pc' = "off" /\ last' = Nothing
  BY DEF Abort, run
<1>2. QED BY <1>1, FreshInv DEF InPass, Looking, IInv, TypeOK

LEMMA StepAdd ==
  ASSUME IInv, NEW more, Add(more)
  PROVE  IInv'
<1>1. Fresh /\ UNCHANGED <<host, hw, now, conf, manager, stamp, quiet, last>>
      /\ pc' = "vgpu"
  BY DEF Add, run
<1>2. QED BY <1>1, FreshInv DEF InPass, Looking, IInv, TypeOK

LEMMA StepLabelFullGPUs ==
  ASSUME IInv, LabelFullGPUs
  PROVE  IInv'
<1>1. Fresh /\ UNCHANGED <<host, hw, now, conf, manager, stamp, quiet, last>>
      /\ pc = "full" /\ pc' \in {"vgpu", "mig"}
  BY DEF LabelFullGPUs, run
<1>2. manager # "null"
  BY <1>1 DEF IInv, LookingAtDevices, Looking
<1>3. QED BY <1>1, <1>2, FreshInv DEF InPass, Looking, IInv, TypeOK

(* The steps before and after the scans. *)
LEMMA StepBasics ==
  ASSUME IInv, InitLibrary \/ BasicLabels \/ LabelVGPUs
  PROVE  IInv'
<1>1. CASE Abort
  BY <1>1, StepAbort
<1>2. CASE ~Abort
  <2>1. /\ UNCHANGED <<host, hw, now, scan, conf, stamp, quiet>>
        /\ manager' \in {manager, "null"}
        /\ \/ pc = "init" /\ pc' = "basic"
           \/ pc = "basic" /\ pc' = "vgpu"
           \/ pc = "basic" /\ pc' = "full" /\ Devices # <<>> /\ manager' = manager
           \/ pc = "vgpu" /\ pc' = "done"
    BY <1>2 DEF InitLibrary, BasicLabels, LabelVGPUs, Goto, run, scan
  <2>2. Devices # <<>> => manager # "null"
    <3>1. manager = "null" => Devices = <<>>
      BY DEF Devices, GetDevices
    <3>2. QED BY <3>1
  <2>3. manager' \in {GetManager(host), "null"}
    BY <2>1 DEF IInv, TypeOK
  <2>4. QED BY <2>1, <2>2, <2>3, ScanKept DEF InPass, Looking
<1>3. QED BY <1>1, <1>2

(* The steps of the scans. *)
LEMMA StepClassify ==
  ASSUME IInv, Classify
  PROVE  IInv'
<1>1. /\ UNCHANGED <<host, now, hw, conf, manager, stamp, labels, quiet, last, pc, found, first>>
      /\ pc \in {"full", "mig"} /\ at <= N /\ at' = at + 1
      /\ enabled' = IF Device(at).IsMigEnabled THEN enabled \cup {at} ELSE enabled
  BY DEF Classify, run
<1>2. N \in Nat /\ GPUs = 1..N /\ at \in GPUs
  BY <1>1, HostFacts DEF IInv, TypeOK
<1>3. manager = "nvml" \/ ~Device(at).IsMigEnabled
  <2>1. manager # "null"
    BY <1>1 DEF IInv, LookingAtDevices, Looking
  <2>2. QED BY <1>2, <2>1, ManagerFacts, DeviceFacts DEF IInv
<1>4. /\ at' \in 1..(N + 1) /\ enabled' \subseteq GPUs
      /\ enabled' # {} => manager = "nvml"
  BY <1>1, <1>2, <1>3 DEF IInv, TypeOK, LookingAtDevices
<1>5. /\ found' \in [Profiles -> Nat]
      /\ \A q \in Profiles: first'[q] \in GPUs \cup {1}
      /\ \A q \in Profiles: found'[q] <= IF pc' = "list" THEN (at' - 1) * MaxMigs ELSE 0
  <2>1. found \in [Profiles -> Nat]
    BY HostFacts, ConstantsAssumption DEF IInv, TypeOK
  <2>2. QED BY <1>1, <2>1 DEF IInv, TypeOK, FoundSoFar
<1>6. QED BY <1>1, <1>4, <1>5, ScanAdvanced DEF Looking

(* The types that a step of a scan finds. *)
LEMMA ScanFacts ==
  ASSUME IInv
  PROVE  /\ N \in Nat /\ GPUs = 1..N /\ MaxMigs \in Nat
         /\ at \in 1..(N + 1) /\ enabled \subseteq GPUs
         /\ enabled # {} => manager = "nvml"
         /\ found \in [Profiles -> Nat]
         /\ \A q \in Profiles: first[q] \in GPUs \cup {1}
         /\ pc # "list" => \A q \in Profiles: found[q] = 0
<1>1. N \in Nat /\ GPUs = 1..N /\ MaxMigs \in Nat
  BY HostFacts, ConstantsAssumption DEF IInv
<1>2. found \in [Profiles -> Nat]
  BY <1>1 DEF IInv, TypeOK
<1>3. pc # "list" => \A q \in Profiles: found[q] = 0
  BY <1>2 DEF IInv, FoundSoFar
<1>4. QED BY <1>1, <1>2, <1>3 DEF IInv, TypeOK, LookingAtDevices

(* A strategy goes on from the first GPU. *)
LEMMA ScanRestarted ==
  ASSUME IInv, pc \in {"mig", "empty"}, pc' \in Looking, at' = 1,
         UNCHANGED <<host, now, hw, run, enabled, found, first, labels, quiet, last>>
  PROVE  IInv'
<1>1. pc # "list" /\ pc \in Looking /\ UNCHANGED <<conf, manager, stamp>>
  BY DEF Looking, run
<1>2. 0 * MaxMigs = 0 /\ at' \in 1..(N + 1) /\ at' - 1 = 0
  BY ScanFacts
<1>3. \A q \in Profiles: found'[q] = 0
  BY <1>1, ScanFacts
<1>4. QED BY <1>1, <1>2, <1>3, ScanFacts, ScanAdvanced

LEMMA StepChooseStrategy ==
  ASSUME IInv, ChooseStrategy
  PROVE  IInv'
<1>1. CASE Add(Empty)
  BY <1>1, StepAdd
<1>2. CASE ~Add(Empty)
  <2>1. /\ pc = "mig" /\ pc' \in {"empty", "list"} /\ at' = 1
        /\ UNCHANGED <<host, now, hw, run, enabled, found, first, labels, quiet, last>>
    BY <1>2 DEF ChooseStrategy
  <2>2. QED BY <2>1, ScanRestarted DEF Looking
<1>3. QED BY <1>1, <1>2

LEMMA StepCheckEmpty ==
  ASSUME IInv, CheckEmpty
  PROVE  IInv'
<1>1. CASE Invalid
  BY <1>1, StepAdd DEF Invalid
<1>2. CASE at <= N /\ ~Invalid
  <2>1. /\ at' = at + 1
        /\ UNCHANGED <<host, now, hw, conf, manager, stamp, pc, enabled, found, first,
                       labels, quiet, last>>
        /\ pc = "empty"
    BY <1>2 DEF CheckEmpty, run
  <2>2. at' \in 1..(N + 1) /\ pc # "list" /\ pc' # "list" /\ pc \in Looking
    BY <1>2, <2>1, ScanFacts DEF Looking
  <2>3. QED BY <2>1, <2>2, ScanFacts, ScanAdvanced
<1>3. CASE ~(at <= N) /\ ~Invalid
  <2>1. /\ pc = "empty" /\ pc' = "list" /\ at' = 1
        /\ UNCHANGED <<host, now, hw, run, enabled, found, first, labels, quiet, last>>
    BY <1>3 DEF CheckEmpty
  <2>2. QED BY <2>1, ScanRestarted DEF Looking
<1>4. QED BY <1>1, <1>2, <1>3

(* Each GPU adds at most MaxMigs devices of a profile. *)
LEMMA OneMoreGPU ==
  ASSUME NEW m \in Nat, NEW i \in Nat \ {0}, NEW f \in Nat, NEW h \in 0..m,
         f <= (i - 1) * m
  PROVE  f + h \in Nat /\ f + h <= ((i + 1) - 1) * m
<1>1. ((i + 1) - 1) * m = (i - 1) * m + m
  OBVIOUS
<1>2. (i - 1) * m \in Int
  <2>1. i - 1 \in Int
    OBVIOUS
  <2>2. QED BY <2>1
<1>3. QED BY <1>1, <1>2

LEMMA StepListMigs ==
  ASSUME IInv, ListMigs
  PROVE  IInv'
<1> DEFINE here == IF at \in enabled THEN Device(at).GetMigDevices ELSE NoMigs
<1>1. /\ UNCHANGED <<host, now, hw, conf, manager, stamp, pc, enabled, labels, quiet, last>>
      /\ pc = "list" /\ at <= N /\ at' = at + 1
      /\ found' = [q \in Profiles |-> found[q] + here[q]]
      /\ first' = [q \in Profiles |-> IF found[q] = 0 /\ here[q] > 0 THEN at ELSE first[q]]
  BY DEF ListMigs, run
<1>2. here \in [Profiles -> 0..MaxMigs]
  <2>1. CASE at \in enabled
    <3>1. at \in GPUs /\ manager = "nvml"
      BY <2>1, ScanFacts
    <3>2. here = hw[at].migs
      BY <2>1, <3>1, DeviceFacts DEF IInv
    <3>3. hw[at] \in GPUStates(at)
      BY <3>1 DEF IInv, TypeOK
    <3>4. QED BY <3>2, <3>3, StateFacts
  <2>2. CASE at \notin enabled
    BY <2>2, ConstantsAssumption DEF NoMigs
  <2>3. QED BY <2>1, <2>2
<1> HIDE DEF here
<1>3. at \in GPUs /\ at \in Nat \ {0} /\ at' \in 1..(N + 1)
  BY <1>1, ScanFacts
<1>4. \A q \in Profiles: found'[q] \in Nat /\ found'[q] <= (at' - 1) * MaxMigs
  <2>1. SUFFICES ASSUME NEW q \in Profiles
                 PROVE  found'[q] \in Nat /\ found'[q] <= (at' - 1) * MaxMigs
    OBVIOUS
  <2>2. found[q] \in Nat /\ found[q] <= (at - 1) * MaxMigs
    BY <1>1, ScanFacts DEF IInv, FoundSoFar
  <2>3. here[q] \in 0..MaxMigs
    BY <1>2
  <2>4. MaxMigs \in Nat
    BY ScanFacts
  <2>5. found[q] + here[q] \in Nat /\ found[q] + here[q] <= ((at + 1) - 1) * MaxMigs
    BY <1>3, <2>2, <2>3, <2>4, OneMoreGPU
  <2>6. QED BY <1>1, <2>5
<1>5. found' \in [Profiles -> Nat] /\ \A q \in Profiles: first'[q] \in GPUs \cup {1}
  BY <1>1, <1>3, <1>4, ScanFacts
<1>6. pc \in Looking /\ pc' \in Looking /\ pc' = "list"
  BY <1>1 DEF Looking
<1>7. QED BY <1>1, <1>3, <1>4, <1>5, <1>6, ScanFacts, ScanAdvanced

LEMMA StepLabelMigs ==
  ASSUME IInv, LabelMigs
  PROVE  IInv'
<1>1. PICK more: Add(more)
  BY DEF LabelMigs, Invalid
<1>2. QED BY <1>1, StepAdd

LEMMA StepIInv == IInv /\ [Next]_vars => IInv'
<1> SUFFICES ASSUME IInv, [Next]_vars
             PROVE  IInv'
  OBVIOUS
<1>1. ASSUME NEW g \in GPUs, Reconfigure(g) PROVE IInv'
  BY <1>1, StepReconfigure
<1>2. CASE Tick
  BY <1>2, StepTick
<1>3. CASE Load \/ Timer
  BY <1>3, StepRuns
<1>4. CASE Fail
  BY <1>4, StepAbort DEF Fail
<1>5. CASE InitLibrary \/ BasicLabels \/ LabelVGPUs
  BY <1>5, StepBasics
<1>6. CASE Classify
  BY <1>6, StepClassify
<1>7. CASE LabelFullGPUs
  BY <1>7, StepLabelFullGPUs
<1>8. CASE ChooseStrategy
  BY <1>8, StepChooseStrategy
<1>9. CASE CheckEmpty
  BY <1>9, StepCheckEmpty
<1>10. CASE ListMigs
  BY <1>10, StepListMigs
<1>11. CASE LabelMigs
  BY <1>11, StepLabelMigs
<1>12. CASE UNCHANGED vars
  BY <1>12, StepStutter
<1>13. QED
  BY <1>1, <1>2, <1>3, <1>4, <1>5, <1>6, <1>7, <1>8, <1>9, <1>10, <1>11, <1>12 DEF Next

LEMMA InitIInv == Init => IInv
<1> SUFFICES ASSUME Init
             PROVE  IInv
  OBVIOUS
<1>1. host \in Hosts /\ host.gpus \in Seq(Models) /\ MaxMigs \in Nat /\ MaxTime \in Nat
  BY ConstantsAssumption DEF Init
<1>2. N \in Nat /\ N * MaxMigs \in Nat
  <2>1. N \in Nat
    BY <1>1 DEF N
  <2>2. QED BY <1>1, <2>1
<1>3. DOMAIN hw = GPUs /\ \A g \in GPUs: hw[g] \in GPUStates(g)
  BY DEF Init, GPUStates
<1>4. found \in [Profiles -> 0..(N * MaxMigs)] /\ \A q \in Profiles: found[q] = 0
  BY <1>2 DEF Init, NoMigs
<1>5. /\ now = 0 /\ conf \in Configs /\ manager = "null" /\ stamp = 0 /\ pc = "off"
      /\ at = 1 /\ enabled = {} /\ quiet = TRUE /\ last = Nothing
      /\ \A q \in Profiles: first[q] = 1
  BY DEF Init
<1>6. TypeOK
  BY <1>1, <1>2, <1>3, <1>4, <1>5 DEF TypeOK
<1>7. LookingAtDevices /\ FoundSoFar
  BY <1>4, <1>5 DEF LookingAtDevices, FoundSoFar, Looking
<1>8. QED BY <1>6, <1>7 DEF IInv

(* The inductive invariant: types, devices only where a manager has them, and *)
(* as many MIG devices listed as the GPUs so far may have.                 *)
THEOREM Invariance == Spec => []IInv
  BY InitIInv, StepIInv, PTL DEF Spec

(* The variables of Discovery keep their types; what is listed of one kind *)
(* never exceeds what the GPUs can have, whatever is reconfigured between  *)
(* two queries.                                                            *)
THEOREM TypeCorrect == Spec => []TypeOK
<1>1. IInv => TypeOK
  BY DEF IInv
<1>2. QED BY Invariance, <1>1, PTL

(* No pass asks a device or manager for what its kind cannot answer: the   *)
(* CUDA devices' GetMigDevices and the null manager's versions, which are  *)
(* errors always, are out of reach.                                        *)
THEOREM OnlySupportedIsAsked == Spec => []NoUnsupported
<1>1. IInv => NoUnsupported
  <2> SUFFICES ASSUME IInv
               PROVE  NoUnsupported
    OBVIOUS
  <2>t. TypeOK
    BY DEF IInv
  <2>u. /\ TRUE # Unsupported /\ FALSE # Unsupported
        /\ \A m \in [Profiles -> 0..MaxMigs]: m # Unsupported
    <3>1. [Profiles -> 0..MaxMigs] \subseteq [Profiles -> Nat]
      BY ConstantsAssumption
    <3>2. QED BY <3>1, ConstantsAssumption
  <2>1. ASSUME pc = "basic", Devices # <<>>
        PROVE  /\ GetDriverVersion(manager, host) # Unsupported
               /\ GetCudaDriverVersion(manager, host) # Unsupported
               /\ \A g \in GPUs: Device(g).IsMigCapable # Unsupported
    <3>1. manager \in {"nvml", "cuda"}
      <4>1. manager = "null" => Devices = <<>>
        BY DEF Devices, GetDevices
      <4>2. QED BY <2>1, <2>t, <4>1, ManagerFacts
    <3>2. host.driver # Unsupported /\ <<Unknown, Unknown, Unknown>> # Unsupported
      BY <2>t, HostFacts, ConstantsAssumption
    <3>3. GetDriverVersion(manager, host) # Unsupported
      <4>1. GetDriverVersion("nvml", host) = host.driver
        BY DEF GetDriverVersion
      <4>2. GetDriverVersion("cuda", host) = <<Unknown, Unknown, Unknown>>
        BY DEF GetDriverVersion
      <4>3. QED BY <3>1, <3>2, <4>1, <4>2
    <3>4. GetCudaDriverVersion(manager, host) # Unsupported
      <4>1. host.cuda \in Nat
        BY <2>t, ConstantsAssumption DEF TypeOK
      <4>2. \A v \in Nat: /\ v \div 1000 \in Nat
                          /\ (v % 1000) \div 10 \in Nat /\ (v % 100) \div 10 \in Nat
        OBVIOUS
      <4>3. /\ <<host.cuda \div 1000, NvmlMinor(host.cuda)>> \in Nat \X Nat
            /\ <<host.cuda \div 1000, CudaMinor(host.cuda)>> \in Nat \X Nat
        BY <4>1, <4>2 DEF NvmlMinor, CudaMinor
      <4>4. GetCudaDriverVersion("nvml", host)
              = <<host.cuda \div 1000, NvmlMinor(host.cuda)>>
        BY DEF GetCudaDriverVersion
      <4>5. GetCudaDriverVersion("cuda", host)
              = <<host.cuda \div 1000, CudaMinor(host.cuda)>>
        BY DEF GetCudaDriverVersion
      <4>6. QED BY <3>1, <4>3, <4>4, <4>5, ConstantsAssumption
    <3>5. ASSUME NEW g \in GPUs PROVE Device(g).IsMigCapable # Unsupported
      <4>1. CASE manager = "nvml"
        <5>1. Device(g).IsMigCapable \in BOOLEAN
          BY <2>t, <4>1, DeviceFacts
        <5>2. QED BY <5>1, ConstantsAssumption
      <4>2. CASE manager = "cuda"
        BY <2>t, <2>u, <4>2, DeviceFacts
      <4>3. QED BY <3>1, <4>1, <4>2
    <3>6. QED BY <3>3, <3>4, <3>5
  <2>2. ASSUME pc \in {"full", "mig"}, at <= N
        PROVE  Device(at).IsMigEnabled # Unsupported
    <3>1. at \in GPUs /\ manager \in {"nvml", "cuda"}
      BY <2>2, <2>t, ScanFacts, ManagerFacts DEF IInv, LookingAtDevices, Looking
    <3>2. hw[at].mig \in BOOLEAN
      BY <2>t, <3>1, StateFacts DEF TypeOK
    <3>3. QED BY <2>t, <2>u, <3>1, <3>2, DeviceFacts
  <2>3. ASSUME pc \in {"empty", "list"}, at \in enabled
        PROVE  Device(at).GetMigDevices # Unsupported
    <3>1. at \in GPUs /\ manager = "nvml"
      BY <2>3, ScanFacts
    <3>2. hw[at].migs \in [Profiles -> 0..MaxMigs]
      BY <2>t, <3>1, StateFacts DEF TypeOK
    <3>3. QED BY <2>t, <2>u, <3>1, <3>2, DeviceFacts
  <2>4. QED BY <2>1, <2>2, <2>3 DEF NoUnsupported
<1>2. QED BY Invariance, <1>1, PTL

-----------------------------------------------------------------------------
(* The modes and MIG devices of the GPUs.                                  *)

(* A GPU without MIG has no MIG devices, and only NVML hosts have MIG. *)
LEMMA ModeFacts ==
  ASSUME TypeOK, NEW g \in GPUs
  PROVE  /\ hw[g].mig \in BOOLEAN
         /\ hw[g].migs \in [Profiles -> 0..MaxMigs]
         /\ ~hw[g].mig => hw[g].migs = NoMigs
         /\ hw[g].mig => host.nvml /\ ModelOf(g) \in Capable
<1>1. hw[g] \in GPUStates(g)
  BY DEF TypeOK
<1>2. hw[g].mig \in BOOLEAN /\ hw[g].migs \in [Profiles -> 0..MaxMigs]
  BY <1>1, StateFacts
<1>3. CASE hw[g] = NoMode
  BY <1>2, <1>3 DEF NoMode
<1>4. CASE hw[g] # NoMode
  <2>1. host.nvml /\ ModelOf(g) \in Capable
    BY <1>1, <1>4 DEF GPUStates
  <2>2. PICK m \in [Profiles -> 0..MaxMigs]: hw[g] = [mig |-> TRUE, migs |-> m]
    BY <1>1, <1>4 DEF GPUStates
  <2>3. QED BY <1>2, <2>1, <2>2
<1>5. QED BY <1>3, <1>4

(* Every device that a manager lists knows whether MIG is enabled. *)
LEMMA ModeSaid ==
  ASSUME TypeOK, NEW g \in GPUs, manager # "null"
  PROVE  Device(g).IsMigEnabled <=> g \in MigEnabled
<1>1. CASE manager = "nvml"
  BY <1>1, DeviceFacts DEF MigEnabled
<1>2. CASE manager = "cuda"
  <2>1. manager = GetManager(host) /\ host.nvml \in BOOLEAN
    BY <1>2, HostFacts DEF TypeOK
  <2>2. ~host.nvml
    BY <1>2, <2>1 DEF GetManager
  <2>3. ~hw[g].mig
    BY <2>2, ModeFacts
  <2>4. ~Device(g).IsMigEnabled
    BY <1>2, DeviceFacts
  <2>5. QED BY <2>3, <2>4 DEF MigEnabled
<1>3. QED BY <1>1, <1>2, ManagerFacts

-----------------------------------------------------------------------------
(* The MIG devices of a profile on the GPUs before the i-th. *)
Before(q, i) == {d \in DevicesOf(q): d[1] < i}

(* They are finitely many, none before the first GPU, all before the end. *)
LEMMA DevicesBefore ==
  ASSUME TypeOK, NEW q \in Profiles
  PROVE  /\ IsFiniteSet(DevicesOf(q))
         /\ \A i \in Nat: IsFiniteSet(Before(q, i)) /\ Cardinality(Before(q, i)) \in Nat
         /\ Before(q, 1) = {} /\ Cardinality(Before(q, 1)) = 0
         /\ Before(q, N + 1) = DevicesOf(q)
<1>1. N \in Nat /\ GPUs = 1..N /\ MaxMigs \in Nat
  BY HostFacts, ConstantsAssumption
<1>2. IsFiniteSet(GPUs \X (1..MaxMigs))
  <2>1. 1 \in Int /\ N \in Int /\ MaxMigs \in Int
    BY <1>1
  <2>2. IsFiniteSet(1..N) /\ IsFiniteSet(1..MaxMigs)
    BY <2>1, FS_Interval
  <2>3. QED BY <1>1, <2>2, FS_Product
<1>3. IsFiniteSet(DevicesOf(q))
  <2>1. DevicesOf(q) \in SUBSET (GPUs \X (1..MaxMigs))
    BY DEF DevicesOf
  <2>2. QED BY <1>2, <2>1, FS_Subset
<1>4. ASSUME NEW i \in Nat
      PROVE  IsFiniteSet(Before(q, i)) /\ Cardinality(Before(q, i)) \in Nat
  <2>1. Before(q, i) \in SUBSET DevicesOf(q)
    BY DEF Before
  <2>2. QED BY <1>3, <2>1, FS_Subset, FS_CardinalityType
<1>5. \A d \in DevicesOf(q): d[1] \in 1..N
  BY <1>1 DEF DevicesOf
<1>6. Before(q, 1) = {} /\ Before(q, N + 1) = DevicesOf(q)
  BY <1>1, <1>5 DEF Before
<1>7. QED BY <1>3, <1>4, <1>6, FS_EmptySet

(* Each GPU adds its own. *)
LEMMA DevicesOfOne ==
  ASSUME TypeOK, NEW q \in Profiles, NEW g \in GPUs
  PROVE  Cardinality(Before(q, g + 1)) = Cardinality(Before(q, g)) + hw[g].migs[q]
<1> DEFINE n == hw[g].migs[q]
<1> DEFINE here == {g} \X (1..n)
<1>1. N \in Nat /\ GPUs = 1..N /\ MaxMigs \in Nat /\ g \in Nat
  BY HostFacts, ConstantsAssumption
<1>2. n \in 0..MaxMigs
  BY ModeFacts
<1>3. Before(q, g + 1) = Before(q, g) \cup here
  <2>1. ASSUME NEW d \in Before(q, g + 1) PROVE d \in Before(q, g) \cup here
    <3>1. d \in GPUs \X (1..MaxMigs) /\ d[2] <= hw[d[1]].migs[q] /\ d[1] < g + 1
      BY DEF Before, DevicesOf
    <3>2. CASE d[1] = g
      <4>1. d = <<g, d[2]>> /\ d[2] \in 1..n
        BY <3>1, <3>2, <1>1, <1>2
      <4>2. QED BY <4>1
    <3>3. CASE d[1] # g
      <4>1. d[1] < g
        BY <3>1, <3>3, <1>1
      <4>2. QED BY <4>1 DEF Before
    <3>4. QED BY <3>2, <3>3
  <2>2. ASSUME NEW d \in Before(q, g) \cup here PROVE d \in Before(q, g + 1)
    <3>1. CASE d \in Before(q, g)
      <4>1. d \in DevicesOf(q) /\ d[1] < g /\ d[1] \in 1..N
        BY <3>1, <1>1 DEF Before, DevicesOf
      <4>2. QED BY <4>1, <1>1 DEF Before
    <3>2. CASE d \in here
      <4>1. d[1] = g /\ d[2] \in 1..n /\ d = <<d[1], d[2]>>
        BY <3>2
      <4>2. d \in GPUs \X (1..MaxMigs) /\ d[2] <= hw[d[1]].migs[q]
        BY <4>1, <1>1, <1>2
      <4>3. d[1] < g + 1
        BY <4>1, <1>1
      <4>4. QED BY <4>2, <4>3 DEF Before, DevicesOf
    <3>3. QED BY <3>1, <3>2
  <2>3. QED BY <2>1, <2>2
<1>4. IsFiniteSet(here) /\ Cardinality(here) = n
  <2>1. IsFiniteSet({g}) /\ Cardinality({g}) = 1
    BY FS_Singleton
  <2>2. 1 \in Int /\ n \in Int
    BY <1>2
  <2>3. IsFiniteSet(1..n) /\ Cardinality(1..n) = IF 1 > n THEN 0 ELSE n - 1 + 1
    BY <2>2, FS_Interval
  <2>4. Cardinality(1..n) = n
    BY <1>2, <2>3
  <2> DEFINE one == {g}
  <2> DEFINE some == 1..n
  <2>5. here = one \X some /\ n \in Nat /\ 1 * n = n
    BY <1>2
  <2>6. IsFiniteSet(one) /\ Cardinality(one) = 1 /\ IsFiniteSet(some) /\ Cardinality(some) = n
    BY <2>1, <2>3, <2>4
  <2> HIDE DEF one, some, here, n
  <2>7. IsFiniteSet(one \X some) /\ Cardinality(one \X some) = 1 * n
    BY <2>6, FS_Product
  <2>8. QED BY <2>5, <2>7
<1>5. IsFiniteSet(Before(q, g)) /\ Cardinality(Before(q, g)) \in Nat
  BY <1>1, DevicesBefore
<1>6. Before(q, g) \cap here = {}
  BY <1>1 DEF Before
<1> HIDE DEF here, n
<1>7. Cardinality(Before(q, g) \cup here)
        = Cardinality(Before(q, g)) + Cardinality(here) - Cardinality({})
  BY <1>4, <1>5, <1>6, FS_Union
<1>8. Cardinality({}) = 0
  BY FS_EmptySet
<1>9. n \in Nat
  BY <1>2 DEF n
<1>10. Cardinality(Before(q, g + 1)) = Cardinality(Before(q, g)) + n
  <2> DEFINE before == Before(q, g)
  <2> DEFINE all == Before(q, g + 1)
  <2>1. all = before \cup here /\ Cardinality(before) \in Nat
    BY <1>3, <1>5
  <2> HIDE DEF all, before
  <2>2. Cardinality(all) = Cardinality(before) + Cardinality(here) - Cardinality({})
    BY <1>7, <2>1 DEF before
  <2>3. Cardinality(all) = Cardinality(before) + n
    BY <1>4, <1>8, <1>9, <2>1, <2>2
  <2>4. QED BY <2>3 DEF all, before
<1>11. QED BY <1>10 DEF n

-----------------------------------------------------------------------------
(* What a pass has seen, step by step.                                     *)

Scan == Chosen /\ Seen

(* Outside of a scan nothing has been seen. *)
LEMMA NotScanning ==
  ASSUME pc' \in {"off", "init", "basic", "vgpu", "done"}, pc' \in {"init", "basic"} => at' = 1
  PROVE  Scan'
  BY DEF Scan, Chosen, Seen

(* What depends on the hardware only. *)
LEMMA HardwareKept ==
  ASSUME UNCHANGED <<host, hw>>
  PROVE  /\ UNCHANGED <<N, GPUs, MigEnabled>>
         /\ \A q: DevicesOf(q)' = DevicesOf(q)
         /\ \A q, i: Before(q, i)' = Before(q, i)
  BY DEF N, GPUs, MigEnabled, DevicesOf, Before

(* The parts of Seen, for the steps of a scan. *)
LEMMA SeenAs ==
  Seen <=>
    (quiet =>
      /\ pc \in {"full", "mig"} => enabled = {g \in MigEnabled: g < at}
      /\ pc \in {"empty", "list"} => enabled = MigEnabled
      /\ pc = "empty" => \A g \in enabled: g < at => hw[g].migs # NoMigs
      /\ pc = "list" /\ conf.strategy = "single" =>
           MigEnabled = GPUs /\ \A g \in GPUs: hw[g].migs # NoMigs
      /\ pc = "list" =>
           \A q \in Profiles:
             /\ found[q] = Cardinality(Before(q, at))
             /\ found[q] > 0 => /\ first[q] < at /\ hw[first[q]].migs[q] > 0
                                /\ \A g \in 1..(first[q] - 1): hw[g].migs[q] = 0
             /\ found[q] = 0 => \A g \in 1..(at - 1): hw[g].migs[q] = 0)
  BY DEF Seen, Before

(* After a reconfiguration, Seen says nothing until the next pass. *)
LEMMA ScanReconfigure ==
  ASSUME Scan, NEW g \in GPUs, Reconfigure(g)
  PROVE  Scan'
<1>1. UNCHANGED <<conf, pc, at, enabled>> /\ quiet' = FALSE
  BY DEF Reconfigure, run, scan
<1>2. QED BY <1>1 DEF Scan, Chosen, Seen

(* Steps after which there is no scan. *)
LEMMA ScanOutside ==
  ASSUME IInv, Scan, Load \/ Timer \/ Abort \/ Tick \/ LabelVGPUs \/ InitLibrary
  PROVE  Scan'
<1>1. Scan /\ pc = "init" => at = 1
  BY DEF Scan, Chosen
<1>2. CASE Load \/ Timer \/ Abort
  BY <1>2, NotScanning DEF Load, Timer, Abort, NewPass, Fresh
<1>3. CASE Tick
  BY <1>3, NotScanning DEF Tick, scan
<1>4. CASE LabelVGPUs /\ ~Abort
  BY <1>4, NotScanning DEF LabelVGPUs
<1>5. CASE InitLibrary /\ ~Abort
  <2>1. pc' = "basic" /\ at' = 1
    BY <1>1, <1>5 DEF InitLibrary, Goto, scan
  <2>2. QED BY <2>1, NotScanning
<1>6. QED BY <1>2, <1>3, <1>4, <1>5

(* Adding the labels of MIG devices ends the scan. *)
LEMMA ScanAdd ==
  ASSUME NEW more, Add(more)
  PROVE  Scan'
  BY NotScanning DEF Add

(* A step that changes nothing. *)
LEMMA ScanStutter ==
  ASSUME Scan, UNCHANGED vars
  PROVE  Scan'
<1>1. UNCHANGED <<host, hw, conf, pc, at, enabled, found, first, quiet>>
  BY DEF vars, run, scan
<1>2. UNCHANGED <<N, GPUs, MigEnabled>> /\ \A q: DevicesOf(q)' = DevicesOf(q)
  BY <1>1, HardwareKept
<1>3. Chosen'
  BY <1>1 DEF Scan, Chosen
<1>4. Seen'
  BY <1>1, <1>2 DEF Scan, Seen, NoMigs
<1>5. QED BY <1>3, <1>4 DEF Scan

(* The scans begin. *)
LEMMA ScanBasic ==
  ASSUME IInv, Scan, BasicLabels
  PROVE  Scan'
<1>1. CASE Abort
  BY <1>1, ScanOutside
<1>2. CASE pc' = "vgpu"
  BY <1>2, NotScanning
<1>3. CASE ~Abort /\ pc' # "vgpu"
  <2>1. pc = "basic" /\ pc' = "full" /\ UNCHANGED <<host, hw, at, enabled>>
    BY <1>3 DEF BasicLabels, Goto, scan
  <2>2. enabled' = {} /\ at' = 1
    BY <2>1 DEF IInv, LookingAtDevices, Looking, Scan, Chosen
  <2>3. {g \in MigEnabled': g < 1} = {}
    <3>1. GPUs' = 1..N /\ N \in Nat
      BY <2>1, HostFacts, HardwareKept DEF IInv
    <3>2. QED BY <3>1 DEF MigEnabled
  <2>4. Seen'
    BY <2>1, <2>2, <2>3, SeenAs DEF Seen
  <2>5. QED BY <2>1, <2>4 DEF Scan, Chosen
<1>4. QED BY <1>1, <1>2, <1>3

(* The second scan begins, for the strategy. *)
LEMMA ScanLabelFullGPUs ==
  ASSUME IInv, Scan, LabelFullGPUs
  PROVE  Scan'
<1>1. /\ UNCHANGED <<host, hw, conf>> /\ at' = 1 /\ enabled' = {}
      /\ pc' \in {"mig", "vgpu"} /\ (pc' = "mig" => conf.strategy # "none")
  BY DEF LabelFullGPUs, Fresh, run
<1>2. {g \in MigEnabled': g < 1} = {}
  <2>1. GPUs' = 1..N /\ N \in Nat
    BY <1>1, HostFacts, HardwareKept DEF IInv
  <2>2. QED BY <2>1 DEF MigEnabled
<1>3. Seen'
  BY <1>1, <1>2 DEF Seen
<1>4. QED BY <1>1, <1>3 DEF Scan, Chosen

(* One more GPU has said whether MIG is enabled. *)
LEMMA ScanClassify ==
  ASSUME IInv, Scan, Classify
  PROVE  Scan'
<1>1. /\ UNCHANGED <<host, hw, conf, manager, quiet, pc>>
      /\ pc \in {"full", "mig"} /\ at <= N /\ at' = at + 1
      /\ enabled' = IF Device(at).IsMigEnabled THEN enabled \cup {at} ELSE enabled
  BY DEF Classify, run
<1>2. N \in Nat /\ GPUs = 1..N /\ at \in GPUs
  BY <1>1, HostFacts DEF IInv, TypeOK
<1>3. manager # "null"
  BY <1>1 DEF IInv, LookingAtDevices, Looking
<1>4. Device(at).IsMigEnabled <=> at \in MigEnabled
  BY <1>2, <1>3, ModeSaid DEF IInv
<1>5. MigEnabled' = MigEnabled
  BY <1>1, HardwareKept
<1>6. quiet => enabled' = {g \in MigEnabled: g < at + 1}
  <2>1. SUFFICES ASSUME quiet PROVE enabled' = {g \in MigEnabled: g < at + 1}
    OBVIOUS
  <2>2. enabled = {g \in MigEnabled: g < at}
    BY <1>1, <2>1 DEF Scan, Seen
  <2>3. MigEnabled \subseteq 1..N /\ at \in Nat
    BY <1>2 DEF MigEnabled
  <2>4. \A g \in MigEnabled: g < at + 1 <=> g < at \/ g = at
    BY <2>3
  <2>5. {g \in MigEnabled: g < at + 1} =
          IF at \in MigEnabled THEN enabled \cup {at} ELSE enabled
    BY <2>2, <2>4
  <2>6. QED BY <1>1, <1>4, <2>5
<1>7. Seen'
  BY <1>1, <1>5, <1>6 DEF Seen
<1>8. QED BY <1>1, <1>7 DEF Scan, Chosen

(* A strategy that begins to look at MIG devices has found none. *)
LEMMA ListBegins ==
  ASSUME IInv, UNCHANGED <<host, hw, conf, enabled, found, first, quiet>>,
         pc # "list", pc' = "list", at' = 1,
         quiet => enabled = MigEnabled,
         quiet /\ conf.strategy = "single" =>
           MigEnabled = GPUs /\ \A g \in GPUs: hw[g].migs # NoMigs
  PROVE  Seen'
<1>1. \A q \in Profiles: /\ found'[q] = 0
                         /\ Cardinality(Before(q, 1))' = 0
  BY ScanFacts, DevicesBefore, HardwareKept DEF IInv
<1>2. UNCHANGED <<GPUs, MigEnabled>>
  BY HardwareKept
<1>3. quiet' => /\ enabled' = MigEnabled'
                /\ conf'.strategy = "single" =>
                     MigEnabled' = GPUs' /\ \A g \in GPUs': hw'[g].migs # NoMigs
  BY <1>2
<1>4. \A q \in Profiles: Cardinality({d \in DevicesOf(q)': d[1] < at'}) = 0
  BY <1>1 DEF Before
<1>5. QED BY <1>1, <1>3, <1>4 DEF Seen, NoMigs

(* All GPUs have been classified for the strategy. *)
LEMMA ScanChooseStrategy ==
  ASSUME IInv, Scan, ChooseStrategy
  PROVE  Scan'
<1>1. CASE Add(Empty)
  BY <1>1, ScanAdd
<1>2. CASE ~Add(Empty)
  <2>1. /\ pc = "mig" /\ at = N + 1 /\ at' = 1
        /\ conf.strategy = "single" => enabled # {}
        /\ pc' = IF conf.strategy = "single" THEN "empty" ELSE "list"
        /\ UNCHANGED <<host, hw, conf, enabled, found, first, quiet>>
    BY <1>2 DEF ChooseStrategy, run
  <2>2. Chosen'
    BY <2>1 DEF Scan, Chosen
  <2>3. quiet => enabled = MigEnabled
    <3>1. quiet => enabled = {g \in MigEnabled: g < N + 1}
      BY <2>1 DEF Scan, Seen
    <3>2. N \in Nat /\ MigEnabled \subseteq 1..N
      BY HostFacts DEF IInv, MigEnabled
    <3>3. \A g \in MigEnabled: g < N + 1
      BY <3>2
    <3>4. QED BY <3>1, <3>3
  <2>4. CASE pc' = "list"
    <3>1. conf.strategy # "single" /\ pc # "list"
      BY <2>1, <2>4
    <3>2. Seen'
      BY <2>1, <2>3, <2>4, <3>1, ListBegins
    <3>3. QED BY <2>2, <3>2 DEF Scan
  <2>5. CASE pc' = "empty"
    <3>1. MigEnabled' = MigEnabled
      BY <2>1, HardwareKept
    <3>2. \A g \in enabled': ~(g < 1)
      <4>1. N \in Nat /\ enabled \subseteq 1..N
        BY ScanFacts
      <4>2. QED BY <2>1, <4>1
    <3>3. Seen'
      BY <2>1, <2>3, <2>5, <3>1, <3>2 DEF Seen
    <3>4. QED BY <2>2, <3>3 DEF Scan
  <2>6. QED BY <2>1, <2>4, <2>5
<1>3. QED BY <1>1, <1>2

(* The MIG devices that a device lists are those of the GPU. *)
LEMMA MigsSaid ==
  ASSUME IInv, NEW g \in enabled
  PROVE  Device(g).GetMigDevices = hw[g].migs
<1>1. g \in GPUs /\ manager = "nvml"
  BY ScanFacts
<1>2. QED BY <1>1, DeviceFacts DEF IInv

(* One more GPU has MIG devices, if MIG is enabled on it. *)
LEMMA ScanCheckEmpty ==
  ASSUME IInv, Scan, CheckEmpty
  PROVE  Scan'
<1>1. CASE Invalid
  BY <1>1, ScanAdd DEF Invalid
<1>2. CASE at <= N /\ ~Invalid
  <2>1. /\ at' = at + 1 /\ pc = "empty"
        /\ UNCHANGED <<host, hw, conf, manager, pc, enabled, quiet>>
        /\ at \in enabled => Device(at).GetMigDevices # NoMigs
    BY <1>2 DEF CheckEmpty, run
  <2>2. Chosen'
    BY <2>1 DEF Scan, Chosen
  <2>3. at \in enabled => hw[at].migs # NoMigs
    BY <2>1, MigsSaid
  <2>4. MigEnabled' = MigEnabled /\ NoMigs' = NoMigs
    BY <2>1, HardwareKept DEF NoMigs
  <2>5. quiet => \A g \in enabled: g < at + 1 => hw[g].migs # NoMigs
    <3>1. enabled \subseteq 1..N /\ at \in Nat /\ N \in Nat
      BY ScanFacts
    <3>2. quiet => \A g \in enabled: g < at => hw[g].migs # NoMigs
      BY <2>1 DEF Scan, Seen
    <3>3. \A g \in enabled: g < at + 1 => g < at \/ g = at
      BY <3>1
    <3>4. QED BY <2>3, <3>2, <3>3
  <2>6. quiet => enabled = MigEnabled
    BY <2>1 DEF Scan, Seen
  <2>7. Seen'
    BY <2>1, <2>4, <2>5, <2>6 DEF Seen
  <2>8. QED BY <2>2, <2>7 DEF Scan
<1>3. CASE ~(at <= N) /\ ~Invalid
  <2>1. /\ pc = "empty" /\ pc' = "list" /\ at' = 1 /\ enabled = GPUs
        /\ UNCHANGED <<host, hw, conf, enabled, found, first, quiet>>
    BY <1>3 DEF CheckEmpty, run
  <2>2. Chosen'
    BY <2>1 DEF Scan, Chosen
  <2>3. \A g \in enabled: g < at
    <3>1. N \in Nat /\ enabled \subseteq 1..N /\ at \in Nat
      BY ScanFacts
    <3>2. QED BY <1>3, <3>1
  <2>4. quiet => /\ enabled = MigEnabled /\ MigEnabled = GPUs
                 /\ \A g \in GPUs: hw[g].migs # NoMigs
    BY <2>1, <2>3 DEF Scan, Seen
  <2>5. pc # "list"
    BY <2>1
  <2>6. Seen'
    BY <2>1, <2>4, <2>5, ListBegins
  <2>7. QED BY <2>2, <2>6 DEF Scan
<1>4. QED BY <1>1, <1>2, <1>3

(* One more GPU has listed its MIG devices. *)
LEMMA ScanListMigs ==
  ASSUME IInv, Scan, ListMigs
  PROVE  Scan'
<1> DEFINE here == IF at \in enabled THEN Device(at).GetMigDevices ELSE NoMigs
<1>1. /\ UNCHANGED <<host, hw, conf, quiet, pc, enabled>>
      /\ pc = "list" /\ at <= N /\ at' = at + 1
      /\ found' = [q \in Profiles |-> found[q] + here[q]]
      /\ first' = [q \in Profiles |-> IF found[q] = 0 /\ here[q] > 0 THEN at ELSE first[q]]
  BY DEF ListMigs, run
<1>2. Chosen'
  BY <1>1 DEF Scan, Chosen
<1>3. N \in Nat /\ GPUs = 1..N /\ at \in GPUs /\ at \in Nat
  BY <1>1, ScanFacts
<1>4. ASSUME quiet PROVE here = hw[at].migs
  <2>1. enabled = MigEnabled
    BY <1>1, <1>4 DEF Scan, Seen
  <2>2. CASE at \in enabled
    BY <2>2, MigsSaid
  <2>3. CASE at \notin enabled
    <3>1. ~hw[at].mig
      BY <1>3, <2>1, <2>3 DEF MigEnabled
    <3>2. QED BY <1>3, <2>3, <3>1, ModeFacts DEF IInv
  <2>4. QED BY <2>2, <2>3
<1> HIDE DEF here
<1>5. ASSUME quiet, NEW q \in Profiles
      PROVE  /\ found'[q] = Cardinality(Before(q, at + 1))
             /\ found'[q] > 0 => /\ first'[q] < at + 1 /\ hw[first'[q]].migs[q] > 0
                                 /\ \A g \in 1..(first'[q] - 1): hw[g].migs[q] = 0
             /\ found'[q] = 0 => \A g \in 1..at: hw[g].migs[q] = 0
  <2> DEFINE n == hw[at].migs[q]
  <2>1. n \in Nat /\ here[q] = n
    <3>1. hw[at].migs \in [Profiles -> 0..MaxMigs]
      BY <1>3, ModeFacts DEF IInv
    <3>2. MaxMigs \in Nat
      BY ConstantsAssumption
    <3>3. QED BY <1>4, <1>5, <3>1, <3>2
  <2>2. found[q] \in Nat /\ first[q] \in Nat
    BY <1>3, ScanFacts
  <2>3. /\ found[q] = Cardinality(Before(q, at))
        /\ found[q] > 0 => /\ first[q] < at /\ hw[first[q]].migs[q] > 0
                           /\ \A g \in 1..(first[q] - 1): hw[g].migs[q] = 0
        /\ found[q] = 0 => \A g \in 1..(at - 1): hw[g].migs[q] = 0
    BY <1>1, <1>5, SeenAs DEF Scan
  <2>4. Cardinality(Before(q, at + 1)) = Cardinality(Before(q, at)) + n
    BY <1>3, DevicesOfOne DEF IInv
  <2>5. /\ found'[q] = found[q] + n
        /\ first'[q] = IF found[q] = 0 /\ n > 0 THEN at ELSE first[q]
    BY <1>1, <2>1
  <2>6. found'[q] = Cardinality(Before(q, at + 1))
    BY <2>3, <2>4, <2>5
  <2> HIDE DEF n
  <2>7. CASE found[q] > 0
    <3>1. first'[q] = first[q] /\ first[q] < at + 1 /\ found'[q] # 0
      BY <1>3, <2>1, <2>2, <2>3, <2>5, <2>7
    <3>2. QED BY <2>3, <2>6, <2>7, <3>1
  <2>8. CASE found[q] = 0
    <3>1. found'[q] = n
      BY <2>1, <2>5, <2>8
    <3>2. CASE n > 0
      <4>1. first'[q] = at /\ at < at + 1 /\ found'[q] # 0 /\ hw[at].migs[q] > 0
        BY <1>3, <2>5, <2>8, <3>1, <3>2 DEF n
      <4>2. QED BY <2>3, <2>6, <2>8, <4>1
    <3>3. CASE n = 0
      <4>1. hw[at].migs[q] = 0 /\ ~(found'[q] > 0)
        BY <3>1, <3>3 DEF n
      <4>2. \A g \in 1..at: g = at \/ g \in 1..(at - 1)
        BY <1>3
      <4>3. QED BY <2>3, <2>6, <2>8, <4>1, <4>2
    <3>4. QED BY <2>1, <3>2, <3>3
  <2>9. QED BY <2>2, <2>7, <2>8
<1>6. /\ MigEnabled' = MigEnabled /\ GPUs' = GPUs /\ NoMigs' = NoMigs
      /\ \A q: {d \in DevicesOf(q)': d[1] < at'} = Before(q, at + 1)
  <2>1. \A q: DevicesOf(q)' = DevicesOf(q)
    BY <1>1, HardwareKept
  <2>2. QED BY <1>1, <2>1, HardwareKept DEF NoMigs, Before
<1>7. quiet => /\ enabled = MigEnabled
               /\ conf.strategy = "single" =>
                    MigEnabled = GPUs /\ \A g \in GPUs: hw[g].migs # NoMigs
  BY <1>1 DEF Scan, Seen
<1>8. at' - 1 = at
  BY <1>1, <1>3
<1>9. Seen'
  BY <1>1, <1>5, <1>6, <1>7, <1>8 DEF Seen
<1>10. QED BY <1>2, <1>9 DEF Scan

(* All GPUs have listed theirs. *)
LEMMA ScanLabelMigs ==
  ASSUME LabelMigs
  PROVE  Scan'
<1>1. PICK more: Add(more)
  BY DEF LabelMigs, Invalid
<1>2. QED BY <1>1, ScanAdd

(* Every step keeps what the pass knows of the GPUs. *)
LEMMA StepScan == IInv /\ Scan /\ [Next]_vars => Scan'
<1> SUFFICES ASSUME IInv, Scan, [Next]_vars
             PROVE  Scan'
  OBVIOUS
<1>1. ASSUME NEW g \in GPUs, Reconfigure(g) PROVE Scan'
  BY <1>1, ScanReconfigure
<1>2. CASE Load \/ Timer \/ Tick \/ LabelVGPUs \/ InitLibrary
  BY <1>2, ScanOutside
<1>3. CASE Fail
  BY <1>3, ScanOutside DEF Fail
<1>4. CASE BasicLabels
  BY <1>4, ScanBasic
<1>5. CASE Classify
  BY <1>5, ScanClassify
<1>6. CASE LabelFullGPUs
  BY <1>6, ScanLabelFullGPUs
<1>7. CASE ChooseStrategy
  BY <1>7, ScanChooseStrategy
<1>8. CASE CheckEmpty
  BY <1>8, ScanCheckEmpty
<1>9. CASE ListMigs
  BY <1>9, ScanListMigs
<1>10. CASE LabelMigs
  BY <1>10, ScanLabelMigs
<1>11. CASE UNCHANGED vars
  BY <1>11, ScanStutter
<1>12. QED
  BY <1>1, <1>2, <1>3, <1>4, <1>5, <1>6, <1>7, <1>8, <1>9, <1>10, <1>11 DEF Next

(* What a pass has seen of the GPUs is how they are, if nothing was         *)
(* reconfigured since it began: DeviceInfo and the strategies look at every *)
(* GPU, and the MIG devices counted are those that there are.               *)
THEOREM ScanInvariance == Spec => [](IInv /\ Scan)
<1>1. Init => Scan
  BY DEF Init, Scan, Chosen, Seen
<1>2. QED BY InitIInv, StepIInv, <1>1, StepScan, PTL DEF Spec
=============================================================================
