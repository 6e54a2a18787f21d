----------------------------- MODULE Discovery -----------------------------
(***************************************************************************)
(* One labelling pass after another over a node whose MIG configuration    *)
(* changes meanwhile (run, NewLabelers, NewNVMLLabeler, NewResourceLabeler *)
(* and what they call).  Every query of a device whose answer can change   *)
(* is a step of its own: the pass reads the MIG mode of every GPU twice,   *)
(* once for the full GPUs and once for the MIG strategy, and the strategy  *)
(* "single" also reads the MIG devices twice.  An administrator may enable *)
(* or disable MIG and make or destroy MIG devices between any two of them, *)
(* and any query may fail, which ends the program.                         *)
(***************************************************************************)
EXTENDS ResourceLabels, FiniteSetsExt, SequencesExt

CONSTANTS Hosts,      \* the hosts considered
          Configs,    \* the configurations considered
          Nothing,    \* no labels, or a machine type that cannot be read
          MaxMigs,    \* bound: MIG devices on one GPU
          MaxTime     \* bound: when the clock stops

(* A host: what getManager finds, the model of each GPU in the order in    *)
(* which the library lists them, the versions (see Adapters), the content  *)
(* of the machine type file, and the outcome of looking for vGPUs.         *)
VGPUs == {"none", "present", "error"}
HostType == [nvml: BOOLEAN, tegra: BOOLEAN, gpus: Seq(Models),
             driver: Seq(STRING), cuda: Nat, machine: STRING \cup {Nothing},
             vgpu: VGPUs]

ConfigType == [strategy: {"none", "single", "mixed"},
               replicas: [Resources -> Nat \ {0}], renamed: BOOLEAN,
               noTimestamp: BOOLEAN, failOnInitError: BOOLEAN]

ASSUME ConstantsAssumption ==
  /\ MaxMigs \in Nat /\ MaxTime \in Nat
  /\ Capable \subseteq Models
  /\ Bytes \in [Models -> Nat]
  /\ Compute \in [Models -> Nat \X Nat]
  /\ ProfileMemory \in [Profiles -> Nat]
  /\ \A h \in Hosts: /\ h.nvml \in BOOLEAN /\ h.gpus \in Seq(Models) /\ h.vgpu \in VGPUs
                     /\ h.driver # Unsupported /\ h.cuda \in Nat
  /\ Unsupported # <<Unknown, Unknown, Unknown>>
  /\ Unsupported \notin BOOLEAN /\ Unsupported \notin Nat \X Nat
  /\ Unsupported \notin [Profiles -> Nat]
  /\ Configs \subseteq ConfigType
  /\ NoConfig \notin Configs

(* The prefixes of the labels, nvidia.com/gpu., nvidia.com/mig-<profile>., *)
(* nvidia.com/mig. and so on, are all different, and no product is named   *)
(* like one of the parts that the program adds to it.                      *)
Groups == {"cuda", "mig", "gfd", "vgpu"}
ASSUME NamesAssumption ==
  /\ IsFiniteSet(Profiles)
  /\ Profiles \cap (Groups \cup {"gpu", "SHARED", "INVALID"}) = {}
  /\ "SHARED" \notin Models

VARIABLES host,     \* the host; it stays the same
          now,      \* the clock, of which only the runs of run() see anything
          hw,       \* each GPU's MIG mode and number of MIG devices per profile
          conf,     \* the configuration of the process
          manager,  \* the resource manager in use
          stamp,    \* the time in the timestamp labeler
          pc,       \* what the pass does next; "off" before a run
          at,       \* the GPU it looks at
          enabled,  \* GPUs seen with MIG enabled by the current DeviceInfo
          found,    \* MIG devices listed so far, per profile
          first,    \* the GPU of the first one listed, per profile
          labels,   \* labels of the pass so far
          quiet,    \* nothing changed since the pass began
          last      \* labels of the last pass, if nothing changed since

scan == <<at, enabled, found, first>>
run == <<conf, manager, stamp>>
vars == <<host, now, hw, run, pc, scan, labels, quiet, last>>

N == Len(host.gpus)
GPUs == 1..N
ModelOf(g) == host.gpus[g]

(* Only NVML systems have MIG. *)
NoMigs == [q \in Profiles |-> 0]
NoMode == [mig |-> FALSE, migs |-> NoMigs]
GPUStates(g) ==
  {NoMode} \cup
  IF host.nvml /\ ModelOf(g) \in Capable
  THEN {[mig |-> TRUE, migs |-> m]:
          m \in {f \in [Profiles -> 0..MaxMigs]:
                   SumFunction(f) <= MaxMigs}}
  ELSE {}

InPass == {"init", "basic", "full", "mig", "empty", "list", "vgpu"}

TypeOK == /\ host \in Hosts /\ now \in 0..MaxTime
          /\ DOMAIN hw = GPUs /\ \A g \in GPUs: hw[g] \in GPUStates(g)
          /\ conf \in Configs
          /\ manager \in {GetManager(host), "null"} /\ stamp \in 0..now
          /\ pc \in InPass \cup {"off", "done"}
          /\ at \in 1..(N + 1)
          /\ enabled \subseteq GPUs
          /\ found \in [Profiles -> 0..(N * MaxMigs)]
          /\ \A q \in Profiles: first[q] \in GPUs \cup {1}
          /\ quiet \in BOOLEAN
          /\ last # Nothing => pc \in InPass \cup {"done"}

(* Mutant: the MIG devices grouped by an earlier pass are kept. *)
FreshKeepingFound == at' = 1 /\ enabled' = {} /\ UNCHANGED <<found, first>>

(* A new DeviceInfo, or nothing left of the last one. *)
Fresh == at' = 1 /\ enabled' = {} /\ found' = NoMigs
         /\ first' = [q \in Profiles |-> 1]

Init == /\ host \in Hosts /\ now = 0
        /\ hw = [g \in GPUs |-> NoMode]
        /\ conf \in Configs
        /\ manager = "null" /\ stamp = 0
        /\ pc = "off"
        /\ at = 1 /\ enabled = {} /\ found = NoMigs
        /\ first = [q \in Profiles |-> 1]
        /\ labels = Empty
        /\ quiet = TRUE
        /\ last = Nothing

(* The administrator reconfigures a GPU. *)
Reconfigure(g) == /\ \E s \in GPUStates(g) \ {hw[g]}: hw' = [hw EXCEPT ![g] = s]
                  /\ quiet' = FALSE
                  /\ last' = Nothing
                  /\ UNCHANGED <<host, now, run, pc, scan, labels>>

(* Time passes.  The clock is read where a run begins only, so it may as   *)
(* well stand still during a pass.                                         *)
Tick == /\ pc \in {"off", "done"}
        /\ now < MaxTime
        /\ now' = now + 1
        /\ UNCHANGED <<host, hw, run, pc, scan, labels, quiet, last>>

-----------------------------------------------------------------------------
(* The runs and passes.                                                    *)

NewPass == pc' = "init" /\ labels' = Empty /\ quiet' = TRUE /\ Fresh

(* The program starts or reloads: another configuration, a new manager, a  *)
(* new timestamp labeler.                                                  *)
Load == /\ pc \in {"off", "done"}
        /\ conf' \in Configs
        /\ manager' = GetManager(host)
        /\ stamp' = now
        /\ last' = Nothing
        /\ NewPass
        /\ UNCHANGED <<host, now, hw>>

(* Mutant: the timestamp taken by every pass. *)
TimerStamping == /\ pc = "done"
                 /\ last' = IF quiet THEN labels ELSE Nothing
                 /\ stamp' = now
                 /\ NewPass
                 /\ UNCHANGED <<host, now, hw, conf, manager>>

(* Another pass of the same run. *)
Timer == /\ pc = "done"
         /\ last' = IF quiet THEN labels ELSE Nothing
         /\ NewPass
         /\ UNCHANGED <<host, now, hw, run>>

(* The pass fails and with it the program: it has no labels. *)
Abort == pc' = "off" /\ labels' = Empty /\ last' = Nothing /\ Fresh
         /\ UNCHANGED <<host, now, hw, run, quiet>>

(* A query of the manager or of a device fails, or one of sysfs. *)
Fail == /\ \/ pc \in InPass \ {"init", "vgpu"} /\ manager # "null"
           \/ pc = "vgpu"
        /\ Abort

Goto(l) == pc' = l /\ UNCHANGED <<host, now, hw, run, scan, labels, quiet, last>>

(* manager.Init.  What fails is an NVML or CUDA library; then the program  *)
(* ends, or goes on with the null manager until it is reloaded.            *)
InitLibrary ==
  /\ pc = "init"
  /\ \/ Goto("basic")
     \/ manager # "null" /\ conf.failOnInitError /\ Abort
     \/ /\ manager # "null" /\ ~conf.failOnInitError
        /\ manager' = "null"
        /\ last' = Nothing
        /\ pc' = "basic"
        /\ UNCHANGED <<host, now, hw, conf, stamp, scan, labels, quiet>>

-----------------------------------------------------------------------------
(* The labels of the node that do not depend on the MIG configuration.     *)

Devices == GetDevices(manager, host, hw)
Device(g) == Devices[g]

TimestampLabels ==
  IF conf.noTimestamp THEN Empty ELSE Label("gfd", "timestamp", stamp)

MachineTypeLabels ==
  Label("gpu", "machine", IF host.machine = Nothing THEN Unknown ELSE host.machine)

WellFormed(version) == Len(version) \in 2..3
NoPart == ""

Versions ==
  LET driver == GetDriverVersion(manager, host)
  IN [driver |-> <<driver[1], driver[2], IF Len(driver) > 2 THEN driver[3] ELSE NoPart>>,
      runtime |-> GetCudaDriverVersion(manager, host)]
VersionLabels == Labels("cuda", Versions)

CapableLabels ==
  Label("mig", "capable", \E g \in DOMAIN Devices: Device(g).IsMigCapable)

(* NewNVMLLabeler up to its resource labeler: nothing without devices. *)
BasicLabels ==
  /\ pc = "basic"
  /\ \/ Devices = <<>> /\ Goto("vgpu")
     \/ /\ Devices # <<>>
        /\ ~WellFormed(GetDriverVersion(manager, host))
        /\ Abort
     \/ /\ Devices # <<>>
        /\ WellFormed(GetDriverVersion(manager, host))
        /\ labels' = Merge(Merge(MachineTypeLabels, VersionLabels), CapableLabels)
        /\ pc' = "full"
        /\ UNCHANGED <<host, now, hw, run, scan, quiet, last>>

(* vgpuLabeler.Labels, whose outcome is VGPU's subject, and the merge of   *)
(* everything in run.                                                      *)
VGPULabels == IF host.vgpu = "present" THEN Label("vgpu", "present", TRUE) ELSE Empty
LabelVGPUs ==
  /\ pc = "vgpu"
  /\ \/ host.vgpu = "error" /\ Abort
     \/ /\ host.vgpu # "error"
        /\ labels' = Merge(TimestampLabels, Merge(labels, VGPULabels))
        /\ pc' = "done"
        /\ UNCHANGED <<host, now, hw, run, scan, quiet, last>>

-----------------------------------------------------------------------------
(* The resource labels.                                                    *)

(* DeviceInfo.GetDevicesMap asks one GPU after another for its MIG mode. *)
Classify == /\ pc \in {"full", "mig"}
            /\ at <= N
            /\ enabled' = IF Device(at).IsMigEnabled THEN enabled \cup {at} ELSE enabled
            /\ at' = at + 1
            /\ UNCHANGED <<host, now, hw, run, pc, found, first, labels, quiet, last>>

(* newGPULabelers: the GPUs are counted by model, MIG-enabled or not, and  *)
(* the last one of a model stands for it; the labels of the models are     *)
(* merged in the order in which Go happens to range over the maps, those   *)
(* of MIG-enabled GPUs first and without the sharing information.          *)
Counts(S, m) == Cardinality({g \in S: ModelOf(g) = m})
MergeAll(lists) ==
  [key \in UNION {DOMAIN lists[i]: i \in DOMAIN lists} |->
     lists[Max({i \in DOMAIN lists: key \in DOMAIN lists[i]})][key]]
Standing(S, m) == Device(Max({g \in S: ModelOf(g) = m}))

(* Mutant: full and MIG-enabled GPUs of one model counted apart. *)
FullGPULabelsApart(onMig, onFull) ==
  LET Said(config, m, S) == GPUResourceLabels(config, Standing(S, m), Counts(S, m))
  IN Merge(MergeAll([i \in DOMAIN onMig |-> Said(NoConfig, onMig[i], enabled)]),
           MergeAll([i \in DOMAIN onFull |-> Said(conf, onFull[i], GPUs \ enabled)]))

FullGPULabels(onMig, onFull) ==
  LET Said(config, m, S) == GPUResourceLabels(config, Standing(S, m), Counts(GPUs, m))
  IN Merge(MergeAll([i \in DOMAIN onMig |-> Said(NoConfig, onMig[i], enabled)]),
           MergeAll([i \in DOMAIN onFull |-> Said(conf, onFull[i], GPUs \ enabled)]))

ModelsAmong(S) == {ModelOf(g): g \in S}
StrategyLabels == Label("mig", "strategy", conf.strategy)
LabelFullGPUs ==
  /\ pc = "full"
  /\ at = N + 1
  /\ \E onMig \in SetToSeqs(ModelsAmong(enabled)),
        onFull \in SetToSeqs(ModelsAmong(GPUs \ enabled)):
       LET gpu == Merge(labels, FullGPULabels(onMig, onFull))
       IN IF conf.strategy = "none"
          THEN labels' = gpu /\ pc' = "vgpu"
          ELSE labels' = Merge(gpu, StrategyLabels) /\ pc' = "mig"
  /\ Fresh
  /\ UNCHANGED <<host, now, hw, run, quiet, last>>

Add(more) == /\ labels' = Merge(labels, more)
             /\ pc' = "vgpu"
             /\ Fresh
             /\ UNCHANGED <<host, now, hw, run, quiet, last>>
Invalid == Add(InvalidLabels(Device(Min(enabled))))

(* A new DeviceInfo has classified the GPUs: "single" first looks for GPUs *)
(* without MIG devices, "mixed" lists the MIG devices at once.             *)
ChooseStrategy ==
  /\ pc = "mig"
  /\ at = N + 1
  /\ \/ conf.strategy = "single" /\ enabled = {} /\ Add(Empty)
     \/ /\ conf.strategy = "single" => enabled # {}
        /\ pc' = IF conf.strategy = "single" THEN "empty" ELSE "list"
        /\ at' = 1
        /\ UNCHANGED <<host, now, hw, run, enabled, found, first, labels, quiet, last>>

(* AnyMigEnabledDeviceIsEmpty, then the test for MIG-disabled GPUs. *)
CheckEmpty ==
  /\ pc = "empty"
  /\ IF at <= N
     THEN IF at \in enabled /\ Device(at).GetMigDevices = NoMigs
          THEN Invalid
          ELSE /\ at' = at + 1
               /\ UNCHANGED <<host, now, hw, run, pc, enabled, found, first, labels,
                              quiet, last>>
     ELSE IF enabled # GPUs THEN Invalid
          ELSE /\ pc' = "list" /\ at' = 1
               /\ UNCHANGED <<host, now, hw, run, enabled, found, first, labels,
                              quiet, last>>

(* GetAllMigDevices and the grouping by profile. *)
ListMigs ==
  /\ pc = "list"
  /\ at <= N
  /\ LET here == IF at \in enabled THEN Device(at).GetMigDevices ELSE NoMigs
     IN /\ found' = [q \in Profiles |-> found[q] + here[q]]
        /\ first' = [q \in Profiles |-> IF found[q] = 0 /\ here[q] > 0
                                        THEN at ELSE first[q]]
  /\ at' = at + 1
  /\ UNCHANGED <<host, now, hw, run, pc, enabled, labels, quiet, last>>

(* newMIGDeviceLabelers, on the GPU resource for "single", which needs     *)
(* exactly one profile, and on a resource per profile for "mixed".         *)
Listed(q) == NvmlMigDevice(Device(first[q]), q)
LabelMigs ==
  /\ pc = "list"
  /\ at = N + 1
  /\ LET present == {q \in Profiles: found[q] > 0}
         Said(res, q) == MIGResourceLabels(conf, res, Listed(q), found[q])
     IN \/ conf.strategy = "single" /\ Cardinality(present) # 1 /\ Invalid
        \/ /\ conf.strategy = "single"
           /\ \E q \in present: present = {q} /\ Add(Said("gpu", q))
        \/ /\ conf.strategy = "mixed"
           /\ \E order \in SetToSeqs(present):
                Add(MergeAll([i \in DOMAIN order |-> Said(order[i], order[i])]))

-----------------------------------------------------------------------------
Next == \/ \E g \in GPUs: Reconfigure(g)
        \/ Tick \/ Load \/ Timer \/ Fail
        \/ InitLibrary \/ BasicLabels \/ LabelVGPUs
        \/ Classify \/ LabelFullGPUs \/ ChooseStrategy
        \/ CheckEmpty \/ ListMigs \/ LabelMigs

Spec == Init /\ [][Next]_vars

-----------------------------------------------------------------------------
(* What the labels should say, as functions from suffix to value.          *)
Replicas(res) == conf.replicas[res]
Product(parts, res) ==
  IF Replicas(res) > 1 /\ ~conf.renamed THEN Append(parts, "SHARED") ELSE parts

(* The labels of GPUs of model m, shared as configured or not at all. *)
PlainGPU(m, shared) ==
  Merge(Merge([product |-> IF shared THEN Product(<<m>>, "gpu") ELSE <<m>>,
               count |-> Cardinality({g \in GPUs: ModelOf(g) = m}),
               replicas |-> IF shared THEN Replicas("gpu") ELSE 0],
              IF Bytes[m] < MiB THEN Empty ELSE [memory |-> Bytes[m] \div MiB]),
        IF Compute[m][1] = 0 THEN Empty
        ELSE [family |-> ArchFamily(Compute[m][1], Compute[m][2]),
              compute |-> Compute[m]])

(* The labels of MIG devices: n of profile q, the first on model m. *)
MigDevices(res, q, m, n) ==
  [product |-> Product(<<m, "MIG", q>>, res), count |-> n, replicas |-> Replicas(res),
   memory |-> ProfileMemory[q], slices |-> q]

InvalidMig(m) == [product |-> <<m, "MIG", "INVALID">>,
                  count |-> 0, replicas |-> 0, memory |-> 0]

(* The MIG devices of profile q that the node now has, and where the first *)
(* one is.                                                                 *)
DevicesOf(q) == {d \in GPUs \X (1..MaxMigs): d[2] <= hw[d[1]].migs[q]}
Total(q) == Cardinality(DevicesOf(q))
Owner(q) == CHOOSE g \in GPUs: /\ hw[g].migs[q] > 0
                               /\ \A h \in 1..(g - 1): hw[h].migs[q] = 0
AllOf(res, q) == MigDevices(res, q, ModelOf(Owner(q)), Total(q))
Present == {q \in Profiles: Total(q) > 0}

(* The GPUs whose labels stay on the GPU resource. *)
MigEnabled == {g \in GPUs: hw[g].mig}
Labelled == IF MigEnabled = GPUs THEN GPUs ELSE GPUs \ MigEnabled

(* What "single" adds to the labels of the GPU resource. *)
Regular == /\ MigEnabled = GPUs /\ Cardinality(Present) = 1
           /\ \A g \in GPUs: hw[g].migs # NoMigs
SingleMig ==
  IF conf.strategy # "single" \/ MigEnabled = {} THEN Empty
  ELSE IF Regular THEN AllOf("gpu", CHOOSE q \in Present: TRUE)
       ELSE InvalidMig(ModelOf(Min(MigEnabled)))

(* Labels l say exactly what the node has: one of the full GPUs' models,   *)
(* or of the MIG-enabled ones if there is no full GPU; under "single", the *)
(* only MIG profile if all GPUs have MIG devices of it alone, and          *)
(* otherwise INVALID; under "mixed", every profile there is, each with its *)
(* total count; the time the run began at, unless that is turned off; and  *)
(* nothing about GPUs or versions if there is no GPU, or the library did   *)
(* not initialise (NewLabelers).                                           *)
Unlabelled == manager = "null" \/ GPUs = {}
Machine == [machine |-> IF host.machine = Nothing THEN "unknown" ELSE host.machine]
Flags == Merge([capable |-> host.nvml /\ \E g \in GPUs: ModelOf(g) \in Capable],
               IF conf.strategy = "none" THEN Empty ELSE [strategy |-> conf.strategy])
TimeSaid == IF conf.noTimestamp THEN Empty ELSE [timestamp |-> stamp]
VGPUSaid == IF host.vgpu = "none" THEN Empty ELSE [present |-> TRUE]

Exact(l) ==
  /\ {key[1]: key \in DOMAIN l} \subseteq Resources \cup Groups
  /\ Of(l, "gfd") = TimeSaid
  /\ Of(l, "vgpu") = VGPUSaid
  /\ Unlabelled => \A res \in Resources \cup {"cuda", "mig"}: Of(l, res) = Empty
  /\ ~Unlabelled =>
       /\ DOMAIN Of(l, "cuda") = {"driver", "runtime"}
       /\ Of(l, "mig") = Flags
       /\ \E m \in ModelsAmong(Labelled):
            Of(l, "gpu") = Merge(Merge(Machine, PlainGPU(m, Labelled # MigEnabled)),
                                 SingleMig)
       /\ \A q \in Profiles:
            Of(l, q) = IF conf.strategy = "mixed" /\ q \in Present
                       THEN AllOf(q, q) ELSE Empty

(* A pass during which nothing was reconfigured labels exactly the node it *)
(* saw.                                                                    *)
QuietPassExact == pc = "done" /\ quiet => Exact(labels)

(* The version labels of every pass are those of the driver: its two or    *)
(* three parts, and major and minor of the CUDA version 1000 major + 10    *)
(* minor, whichever library was asked.  On Tegra the driver is unknown,    *)
(* and minor versions from 10 on would lose their first digit              *)
(* (cuda-lib.go:61), which no version of CUDA has yet.                     *)
VersionsExact ==
  pc = "done" /\ <<"cuda", "runtime">> \in DOMAIN labels =>
    LET driver == labels[<<"cuda", "driver">>]
        cuda == labels[<<"cuda", "runtime">>]
        minor == (host.cuda - 1000 * cuda[1]) \div 10
    IN /\ cuda[1] = host.cuda \div 1000
       /\ host.nvml \/ minor < 10 => cuda[2] = minor
       /\ host.nvml => /\ Len(host.driver) \in 2..3
                       /\ \A i \in 1..3: driver[i] = IF i <= Len(host.driver)
                                                    THEN host.driver[i] ELSE NoPart
       /\ ~host.nvml => driver = <<"unknown", "unknown", "unknown">>

(* Whatever is reconfigured between the queries of a pass, the labels of a *)
(* resource fit together: product, count, replicas and memory come from    *)
(* the same kind of device, although full GPUs, MIG devices and the        *)
(* invalid marker are written over one another in the same keys.           *)
Coherent ==
  pc = "done" =>
    \A res \in Resources:
      LET said == Of(labels, res)
          marked == said.product[Len(said.product)] = "SHARED"
          parts == IF marked THEN Front(said.product) ELSE said.product
          plain == Len(parts) = 1
          invalid == Len(parts) = 3 /\ parts[3] = "INVALID"
          profile == Len(parts) = 3 /\ ~invalid
          Has(suffix) == suffix \in DOMAIN said
      IN said # Empty =>
         /\ parts[1] \in Models /\ (plain \/ invalid \/ profile)
         /\ plain => /\ said.count = Cardinality({g \in GPUs: ModelOf(g) = parts[1]})
                     /\ Has("memory") <=> Bytes[parts[1]] >= MiB
                     /\ Has("memory") => said.memory = Bytes[parts[1]] \div MiB
                     /\ Has("compute") => said.compute = Compute[parts[1]]
         /\ invalid => said.count = 0 /\ said.replicas = 0 /\ said.memory = 0
         /\ profile => /\ said.count \in 1..(N * MaxMigs)
                       /\ said.memory = ProfileMemory[parts[3]]
                       /\ said.slices = parts[3]
                       /\ said.replicas = Replicas(res)
         /\ Has("slices") => profile
         /\ marked <=> said.replicas > 1 /\ ~conf.renamed

(* No pass asks a device or manager for what its kind cannot answer, which *)
(* would be an error in every pass: the steps that need MIG are taken for  *)
(* devices that said MIG is enabled only, and CUDA devices never do.       *)
NoUnsupported ==
  LET Answered(answer) == answer # Unsupported
  IN /\ pc = "basic" /\ Devices # <<>> =>
          /\ Answered(GetDriverVersion(manager, host))
          /\ Answered(GetCudaDriverVersion(manager, host))
          /\ \A g \in GPUs: Answered(Device(g).IsMigCapable)
     /\ pc \in {"full", "mig"} /\ at <= N => Answered(Device(at).IsMigEnabled)
     /\ pc \in {"empty", "list"} /\ at \in enabled => Answered(Device(at).GetMigDevices)

(* As long as nothing is reconfigured, the passes of one run produce the   *)
(* same labels, so that a NodeFeature object is not written again and      *)
(* again (labels.go:172): the timestamp is that of the run, and the random *)
(* order of maps shows only if the labelled GPUs are of several models.    *)
Steady ==
  pc = "done" /\ last # Nothing /\ Cardinality(ModelsAmong(Labelled)) <= 1 =>
    labels = last

-----------------------------------------------------------------------------
(* Inductive invariant: why found keeps its bound, and why nothing is      *)
(* asked that is not supported.                                            *)

(* Only where devices are looked at is there a DeviceInfo, of a manager    *)
(* that has devices; only NVML has ever said that MIG is enabled.          *)
Looking == {"full", "mig", "empty", "list"}
LookingAtDevices == /\ IF pc \in Looking THEN manager # "null" ELSE enabled = {}
                    /\ enabled # {} => manager = "nvml"

(* The MIG devices listed are those of the GPUs before the current one. *)
FoundSoFar == \A q \in Profiles:
                found[q] <= IF pc = "list" THEN (at - 1) * MaxMigs ELSE 0

IInv == TypeOK /\ LookingAtDevices /\ FoundSoFar

-----------------------------------------------------------------------------
(* Inductive invariants: why the labels of a pass are coherent, and exact  *)
(* when nothing was reconfigured.                                          *)

(* What a pass has established so far.  What it has seen of the GPUs is    *)
(* how they are if nothing was reconfigured since it began.                *)
Chosen == /\ pc \in {"init", "basic"} => at = 1
          /\ pc \in {"mig", "empty", "list"} => conf.strategy # "none"
          /\ pc = "empty" => conf.strategy = "single"
          /\ pc \in {"empty", "list"} /\ conf.strategy = "single" => enabled # {}
Seen ==
  quiet =>
    /\ pc \in {"full", "mig"} => enabled = {g \in MigEnabled: g < at}
    /\ pc \in {"empty", "list"} => enabled = MigEnabled
    /\ pc = "empty" => \A g \in enabled: g < at => hw[g].migs # NoMigs
    /\ pc = "list" /\ conf.strategy = "single" =>
         MigEnabled = GPUs /\ \A g \in GPUs: hw[g].migs # NoMigs
    /\ pc = "list" =>
         \A q \in Profiles:
           /\ found[q] = Cardinality({d \in DevicesOf(q): d[1] < at})
           /\ found[q] > 0 => /\ first[q] < at /\ hw[first[q]].migs[q] > 0
                              /\ \A g \in 1..(first[q] - 1): hw[g].migs[q] = 0
           /\ found[q] = 0 => \A g \in 1..(at - 1): hw[g].migs[q] = 0

(* What the labels say, group by group, at each point of a pass. *)
Begun == Looking \cup {"vgpu", "done"}
MigsAdded == pc \in {"vgpu", "done"}
GroupsSaid ==
  /\ IsLabels(labels)
  /\ {key[1]: key \in DOMAIN labels} \subseteq Resources \cup Groups
  /\ Of(labels, "gfd") = IF pc = "done" THEN TimeSaid ELSE Empty
  /\ Of(labels, "vgpu") = IF pc = "done" THEN VGPUSaid ELSE Empty
  /\ Unlabelled \/ pc \notin Begun =>
       \A res \in Resources \cup {"cuda", "mig"}: Of(labels, res) = Empty
NodeSaid ==
  /\ WellFormed(GetDriverVersion(manager, host))
  /\ Of(labels, "cuda") = Versions
  /\ Of(labels, "mig") =
       IF pc = "full" THEN [capable |-> host.nvml /\ \E g \in GPUs: ModelOf(g) \in Capable]
       ELSE Flags

(* On the GPU resource there is what was said of one model of full GPUs,   *)
(* and over it what the strategy "single" said of MIG devices.             *)
SinglePart(part) ==
  \/ part = Empty
  \/ /\ MigsAdded /\ conf.strategy = "single"
     /\ \E m \in ModelsAmong(GPUs):
          \/ part = InvalidMig(m)
          \/ \E q \in Profiles, n \in 1..(N * MaxMigs): part = MigDevices("gpu", q, m, n)
GPUSaidAs(m, shared) ==
  \E part \in {Empty} \cup {InvalidMig(g): g \in ModelsAmong(GPUs)}
               \cup {MigDevices("gpu", q, g, n): q \in Profiles, g \in ModelsAmong(GPUs),
                                               n \in 1..(N * MaxMigs)}:
    /\ SinglePart(part)
    /\ quiet /\ MigsAdded => part = SingleMig
    /\ Of(labels, "gpu") = Merge(Merge(Machine, PlainGPU(m, shared)), part)
GPUSaid ==
  IF pc = "full" THEN Of(labels, "gpu") = Machine
  ELSE \E m \in ModelsAmong(GPUs), shared \in BOOLEAN:
         /\ quiet => m \in ModelsAmong(Labelled) /\ (shared <=> Labelled # MigEnabled)
         /\ GPUSaidAs(m, shared)
ProfilesSaid ==
  \A q \in Profiles:
    /\ \/ Of(labels, q) = Empty
       \/ /\ MigsAdded /\ conf.strategy = "mixed"
          /\ \E m \in ModelsAmong(GPUs), n \in 1..(N * MaxMigs):
               Of(labels, q) = MigDevices(q, q, m, n)
    /\ quiet /\ MigsAdded => Of(labels, q) = IF conf.strategy = "mixed" /\ q \in Present
                                            THEN AllOf(q, q) ELSE Empty
NodeInv ==
  /\ GroupsSaid
  /\ pc \in Looking => ~Unlabelled
  /\ ~Unlabelled /\ pc \in Begun => NodeSaid /\ ProfilesSaid
GPUInv == ~Unlabelled /\ pc \in Begun => GPUSaid

(* The labels that are remembered of the last pass are still exact. *)
LastInv == last # Nothing => /\ quiet /\ IsLabels(last) /\ Exact(last)
                             /\ ~Unlabelled => Of(last, "cuda") = Versions

PassInv == Chosen /\ Seen /\ NodeInv /\ GPUInv /\ LastInv

(* What GPUInv rests on: the labels of one model of GPUs overwrite all  *)
(* of those of another, because the models on a host agree in whether the  *)
(* libraries know their memory and their compute capability.               *)
ModelsAlike ==
  \A h \in Hosts: \A g1, g2 \in DOMAIN h.gpus:
    LET m1 == h.gpus[g1]
        m2 == h.gpus[g2]
    IN /\ Bytes[m1] < MiB <=> Bytes[m2] < MiB
       /\ Compute[m1][1] = 0 <=> Compute[m2][1] = 0
=============================================================================
