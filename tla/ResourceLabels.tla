--------------------------- MODULE ResourceLabels ---------------------------
(***************************************************************************)
(* The labels of a resource (internal/lm/resource.go and the builders of   *)
(* mig-strategy.go) as pure functions.  A label set maps keys              *)
(* <<resource, suffix>> to values; a product is the tuple of its parts,    *)
(* which the code joins with dashes.  Resources are "gpu" (nvidia.com/gpu) *)
(* and the MIG profiles (nvidia.com/mig-<profile>).  Devices are the       *)
(* records of Adapters.                                                    *)
(***************************************************************************)
EXTENDS Adapters, FiniteSets

CONSTANT NoConfig         \* the nil configuration that turns sharing off

Resources == {"gpu"} \cup Profiles

Empty == [k \in {} |-> {}]
Label(res, suffix, value) == [key \in {<<res, suffix>>} |-> value]
Labels(res, values) == [key \in {res} \X DOMAIN values |-> values[key[2]]]

(* Labels later in the list overwrite earlier labels. *)
Merge(a, b) == [key \in DOMAIN a \cup DOMAIN b |->
                  IF key \in DOMAIN b THEN b[key] ELSE a[key]]

(* What labels say of one resource, from suffix to value. *)
Of(labels, res) == [suffix \in {key[2]: key \in {k \in DOMAIN labels: k[1] = res}} |->
                      labels[<<res, suffix>>]]

(* A label set is a function on such keys. *)
IsFunction(f) == f = [x \in DOMAIN f |-> f[x]]
IsLabels(f) == IsFunction(f) /\ \A key \in DOMAIN f: key = <<key[1], key[2]>>

(* The entry of the resource in sharing.timeSlicing, if it has one: in a   *)
(* configuration, replicas is 1 for a resource that is not listed there    *)
(* (validation refuses 0 and 1), and renamed is renameByDefault, the only  *)
(* renaming that is left on.                                               *)
IsListed(conf, res) == conf # NoConfig /\ conf.replicas[res] > 1
IsShared(conf, res) == IsListed(conf, res)
IsRenamed(conf, res) == IsListed(conf, res) /\ conf.renamed

ProductLabel(conf, res, parts) ==
  Label(res, "product",
        IF IsShared(conf, res) /\ ~IsRenamed(conf, res)
        THEN Append(parts, "SHARED") ELSE parts)

ReplicasLabel(conf, res) ==
  Label(res, "replicas",
        IF conf = NoConfig THEN 0
        ELSE IF IsListed(conf, res) THEN conf.replicas[res] ELSE 1)

BaseLabels(conf, res, count, parts) ==
  Merge(Merge(ProductLabel(conf, res, parts), Label(res, "count", count)),
        ReplicasLabel(conf, res))

(* The architecture families; a compute capability that is not known to    *)
(* the program gets "undefined".                                           *)
ArchFamily(major, minor) ==
  CASE major = 1 -> "tesla" [] major = 2 -> "fermi" [] major = 3 -> "kepler"
    [] major = 5 -> "maxwell" [] major = 6 -> "pascal" [] major = 8 -> "ampere"
    [] major = 9 -> "hopper"
    [] major = 7 -> IF minor < 5 THEN "volta" ELSE "turing"
    [] OTHER -> "undefined"

ArchitectureLabels(res, device) ==
  LET cc == device.GetCudaComputeCapability
  IN IF cc[1] = 0 THEN Empty
     ELSE Labels(res, [family |-> ArchFamily(cc[1], cc[2]), compute |-> cc])

(* A full GPU: the memory only when it is known. *)
GPUResourceLabels(conf, device, count) ==
  IF count = 0 THEN Empty
  ELSE Merge(Merge(BaseLabels(conf, "gpu", count, <<device.GetName>>),
                   IF device.GetTotalMemoryMB = 0 THEN Empty
                   ELSE Label("gpu", "memory", device.GetTotalMemoryMB)),
             ArchitectureLabels("gpu", device))

(* A MIG profile, on the GPU resource (strategy single) or on its own. *)
MIGResourceLabels(conf, res, device, count) ==
  IF count = 0 THEN Empty
  ELSE Merge(BaseLabels(conf, res, count,
                        <<device.GetDeviceHandleFromMigDeviceHandle.GetName,
                          "MIG", device.GetName>>),
             Labels(res, device.GetAttributes))

(* Mutant: the memory of the full GPU left beside the invalid product. *)
InvalidKeepingMemory(device) ==
  Labels("gpu", [product |-> <<device.GetName, "MIG", "INVALID">>,
                 count |-> 0, replicas |-> 0])

InvalidLabels(device) ==
  Labels("gpu", [product |-> <<device.GetName, "MIG", "INVALID">>,
                 count |-> 0, replicas |-> 0, memory |-> 0])
=============================================================================
