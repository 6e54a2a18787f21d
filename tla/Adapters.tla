------------------------------ MODULE Adapters ------------------------------
(***************************************************************************)
(* The managers and devices of internal/resource as pure functions.  A     *)
(* device is the record of its answers to the methods of the interface     *)
(* Device; Unsupported is the error of a method that the kind of device    *)
(* does not have.  NVML lists full GPUs, which list their MIG devices; the *)
(* CUDA library, used on Tegra systems, knows no MIG at all.               *)
(***************************************************************************)
EXTENDS Naturals, Sequences

CONSTANTS Models,         \* GPU models
          Profiles,       \* MIG profiles
          Capable,        \* the models that support MIG
          Bytes,          \* memory of a model, as the libraries report it
          Compute,        \* compute capability of a model, <<major, minor>>
          ProfileMemory,  \* memory of a profile, in MiB
          Unsupported     \* the error of a method that is not supported

MiB == 1024 * 1024
Unknown == "unknown"

(* Mutant: the MIG mode as unsupported by CUDA as the MIG devices. *)
CudaDeviceWithoutMode(model) ==
  [IsMigEnabled |-> Unsupported, IsMigCapable |-> FALSE,
   GetMigDevices |-> Unsupported, GetAttributes |-> Unsupported,
   GetName |-> model,
   GetTotalMemoryMB |-> Bytes[model] \div MiB,
   GetDeviceHandleFromMigDeviceHandle |-> Unsupported,
   GetCudaComputeCapability |-> Compute[model]]

CudaDevice(model) ==
  [IsMigEnabled |-> FALSE, IsMigCapable |-> FALSE,
   GetMigDevices |-> Unsupported, GetAttributes |-> Unsupported,
   GetName |-> model,
   GetTotalMemoryMB |-> Bytes[model] \div MiB,
   GetDeviceHandleFromMigDeviceHandle |-> Unsupported,
   GetCudaComputeCapability |-> Compute[model]]

(* A full GPU; mode says whether MIG is enabled and how many MIG devices   *)
(* of each profile there are.                                              *)
NvmlDevice(model, mode) ==
  [IsMigEnabled |-> mode.mig, IsMigCapable |-> model \in Capable,
   GetMigDevices |-> mode.migs, GetAttributes |-> Unsupported,
   GetName |-> model,
   GetTotalMemoryMB |-> Bytes[model] \div MiB,
   GetDeviceHandleFromMigDeviceHandle |-> Unsupported,
   GetCudaComputeCapability |-> Compute[model]]

(* The attributes of a MIG device; "slices" stands for all but the memory. *)
Attributes(profile) == [memory |-> ProfileMemory[profile], slices |-> profile]

NvmlMigDevice(parent, profile) ==
  [IsMigEnabled |-> Unsupported, IsMigCapable |-> Unsupported,
   GetMigDevices |-> Unsupported, GetAttributes |-> Attributes(profile),
   GetName |-> profile,
   GetTotalMemoryMB |-> Attributes(profile).memory,
   GetDeviceHandleFromMigDeviceHandle |-> parent,
   GetCudaComputeCapability |-> Unsupported]

-----------------------------------------------------------------------------
(* A host: the libraries found on it, and what they report.  driver is the *)
(* version of the driver split at its dots, cuda the version of CUDA as    *)
(* 1000 major + 10 minor.                                                  *)

(* NVML comes first, also on a Tegra system. *)
GetManager(host) == IF host.nvml THEN "nvml" ELSE IF host.tegra THEN "cuda" ELSE "null"

(* The devices, as many as the library counts.  mode is that of the GPUs.  *)
GetDevices(manager, host, mode) ==
  CASE manager = "nvml" -> [g \in DOMAIN host.gpus |-> NvmlDevice(host.gpus[g], mode[g])]
    [] manager = "cuda" -> [g \in DOMAIN host.gpus |-> CudaDevice(host.gpus[g])]
    [] manager = "null" -> <<>>

GetDriverVersion(manager, host) ==
  CASE manager = "nvml" -> host.driver
    [] manager = "cuda" -> <<Unknown, Unknown, Unknown>>
    [] manager = "null" -> Unsupported

(* Mutant: the minor version taken from the last two digits, as for CUDA. *)
NvmlMinorOfTwoDigits(v) == (v % 100) \div 10

NvmlMinor(v) == (v % 1000) \div 10
CudaMinor(v) == (v % 100) \div 10
GetCudaDriverVersion(manager, host) ==
  CASE manager = "nvml" -> <<host.cuda \div 1000, NvmlMinor(host.cuda)>>
    [] manager = "cuda" -> <<host.cuda \div 1000, CudaMinor(host.cuda)>>
    [] manager = "null" -> Unsupported
=============================================================================
