-------------------------------- MODULE VGPU --------------------------------
(***************************************************************************)
(* How the vGPU labels are found: the PCI devices that sysfs lists are     *)
(* read, while they may be unplugged; every NVIDIA device's list of        *)
(* capabilities is walked to its vendor-specific capability (pciutil.go);  *)
(* and the records in that are walked to the one with the version of the   *)
(* host's driver (vgpu.go).  The walks follow offsets read from the        *)
(* device, one step per round of their loops.  The configuration space is  *)
(* described by what a device means to say (chains of capabilities, lists  *)
(* of records) and ByteAt lays it out in bytes, so that what the walks     *)
(* return can be compared with what was meant.                             *)
(***************************************************************************)
EXTENDS Naturals, Sequences, FiniteSetsExt, SequencesExt

CONSTANTS N,        \* number of PCI slots, in the order of their addresses
          Images    \* descriptions of devices and their configuration spaces

(* The layout (PCI specification, and the constants of the two files). *)
PciCapabilityList == 52
VendorSpecific == 9
ChainBroken == 255
RecordStart == 5
HostDriverVersionLength == 10
HostDriverBranchLength == 10
Signature == <<86, 70>>

(* What follows the two header bytes of a vendor-specific capability: its  *)
(* length, and its contents, signed if it is that of a vGPU.  It then      *)
(* consists of records; pad zero bytes follow them.                        *)
Bytes == 0..255
Encoded(record) == <<record.id, 2 + Len(record.data)>> \o record.data
Contents(capability) ==
  (IF capability.signed THEN Signature ELSE <<0, 0>>)
  \o FlattenSeq([i \in DOMAIN capability.records |->
                   Encoded(capability.records[i])])
  \o [i \in 1..capability.pad |-> 0]
Body(capability) == <<3 + Len(Contents(capability))>> \o Contents(capability)

(* nvidia: the vendor; size: how much of the space can be read (64 without *)
(* privileges, 256 for conventional devices); alive: a device that has     *)
(* fallen off the bus reads as all bits set; listed: the status says there *)
(* is a capability list; chain: the capabilities, in the order in which    *)
(* they are linked; back: the one the last is linked to, 0 for none.  The  *)
(* lengths of records and capabilities are bytes, and a capability takes   *)
(* 64 bytes at most.                                                       *)
RecordType == {r \in [id: Bytes, data: Seq(Bytes)]: Len(r.data) <= 253}
CapabilityType == {c \in [id: Bytes, signed: BOOLEAN,
                          records: Seq(RecordType), pad: Nat]:
                     Len(Body(c)) <= 62}
ImageType == {image \in [nvidia: BOOLEAN, size: {64, 256, 4096}, alive: BOOLEAN,
                         listed: BOOLEAN, back: 0..3, chain: Seq(CapabilityType)]:
                Len(image.chain) <= 3}

ASSUME ConstantsAssumption == N \in Nat /\ Images \subseteq ImageType

(* The k-th capability is at 64 k.  Beyond the end is the buffer's rest,   *)
(* which slices can reach (os.ReadFile allocates at least 512 bytes).      *)
Pointer(image, k) == 64 * IF k < Len(image.chain) THEN k + 1 ELSE image.back
ByteAt(image, i) ==
  LET k == i \div 64
      j == i % 64
      c == image.chain[k]
  IN IF i >= image.size THEN 0
     ELSE IF ~image.alive THEN 255
     ELSE IF i = PciCapabilityList THEN IF image.chain = <<>> THEN 0 ELSE 64
     ELSE IF k \notin DOMAIN image.chain THEN 0
     ELSE IF j = 0 THEN c.id
     ELSE IF j = 1 THEN Pointer(image, k)
     ELSE IF c.id = VendorSpecific /\ j - 1 \in DOMAIN Body(c) THEN Body(c)[j - 1] ELSE 0

VARIABLES slots,       \* the device of each slot
          bus,         \* there is a PCI bus in sysfs
          plugged,     \* slots with their device plugged in
          entries,     \* slots that were listed
          devices,     \* the NVIDIA devices read, by their slots
          pc,
          dev,         \* the slot or device looked at
          pos,         \* the offset looked at
          visited,     \* offsets of capabilities seen
          vgpus,       \* the vGPU devices found, with their capabilities
          labels       \* the labels so far

pci == <<slots, bus, plugged, entries>>
vars == <<pci, devices, pc, dev, pos, visited, vgpus, labels>>

NoLabels == [present |-> FALSE, version |-> <<>>, branch |-> <<>>]
Terminal == {"done", "error", "panic"}

TypeOK == /\ slots \in [1..N -> Images] /\ bus \in BOOLEAN
          /\ plugged \subseteq 1..N /\ entries \subseteq 1..N
          /\ devices \in Seq(1..N) /\ Len(devices) <= Cardinality(entries)
          /\ pc \in Terminal \cup {"list", "read", "scan", "walk", "info", "record"}
          /\ dev \in 1..(N + 1)
          /\ pos \in 0..510
          /\ visited \subseteq Bytes
          /\ vgpus \in Seq([pci: 1..N, capability: Seq(Bytes)])
          /\ Len(vgpus) <= Len(devices)
          /\ labels \in [present: BOOLEAN, version: Seq(Bytes), branch: Seq(Bytes)]

Init == /\ slots \in [1..N -> Images] /\ bus \in BOOLEAN
        /\ plugged = IF bus THEN 1..N ELSE {}
        /\ entries = {} /\ devices = <<>>
        /\ pc = "list" /\ dev = 1 /\ pos = 0 /\ visited = {}
        /\ vgpus = <<>> /\ labels = NoLabels

Stop(how) == pc' = how /\ UNCHANGED <<pci, devices, dev, pos, visited, vgpus, labels>>
NextDevice == /\ pc' = "scan" /\ dev' = dev + 1
              /\ UNCHANGED <<pci, devices, pos, visited, labels>>

-----------------------------------------------------------------------------
(* NvidiaPCILib.Devices.                                                   *)

(* A device is unplugged before its files are read.  (One that is plugged  *)
(* in now is not listed; one whose files have been read may go, it is known *)
(* by what was read.)                                                      *)
Unplug(i) == /\ pc = "read" /\ dev <= i /\ i \in plugged
             /\ plugged' = plugged \ {i}
             /\ UNCHANGED <<slots, bus, entries, devices, pc, dev, pos, visited,
                            vgpus, labels>>

List == /\ pc = "list"
        /\ \/ ~bus /\ Stop("error")
           \/ /\ bus
              /\ entries' = plugged
              /\ pc' = "read"
              /\ UNCHANGED <<slots, bus, plugged, devices, dev, pos, visited, vgpus,
                             labels>>

(* Mutant: an entry that cannot be read passed over. *)
ReadPassingOver ==
  /\ pc = "read"
  /\ IF dev <= N
     THEN /\ devices' = IF dev \in entries \cap plugged /\ slots[dev].nvidia
                        THEN Append(devices, dev) ELSE devices
          /\ dev' = dev + 1
          /\ UNCHANGED pc
     ELSE pc' = "scan" /\ dev' = 1 /\ UNCHANGED devices
  /\ UNCHANGED <<pci, pos, visited, vgpus, labels>>

(* The files of the next entry.  Any entry that has gone is an error, of   *)
(* whichever vendor the device was.                                        *)
Read ==
  /\ pc = "read"
  /\ \/ dev \in entries \ plugged /\ Stop("error")
     \/ /\ dev <= N /\ (dev \in entries => dev \in plugged)
        /\ devices' = IF dev \in entries /\ slots[dev].nvidia
                      THEN Append(devices, dev) ELSE devices
        /\ dev' = dev + 1
        /\ UNCHANGED <<pci, pc, pos, visited, vgpus, labels>>
     \/ /\ dev = N + 1
        /\ pc' = "scan" /\ dev' = 1
        /\ UNCHANGED <<pci, devices, pos, visited, vgpus, labels>>

-----------------------------------------------------------------------------
(* Lib.Devices.                                                            *)

Device == slots[devices[dev]]
Listed(image) == image.listed \/ ~image.alive

(* The next device; a configuration space that is cut off is an error, a   *)
(* device without capability list is passed over.                          *)
Scan ==
  /\ pc = "scan"
  /\ \/ dev = Len(devices) + 1 /\ pc' = "info" /\ dev' = 1
        /\ UNCHANGED <<pci, devices, pos, visited, vgpus, labels>>
     \/ dev <= Len(devices) /\ Device.size < 256 /\ Stop("error")
     \/ /\ dev <= Len(devices) /\ Device.size >= 256 /\ ~Listed(Device)
        /\ NextDevice /\ UNCHANGED vgpus
     \/ /\ dev <= Len(devices) /\ Device.size >= 256 /\ Listed(Device)
        /\ pc' = "walk"
        /\ pos' = ByteAt(Device, PciCapabilityList)
        /\ visited' = {}
        /\ UNCHANGED <<pci, devices, dev, vgpus, labels>>

(* What is read from the offset on: a capability is as long as its third   *)
(* byte says.                                                              *)
At(i) == ByteAt(Device, pos + i)
Slice == [i \in 1..At(2) |-> At(i - 1)]
IsVGPUDevice(capability) ==
  Len(capability) >= 5 /\ capability[4] = Signature[1] /\ capability[5] = Signature[2]
Found == vgpus' = IF IsVGPUDevice(Slice)
                  THEN Append(vgpus, [pci |-> devices[dev], capability |-> Slice])
                  ELSE vgpus

(* Mutant: the offsets seen are not remembered. *)
WalkForgetful ==
  /\ pc = "walk"
  /\ \/ (pos = 0 \/ At(0) = ChainBroken) /\ NextDevice /\ UNCHANGED vgpus
     \/ pos # 0 /\ At(0) = VendorSpecific /\ NextDevice /\ Found
     \/ /\ pos # 0 /\ At(0) \notin {VendorSpecific, ChainBroken}
        /\ pos' = At(1)
        /\ UNCHANGED <<pci, devices, pc, dev, visited, vgpus, labels>>

(* Mutant: the walk goes on after a vendor-specific capability. *)
WalkOn ==
  /\ pc = "walk"
  /\ \/ /\ pos = 0 \/ pos \in visited \/ At(0) = ChainBroken
        /\ NextDevice /\ UNCHANGED vgpus
     \/ /\ pos # 0 /\ pos \notin visited /\ At(0) # ChainBroken
        /\ visited' = visited \cup {pos}
        /\ pos' = At(1)
        /\ IF At(0) = VendorSpecific THEN Found ELSE UNCHANGED vgpus
        /\ UNCHANGED <<pci, devices, pc, dev, labels>>

(* GetVendorSpecificCapability: one capability of the list.  It ends the   *)
(* list at offset 0, at an offset seen before, and at a capability with    *)
(* all bits set; but reading behind the end of the space panics first.     *)
Walk ==
  LET cut == pos # 0 /\ pos + 2 >= Device.size
      ended == pos = 0 \/ pos \in visited \/ At(0) = ChainBroken
  IN /\ pc = "walk"
     /\ \/ cut /\ Stop("panic")
        \/ ~cut /\ ended /\ NextDevice /\ UNCHANGED vgpus
        \/ ~cut /\ ~ended /\ At(0) = VendorSpecific /\ NextDevice /\ Found
        \/ /\ ~cut /\ ~ended /\ At(0) # VendorSpecific
           /\ visited' = visited \cup {pos}
           /\ pos' = At(1)
           /\ UNCHANGED <<pci, devices, pc, dev, vgpus, labels>>

-----------------------------------------------------------------------------
(* vgpuLabeler.Labels: the information of one vGPU device after another,   *)
(* the last one's labels stay.                                             *)

(* Offsets count from 0, sequences from 1. *)
Records == vgpus[dev].capability
Byte(i) == Records[i + 1]
InRange(i) == i < Len(Records)

Info ==
  /\ pc = "info"
  /\ \/ dev = Len(vgpus) + 1 /\ Stop("done")
     \/ dev <= Len(vgpus) /\ ~InRange(RecordStart) /\ Stop("panic")
     \/ /\ dev <= Len(vgpus) /\ InRange(RecordStart)
        /\ pc' = "record"
        /\ pos' = RecordStart
        /\ labels' = [labels EXCEPT !.present = TRUE]
        /\ UNCHANGED <<pci, devices, dev, visited, vgpus>>

(* Mutant: the length taken for that of the record's data. *)
SkipRecordData ==
  /\ pc = "record"
  /\ InRange(pos) /\ Byte(pos) # 0
  /\ \/ ~InRange(pos + 1) /\ Stop("panic")
     \/ /\ InRange(pos + 1)
        /\ pos' = pos + 2 + Byte(pos + 1)
        /\ UNCHANGED <<pci, devices, pc, dev, visited, vgpus, labels>>

(* A record that is not the driver version is skipped by its length. *)
SkipRecord ==
  /\ pc = "record"
  /\ InRange(pos) /\ Byte(pos) # 0
  /\ \/ ~InRange(pos + 1) /\ Stop("panic")
     \/ /\ InRange(pos + 1)
        /\ pos' = pos + Byte(pos + 1)
        /\ UNCHANGED <<pci, devices, pc, dev, visited, vgpus, labels>>

(* Reading the identifier of a record that is not there panics, before the *)
(* test for the end of the capability is made.                             *)
RunOut == pc = "record" /\ ~InRange(pos) /\ Stop("panic")

(* The record of the host's driver: its version and branch with the zero   *)
(* bytes around them trimmed, if the record is complete.                   *)
Trim(text) == LET shown == {i \in DOMAIN text: text[i] # 0}
              IN IF shown = {} THEN <<>> ELSE SubSeq(text, Min(shown), Max(shown))
DriverVersion ==
  /\ pc = "record"
  /\ InRange(pos) /\ Byte(pos) = 0
  /\ LET branch == pos + 2 + HostDriverVersionLength
         end == branch + HostDriverBranchLength
     IN \/ end > Len(Records) /\ Stop("error")
        \/ /\ end <= Len(Records)
           /\ labels' = [labels EXCEPT
                           !.version = Trim(SubSeq(Records, pos + 3, branch)),
                           !.branch = Trim(SubSeq(Records, branch + 1, end))]
           /\ pc' = "info"
           /\ dev' = dev + 1
           /\ UNCHANGED <<pci, devices, pos, visited, vgpus>>

-----------------------------------------------------------------------------
Step == List \/ Read \/ Scan \/ Walk \/ Info \/ SkipRecord \/ RunOut \/ DriverVersion
Next == Step \/ \E i \in 1..N: Unplug(i)
Spec == Init /\ [][Next]_vars

(* The pass runs to its end: it never blocks in these loops. *)
FairSpec == Spec /\ WF_vars(Step)

(* What the devices mean: the first vendor-specific capability before a    *)
(* broken one is the device's, and the first record 0 of it the version.   *)
First(indices) == IF indices = {} THEN 0 ELSE Min(indices)
FirstOf(image, id) == First({k \in DOMAIN image.chain: image.chain[k].id = id})
IsVGPU(image) ==
  LET vendor == FirstOf(image, VendorSpecific)
      broken == FirstOf(image, ChainBroken)
  IN /\ image.alive /\ image.listed /\ vendor # 0 /\ (broken = 0 \/ vendor < broken)
     /\ image.chain[vendor].signed
CapabilityOf(image) == image.chain[FirstOf(image, VendorSpecific)]

VersionIn(capability) ==
  First({i \in DOMAIN capability.records: capability.records[i].id = 0})
DataOf(capability) == capability.records[VersionIn(capability)].data
IsComplete(capability) ==
  VersionIn(capability) # 0
  /\ Len(DataOf(capability)) >= HostDriverVersionLength + HostDriverBranchLength

(* An incomplete version is the last of its records, and no other record   *)
(* would fit behind it, nor behind the records if it is missing.           *)
RecordsEnd(capability) ==
  LET version == VersionIn(capability)
      rest == IF version = 0 THEN 0 ELSE 2 + Len(DataOf(capability))
  IN ~IsComplete(capability) =>
       /\ version \in {0, Len(capability.records)}
       /\ rest + capability.pad < 2 + HostDriverVersionLength + HostDriverBranchLength
ASSUME RecordsAssumption ==
  \A image \in Images: IsVGPU(image) => RecordsEnd(CapabilityOf(image))

(* A text in a field is what is there between zero bytes around it.        *)
IsTextOf(text, field) ==
  /\ text # <<>> => text[1] # 0 /\ text[Len(text)] # 0
  /\ \E before \in 0..Len(field):
       /\ before + Len(text) <= Len(field)
       /\ \A i \in DOMAIN text: text[i] = field[before + i]
       /\ \A i \in DOMAIN field: i <= before \/ i > before + Len(text) => field[i] = 0
Says(capability) ==
  LET data == DataOf(capability)
      branch == HostDriverVersionLength + 1
      end == HostDriverVersionLength + HostDriverBranchLength
  IN /\ labels.present
     /\ IsTextOf(labels.version, SubSeq(data, 1, HostDriverVersionLength))
     /\ IsTextOf(labels.branch, SubSeq(data, branch, end))

(* The labels are those of the last vGPU device among the NVIDIA devices   *)
(* that were listed, and an error is an error: of a configuration space    *)
(* that is cut off, or of a vGPU whose version is incomplete.  Whatever    *)
(* comes before the capability and the record that count is walked over,   *)
(* none of it is taken for them.  The walk leaves a capability only if its *)
(* records end with it and none is the version, and a configuration space  *)
(* only if the device no longer answers.  A device that has gone between   *)
(* the listing and the reading is an error, never a label left out.        *)
Here == {i \in entries: slots[i].nvidia}
VGPUs == {i \in Here: IsVGPU(slots[i])}
Silent(i) == slots[i].size = 256 /\ ~slots[i].alive
Unwalkable == {i \in Here: slots[i].size < 256 \/ Silent(i)}
IsOpen(capability) == capability.pad = 0 /\ VersionIn(capability) = 0
Failing == {i \in VGPUs: ~IsComplete(CapabilityOf(slots[i]))}
AsMeant ==
  CASE Unwalkable # {} -> pc = IF Silent(Min(Unwalkable)) THEN "panic" ELSE "error"
    [] Unwalkable = {} /\ Failing # {} ->
         pc = IF IsOpen(CapabilityOf(slots[Min(Failing)])) THEN "panic" ELSE "error"
    [] Unwalkable = {} /\ Failing = {} ->
         /\ pc = "done"
         /\ IF VGPUs = {} THEN labels = NoLabels ELSE Says(CapabilityOf(slots[Max(VGPUs)]))
Outcome ==
  pc \in Terminal =>
    \/ bus /\ AsMeant
    \/ (~bus \/ ~(entries \subseteq plugged)) /\ pc = "error"

(* Every pass gets through the lists of capabilities, also through one     *)
(* that is linked back to a capability before it.                          *)
WalkEnds == <>(pc \in Terminal)

(* "cannot find driver version record in vendor specific capability"       *)
(* (vgpu.go:144): a vGPU without the record makes the labeler fail.        *)
MissingRecordIsError == pc # "panic"
=============================================================================
