\* A daemon and a one-shot job share the directory; every call may fail, the daemon may crash.
SPECIFICATION Spec
CONSTANTS
  Procs = {d1, j1}
  Oneshot = {j1}
  LabelSets = {l1, l2}
  Names = {n1, n2}
  NoFile = NoFile
  NoName = NoName
  Partial = Partial
  Faults <- AllCalls
  MayCrash = {d1}
INVARIANTS
  TypeOK
  OutputWhole
PROPERTY StoreSpec
