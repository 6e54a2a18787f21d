\* Two daemons share the directory (a rolling update); writes may fail.
SPECIFICATION FairSpec
CONSTANTS
  Procs = {d1, d2}
  Oneshot = {}
  LabelSets = {l1, l2}
  Names = {n1, n2}
  NoFile = NoFile
  NoName = NoName
  Partial = Partial
  Faults <- WritingCalls
  MayCrash = {}
INVARIANTS
  NoLeakedTemp
  AllStoppedClean
  UnreadableInPassing
PROPERTY Restored
