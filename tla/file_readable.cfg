\* The published mode, on one daemon with nothing failing.
SPECIFICATION Spec
CONSTANTS
  Procs = {d1}
  Oneshot = {}
  LabelSets = {l1}
  Names = {n1, n2, n3}
  NoFile = NoFile
  NoName = NoName
  Partial = Partial
  Faults <- NoCalls
  MayCrash = {}
INVARIANT OutputReadable
