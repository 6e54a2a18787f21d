\* One daemon by itself, crashes included; everything but the removal may fail.
SPECIFICATION Spec
CONSTANTS
  Procs = {d1}
  Oneshot = {}
  LabelSets = {l1, l2}
  Names = {n1, n2, n3}
  NoFile = NoFile
  NoName = NoName
  Partial = Partial
  Faults <- WritingCalls
  MayCrash = {d1}
INVARIANTS
  SleepPublished
  ExitClean
