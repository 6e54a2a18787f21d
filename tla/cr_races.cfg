\* Two instances, requests that fail or whose answer is lost, others that meddle.
SPECIFICATION FairSpec
CONSTANTS
  Procs = {p1, p2}
  LabelSets = {l1, l2}
  NoObject = NoObject
  NoLabels = NoLabels
  Others = Others
  Meddling <- AllMeddling
  Faulty = TRUE
INVARIANT TypeOK
PROPERTIES
  NoLostUpdate
  NoUselessWrite
  StoreSpec
  Republished
