\* Two devices with every kind of capability list and records.
SPECIFICATION FairSpec
CONSTANTS
  N = 2
  Images <- Every
INVARIANTS
  TypeOK
  Outcome
 
CHECK_DEADLOCK FALSE
