\* Every command line, environment and file, edited and loaded again.
SPECIFICATION Spec
CONSTANTS
  v1 = v1
  v2 = v2
  Flags = {"mig-strategy"}
  Values = {v1, v2}
  Default <- FirstValue
  Unset = Unset
  Resources = {"gpu"}
  Unlisted = Unlisted
  Broken = Broken
  NoConfig = NoConfig
INVARIANTS
  TypeOK
  
  SharingUniform
CHECK_DEADLOCK FALSE
