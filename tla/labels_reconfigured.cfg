\* Hosts of every kind, MIG reconfigured between any two queries.
SPECIFICATION Spec
CONSTANTS
  A = A
  B = B
  T = T
  NoConfig = NoConfig
  Nothing = Nothing
  Unsupported = Unsupported
  Models = {A, B, T}
  Profiles = {"1g", "2g"}
  Capable = {A, B}
  Bytes <- Sizes
  Compute <- Capabilities
  ProfileMemory <- MigSizes
  Hosts <- Every
  Configs <- EveryStrategy
  MaxMigs = 1
  MaxTime = 1
INVARIANTS
  TypeOK
  QuietPassExact
  VersionsExact
  Coherent
  NoUnsupported
  Steady
