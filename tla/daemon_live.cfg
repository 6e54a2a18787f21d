\* Signals at any moment, a driver that comes and goes, removals that may fail.
SPECIFICATION FairSpec
CONSTANTS
  f1 = f1
  f2 = f2
  Paths = {f1, f2}
  Stdout = Stdout
  CR = CR
  Nothing = Nothing
  NodeFeatureAPI = FALSE
  Configs <- TwoFileConfigs
  RemovalFails = TRUE
  MaxHups = 2
PROPERTIES
  TermEnds
  HupReloads
  ReloadRecovers
