\* A terminating signal behind a SIGHUP.
SPECIFICATION FairSpec
CONSTANTS
  f1 = f1
  f2 = f2
  Paths = {f1, f2}
  Stdout = Stdout
  CR = CR
  Nothing = Nothing
  NodeFeatureAPI = FALSE
  Configs <- FallbackConfigs
  RemovalFails = FALSE
  MaxHups = 1
PROPERTY TermAlwaysEnds
