\* Reloads between files, standard output and one-shot; the driver comes and goes.
SPECIFICATION Spec
CONSTANTS
  f1 = f1
  f2 = f2
  Paths = {f1, f2}
  Stdout = Stdout
  CR = CR
  Nothing = Nothing
  NodeFeatureAPI = FALSE
  Configs <- MixedConfigs
  RemovalFails = FALSE
  MaxHups = 2
INVARIANTS
  TypeOK
  NoStaleOutput
  
