\* Two sessions of one package that build its engine at the same time.
SPECIFICATION EngineSpec
CONSTANTS
  Loaders = {l1, l2}
  Policies <- Prefer
  MaxVersion = 1
  MaxCrashes = 0
  MaxFiles = 3
  None = None
INVARIANT
  EngineFileWhole
