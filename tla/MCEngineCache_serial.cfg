\* One session at a time, all policies, two crashes, two driver changes.
SPECIFICATION EngineSpec
CONSTANTS
  Loaders = {l1}
  Policies <- AllPolicies
  MaxVersion = 3
  MaxCrashes = 2
  MaxFiles = 3
  None = None
INVARIANTS
  EngineFileWhole
  LoadedIsUsable
  PreferEngineHeals
PROPERTY
  OnlyPreferEngineReplaces
