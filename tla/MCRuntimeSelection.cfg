\* Every request; a failure of each kind: retryable everywhere, only for the
\* runtime, only for the search, and nowhere.
SPECIFICATION Spec
CONSTANTS
  Requests <- EveryRequest
  Codes = {"CudaFailure", "EngineIncompatible", "OutOfMemory", "ArtifactCorrupt"}
  NLayers = 2
INVARIANTS
  RequirementsHold
  CpuNeverInitializesCuda
  NoSilentDegradation
  CorruptionNeverHidden
