\* Chunks of one row on the CPU and two on a GPU; a bank of two patches,
\* replayed two at a time; half of the patches in a coreset, chosen exactly
\* on the CPU for three patches and at random for four.
SPECIFICATION PatchCoreSpec
CONSTANTS
  Points <- ThreePoints
  Batches <- OneOrTwo
  Scale = 12
  HostChunk = 1
  DeviceChunk = 2
  StreamChunk = 2
  Budget = 2
  Neighbors = 2
  RatioNum = 1
  RatioDen = 2
  MaxExact = 7
  MaxPatches = 4
INVARIANTS
  FitExact
  CheckpointRestorable
  BankRepresentative
  BankCovers
