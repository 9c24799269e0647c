\* A caller with four structures; a reservoir of two pixels, one of them reserved
\* at create, up to twelve pixels offered to it, the selections for up to eight
\* enumerated; a target rate of one in four.
SPECIFICATION Spec
CONSTANTS
  NaN = NaN
  Images <- AllImages
  Bank <- IndexRows
  Neighbors = 2
  Mean <- LocationMeans
  ChunkSizes = {0, 2}
  Threshold = 1
  ScoreMin = 0
  ScoreMax = 4
  Batches <- PredictBatches
  Slots = 4
  CalibrationBatches <- NormalBatches
  MaxPixelSamples = 2
  Reserved = 1
  RateNum = 1
  RateDen = 4
  MaxCalls = 3
  MaxDraws = 8
\* A calibrator stops after MaxCalls calls.
CHECK_DEADLOCK FALSE
INVARIANTS
  AllOrNothing
  StorageOwnedOnce
  SamplesArePrefixes
  ReservoirFair
  ThresholdsUsable
