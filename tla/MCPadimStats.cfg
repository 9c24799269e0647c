\* Three locations in chunks of two, two samples, on the CPU and on a GPU
\* with and without room for the statistics.
SPECIFICATION Spec
CONSTANTS
  NLocations = 3
  ChunkSize = 2
  Samples = {x, y}
  MaxSamples = 2
INVARIANTS
  StatisticsExact
  FilesExact
