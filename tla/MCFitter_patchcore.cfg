\* PatchCore with an imported memory bank, two supervisors that cancel, one
\* restart of the process.
SPECIFICATION Spec
CONSTANTS
  PatchCore = TRUE
  Seed = 1
  ItemsPerImage = 2
  ChunkSize = 2
  MaxImages = 3
  MaxItems = 7
  MaxRestarts = 1
  s1 = s1
  s2 = s2
  p1 = p1
  Supervisors <- TwoSupervisors
  Pollers <- NoPollers
INVARIANTS
  OnePackagePerFitter
  PromptCancellation
  AcknowledgedImagesKept
PROPERTY
  NoPublishAfterCancel
