\* PaDiM, under fairness of the calls that have begun: the worker, one
\* supervisor that cancels and one that polls, all at the same time.
SPECIFICATION FairSpec
CONSTANTS
  PatchCore = FALSE
  Seed = 0
  ItemsPerImage = 1
  ChunkSize = 1
  MaxImages = 2
  MaxItems = 2
  MaxRestarts = 0
  s1 = s1
  s2 = s2
  p1 = p1
  Supervisors <- OneSupervisor
  Pollers <- OnePoller
INVARIANTS
  ReportsHonest
  CountersAgree
PROPERTY
  CancelQuiesces
