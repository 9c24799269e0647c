\* One template path, two output paths, one artifact file; a template or an
\* artifact changes once behind the library's back.
\* With a template that does not load there is nothing to do, so the system may stop.
SPECIFICATION PackageSpec
CONSTANTS
  graph = graph
  bank = bank
  plan = plan
  s1 = s1
  o1 = o1
  o2 = o2
  t1 = t1
  Files = {"graph", "index", "stats"}
  NoFile = "none"
  EmptyName = ""
  Missing = Missing
  Bad = Bad
  Outputs = {o1, o2}
  Template = t1
  Templates <- Exported
  Sources = {s1}
  DefaultIndex = "index"
  DefaultStatistics = "stats"
  None = None
  MaxEdits = 1
  MaxFits = 2
  MaxCalibrations = 1
SYMMETRY OutputSymmetry
INVARIANTS
  PublishedIsUsable
  FinalizeNeverStuck
  StatisticalScoresCalibrated
CHECK_DEADLOCK FALSE
