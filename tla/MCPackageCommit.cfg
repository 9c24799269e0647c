\* A builder and a fitter race for one output path; the process may die once.
SPECIFICATION Spec
CONSTANTS
  b1 = b1
  b2 = b2
  f1 = f1
  o1 = o1
  Committers = {b1, f1}
  Fitters = {f1}
  Outputs = {o1}
  Target <- OnePath
  Files = {"model", "bank"}
  Artifacts = {"bank"}
  Template = Template
  None = None
  MaxTick = 1
  MaxSeq = 3
  MaxCrashes = 1
INVARIANTS
  OutputsWhole
  SuccessMeansMine
  NoLeftovers
PROPERTY
  CommitsAtomically
CHECK_DEADLOCK FALSE
