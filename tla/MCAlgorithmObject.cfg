\* Two paths, two variants; packages are replaced at any time, also while a
\* call runs.
SPECIFICATION Spec
CONSTANTS
  Paths = {p1, p2}
  Variants = {original, mahalanobis}
  None = None
INVARIANTS
  OneOwner
  RuntimesMatchObject
