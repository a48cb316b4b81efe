\* Three arguments.
SPECIFICATION Spec
CONSTANTS
  f1 = f1
  f2 = f2
  s1 = s1
  s2 = s2
  Files = {f1, f2}
  Shapes = {s1, s2}
  InputCount = 3
  Inputs <- MCInputs
  NoProfile = NoProfile
INVARIANTS
  TypeOK
  MergeIsRight
  PrintsTotals
  DifferentSourcesRefused
CHECK_DEADLOCK FALSE
