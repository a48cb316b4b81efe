\* Two users, three commands between them; two moments make a second, clocks are
\* off by up to one, and list and events go back four moments or none.  In four
\* moments a deployment grows old enough to enter one list and to leave another.
SPECIFICATION Spec
SYMMETRY Symmetry
CONSTANTS
  Users = {u1, u2}
  MaxRuns = 3
  MaxTime = 4
  Second = 2
  Skew = 1
  Sinces = {0, 4}
INVARIANTS
  TypeOK
  AcknowledgedIsDone
  ListIsRight
CHECK_DEADLOCK FALSE
