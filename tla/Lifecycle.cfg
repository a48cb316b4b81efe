\* Three instances, whose lives may overlap.
SPECIFICATION Spec
CONSTANTS
  Instances = {i1, i2, i3}
  NoSocket = NoSocket
INVARIANTS
  TypeOK
  UndisturbedServes
  StopCleansUp
PROPERTIES
  SignalEnds
  ComesToServe
CHECK_DEADLOCK FALSE
