SPECIFICATION Spec
CONSTANTS
  Containers = {c1, c2}
  Pids = {1}
  MaxChanges = 2
  Requests = {r1}
  Nobody = Nobody
  Host = Host
SYMMETRY ContainerSymmetry
INVARIANTS
  TypeOK
  RightTarget
