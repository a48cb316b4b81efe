SPECIFICATION FairSpec
CONSTANTS
  Containers = {c1}
  Pids = {1, 2}
  MaxChanges = 1
  Nobody = Nobody
PROPERTIES
  RemovalCompletes
CHECK_DEADLOCK FALSE
