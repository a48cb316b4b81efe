SPECIFICATION FairSpec
CONSTANTS
  Containers = {c1}
  Pids = {1, 2}
  MaxChanges = 3
  Nobody = Nobody
INVARIANTS
  TypeOK
  PidFresh
  ExactAgrees
PROPERTIES
  Resubscribes
  CatchesUp
  ImplementsPromise
CHECK_DEADLOCK FALSE
