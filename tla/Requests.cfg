SPECIFICATION FairSpec
CONSTANTS
  Containers = {c1}
  Pids = {1}
  MaxChanges = 0
  Requests = {r1, r2}
  Nobody = Nobody
  Host = Host
INVARIANTS
  LockOwner
  Snapshot
PROPERTIES
  RequestsEnd
  ClientRecords
