SPECIFICATION Spec
CONSTANTS
  Containers = {c1}
  Pids = {1}
  MaxChanges = 2
  Requests = {r1}
  Nobody = Nobody
  Host = Host
INVARIANT
  ReportAnswered
