CONSTANTS
  c1 = c1
  c2 = c2
  c3 = c3
  worker = worker
  api = api
  Calls = {c1, c2, c3}
  Processes = {worker, api}
  ProcessOf <- MCProcessOf
  Absent = Absent
  Empty = Empty
  MaxCommits = 4
  MaxFaults = 2
SPECIFICATION Spec
SYMMETRY SameProcess
INVARIANT TypeOK
INVARIANT NoRollback
INVARIANT NotLost
CHECK_DEADLOCK FALSE
