CONSTANTS
  c1 = c1
  c2 = c2
  c3 = c3
  worker = worker
  api = api
  Calls = {c1, c2, c3}
  Processes = {worker, api}
  ProcessOf <- MCProcessOf
  Absent = Absent
  Empty = Empty
  MaxCommits = 2
  MaxFaults = 0
SPECIFICATION Spec
PROPERTY ImportsStored
CHECK_DEADLOCK FALSE
