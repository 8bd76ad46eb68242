CONSTANTS
  r1 = r1
  m1 = m1
  m2 = m2
  Runs = {r1}
  Machines = {m1, m2}
  NoMachine = NoMachine
  MaxFaults = 0
  MaxCalls = 3
SPECIFICATION Spec
INVARIANT WorkKept
CHECK_DEADLOCK FALSE
