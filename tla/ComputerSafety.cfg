CONSTANTS
  r1 = r1
  m1 = m1
  m2 = m2
  Runs = {r1}
  Machines = {m1, m2}
  NoMachine = NoMachine
  MaxFaults = 1
  MaxCalls = 3
SPECIFICATION Spec
SYMMETRY MCSymmetry
INVARIANT TypeOK
INVARIANT HydratedBeforeUse
INVARIANT InUseKept
PROPERTY SleepSawAll
CHECK_DEADLOCK FALSE
