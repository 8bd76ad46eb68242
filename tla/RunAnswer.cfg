SPECIFICATION Spec
CONSTANTS
  r1 = r1
  r2 = r2
  t1 = t1
  t2 = t2
  w1 = w1
  w2 = w2
  Runs = {r1}
  NoRun = NoRun
  Tasks = {t1, t2}
  Owners = {w1, w2}
  OwnerOf <- TwoProcesses
  NoOwner = NoOwner
  MaxFaults = 0
  MaxResumes = 1
PROPERTY TerminalIsFinal
CHECK_DEADLOCK FALSE
