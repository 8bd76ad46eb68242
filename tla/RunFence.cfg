SPECIFICATION Spec
CONSTANTS
  r1 = r1
  r2 = r2
  t1 = t1
  t2 = t2
  w1 = w1
  w2 = w2
  Runs = {r1}
  NoRun = NoRun
  Tasks = {t1, t2}
  Owners = {w1}
  OwnerOf <- OneProcess
  NoOwner = NoOwner
  MaxFaults = 1
  MaxResumes = 0
PROPERTY ReclaimRaisesFence
CHECK_DEADLOCK FALSE
