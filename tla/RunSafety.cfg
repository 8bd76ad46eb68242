SPECIFICATION RunRoutineSpec
CONSTANTS
  Parts = {"run", "routine"}
  r1 = r1
  t1 = t1
  t2 = t2
  w1 = w1
  w2 = w2
  Runs = {r1}
  NoRun = NoRun
  Tasks = {t1, t2}
  Owners = {w1, w2}
  OwnerOf <- TwoProcesses
  NoOwner = NoOwner
  MaxFaults = 1
  MaxResumes = 1
  Routines = {1}
  Workers = {w1, w2}
  Requests = {"q1"}
  Reconcilers = {"p1"}
  Nobody = "nobody"
  Horizon = 1
  Ahead = 0
  Skew = 0
  ScanBatch = 1
  MaxRoutineRuns = 2
  MaxAsked = 2
  MaxRoutineFaults = 1
INVARIANT RunRoutineTypeOK
INVARIANT LeasesCanBeReclaimed
INVARIANT OneOutcomePerPrompt
INVARIANT PausesAreAnnounced
INVARIANT OneRunPerTime
PROPERTY RunningLeftByHolder
PROPERTY LostLeaseStaysLost
PROPERTY ImplementsTable
PROPERTY StopIsFinal
CHECK_DEADLOCK FALSE
