SPECIFICATION LiveSpec
CONSTANTS
  Parts = {"run", "turn", "routine", "harness", "follow"}
  r1 = r1
  t1 = t1
  t2 = t2
  w1 = w1
  w2 = w2
  Runs = {r1}
  NoRun = NoRun
  Tasks = {t1, t2}
  Owners = {w1, w2}
  OwnerOf <- TwoProcesses
  NoOwner = NoOwner
  MaxFaults = 1
  MaxResumes = 0
  Slots = {"s1"}
  Calls = {"effect"}
  NoCall = "none"
  MaxDeltas <- MCMaxDeltas
  MaxRounds = 2
  Routines = {1,2}
  Workers = {w1}
  Requests = {"q1"}
  Reconcilers = {"p1"}
  Nobody = "nobody"
  Horizon = 1
  Ahead = 0
  Skew = 1
  ScanBatch = 1
  MaxRoutineRuns = 2
  MaxAsked = 1
  MaxRoutineFaults = 1
  MaxOutput = 2
  RpcIds = {1}
  Writers = {w1, w2}
  BatchSize = 1
  MaxEvents = 2
  MaxBreaks = 1
INVARIANT FollowTypeOK
INVARIANT NoLostWakeup
PROPERTY ImplementsFeed
PROPERTY QueuedIsPickedUp
PROPERTY LeasedIsLeft
PROPERTY EventuallyGiven
PROPERTY TurnEnds
PROPERTY RoutinesAreServed
PROPERTY CliSettles
CHECK_DEADLOCK FALSE
