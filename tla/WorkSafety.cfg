SPECIFICATION WorkSpec
CONSTANTS
  Parts = {"turn", "helpers", "names", "redaction", "peer", "credential", "mcp", "harness",
           "supervisor", "service", "memory", "host"}
  k1 = k1
  k2 = k2
  Slots = {"s1", "s2"}
  Calls = {"effect"}
  NoCall = "none"
  MaxDeltas <- MCMaxDeltas
  MaxRounds = 2
  Helpers = {"h1", "h2", "h3"}
  MaxParallel = 1
  MaxReports = 1
  ToolDefs <- MCToolDefs
  MaxTools = 3
  Letters = {"x", "y"}
  SecretSets <- MCSecretSets
  MaxText = 7
  MaxChunk = 3
  Bots = {"b1", "b2"}
  NoBot = "none"
  FirstBots = {{"b1"}, {"b1", "b2"}}
  CallSlots = {k1, k2}
  MaxRuns = 3
  MaxSends = 1
  MaxReactions = 1
  MaxHops = 1
  MaxTeam = 2
  MaxCalls = 2
  MaxDestroys = 1
  Runs = {"r1", "r2"}
  Listers = {"l1", "l2"}
  NoRun = "none"
  Processes = {"worker"}
  ProcessOf <- MCProcessOf
  MaxGenerations = 4
  MaxLosses = 1
  Ids <- MCIds
  MaxServers = 2
  MaxOutput = 2
  RpcIds = {1, 2}
  BoxCalls = {"c1", "c2"}
  MaxBoxes = 3
  MaxImages = 2
  MaxBoxTroubles = 1
  DayMinutes = 4
  WeekDays = 3
  Policies <- MCPolicies
  MaxSessions = 2
  Searches = {"s1", "s2"}
  Writers = {"w1", "w2"}
  MaxDocuments = 1
  MaxCommits = 3
  MaxMemoryTroubles = 1
  MaxVersions = 3
  MaxSwitches = 2
  MaxHostTroubles = 1
INVARIANT WorkTypeOK
INVARIANT EffectOnce
INVARIANT AnswersAreWhole
INVARIANT StoredNewest
PROPERTY NeverOlder
 
INVARIANT CallsAreOwn
INVARIANT WhatRunsIsKept
INVARIANT MemoryIsSound
CHECK_DEADLOCK FALSE
