SPECIFICATION ClientSpec
CONSTANTS
  Parts = {"view", "cron", "desktop", "setup", "lite", "shell", "mobile", "studio",
           "connection"}
  PageSize = 1
  MaxMessages = 2
  MaxViewDeltas = 1
  MaxViewRuns = 1
  MaxBreaks = 2
  MinutesPerHour = 3
  HoursPerDay = 4
  EditorTimes <- MCTimes
  EditorNumbers = {1, 2}
  Expressions <- MCExpressions
  Lag = 1
  Ops = {"o1", "o2"}
  NoOp = "none"
  MaxRuntimes = 2
  MaxWindows = 2
  MaxTerminals = 1
  MaxActs = 2
  Tabs = {"t1", "t2"}
  MaxLogins = 2
  MaxCreds = 3
  MaxSetups = 3
  MaxOutages = 1
  MaxMigrations = 2
  Pages = {"p1", "p2"}
  MaxStarts = 3
  MaxCrashes = 1
  MaxReleases = 2
  MaxShellBots = 2
  FlightSlots = {"f1"}
  MaxShellEvents = 1
  Servers = {"default", "own"}
  DefaultServer = "default"
  Boots = {"b1", "b2"}
  MaxSignIns = 2
  MaxServerChanges = 2
  MaxMobileTroubles = 1
  StudioTabs = {"t1", "t2"}
  MaxLooks = 2
  MaxEdits = 1
  MaxStudioTroubles = 1
  PluginTabs = {"t1", "t2"}
  EnvironmentKey = 0
  MaxKeys = 2
  MaxRows = 1
  MaxTroubles = 1
INVARIANT ClientTypeOK
 
 
INVARIANT DesktopIsSound
INVARIANT ScreensAreOwn
INVARIANT ConnectionsAreOwn
CHECK_DEADLOCK FALSE
