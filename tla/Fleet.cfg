SPECIFICATION FleetSpec
CONSTANTS
  Addresses = {"a", "b"}
  Machines = {"a", "b"}
  Nobody = "nobody"
  Jobs = {"a"}
  Columns = {"facts", "hardware", "packages", "services", "monitoring", "readiness", "updates",
             "mac", "log"}
  MaxWaiting = 1
  MaxStarts = 2
  MaxChanges = 2
  Honeypots = {"a"}
  Keys = {"a", "b", "c"}
  NoKey = "none"
  Attempts = {"a"}
  MaxSteps = 4
  MaxDeaths = 1
  Modules = {"smb"}
  Samba = "smb"
  Saves = {"a", "b"}
  MaxSaves = 2
  MaxEvents = 1
  Defaults = {"passwd"}
  KeysFile = "keys"
  Contents = {"a", "b"}
  NoContent = "none"
  Checks = {"a", "b"}
  MaxChecks = 2
  MaxFileChanges = 1
  MaxLists = 1
  Webs = {"a", "b"}
  Configs = {"a", "b"}
  NoConfig = "none"
  NoHandler = NoHandler
  MaxArrivals = 2
  Sessions = {"a", "b"}
  MaxFailures = 1
  Sensors = {"a", "b"}
  None = None
  Day = 2
  MaxClock = 4
  Longest = 2
  BatchSize = 1
  MaxRows = 2
  MaxOrders = 2
  Names = {"a", "b"}
  Updates = {1, 2, 3}
  NoUpdate = 0
  HoldTasks = {"a"}
  MaxVersion = 2
  MaxHolds = 1
  Runs <- RetriedRuns
  NoRun = NoRun
  Batches = {1, 2}
  Targets <- ThreeTargets
  BatchOf <- BatchOfRun
  HoneypotOf <- TargetOfRun
  Slots = {"a", "b"}
  BatchKinds <- RollingReboot
  DeathPoints <- AnyPoint
  MaxRolloutDeaths = 1
  MaxDeletions = 1
  MaxRedeliveries = 0
  TimeoutMayShrink = FALSE
  TagHoneypots = {"a", "b"}
  Tags = {"t", "module"}
  OwnedTags = {"module"}
  TagRequests = {"a", "b"}
  NoRequest = NoRequest
  MaxTagArrivals = 2
  InitRuns = {"a", "b"}
  Devices = {"c", "d"}
  Ports = {22, 23}
  FirstPort = 22
  NoDevice = NoDevice
  MaxMoves = 1
  Downloads = {"a", "b"}
  Processes = {"a"}
  Nothing = Nothing
  Recheck = 2
  Interval = 2
  MaxHours = 3
  MaxEditions = 2
  MaxPulls = 3
INVARIANTS
  FactsOfThisAddress SharedKeyLogsIn
  RetryNeverOverlaps SaveSettles StoredIsTold TunnelIsTheOneNamed
  ReferenceDataHolds NothingLeftOpen
PROPERTIES TagsStick RollbackRestores BatchRollsOut SuccessIsBack OnlyPastIsPurged
CHECK_DEADLOCK FALSE
