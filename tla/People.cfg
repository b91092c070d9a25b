SPECIFICATION PeopleSpec
CONSTANTS
  Writers = {w1, w2, w3}
  Late = {w3}
  MaxEvents = 4
  MaxClock = 2
  Retention = 1
  BatchSize = 2
  MaxPurges = 2
  MaxFailures = 1
  MaxDamage = 1
  Users = {"a", "b", "c"}
  NoUser = "nobody"
  Founders = {"a", "b"}
  Sessions = {"a", "b"}
  NoSession = NoSession
  Requests = {"a", "b"}
  Payloads <- SomePayloads
  MaxArrivals = 4
  MaxDeaths = 1
  Attempts = {"a", "b"}
  Codes = {"c1", "c2"}
  MaxFailed = 2
  LockFor = 2
  MaxMinutes = 4
  MaxAnswers = 5
  Companies = {"c1", "c2"}
  Honeypots = {"h"}
  Members = {"member"}
  Root = "root"
  Edits = {"q"}
  NoEdit = NoEdit
  MaxEdits = 1
  StoredCompanies = {"c1"}
  StoredHoneypots = {"h1"}
  Keys = {"k1", "k2"}
  BackupTasks = {"a"}
  Nothing = Nothing
  Keep = 1
  MaxActs = 4
  Processes = {"a", "b"}
  Visits = {"a", "b"}
  Networks = {"n", "m"}
  TTL = 2
  NoPolicy = NoPolicy
  MaxSeconds = 3
  MaxSaves = 1
  Handlers = {"a", "b"}
  MaxForms = 3
INVARIANTS
  PeopleTypeOK ChainLinked VouchedIsComplete SuperadminRemains CutOffIsFinal LocksOut
  RecoveryCodesAreSpent SecretsOpen PolicyTakesHold EnabledIsComplete
PROPERTIES RevokedStaysRevoked EditsStayInScope
CHECK_DEADLOCK FALSE
