SPECIFICATION RolloutFairSpec
CONSTANTS
  Targets <- MCTargets
  Batches = {1}
  Runs <- MCRuns
  BatchOf <- MCBatchOf
  HoneypotOf <- MCHoneypotOf
  NoRun = NoRun
  Slots = {s1, s2}
  BatchKinds <- RollingReboot
  DeathPoints <- AnyDeathPoint
  MaxRolloutDeaths = 0
  MaxDeletions = 1
  MaxRedeliveries = 0
  TimeoutMayShrink = FALSE
PROPERTY NothingLeftPending
CHECK_DEADLOCK FALSE
