SPECIFICATION Spec
CONSTANTS
  Writers = {w1}
  MaxEvents = 3
  MaxClock = 2
  Retention = 1
  BatchSize = 2
  MaxPurges = 1
  MaxFailures = 0
  MaxDamage = 0
CHECK_DEADLOCK FALSE
INVARIANT QuietVerifyPasses
