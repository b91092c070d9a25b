SPECIFICATION PackagesSpec
CONSTANTS
  Names = {n1, n2}
  Updates = {r1, r2, r3}
  NoUpdate = NoUpdate
  HoldTasks = {}
  MaxVersion = 2
  MaxHolds = 0
PROPERTY RollbackTouchesOnlyItsOwn
CHECK_DEADLOCK FALSE
