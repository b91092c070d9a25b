SPECIFICATION RetentionSpec
CONSTANTS
  Sensors = {h1, h2}
  None = None
  Day = 2
  MaxClock = 4
  Longest = 2
  BatchSize = 1
  MaxRows = 2
  MaxOrders = 2
INVARIANT CountsTheDay
CHECK_DEADLOCK FALSE
