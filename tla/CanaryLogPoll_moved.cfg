SPECIFICATION Spec
CONSTANTS
  Pollers = {p1}
  Refreshers = {r1}
  Paths = {old, new}
  FirstPath = old
  MaxLines = 4
  MaxRotations = 0
  MaxMoves = 1
  MaxFailures = 0
INVARIANT OffsetIsHonest
CHECK_DEADLOCK FALSE
