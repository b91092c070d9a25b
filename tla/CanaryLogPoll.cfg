SPECIFICATION MCSpec
CONSTANTS
  Pollers = {p1, p2}
  Spares = {p2}
  Refreshers = {r1}
  Paths = {old, new}
  FirstPath = old
  MaxLines = 4
  FewerLines = 3
  MaxRotations = 1
  MaxMoves = 1
  MaxFailures = 1
INVARIANTS EachLineOnce NothingSkipped
PROPERTY EventuallyStored
CHECK_DEADLOCK FALSE
