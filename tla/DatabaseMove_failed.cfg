SPECIFICATION Spec
CONSTANTS
  Last = 4
  Users = 2
  MaxWrites = 2
  MaxFailures = 1
INVARIANT NeverOnPartOfIt
CHECK_DEADLOCK FALSE
