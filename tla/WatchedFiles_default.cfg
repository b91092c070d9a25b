SPECIFICATION WatchSpec
CONSTANTS
  Defaults = {p}
  KeysFile = k
  Contents = {v, w}
  NoContent = NoContent
  Checks = {c1, c2}
  MaxChecks = 2
  MaxFileChanges = 2
  MaxLists = 1
INVARIANT SavedListStays
CHECK_DEADLOCK FALSE
