SPECIFICATION BackgroundSpec
CONSTANTS
  Nil = Nil
  Sent = Sent
  Tasks = {"a", "b"}
  Periods = {1, 2}
  Ticks = {"a"}
  Workers = {"a"}
  Editors = {"a"}
  MaxClock = 3
  MaxEdits = 2
  MaxQueue = 1
  MaxDeaths = 1
INVARIANTS OncePerOccurrence
PROPERTIES EveryRunEnds DueIsHandled UpgradeEnds PanelCatchesUp
CHECK_DEADLOCK FALSE
