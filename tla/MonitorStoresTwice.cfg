SPECIFICATION SystemSpec
CONSTANTS
  monitor = monitor
  Clients = {monitor, c1}
  MinConnections = 1
  MaxConnections = 2
  Sources = {s1}
  Defaults = {s1}
  MaxFailures = 1
  MaxCount = 1
  Interval = 1
  MaxNow = 2
  HalfRange = 8
  MaxRows = 2
  NoSource = NoSource
INVARIANTS
  StoredOnce
CHECK_DEADLOCK FALSE
