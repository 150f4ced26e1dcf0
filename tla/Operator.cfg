SPECIFICATION OperatorFairSpec
CONSTANTS
  Workers = {w1, w2}
  Resources = {r1}
  GenericPlural = {r1}
  GenericKind = {r1}
  Specs = {s1, s2, bad}
  Invalid = {bad}
  Listing = {s2}
  MaxChanges = 2
  MaxQueue = 1
  NoSpec = NoSpec
  NoEvent = NoEvent
  Free = Free
INVARIANTS
  OperatorTypeOK
  NoneMissesShutdown
PROPERTIES
  QueuedIsTaken
  ShutdownReturnsUnlessStuck
CHECK_DEADLOCK FALSE
