SPECIFICATION FairSpec
CONSTANTS
  Recorders = {r1, r2}
  Agents = {a1, a2}
  Subscribers = {s1, s2}
  Reentrant = {s2}
  MaxEventsPerAgent = 2
  MaxEventsBuffer = 2
  MaxSubscriptions = 1
  Retention = 0
  MaxTime = 1
  MaxEvents = 2
  NoEvent = NoEvent
  Free = Free
PROPERTIES
  CleanupRemovesOld
CHECK_DEADLOCK FALSE
