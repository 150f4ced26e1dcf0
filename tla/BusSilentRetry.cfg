SPECIFICATION FairSpec
CONSTANTS
  e1 = e1
  e2 = e2
  e3 = e3
  h1 = h1
  h2 = h2
  NoEvent = NoEvent
  Free = Free
  Workers = {w1}
  Events = {e1}
  Batch <- NoBatch
  Handlers = {h1}
  Takes <- MCTakes
  Faulty = {h1}
  Expiring = {}
  MaxRetries = 1
  MaxQueue = 1
PROPERTIES
  RetryIsRouted
CHECK_DEADLOCK FALSE
