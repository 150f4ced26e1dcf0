SPECIFICATION Spec
CONSTANTS
  e1 = e1
  e2 = e2
  e3 = e3
  h1 = h1
  h2 = h2
  NoEvent = NoEvent
  Free = Free
  Workers = {w1, w2}
  Events = {e1}
  Batch <- NoBatch
  Handlers = {h1}
  Takes <- MCTakes
  Faulty = {}
  Expiring = {}
  MaxRetries = 1
  MaxQueue = 1
INVARIANTS
  WorkersServe
CHECK_DEADLOCK FALSE
