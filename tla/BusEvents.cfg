SPECIFICATION Spec
CONSTANTS
  e1 = e1
  e2 = e2
  e3 = e3
  h1 = h1
  h2 = h2
  NoEvent = NoEvent
  Free = Free
  Workers = {w1, w2}
  Events = {e1, e2, e3}
  Batch <- BatchOfTwo
  Handlers = {h1}
  Takes <- MCTakes
  Faulty = {h1}
  Expiring = {e1}
  MaxRetries = 1
  MaxQueue = 2
INVARIANTS
  TypeOK
  NeverTwice
  NeverLost
  NoStrandedEvent
PROPERTY DeliverySpec
SYMMETRY WorkerSymmetry
CHECK_DEADLOCK FALSE
