SPECIFICATION Spec
CONSTANTS
  w1 = w1
  w2 = w2
  t1 = t1
  t2 = t2
  t3 = t3
  a1 = a1
  a2 = a2
  NoTask = NoTask
  NoAgent = NoAgent
  Free = Free
  Workers = {w1, w2}
  Tasks = {t1, t3}
  Agents = {a1}
  Requested <- MCRequested
  Handles <- MCHandles
  HealthChecks = {}
  Throwing = {}
  MaxConcurrent = 1
PROPERTIES
  DegradedOnlyWhenBusy
CHECK_DEADLOCK FALSE
