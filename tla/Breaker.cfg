SPECIFICATION FairSpec
CONSTANTS
  Callers = {c1, c2}
  FailureThreshold = 1
  SuccessThreshold = 2
  MaxConcurrent = 1
  Operator = TRUE
INVARIANTS
  HalfOpenLimit
PROPERTIES
  NotOpenForever
  NotHalfOpenForever
