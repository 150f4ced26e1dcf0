SPECIFICATION Spec
CONSTANTS
  Callers = {c1, c2}
  FailureThreshold = 2
  SuccessThreshold = 1
  MaxConcurrent = 2
  Operator = FALSE
PROPERTIES
  HalfOpenOnlyFromOpen
