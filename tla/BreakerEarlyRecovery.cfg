SPECIFICATION Spec
CONSTANTS
  Callers = {c1, c2}
  FailureThreshold = 2
  SuccessThreshold = 2
  MaxConcurrent = 2
  Operator = FALSE
PROPERTIES
  RecoveryWaits
