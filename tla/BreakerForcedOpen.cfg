SPECIFICATION Spec
CONSTANTS
  Callers = {c1}
  FailureThreshold = 2
  SuccessThreshold = 2
  MaxConcurrent = 1
  Operator = TRUE
PROPERTIES
  RecoveryWaits
