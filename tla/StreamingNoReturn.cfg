SPECIFICATION FairSpec
CONSTANTS
  Callers = {c1, c2}
  LineEnd <- Unix
  MaxRequests = 1
  Window = 1
  MaxEvents = 2
  MaxTime = 2
  MaxOthers = 1
  CR = CR
  LF = LF
  NoCaller = NoCaller
PROPERTY
  FailureReturns
CHECK_DEADLOCK FALSE
