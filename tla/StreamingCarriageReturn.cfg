SPECIFICATION Spec
CONSTANTS
  Callers = {c1, c2}
  LineEnd <- Dos
  MaxRequests = 1
  Window = 1
  MaxEvents = 2
  MaxTime = 2
  MaxOthers = 1
  CR = CR
  LF = LF
  NoCaller = NoCaller
INVARIANT
  StreamsAsSent
CHECK_DEADLOCK FALSE
