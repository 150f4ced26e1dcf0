SPECIFICATION Spec
CONSTANTS
  MaxCalls = 2
  Users = {u1}
  Agents = {a1, a2}
  MaxSessionsPerUser = 2
  MaxMessages = 1
  MaxActiveRequests = 1
  SessionTimeout = 0
  RequestLife = 0
  RequireUser = TRUE
  MaxTime = 1
  MaxCreated = 3
PROPERTIES
  BeginsAuthorized
CHECK_DEADLOCK FALSE
