\* The call after one that a signal interrupted in the middle of its answer.
SPECIFICATION Spec
CONSTANTS
  None = None
  c1 = c1
  c2 = c2
  Clients <- TwoClients
  Keys <- MCKeys
  Limit = 8
  Fds <- MCFds
  Requests <- ScanRequests
  Initial <- OneDatabase
  Start <- Joined
  MaxTries = 3
  MaxCalls = 2
  MaxFaults = 1
INVARIANTS AlwaysOwn
CHECK_DEADLOCK FALSE
