\* A request whose answer is lost.
SPECIFICATION Spec
CONSTANTS
  None = None
  c1 = c1
  c2 = c2
  Clients <- TwoClients
  Keys <- MCKeys
  Limit = 8
  Fds <- MCFds
  Requests <- MCRequests
  Initial <- OneDatabase
  Start <- Joined
  MaxTries = 3
  MaxCalls = 1
  MaxFaults = 1
INVARIANTS NoRetry
CHECK_DEADLOCK FALSE
