\* Two clients that scan the same database.
SPECIFICATION Spec
CONSTANTS
  None = None
  c1 = c1
  c2 = c2
  Clients <- TwoClients
  Keys <- MCKeys
  Limit = 8
  Fds <- MCFds
  Requests <- ScanRequests
  Initial <- OneDatabase
  Start <- Joined
  MaxTries = 3
  MaxCalls = 4
  MaxFaults = 0
INVARIANTS SharedScanIsComplete
CHECK_DEADLOCK FALSE
