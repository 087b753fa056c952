\* A call that a signal interrupts in the middle of its answer.
SPECIFICATION Spec
CONSTANTS
  None = None
  c1 = c1
  c2 = c2
  Clients <- TwoClients
  Keys <- MCKeys
  Limit = 8
  Fds <- MCFds
  Requests <- ScanRequests
  Initial <- OneDatabase
  Start <- Joined
  MaxTries = 3
  MaxCalls = 1
  MaxFaults = 1
INVARIANTS ErrorIsReported
CHECK_DEADLOCK FALSE
