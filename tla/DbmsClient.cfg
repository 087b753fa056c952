\* Two clients of one database: lost connections, failed reconnections.
SPECIFICATION Spec
CONSTANTS
  None = None
  c1 = c1
  c2 = c2
  Clients <- TwoClients
  Keys <- MCKeys
  Limit = 8
  Fds <- MCFds
  Requests <- MCRequests
  Initial <- OneDatabase
  Start <- Joined
  MaxTries = 2
  MaxCalls = 3
  MaxFaults = 2
INVARIANTS TypeOK ExecutedPerConnection AnswerIsOwn NumbersDiffer ScanIsComplete
PROPERTIES CallsReturn
CHECK_DEADLOCK FALSE
