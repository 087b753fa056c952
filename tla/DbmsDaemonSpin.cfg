\* Can the mother be stuck in a hand-off?
SPECIFICATION Spec
CONSTANTS
  None = None
  x1 = x1
  x2 = x2
  x3 = x3
  d1 = d1
  d2 = d2
  d3 = d3
  Conns <- TwoConns
  Databases <- TwoDatabases
  Forbidden <- NoDatabase
  MaxForks = 2
  MaxProcesses = 1
  MaxClients = 5
  MaxDbs = 2
  MaxFaults = 1
  Cuts = TRUE
INVARIANTS HandOffEnds
CHECK_DEADLOCK FALSE
