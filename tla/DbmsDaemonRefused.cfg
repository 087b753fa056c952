\* What does the mother make of a fork that is refused at the limit of connections?
SPECIFICATION Spec
CONSTANTS
  None = None
  x1 = x1
  x2 = x2
  x3 = x3
  d1 = d1
  d2 = d2
  d3 = d3
  Conns <- TwoConns
  Databases <- TwoDatabases
  Forbidden <- NoDatabase
  MaxForks = 2
  MaxProcesses = 1
  MaxClients = 2
  MaxDbs = 2
  MaxFaults = 0
  Cuts = FALSE
INVARIANTS OnlyChildBailsOut
CHECK_DEADLOCK FALSE
