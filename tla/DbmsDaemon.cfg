\* Two clients, two databases and one that is refused, one child at a time: hand-offs, drops, deaths and restarts.
SPECIFICATION Spec
CONSTANTS
  None = None
  x1 = x1
  x2 = x2
  x3 = x3
  d1 = d1
  d2 = d2
  d3 = d3
  Conns <- TwoConns
  Databases <- AllDatabases
  Forbidden <- ThirdDatabase
  MaxForks = 2
  MaxProcesses = 1
  MaxClients = 5
  MaxDbs = 2
  MaxFaults = 1
  Cuts = TRUE
INVARIANTS TypeOK InOnePlace OpenOnce CountsAgree
CHECK_DEADLOCK FALSE
