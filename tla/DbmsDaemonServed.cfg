\* Three clients, at the limit of connections, one database: liveness.
SPECIFICATION Spec
CONSTANTS
  None = None
  x1 = x1
  x2 = x2
  x3 = x3
  d1 = d1
  d2 = d2
  d3 = d3
  Conns <- ThreeConns
  Databases <- OneDatabase
  Forbidden <- NoDatabase
  MaxForks = 1
  MaxProcesses = 1
  MaxClients = 2
  MaxDbs = 2
  MaxFaults = 1
  Cuts = FALSE
PROPERTIES Served GoneIsClosed
CHECK_DEADLOCK FALSE
