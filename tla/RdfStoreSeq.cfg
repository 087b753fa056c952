\* One handle, no failing request: the store is exact between calls.
SPECIFICATION Spec
CONSTANTS
  None = None
  h1 = h1
  h2 = h2
  n1 = n1
  n2 = n2
  n3 = n3
  g1 = g1
  w1 = w1
  w2 = w2
  w3 = w3
  v1 = v1
  v2 = v2
  Procs <- OneHandle
  Statements <- SeqStatements
  Contexts <- MCContexts
  Objects <- SeqObjects
  Givens <- NoneOrG1
  Defaults <- NoContexts
  Nodes <- MCNodes
  Hashes <- MCNodes
  NodeHash <- MCIdentity
  Digests <- MCDigests
  Digest <- MCDigest
  Words <- MCWords
  Languages <- MCLanguages
  Datatypes <- MCDatatypes
  Values <- MCValues
  DateTypes <- MCDateTypes
  Freetext = TRUE
  MaxRecords = 3
  MaxFaults = 0
INVARIANTS TypeOK TablesExact
PROPERTIES WordsRemovedAreOwn RefinesTripleStore
