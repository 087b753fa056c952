\* A handle with a default context.
SPECIFICATION Spec
CONSTANTS
  None = None
  h1 = h1
  h2 = h2
  n1 = n1
  n2 = n2
  n3 = n3
  g1 = g1
  w1 = w1
  w2 = w2
  w3 = w3
  v1 = v1
  v2 = v2
  Procs <- OneHandle
  Statements <- LinkStatements
  Contexts <- MCContexts
  Objects <- LinkObjects
  Givens <- NoneOrG1
  Defaults <- MCContexts
  Nodes <- MCNodes
  Hashes <- MCNodes
  NodeHash <- MCIdentity
  Digests <- MCDigests
  Digest <- MCDigest
  Words <- MCWords
  Languages <- MCLanguages
  Datatypes <- MCDatatypes
  Values <- MCValues
  DateTypes <- MCDateTypes
  Freetext = TRUE
  MaxRecords = 2
  MaxFaults = 0
PROPERTIES ContainsAgrees
