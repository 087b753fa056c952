\* Two handles on the same tables, up to and past the capacity.
SPECIFICATION Spec
CONSTANTS
  None = None
  h1 = h1
  h2 = h2
  n1 = n1
  n2 = n2
  n3 = n3
  g1 = g1
  w1 = w1
  w2 = w2
  w3 = w3
  v1 = v1
  v2 = v2
  Procs <- TwoHandles
  Statements <- PairStatements
  Contexts <- MCContexts
  Objects <- PairObjects
  Givens <- OnlyNone
  Defaults <- NoContexts
  Nodes <- MCNodes
  Hashes <- MCNodes
  NodeHash <- MCIdentity
  Digests <- MCDigests
  Digest <- MCDigest
  Words <- MCWords
  Languages <- MCLanguages
  Datatypes <- MCDatatypes
  Values <- MCValues
  DateTypes <- MCDateTypes
  Freetext = FALSE
  MaxRecords = 2
  MaxFaults = 0
SYMMETRY Symmetry
INVARIANTS IdsUnique IndexSound CounterSettles
PROPERTIES IdsNeverReused
