\* One handle on a store, one fetch of rdfstore_elements that fails.
SPECIFICATION Spec
CONSTANTS
  None = None
  h1 = h1
  h2 = h2
  i1 = i1
  i2 = i2
  n1 = n1
  n2 = n2
  c1 = c1
  c2 = c2
  u1 = u1
  u2 = u2
  Handles <- OneHandle
  Readers = {}
  Iterators <- MCIterators
  Names <- OneName
  NamePrefix <- SlashPrefix
  Versions <- MCVersions
  VersionOf <- SameVersion
  Codecs <- MCCodecs
  CodecOf <- SameCodec
  Stores <- OneStore
  MaxStatements = 2
  MaxFaults = 1
  MaxCrashes = 0
INVARIANTS CursorsCallBack
