\* One handle, one lookup that fails: the counter starts again.
SPECIFICATION Spec
CONSTANTS
  None = None
  h1 = h1
  h2 = h2
  i1 = i1
  i2 = i2
  n1 = n1
  n2 = n2
  c1 = c1
  c2 = c2
  u1 = u1
  u2 = u2
  Handles <- OneHandle
  Readers = {}
  Iterators <- NoIterators
  Names <- OneName
  NamePrefix <- SlashPrefix
  Versions <- MCVersions
  VersionOf <- SameVersion
  Codecs <- MCCodecs
  CodecOf <- SameCodec
  Stores <- OneStore
  MaxStatements = 2
  MaxFaults = 1
  MaxCrashes = 0
INVARIANTS NumbersUnique
CHECK_DEADLOCK FALSE
