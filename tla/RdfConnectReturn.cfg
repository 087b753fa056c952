\* A writer and a reader that connect, die and connect again, to a new store or an old one; a request may fail.
SPECIFICATION Spec
CONSTANTS
  None = None
  h1 = h1
  h2 = h2
  i1 = i1
  i2 = i2
  n1 = n1
  n2 = n2
  c1 = c1
  c2 = c2
  u1 = u1
  u2 = u2
  Handles <- TwoHandles
  Readers <- Second
  Iterators <- MCIterators
  Names <- TwoNames
  NamePrefix <- SlashPrefix
  Versions <- MCVersions
  VersionOf <- SameVersion
  Codecs <- MCCodecs
  CodecOf <- SameCodec
  Stores <- NewOrMade
  MaxStatements = 2
  MaxFaults = 1
  MaxCrashes = 2
INVARIANTS TypeOK OpenIsComplete StoreAgrees NoneFreedInUse NoneLeftOpen
CHECK_DEADLOCK FALSE
