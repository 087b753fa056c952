\* Two handles create the store together; a request may fail, a process die.
SPECIFICATION Spec
CONSTANTS
  None = None
  h1 = h1
  h2 = h2
  i1 = i1
  i2 = i2
  n1 = n1
  n2 = n2
  c1 = c1
  c2 = c2
  u1 = u1
  u2 = u2
  Handles <- TwoHandles
  Readers = {}
  Iterators <- NoIterators
  Names <- OneName
  NamePrefix <- SlashPrefix
  Versions <- MCVersions
  VersionOf <- SameVersion
  Codecs <- MCCodecs
  CodecOf <- OwnCodec
  Stores <- OnlyNew
  MaxStatements = 1
  MaxFaults = 1
  MaxCrashes = 1
INVARIANTS OpenIsComplete
CHECK_DEADLOCK FALSE
