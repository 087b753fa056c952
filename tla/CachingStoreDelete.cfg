\* No request fails.
SPECIFICATION Spec
CONSTANTS
  None = None
  k1 = k1
  k2 = k2
  k3 = k3
  Key <- TwoKeys
  Usages <- PlainOnly
  MaxValue = 1
  MaxCache = 2
  MaxFaults = 0
PROPERTIES DeleteSucceeds
