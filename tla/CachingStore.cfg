\* A cache of two keys for three, requests that fail, a process that dies.
SPECIFICATION Spec
CONSTANTS
  None = None
  k1 = k1
  k2 = k2
  k3 = k3
  Key <- ThreeKeys
  Usages <- MCUsages
  MaxValue = 1
  MaxCache = 2
  MaxFaults = 1
SYMMETRY Symmetry
INVARIANTS TypeOK LruExact CleanIsBackend NothingOlder
PROPERTIES KeepsPromise
