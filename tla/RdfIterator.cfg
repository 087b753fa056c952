\* Three iterators over a store of four statements, bytes of two bits.
SPECIFICATION Spec
CONSTANTS
  Width = 2
  STEP = 2
  None = None
  Ids <- SmallIds
  What <- SmallWhat
  Opening <- SmallOpening
  Patterns <- SmallPatterns
  Resources = {res}
  Contexts = {ctx}
  Blank = {b1, b2}
  Freetext = TRUE
  MaxLevels = 20
  MaxBytes = 2
  Iterators = {x1, x2, x3}
  MaxCalls = 4
  res = res
  b1 = b1
  b2 = b2
  b3 = b3
  b4 = b4
  b5 = b5
  p1 = p1
  p2 = p2
  ctx = ctx
  w1 = w1
  w2 = w2
  en = en
  lit = lit
  dt = dt
SYMMETRY Alike
INVARIANTS TypeOK WalkExact CombinationsExact SearchExact FetchExact
CHECK_DEADLOCK FALSE
