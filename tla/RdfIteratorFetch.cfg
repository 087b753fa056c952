\* A cycle of anonymous nodes with a chain behind it; no iterator is opened.
SPECIFICATION Spec
CONSTANTS
  Width = 2
  STEP = 2
  None = None
  Ids <- CyclicIds
  What <- CyclicWhat
  Opening = {}
  Patterns = {}
  Resources = {res}
  Contexts = {ctx}
  Blank = {b1, b2, b3, b4, b5}
  Freetext = FALSE
  MaxLevels = 6
  MaxBytes = 4
  Iterators = {x1}
  MaxCalls = 0
  res = res
  b1 = b1
  b2 = b2
  b3 = b3
  b4 = b4
  b5 = b5
  p1 = p1
  p2 = p2
  ctx = ctx
  w1 = w1
  w2 = w2
  en = en
  lit = lit
  dt = dt
INVARIANT FetchComplete
CHECK_DEADLOCK FALSE
