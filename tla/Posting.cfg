\* Postings that grow and shrink, in each of the codecs, below the length that two bytes hold.
SPECIFICATION Spec
CONSTANTS
  Width = 3
  STEP = 4
  Base = 8
  Space = 2
  Algorithms <- AllAlgorithms
  Numbers <- SmallNumbers
  Kept <- SmallKept
INVARIANTS TypeOK PostingExact
CHECK_DEADLOCK FALSE
