\* Runs of equal bytes as long as two bytes can tell, and one byte longer.
SPECIFICATION Spec
CONSTANTS
  Width = 3
  STEP = 4
  Base = 8
  Space = 2
  Algorithms <- AllAlgorithms
  Numbers <- FarNumbers
  Kept <- FarKept
INVARIANT PostingExact
CHECK_DEADLOCK FALSE
