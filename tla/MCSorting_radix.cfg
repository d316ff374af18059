SPECIFICATION Spec
CONSTANTS
  MergeLimit = 2
  RunLimit = 2
  InsertLimit = 2
  Algorithms = {9, 10}
  MaxLength = 6
  Bits = {2, 3}
  Keys = {0, 1, 2, 3, 5, 6}
  MaskCovers = FALSE
  LongParts = TRUE
INVARIANTS RemainderIsSorted
CHECK_DEADLOCK FALSE
