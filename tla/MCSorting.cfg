SPECIFICATION Spec
CONSTANTS
  MergeLimit = 2
  RunLimit = 2
  InsertLimit = 2
  Algorithms = {1, 2, 3, 4, 5, 6, 8, 9, 10}
  MaxLength = 7
  Bits = {2, 3}
  Keys = {0, 1, 3}
  MaskCovers = TRUE
  LongParts = FALSE
INVARIANTS OrderIsStable RunsAreSorted RunsShrink
CHECK_DEADLOCK FALSE
