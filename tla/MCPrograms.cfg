CONSTANTS
  Proc = {p1, p2}
  None = None
  UINT = 8
  MaxN = 3
  MaxLag = 2
SPECIFICATION MCSpec
SYMMETRY Symmetry
CHECK_DEADLOCK FALSE
INVARIANTS Pages Output Experiments Commands Utilities
PROPERTIES OnTime
