CONSTANTS
  Proc = {p1, p2, p3}
  Block = {b1, b2, b3}
  Value = {v0}
  Blank = v0
  NoBuf = NoBuf
  MAXOPBLOCKS = 1
  LOGSIZE = 3
  size = 3
  MaxCrash = 0
SPECIFICATION Spec
INVARIANT NoPanic
