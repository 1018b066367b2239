CONSTANTS
  Proc = {p1, p2}
  Block = {b1, b2, b3}
  Value = {v0, v1}
  Blank = v0
  NoBuf = NoBuf
  MAXOPBLOCKS = 2
  LOGSIZE = 6
  size = 6
  MaxCrash = 2
SPECIFICATION Spec
SYMMETRY Symmetry
INVARIANTS QuiescentDurable SpaceReserved PinsExact
PROPERTIES AtomicSpec
