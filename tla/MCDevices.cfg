CONSTANTS
  User = {p1, p2}
  Block = {a, c, d, e}
  Val = {0, 1}
  NBUF = 3
  MaxPin = 2
  None = None
SPECIFICATION MCSpec
SYMMETRY Symmetry
INVARIANTS IInv BuffersSuffice Input
PROPERTIES StoreSpec TtySpec
