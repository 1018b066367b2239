CONSTANTS
  Proc = {p1, p2, p3}
  Two = {p1, p2}
  Block = {t1, t2}
  Val = {0, 1}
  NUM = 8
  RING = 2
  UINT16 = 4
  init = init
  root = root
  one = one
  None = None
SPECIFICATION MCSpec
SYMMETRY Symmetry
INVARIANTS Names Files Inodes Bitmap DescExact Transferred NoLostInterrupt
PROPERTIES FileSpec
