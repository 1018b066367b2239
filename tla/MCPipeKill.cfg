CONSTANTS
  Writer = {w1, w2}
  Reader = {r1}
  None = None
  Byte = {0}
  PIPESIZE = 2
  UINT = 4
  MaxN = 2
SPECIFICATION Spec
INVARIANT ReaderSleepsOnEmpty
