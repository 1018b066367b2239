CONSTANTS
  Writer = {w1, w2}
  Reader = {r1}
  None = None
  Byte = {0, 1}
  PIPESIZE = 2
  UINT = 4
  MaxN = 3
SPECIFICATION Spec
SYMMETRY Symmetry
INVARIANTS NoUseAfterFree NoLostWakeup
PROPERTIES ChannelSpec
