CONSTANTS
  NPROC = 2
  CPU = {c1}
  NoCpu = NoCpu
  PidArgs = {0}
  TypeArgs = {}
  MaxPid = 3
SPECIFICATION Spec
PROPERTY KillHitsProcess
