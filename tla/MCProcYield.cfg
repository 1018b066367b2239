CONSTANTS
  NPROC = 2
  CPU = {c1}
  NoCpu = NoCpu
  PidArgs = {2}
  TypeArgs = {}
  MaxPid = 3
SPECIFICATION Spec
PROPERTY YieldGivesUpCpu
