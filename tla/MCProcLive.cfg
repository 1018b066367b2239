CONSTANTS
  NPROC = 2
  CPU = {c1, c2}
  NoCpu = NoCpu
  PidArgs = {2}
  TypeArgs = {"IO_BOUND", "OTHER"}
  MaxPid = 2
SPECIFICATION FairSpec
PROPERTIES ZombieReaped KilledExits 
