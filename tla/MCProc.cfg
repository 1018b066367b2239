CONSTANTS
  NPROC = 3
  CPU = {c1, c2}
  NoCpu = NoCpu
  PidArgs = {2}
  TypeArgs = {"IO_BOUND"}
  MaxPid = 3
SPECIFICATION Spec
SYMMETRY Symmetry
INVARIANTS OneCpu NoFreeOnCpu NoPanic ParentAlive NoLostWakeup UniquePids IInv FamilyInv
PROPERTIES LifeCycle
