SPECIFICATION Spec
CONSTANTS
  NPROC = 3
  CPUs = {c1, c2}
  NoCpu = NoCpu
  MaxPid = 4
  KillPids = {2}
SYMMETRY Symm
INVARIANTS OneCpuPerProc ParentAlive NoLostExit
