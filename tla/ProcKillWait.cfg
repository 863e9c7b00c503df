SPECIFICATION FairSpec
CONSTANTS
  NPROC = 3
  CPUs = {c1, c2}
  NoCpu = NoCpu
  MaxPid = 3
  KillPids = {2}
PROPERTIES KilledExits
