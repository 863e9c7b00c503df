SPECIFICATION Spec
CONSTANTS
  Procs = {p1, p2}
  NoProc = NoProc
  Inodes = {1, 2, 3, 4}
  Blocks = {1, 2, 3, 4}
  NDIRECT = 1
  NINDIRECT = 1
  EPB = 4
  Sessions <- MCSessions
SYMMETRY Symm
INVARIANTS  InUseKept RefsBalanced CrashSafe NoDeadlock
PROPERTIES OrphansReclaimed
CHECK_DEADLOCK FALSE
