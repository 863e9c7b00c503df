SPECIFICATION Spec
CONSTANTS
  NUM = 7
  UINT16 = 7
  Procs = {p1, p2, p3}
  NoProc = NoProc
  MaxCalls = 7
SYMMETRY Symm
INVARIANTS RequestDone DescsAccounted CompletionPending
CHECK_DEADLOCK FALSE
