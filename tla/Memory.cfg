SPECIFICATION Spec
CONSTANTS
  Procs = {1, 2, 3}
  Boot = {17, 20, 21, 24, 40}
  PGSIZE = 2
  FANOUT = 2
  WORD = 64
  USERSTACK = 1
  NARGS = 1
  Images <- MCImages
  Vals = {"a"}
  NoSpace = NoSpace
  SbrkSizes = {1, 5}
  CopyFrom = {1, 3, 8}
  MaxCalls = 4
INVARIANT PagesAccounted
PROPERTIES OnlyOversizedPanic IsAddrSpace
CHECK_DEADLOCK FALSE
