SPECIFICATION FairSpec
CONSTANTS
  Readers = {p1, p2}
  Writers = {p3}
  NoProc = NoProc
  Byte = {a, b}
  NoByte = NoByte
  PIPESIZE = 2
  UINT = 4
  MaxN = 2
  Victims = {p1, p3}
INVARIANTS NoUseAfterFree NoLostWakeup
PROPERTIES IsFifo WritesFinish
CHECK_DEADLOCK FALSE
