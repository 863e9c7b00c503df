SPECIFICATION FairSpec
CONSTANTS
  Blocks = {b1, b2, b3}
  Vals = {v0, v1}
  InitVal = v0
  NoVal = NoVal
  Procs = {p1, p2}
  MAXOPBLOCKS = 1
  LOGBLOCKS = 2
  OpBlocks = 1
INVARIANTS RoomReserved PinnedWhileLogged
PROPERTIES AtomicGroups CommitIsDurable SleepersWoken
