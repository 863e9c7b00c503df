SPECIFICATION Spec
CONSTANTS
  NBUF = 3
  Blocks = {b1, b2, b3, b4}
  NoBlock = NoBlock
  Clients = {u1, u2}
  NoClient = NoClient
  Vals = {v0, v1}
  InitVal = v0
SYMMETRY Symm
INVARIANTS BufferKept SleepersBlocked
PROPERTIES IsBlockStore
CHECK_DEADLOCK FALSE
