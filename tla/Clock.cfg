\* Two CPUs share two processes; the tick counter starts at its last value.
CONSTANTS
  CPUs = {0, 1}
  proc <- MCproc
  Pauses <- MCPauses
  tickslock = tickslock
  wait_lock = wait_lock
  Free = Free
  Readers = {3}
  Victims <- MCVictims
  UINT = 4
  MaxTicks = 2
SPECIFICATION Spec
INVARIANTS NoPanic InterruptsRestored TrapReturnsHome PauseOnTime
