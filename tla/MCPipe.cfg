SPECIFICATION FairSpec
CONSTANTS
  p1 = p1
  p2 = p2
  Proc = {p1, p2}
  Maker = p1
  Idle = Idle
  initproc = initproc
  RING_BUFFER_SIZE = 2
  MaxLen = 2
  Byte = {0, 1}
INVARIANTS RoundCovered EndsHeld
PROPERTIES ShortReadIsEof EofIsFinal FifoSpec EofDelivered
CHECK_DEADLOCK FALSE
