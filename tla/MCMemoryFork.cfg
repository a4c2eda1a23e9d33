SPECIFICATION Spec
CONSTANTS
  p1 = p1
  p2 = p2
  Proc = {p1, p2}
  First = p1
  Value = {0, 1}
  Segments <- MCSegments
  TRAP_CONTEXT = 3
  Fanout = 5
  KSTACK = 1
  Margin = 4
  MaxPages = 2
  MaxAreas = 5
  MaxCalls = 3
  FRAMES = 20
INVARIANT ForkCopies
CHECK_DEADLOCK FALSE
