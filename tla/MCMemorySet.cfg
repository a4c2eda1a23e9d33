SPECIFICATION Spec
CONSTANTS
  p1 = p1
  p2 = p2
  Proc = {p1, p2}
  First = p1
  Value = {0, 1}
  Segments <- MCSegments
  TRAP_CONTEXT = 6
  Fanout = 3
  KSTACK = 1
  Margin = 5
  MaxPages = 2
  MaxAreas = 5
  MaxCalls = 3
  FRAMES = 23
INVARIANTS TypeOK FramesAccounted TableMatchesAreas ForkFits MmapFits
PROPERTY PrivateSpec
CHECK_DEADLOCK FALSE
