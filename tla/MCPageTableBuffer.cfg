SPECIFICATION Spec
CONSTANTS
  t1 = t1
  t2 = t2
  Table = {t1, t2}
  Fanout = 2
  Vpn = {0, 1, 4}
  Permissions <- MCPermissions
  PAGE_SIZE = 3
  TRAP_CONTEXT = 21
  Pointers = {0, 1, 2, 3, 4}
  Lengths = {0, 1, 2, 3, 4}
  MaxCalls = 7
  FRAMES = 8
SYMMETRY MCSymmetry
INVARIANT BufferCovered
CHECK_DEADLOCK FALSE
