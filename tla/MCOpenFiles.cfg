SPECIFICATION Spec
CONSTANTS
  p1 = p1
  p2 = p2
  a = a
  b = b
  Proc = {p1, p2}
  First = p1
  Name = {a, b}
  Apps = {a}
  Slices <- MCSlices
  Openings <- MCOpenings
  MaxHandles = 3
  MaxFds = 4
  MaxLinks = 2
  MaxLen = 2
  MaxCalls = 6
INVARIANTS NamesCovered
PROPERTIES DescriptorsStable NamesKeepTheirFile OffsetsAdvance
CHECK_DEADLOCK FALSE
