SPECIFICATION CacheSpec
CONSTANTS
  NoBlock = NoBlock
  c1 = c1
  c2 = c2
  c3 = c3
  b1 = b1
  b2 = b2
  b3 = b3
  Block = {b1, b2, b3}
  Client = {c1, c2, c3}
  Value = {0, 1}
  BLOCK_CACHE_SIZE = 2
INVARIANTS OneBuffer OnlyRunsOutInUse
PROPERTY StoreSpec
CHECK_DEADLOCK FALSE
