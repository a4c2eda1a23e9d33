SPECIFICATION Spec
CONSTANTS
  BLOCK_SZ = 2
  INODE_DIRECT_COUNT = 1
  INODE_INDIRECT1_COUNT = 2
  Name = {1, 2}
  TOTAL_BLOCKS = 22
  INODE_BITMAP_BLOCKS = 1
  INODES_PER_BLOCK = 2
  BLOCK_BITS = 3
  Span <- MCAreaSpan
  MaxCalls = 5
INVARIANT AllocatedBlocksExist
CHECK_DEADLOCK FALSE
