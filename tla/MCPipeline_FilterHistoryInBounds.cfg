CONSTANTS
  BlockLen = 512
  FileChunkLen = 131072
  MaxFileChunks = 2
  Budgets <- MCBudgets
  Decimations = {0, 1}
  SyncReadLens = {256, 512}
  MaxBlocks = 3
  UInt32 = 1073741824
SPECIFICATION Spec
CHECK_DEADLOCK FALSE
INVARIANT FilterHistoryInBounds
