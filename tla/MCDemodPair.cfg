CONSTANTS
  BITBUF_ROWS = 1
  BITBUF_COLS = 2
  ByteBits = 2
  LevelLimit <- MCLevel
  Samples <- MCSamples
  PShort = 2
  PLong = 3
  PReset = 4
  RShort = 1
  RLong = 2
  RReset = 3
  BlockLens = {6}
  MaxBlocks = 2
SPECIFICATION Spec
INVARIANT PrintsInStreamOrder
CHECK_DEADLOCK FALSE
