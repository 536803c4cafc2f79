CONSTANTS
  BITBUF_ROWS = 2
  BITBUF_COLS = 2
  ByteBits = 2
  ShortLimit = 2
  LongLimit = 4
  ResetLimit = 6
  LevelLimit <- MCLevel
  Samples <- MCSamples
SPECIFICATION RefSpec
PROPERTY BitsMatchGaps
