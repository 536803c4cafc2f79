CONSTANTS
  LevelLimit = 10
  Samples <- MCSamples
  IntBits = 4
  MaxSamples = 20
SPECIFICATION Spec

INVARIANT ReportsMatchStream
INVARIANT AvgIsMean
CHECK_DEADLOCK FALSE
