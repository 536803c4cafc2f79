CONSTANTS
  Envelopes <- MCEnvelopes
  BlockLens = {2, 3}
  MaxCalls = 3
SPECIFICATION RefSpec
INVARIANT FilterContinuous
CHECK_DEADLOCK FALSE
