CONSTANTS
  Envelopes <- MCEnvelopes
  BlockLens = {2, 3}
  MaxCalls = 3
SPECIFICATION Spec
INVARIANT FilterOutputBounded
PROPERTY WideRefined
CHECK_DEADLOCK FALSE
