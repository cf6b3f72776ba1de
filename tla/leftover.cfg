SPECIFICATION Spec
CONSTANTS
  Suite <- TwoSizes
  MAX_RETRY = 0
  MaxMsgs = 1
  Faults <- NoFaults
  Skew = 0
PROPERTY LeftoverFlushed
