SPECIFICATION Spec
CONSTANTS
  N = 2
  MAX_RETRY = 1
  MaxSamples = 4
  IoFaults = TRUE
INVARIANT TypeOK
INVARIANT OnlyFirstSampleForeign
