SPECIFICATION Spec
CONSTANTS
  MaxSent = 3
  MaxGot = 3
  BURST_SECS = 2
INVARIANT MissingMeansLost
