SPECIFICATION Spec
CONSTANTS
  MaxSent = 3
  MaxGot = 3
  BURST_SECS = 2
INVARIANT TypeOK
INVARIANT LossExact
INVARIANT DisorderSeen
INVARIANT DuplicatesSound
INVARIANT CleanTiming
INVARIANT NeverTotalLoss
