SPECIFICATION FairSpec
CONSTANTS
  Suite <- TwoSizes
  MAX_RETRY = 1
  MaxMsgs = 1
  Faults <- Lossless
  Skew = 0
INVARIANT CommittedOnTopic
INVARIANT WindowIsolation
PROPERTY LedgerSpec
PROPERTY Termination
