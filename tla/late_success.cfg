SPECIFICATION Spec
CONSTANTS
  Suite <- OneTest
  MAX_RETRY = 1
  MaxMsgs = 1
  Faults <- OnlySlow
  Skew = 0
PROPERTY SuccessCommits
