SPECIFICATION Spec
CONSTANTS
  Suite <- OneTest
  MAX_RETRY = 1
  MaxMsgs = 1
  Faults <- AllFaults
  Skew <- Behind
INVARIANT TypeOK
INVARIANT TestsInOrder
INVARIANT OwnBurstRecorded
PROPERTY NoFriendlyAbort
