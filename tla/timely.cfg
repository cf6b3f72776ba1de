SPECIFICATION Spec
CONSTANTS
  Suite <- TwoSubs
  MAX_RETRY = 1
  MaxMsgs = 1
  Faults <- Timely
  Skew = 0
INVARIANT NoPartialSuccess
INVARIANT WindowIsolation
INVARIANT WindowsDisjoint
INVARIANT ReportTruthful
