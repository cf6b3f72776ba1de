SPECIFICATION Spec
CONSTANTS
  N = 1
  MAX_RETRY = 1
  LOGGER_BUF_SIZE = 3
  INFLUX_POINTS = 2
  Rates = {2}
  MaxWrites = 3
INVARIANT FailedRunUnsent
