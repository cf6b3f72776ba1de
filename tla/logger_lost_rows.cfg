SPECIFICATION Spec
CONSTANTS
  N = 1
  LOGGER_BUF_SIZE = 2
  MAX_RETRY = 0
  MaxWrites = 3
  IoFaults = FALSE
INVARIANT LoggedRowsCommitted
