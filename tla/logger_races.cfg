SPECIFICATION Spec
CONSTANTS
  N = 2
  LOGGER_BUF_SIZE = 2
  MAX_RETRY = 1
  MaxWrites = 4
  IoFaults = TRUE
INVARIANT TypeOK
INVARIANT BufferInBounds
INVARIANT UndisturbedRowsCommitted
PROPERTY StoreSpec
