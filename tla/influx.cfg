SPECIFICATION Spec
CONSTANTS
  N = 2
  MAX_RETRY = 1
  LOGGER_BUF_SIZE = 2
  INFLUX_POINTS = 1
  Rates = {2}
  MaxWrites = 3
INVARIANTS
  TypeOK
  PointsInBounds
  PointsTagged
  NoSampleSkipped
