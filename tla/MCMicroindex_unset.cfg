CONSTANTS
  NChunks = 1
  Contents <- MCUnset
  Columns = {1, 2}
  Thresholds = {2}
  MaxLevels = 5
  MaxRuns = 1
  MaxFailures = 0
SPECIFICATION Spec
INVARIANT RowsStreamed
CHECK_DEADLOCK FALSE
