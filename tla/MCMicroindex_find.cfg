CONSTANTS
  NChunks = 2
  Contents <- MCContents
  Columns = {1, 2}
  Thresholds = {1, 2}
  MaxLevels = 5
  MaxRuns = 2
  MaxFailures = 1
SPECIFICATION Spec
INVARIANT FindGoesOn
CHECK_DEADLOCK FALSE
