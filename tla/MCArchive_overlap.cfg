CONSTANTS
  Records <- MCAbutting
  Filters <- MCFilters
  DayLength = 5
  ImportBufSize = 1
  LogSizeThreshold = 2
  MaxImports = 3
  MaxFailures = 0
SPECIFICATION Spec
INVARIANTS ScanAlwaysExact

CHECK_DEADLOCK FALSE
