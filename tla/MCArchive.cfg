CONSTANTS
  Records <- MCRecords
  Filters <- MCFilters
  DayLength = 5
  ImportBufSize = 1
  LogSizeThreshold = 2
  MaxImports = 2
  MaxFailures = 1
SPECIFICATION Spec
INVARIANTS VisibleIsWhole ImportedOnce ScanExact
PROPERTIES ImportEnds
CHECK_DEADLOCK FALSE
