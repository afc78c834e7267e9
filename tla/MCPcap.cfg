CONSTANTS
  Blocks <- MCBlocks
  Requests <- MCRequests
  MaxBlocks = 7
  MaxAhead = 2
  Limits <- MCLimits
  Bins = 3
  OffsetThresh = 2
  BufferSize = 16
  BufferLimit = 18
  Second = 4
  Word = 4
  Fudge = 1
  MaxOffset = 1000
SPECIFICATION Spec
INVARIANTS IndexSound SearchExact
