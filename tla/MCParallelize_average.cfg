SPECIFICATION Spec
CONSTANTS
  Queries <- MCAverage
  Records <- MCRecords
  N = 2
INVARIANTS SameAnswer
