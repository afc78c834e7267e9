SPECIFICATION Spec
CONSTANTS
  Queries <- MCQueries
  Records <- MCRecords
  N = 2
INVARIANTS SameAnswer MergeExact
