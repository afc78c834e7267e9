SPECIFICATION Spec
CONSTANTS
  GroupBys <- MCGroupBys
  Inputs <- MCInputs
  MaxInput = 4
INVARIANTS SentRight NothingLost FailsOnlyTooBig
