SPECIFICATION Spec
CONSTANTS
  Parents = {p1, p2}
  Supply = 2
  Sizes = {1, 2}
  Limits <- TwoHeads
  WarnMax = 1
  Errors = TRUE
  Cancels = TRUE
  WriteFails = TRUE
  Satisfied = {p1}
INVARIANTS RefsExact SameStream SuccessIsComplete
PROPERTIES PartsImplemented RunEnds
