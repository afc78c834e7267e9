CONSTANTS
  Words <- MCWords
  Digits <- MCDigits
  Hex <- MCHex
  SearchLeaves <- MCSearchLeaves
  ExprLeaves <- MCExprLeaves
  ProcSamples <- MCProcSamples
  Globs <- MCGlobs
  BinaryOps <- MCBinaryOps
  MaxNodes = 3
SPECIFICATION QuerySpec
INVARIANTS ReadsBack Unpackable
CHECK_DEADLOCK FALSE
