CONSTANTS
  Records <- MCRecords
  Controls = {ctl}
  Options <- MCOptions
  Filters <- MCFilters
  Thresholds <- MCThresholds
  Cuts <- MCCuts
  CtrlValueEscape = 245
  MaxPayloads = 3
SPECIFICATION Spec
INVARIANTS StreamReadable SkipsExact TimeIndexExact TypesRoundTrip ColumnsRoundTrip
CHECK_DEADLOCK FALSE
