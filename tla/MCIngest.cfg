SPECIFICATION FairSpec
CONSTANTS
  LogPosts = {l1}
  PcapPosts = {p1}
  Untimed = {}
  Nil = Nil
  ChanCap = 1
  MaxWarn = 2
  Leavers = {l1}
  Deletes = TRUE
  IOFaults = TRUE
  Crashes = TRUE
INVARIANTS OneWriter ReportIsTrue SpanCoversData NothingLeftBehind
PROPERTIES PostsEnd
