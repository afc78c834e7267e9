SPECIFICATION FairSpec
CONSTANTS
  LogPosts = {l1}
  PcapPosts = {}
  Untimed = {}
  Nil = Nil
  ChanCap = 1
  MaxWarn = 2
  Leavers = {l1}
  Deletes = FALSE
  IOFaults = FALSE
  Crashes = FALSE
PROPERTIES WarningReadReturns
