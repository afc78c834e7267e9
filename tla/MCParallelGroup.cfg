SPECIFICATION FairSpec
CONSTANTS
  Heads = {h1, h2}
  NumSources = 3
  Records = 1
  Faults = TRUE
INVARIANTS SourcesShared StatsExact
PROPERTIES OpenAtStopIsClosed
