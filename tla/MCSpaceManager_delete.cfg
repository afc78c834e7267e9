SPECIFICATION FairSpec
CONSTANTS
  Reqs = {r1, r2}
  Ids = {i1}
  Names = {n1, n2}
  Nil = Nil
  Ops = {"put", "create", "delete"}
  IOFaults = FALSE
  LoadFaults = FALSE
  Crashes = FALSE
PROPERTIES DeleteGetsPastOps
CHECK_DEADLOCK FALSE
