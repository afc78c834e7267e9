SPECIFICATION Spec
CONSTANTS
  Reqs = {r1, r2}
  Ids = {i1, i2, i3}
  Names = {n1, n2}
  Nil = Nil
  Ops = {"work", "info", "put", "subspace", "create", "delete", "list"}
  IOFaults = TRUE
  LoadFaults = TRUE
  Crashes = TRUE
INVARIANTS IndexExact DiskMatchesMemory SomebodyGoesOn
PROPERTIES NothingRemovedUnderOp NoResurrection ImplementsCatalog
CONSTRAINT OrphanBound
SYMMETRY Symmetry
CHECK_DEADLOCK FALSE
