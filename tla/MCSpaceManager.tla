--------------------------- MODULE MCSpaceManager ---------------------------
(* TLC instances of SpaceManager. *)
EXTENDS SpaceManager, TLC

\* Requests, ids and names are interchangeable.
Symmetry == Permutations(Reqs) \cup Permutations(Ids) \cup Permutations(Names)

\* Once a load has failed, one more space at most is created.
OrphanBound == orphans # {} => Cardinality(Ids \ Free) <= 2
=============================================================================
