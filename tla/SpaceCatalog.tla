---------------------------- MODULE SpaceCatalog ----------------------------
(***************************************************************************)
(* What the space manager promises its clients, without locks, requests,   *)
(* config files or crashes: a catalog of spaces under distinct names, in   *)
(* which every change is one atomic step and an id, once gone, is gone.    *)
(***************************************************************************)
CONSTANTS Ids, Names, Nil

VARIABLES
  catalog,   \* the name of each space, Nil where there is none
  gone       \* ids of removed spaces

catalogVars == <<catalog, gone>>

Listed == {i \in Ids : catalog[i] # Nil}

\* No space other than i has the name n.
Available(i, n) == \A j \in Ids \ {i} : catalog[j] # n

CatalogInit ==
  /\ catalog = [i \in Ids |-> Nil]
  /\ gone = {}

Rename ==
  /\ \E i \in Listed, n \in Names :
       Available(i, n) /\ catalog' = [catalog EXCEPT ![i] = n]
  /\ UNCHANGED gone

(***************************************************************************)
(* Spaces go, and at most one comes, as one step: a delete, a create, or a *)
(* restart that finishes what the crash interrupted.  The new space takes  *)
(* a name that no space had before the step, and an id that no space ever  *)
(* had.                                                                    *)
(***************************************************************************)
Replace ==
  \E S \in SUBSET Listed, A \in {{}} \cup {{i} : i \in Ids \ (Listed \cup gone)} :
    /\ gone' = gone \cup S
    /\ \E n \in Names :
         /\ \A i \in A : Available(i, n)
         /\ catalog' = [i \in Ids |-> IF i \in S THEN Nil
                                      ELSE IF i \in A THEN n ELSE catalog[i]]

\* A client sees renames, and spaces that come and go.
CatalogNext == Rename \/ Replace

CatalogSpec == CatalogInit /\ [][CatalogNext]_catalogVars
=============================================================================
