------------------------- MODULE SpaceManagerProofs -------------------------
(***************************************************************************)
(* What holds of SpaceManager for every number of requests, ids and names. *)
(***************************************************************************)
EXTENDS SpaceManager, TLAPS

Deleting(r) == pc[r] \in {"wait", "rmpath", "rmdata"}

\* spacesMu is held by the request that is inside Create or Delete, a confMu
\* only by the delete of that archive.
LockInv ==
  /\ \A r \in Reqs : HoldsMu(r) <=> mu = r
  /\ \A i \in Ids, r \in Reqs :
       confMu[i] = r => Deleting(r) /\ target[r] = i /\ kind[i] = "archive"

\* A request past its arrival works on an id that was given out.
TargetInv ==
  \A r \in Reqs : pc[r] \notin {"idle", "create", "list"} =>
    target[r] \in Ids /\ kind[target[r]] # "none"

\* A request that has got a space from the index and does not yet count in
\* its guard: the space may be gone by now, but then its guard says so.
StaleInv ==
  \A r \in Reqs : pc[r] \in {"start", "lock"} =>
    target[r] \in spaces \cup pending

\* Every space of the index is an object with a config; one that no delete
\* has touched is on disk as it is in memory.
ObjectInv ==
  /\ \A i \in spaces : kind[i] # "none" /\ conf[i] # Nil
  /\ \A i \in spaces \ pending : disk[i] = conf[i]
  /\ \A i \in Ids : disk[i] # Nil => kind[i] # "none"
  /\ \A i \in Ids : kind[i] = "sub" =>
       parent[i] \in Ids /\ kind[parent[i]] = "archive"

\* A registered request works on a space of the index that is still whole.
OpInv ==
  /\ \A i \in Ids : \A r \in ops[i] :
       /\ i \in spaces
       /\ disk[i] = conf[i]
       /\ pc[r] \in {"run", "info", "finish"}
  /\ \A r \in Reqs : pc[r] = "run" => r \in ops[target[r]]

\* How far a Create or a Delete that holds spacesMu has come.
HolderInv ==
  /\ \A r \in Reqs : pc[r] = "load" =>
       /\ target[r] \notin spaces
       /\ disk[target[r]] # Nil
       /\ kind[target[r]] # "sub"
  /\ \A r \in Reqs : Deleting(r) =>
       /\ target[r] \in spaces
       /\ target[r] \in pending
       /\ kind[target[r]] = "archive" => Children(target[r]) = {}
  /\ \A r \in Reqs : pc[r] \in {"rmpath", "rmdata"} => ops[target[r]] = {}
  /\ \A r \in Reqs : pc[r] = "rmdata" =>
       kind[target[r]] # "sub" /\ disk[target[r]] = Nil

GuardInv ==
  TypeOK /\ LockInv /\ TargetInv /\ StaleInv /\ ObjectInv /\ OpInv
  /\ HolderInv

USE DEF Deleting, HoldsMu

\* GuardInv holds when NewManager returns (manager.go:27-65): no request runs
\* and no space is under deletion.
LEMMA GuardInit == Init => GuardInv
  BY NilAssumption, SwitchAssumption
  DEF Init, GuardInv, TypeOK, LockInv, TargetInv, StaleInv, ObjectInv, OpInv,
      HolderInv,      Children, Kinds, PCs, AllOps

\* d is the disk without the path of the space r deletes.
PathRemoved(r, d) ==
  /\ d \in [Ids -> Names \cup {Nil}]
  /\ d[target[r]] = Nil
  /\ \A j \in Ids : d[j] \in {disk[j], Nil}
  /\ \A j \in Ids \ {target[r]} :
       j \in spaces \/ kind[j] # "sub" => d[j] = disk[j]

\* Removing the path of a space under deletion takes nothing from any other
\* space of the index.
LEMMA PathOfTarget ==
  ASSUME GuardInv, NEW r \in Reqs, pc[r] \in {"rmpath", "rmdata"},
         kind[target[r]] # "sub"
  PROVE  PathRemoved(r, WithoutPath(target[r]))
<1> USE DEF GuardInv, TypeOK, PathRemoved, WithoutPath, Relies, Owner
<1>1. target[r] \in Ids
  BY DEF TargetInv
<1>2. ASSUME NEW j \in spaces, kind[j] = "sub"
      PROVE  parent[j] # target[r]
  BY <1>1, <1>2 DEF HolderInv, ObjectInv, Children
<1> QED BY <1>1, <1>2

\* Every step of a request, of the handlers in handlers.go and the manager's
\* methods they call, keeps GuardInv: one step below per action.
LEMMA GuardRequest ==
  ASSUME GuardInv, NEW r \in Reqs, Request(r)
  PROVE  GuardInv'
<1> USE NilAssumption, SwitchAssumption
    DEF GuardInv, managerVars, objectVars, diskVars
<1>1. CASE Arrive(r)
  <2> USE <1>1 DEF Arrive, Free
  <2>1. TypeOK'
    BY DEF TypeOK, TargetInv, Kinds, PCs, AllOps
  <2>2. LockInv'
    BY DEF TypeOK, LockInv
  <2>3. TargetInv'
    BY DEF TypeOK, TargetInv
  <2>4. StaleInv'
    BY DEF TypeOK, LockInv, TargetInv, StaleInv, ObjectInv, HolderInv
  <2>5. ObjectInv'
    BY DEF TypeOK, LockInv, TargetInv, ObjectInv, OpInv, HolderInv
  <2>6. OpInv'
    BY DEF TypeOK, LockInv, TargetInv, StaleInv, ObjectInv, OpInv, HolderInv
  <2>7. HolderInv'
    BY DEF TypeOK, LockInv, TargetInv, StaleInv, ObjectInv, OpInv, HolderInv,
           Children
  <2> QED BY <2>1, <2>2, <2>3, <2>4, <2>5, <2>6, <2>7
<1>2. CASE Get(r)
  <2> USE <1>2 DEF Get, Goto, Return
  <2>1. TypeOK'
    BY DEF TypeOK, TargetInv, Kinds, PCs, AllOps
  <2>2. LockInv'
    BY DEF TypeOK, LockInv
  <2>3. TargetInv'
    BY DEF TypeOK, TargetInv
  <2>4. StaleInv'
    BY DEF TypeOK, LockInv, TargetInv, StaleInv, ObjectInv, HolderInv
  <2>5. ObjectInv'
    BY DEF TypeOK, LockInv, TargetInv, ObjectInv, OpInv, HolderInv
  <2>6. OpInv'
    BY DEF TypeOK, LockInv, TargetInv, StaleInv, ObjectInv, OpInv, HolderInv
  <2>7. HolderInv'
    BY DEF TypeOK, LockInv, TargetInv, StaleInv, ObjectInv, OpInv, HolderInv,
           Children
  <2> QED BY <2>1, <2>2, <2>3, <2>4, <2>5, <2>6, <2>7
<1>3. CASE StartOp(r)
  <2> USE <1>3 DEF StartOp, Refused, Goto, Return
  <2>1. TypeOK'
    BY DEF TypeOK, TargetInv, Kinds, PCs, AllOps
  <2>2. LockInv'
    BY DEF TypeOK, LockInv
  <2>3. TargetInv'
    BY DEF TypeOK, TargetInv
  <2>4. StaleInv'
    BY DEF TypeOK, LockInv, TargetInv, StaleInv, ObjectInv, HolderInv
  <2>5. ObjectInv'
    BY DEF TypeOK, LockInv, TargetInv, ObjectInv, OpInv, HolderInv
  <2>6. OpInv'
    <3>1. CASE Refused(target[r])
      BY <3>1 DEF TypeOK, OpInv
    <3>2. CASE ~Refused(target[r])
      BY <3>2 DEF TypeOK, TargetInv, StaleInv, ObjectInv, OpInv
    <3> QED BY <3>1, <3>2
  <2>7. HolderInv'
    <3>1. CASE Refused(target[r])
      BY <3>1 DEF TypeOK, HolderInv, Children
    <3>2. CASE ~Refused(target[r])
      BY <3>2 DEF TypeOK, TargetInv, HolderInv, Children
    <3> QED BY <3>1, <3>2
  <2> QED BY <2>1, <2>2, <2>3, <2>4, <2>5, <2>6, <2>7
<1>4. CASE Work(r)
  <2> USE <1>4 DEF Work, Goto
  <2>1. TypeOK'
    BY DEF TypeOK, TargetInv, Kinds, PCs, AllOps
  <2>2. LockInv'
    BY DEF TypeOK, LockInv
  <2>3. TargetInv'
    BY DEF TypeOK, TargetInv
  <2>4. StaleInv'
    BY DEF TypeOK, LockInv, TargetInv, StaleInv, ObjectInv, HolderInv
  <2>5. ObjectInv'
    BY DEF TypeOK, LockInv, TargetInv, ObjectInv, OpInv, HolderInv
  <2>6. OpInv'
    BY DEF TypeOK, LockInv, TargetInv, StaleInv, ObjectInv, OpInv, HolderInv
  <2>7. HolderInv'
    BY DEF TypeOK, LockInv, TargetInv, StaleInv, ObjectInv, OpInv, HolderInv,
           Children
  <2> QED BY <2>1, <2>2, <2>3, <2>4, <2>5, <2>6, <2>7
<1>5. CASE Info(r)
  <2> USE <1>5 DEF Info, Goto
  <2>1. TypeOK'
    BY DEF TypeOK, TargetInv, Kinds, PCs, AllOps
  <2>2. LockInv'
    BY DEF TypeOK, LockInv
  <2>3. TargetInv'
    BY DEF TypeOK, TargetInv
  <2>4. StaleInv'
    BY DEF TypeOK, LockInv, TargetInv, StaleInv, ObjectInv, HolderInv
  <2>5. ObjectInv'
    BY DEF TypeOK, LockInv, TargetInv, ObjectInv, OpInv, HolderInv
  <2>6. OpInv'
    BY DEF TypeOK, LockInv, TargetInv, StaleInv, ObjectInv, OpInv, HolderInv
  <2>7. HolderInv'
    BY DEF TypeOK, LockInv, TargetInv, StaleInv, ObjectInv, OpInv, HolderInv,
           Children
  <2> QED BY <2>1, <2>2, <2>3, <2>4, <2>5, <2>6, <2>7
<1>6. CASE Finish(r)
  <2> USE <1>6 DEF Finish, Return
  <2>1. TypeOK'
    BY DEF TypeOK, TargetInv, Kinds, PCs, AllOps
  <2>2. LockInv'
    BY DEF TypeOK, LockInv
  <2>3. TargetInv'
    BY DEF TypeOK, TargetInv
  <2>4. StaleInv'
    BY DEF TypeOK, LockInv, TargetInv, StaleInv, ObjectInv, HolderInv
  <2>5. ObjectInv'
    BY DEF TypeOK, LockInv, TargetInv, ObjectInv, OpInv, HolderInv
  <2>6. OpInv'
    BY DEF TypeOK, LockInv, TargetInv, StaleInv, ObjectInv, OpInv, HolderInv
  <2>7. HolderInv'
    BY DEF TypeOK, LockInv, TargetInv, StaleInv, ObjectInv, OpInv, HolderInv,
           Children
  <2> QED BY <2>1, <2>2, <2>3, <2>4, <2>5, <2>6, <2>7
<1>7. CASE UpdateSpace(r)
  <2> USE <1>7 DEF UpdateSpace, SetConfig, Owner, Goto, NameFree
  <2>1. TypeOK'
    BY DEF TypeOK, TargetInv, Kinds, PCs, AllOps
  <2>2. LockInv'
    BY DEF TypeOK, LockInv
  <2>3. TargetInv'
    BY DEF TypeOK, TargetInv
  <2>4. StaleInv'
    BY DEF TypeOK, LockInv, TargetInv, StaleInv, ObjectInv, HolderInv
  <2>5. ObjectInv'
    BY DEF TypeOK, LockInv, TargetInv, ObjectInv, OpInv, HolderInv
  <2>6. OpInv'
    BY DEF TypeOK, LockInv, TargetInv, StaleInv, ObjectInv, OpInv, HolderInv
  <2>7. HolderInv'
    BY DEF TypeOK, LockInv, TargetInv, StaleInv, ObjectInv, OpInv, HolderInv,
           Children
  <2> QED BY <2>1, <2>2, <2>3, <2>4, <2>5, <2>6, <2>7
<1>8. CASE Refuse(r)
  <2> USE <1>8 DEF Refuse, Goto
  <2>1. TypeOK'
    BY DEF TypeOK, TargetInv, Kinds, PCs, AllOps
  <2>2. LockInv'
    BY DEF TypeOK, LockInv
  <2>3. TargetInv'
    BY DEF TypeOK, TargetInv
  <2>4. StaleInv'
    BY DEF TypeOK, LockInv, TargetInv, StaleInv, ObjectInv, HolderInv
  <2>5. ObjectInv'
    BY DEF TypeOK, LockInv, TargetInv, ObjectInv, OpInv, HolderInv
  <2>6. OpInv'
    BY DEF TypeOK, LockInv, TargetInv, StaleInv, ObjectInv, OpInv, HolderInv
  <2>7. HolderInv'
    BY DEF TypeOK, LockInv, TargetInv, StaleInv, ObjectInv, OpInv, HolderInv,
           Children
  <2> QED BY <2>1, <2>2, <2>3, <2>4, <2>5, <2>6, <2>7
<1>9. CASE CreateSubspace(r)
  <2> USE <1>9 DEF CreateSubspace, SetConfig, NameFree, Free
  <2>1. TypeOK'
    BY DEF TypeOK, TargetInv, Kinds, PCs, AllOps
  <2>2. LockInv'
    BY DEF TypeOK, LockInv
  <2>3. TargetInv'
    BY DEF TypeOK, TargetInv
  <2>4. StaleInv'
    BY DEF TypeOK, LockInv, TargetInv, StaleInv, ObjectInv, HolderInv
  <2>5. ObjectInv'
    BY DEF TypeOK, LockInv, TargetInv, ObjectInv, OpInv, HolderInv
  <2>6. OpInv'
    BY DEF TypeOK, LockInv, TargetInv, StaleInv, ObjectInv, OpInv, HolderInv
  <2>7. HolderInv'
    BY DEF TypeOK, LockInv, TargetInv, StaleInv, ObjectInv, OpInv, HolderInv,
           Children
  <2> QED BY <2>1, <2>2, <2>3, <2>4, <2>5, <2>6, <2>7
<1>10. CASE CreateWrite(r)
  <2> USE <1>10 DEF CreateWrite, NameFree, Free
  <2>1. TypeOK'
    BY DEF TypeOK, TargetInv, Kinds, PCs, AllOps
  <2>2. LockInv'
    BY DEF TypeOK, LockInv
  <2>3. TargetInv'
    BY DEF TypeOK, TargetInv
  <2>4. StaleInv'
    BY DEF TypeOK, LockInv, TargetInv, StaleInv, ObjectInv, HolderInv
  <2>5. ObjectInv'
    BY DEF TypeOK, LockInv, TargetInv, ObjectInv, OpInv, HolderInv
  <2>6. OpInv'
    BY DEF TypeOK, LockInv, TargetInv, StaleInv, ObjectInv, OpInv, HolderInv
  <2>7. HolderInv'
    BY DEF TypeOK, LockInv, TargetInv, StaleInv, ObjectInv, OpInv, HolderInv,
           Children
  <2> QED BY <2>1, <2>2, <2>3, <2>4, <2>5, <2>6, <2>7
<1>11. CASE CreateRefuse(r)
  <2> USE <1>11 DEF CreateRefuse, Return
  <2>1. TypeOK'
    BY DEF TypeOK, TargetInv, Kinds, PCs, AllOps
  <2>2. LockInv'
    BY DEF TypeOK, LockInv
  <2>3. TargetInv'
    BY DEF TypeOK, TargetInv
  <2>4. StaleInv'
    BY DEF TypeOK, LockInv, TargetInv, StaleInv, ObjectInv, HolderInv
  <2>5. ObjectInv'
    BY DEF TypeOK, LockInv, TargetInv, ObjectInv, OpInv, HolderInv
  <2>6. OpInv'
    BY DEF TypeOK, LockInv, TargetInv, StaleInv, ObjectInv, OpInv, HolderInv
  <2>7. HolderInv'
    BY DEF TypeOK, LockInv, TargetInv, StaleInv, ObjectInv, OpInv, HolderInv,
           Children
  <2> QED BY <2>1, <2>2, <2>3, <2>4, <2>5, <2>6, <2>7
<1>12. CASE CreateLoad(r)
  <2> USE <1>12 DEF CreateLoad, Goto
  <2>1. TypeOK'
    BY DEF TypeOK, TargetInv, Kinds, PCs, AllOps
  <2>2. LockInv'
    BY DEF TypeOK, LockInv
  <2>3. TargetInv'
    BY DEF TypeOK, TargetInv
  <2>4. StaleInv'
    BY DEF TypeOK, LockInv, TargetInv, StaleInv, ObjectInv, HolderInv
  <2>5. ObjectInv'
    BY DEF TypeOK, LockInv, TargetInv, ObjectInv, OpInv, HolderInv
  <2>6. OpInv'
    BY DEF TypeOK, LockInv, TargetInv, StaleInv, ObjectInv, OpInv, HolderInv
  <2>7. HolderInv'
    BY DEF TypeOK, LockInv, TargetInv, StaleInv, ObjectInv, OpInv, HolderInv,
           Children
  <2> QED BY <2>1, <2>2, <2>3, <2>4, <2>5, <2>6, <2>7
<1>13. CASE CreateLoadFail(r)
  <2> USE <1>13 DEF CreateLoadFail, Return
  <2>1. TypeOK'
    BY DEF TypeOK, TargetInv, Kinds, PCs, AllOps
  <2>2. LockInv'
    BY DEF TypeOK, LockInv
  <2>3. TargetInv'
    BY DEF TypeOK, TargetInv
  <2>4. StaleInv'
    BY DEF TypeOK, LockInv, TargetInv, StaleInv, ObjectInv, HolderInv
  <2>5. ObjectInv'
    BY DEF TypeOK, LockInv, TargetInv, ObjectInv, OpInv, HolderInv
  <2>6. OpInv'
    BY DEF TypeOK, LockInv, TargetInv, StaleInv, ObjectInv, OpInv, HolderInv
  <2>7. HolderInv'
    BY DEF TypeOK, LockInv, TargetInv, StaleInv, ObjectInv, OpInv, HolderInv,
           Children
  <2> QED BY <2>1, <2>2, <2>3, <2>4, <2>5, <2>6, <2>7
<1>14. CASE List(r)
  <2> USE <1>14 DEF List, Return
  <2>1. TypeOK'
    BY DEF TypeOK, TargetInv, Kinds, PCs, AllOps
  <2>2. LockInv'
    BY DEF TypeOK, LockInv
  <2>3. TargetInv'
    BY DEF TypeOK, TargetInv
  <2>4. StaleInv'
    BY DEF TypeOK, LockInv, TargetInv, StaleInv, ObjectInv, HolderInv
  <2>5. ObjectInv'
    BY DEF TypeOK, LockInv, TargetInv, ObjectInv, OpInv, HolderInv
  <2>6. OpInv'
    BY DEF TypeOK, LockInv, TargetInv, StaleInv, ObjectInv, OpInv, HolderInv
  <2>7. HolderInv'
    BY DEF TypeOK, LockInv, TargetInv, StaleInv, ObjectInv, OpInv, HolderInv,
           Children
  <2> QED BY <2>1, <2>2, <2>3, <2>4, <2>5, <2>6, <2>7
<1>15. CASE DeleteLock(r)
  <2> USE <1>15 DEF DeleteLock, Refused, Owner, Goto, Children
  <2>1. TypeOK'
    BY DEF TypeOK, TargetInv, Kinds, PCs, AllOps
  <2>2. LockInv'
    BY DEF TypeOK, LockInv
  <2>3. TargetInv'
    BY DEF TypeOK, TargetInv
  <2>4. StaleInv'
    BY DEF TypeOK, LockInv, TargetInv, StaleInv, ObjectInv, HolderInv
  <2>5. ObjectInv'
    BY DEF TypeOK, LockInv, TargetInv, ObjectInv, OpInv, HolderInv
  <2>6. OpInv'
    BY DEF TypeOK, LockInv, TargetInv, StaleInv, ObjectInv, OpInv, HolderInv
  <2>7. HolderInv'
    BY DEF TypeOK, LockInv, TargetInv, StaleInv, ObjectInv, OpInv, HolderInv
  <2> QED BY <2>1, <2>2, <2>3, <2>4, <2>5, <2>6, <2>7
<1>16. CASE DeleteConflict(r)
  <2> USE <1>16 DEF DeleteConflict, Refused, Return, Children
  <2>1. TypeOK'
    BY DEF TypeOK, TargetInv, Kinds, PCs, AllOps
  <2>2. LockInv'
    BY DEF TypeOK, LockInv
  <2>3. TargetInv'
    BY DEF TypeOK, TargetInv
  <2>4. StaleInv'
    BY DEF TypeOK, LockInv, TargetInv, StaleInv, ObjectInv, HolderInv
  <2>5. ObjectInv'
    BY DEF TypeOK, LockInv, TargetInv, ObjectInv, OpInv, HolderInv
  <2>6. OpInv'
    BY DEF TypeOK, LockInv, TargetInv, StaleInv, ObjectInv, OpInv, HolderInv
  <2>7. HolderInv'
    BY DEF TypeOK, LockInv, TargetInv, StaleInv, ObjectInv, OpInv, HolderInv
  <2> QED BY <2>1, <2>2, <2>3, <2>4, <2>5, <2>6, <2>7
<1>17. CASE DeletePanic(r)
  <2> USE <1>17 DEF DeletePanic, Goto
  <2>1. TypeOK'
    BY DEF TypeOK, TargetInv, Kinds, PCs, AllOps
  <2>2. LockInv'
    BY DEF TypeOK, LockInv
  <2>3. TargetInv'
    BY DEF TypeOK, TargetInv
  <2>4. StaleInv'
    BY DEF TypeOK, LockInv, TargetInv, StaleInv, ObjectInv, HolderInv
  <2>5. ObjectInv'
    BY DEF TypeOK, LockInv, TargetInv, ObjectInv, OpInv, HolderInv
  <2>6. OpInv'
    BY DEF TypeOK, LockInv, TargetInv, StaleInv, ObjectInv, OpInv, HolderInv
  <2>7. HolderInv'
    BY DEF TypeOK, LockInv, TargetInv, StaleInv, ObjectInv, OpInv, HolderInv,
           Children
  <2> QED BY <2>1, <2>2, <2>3, <2>4, <2>5, <2>6, <2>7
<1>18. CASE Recover(r)
  <2> USE <1>18 DEF Recover, Return
  <2>1. TypeOK'
    BY DEF TypeOK, TargetInv, Kinds, PCs, AllOps
  <2>2. LockInv'
    BY DEF TypeOK, LockInv
  <2>3. TargetInv'
    BY DEF TypeOK, TargetInv
  <2>4. StaleInv'
    BY DEF TypeOK, LockInv, TargetInv, StaleInv, ObjectInv, HolderInv
  <2>5. ObjectInv'
    BY DEF TypeOK, LockInv, TargetInv, ObjectInv, OpInv, HolderInv
  <2>6. OpInv'
    BY DEF TypeOK, LockInv, TargetInv, StaleInv, ObjectInv, OpInv, HolderInv
  <2>7. HolderInv'
    BY DEF TypeOK, LockInv, TargetInv, StaleInv, ObjectInv, OpInv, HolderInv,
           Children
  <2> QED BY <2>1, <2>2, <2>3, <2>4, <2>5, <2>6, <2>7
<1>19. CASE DeleteWait(r)
  <2> USE <1>19 DEF DeleteWait, Quiesced, Goto
  <2>1. TypeOK'
    BY DEF TypeOK, TargetInv, Kinds, PCs, AllOps
  <2>2. LockInv'
    BY DEF TypeOK, LockInv
  <2>3. TargetInv'
    BY DEF TypeOK, TargetInv
  <2>4. StaleInv'
    BY DEF TypeOK, LockInv, TargetInv, StaleInv, ObjectInv, HolderInv
  <2>5. ObjectInv'
    BY DEF TypeOK, LockInv, TargetInv, ObjectInv, OpInv, HolderInv
  <2>6. OpInv'
    BY DEF TypeOK, LockInv, TargetInv, StaleInv, ObjectInv, OpInv, HolderInv
  <2>7. HolderInv'
    BY DEF TypeOK, LockInv, TargetInv, StaleInv, ObjectInv, OpInv, HolderInv,
           Children
  <2> QED BY <2>1, <2>2, <2>3, <2>4, <2>5, <2>6, <2>7
<1>20. CASE DeletePath(r)
  <2> USE <1>20 DEF DeletePath, Goto
  <2>0. PathRemoved(r, disk')
    BY PathOfTarget
  <2>1. TypeOK'
    BY <2>0 DEF PathRemoved, TypeOK, TargetInv, Kinds, PCs, AllOps
  <2>2. LockInv'
    BY <2>0 DEF PathRemoved, TypeOK, LockInv
  <2>3. TargetInv'
    BY <2>0 DEF PathRemoved, TypeOK, TargetInv
  <2>4. StaleInv'
    BY <2>0 DEF PathRemoved, TypeOK, LockInv, TargetInv, StaleInv, ObjectInv, HolderInv
  <2>5. ObjectInv'
    BY <2>0 DEF PathRemoved, TypeOK, LockInv, TargetInv, ObjectInv, OpInv, HolderInv
  <2>6. OpInv'
    BY <2>0 DEF PathRemoved, TypeOK, LockInv, TargetInv, StaleInv, ObjectInv, OpInv, HolderInv
  <2>7. HolderInv'
    BY <2>0 DEF PathRemoved, TypeOK, LockInv, TargetInv, StaleInv, ObjectInv, OpInv, HolderInv,
           Children
  <2> QED BY <2>1, <2>2, <2>3, <2>4, <2>5, <2>6, <2>7
<1>21. CASE DeleteData(r)
  <2> USE <1>21 DEF DeleteData, UnlockConf, Return, Unregister
  <2>1. TypeOK'
    BY DEF TypeOK, TargetInv, Kinds, PCs, AllOps
  <2>2. LockInv'
    BY DEF TypeOK, LockInv
  <2>3. TargetInv'
    BY DEF TypeOK, TargetInv
  <2>4. StaleInv'
    BY DEF TypeOK, LockInv, TargetInv, StaleInv, ObjectInv, HolderInv
  <2>5. ObjectInv'
    BY DEF TypeOK, LockInv, TargetInv, ObjectInv, OpInv, HolderInv
  <2>6. OpInv'
    BY DEF TypeOK, LockInv, TargetInv, StaleInv, ObjectInv, OpInv, HolderInv
  <2>7. HolderInv'
    BY DEF TypeOK, LockInv, TargetInv, StaleInv, ObjectInv, OpInv, HolderInv,
           Children
  <2> QED BY <2>1, <2>2, <2>3, <2>4, <2>5, <2>6, <2>7
<1>22. CASE DeleteSub(r)
  <2> USE <1>22 DEF DeleteSub, UnlockConf, SetConfig, Return, Unregister
  <2>1. TypeOK'
    BY DEF TypeOK, TargetInv, Kinds, PCs, AllOps
  <2>2. LockInv'
    BY DEF TypeOK, LockInv
  <2>3. TargetInv'
    BY DEF TypeOK, TargetInv
  <2>4. StaleInv'
    BY DEF TypeOK, LockInv, TargetInv, StaleInv, ObjectInv, HolderInv
  <2>5. ObjectInv'
    BY DEF TypeOK, LockInv, TargetInv, ObjectInv, OpInv, HolderInv
  <2>6. OpInv'
    BY DEF TypeOK, LockInv, TargetInv, StaleInv, ObjectInv, OpInv, HolderInv
  <2>7. HolderInv'
    BY DEF TypeOK, LockInv, TargetInv, StaleInv, ObjectInv, OpInv, HolderInv,
           Children
  <2> QED BY <2>1, <2>2, <2>3, <2>4, <2>5, <2>6, <2>7
<1>23. CASE DeleteFail(r)
  <2> USE <1>23 DEF DeleteFail, UnlockConf, Return
  <2>0. disk' = disk \/ PathRemoved(r, disk')
    BY PathOfTarget
  <2>1. TypeOK'
    BY <2>0 DEF PathRemoved, TypeOK, TargetInv, Kinds, PCs, AllOps
  <2>2. LockInv'
    BY <2>0 DEF PathRemoved, TypeOK, LockInv
  <2>3. TargetInv'
    BY <2>0 DEF PathRemoved, TypeOK, TargetInv
  <2>4. StaleInv'
    BY <2>0 DEF PathRemoved, TypeOK, LockInv, TargetInv, StaleInv, ObjectInv, HolderInv
  <2>5. ObjectInv'
    BY <2>0 DEF PathRemoved, TypeOK, LockInv, TargetInv, ObjectInv, OpInv, HolderInv
  <2>6. OpInv'
    BY <2>0 DEF PathRemoved, TypeOK, LockInv, TargetInv, StaleInv, ObjectInv, OpInv, HolderInv
  <2>7. HolderInv'
    BY <2>0 DEF PathRemoved, TypeOK, LockInv, TargetInv, StaleInv, ObjectInv, OpInv, HolderInv,
           Children
  <2> QED BY <2>1, <2>2, <2>3, <2>4, <2>5, <2>6, <2>7
<1> QED
  BY <1>1, <1>2, <1>3, <1>4, <1>5, <1>6, <1>7, <1>8, <1>9, <1>10, <1>11,
     <1>12, <1>13, <1>14, <1>15, <1>16, <1>17, <1>18, <1>19, <1>20, <1>21, <1>22, <1>23 DEF Request

\* A crash and the NewManager after it keep GuardInv.
LEMMA GuardRestart ==
  ASSUME GuardInv, CrashRestart
  PROVE  GuardInv'
  BY NilAssumption
  DEF GuardInv, TypeOK, LockInv, TargetInv, StaleInv, ObjectInv, OpInv,
      HolderInv, Children, Kinds, PCs, AllOps, CrashRestart, diskVars

\* A step that changes nothing keeps GuardInv.
LEMMA GuardStutter ==
  ASSUME GuardInv, UNCHANGED vars
  PROVE  GuardInv'
  BY DEF GuardInv, TypeOK, LockInv, TargetInv, StaleInv, ObjectInv, OpInv,
         HolderInv, Children, vars

\* GuardInv is inductive.
LEMMA GuardStep == GuardInv /\ [Next]_vars => GuardInv'
  BY GuardRequest, GuardRestart, GuardStutter DEF Next

\* Whatever fails and whenever the daemon restarts, GuardInv holds of it.
THEOREM GuardInvariant == Spec => []GuardInv
  BY GuardInit, GuardStep, PTL DEF Spec

\* Type correctness of the manager for all Reqs, Ids and Names.
THEOREM TypeCorrect == Spec => []TypeOK
<1>1. GuardInv => TypeOK
  BY DEF GuardInv
<1> QED BY <1>1, GuardInvariant, PTL

-----------------------------------------------------------------------------
(***************************************************************************)
(* The guard.  The two action properties need GuardInv: an operation that  *)
(* is registered excludes the two steps that remove (HolderInv), and the   *)
(* one step that writes the config of an old id is itself registered.      *)
(***************************************************************************)
\* No step removes the entry, the config or the data of a space on which an
\* operation is registered (guard.acquireForDelete, space.go:104-117).
LEMMA UnderOpStep ==
  ASSUME GuardInv, [Next]_vars, NEW i \in Ids, ops[i] # {},
         NEW j \in Relies(i)
  PROVE  /\ disk[j] # Nil => disk'[j] # Nil
         /\ j \in data => j \in data'
<1> USE NilAssumption
    DEF GuardInv, TypeOK
<1>1. i \in spaces /\ j \in Ids
  BY DEF OpInv, ObjectInv, Relies, Owner
<1>2. ASSUME NEW r \in Reqs, pc[r] \in {"rmpath", "rmdata"}
      PROVE  target[r] # j
  <2>1. target[r] # i
    BY <1>2 DEF HolderInv
  <2>2. kind[i] = "sub" => target[r] # parent[i]
    BY <1>1, <1>2 DEF HolderInv, ObjectInv, Children
  <2> QED BY <2>1, <2>2 DEF Relies, Owner
<1>3. CASE UNCHANGED vars
  BY <1>3 DEF vars
<1>4. CASE CrashRestart
  BY <1>4 DEF CrashRestart, diskVars
<1>5. ASSUME NEW r \in Reqs, Request(r)
      PROVE  /\ disk[j] # Nil => disk'[j] # Nil
             /\ j \in data => j \in data'
  <2>1. CASE UpdateSpace(r)
    BY <1>1, <2>1 DEF UpdateSpace, SetConfig
  <2>2. CASE CreateSubspace(r)
    BY <1>1, <2>2 DEF CreateSubspace, SetConfig
  <2>3. CASE CreateWrite(r)
    BY <1>1, <2>3 DEF CreateWrite
  <2>4. CASE DeletePath(r)
    <3>1. PathRemoved(r, disk')
      BY <2>4, PathOfTarget DEF DeletePath
    <3>2. target[r] # j
      BY <1>2, <2>4 DEF DeletePath
    <3> QED
      BY <1>1, <2>4, <3>1, <3>2 DEF PathRemoved, DeletePath, Relies, Owner, ObjectInv
  <2>5. CASE DeleteData(r)
    BY <1>1, <1>2, <2>5 DEF DeleteData
  <2>6. CASE DeleteSub(r)
    BY <1>1, <1>2, <2>6 DEF DeleteSub, SetConfig
  <2>7. CASE DeleteFail(r)
    <3>1. disk' = disk \/ PathRemoved(r, disk')
      BY <2>7, PathOfTarget DEF DeleteFail, diskVars
    <3>2. target[r] # j
      BY <1>2, <2>7 DEF DeleteFail
    <3> QED
      BY <1>1, <2>7, <3>1, <3>2
      DEF PathRemoved, DeleteFail, Relies, Owner, ObjectInv, diskVars
  <2>8. CASE UNCHANGED diskVars
    BY <2>8 DEF diskVars
  <2> QED
    BY <1>5, <2>1, <2>2, <2>3, <2>4, <2>5, <2>6, <2>7, <2>8
    DEF Request, Arrive, Get, StartOp, Work, Info, Finish, Refuse,
        CreateRefuse, CreateLoad, CreateLoadFail, List, DeleteLock,
        DeleteConflict, DeletePanic, Recover, DeleteWait
<1> QED BY <1>3, <1>4, <1>5 DEF Next

\* StartOp protects what an operation works on, however many requests there
\* are and whichever of them fail: NothingRemovedUnderOp holds of SpaceManager.
THEOREM GuardProtects == Spec => NothingRemovedUnderOp
<1>1. GuardInv /\ [Next]_vars =>
        [\A i \in Ids : ops[i] # {} =>
           \A j \in Relies(i) :
             /\ disk[j] # Nil => disk'[j] # Nil
             /\ j \in data => j \in data']_vars
  BY UnderOpStep
<1> QED BY <1>1, GuardInvariant, PTL DEF Spec, NothingRemovedUnderOp

\* No step writes the config of an id that was removed (space.go:77-102).
LEMMA ResurrectionStep ==
  ASSUME GuardInv, [Next]_vars, NEW i \in Ids, kind[i] # "none", disk[i] = Nil
  PROVE  disk'[i] = Nil
<1> USE NilAssumption DEF GuardInv, TypeOK
<1>1. CASE UNCHANGED vars
  BY <1>1 DEF vars
<1>2. CASE CrashRestart
  BY <1>2 DEF CrashRestart, diskVars
<1>3. ASSUME NEW r \in Reqs, Request(r)
      PROVE  disk'[i] = Nil
  <2>1. CASE UpdateSpace(r)
    <3>1. disk[target[r]] # Nil
      BY <2>1 DEF UpdateSpace, OpInv, ObjectInv, TargetInv
    <3> QED BY <2>1, <3>1 DEF UpdateSpace, SetConfig
  <2>2. CASE CreateSubspace(r)
    BY <2>2 DEF CreateSubspace, SetConfig, Free
  <2>3. CASE CreateWrite(r)
    BY <2>3 DEF CreateWrite, Free
  <2>4. CASE DeletePath(r) \/ DeleteSub(r)
    BY <2>4 DEF DeletePath, DeleteSub, WithoutPath, SetConfig
  <2>5. CASE DeleteFail(r)
    BY <2>5 DEF DeleteFail, WithoutPath, Relies, Owner, diskVars
  <2>6. CASE UNCHANGED disk
    BY <2>6
  <2> QED
    BY <1>3, <2>1, <2>2, <2>3, <2>4, <2>5, <2>6
    DEF Request, Arrive, Get, StartOp, Work, Info, Finish, Refuse,
        CreateRefuse, CreateLoad, CreateLoadFail, List, DeleteLock, DeleteData,
        DeleteConflict, DeletePanic, Recover, DeleteWait, diskVars
<1> QED BY <1>1, <1>2, <1>3 DEF Next

\* A removed space stays removed: NoResurrection holds of SpaceManager.
THEOREM RemovedStaysRemoved == Spec => NoResurrection
<1>1. GuardInv /\ [Next]_vars =>
        [\A i \in Ids : kind[i] # "none" /\ disk[i] = Nil => disk'[i] = Nil]_vars
  BY ResurrectionStep
<1> QED BY <1>1, GuardInvariant, PTL DEF Spec, NoResurrection

-----------------------------------------------------------------------------
(***************************************************************************)
(* The index.  It is exact as long as no load fails: a load that fails     *)
(* leaves a config on disk that the daemon does not know of.               *)
(***************************************************************************)
LoadInv ==
  /\ \A i \in spaces : disk[i] \in {conf[i], Nil}
  /\ \A r \in Reqs : pc[r] = "load" => names[disk[target[r]]] = Nil

IndexInv == GuardInv /\ NamesMatch /\ ConfigsMatch /\ LoadInv

\* IndexInv holds when NewManager returns.
LEMMA IndexInit == Init => IndexInv
<1>1. Init => NamesMatch /\ ConfigsMatch /\ LoadInv
  BY DEF Init, NamesMatch, ConfigsMatch, LoadInv
<1> QED BY <1>1, GuardInit DEF IndexInv

\* Every step of a request keeps the name index, the configs and LoadInv in
\* agreement unless it is a failed load: one step below per action.
LEMMA IndexRequest ==
  ASSUME IndexInv, NEW r \in Reqs, Request(r), orphans' = {}
  PROVE  (NamesMatch /\ ConfigsMatch /\ LoadInv)'
<1> USE NilAssumption, SwitchAssumption
    DEF IndexInv, GuardInv, managerVars, objectVars, diskVars
<1>1. CASE Arrive(r)
  <2> USE <1>1 DEF Arrive
  <2>1. NamesMatch'
    BY DEF TypeOK, LockInv, TargetInv, ObjectInv, OpInv, HolderInv, NamesMatch,
           LoadInv
  <2>2. ConfigsMatch'
    BY DEF TypeOK, LockInv, TargetInv, ObjectInv, OpInv, HolderInv,
           ConfigsMatch
  <2>3. LoadInv'
    BY DEF TypeOK, LockInv, TargetInv, ObjectInv, OpInv, HolderInv, LoadInv
  <2> QED BY <2>1, <2>2, <2>3
<1>2. CASE Get(r)
  <2> USE <1>2 DEF Get, Goto, Return
  <2>1. NamesMatch'
    BY DEF TypeOK, LockInv, TargetInv, ObjectInv, OpInv, HolderInv, NamesMatch,
           LoadInv
  <2>2. ConfigsMatch'
    BY DEF TypeOK, LockInv, TargetInv, ObjectInv, OpInv, HolderInv,
           ConfigsMatch
  <2>3. LoadInv'
    BY DEF TypeOK, LockInv, TargetInv, ObjectInv, OpInv, HolderInv, LoadInv
  <2> QED BY <2>1, <2>2, <2>3
<1>3. CASE StartOp(r)
  <2> USE <1>3 DEF StartOp, Refused, Goto, Return
  <2>1. NamesMatch'
    BY DEF TypeOK, LockInv, TargetInv, ObjectInv, OpInv, HolderInv, NamesMatch,
           LoadInv
  <2>2. ConfigsMatch'
    BY DEF TypeOK, LockInv, TargetInv, ObjectInv, OpInv, HolderInv,
           ConfigsMatch
  <2>3. LoadInv'
    BY DEF TypeOK, LockInv, TargetInv, ObjectInv, OpInv, HolderInv, LoadInv
  <2> QED BY <2>1, <2>2, <2>3
<1>4. CASE Work(r)
  <2> USE <1>4 DEF Work, Goto
  <2>1. NamesMatch'
    BY DEF TypeOK, LockInv, TargetInv, ObjectInv, OpInv, HolderInv, NamesMatch,
           LoadInv
  <2>2. ConfigsMatch'
    BY DEF TypeOK, LockInv, TargetInv, ObjectInv, OpInv, HolderInv,
           ConfigsMatch
  <2>3. LoadInv'
    BY DEF TypeOK, LockInv, TargetInv, ObjectInv, OpInv, HolderInv, LoadInv
  <2> QED BY <2>1, <2>2, <2>3
<1>5. CASE Info(r)
  <2> USE <1>5 DEF Info, Goto
  <2>1. NamesMatch'
    BY DEF TypeOK, LockInv, TargetInv, ObjectInv, OpInv, HolderInv, NamesMatch,
           LoadInv
  <2>2. ConfigsMatch'
    BY DEF TypeOK, LockInv, TargetInv, ObjectInv, OpInv, HolderInv,
           ConfigsMatch
  <2>3. LoadInv'
    BY DEF TypeOK, LockInv, TargetInv, ObjectInv, OpInv, HolderInv, LoadInv
  <2> QED BY <2>1, <2>2, <2>3
<1>6. CASE Finish(r)
  <2> USE <1>6 DEF Finish, Return
  <2>1. NamesMatch'
    BY DEF TypeOK, LockInv, TargetInv, ObjectInv, OpInv, HolderInv, NamesMatch,
           LoadInv
  <2>2. ConfigsMatch'
    BY DEF TypeOK, LockInv, TargetInv, ObjectInv, OpInv, HolderInv,
           ConfigsMatch
  <2>3. LoadInv'
    BY DEF TypeOK, LockInv, TargetInv, ObjectInv, OpInv, HolderInv, LoadInv
  <2> QED BY <2>1, <2>2, <2>3
<1>7. CASE UpdateSpace(r)
  <2> USE <1>7 DEF UpdateSpace, SetConfig, Owner, Goto, NameFree
  <2>1. NamesMatch'
    BY DEF TypeOK, LockInv, TargetInv, ObjectInv, OpInv, HolderInv, NamesMatch,
           LoadInv
  <2>2. ConfigsMatch'
    BY DEF TypeOK, LockInv, TargetInv, ObjectInv, OpInv, HolderInv,
           ConfigsMatch
  <2>3. LoadInv'
    BY DEF TypeOK, LockInv, TargetInv, ObjectInv, OpInv, HolderInv, LoadInv
  <2> QED BY <2>1, <2>2, <2>3
<1>8. CASE Refuse(r)
  <2> USE <1>8 DEF Refuse, Goto
  <2>1. NamesMatch'
    BY DEF TypeOK, LockInv, TargetInv, ObjectInv, OpInv, HolderInv, NamesMatch,
           LoadInv
  <2>2. ConfigsMatch'
    BY DEF TypeOK, LockInv, TargetInv, ObjectInv, OpInv, HolderInv,
           ConfigsMatch
  <2>3. LoadInv'
    BY DEF TypeOK, LockInv, TargetInv, ObjectInv, OpInv, HolderInv, LoadInv
  <2> QED BY <2>1, <2>2, <2>3
<1>9. CASE CreateSubspace(r)
  <2> USE <1>9 DEF CreateSubspace, SetConfig, NameFree, Free
  <2>1. NamesMatch'
    BY DEF TypeOK, LockInv, TargetInv, ObjectInv, OpInv, HolderInv, NamesMatch,
           LoadInv
  <2>2. ConfigsMatch'
    BY DEF TypeOK, LockInv, TargetInv, ObjectInv, OpInv, HolderInv,
           ConfigsMatch
  <2>3. LoadInv'
    BY DEF TypeOK, LockInv, TargetInv, ObjectInv, OpInv, HolderInv, LoadInv
  <2> QED BY <2>1, <2>2, <2>3
<1>10. CASE CreateWrite(r)
  <2> USE <1>10 DEF CreateWrite, NameFree, Free
  <2>1. NamesMatch'
    BY DEF TypeOK, LockInv, TargetInv, ObjectInv, OpInv, HolderInv, NamesMatch,
           LoadInv
  <2>2. ConfigsMatch'
    BY DEF TypeOK, LockInv, TargetInv, ObjectInv, OpInv, HolderInv,
           ConfigsMatch
  <2>3. LoadInv'
    BY DEF TypeOK, LockInv, TargetInv, ObjectInv, OpInv, HolderInv, LoadInv
  <2> QED BY <2>1, <2>2, <2>3
<1>11. CASE CreateRefuse(r)
  <2> USE <1>11 DEF CreateRefuse, Return
  <2>1. NamesMatch'
    BY DEF TypeOK, LockInv, TargetInv, ObjectInv, OpInv, HolderInv, NamesMatch,
           LoadInv
  <2>2. ConfigsMatch'
    BY DEF TypeOK, LockInv, TargetInv, ObjectInv, OpInv, HolderInv,
           ConfigsMatch
  <2>3. LoadInv'
    BY DEF TypeOK, LockInv, TargetInv, ObjectInv, OpInv, HolderInv, LoadInv
  <2> QED BY <2>1, <2>2, <2>3
<1>12. CASE CreateLoad(r)
  <2> USE <1>12 DEF CreateLoad, Goto
  <2>1. NamesMatch'
    BY DEF TypeOK, LockInv, TargetInv, ObjectInv, OpInv, HolderInv, NamesMatch,
           LoadInv
  <2>2. ConfigsMatch'
    BY DEF TypeOK, LockInv, TargetInv, ObjectInv, OpInv, HolderInv,
           ConfigsMatch
  <2>3. LoadInv'
    BY DEF TypeOK, LockInv, TargetInv, ObjectInv, OpInv, HolderInv, LoadInv
  <2> QED BY <2>1, <2>2, <2>3
<1>13. CASE List(r)
  <2> USE <1>13 DEF List, Return
  <2>1. NamesMatch'
    BY DEF TypeOK, LockInv, TargetInv, ObjectInv, OpInv, HolderInv, NamesMatch,
           LoadInv
  <2>2. ConfigsMatch'
    BY DEF TypeOK, LockInv, TargetInv, ObjectInv, OpInv, HolderInv,
           ConfigsMatch
  <2>3. LoadInv'
    BY DEF TypeOK, LockInv, TargetInv, ObjectInv, OpInv, HolderInv, LoadInv
  <2> QED BY <2>1, <2>2, <2>3
<1>14. CASE DeleteLock(r)
  <2> USE <1>14 DEF DeleteLock, Refused, Owner, Goto
  <2>1. NamesMatch'
    BY DEF TypeOK, LockInv, TargetInv, ObjectInv, OpInv, HolderInv, NamesMatch,
           LoadInv
  <2>2. ConfigsMatch'
    BY DEF TypeOK, LockInv, TargetInv, ObjectInv, OpInv, HolderInv,
           ConfigsMatch
  <2>3. LoadInv'
    BY DEF TypeOK, LockInv, TargetInv, ObjectInv, OpInv, HolderInv, LoadInv
  <2> QED BY <2>1, <2>2, <2>3
<1>15. CASE DeleteConflict(r)
  <2> USE <1>15 DEF DeleteConflict, Refused, Return
  <2>1. NamesMatch'
    BY DEF TypeOK, LockInv, TargetInv, ObjectInv, OpInv, HolderInv, NamesMatch,
           LoadInv
  <2>2. ConfigsMatch'
    BY DEF TypeOK, LockInv, TargetInv, ObjectInv, OpInv, HolderInv,
           ConfigsMatch
  <2>3. LoadInv'
    BY DEF TypeOK, LockInv, TargetInv, ObjectInv, OpInv, HolderInv, LoadInv
  <2> QED BY <2>1, <2>2, <2>3
<1>16. CASE DeletePanic(r)
  <2> USE <1>16 DEF DeletePanic, Goto
  <2>1. NamesMatch'
    BY DEF TypeOK, LockInv, TargetInv, ObjectInv, OpInv, HolderInv, NamesMatch,
           LoadInv
  <2>2. ConfigsMatch'
    BY DEF TypeOK, LockInv, TargetInv, ObjectInv, OpInv, HolderInv,
           ConfigsMatch
  <2>3. LoadInv'
    BY DEF TypeOK, LockInv, TargetInv, ObjectInv, OpInv, HolderInv, LoadInv
  <2> QED BY <2>1, <2>2, <2>3
<1>17. CASE Recover(r)
  <2> USE <1>17 DEF Recover, Return
  <2>1. NamesMatch'
    BY DEF TypeOK, LockInv, TargetInv, ObjectInv, OpInv, HolderInv, NamesMatch,
           LoadInv
  <2>2. ConfigsMatch'
    BY DEF TypeOK, LockInv, TargetInv, ObjectInv, OpInv, HolderInv,
           ConfigsMatch
  <2>3. LoadInv'
    BY DEF TypeOK, LockInv, TargetInv, ObjectInv, OpInv, HolderInv, LoadInv
  <2> QED BY <2>1, <2>2, <2>3
<1>18. CASE DeleteWait(r)
  <2> USE <1>18 DEF DeleteWait, Quiesced, Goto
  <2>1. NamesMatch'
    BY DEF TypeOK, LockInv, TargetInv, ObjectInv, OpInv, HolderInv, NamesMatch,
           LoadInv
  <2>2. ConfigsMatch'
    BY DEF TypeOK, LockInv, TargetInv, ObjectInv, OpInv, HolderInv,
           ConfigsMatch
  <2>3. LoadInv'
    BY DEF TypeOK, LockInv, TargetInv, ObjectInv, OpInv, HolderInv, LoadInv
  <2> QED BY <2>1, <2>2, <2>3
<1>19. CASE DeletePath(r)
  <2> USE <1>19 DEF DeletePath, Goto
  <2>0. PathRemoved(r, disk')
    BY PathOfTarget
  <2>1. NamesMatch'
    BY <2>0 DEF PathRemoved, TypeOK, LockInv, TargetInv, ObjectInv, OpInv, HolderInv, NamesMatch,
           LoadInv
  <2>2. ConfigsMatch'
    BY <2>0 DEF PathRemoved, TypeOK, LockInv, TargetInv, ObjectInv, OpInv, HolderInv,
           ConfigsMatch
  <2>3. LoadInv'
    BY <2>0 DEF PathRemoved, TypeOK, LockInv, TargetInv, ObjectInv, OpInv, HolderInv, LoadInv
  <2> QED BY <2>1, <2>2, <2>3
<1>20. CASE DeleteData(r)
  <2> USE <1>20 DEF DeleteData, UnlockConf, Return, Unregister
  <2>1. NamesMatch'
    BY DEF TypeOK, LockInv, TargetInv, ObjectInv, OpInv, HolderInv, NamesMatch,
           LoadInv
  <2>2. ConfigsMatch'
    BY DEF TypeOK, LockInv, TargetInv, ObjectInv, OpInv, HolderInv,
           ConfigsMatch
  <2>3. LoadInv'
    BY DEF TypeOK, LockInv, TargetInv, ObjectInv, OpInv, HolderInv, LoadInv
  <2> QED BY <2>1, <2>2, <2>3
<1>21. CASE DeleteSub(r)
  <2> USE <1>21 DEF DeleteSub, UnlockConf, SetConfig, Return, Unregister
  <2>1. NamesMatch'
    BY DEF TypeOK, LockInv, TargetInv, ObjectInv, OpInv, HolderInv, NamesMatch,
           LoadInv
  <2>2. ConfigsMatch'
    BY DEF TypeOK, LockInv, TargetInv, ObjectInv, OpInv, HolderInv,
           ConfigsMatch
  <2>3. LoadInv'
    BY DEF TypeOK, LockInv, TargetInv, ObjectInv, OpInv, HolderInv, LoadInv
  <2> QED BY <2>1, <2>2, <2>3
<1>22. CASE DeleteFail(r)
  <2> USE <1>22 DEF DeleteFail, UnlockConf, Return
  <2>0. disk' = disk \/ PathRemoved(r, disk')
    BY PathOfTarget
  <2>1. NamesMatch'
    BY <2>0 DEF PathRemoved, TypeOK, LockInv, TargetInv, ObjectInv, OpInv, HolderInv, NamesMatch,
           LoadInv
  <2>2. ConfigsMatch'
    BY <2>0 DEF PathRemoved, TypeOK, LockInv, TargetInv, ObjectInv, OpInv, HolderInv,
           ConfigsMatch
  <2>3. LoadInv'
    BY <2>0 DEF PathRemoved, TypeOK, LockInv, TargetInv, ObjectInv, OpInv, HolderInv, LoadInv
  <2> QED BY <2>1, <2>2, <2>3
<1>23. ~CreateLoadFail(r)
  BY DEF CreateLoadFail
<1> QED
  BY <1>1, <1>2, <1>3, <1>4, <1>5, <1>6, <1>7, <1>8, <1>9, <1>10, <1>11,
     <1>12, <1>13, <1>14, <1>15, <1>16, <1>17, <1>18, <1>19, <1>20, <1>21, <1>22, <1>23 DEF Request

\* A crash and the NewManager after it keep them in agreement.
LEMMA IndexRestart ==
  ASSUME IndexInv, CrashRestart
  PROVE  (NamesMatch /\ ConfigsMatch /\ LoadInv)'
<1> USE NilAssumption
    DEF IndexInv, GuardInv, TypeOK, CrashRestart, diskVars
<1>1. \A i, j \in Ids : disk[i] # Nil /\ disk[i] = disk[j] => i = j
  BY DEF NamesMatch, ConfigsMatch, LoadInv, LockInv
<1>2. NamesMatch'
  BY <1>1 DEF NamesMatch
<1>3. ConfigsMatch' /\ LoadInv'
  BY DEF ConfigsMatch, LoadInv
<1> QED BY <1>2, <1>3

\* IndexInv lasts until a load fails (manager.go:119-122), and orphans only
\* grows.
SoundInv == GuardInv /\ (orphans = {} => IndexInv)

\* A space that a failed Create left on disk stays there.
LEMMA OrphansGrow == [Next]_vars /\ orphans' = {} => orphans = {}
<1> USE DEF managerVars, objectVars, diskVars
<1>1. ASSUME NEW r \in Reqs, Request(r)
      PROVE  orphans \subseteq orphans'
  BY <1>1 DEF Request, Arrive, Get, StartOp, Work, Info, Finish, UpdateSpace, Refuse,
              CreateSubspace, CreateWrite, CreateRefuse, CreateLoad, CreateLoadFail, List,
              DeleteLock, DeleteConflict, DeletePanic, Recover, DeleteWait, DeletePath,
              DeleteData, DeleteSub, DeleteFail
<1>2. CrashRestart => orphans \subseteq orphans'
  BY DEF CrashRestart
<1>3. UNCHANGED vars => orphans \subseteq orphans'
  BY DEF vars
<1> QED BY <1>1, <1>2, <1>3 DEF Next

\* SoundInv is inductive.
LEMMA SoundStep == SoundInv /\ [Next]_vars => SoundInv'
<1> SUFFICES ASSUME SoundInv, [Next]_vars
             PROVE  SoundInv'
  OBVIOUS
<1>1. GuardInv'
  BY GuardStep DEF SoundInv
<1> SUFFICES ASSUME orphans' = {}
             PROVE  IndexInv'
  BY <1>1 DEF SoundInv
<1>2. IndexInv
  BY OrphansGrow DEF SoundInv
<1>3. CASE UNCHANGED vars
  BY <1>1, <1>2, <1>3 DEF vars, IndexInv, NamesMatch, ConfigsMatch, LoadInv
<1>4. CASE CrashRestart
  BY <1>1, <1>2, <1>4, IndexRestart DEF IndexInv
<1>5. ASSUME NEW r \in Reqs, Request(r)
      PROVE  IndexInv'
  BY <1>1, <1>2, <1>5, IndexRequest DEF IndexInv
<1> QED BY <1>3, <1>4, <1>5 DEF Next

\* Whatever the requests do, SoundInv holds of the manager.
THEOREM IndexInvariant == Spec => []SoundInv
<1>1. Init => SoundInv
  BY IndexInit, GuardInit DEF SoundInv
<1> QED BY <1>1, SoundStep, PTL DEF Spec

\* The name index and the spaces agree in every state, through crashes and
\* failed deletes, until a Create fails to load its space: IndexExact.
THEOREM IndexCorrect == Spec => []IndexExact
<1>1. SoundInv => IndexExact
  BY DEF SoundInv, IndexInv, IndexExact
<1> QED BY <1>1, IndexInvariant, PTL

\* A restart finds what the daemon served, until a Create fails to load its
\* space: DiskMatchesMemory.
THEOREM DiskCorrect == Spec => []DiskMatchesMemory
<1>1. SoundInv => DiskMatchesMemory
  BY DEF SoundInv, IndexInv, DiskMatchesMemory
<1> QED BY <1>1, IndexInvariant, PTL

-----------------------------------------------------------------------------
(***************************************************************************)
(* The refinement of SpaceCatalog.  A create takes effect when the loaded  *)
(* space enters the index, a delete when it leaves it, and a restart       *)
(* finishes both: the space whose config was written comes, those whose    *)
(* config was removed go.                                                  *)
(***************************************************************************)

\* No name leads to a space, so no space has it (validateName).
LEMMA FreeNameAvailable ==
  ASSUME IndexInv, NEW i \in Ids, NEW n \in Names, names[n] = Nil
  PROVE  Catalog!Available(i, n)
  BY NilAssumption
  DEF IndexInv, GuardInv, TypeOK, NamesMatch, Listing, Catalog!Available

\* What a client sees of a state: a space of the index has a name.
LEMMA ListedSpaces ==
  ASSUME IndexInv
  PROVE  Catalog!Listed = spaces
  BY DEF IndexInv, GuardInv, TypeOK, ObjectInv, Listing, Catalog!Listed

\* The steps that a client does not see: every step but UpdateSpace's,
\* CreateSubspace's, CreateLoad's and the last one of a delete.
LEMMA HiddenStep ==
  ASSUME IndexInv, NEW r \in Reqs, Request(r), orphans' = {},
         ~UpdateSpace(r), ~CreateSubspace(r), ~CreateLoad(r),
         ~DeleteData(r), ~DeleteSub(r)
  PROVE  Listing' = Listing /\ Gone' = Gone
<1> USE NilAssumption DEF managerVars, objectVars, diskVars
<1>1. CASE CreateWrite(r)
  BY <1>1
  DEF IndexInv, GuardInv, TypeOK, ObjectInv, CreateWrite, Free, Listing, Gone
<1>2. CASE DeletePath(r) \/ DeleteFail(r)
  <2>1. spaces' = spaces /\ conf' = conf /\ kind' = kind
    BY <1>2 DEF DeletePath, DeleteFail
  <2>2. disk' = disk \/ PathRemoved(r, disk')
    BY <1>2, PathOfTarget DEF IndexInv, DeletePath, DeleteFail
  <2>3. target[r] \in spaces
    BY <1>2 DEF IndexInv, GuardInv, HolderInv, DeletePath, DeleteFail
  <2>4. \A j \in Ids : j \notin spaces => disk'[j] = disk[j]
    BY <2>2, <2>3
    DEF PathRemoved, IndexInv, GuardInv, TypeOK, ConfigsMatch, HolderInv
  <2> QED BY <2>1, <2>4 DEF Listing, Gone
<1>3. CASE UNCHANGED <<spaces, conf, kind, disk>>
  BY <1>3 DEF Listing, Gone
<1> QED
  BY <1>1, <1>2, <1>3
  DEF Request, Arrive, Get, StartOp, Work, Info, Finish, Refuse, CreateRefuse,
      CreateLoadFail, List, DeleteLock, DeleteConflict, DeletePanic, Recover,
      DeleteWait

\* A rename is the catalog's.
LEMMA RenameStep ==
  ASSUME IndexInv, NEW r \in Reqs, UpdateSpace(r)
  PROVE  Catalog!Rename
<1> DEFINE i == target[r]
<1>1. i \in Ids /\ i \in spaces
  BY DEF IndexInv, GuardInv, TypeOK, TargetInv, OpInv, UpdateSpace
<1>2. PICK n \in Names : names[n] = Nil /\ SetConfig(i, n)
  BY DEF UpdateSpace, NameFree
<1>3. Gone' = Gone
  BY <1>1, <1>2 DEF IndexInv, GuardInv, TypeOK, UpdateSpace, SetConfig, Gone
<1>4. Listing' = [Listing EXCEPT ![i] = n]
  BY <1>1, <1>2 DEF IndexInv, GuardInv, TypeOK, UpdateSpace, SetConfig, Listing
<1>5. Catalog!Available(i, n)
  BY <1>1, <1>2, FreeNameAvailable
<1> QED BY <1>1, <1>3, <1>4, <1>5, ListedSpaces DEF Catalog!Rename

\* The spaces S leave the index and those of A, at most one, enter it under a
\* name that no space has.
LEMMA ReplaceBy ==
  ASSUME NEW S \in SUBSET Catalog!Listed,
         NEW A \in {{}} \cup {{i} : i \in Ids \ (Catalog!Listed \cup Gone)},
         NEW n \in Names,
         \A i \in A : Catalog!Available(i, n),
         Gone' = Gone \cup S,
         Listing' = [i \in Ids |-> IF i \in S THEN Nil
                                   ELSE IF i \in A THEN n ELSE Listing[i]]
  PROVE  Catalog!Replace
  BY Zenon DEF Catalog!Replace

\* A space i enters the index under a name that was free.
LEMMA AddStep ==
  ASSUME IndexInv, NEW i \in Ids \ (spaces \cup Gone), NEW n \in Names,
         names[n] = Nil, Gone' = Gone,
         Listing' = [Listing EXCEPT ![i] = n]
  PROVE  Catalog!Replace
<1> DEFINE S == {}
           A == {i}
<1>1. \A j \in A : Catalog!Available(j, n)
  BY FreeNameAvailable
<1>2. Listing' = [j \in Ids |-> IF j \in S THEN Nil
                                ELSE IF j \in A THEN n ELSE Listing[j]]
  BY DEF Listing
<1>3. /\ S \in SUBSET Catalog!Listed
      /\ A \in {{}} \cup {{j} : j \in Ids \ (Catalog!Listed \cup Gone)}
  BY ListedSpaces
<1>4. Gone' = Gone \cup S
  OBVIOUS
<1> HIDE DEF S, A
<1> QED BY <1>1, <1>2, <1>3, <1>4, ReplaceBy

\* The spaces S leave the index.
LEMMA RemoveStep ==
  ASSUME IndexInv, NEW S \in SUBSET spaces, S # {}, Gone' = Gone \cup S,
         Listing' = [j \in Ids |-> IF j \in S THEN Nil ELSE Listing[j]]
  PROVE  Catalog!Replace
<1> DEFINE A == {}
<1>1. PICK n : n \in Names
  BY DEF IndexInv, GuardInv, TypeOK, ObjectInv
<1>2. Listing' = [j \in Ids |-> IF j \in S THEN Nil
                                ELSE IF j \in A THEN n ELSE Listing[j]]
  OBVIOUS
<1>3. /\ S \in SUBSET Catalog!Listed
      /\ A \in {{}} \cup {{j} : j \in Ids \ (Catalog!Listed \cup Gone)}
      /\ \A j \in A : Catalog!Available(j, n)
  BY ListedSpaces
<1> HIDE DEF A
<1> QED BY <1>1, <1>2, <1>3, ReplaceBy

\* Creates and deletes are the catalog's.
LEMMA ReplaceStep ==
  ASSUME IndexInv, NEW r \in Reqs,
         CreateSubspace(r) \/ CreateLoad(r) \/ DeleteData(r) \/ DeleteSub(r)
  PROVE  Catalog!Replace
<1> USE NilAssumption DEF diskVars
<1>1. CASE CreateSubspace(r)
  <2>1. PICK i \in Free, n \in Names :
          /\ names[n] = Nil
          /\ kind' = [kind EXCEPT ![i] = "sub"]
          /\ SetConfig(i, n)
          /\ spaces' = spaces \cup {i}
    BY <1>1 DEF CreateSubspace, NameFree
  <2>2. i \in Ids \ (spaces \cup Gone)
    BY DEF IndexInv, GuardInv, ObjectInv, Free, Gone
  <2>3. Gone' = Gone
    BY <2>1, <2>2 DEF IndexInv, GuardInv, TypeOK, SetConfig, Gone
  <2>4. Listing' = [Listing EXCEPT ![i] = n]
    BY <2>1, <2>2 DEF IndexInv, GuardInv, TypeOK, SetConfig, Listing
  <2> QED BY <2>1, <2>2, <2>3, <2>4, AddStep
<1>2. CASE CreateLoad(r)
  <2> DEFINE i == target[r]
  <2>1. i \in Ids \ (spaces \cup Gone) /\ disk[i] \in Names
    BY <1>2
    DEF IndexInv, GuardInv, TypeOK, TargetInv, HolderInv, CreateLoad, Gone
  <2>2. names[disk[i]] = Nil
    BY <1>2 DEF IndexInv, LoadInv, CreateLoad
  <2>3. Gone' = Gone
    BY <1>2, <2>1 DEF IndexInv, GuardInv, TypeOK, CreateLoad, Gone
  <2>4. Listing' = [Listing EXCEPT ![i] = disk[i]]
    BY <1>2, <2>1 DEF IndexInv, GuardInv, TypeOK, CreateLoad, Listing
  <2> HIDE DEF i
  <2> QED BY <2>1, <2>2, <2>3, <2>4, AddStep
<1>3. CASE DeleteData(r) \/ DeleteSub(r)
  <2> DEFINE i == target[r]
  <2>1. i \in Ids /\ i \in spaces /\ kind[i] # "none"
    BY <1>3
    DEF IndexInv, GuardInv, TargetInv, HolderInv, DeleteData, DeleteSub
  <2>2. spaces' = spaces \ {i} /\ kind' = kind
    BY <1>3 DEF DeleteData, DeleteSub, Unregister
  <2>3. /\ disk' \in [Ids -> Names \cup {Nil}]
        /\ disk'[i] = Nil
        /\ \A j \in Ids \ {i} : disk'[j] = disk[j] /\ conf'[j] = conf[j]
    BY <1>3, <2>1
    DEF IndexInv, GuardInv, TypeOK, HolderInv, DeleteData, DeleteSub,
        SetConfig
  <2>4. Gone' = Gone \cup {i}
    BY <2>1, <2>2, <2>3 DEF Gone
  <2>5. Listing' = [j \in Ids |-> IF j \in {i} THEN Nil ELSE Listing[j]]
    BY <2>1, <2>2, <2>3 DEF Listing
  <2> HIDE DEF i
  <2> QED BY <2>1, <2>4, <2>5, RemoveStep
<1> QED BY <1>1, <1>2, <1>3

\* A restart is at most one step of the catalog: the spaces of which a delete
\* had removed config.json go, and the one a Create had written comes.
LEMMA RestartStep ==
  ASSUME IndexInv, CrashRestart
  PROVE  Catalog!Replace \/ (Listing' = Listing /\ Gone' = Gone)
<1> DEFINE S == {i \in spaces : disk[i] = Nil}
           A == {i \in Ids : disk[i] # Nil /\ i \notin spaces}
<1> USE NilAssumption DEF diskVars
<1>1. S \in SUBSET spaces /\ spaces \subseteq Ids
  BY DEF IndexInv, GuardInv, TypeOK
<1>2. Gone' = Gone \cup S
  BY DEF IndexInv, GuardInv, TypeOK, ObjectInv, CrashRestart, Gone
<1>3. Listing' = [i \in Ids |-> disk[i]]
  BY DEF IndexInv, GuardInv, TypeOK, CrashRestart, Listing
<1>4. \A i \in Ids : i \notin A =>
        disk[i] = IF i \in S THEN Nil ELSE Listing[i]
  BY <1>1 DEF IndexInv, GuardInv, TypeOK, LoadInv, Listing
<1>5. CASE A = {} /\ S = {}
  BY <1>2, <1>3, <1>4, <1>5 DEF Listing
<1>6. CASE A = {} /\ S # {}
  <2>1. Listing' = [i \in Ids |-> IF i \in S THEN Nil ELSE Listing[i]]
    BY <1>3, <1>4, <1>6
  <2> HIDE DEF S
  <2> QED BY <1>1, <1>2, <1>6, <2>1, RemoveStep
<1>7. CASE A # {}
  <2>1. PICK a : a \in A
    BY <1>7
  <2>2. PICK r \in Reqs : pc[r] = "load" /\ target[r] = a
    BY <2>1 DEF IndexInv, ConfigsMatch
  <2>3. A = {a}
    BY <2>1, <2>2 DEF IndexInv, GuardInv, ConfigsMatch, LockInv
  <2>4. a \in Ids \ (Catalog!Listed \cup Gone) /\ disk[a] \in Names
    BY <2>1, ListedSpaces DEF IndexInv, GuardInv, TypeOK, Gone
  <2>5. names[disk[a]] = Nil
    BY <2>2 DEF IndexInv, LoadInv
  <2>6. Catalog!Available(a, disk[a])
    BY <2>4, <2>5, FreeNameAvailable
  <2>7. Listing' = [i \in Ids |-> IF i \in S THEN Nil
                                  ELSE IF i \in A THEN disk[a]
                                  ELSE Listing[i]]
    BY <1>3, <1>4, <2>1, <2>3
  <2>8. /\ S \in SUBSET Catalog!Listed
        /\ A \in {{}} \cup {{j} : j \in Ids \ (Catalog!Listed \cup Gone)}
        /\ \A j \in A : Catalog!Available(j, disk[a])
    BY <1>1, <2>3, <2>4, <2>6, ListedSpaces
  <2> HIDE DEF S, A
  <2> QED BY <1>2, <2>4, <2>7, <2>8, ReplaceBy
<1> QED BY <1>5, <1>6, <1>7

\* Every step of the daemon is a step of the catalog or leaves it as it is.
LEMMA CatalogStep ==
  SoundInv /\ [Next]_vars =>
    [orphans' = {} => Catalog!CatalogNext]_<<Listing, Gone>>
<1> SUFFICES ASSUME SoundInv, [Next]_vars, orphans' = {}
             PROVE  Catalog!CatalogNext \/ (Listing' = Listing /\ Gone' = Gone)
  OBVIOUS
<1>1. IndexInv
  BY OrphansGrow DEF SoundInv
<1>2. CASE UNCHANGED vars
  BY <1>2 DEF vars, Listing, Gone
<1>3. CASE CrashRestart
  BY <1>1, <1>3, RestartStep DEF Catalog!CatalogNext
<1>4. ASSUME NEW r \in Reqs, Request(r)
      PROVE  Catalog!CatalogNext \/ (Listing' = Listing /\ Gone' = Gone)
  BY <1>1, <1>4, HiddenStep, RenameStep, ReplaceStep DEF Catalog!CatalogNext
<1> QED BY <1>2, <1>3, <1>4 DEF Next

\* To its clients the daemon is an atomic catalog of spaces under distinct
\* names, until a Create fails to load its space: ImplementsCatalog.
THEOREM CatalogImplemented == Spec => ImplementsCatalog
<1>1. Init => Catalog!CatalogInit
  BY DEF Init, Listing, Gone, Catalog!CatalogInit
<1> QED
  BY <1>1, CatalogStep, IndexInvariant, PTL DEF Spec, ImplementsCatalog

-----------------------------------------------------------------------------
(***************************************************************************)
(* Nobody waits for everybody.                                             *)
(***************************************************************************)
\* Which requests come by a point of a handler: what comes from Get to StartOp
\* and what goes on inside it.
PathInv ==
  /\ \A r \in Reqs : pc[r] = "start" => op[r] \in {"work", "info", "put", "subspace"}
  /\ \A r \in Reqs : pc[r] = "run" => op[r] \in {"work", "put", "subspace"}
  /\ \A r \in Reqs : pc[r] = "get" => op[r] \notin {"create", "list"}

\* No step leads a request to a point that is not on its handler's path.
LEMMA PathStep ==
  ASSUME TypeOK, PathInv, [Next]_vars
  PROVE  PathInv'
<1>1. ASSUME NEW r \in Reqs, Arrive(r)
      PROVE  PathInv'
  BY <1>1, SwitchAssumption DEF Arrive, PathInv, TypeOK, PCs, AllOps
<1>2. ASSUME NEW r \in Reqs, Get(r) \/ StartOp(r)
      PROVE  PathInv'
  BY <1>2 DEF Get, StartOp, Goto, Return, PathInv, TypeOK, PCs, AllOps
<1>3. ASSUME NEW r \in Reqs,
             pc' = [pc EXCEPT ![r] = pc'[r]], pc'[r] \notin {"start", "run", "get"},
             op' = [op EXCEPT ![r] = op'[r]]
      PROVE  PathInv'
  BY <1>3 DEF PathInv, TypeOK
<1>4. ASSUME NEW r \in Reqs, Request(r), ~Arrive(r), ~Get(r), ~StartOp(r)
      PROVE  PathInv'
  <2>1. /\ pc' = [pc EXCEPT ![r] = pc'[r]]
        /\ pc'[r] \notin {"start", "run", "get"}
        /\ op' = [op EXCEPT ![r] = op'[r]]
    BY <1>4 DEF Request, Work, Info, Finish, UpdateSpace, Refuse, CreateSubspace,
       CreateWrite, CreateRefuse, CreateLoad, CreateLoadFail, List, DeleteLock,
       DeleteConflict, DeletePanic, Recover, DeleteWait, DeletePath, DeleteData,
       DeleteSub, DeleteFail, Unregister, Goto, Return, TypeOK
  <2> QED BY <1>3, <2>1
<1>5. CASE CrashRestart
  BY <1>5 DEF CrashRestart, PathInv
<1>6. CASE UNCHANGED vars
  BY <1>6 DEF vars, PathInv
<1> QED BY <1>1, <1>2, <1>4, <1>5, <1>6 DEF Next

\* Where GuardInv holds a request that is under way can go on, or one that it
\* waits for can: a confMu is held by whom spacesMu is held by, and who holds
\* that waits for registered requests only, which wait for it in a deadlock only.
LEMMA ReadyRequest ==
  ASSUME GuardInv, PathInv
  PROVE  SomebodyGoesOn
<1> SUFFICES ASSUME NEW q \in Reqs, pc[q] # "idle", ~Deadlocked
             PROVE  \E r \in Reqs : Ready(r)
  BY DEF SomebodyGoesOn
<1>1. /\ pc[q] \in PCs /\ op[q] \in AllOps
      /\ mu \in Reqs \cup {Nil}
      /\ \A i \in Ids : confMu[i] \in Reqs \cup {Nil} /\ ops[i] \subseteq Reqs
      /\ \A i \in Ids : kind[i] = "sub" => parent[i] \in Ids /\ kind[parent[i]] = "archive"
  BY DEF GuardInv, TypeOK, ObjectInv
<1>2. \A i \in Ids : Owner(i) \in Ids
  BY <1>1 DEF Owner
<1>3. \A i \in Ids : confMu[i] # Nil => mu = confMu[i] /\ target[mu] = i /\ Deleting(mu)
  BY <1>1 DEF GuardInv, LockInv
<1>4. CASE mu = Nil
  <2>1. \A i \in Ids : confMu[i] = Nil
    BY <1>3, <1>4, <1>1, NilAssumption
  <2>2. ~HoldsMu(q)
    BY <1>4, NilAssumption DEF GuardInv, LockInv
  <2>3. pc[q] \in {"info", "lock"} => target[q] \in Ids
    BY DEF GuardInv, TargetInv
  <2>4. spaces \subseteq Ids
    BY DEF GuardInv, TypeOK
  <2>5. Ready(q)
    BY <1>1, <1>2, <1>4, <2>1, <2>2, <2>3, <2>4 DEF Ready, PCs
  <2> QED BY <2>5
<1>5. CASE mu # Nil
  <2>1. mu \in Reqs /\ pc[mu] \in {"load", "wait", "rmpath", "rmdata"}
    BY <1>1, <1>5 DEF GuardInv, LockInv
  <2>2. target[mu] \in Ids
    BY <2>1 DEF GuardInv, TargetInv
  <2>3. CASE pc[mu] \in {"load", "rmdata"}
    BY <2>1, <2>3 DEF Ready
  <2>4. CASE pc[mu] = "rmpath"
    <3>1. ASSUME kind[target[mu]] = "sub"
          PROVE  confMu[parent[target[mu]]] = Nil
      <4>1. parent[target[mu]] # target[mu] /\ parent[target[mu]] \in Ids
        BY <1>1, <2>2, <3>1
      <4> QED BY <1>3, <4>1
    <3> QED BY <2>1, <2>4, <3>1 DEF Ready
  <2>5. CASE pc[mu] = "wait"
    <3>1. CASE ops[target[mu]] = {}
      BY <2>1, <2>5, <3>1 DEF Ready
    <3>2. CASE ops[target[mu]] # {}
      <4>1. PICK p \in ops[target[mu]] : TRUE
        BY <3>2
      <4>2. p \in Reqs /\ pc[p] \in {"run", "info", "finish"}
        BY <1>1, <2>2 DEF GuardInv, OpInv
      <4>3. CASE pc[p] = "finish"
        BY <4>2, <4>3 DEF Ready
      <4>4. CASE pc[p] = "run"
        <5>1. op[p] = "work"
          BY <2>1, <2>5, <4>2, <4>4 DEF Deadlocked
        <5> QED BY <4>2, <4>4, <5>1 DEF Ready
      <4>5. CASE pc[p] = "info"
        <5>1. kind[target[p]] # "file" => confMu[Owner(target[p])] # mu
          BY <2>1, <2>5, <4>2, <4>5 DEF Deadlocked
        <5>2. target[p] \in Ids
          BY <4>2, <4>5 DEF GuardInv, TargetInv
        <5>3. kind[target[p]] # "file" => confMu[Owner(target[p])] = Nil
          BY <1>2, <1>3, <5>1, <5>2
        <5> QED BY <4>2, <4>5, <5>3 DEF Ready
      <4> QED BY <4>2, <4>3, <4>4, <4>5
    <3> QED BY <3>1, <3>2
  <2> QED BY <2>1, <2>3, <2>4, <2>5
<1> QED BY <1>4, <1>5

\* Nobody waits for everybody (Manager.Create, UpdateSpace, Delete, List and the
\* guards): while requests are under way one of them is ready, unless a delete
\* is deadlocked, whatever failed and however often the daemon was restarted.
THEOREM ProgressPossible == Spec => []SomebodyGoesOn
<1>1. Init => PathInv
  BY DEF Init, PathInv
<1>2. TypeOK /\ PathInv /\ [Next]_vars => PathInv'
  BY PathStep
<1>3. GuardInv /\ PathInv => SomebodyGoesOn
  BY ReadyRequest
<1> QED BY <1>1, <1>2, <1>3, GuardInvariant, TypeCorrect, PTL DEF Spec
=============================================================================
