---------------------------- MODULE SpaceManager ----------------------------
(***************************************************************************)
(* The spaces of the zqd daemon: zqd/space (Manager, guard, fileSpace,     *)
(* archiveSpace, archiveSubspace and their persisted config) as the HTTP   *)
(* handlers of zqd/handlers.go use it.                                     *)
(*                                                                         *)
(* A request is a goroutine of the HTTP server.  The locks are modelled as *)
(* far as somebody can hold one while blocked: spacesMu ("mu") and a       *)
(* space's confMu are held by Manager.Delete while it waits for the        *)
(* operations registered with the space's guard; spacesMu is also held     *)
(* across the two disk steps of Manager.Create.  guard.mu is never held    *)
(* across a blocking call, so StartOp and acquireForDelete are atomic.     *)
(***************************************************************************)
EXTENDS Naturals, FiniteSets

CONSTANTS
  Reqs,        \* request goroutines; each serves one request after another
  Ids,         \* space ids (ksuids): each is given out once, so |Ids| bounds
               \* the number of spaces ever created
  Names,       \* valid space names
  Nil,
  Ops,         \* the kinds of request the clients send
  IOFaults,    \* whether writeConfig and RemoveAll may fail
  LoadFaults,  \* whether loadSpaces and archivestore.Load may fail
  Crashes      \* whether the daemon may crash and be restarted

AllOps == {"work", "info", "put", "subspace", "create", "delete", "list"}

ASSUME NilAssumption == Nil \notin Reqs /\ Nil \notin Ids /\ Nil \notin Names
ASSUME SwitchAssumption ==
  Ops \subseteq AllOps /\ {IOFaults, LoadFaults, Crashes} \subseteq BOOLEAN

VARIABLES
  mu,       \* holder of Manager.spacesMu
  spaces,   \* keys of Manager.spaces
  names,    \* Manager.names
  kind,     \* the Go type behind each id; "none": not yet given out
  parent,   \* archiveSubspace.parent
  conf,     \* config.Name in memory; of a subspace, its entry in parent.conf
  confMu,   \* holder of a space's confMu
  pending,  \* the ids whose guard.deletePending is set
  ops,      \* the requests counted in a space's guard.wg
  disk,     \* config.json: the name persisted for an id
  data,     \* the ids whose data directory exists
  orphans,  \* history: the ids a Create wrote a config.json for and did not
            \* load
  pc, op, target  \* per request: where it is, what it does, on which space

managerVars == <<mu, spaces, names>>
objectVars == <<kind, parent, conf, confMu, pending, ops>>
diskVars == <<disk, data, orphans>>
reqVars == <<pc, op, target>>
vars == <<mu, spaces, names, kind, parent, conf, confMu, pending, ops,
          disk, data, orphans, pc, op, target>>

Kinds == {"none", "file", "archive", "sub"}
PCs == {"idle", "get", "start", "run", "info", "finish", "create", "load",
        "list", "lock", "wait", "rmpath", "rmdata", "panicked"}

(***************************************************************************)
(* The points at which a request holds spacesMu between two of its steps.  *)
(***************************************************************************)
HoldsMu(r) == pc[r] \in {"load", "wait", "rmpath", "rmdata"}

\* The ids newSpaceID may return.
Free == {i \in Ids : kind[i] = "none"}

Children(i) == {s \in Ids : kind[s] = "sub" /\ parent[s] = i /\ conf[s] # Nil}

\* The space whose confMu guards the config that names i.
Owner(i) == IF kind[i] = "sub" THEN parent[i] ELSE i

\* The ids whose directory or config entry an operation on i relies on.
Relies(i) == {i, Owner(i)}

\* validateName: a name of the index is a conflict.
AnyName(n) == TRUE
NameFree(n) == names[n] = Nil

\* guard.acquire and guard.acquireForDelete: no second delete of a space and
\* no new operation on it.
NeverRefused(i) == FALSE
Refused(i) == i \in pending

\* guard.wg.Wait returns.
NoWait(i) == TRUE
Quiesced(i) == ops[i] = {}

\* updateConfigWithLock: config.json is replaced, then the config in memory.
MemoryOnly(i, n) ==
  /\ conf' = [conf EXCEPT ![i] = n]
  /\ UNCHANGED disk
SetConfig(i, n) ==
  /\ disk' = [disk EXCEPT ![i] = n]
  /\ conf' = [conf EXCEPT ![i] = n]

\* config.json of i holds the entries of its subspaces too.
WithoutPath(i) == [j \in Ids |-> IF i \in Relies(j) THEN Nil ELSE disk[j]]

\* The deferred confMu.Unlock of archiveSpace.delete.
NoUnlock(r) == UNCHANGED confMu
UnlockConf(r) ==
  confMu' = [j \in Ids |-> IF confMu[j] = r THEN Nil ELSE confMu[j]]

Goto(r, l) ==
  /\ pc' = [pc EXCEPT ![r] = l]
  /\ UNCHANGED <<op, target>>

\* The handler returns and the goroutine serves another request.
Return(r) ==
  /\ pc' = [pc EXCEPT ![r] = "idle"]
  /\ op' = [op EXCEPT ![r] = "list"]
  /\ target' = [target EXCEPT ![r] = Nil]

Init ==
  /\ mu = Nil
  /\ spaces = {}
  /\ names = [n \in Names |-> Nil]
  /\ kind = [i \in Ids |-> "none"]
  /\ parent = [i \in Ids |-> Nil]
  /\ conf = [i \in Ids |-> Nil]
  /\ confMu = [i \in Ids |-> Nil]
  /\ pending = {}
  /\ ops = [i \in Ids |-> {}]
  /\ disk = [i \in Ids |-> Nil]
  /\ data = {}
  /\ orphans = {}
  /\ pc = [r \in Reqs |-> "idle"]
  /\ op = [r \in Reqs |-> "list"]
  /\ target = [r \in Reqs |-> Nil]

-----------------------------------------------------------------------------
(***************************************************************************)
(* A client's request reaches its handler.  Only ids that were given out   *)
(* are asked for: any other id ends in Get's ErrSpaceNotExist at once.     *)
(***************************************************************************)
Arrive(r) ==
  /\ pc[r] = "idle"
  /\ \E o \in Ops :
       /\ op' = [op EXCEPT ![r] = o]
       /\ IF o \in {"create", "list"}
            THEN /\ pc' = [pc EXCEPT ![r] = o]
                 /\ UNCHANGED target
            ELSE /\ pc' = [pc EXCEPT ![r] = "get"]
                 /\ \E i \in Ids \ Free : target' = [target EXCEPT ![r] = i]
  /\ UNCHANGED <<managerVars, objectVars, diskVars>>

(***************************************************************************)
(* Manager.Get, called by extractSpace and, outside the lock it takes      *)
(* next, by Manager.Delete.                                                *)
(***************************************************************************)
Get(r) ==
  /\ pc[r] = "get"
  /\ mu = Nil
  /\ IF target[r] \in spaces
       THEN Goto(r, IF op[r] = "delete" THEN "lock" ELSE "start")
       ELSE Return(r)
  /\ UNCHANGED <<managerVars, objectVars, diskVars>>

(***************************************************************************)
(* guard.acquire: refused once a delete is pending, else counted in wg.    *)
(***************************************************************************)
StartOp(r) ==
  /\ pc[r] = "start"
  /\ IF Refused(target[r])
       THEN Return(r) /\ UNCHANGED ops
       ELSE /\ Goto(r, IF op[r] = "info" THEN "info" ELSE "run")
            /\ ops' = [ops EXCEPT ![target[r]] = @ \cup {r}]
  /\ UNCHANGED <<managerVars, kind, parent, conf, confMu, pending, diskVars>>

(***************************************************************************)
(* A handler that only works inside its StartOp: search, worker, pcap and  *)
(* log ingest, index.  It ends by itself or because the guard's cancelChan *)
(* cancels its context.                                                    *)
(***************************************************************************)
Work(r) ==
  /\ pc[r] = "run"
  /\ op[r] = "work"
  /\ Goto(r, "finish")
  /\ UNCHANGED <<managerVars, objectVars, diskVars>>

(***************************************************************************)
(* Info.  A fileSpace reads its config without the lock; an archiveSpace   *)
(* takes its confMu and a subspace its parent's (findConfig).              *)
(***************************************************************************)
Info(r) ==
  /\ pc[r] = "info"
  /\ kind[target[r]] # "file" => confMu[Owner(target[r])] = Nil
  /\ Goto(r, "finish")
  /\ UNCHANGED <<managerVars, objectVars, diskVars>>

(***************************************************************************)
(* The deferred done function: wg.Done of the guard the request acquired.  *)
(* handleSpacePost has acquired none.                                      *)
(***************************************************************************)
Finish(r) ==
  /\ pc[r] = "finish"
  /\ ops' = [i \in Ids |-> ops[i] \ {r}]
  /\ Return(r)
  /\ UNCHANGED <<managerVars, kind, parent, conf, confMu, pending, diskVars>>

-----------------------------------------------------------------------------
(***************************************************************************)
(* Manager.UpdateSpace inside handleSpacePut: config.json is replaced      *)
(* before the config in memory, and both before the index.                 *)
(***************************************************************************)
UpdateSpace(r) ==
  LET i == target[r] IN
  /\ pc[r] = "run"
  /\ op[r] = "put"
  /\ mu = Nil
  /\ confMu[Owner(i)] = Nil
  /\ \E n \in Names :
       /\ NameFree(n)
       /\ SetConfig(i, n)
       /\ names' = [names EXCEPT ![conf[i]] = Nil, ![n] = i]
  /\ Goto(r, "finish")
  /\ UNCHANGED <<mu, spaces, kind, parent, confMu, pending, ops, data, orphans>>

(***************************************************************************)
(* The error returns of UpdateSpace and CreateSubspace: an invalid or used *)
(* name, a space that is no archive, a failed write or load.  None of them *)
(* leaves a trace, the config being replaced atomically.                   *)
(***************************************************************************)
Refuse(r) ==
  /\ pc[r] = "run"
  /\ op[r] \in {"put", "subspace"}
  /\ mu = Nil
  /\ Goto(r, "finish")
  /\ UNCHANGED <<managerVars, objectVars, diskVars>>

(***************************************************************************)
(* Manager.CreateSubspace: a new id in the parent's config.  The handler   *)
(* goes on to Info of the subspace while registered with the parent only.  *)
(***************************************************************************)
CreateSubspace(r) ==
  LET p == target[r] IN
  /\ pc[r] = "run"
  /\ op[r] = "subspace"
  /\ mu = Nil
  /\ kind[p] = "archive"
  /\ confMu[p] = Nil
  /\ \E s \in Free, n \in Names :
       /\ NameFree(n)
       /\ kind' = [kind EXCEPT ![s] = "sub"]
       /\ parent' = [parent EXCEPT ![s] = p]
       /\ SetConfig(s, n)
       /\ spaces' = spaces \cup {s}
       /\ names' = [names EXCEPT ![n] = s]
       /\ target' = [target EXCEPT ![r] = s]
  /\ pc' = [pc EXCEPT ![r] = "info"]
  /\ UNCHANGED <<mu, confMu, pending, ops, data, orphans, op>>

-----------------------------------------------------------------------------
(***************************************************************************)
(* Manager.Create up to writeConfig: the directory is made and config.json *)
(* written, with spacesMu held.                                            *)
(***************************************************************************)
CreateWrite(r) ==
  /\ pc[r] = "create"
  /\ mu = Nil
  /\ mu' = r
  /\ \E i \in Free, n \in Names, k \in {"file", "archive"} :
       /\ NameFree(n)
       /\ kind' = [kind EXCEPT ![i] = k]
       /\ disk' = [disk EXCEPT ![i] = n]
       /\ data' = data \cup {i}
       /\ target' = [target EXCEPT ![r] = i]
  /\ pc' = [pc EXCEPT ![r] = "load"]
  /\ UNCHANGED <<spaces, names, parent, conf, confMu, pending, ops, orphans, op>>

\* The error returns before that point; a directory made is removed again.
CreateRefuse(r) ==
  /\ pc[r] = "create"
  /\ mu = Nil
  /\ Return(r)
  /\ UNCHANGED <<managerVars, objectVars, diskVars>>

(***************************************************************************)
(* loadSpaces builds the space and Create enters it in the index; the      *)
(* handler goes on to Info without a StartOp.                              *)
(***************************************************************************)
CreateLoad(r) ==
  LET i == target[r] IN
  /\ pc[r] = "load"
  /\ conf' = [conf EXCEPT ![i] = disk[i]]
  /\ spaces' = spaces \cup {i}
  /\ names' = [names EXCEPT ![disk[i]] = i]
  /\ mu' = Nil
  /\ Goto(r, "info")
  /\ UNCHANGED <<kind, parent, confMu, pending, ops, diskVars>>

\* loadSpaces fails: Create returns the error and leaves the directory.
CreateLoadFail(r) ==
  /\ LoadFaults
  /\ pc[r] = "load"
  /\ orphans' = orphans \cup {target[r]}
  /\ mu' = Nil
  /\ Return(r)
  /\ UNCHANGED <<spaces, names, objectVars, disk, data>>

(***************************************************************************)
(* Manager.List holds spacesMu while it asks every space for its Info.     *)
(***************************************************************************)
List(r) ==
  /\ pc[r] = "list"
  /\ mu = Nil
  /\ \A i \in spaces : kind[i] # "file" => confMu[Owner(i)] = Nil
  /\ Return(r)
  /\ UNCHANGED <<managerVars, objectVars, diskVars>>

-----------------------------------------------------------------------------
(***************************************************************************)
(* Manager.Delete from the lock to guard.acquireForDelete's wg.Wait.  An   *)
(* archiveSpace waits with its confMu held.                                *)
(***************************************************************************)
DeleteLock(r) ==
  LET i == target[r] IN
  /\ pc[r] = "lock"
  /\ mu = Nil
  /\ confMu[Owner(i)] = Nil
  /\ conf[i] # Nil
  /\ kind[i] = "archive" => Children(i) = {}
  /\ ~Refused(i)
  /\ mu' = r
  /\ pending' = pending \cup {i}
  /\ confMu' = IF kind[i] = "archive" THEN [confMu EXCEPT ![i] = r] ELSE confMu
  /\ Goto(r, "wait")
  /\ UNCHANGED <<spaces, names, kind, parent, conf, ops, diskVars>>

\* The Conflict returns: an archive with subspaces, or a delete before this
\* one that has set deletePending.
DeleteConflict(r) ==
  LET i == target[r] IN
  /\ pc[r] = "lock"
  /\ mu = Nil
  /\ confMu[Owner(i)] = Nil
  /\ conf[i] # Nil
  /\ Refused(i) \/ (kind[i] = "archive" /\ Children(i) # {})
  /\ Return(r)
  /\ UNCHANGED <<managerVars, objectVars, diskVars>>

\* archiveSubspace.Name panics when the parent's config has no such entry;
\* the deferred unlocks run and the HTTP server recovers.
DeletePanic(r) ==
  LET i == target[r] IN
  /\ pc[r] = "lock"
  /\ mu = Nil
  /\ confMu[Owner(i)] = Nil
  /\ conf[i] = Nil
  /\ Goto(r, "panicked")
  /\ UNCHANGED <<managerVars, objectVars, diskVars>>

Recover(r) ==
  /\ pc[r] = "panicked"
  /\ Return(r)
  /\ UNCHANGED <<managerVars, objectVars, diskVars>>

\* wg.Wait returns.
DeleteWait(r) ==
  /\ pc[r] = "wait"
  /\ Quiesced(target[r])
  /\ Goto(r, "rmpath")
  /\ UNCHANGED <<managerVars, objectVars, diskVars>>

\* Delete's return: the index forgets the space, the locks are released.
UnregisterKeepingName(r) ==
  /\ spaces' = spaces \ {target[r]}
  /\ mu' = Nil
  /\ UnlockConf(r)
  /\ Return(r)
  /\ UNCHANGED names
Unregister(r) ==
  /\ spaces' = spaces \ {target[r]}
  /\ names' = [names EXCEPT ![conf[target[r]]] = Nil]
  /\ mu' = Nil
  /\ UnlockConf(r)
  /\ Return(r)

\* The first RemoveAll of a file or archive space: its path, which holds
\* config.json.
DeletePath(r) ==
  /\ pc[r] = "rmpath"
  /\ kind[target[r]] # "sub"
  /\ disk' = WithoutPath(target[r])
  /\ Goto(r, "rmdata")
  /\ UNCHANGED <<managerVars, objectVars, data, orphans>>

\* The second: the data directory.
DeleteData(r) ==
  /\ pc[r] = "rmdata"
  /\ data' = data \ {target[r]}
  /\ Unregister(r)
  /\ UNCHANGED <<kind, parent, conf, pending, ops, disk, orphans>>

\* A subspace only leaves its parent's config.
DeleteSub(r) ==
  LET i == target[r] IN
  /\ pc[r] = "rmpath"
  /\ kind[i] = "sub"
  /\ confMu[parent[i]] = Nil
  /\ SetConfig(i, Nil)
  /\ Unregister(r)
  /\ UNCHANGED <<kind, parent, pending, ops, data, orphans>>

(***************************************************************************)
(* A RemoveAll or, for a subspace, the write of the parent's config fails: *)
(* Delete returns the error.  The space stays in the index with            *)
(* deletePending set; RemoveAll may have removed part of its directory.    *)
(***************************************************************************)
DeleteFail(r) ==
  LET i == target[r] IN
  /\ IOFaults
  /\ pc[r] \in {"rmpath", "rmdata"}
  /\ IF kind[i] = "sub"
       THEN UNCHANGED <<disk, data>>
       ELSE /\ disk' \in {disk, WithoutPath(i)}
            /\ data' \in {data, data \ {i}}
  /\ mu' = Nil
  /\ UnlockConf(r)
  /\ Return(r)
  /\ UNCHANGED <<spaces, names, kind, parent, conf, pending, ops, orphans>>

-----------------------------------------------------------------------------
(***************************************************************************)
(* The daemon dies and NewManager builds the index from the config files.  *)
(* Where two of them carry one name, the one read last keeps it.           *)
(***************************************************************************)
CrashRestart ==
  /\ Crashes
  /\ mu' = Nil
  /\ spaces' = {i \in Ids : disk[i] # Nil}
  /\ names' \in [Names -> Ids \cup {Nil}]
  /\ \A n \in Names :
       IF \E i \in Ids : disk[i] = n
         THEN names'[n] \in {i \in Ids : disk[i] = n}
         ELSE names'[n] = Nil
  /\ conf' = disk
  /\ confMu' = [i \in Ids |-> Nil]
  /\ pending' = {}
  /\ ops' = [i \in Ids |-> {}]
  /\ pc' = [r \in Reqs |-> "idle"]
  /\ op' = [r \in Reqs |-> "list"]
  /\ target' = [r \in Reqs |-> Nil]
  /\ UNCHANGED <<kind, parent, diskVars>>

Request(r) ==
  \/ Arrive(r) \/ Get(r) \/ StartOp(r) \/ Work(r) \/ Info(r) \/ Finish(r)
  \/ UpdateSpace(r) \/ Refuse(r) \/ CreateSubspace(r)
  \/ CreateWrite(r) \/ CreateRefuse(r) \/ CreateLoad(r) \/ CreateLoadFail(r)
  \/ List(r)
  \/ DeleteLock(r) \/ DeleteConflict(r) \/ DeletePanic(r) \/ Recover(r)
  \/ DeleteWait(r) \/ DeletePath(r) \/ DeleteData(r) \/ DeleteSub(r)
  \/ DeleteFail(r)

Next == (\E r \in Reqs : Request(r)) \/ CrashRestart

Spec == Init /\ [][Next]_vars

(***************************************************************************)
(* Fairness of the scheduler: a goroutine that can run infinitely often    *)
(* does.  Strong fairness is what Go's sync.Mutex gives a waiter: after    *)
(* 1ms it is in starvation mode and the next Unlock hands it the lock.     *)
(***************************************************************************)
Advance(r) == Request(r) /\ pc[r] # "idle"

FairSpec == Spec /\ \A r \in Reqs : SF_vars(Advance(r))

-----------------------------------------------------------------------------
\* The type invariant of the manager, its spaces and the requests.
TypeOK ==
  /\ mu \in Reqs \cup {Nil}
  /\ spaces \subseteq Ids
  /\ names \in [Names -> Ids \cup {Nil}]
  /\ kind \in [Ids -> Kinds]
  /\ parent \in [Ids -> Ids \cup {Nil}]
  /\ conf \in [Ids -> Names \cup {Nil}]
  /\ confMu \in [Ids -> Reqs \cup {Nil}]
  /\ pending \subseteq Ids
  /\ ops \in [Ids -> SUBSET Reqs]
  /\ disk \in [Ids -> Names \cup {Nil}]
  /\ {data, orphans} \subseteq SUBSET Ids
  /\ pc \in [Reqs -> PCs]
  /\ op \in [Reqs -> AllOps]
  /\ target \in [Reqs -> Ids \cup {Nil}]

NamesMatch ==
  /\ \A n \in Names : names[n] # Nil => names[n] \in spaces /\ conf[names[n]] = n
  /\ \A i \in spaces : conf[i] # Nil /\ names[conf[i]] = i

\* The two indexes of Manager are inverse to each other: every space of the
\* daemon is found under the name its config carries and every name leads to
\* a space that carries it, whatever creates, renames, deletes, failures and
\* restarts came before (validateName and the order of UpdateSpace's and
\* Delete's writes to Manager.names).  In particular no two spaces have one
\* name.  It lasts until a Create fails to load what it wrote (manager.go:121):
\* the config.json that stays carries a name the next Create may take too.
IndexExact == orphans = {} => NamesMatch

ConfigsMatch ==
  /\ \A i \in spaces \ pending : disk[i] = conf[i]
  /\ \A i \in Ids : disk[i] # Nil =>
       \/ i \in spaces
       \/ \E r \in Reqs : pc[r] = "load" /\ target[r] = i

\* What a restart would find is what the daemon serves: config.json of every
\* space that no delete has touched says what its config in memory says, and
\* there is no config.json of a space the daemon does not know, but for the
\* one a Create is about to load, again until a Create fails to load.
DiskMatchesMemory == orphans = {} => ConfigsMatch

\* While an operation is registered with a space (StartOp) nobody removes
\* what it works on: the config and data of the space and, for a subspace,
\* of its parent.  This is what guard is for.
NothingRemovedUnderOp ==
  [][\A i \in Ids : ops[i] # {} =>
       \A j \in Relies(i) :
         /\ disk[j] # Nil => disk'[j] # Nil
         /\ j \in data => j \in data']_vars

\* A space whose config was removed never comes back: a rename or a delete of
\* another space that was under way when it was removed does not write its
\* config again.
NoResurrection ==
  [][\A i \in Ids : kind[i] # "none" /\ disk[i] = Nil => disk'[i] = Nil]_vars

\* What a client sees: the names of the spaces in Manager.spaces, and the ids
\* of those that are gone for good.
Listing == [i \in Ids |-> IF i \in spaces THEN conf[i] ELSE Nil]
Gone == {i \in Ids : kind[i] # "none" /\ i \notin spaces /\ disk[i] = Nil}

Catalog == INSTANCE SpaceCatalog WITH catalog <- Listing, gone <- Gone

\* SpaceManager implements SpaceCatalog as long as every Create loads what it
\* wrote: to its clients the daemon with its locks, config files and crashes is
\* an atomic catalog of distinct names.
ImplementsCatalog ==
  /\ Catalog!CatalogInit
  /\ [][orphans' = {} => Catalog!CatalogNext]_<<Listing, Gone>>

\* A delete that waits, with the locks it holds, for a registered request that
\* waits for one of them: a rename or a CreateSubspace for spacesMu, Info of an
\* archive for its confMu.
Deadlocked ==
  \E r, q \in Reqs :
    /\ pc[r] = "wait"
    /\ q \in ops[target[r]]
    /\ \/ pc[q] = "run" /\ op[q] # "work"
       \/ pc[q] = "info" /\ kind[target[q]] # "file" /\ confMu[Owner(target[q])] = r

\* A request that none of the locks and none of the operations it has to wait
\* for keeps from its next step.
Ready(r) ==
  LET i == target[r]
      ConfFree(j) == kind[j] # "file" => confMu[Owner(j)] = Nil
  IN \/ pc[r] \in {"start", "finish", "load", "rmdata", "panicked"}
     \/ pc[r] \in {"get", "create"} /\ mu = Nil
     \/ pc[r] = "run" /\ (op[r] = "work" \/ mu = Nil)
     \/ pc[r] = "info" /\ ConfFree(i)
     \/ pc[r] = "list" /\ mu = Nil /\ \A j \in spaces : ConfFree(j)
     \/ pc[r] = "lock" /\ mu = Nil /\ confMu[Owner(i)] = Nil
     \/ pc[r] = "wait" /\ ops[i] = {}
     \/ pc[r] = "rmpath" /\ (kind[i] = "sub" => confMu[parent[i]] = Nil)

\* Nobody waits for everybody: while requests are under way one of them can go
\* on, unless a delete is deadlocked.  A request has finitely many steps, so all
\* get their responses: a delete outlives the work it cancelled, and whatever
\* fails, no lock stays taken.
SomebodyGoesOn ==
  (\E r \in Reqs : pc[r] # "idle") /\ ~Deadlocked => \E r \in Reqs : Ready(r)

\* "Delete cancels any outstanding operations, then removes the space's path
\* and data dir" (zqd/space/space.go:41): a delete that waits for the
\* operations in progress gets past them.
DeleteGetsPastOps == \A r \in Reqs : pc[r] = "wait" ~> pc[r] # "wait"
=============================================================================
