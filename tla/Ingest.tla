------------------------------- MODULE Ingest -------------------------------
(***************************************************************************)
(* Posts of logs and pcaps into one file space: the handlers of            *)
(* zqd/handlers.go, LogOp and PcapOp of zqd/ingest, the file store         *)
(* (zqd/storage/filestore) and the pcap store (zqd/pcapstorage).           *)
(*                                                                         *)
(* A post has two goroutines: the handler, which is registered with the    *)
(* space's guard and streams warnings and the result to the client, and    *)
(* the goroutine of the operation, which writes.  A log's warnings go from *)
(* one to the other over a buffered channel.  The data of a post are two   *)
(* records; a pcap's first snapshot holds only the first.  A time span is  *)
(* abstracted to the records it was extended over.                         *)
(***************************************************************************)
EXTENDS Naturals, FiniteSets

CONSTANTS
  LogPosts, PcapPosts,   \* posts; each is made at most once
  Untimed,      \* the posts without a record that has a ts: logs that carry
                \* none, pcaps the analyzers write no log for
  Nil,
  ChanCap,      \* the capacity of LogOp.warningCh (5 in the code)
  MaxWarn,      \* how many warnings a post raises at most
  Leavers,      \* the posts whose client may go away
  Deletes,      \* whether the space may be deleted
  IOFaults,     \* whether the file system may fail
  Crashes       \* whether the daemon may crash and be restarted

Posts == LogPosts \cup PcapPosts

ASSUME PostAssumption ==
  LogPosts \cap PcapPosts = {} /\ Untimed \subseteq Posts /\ Nil \notin Posts
ASSUME ChannelAssumption == ChanCap \in Nat \ {0} /\ MaxWarn \in Nat

VARIABLES
  hpc,         \* the handler of each post
  opc,         \* the goroutine of its operation
  opErr,       \* LogOp.err, PcapOp.err
  client,      \* the clients that are still there
  registered,  \* the posts counted in the space's guard
  deleting,    \* delete of the space: "no", "pending", "removed"
  toWarn,      \* opening warnings LogOp.start has still to send
  ch,          \* how many warnings wait in LogOp.warningCh
  raised, delivered,  \* warnings of a post so far, and those the client has
  slurped,     \* PcapOp: the analyzers are "running", "ok" or "failed"
  last,        \* the pcap posts that are in their last snapshot
  content,     \* what the write of a post under way will install
  wsem,        \* filestore.Storage.wsem
  file,        \* the records of all.zng
  span, info,  \* Storage.span and info.json
  meta,        \* pcapstorage.Store.meta, the post whose pcap it names
  pcapJson,    \* pcap.json, the same on disk
  kept,        \* what aborts failed to remove: pairs of a post and a part
  installed,   \* the posts of which all.zng has had all records
  torn,        \* a fault has left all.zng and info.json out of step
  ended        \* the TaskEnd each client received

postVars == <<hpc, opc, opErr, client, ended>>
warnVars == <<toWarn, ch, raised, delivered>>
guardVars == <<registered, deleting>>
storeVars == <<wsem, file, span, info, installed, torn>>
vars == <<hpc, opc, opErr, client, ended, toWarn, ch, raised, delivered,
          registered, deleting, wsem, file, span, info, installed, torn,
          slurped, last, content, meta, pcapJson, kept>>
pcapVars == <<slurped, last>>
metaVars == <<meta, pcapJson, kept>>

Records(o) == IF o \in Untimed THEN {} ELSE {o} \X {1, 2}
FirstOf(o) == {<<o, 1>>}

\* The context of the operation is done: the client left, a delete cancels
\* (guard.cancelChan), or the handler returned.
Canceled(o) == o \notin client \/ deleting # "no" \/ o \notin registered

Init ==
  /\ hpc = [o \in Posts |-> "new"]
  /\ opc = [o \in Posts |-> "off"]
  /\ opErr = [o \in Posts |-> "none"]
  /\ client = Posts
  /\ ended = [o \in Posts |-> "none"]
  /\ toWarn = [o \in Posts |-> 0]
  /\ ch = [o \in Posts |-> 0]
  /\ raised = [o \in Posts |-> 0]
  /\ delivered = [o \in Posts |-> 0]
  /\ registered = {}
  /\ deleting = "no"
  /\ wsem = Nil
  /\ file = {}
  /\ span = {}
  /\ info = {}
  /\ installed = {}
  /\ torn = FALSE
  /\ slurped = [o \in Posts |-> "running"]
  /\ last = {}
  /\ content = [o \in Posts |-> {}]
  /\ meta = Nil
  /\ pcapJson = Nil
  /\ kept = {}

\* The send on LogOp.warningCh does not block.
HasRoom(o) == ch[o] < ChanCap

OpGoto(o, l) == opc' = [opc EXCEPT ![o] = l]

-----------------------------------------------------------------------------
(***************************************************************************)
(* The handlers: handleLogPost and handlePcapPost.                         *)
(***************************************************************************)
\* The deferred cancel: the registration ends with the handler.
Leave(o) ==
  /\ hpc' = [hpc EXCEPT ![o] = "returned"]
  /\ registered' = registered \ {o}

\* StartOp, then NewLogOp: files that cannot be opened become warnings.
PostLog(o) ==
  /\ o \in LogPosts
  /\ hpc[o] = "new" /\ deleting = "no"
  /\ hpc' = [hpc EXCEPT ![o] = "loop"]
  /\ registered' = registered \cup {o}
  /\ \E w \in 0..MaxWarn :
       /\ toWarn' = [toWarn EXCEPT ![o] = w]
       /\ raised' = [raised EXCEPT ![o] = w]
  /\ OpGoto(o, "warn")
  /\ UNCHANGED <<opErr, client, ended, ch, delivered, deleting, storeVars,
                 pcapVars, content, metaVars>>

PostPcap(o) ==
  /\ o \in PcapPosts
  /\ hpc[o] = "new" /\ deleting = "no"
  /\ hpc' = [hpc EXCEPT ![o] = "update"]
  /\ registered' = registered \cup {o}
  /\ UNCHANGED <<opc, opErr, client, ended, warnVars, deleting, storeVars,
                 pcapVars, content, metaVars>>

\* pcapstore.Update: pcap.json, then the memory.
Replace(o) ==
  /\ pcapJson' = o
  /\ meta' = o
  /\ UNCHANGED kept

\* NewPcapOp: Update, then the operation starts.
UpdatePcap(o) ==
  /\ hpc[o] = "update"
  /\ Replace(o)
  /\ hpc' = [hpc EXCEPT ![o] = "loop"]
  /\ OpGoto(o, "slurp")
  /\ UNCHANGED <<opErr, client, ended, warnVars, guardVars, storeVars, pcapVars,
                 content>>

\* An error response: StartOp refuses (ErrSpaceNotExist), a bad request, a log
\* that is no file, a pcap that is none.
Refuse(o) ==
  /\ hpc[o] \in {"new", "update"}
  /\ Leave(o)
  /\ UNCHANGED <<opc, opErr, client, ended, warnVars, deleting, storeVars,
                 pcapVars, content, metaVars>>

\* TempDir fails after Update.
RefuseUpdated(o) ==
  /\ IOFaults
  /\ hpc[o] = "update"
  /\ Replace(o)
  /\ Leave(o)
  /\ UNCHANGED <<opc, opErr, client, ended, warnVars, deleting, storeVars,
                 pcapVars, content>>

\* A warning from the channel to the client.
ForwardWarning(o) ==
  /\ hpc[o] = "loop" /\ ch[o] > 0
  /\ o \in client
  /\ ch' = [ch EXCEPT ![o] = @ - 1]
  /\ delivered' = [delivered EXCEPT ![o] = @ + 1]
  /\ UNCHANGED <<postVars, toWarn, raised, guardVars, storeVars, pcapVars,
                 content, metaVars>>

\* Any Send to a client that left fails (the ticker sends every second or
\* two), after the warning it was to send was received.
SendFails(o) ==
  /\ hpc[o] = "loop" /\ o \notin client
  /\ \/ ch[o] > 0 /\ ch' = [ch EXCEPT ![o] = @ - 1]
     \/ UNCHANGED ch
  /\ Leave(o)
  /\ UNCHANGED <<opc, opErr, client, ended, toWarn, raised, delivered, deleting,
                 storeVars, pcapVars, content, metaVars>>

\* The operation is over: a log's channel is closed and empty, a pcap's done
\* channel is closed.  The client is sent TaskEnd with the error, if any.
NotEmptied(o) == opc[o] = "closed"
OpOver(o) == opc[o] = "closed" /\ ch[o] = 0

NoResult(o) == "ok"
Result(o) ==
  IF opErr[o] # "none" \/ (o \in PcapPosts /\ Canceled(o)) THEN "error" ELSE "ok"

SendEnd(o) ==
  /\ hpc[o] = "loop" /\ o \in client
  /\ OpOver(o)
  /\ ended' = [ended EXCEPT ![o] = Result(o)]
  /\ Leave(o)
  /\ UNCHANGED <<opc, opErr, client, warnVars, deleting, storeVars, pcapVars,
                 content, metaVars>>

ClientLeaves(o) ==
  /\ o \in Leavers
  /\ o \in client /\ hpc[o] \in {"update", "loop"}
  /\ client' = client \ {o}
  /\ UNCHANGED <<hpc, opc, opErr, ended, warnVars, guardVars, storeVars, pcapVars,
                 content, metaVars>>

-----------------------------------------------------------------------------
(***************************************************************************)
(* LogOp.start up to store.Write.                                          *)
(***************************************************************************)
SendOpenWarning(o) ==
  /\ opc[o] = "warn"
  /\ toWarn[o] > 0 /\ HasRoom(o)
  /\ toWarn' = [toWarn EXCEPT ![o] = @ - 1]
  /\ ch' = [ch EXCEPT ![o] = @ + 1]
  /\ UNCHANGED <<postVars, raised, delivered, guardVars, storeVars, pcapVars,
                 content, metaVars>>

StartWrite(o) ==
  /\ opc[o] = "warn" /\ toWarn[o] = 0
  /\ content' = [content EXCEPT ![o] = Records(o)]
  /\ OpGoto(o, "acquire")
  /\ UNCHANGED <<hpc, opErr, client, ended, warnVars, guardVars, storeVars,
                 pcapVars, metaVars>>

\* start's end: closeFiles, close(warningCh).
CloseLog(o) ==
  /\ opc[o] = "close"
  /\ OpGoto(o, "closed")
  /\ UNCHANGED <<hpc, opErr, client, ended, warnVars, guardVars, storeVars,
                 pcapVars, content, metaVars>>

(***************************************************************************)
(* PcapOp.run: snapshots while the analyzers run, and one when they end.   *)
(***************************************************************************)
\* Zeek and Suricata end (external); a canceled context kills them.
AnalyzersEnd(o) ==
  /\ o \in PcapPosts
  /\ opc[o] # "off" /\ slurped[o] = "running"
  /\ \E s \in {"ok", "failed"} : slurped' = [slurped EXCEPT ![o] = s]
  /\ UNCHANGED <<postVars, warnVars, guardVars, storeVars, last, content, metaVars>>

\* A tick: createSnapshot with the log files there are, if any.
Tick(o) ==
  /\ opc[o] = "slurp"
  /\ Records(o) # {}
  /\ content' = [content EXCEPT ![o] =
                   IF slurped[o] = "ok" THEN Records(o) ELSE FirstOf(o)]
  /\ OpGoto(o, "acquire")
  /\ UNCHANGED <<hpc, opErr, client, ended, warnVars, guardVars, storeVars,
                 pcapVars, metaVars>>

\* slurpDone: the last snapshot, or abort.
SlurpDone(o) ==
  /\ opc[o] = "slurp"
  /\ \/ /\ slurped[o] = "ok"
        /\ content' = [content EXCEPT ![o] = Records(o)]
        /\ last' = last \cup {o}
        /\ OpGoto(o, IF Records(o) = {} THEN "cleanup" ELSE "acquire")
        /\ UNCHANGED opErr
     \/ /\ slurped[o] = "failed"
        /\ opErr' = [opErr EXCEPT ![o] = "failed"]
        /\ OpGoto(o, "abort")
        /\ UNCHANGED <<content, last>>
  /\ UNCHANGED <<hpc, client, ended, warnVars, guardVars, storeVars, slurped,
                 metaVars>>

\* os.RemoveAll(logdir) fails after the last snapshot.
CleanupFails(o) ==
  /\ IOFaults
  /\ opc[o] = "cleanup"
  /\ opErr' = [opErr EXCEPT ![o] = "failed"]
  /\ OpGoto(o, "abort")
  /\ UNCHANGED <<hpc, client, ended, warnVars, guardVars, storeVars, pcapVars,
                 content, metaVars>>

Cleanup(o) ==
  /\ opc[o] = "cleanup"
  /\ OpGoto(o, "closed")
  /\ UNCHANGED <<hpc, opErr, client, ended, warnVars, guardVars, storeVars,
                 pcapVars, content, metaVars>>

\* abort: pcapstore.Delete, whose error nobody looks at: the memory forgets the
\* pcap also when pcap.json stays ...
AbortMeta(o) ==
  /\ opc[o] = "abort"
  /\ meta' = Nil
  /\ \/ pcapJson' = Nil /\ UNCHANGED kept
     \/ /\ IOFaults /\ pcapJson # Nil
        /\ kept' = kept \cup {<<o, "pcap.json">>}
        /\ UNCHANGED pcapJson
  /\ OpGoto(o, "clear")
  /\ UNCHANGED <<hpc, opErr, client, ended, warnVars, guardVars, storeVars,
                 pcapVars, content>>

\* ... and filestore.Clear, which waits for the semaphore with a context that
\* nobody cancels.
InfoOnly ==
  /\ info' = {}
  /\ UNCHANGED file
EmptyStore ==
  /\ file' = {}
  /\ info' = {}

Clear(o) ==
  /\ opc[o] = "clear"
  /\ wsem = Nil
  /\ EmptyStore
  /\ span' = {}
  /\ torn' = FALSE
  /\ OpGoto(o, "closed")
  /\ UNCHANGED <<hpc, opErr, client, ended, warnVars, guardVars, wsem, installed,
                 pcapVars, content, metaVars>>

\* Clear fails, at all.zng or at info.json.  abort drops this error too.
ClearFails(o) ==
  /\ IOFaults
  /\ opc[o] = "clear"
  /\ wsem = Nil
  /\ \/ kept' = kept \cup {<<o, "all.zng">>} /\ UNCHANGED <<file, span, torn>>
     \/ file' = {} /\ span' = {} /\ torn' = TRUE /\ UNCHANGED kept
  /\ OpGoto(o, "closed")
  /\ UNCHANGED <<hpc, opErr, client, ended, warnVars, guardVars, wsem, info,
                 installed, pcapVars, content, meta, pcapJson>>

-----------------------------------------------------------------------------
(***************************************************************************)
(* filestore.Storage.Write.                                                *)
(***************************************************************************)
Writing(o) == opc[o] \in {"copy", "send", "install", "span"}

\* Where the operation goes after a Write that succeeded or failed.
AfterWrite(o) ==
  IF o \in LogPosts THEN "close"
  ELSE IF o \in last THEN "cleanup" ELSE "slurp"
AfterError(o) == IF o \in LogPosts THEN "close" ELSE "abort"

\* The semaphore: TryAcquire's success, and the deferred Release.
AnyTime == TRUE
FreeSem == wsem = Nil
StayLocked == wsem
Unlock == Nil

TryAcquire(o) ==
  /\ opc[o] = "acquire"
  /\ FreeSem
  /\ wsem' = o
  /\ OpGoto(o, "copy")
  /\ UNCHANGED <<hpc, opErr, client, ended, warnVars, guardVars, file, span,
                 info, installed, torn, pcapVars, content, metaVars>>

\* ErrWriteInProgress: another write, or a Clear that is waiting (TryAcquire
\* does not overtake a waiter).
Conflict(o) ==
  /\ opc[o] = "acquire"
  /\ wsem # Nil \/ \E p \in Posts : opc[p] = "clear"
  /\ opErr' = [opErr EXCEPT ![o] = "conflict"]
  /\ OpGoto(o, AfterError(o))
  /\ UNCHANGED <<hpc, client, ended, warnVars, guardVars, storeVars, pcapVars,
                 content, metaVars>>

\* A reader of a log fails: WarningReader sends the error and ends the log.
ReadWarning(o) ==
  /\ opc[o] = "copy" /\ o \in LogPosts
  /\ raised[o] < MaxWarn
  /\ raised' = [raised EXCEPT ![o] = @ + 1]
  /\ OpGoto(o, "send")
  /\ UNCHANGED <<hpc, opErr, client, ended, toWarn, ch, delivered, guardVars,
                 storeVars, pcapVars, content, metaVars>>

SendReadWarning(o) ==
  /\ opc[o] = "send"
  /\ HasRoom(o)
  /\ ch' = [ch EXCEPT ![o] = @ + 1]
  /\ OpGoto(o, "copy")
  /\ UNCHANGED <<hpc, opErr, client, ended, toWarn, raised, delivered, guardVars,
                 storeVars, pcapVars, content, metaVars>>

\* driver.Copy has written everything to the temporary file.
Copied(o) ==
  /\ opc[o] = "copy"
  /\ OpGoto(o, "install")
  /\ UNCHANGED <<hpc, opErr, client, ended, warnVars, guardVars, storeVars,
                 pcapVars, content, metaVars>>

\* ReplaceFile does not make the directory it renames the file in.
DirExists == deleting # "removed"

\* driver.Copy fails, canceled (the scanner looks at the context before every
\* record) or by a fault, and the temporary file is removed; or the rename
\* fails, as it does when the directory is gone.
WriteFails(o) ==
  /\ \/ opc[o] = "copy" /\ (Canceled(o) \/ IOFaults)
     \/ opc[o] = "install" /\ (~DirExists \/ IOFaults)
  /\ opErr' = [opErr EXCEPT ![o] = "failed"]
  /\ wsem' = Unlock
  /\ OpGoto(o, AfterError(o))
  /\ UNCHANGED <<hpc, client, ended, warnVars, guardVars, file, span, info,
                 installed, torn, pcapVars, content, metaVars>>

\* The rename.  Without a record that has a ts there is no span to extend.
Install(o) ==
  /\ opc[o] = "install" /\ DirExists
  /\ file' = content[o]
  /\ installed' = IF content[o] = Records(o) THEN installed \cup {o} ELSE installed
  /\ IF content[o] = {}
       THEN wsem' = Unlock /\ OpGoto(o, AfterWrite(o))
       ELSE UNCHANGED wsem /\ OpGoto(o, "span")
  /\ UNCHANGED <<hpc, opErr, client, ended, warnVars, guardVars, span, info, torn,
                 pcapVars, content, metaVars>>

\* extendSpan and syncInfoFile.
NotExtended(o) == span
Extended(o) == span \cup content[o]

ExtendSpan(o) ==
  /\ opc[o] = "span" /\ DirExists
  /\ span' = Extended(o)
  /\ info' = Extended(o)
  /\ torn' = FALSE
  /\ wsem' = Unlock
  /\ OpGoto(o, AfterWrite(o))
  /\ UNCHANGED <<hpc, opErr, client, ended, warnVars, guardVars, file, installed,
                 pcapVars, content, metaVars>>

\* syncInfoFile fails: the span in memory is extended all the same.
ExtendFails(o) ==
  /\ opc[o] = "span"
  /\ ~DirExists \/ IOFaults
  /\ span' = Extended(o)
  /\ torn' = TRUE
  /\ opErr' = [opErr EXCEPT ![o] = "failed"]
  /\ wsem' = Unlock
  /\ OpGoto(o, AfterError(o))
  /\ UNCHANGED <<hpc, client, ended, warnVars, guardVars, file, info, installed,
                 pcapVars, content, metaVars>>

-----------------------------------------------------------------------------
\* fileSpace.delete: cancel, wait for the registered operations, remove.
DeleteStart ==
  /\ Deletes
  /\ deleting = "no"
  /\ deleting' = "pending"
  /\ UNCHANGED <<postVars, warnVars, registered, storeVars, pcapVars, content,
                 metaVars>>

DeleteRemove ==
  /\ deleting = "pending"
  /\ registered = {}
  /\ deleting' = "removed"
  /\ file' = {}
  /\ info' = {}
  /\ meta' = Nil
  /\ pcapJson' = Nil
  /\ kept' = {}
  /\ UNCHANGED <<postVars, warnVars, registered, wsem, span, installed, torn,
                 pcapVars, content>>

\* The daemon dies and loads the space again (readInfoFile, and
\* Load of the pcap store).
CrashRestart ==
  /\ Crashes
  /\ deleting # "removed"
  /\ hpc' = [o \in Posts |-> IF hpc[o] = "new" THEN "new" ELSE "returned"]
  /\ opc' = [o \in Posts |-> "off"]
  /\ client' = {o \in client : hpc[o] = "new"}
  /\ toWarn' = [o \in Posts |-> 0]
  /\ ch' = [o \in Posts |-> 0]
  /\ registered' = {}
  /\ deleting' = "no"
  /\ wsem' = Nil
  /\ span' = info
  /\ torn' = (torn \/ \E o \in Posts : opc[o] = "span")
  /\ opErr' = [o \in Posts |-> "none"]
  /\ raised' = [o \in Posts |-> 0]
  /\ delivered' = [o \in Posts |-> 0]
  /\ slurped' = [o \in Posts |-> "running"]
  /\ last' = {}
  /\ content' = [o \in Posts |-> {}]
  /\ ended' = [o \in Posts |-> "none"]
  /\ installed' = {}
  /\ meta' = pcapJson
  /\ kept' = {}
  /\ UNCHANGED <<file, info, pcapJson>>

Handler(o) ==
  \/ UpdatePcap(o) \/ RefuseUpdated(o) \/ ForwardWarning(o) \/ SendFails(o)
  \/ SendEnd(o)
LogStep(o) == SendOpenWarning(o) \/ StartWrite(o) \/ CloseLog(o)
PcapStep(o) ==
  \/ Tick(o) \/ SlurpDone(o) \/ CleanupFails(o) \/ Cleanup(o) \/ AbortMeta(o)
  \/ Clear(o) \/ ClearFails(o)
WriteStep(o) ==
  \/ TryAcquire(o) \/ Conflict(o) \/ ReadWarning(o) \/ SendReadWarning(o)
  \/ Copied(o) \/ WriteFails(o) \/ Install(o) \/ ExtendSpan(o) \/ ExtendFails(o)

\* The goroutine of an operation.
OpStep(o) == LogStep(o) \/ PcapStep(o) \/ WriteStep(o)

Quit ==
  /\ \A o \in Posts : hpc[o] = "returned"
  /\ UNCHANGED vars

Next ==
  \/ \E o \in Posts :
       \/ PostLog(o) \/ PostPcap(o) \/ Refuse(o) \/ Handler(o) \/ ClientLeaves(o)
       \/ OpStep(o) \/ AnalyzersEnd(o)
  \/ DeleteStart \/ DeleteRemove \/ CrashRestart \/ Quit

Spec == Init /\ [][Next]_vars

(***************************************************************************)
(* Goroutines run when they can and the analyzers end.  Strong fairness:   *)
(* the semaphore serves its waiters in order (Clear), a tick comes seconds *)
(* apart while slurpDone stays ready, and a log does not warn for ever.    *)
(***************************************************************************)
FairSpec ==
  /\ Spec
  /\ \A o \in Posts : WF_vars(Handler(o)) /\ WF_vars(OpStep(o))
  /\ \A o \in PcapPosts :
       WF_vars(AnalyzersEnd(o)) /\ SF_vars(SlurpDone(o)) /\ SF_vars(Clear(o) \/ ClearFails(o))
  /\ WF_vars(DeleteRemove)

-----------------------------------------------------------------------------
HandlerPCs == {"new", "update", "loop", "returned"}
OpPCs == {"off", "warn", "slurp", "acquire", "copy", "send",
          "install", "span", "close", "cleanup", "abort", "clear", "closed"}
Errs == {"none", "conflict", "failed"}

\* The type invariant of the posts and the stores.
TypeOK ==
  /\ hpc \in [Posts -> HandlerPCs]
  /\ opc \in [Posts -> OpPCs]
  /\ opErr \in [Posts -> Errs]
  /\ client \subseteq Posts
  /\ ended \in [Posts -> {"none", "ok", "error"}]
  /\ ch \in [Posts -> 0..ChanCap]
  /\ toWarn \in [Posts -> 0..MaxWarn]
  /\ raised \in [Posts -> 0..MaxWarn]
  /\ delivered \in [Posts -> 0..MaxWarn]
  /\ registered \subseteq Posts
  /\ deleting \in {"no", "pending", "removed"}
  /\ wsem \in Posts \cup {Nil}
  /\ {file, span, info} \subseteq SUBSET (Posts \X {1, 2})
  /\ installed \subseteq Posts
  /\ torn \in BOOLEAN
  /\ slurped \in [Posts -> {"running", "ok", "failed"}]
  /\ last \subseteq PcapPosts
  /\ content \in [Posts -> SUBSET (Posts \X {1, 2})]
  /\ {meta, pcapJson} \subseteq PcapPosts \cup {Nil}
  /\ kept \subseteq PcapPosts \X {"pcap.json", "all.zng"}

\* The semaphore is held by exactly the operation that is in Write: whatever
\* way a write ends (done, refused, canceled, failed), the next one can start.
OneWriter == TypeOK /\ \A o \in Posts : Writing(o) <=> wsem = o

\* What the client is told is true: after a TaskEnd without an error all the
\* records of the post have been all.zng, and every warning had been sent to
\* the client before.  A write that was refused (ErrWriteInProgress) has left
\* no trace of a log.
ReportIsTrue ==
  \A o \in Posts :
    /\ ended[o] = "ok" => /\ o \in installed \/ Records(o) = {}
                          /\ delivered[o] = raised[o]
    /\ opErr[o] = "conflict" /\ o \in LogPosts \ Untimed =>
         o \notin installed

\* Between writes the span the space reports covers the data it has, and a
\* restart would find the same span, unless a fault or a crash hit between
\* the rename of all.zng and the write of info.json; the next write repairs
\* that.
SpanCoversData ==
  wsem = Nil /\ ~torn /\ deleting # "removed" => file \subseteq span /\ span = info

\* A pcap post that fails takes back what it stored: after its abort the store
\* does not name its pcap, and pcap.json and all.zng are not its, unless the
\* file system refused to remove that very part.
AbortUndoes ==
  \A o \in PcapPosts :
    opc[o] = "closed" /\ opErr[o] # "none" =>
      /\ meta # o
      /\ pcapJson = o => <<o, "pcap.json">> \in kept
      /\ file \cap Records(o) # {} => <<o, "all.zng">> \in kept

\* A restart loads the pcap the space had, but for a pcap.json that an abort
\* failed to remove: that one comes back.
PcapSurvives ==
  deleting # "removed" =>
    meta = pcapJson \/ (meta = Nil /\ \E o \in PcapPosts : <<o, "pcap.json">> \in kept)

\* A write that outlives its handler does not bring back a file of a space
\* whose directory was removed.
NothingAfterDelete == deleting = "removed" => file = {} /\ info = {} /\ pcapJson = Nil

\* Neither a post that failed nor one that outlived the delete of its space
\* leaves anything behind, in memory or on disk.
NothingLeftBehind == AbortUndoes /\ PcapSurvives /\ NothingAfterDelete

\* A log waits for room in a channel that nobody reads any more, in start or,
\* with the semaphore, in WarningReader.Read: neither looks at the context.
Stuck(o) ==
  /\ opc[o] = "send" \/ (opc[o] = "warn" /\ toWarn[o] > 0)
  /\ ~HasRoom(o)
  /\ hpc[o] = "returned"

\* The stuck writer, and the abort that waits for its semaphore.
Held(o) == Stuck(o) \/ (opc[o] = "clear" /\ wsem # Nil /\ Stuck(wsem))

\* Nothing goes on any more: every post has ended, its handler and its
\* operation, no delete waits and the store is not locked, but for what a
\* stuck log holds up.
AtRest ==
  /\ \A o \in Posts :
       hpc[o] \in {"update", "loop"} \/ opc[o] \notin {"off", "closed"} => Held(o)
  /\ deleting = "pending" => \E o \in registered : Held(o)
  /\ wsem # Nil => Stuck(wsem)

\* Whatever fails and whoever leaves, posts come to rest: every post that was
\* accepted gets its end, an abort outlasts the write it waits for, a delete
\* waits for no post for ever, and a store that is locked is unlocked again.
PostsEnd == []<>AtRest

\* "Any error encountered is sent to ch, and then a nil *zng.Record and nil
\* error are returned" (zbuf/warning.go:14): a Read that met an error returns.
WarningReadReturns == \A o \in Posts : opc[o] = "send" ~> opc[o] # "send"
=============================================================================
