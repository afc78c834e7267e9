----------------------------- MODULE Flowgraph ------------------------------
(***************************************************************************)
(* The end of a flowgraph and the driver that runs it: the branches of a   *)
(* parallel proc joined by proc/merge, the head procs after it, the mux of *)
(* driver/mux.go and runMux of driver/driver.go.                           *)
(*                                                                         *)
(* Goroutines: one runner per merge parent, one mux goroutine that pulls   *)
(* the heads, which pull the merge, and the driver.  merge's channel is    *)
(* unbuffered, the mux's holds one result (one tail).  A record is         *)
(* abstracted to a count: a batch is the number of its records.            *)
(***************************************************************************)
EXTENDS Naturals, Sequences, SequencesExt, FiniteSetsExt

CONSTANTS
  Parents,      \* the branches the merge joins
  Supply,       \* how many batches a branch can return
  Sizes,        \* the sizes a batch can have
  Limits,       \* the limits of the head procs, the most upstream one first
  WarnMax,      \* how many warnings the procs send at most
  Errors,       \* whether a branch may fail
  Cancels,      \* whether the caller may cancel the context
  WriteFails    \* whether a callback of the driver may fail

\* proc.Result: a batch of some records, or none and possibly an error.
Failures == {"error", "canceled", "panic"}
Batch(s) == [batch |-> s, err |-> "none"]
Failure(e) == [batch |-> 0, err |-> e]
EOS == [batch |-> 0, err |-> "none"]
IsBatch(x) == x.batch > 0

VARIABLES
  rpc, rval,    \* each merge runner: where it is, the result in its hands
  given,        \* batches each branch has returned
  doneCh,       \* merge.Proc.doneCh is closed
  nparents,     \* merge.Proc.nparents
  counts,       \* head.Proc.count of each head
  mpc, mval,    \* the mux goroutine
  in,           \* muxOutput.in
  warned,       \* warnings the procs have sent
  warnings,     \* proc.Context.Warnings: how many wait in it
  runners,      \* muxOutput.runners
  dpc,          \* runMux: "run", "drain", or what it returned
  canceled,     \* the context is done
  produced,     \* records the branches gave to the merge
  written,      \* records the driver was given
  ends          \* calls of ChannelEnd

vars == <<rpc, rval, given, doneCh, nparents, counts, mpc, mval, in, warned,
          warnings, runners, dpc, canceled, produced, written, ends>>
mergeVars == <<rpc, rval, given, produced>>
muxVars == <<nparents, counts, doneCh, mpc, mval>>
driverVars == <<runners, dpc, written, ends>>

Init ==
  /\ rpc = [p \in Parents |-> "pull"]
  /\ rval = [p \in Parents |-> EOS]
  /\ given = [p \in Parents |-> 0]
  /\ doneCh = FALSE
  /\ nparents = Cardinality(Parents)
  /\ counts = [h \in DOMAIN Limits |-> 0]
  /\ mpc = "pull"
  /\ mval = EOS
  /\ in = <<>>
  /\ warned = 0
  /\ warnings = 0
  /\ runners = 1
  /\ dpc = "run"
  /\ canceled = FALSE
  /\ produced = 0
  /\ written = 0
  /\ ends = 0

-----------------------------------------------------------------------------
(***************************************************************************)
(* merge.runnerProc.run.                                                   *)
(***************************************************************************)
\* parent.Pull returns: a batch, the end, an error, or the context's error
\* (scanner.Read looks at the context before every record).
RunnerPull(p) ==
  /\ rpc[p] = "pull"
  /\ \/ /\ given[p] < Supply
        /\ \E s \in Sizes :
             /\ rval' = [rval EXCEPT ![p] = Batch(s)]
             /\ produced' = produced + s
        /\ given' = [given EXCEPT ![p] = @ + 1]
     \/ /\ rval' = [rval EXCEPT ![p] = EOS]
        /\ UNCHANGED <<given, produced>>
     \/ /\ Errors
        /\ rval' = [rval EXCEPT ![p] = Failure("error")]
        /\ UNCHANGED <<given, produced>>
     \/ /\ canceled
        /\ rval' = [rval EXCEPT ![p] = Failure("canceled")]
        /\ UNCHANGED <<given, produced>>
  /\ rpc' = [rpc EXCEPT ![p] = "send"]
  /\ UNCHANGED <<muxVars, in, warned, warnings, driverVars, canceled>>

\* The select with the result not taken: doneCh or the context ends the
\* runner.
StopSignal == doneCh \/ canceled

RunnerStop(p) ==
  /\ rpc[p] = "send"
  /\ StopSignal
  /\ rpc' = [rpc EXCEPT ![p] = "stopped"]
  /\ UNCHANGED <<rval, given, produced, muxVars, in, warned, warnings,
                 driverVars, canceled>>

\* A proc of a branch sends a warning on the channel of the proc context
\* (capacity 5; WarnMax is below it).
Warn ==
  /\ warned < WarnMax
  /\ \E p \in Parents : rpc[p] = "pull"
  /\ warned' = warned + 1
  /\ warnings' = warnings + 1
  /\ UNCHANGED <<mergeVars, muxVars, in, driverVars, canceled>>

-----------------------------------------------------------------------------
(***************************************************************************)
(* The mux goroutine: mux.run pulls the heads, the heads the merge.        *)
(***************************************************************************)
Heads == DOMAIN Limits

\* A head at its limit returns end of stream without pulling.
Exhausted == \E h \in Heads : counts[h] >= Limits[h]

(***************************************************************************)
(* A batch of s records passes the heads: Passed(s)[h] is what head h is   *)
(* given.  A head with fewer records to give than it got (or as many) cuts *)
(* the batch and calls Done, which goes up to merge.Done and closes        *)
(* doneCh.                                                                 *)
(***************************************************************************)
Remaining(h) == Limits[h] - counts[h]
Cut(s, h) == IF s < Remaining(h) THEN s ELSE Remaining(h)
Passed(s) ==
  LET P[h \in 0..Len(Limits)] == IF h = 0 THEN s ELSE Cut(P[h - 1], h)
  IN  P
Finishing(s) == {h \in Heads : Passed(s)[h - 1] >= Remaining(h)}

\* The heads return what merge.Pull gave them.  A second close of doneCh
\* panics, in the head further down; mux.safeGet makes it an error.
Deliver(x) ==
  IF IsBatch(x)
    THEN /\ counts' = [h \in Heads |-> counts[h] + Passed(x.batch)[h]]
         /\ doneCh' = (doneCh \/ Finishing(x.batch) # {})
         /\ mval' = IF Cardinality(Finishing(x.batch)) > 1 THEN Failure("panic")
                    ELSE Batch(Passed(x.batch)[Len(Limits)])
    ELSE /\ mval' = x
         /\ UNCHANGED <<counts, doneCh>>

\* Pull returns at once: a head is exhausted, or the merge has no parent left.
MuxEOS ==
  /\ mpc = "pull"
  /\ Exhausted \/ nparents = 0
  /\ mval' = EOS
  /\ mpc' = "send"
  /\ UNCHANGED <<mergeVars, nparents, counts, doneCh, in, warned, warnings,
                 driverVars, canceled>>

\* merge.Pull receives from a runner: a batch or an error goes on, the end of
\* one parent is counted.
EndedOrFailed(x) == ~IsBatch(x)
Ended(x) == x = EOS

MuxReceive(p) ==
  /\ mpc = "pull"
  /\ ~Exhausted /\ nparents > 0
  /\ rpc[p] = "send"
  /\ rpc' = [rpc EXCEPT ![p] = IF IsBatch(rval[p]) THEN "pull" ELSE "stopped"]
  /\ IF Ended(rval[p])
       THEN /\ nparents' = nparents - 1
            /\ UNCHANGED <<mpc, mval, counts, doneCh>>
       ELSE /\ Deliver(rval[p])
            /\ mpc' = "send"
            /\ UNCHANGED nparents
  /\ UNCHANGED <<rval, given, produced, in, warned, warnings, driverVars, canceled>>

\* merge.Pull sees the context done.
MuxCancel ==
  /\ mpc = "pull"
  /\ ~Exhausted /\ nparents > 0
  /\ canceled
  /\ mval' = Failure("canceled")
  /\ mpc' = "send"
  /\ UNCHANGED <<mergeVars, nparents, counts, doneCh, in, warned, warnings,
                 driverVars, canceled>>

\* m.out <- the result; the goroutine ends after the end or an error.
HasRoom == Len(in) < 1

AfterSend(x) == IF IsBatch(x) THEN "pull" ELSE "ended"

MuxSend ==
  /\ mpc = "send"
  /\ HasRoom
  /\ in' = Append(in, mval)
  /\ mpc' = AfterSend(mval)
  /\ UNCHANGED <<mergeVars, nparents, counts, doneCh, mval, warned, warnings,
                 driverVars, canceled>>

-----------------------------------------------------------------------------
(***************************************************************************)
(* runMux.  Complete looks at the warnings and the runners; the statistics *)
(* tick changes nothing here.                                              *)
(***************************************************************************)
Complete == warnings = 0 /\ runners = 0

\* One of the driver's callbacks fails: Write or ChannelEnd on a result taken
\* from the mux, Warn on a warning, or Stats at a tick or at the end.  runMux
\* returns and MultiRun's deferred cancel ends the context.
DriverFail ==
  /\ WriteFails
  /\ dpc = "run"
  /\ \/ /\ in # <<>>
        /\ in' = Tail(in)
        /\ UNCHANGED warnings
     \/ /\ warnings > 0
        /\ warnings' = warnings - 1
        /\ UNCHANGED in
     \/ UNCHANGED <<in, warnings>>
  /\ dpc' = "failed"
  /\ canceled' = TRUE
  /\ UNCHANGED <<mergeVars, muxVars, warned, runners, written, ends>>

\* A warning.  Its muxResult carries no batch, so ChannelEnd is called too.
DriverWarning ==
  /\ dpc = "run"
  /\ warnings > 0
  /\ warnings' = warnings - 1
  /\ ends' = ends + 1
  /\ UNCHANGED <<mergeVars, muxVars, in, warned, runners, dpc, written,
                 canceled>>

\* A result of the tail: a batch to Write, its end, or an error.
DriverResult ==
  /\ dpc = "run"
  /\ in # <<>>
  /\ in' = Tail(in)
  /\ LET x == Head(in) IN
     /\ runners' = IF IsBatch(x) THEN runners ELSE runners - 1
     /\ written' = written + x.batch
     /\ ends' = IF x = EOS THEN ends + 1 ELSE ends
     /\ dpc' = CASE x.err = "none" -> dpc
                 [] x.err = "canceled" -> "drain"
                 [] OTHER -> x.err
     /\ canceled' = (canceled \/ x.err \in {"error", "panic"})
  /\ UNCHANGED <<mergeVars, muxVars, warned, warnings>>

\* Drain after the context's error: everything until Complete is dropped.
Drain ==
  /\ dpc = "drain"
  /\ ~Complete
  /\ \/ /\ warnings > 0
        /\ warnings' = warnings - 1
        /\ UNCHANGED <<in, runners>>
     \/ /\ in # <<>>
        /\ in' = Tail(in)
        /\ runners' = IF IsBatch(Head(in)) THEN runners ELSE runners - 1
        /\ UNCHANGED warnings
  /\ UNCHANGED <<mergeVars, muxVars, warned, dpc, written, ends, canceled>>

\* runMux returns and MultiRun cancels the context.
DriverReturn ==
  /\ dpc \in {"run", "drain"}
  /\ Complete
  /\ dpc' = IF dpc = "run" THEN "ok" ELSE "canceled"
  /\ canceled' = TRUE
  /\ UNCHANGED <<mergeVars, muxVars, in, warned, warnings, runners, written,
                 ends>>

\* The caller cancels (a client went away, a space is deleted).
Cancel ==
  /\ Cancels
  /\ ~canceled
  /\ canceled' = TRUE
  /\ UNCHANGED <<mergeVars, muxVars, in, warned, warnings, driverVars>>

Returned == dpc \notin {"run", "drain"}

Runner(p) == RunnerPull(p) \/ RunnerStop(p) \/ MuxReceive(p)
Mux == MuxEOS \/ MuxCancel \/ MuxSend
Driver == DriverFail \/ DriverWarning \/ DriverResult \/ Drain \/ DriverReturn

Next ==
  \/ \E p \in Parents : Runner(p)
  \/ Warn \/ Mux \/ Driver \/ Cancel

Spec == Init /\ [][Next]_vars

-----------------------------------------------------------------------------
Results == [batch : Nat, err : {"none"} \cup Failures]

\* The type invariant of the flowgraph.
TypeOK ==
  /\ rpc \in [Parents -> {"pull", "send", "stopped"}]
  /\ rval \in [Parents -> Results]
  /\ given \in [Parents -> 0..Supply]
  /\ {doneCh, canceled} \subseteq BOOLEAN
  /\ nparents \in 0..Cardinality(Parents)
  /\ counts \in [Heads -> Nat]
  /\ mpc \in {"pull", "send", "ended"}
  /\ mval \in Results
  /\ in \in Seq(Results) /\ Len(in) <= 1
  /\ {warned, warnings} \subseteq 0..WarnMax
  /\ runners \in 0..1
  /\ dpc \in {"run", "drain", "ok", "failed"} \cup Failures
  /\ {produced, written, ends} \subseteq Nat

Bound == IF Limits = <<>> THEN produced ELSE Min({produced} \cup ToSet(Limits))

\* A run that succeeds has given its driver all there was to give: every
\* record of every branch, each branch having been read to its end, or, with
\* heads, as many as the smallest limit asks for.  Nothing is lost between the
\* runners, the heads, the mux and the driver, and no branch's error passes
\* for the end of the stream.
SuccessIsComplete ==
  dpc = "ok" => /\ written = Bound
                /\ Exhausted \/ \A p \in Parents : rval[p] = EOS

\* No head ever lets more through than its limit, however the batches fall.
NeverTooMany == \A h \in Heads : written <= Limits[h]
=============================================================================
