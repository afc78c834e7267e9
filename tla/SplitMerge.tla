----------------------------- MODULE SplitMerge -----------------------------
(***************************************************************************)
(* A parallel proc between a split and a merge, as the compiler builds it: *)
(* the runners of Flowgraph's merge pull the branches of a Splitter.  A    *)
(* branch passes its batches on, or is a head that calls Done with the     *)
(* batch it is satisfied with.  The pull of a runner that was one step of  *)
(* Flowgraph is the request, the gathering and the send of Splitter here,  *)
(* and a runner that stops says Done to its branch or, when the context    *)
(* ends first, does not.                                                   *)
(***************************************************************************)
EXTENDS Naturals, Sequences, FiniteSets, SequencesExt, FiniteSetsExt

CONSTANTS
  Parents, Supply, Sizes, Limits, WarnMax, Errors, Cancels, WriteFails,
  Satisfied     \* the branches that may be satisfied with a batch

ASSUME ParentsAssumption == IsFiniteSet(Parents) /\ Parents # {} /\ Satisfied \subseteq Parents
ASSUME SizesAssumption == Sizes \subseteq Nat \ {0} /\ Sizes # {}
ASSUME CountsAssumption == Supply \in Nat /\ WarnMax \in Nat
ASSUME LimitsAssumption == Limits \in Seq(Nat \ {0})

VARIABLES
  rpc, rval, given, doneCh, nparents, counts, mpc, mval, in, warned,
  warnings, runners, dpc, canceled, produced, written, ends,    \* Flowgraph
  run, n, flight, left, pulled, eos, done, bpc, got, held, refs,  \* Splitter
  size,     \* how many records each batch has
  upstream, \* what upstream has ended with
  last      \* the batch with which each branch was satisfied, or 0

F == INSTANCE Flowgraph
S == INSTANCE Splitter WITH Branches <- Parents, MaxBatches <- Supply

flowVars == <<rpc, rval, given, doneCh, nparents, counts, mpc, mval, in, warned,
              warnings, runners, dpc, canceled, produced, written, ends>>
splitVars == <<run, n, flight, left, pulled, eos, done, bpc, got, held, refs>>
mine == <<size, upstream, last>>
vars == <<flowVars, splitVars, mine>>

Init ==
  /\ F!Init
  /\ S!Init
  /\ size = [k \in 1..Supply |-> 0]
  /\ upstream = F!EOS
  /\ last = [p \in Parents |-> 0]

-----------------------------------------------------------------------------
\* The flowgraph's variables while a runner is inside its branch
Inside == UNCHANGED <<flowVars, mine>>

\* The runner's Pull returns x.
Returns(p, x) ==
  /\ rval' = [rval EXCEPT ![p] = x]
  /\ rpc' = [rpc EXCEPT ![p] = "send"]
  /\ produced' = produced + x.batch
  /\ given' = [given EXCEPT ![p] = IF F!IsBatch(x) THEN @ + 1 ELSE @]
  /\ UNCHANGED <<doneCh, nparents, counts, mpc, mval, in, warned, warnings, runners, dpc,
                 canceled, written, ends>>

\* The runner's branch asks the Splitter.
AskAhead(p) ==
  /\ S!Pull(p)
  /\ Inside
Ask(p) ==
  /\ rpc[p] = "pull"
  /\ S!Pull(p)
  /\ Inside

Gather(p) == S!Gather(p) /\ Inside

\* A branch that is satisfied or has seen the end has no channel any more.
AskAgain(p) ==
  /\ rpc[p] = "pull"
  /\ bpc[p] = "closed"
  /\ Returns(p, F!EOS)
  /\ UNCHANGED <<splitVars, mine>>

\* The Splitter pulls upstream: a batch, the end, an error or the context's.
PullBatch ==
  /\ S!PullBatch
  /\ \E s \in Sizes : size' = [size EXCEPT ![pulled + 1] = s]
  /\ UNCHANGED <<flowVars, upstream, last>>
PullEOS ==
  /\ S!PullEOS
  /\ upstream' \in {F!EOS} \cup (IF Errors THEN {F!Failure("error")} ELSE {})
                           \cup (IF canceled THEN {F!Failure("canceled")} ELSE {})
  /\ UNCHANGED <<flowVars, size, last>>

\* send: the branch returns the batch, or is satisfied with it and says Done
\* first; the end makes split.Proc.Pull say Done.
Send ==
  LET p == Head(left) IN
  /\ S!Send
  /\ IF eos THEN Inside
     ELSE Returns(p, F!Batch(size[pulled])) /\ UNCHANGED mine
SendSatisfied ==
  LET p == Head(left) IN
  /\ S!Send
  /\ ~eos /\ p \in Satisfied
  /\ last' = [last EXCEPT ![p] = pulled]
  /\ UNCHANGED <<flowVars, size, upstream>>
SatisfiedDone(p) ==
  /\ rpc[p] = "pull" /\ bpc[p] = "idle" /\ last[p] # 0
  /\ S!Stop(p)
  /\ Inside

\* The Splitter takes the null request: the Pull or the Done it is from returns.
GatherNull(p) ==
  /\ S!GatherNull(p)
  /\ IF rpc[p] = "stopped" THEN UNCHANGED flowVars
     ELSE Returns(p, IF last[p] # 0 THEN F!Batch(size[last[p]]) ELSE upstream)
  /\ UNCHANGED mine

Sent == S!Sent /\ Inside
Exit == S!Exit /\ Inside

\* The runner stops: told by doneCh it says Done to its branch, by the context
\* it does not.
RunnerStop(p) ==
  /\ F!RunnerStop(p)
  /\ \/ /\ doneCh
        /\ IF bpc[p] = "closed" THEN UNCHANGED splitVars ELSE S!Stop(p)
     \/ /\ canceled
        /\ UNCHANGED splitVars
  /\ UNCHANGED mine

\* The merge receives from a runner, and the branch's reference to the batch is
\* given back downstream.
Receive(p) ==
  /\ F!MuxReceive(p)
  /\ IF F!IsBatch(rval[p]) THEN S!Release(p) ELSE UNCHANGED splitVars
  /\ UNCHANGED mine

\* The rest of the flowgraph goes on as in Flowgraph.
Downstream ==
  /\ F!Warn \/ F!Mux \/ F!Driver \/ F!Cancel
  /\ UNCHANGED <<splitVars, mine>>

\* What may be left when the driver has returned.
Quit ==
  /\ F!Returned
  /\ UNCHANGED vars

Branch(p) ==
  \/ Ask(p) /\ last[p] = 0
  \/ AskAgain(p) \/ Gather(p) \/ GatherNull(p) \/ SatisfiedDone(p)
  \/ RunnerStop(p) \/ Receive(p)

Next ==
  \/ \E p \in Parents : Branch(p)
  \/ PullBatch \/ PullEOS \/ Send \/ SendSatisfied \/ Sent \/ Exit
  \/ Downstream \/ Quit

\* Every goroutine runs when it can: those of the runners, the Splitter, the
\* mux and the driver.
Spec ==
  /\ Init /\ [][Next]_vars
  /\ \A p \in Parents :
       /\ WF_vars((Ask(p) /\ last[p] = 0) \/ AskAgain(p) \/ SatisfiedDone(p))
       /\ WF_vars(RunnerStop(p))
       /\ WF_vars(Gather(p) \/ GatherNull(p))
  /\ WF_vars(PullBatch \/ PullEOS) /\ WF_vars(Send \/ SendSatisfied)
  /\ WF_vars(Sent) /\ WF_vars(Exit)
  /\ WF_vars((F!Mux /\ UNCHANGED <<splitVars, mine>>) \/ \E p \in Parents : Receive(p))
  /\ WF_vars((F!DriverWarning \/ F!DriverResult \/ F!Drain \/ F!DriverReturn) /\ UNCHANGED <<splitVars, mine>>)

-----------------------------------------------------------------------------
\* The type invariant: those of the parts, and what joins them.
TypeOK ==
  /\ F!TypeOK
  /\ S!TypeOK
  /\ size \in [1..Supply -> {0} \cup Sizes]
  /\ upstream \in {F!EOS} \cup {F!Failure(e) : e \in F!Failures}
  /\ last \in [Parents -> 0..Supply]

\* The parts do together what each of them does alone: the split sees branches
\* that pull, stop and release as Splitter allows, the merge and the driver see
\* parents that return batches and ends as Flowgraph allows.  What is said of
\* Splitter and of Flowgraph holds here, and in particular that upstream is
\* pulled only when every open branch waits, and told Done once (FlowControl).
PartsImplemented == S!Spec /\ F!Spec /\ S!FlowControl

\* Batches are counted exactly (Splitter's RefsExact), in the whole flowgraph,
\* and no channel holds more than it may (the type invariants).
RefsExact == TypeOK /\ S!RefsExact

\* Each branch sees the stream from its start and without a gap (Splitter's
\* SameStream).
SameStream == S!SameStream

\* A run that succeeds delivered what there was or what the heads ask for
\* (Flowgraph's SuccessIsComplete), and every branch was shown every batch
\* until it was satisfied or the heads were.  No head lets more through than
\* its limit, in a run that fails neither (Flowgraph's NeverTooMany).
SuccessIsComplete ==
  /\ F!SuccessIsComplete
  /\ F!NeverTooMany
  /\ dpc = "ok" /\ ~F!Exhausted => \A p \in Parents : last[p] # 0 \/ Len(got[p]) = pulled

\* A runner that stopped because of the context, with a branch the Splitter
\* still counts: merge.go:38 returns without Done.
Abandoned == \E p \in Parents : rpc[p] = "stopped" /\ bpc[p] = "idle"

\* The driver returns, in every interleaving of the runners, the Splitter, the
\* mux and the driver, whatever fails: no branch waits for another one that
\* waits for the merge.
RunReturns == <>F!Returned

\* The mux goroutine is left at its send for ever: a callback failed, nobody
\* receives from muxOutput.in any more, which is full, and mux.go:66 does not
\* look at the context.
Stranded == dpc = "failed" /\ mpc = "send" /\ ~F!HasRoom

\* The goroutines end with the run: the mux unless it is stranded, each runner,
\* and the Splitter once all branches are closed, unless a runner abandoned its
\* branch.
GoroutinesEnd ==
  /\ F!Returned ~> (mpc = "ended" \/ Stranded)
  /\ \A p \in Parents : F!Returned ~> (rpc[p] = "stopped" \/ Abandoned)
  /\ \A p \in Parents : bpc[p] \in {"request", "wait", "null"} ~> (bpc[p] \in {"idle", "closed"} \/ Abandoned)
  /\ S!SplitterEnds

\* The run comes to an end, and with it all it started that is not stranded or
\* abandoned.
RunEnds == RunReturns /\ GoroutinesEnd

\* "This loop is started by the first downstream SplitChannel as long as there
\* are active downstream consumers" (split.go:50): when the run is over nothing
\* waits for the Splitter any more and it has ended.
SplitterEndsWithRun == F!Returned /\ run # "off" ~> run = "exited"
=============================================================================
