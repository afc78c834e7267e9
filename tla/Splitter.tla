------------------------------ MODULE Splitter ------------------------------
(***************************************************************************)
(* proc/split: one upstream proc feeds several branches of a flowgraph.    *)
(* A branch is a goroutine that calls Pull and Done of its split.Proc; the *)
(* Splitter's own goroutine (run) gathers one request from every active    *)
(* branch, pulls one batch and sends it to each of them.  All channels are *)
(* unbuffered, so a send and its receive are one step of two goroutines.   *)
(* Batches are reference counted (zbuf.Batch) and may be reused by the     *)
(* scanner that made them once the count is zero.                          *)
(***************************************************************************)
EXTENDS Naturals, Sequences, FiniteSets, SequencesExt

CONSTANTS
  Branches,     \* the branches of the parallel proc
  MaxBatches    \* how many batches upstream has at most

VARIABLES
  run,      \* Splitter.run: "off" until the first Pull
  n,        \* Splitter.n, the branches not yet done
  flight,   \* the branches whose request was gathered
  left,     \* those of them that send has still to serve
  pulled,   \* batches pulled from upstream; the last one is in transit
  eos,      \* upstream has returned end of stream or an error
  done,     \* calls of parent.Done
  bpc,      \* where each branch is
  got,      \* the batches each branch received
  held,     \* the batches each branch holds a reference to
  refs      \* the reference count of each batch

vars == <<run, n, flight, left, pulled, eos, done, bpc, got, held, refs>>
splitVars == <<run, n, flight, left, pulled, eos, done>>

Batches == 1..MaxBatches

Init ==
  /\ run = "off"
  /\ n = Cardinality(Branches)
  /\ flight = <<>>
  /\ left = <<>>
  /\ pulled = 0
  /\ eos = FALSE
  /\ done = 0
  /\ bpc = [b \in Branches |-> "idle"]
  /\ got = [b \in Branches |-> <<>>]
  /\ held = [b \in Branches |-> {}]
  /\ refs = [k \in Batches |-> 0]

-----------------------------------------------------------------------------
(***************************************************************************)
(* The branches: split.Proc.                                               *)
(***************************************************************************)
\* A branch calls Pull; the first one starts the Splitter.
Pull(b) ==
  /\ bpc[b] = "idle"
  /\ bpc' = [bpc EXCEPT ![b] = "request"]
  /\ run' = IF run = "off" THEN "gather" ELSE run
  /\ UNCHANGED <<n, flight, left, pulled, eos, done, got, held, refs>>

\* A branch that has pulled before calls Done (a head at its limit, a merge
\* that is done): it will send the null request.
Stop(b) ==
  /\ bpc[b] = "idle"
  /\ run # "off"
  /\ got[b] # <<>>
  /\ bpc' = [bpc EXCEPT ![b] = "null"]
  /\ UNCHANGED <<splitVars, got, held, refs>>

\* The branch is done with a batch it received.
Release(b) ==
  /\ \E k \in held[b] :
       /\ held' = [held EXCEPT ![b] = @ \ {k}]
       /\ refs' = [refs EXCEPT ![k] = @ - 1]
  /\ UNCHANGED <<splitVars, bpc, got>>

-----------------------------------------------------------------------------
(***************************************************************************)
(* The Splitter: gather, pull, send.                                       *)
(***************************************************************************)
\* gather takes a request ...
Gather(b) ==
  /\ run = "gather"
  /\ Len(flight) < n
  /\ bpc[b] = "request"
  /\ flight' = Append(flight, b)
  /\ bpc' = [bpc EXCEPT ![b] = "wait"]
  /\ UNCHANGED <<run, n, left, pulled, eos, done, got, held, refs>>

\* ... or a null request, after which the branch's channel is nil.
GatherNull(b) ==
  /\ run = "gather"
  /\ Len(flight) < n
  /\ bpc[b] = "null"
  /\ n' = n - 1
  /\ bpc' = [bpc EXCEPT ![b] = "closed"]
  /\ UNCHANGED <<run, flight, left, pulled, eos, done, got, held, refs>>

\* The guard of gather's loop: every active branch has asked.
AnyAsked == flight # <<>>
AllEverAsked == Len(flight) = Cardinality(Branches)
AllAsked == Len(flight) = n

\* Upstream returns a batch, with a reference count of one.
PullBatch ==
  /\ run = "gather" /\ AllAsked /\ n > 0
  /\ pulled < MaxBatches
  /\ pulled' = pulled + 1
  /\ refs' = [refs EXCEPT ![pulled + 1] = 1]
  /\ left' = flight
  /\ run' = "send"
  /\ UNCHANGED <<n, flight, eos, done, bpc, got, held>>

\* Upstream returns end of stream or an error.
PullEOS ==
  /\ run = "gather" /\ AllAsked /\ n > 0
  /\ eos' = TRUE
  /\ left' = flight
  /\ run' = "send"
  /\ UNCHANGED <<n, flight, pulled, done, bpc, got, held, refs>>

\* send: a reference for the branch, then the result.  On end of stream the
\* branch's Pull calls Done before it returns.
SendUnreferenced ==
  LET b == Head(left) IN
  /\ run = "send"
  /\ left # <<>>
  /\ left' = Tail(left)
  /\ IF eos
       THEN /\ bpc' = [bpc EXCEPT ![b] = "null"]
            /\ UNCHANGED <<got, held, refs>>
       ELSE /\ bpc' = [bpc EXCEPT ![b] = "idle"]
            /\ got' = [got EXCEPT ![b] = Append(@, pulled)]
            /\ held' = [held EXCEPT ![b] = @ \cup {pulled}]
            /\ UNCHANGED refs
  /\ UNCHANGED <<run, n, flight, pulled, eos, done>>
Send ==
  LET b == Head(left) IN
  /\ run = "send"
  /\ left # <<>>
  /\ left' = Tail(left)
  /\ IF eos
       THEN /\ bpc' = [bpc EXCEPT ![b] = "null"]
            /\ UNCHANGED <<got, held, refs>>
       ELSE /\ bpc' = [bpc EXCEPT ![b] = "idle"]
            /\ got' = [got EXCEPT ![b] = Append(@, pulled)]
            /\ held' = [held EXCEPT ![b] = @ \cup {pulled}]
            /\ refs' = [refs EXCEPT ![pulled] = @ + 1]
  /\ UNCHANGED <<run, n, flight, pulled, eos, done>>

\* The Splitter gives its own reference back and gathers again.
Sent ==
  /\ run = "send"
  /\ left = <<>>
  /\ flight' = <<>>
  /\ run' = "gather"
  /\ refs' = IF eos THEN refs ELSE [refs EXCEPT ![pulled] = @ - 1]
  /\ UNCHANGED <<n, left, pulled, eos, done, bpc, got, held>>

\* No branch is left: upstream is told, and run returns.
Exit ==
  /\ run = "gather"
  /\ n = 0
  /\ done' = done + 1
  /\ run' = "exited"
  /\ UNCHANGED <<n, flight, left, pulled, eos, bpc, got, held, refs>>

Branch(b) == Pull(b) \/ Stop(b) \/ Release(b) \/ Gather(b) \/ GatherNull(b)

Next ==
  \/ \E b \in Branches : Branch(b)
  \/ PullBatch \/ PullEOS \/ Send \/ Sent \/ Exit

Spec == Init /\ [][Next]_vars

-----------------------------------------------------------------------------
BranchPCs == {"idle", "request", "wait", "null", "closed"}

\* The type invariant of the Splitter and its branches.
TypeOK ==
  /\ run \in {"off", "gather", "send", "exited"}
  /\ n \in Nat
  /\ flight \in Seq(Branches)
  /\ left \in Seq(Branches)
  /\ pulled \in 0..MaxBatches
  /\ eos \in BOOLEAN
  /\ done \in Nat
  /\ bpc \in [Branches -> BranchPCs]
  /\ got \in [Branches -> Seq(Batches)]
  /\ held \in [Branches -> SUBSET Batches]
  /\ refs \in [Batches -> Nat]

\* The reference count of a batch is the number of branches that hold it plus
\* the Splitter's own while it is sending (send's Ref and run's Unref): it is
\* zero exactly when nobody can look at the batch any more, so the scanner
\* may reuse it then and no earlier.
RefsExact ==
  \A k \in Batches :
    refs[k] = Cardinality({b \in Branches : k \in held[b]})
              + (IF run = "send" /\ ~eos /\ k = pulled THEN 1 ELSE 0)

\* Every branch that is not done sees upstream's batches in order and without
\* a gap: it is at most the one batch in transit behind.
SameStream ==
  \A b \in Branches :
    /\ got[b] = [k \in 1..Len(got[b]) |-> k]
    /\ bpc[b] \notin {"null", "closed"} =>
         Len(got[b]) >= pulled - (IF run = "send" /\ b \in ToSet(left) THEN 1 ELSE 0)

\* Upstream is pulled only when every active branch waits for a batch ("If the
\* downstream proc isn't ready, it's request won't have arrived and this thread
\* will block in the gather loop", split.go:53), never again after its end of
\* stream, and is told Done once, after the last branch.
FlowControl ==
  [][/\ (pulled' # pulled \/ eos' # eos) =>
          \A b \in Branches : bpc[b] \in {"wait", "closed"}
     /\ eos => pulled' = pulled
     /\ done' # done => /\ done = 0
                        /\ \A b \in Branches : bpc[b] = "closed"]_vars

\* Once every branch is done the Splitter's goroutine ends.
SplitterEnds == (\A b \in Branches : bpc[b] = "closed") ~> run = "exited"
=============================================================================
