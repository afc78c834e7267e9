--------------------------- MODULE ParallelGroup ----------------------------
(***************************************************************************)
(* driver/parallel.go: the sources of a flowgraph that runs in parallel.   *)
(* One goroutine (parallelGroup.run) offers the sources of a MultiSource,  *)
(* in order, on an unbuffered channel; the parallelHeads, each pulled by a *)
(* goroutine of its own, take them one by one, scan them and close them.   *)
(* For each head a third kind of goroutine (closeOnDone) closes what is    *)
(* open when the context ends.  A scanner is identified with its source.   *)
(***************************************************************************)
EXTENDS Naturals, Sequences, FiniteSets, SequencesExt, FiniteSetsExt

CONSTANTS
  Heads,        \* the parallelHeads (MultiConfig.Parallelism)
  NumSources,   \* how many sources the MultiSource has
  Records,      \* batches in a source
  Faults        \* whether opening, scanning, closing and SendSources may fail

ASSUME HeadsAssumption == IsFiniteSet(Heads) /\ Heads # {}
ASSUME NumAssumption == NumSources \in Nat /\ Records \in Nat

Sources == 1..NumSources
NoSource == 0

VARIABLES
  sender,    \* parallelGroup.run: "off", "sending", or how it closed the channel
  sent,      \* sources offered so far
  canceled,  \* the context is done
  hpc,       \* each head: "idle", "pull" (in Pull, with ph.mu held), "ended"
  sc,        \* parallelHead.sc
  closer,    \* each head's closeOnDone: "off", "waiting", "returned"
  status,    \* each source's scanner: "none", "open", "closed"
  scanners,  \* parallelGroup.scanners
  stats,     \* parallelGroup.stats
  read,      \* batches each scanner has returned
  taken,     \* the sources each head has opened, in order
  failed     \* a Pull has returned an error

vars == <<sender, sent, canceled, hpc, sc, closer, status, scanners, stats,
          read, taken, failed>>
senderVars == <<sender, sent>>
groupVars == <<scanners, stats>>

Init ==
  /\ sender = "off"
  /\ sent = 0
  /\ canceled = FALSE
  /\ hpc = [h \in Heads |-> "idle"]
  /\ sc = [h \in Heads |-> NoSource]
  /\ closer = [h \in Heads |-> "off"]
  /\ status = [s \in Sources |-> "none"]
  /\ scanners = {}
  /\ stats = 0
  /\ read = [s \in Sources |-> 0]
  /\ taken = [h \in Heads |-> <<>>]
  /\ failed = FALSE

\* Pull returns: the caller pulls again after a batch and ends otherwise.
Return(h, ended) == hpc' = [hpc EXCEPT ![h] = IF ended THEN "ended" ELSE "idle"]

-----------------------------------------------------------------------------
\* parallelHead.Pull starts the goroutines and takes ph.mu.
Pull(h) ==
  /\ hpc[h] = "idle"
  /\ hpc' = [hpc EXCEPT ![h] = "pull"]
  /\ sender' = IF sender = "off" THEN "sending" ELSE sender
  /\ closer' = IF closer[h] = "off" THEN [closer EXCEPT ![h] = "waiting"] ELSE closer
  /\ UNCHANGED <<sent, canceled, sc, status, groupVars, read, taken, failed>>

\* A head that has pulled is not pulled again once the context is done (the
\* runners of a merge end).
Abandon(h) ==
  /\ hpc[h] = "idle"
  /\ canceled
  /\ Return(h, TRUE)
  /\ UNCHANGED <<senderVars, canceled, sc, closer, status, groupVars, read,
                 taken, failed>>

\* The source SendSources offers next.
OfferedAgain == Max({sent, 1})
Offered == sent + 1

\* nextSource receives an opener.  It opens a scanner, or finds the source
\* empty (nil scanner) and goes on, or fails.
Open(h) ==
  LET s == Offered IN
  /\ hpc[h] = "pull" /\ sc[h] = NoSource
  /\ sender = "sending" /\ sent < NumSources
  /\ sent' = sent + 1
  /\ \/ /\ sc' = [sc EXCEPT ![h] = s]
        /\ status' = [status EXCEPT ![s] = "open"]
        /\ scanners' = scanners \cup {s}
        /\ taken' = [taken EXCEPT ![h] = Append(@, s)]
        /\ UNCHANGED <<hpc, failed>>
     \/ /\ UNCHANGED <<hpc, sc, status, scanners, taken, failed>>
     \/ /\ Faults
        /\ Return(h, TRUE)
        /\ failed' = TRUE
        /\ UNCHANGED <<sc, status, scanners, taken>>
  /\ UNCHANGED <<sender, canceled, closer, stats, read>>

\* parallelGroup.sourceErr, SendSources' error.
SourceErr == sender = "failed"

\* nextSource finds the channel closed: end of stream, or SendSources' error.
NoMore(h) ==
  /\ hpc[h] = "pull" /\ sc[h] = NoSource
  /\ sender \in {"closed", "failed"}
  /\ Return(h, TRUE)
  /\ failed' = (failed \/ SourceErr)
  /\ UNCHANGED <<senderVars, canceled, sc, closer, status, groupVars, read,
                 taken>>

\* nextSource sees the context done; its select prefers neither case.
NextCanceled(h) ==
  /\ hpc[h] = "pull" /\ sc[h] = NoSource
  /\ canceled
  /\ Return(h, TRUE)
  /\ failed' = TRUE
  /\ UNCHANGED <<senderVars, canceled, sc, closer, status, groupVars, read,
                 taken>>

\* The scanner returns a batch.
ScanBatch(h) ==
  /\ hpc[h] = "pull" /\ sc[h] # NoSource
  /\ read[sc[h]] < Records
  /\ read' = [read EXCEPT ![sc[h]] = @ + 1]
  /\ Return(h, FALSE)
  /\ UNCHANGED <<senderVars, canceled, sc, closer, status, groupVars, taken,
                 failed>>

\* The scanner's end: it is closed, doneSource adds up its statistics, and
\* Pull goes on to the next source.
ForgetStats(s) ==
  /\ scanners' = scanners \ {s}
  /\ UNCHANGED stats
DoneSource(s) ==
  /\ scanners' = scanners \ {s}
  /\ stats' = stats + read[s]

ScanEnd(h) ==
  /\ hpc[h] = "pull" /\ sc[h] # NoSource
  /\ read[sc[h]] = Records
  /\ status' = [status EXCEPT ![sc[h]] = "closed"]
  /\ DoneSource(sc[h])
  /\ sc' = [sc EXCEPT ![h] = NoSource]
  /\ UNCHANGED <<senderVars, canceled, hpc, closer, read, taken, failed>>

\* Scanning or closing fails: the scanner stays in ph.sc.
ScanFail(h) ==
  /\ Faults \/ canceled
  /\ hpc[h] = "pull" /\ sc[h] # NoSource
  /\ Return(h, TRUE)
  /\ failed' = TRUE
  /\ UNCHANGED <<senderVars, canceled, sc, closer, status, groupVars, read,
                 taken>>

\* closeOnDone, once the context is done and no Pull holds ph.mu.
CloseUnlocked(h) ==
  /\ closer[h] = "waiting"
  /\ canceled
  /\ closer' = [closer EXCEPT ![h] = "returned"]
  /\ UNCHANGED <<status, sc, senderVars, canceled, hpc, groupVars, read, taken, failed>>
CloseOnDone(h) ==
  /\ closer[h] = "waiting"
  /\ canceled
  /\ hpc[h] # "pull"
  /\ closer' = [closer EXCEPT ![h] = "returned"]
  /\ status' = [s \in Sources |-> IF s = sc[h] THEN "closed" ELSE status[s]]
  /\ sc' = [sc EXCEPT ![h] = NoSource]
  /\ UNCHANGED <<senderVars, canceled, hpc, groupVars, read, taken, failed>>

-----------------------------------------------------------------------------
\* SendSources returns and run closes the channel: all is sent, an error, or
\* the context is done.
SenderClose ==
  /\ sender = "sending"
  /\ \/ sent = NumSources /\ sender' = "closed"
     \/ (Faults \/ canceled) /\ sender' = "failed"
  /\ UNCHANGED <<sent, canceled, hpc, sc, closer, status, groupVars, read,
                 taken, failed>>

\* The context ends: MultiRun returns, or the caller cancels.
Cancel ==
  /\ ~canceled
  /\ canceled' = TRUE
  /\ UNCHANGED <<senderVars, hpc, sc, closer, status, groupVars, read, taken,
                 failed>>

Quit ==
  /\ canceled
  /\ \A h \in Heads : hpc[h] = "ended" /\ closer[h] # "waiting"
  /\ sender # "sending"
  /\ UNCHANGED vars

HeadStep(h) ==
  \/ Pull(h) \/ Open(h) \/ NoMore(h) \/ NextCanceled(h) \/ ScanBatch(h)
  \/ ScanEnd(h) \/ ScanFail(h)

Next ==
  \/ \E h \in Heads : HeadStep(h) \/ Abandon(h) \/ CloseOnDone(h)
  \/ SenderClose \/ Cancel \/ Quit

Spec == Init /\ [][Next]_vars

\* Goroutines run when they can, and MultiRun ends the context when it
\* returns (its deferred cancel).
FairSpec ==
  /\ Spec
  /\ \A h \in Heads :
       /\ WF_vars(HeadStep(h) \/ Abandon(h))
       /\ SF_vars(CloseOnDone(h))
  /\ WF_vars(SenderClose) /\ WF_vars(Cancel)

-----------------------------------------------------------------------------
\* The type invariant of the group and its heads.
TypeOK ==
  /\ sender \in {"off", "sending", "closed", "failed"}
  /\ sent \in 0..NumSources
  /\ canceled \in BOOLEAN
  /\ hpc \in [Heads -> {"idle", "pull", "ended"}]
  /\ sc \in [Heads -> Sources \cup {NoSource}]
  /\ closer \in [Heads -> {"off", "waiting", "returned"}]
  /\ status \in [Sources -> {"none", "open", "closed"}]
  /\ scanners \subseteq Sources
  /\ stats \in Nat
  /\ read \in [Sources -> 0..Records]
  /\ taken \in [Heads -> Seq(Sources)]
  /\ failed \in BOOLEAN

\* No source is scanned by two heads, and each head meets its sources in the
\* order in which SendSources sent them: an ordered merge of the heads yields
\* the sources' order.
InOrderOnce ==
  /\ \A h \in Heads : \A i, j \in DOMAIN taken[h] :
       i < j => taken[h][i] < taken[h][j]
  /\ \A g, h \in Heads : g # h => ToSet(taken[g]) \cap ToSet(taken[h]) = {}

\* How many batches the scanners of the sources S have returned.
BatchesOf(S) == {x \in S \X (1..Records) : x[2] <= read[x[1]]}
SumOver(S) == Cardinality(BatchesOf(S))

\* parallelGroup.Stats counts what every scanner has read exactly once, also
\* while doneSource moves a scanner's count into the total.
StatsExact == stats + SumOver(scanners) = SumOver(Sources)

\* When every head has ended without an error, every source that was opened
\* has been read to its end and closed, and all were sent.
EndMeansAll ==
  (\A h \in Heads : hpc[h] = "ended") /\ ~failed /\ ~canceled =>
    /\ sent = NumSources
    /\ \A s \in Sources : status[s] # "none" =>
         read[s] = Records /\ status[s] = "closed"

\* The sources are shared out among the heads without one being given twice,
\* out of order, or lost.
SourcesShared == TypeOK /\ InOrderOnce /\ EndMeansAll

\* A scanner that is open when the flowgraph stops is closed: by its head or
\* by closeOnDone, whichever comes first.
OpenAtStopIsClosed ==
  \A s \in Sources : status[s] = "open" /\ ~canceled ~> status[s] = "closed"
=============================================================================
