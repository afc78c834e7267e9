------------------------ MODULE ParallelGroupProofs -------------------------
(***************************************************************************)
(* What holds of ParallelGroup for any number of heads, sources and        *)
(* batches.                                                                *)
(***************************************************************************)
EXTENDS ParallelGroup, TLAPS, FiniteSetTheorems, SequenceTheorems

\* A head scans a source that was sent to it and to no other head, and whose
\* scanner the group still counts.
ScanInv ==
  /\ \A h \in Heads : sc[h] # NoSource => sc[h] \in scanners
  /\ \A g, h \in Heads : g # h /\ sc[g] # NoSource => sc[g] # sc[h]

\* Nothing has happened yet to the sources that were not sent.
UnsentInv ==
  /\ \A s \in Sources : s > sent =>
       read[s] = 0 /\ status[s] = "none" /\ s \notin scanners
  /\ \A h \in Heads : \A i \in DOMAIN taken[h] : taken[h][i] <= sent
  /\ sender = "closed" => sent = NumSources

\* Until the context ends a scanner is open exactly as long as a head has it.
OpenInv ==
  ~canceled => \A s \in Sources :
    /\ status[s] = "open" => \E h \in Heads : sc[h] = s
    /\ status[s] = "closed" => read[s] = Records

\* A head ends without an error only when nothing is left to send.
EndedInv ==
  ~canceled /\ ~failed => \A h \in Heads : hpc[h] = "ended" =>
    sc[h] = NoSource /\ sender = "closed"

GroupInv ==
  TypeOK /\ InOrderOnce /\ ScanInv /\ UnsentInv /\ OpenInv /\ EndedInv

USE HeadsAssumption, NumAssumption DEF Sources, NoSource

\* GroupInv holds when NewParallelGroup has made the heads (parallel.go).
LEMMA GroupInit == Init => GroupInv
<1> SUFFICES ASSUME Init PROVE GroupInv
  OBVIOUS
<1> USE DEF Init
<1>1. TypeOK
  <2>1. <<>> \in Seq(Sources) /\ 0 \in 0..Records /\ 0 \in 0..NumSources
    OBVIOUS
  <2>2. taken \in [Heads -> Seq(Sources)] /\ read \in [Sources -> 0..Records]
    BY <2>1
  <2> QED BY <2>1, <2>2 DEF TypeOK
<1>2. InOrderOnce
  BY DEF InOrderOnce, ToSet
<1>3. ScanInv /\ UnsentInv /\ OpenInv /\ EndedInv
  BY DEF ScanInv, UnsentInv, OpenInv, EndedInv
<1> QED BY <1>1, <1>2, <1>3 DEF GroupInv

\* What a head has taken after it has opened s.
LEMMA Taken ==
  ASSUME NEW q \in Seq(Sources), NEW s \in Sources
  PROVE  /\ Append(q, s) \in Seq(Sources)
         /\ DOMAIN Append(q, s) = 1..Len(q) + 1
         /\ \A i \in DOMAIN Append(q, s) :
              Append(q, s)[i] = IF i \in DOMAIN q THEN q[i] ELSE s
         /\ ToSet(Append(q, s)) = ToSet(q) \cup {s}
<1>1. /\ Append(q, s) \in Seq(Sources)
      /\ DOMAIN Append(q, s) = 1..Len(q) + 1
      /\ \A i \in DOMAIN Append(q, s) :
           Append(q, s)[i] = IF i \in DOMAIN q THEN q[i] ELSE s
  OBVIOUS
<1>2. DOMAIN q = 1..Len(q) /\ Len(q) \in Nat
  OBVIOUS
<1>3. ToSet(Append(q, s)) = ToSet(q) \cup {s}
  <2> DEFINE a == Append(q, s)
  <2>1. \A i \in DOMAIN a : a[i] \in ToSet(q) \cup {s}
    BY <1>1, <1>2 DEF ToSet
  <2>2. \A i \in DOMAIN q : i \in DOMAIN a /\ a[i] = q[i]
    BY <1>1, <1>2
  <2>3. Len(q) + 1 \in DOMAIN a /\ a[Len(q) + 1] = s
    BY <1>1, <1>2
  <2> HIDE DEF a
  <2>4. ToSet(a) = ToSet(q) \cup {s}
    BY <2>1, <2>2, <2>3, Zenon DEF ToSet
  <2> QED BY <2>4 DEF a
<1> QED BY <1>1, <1>3

\* A head that opens a later source than its earlier ones keeps the order.
LEMMA InOrder ==
  ASSUME NEW q \in Seq(Sources), NEW s \in Sources,
         \A i, j \in DOMAIN q : i < j => q[i] < q[j],
         \A i \in DOMAIN q : q[i] < s
  PROVE  \A i, j \in DOMAIN Append(q, s) :
           i < j => Append(q, s)[i] < Append(q, s)[j]
<1> DEFINE a == Append(q, s)
<1>1. /\ DOMAIN a = 1..Len(q) + 1 /\ DOMAIN q = 1..Len(q)
      /\ Len(q) \in Nat
      /\ \A i \in DOMAIN a : a[i] = IF i \in DOMAIN q THEN q[i] ELSE s
  BY Taken
<1> HIDE DEF a
<1>2. ASSUME NEW i \in DOMAIN a, NEW j \in DOMAIN a, i < j
      PROVE  a[i] < a[j]
  <2>1. i \in DOMAIN q /\ a[i] = q[i]
    BY <1>1, <1>2
  <2>2. CASE j \in DOMAIN q
    BY <1>1, <1>2, <2>1, <2>2
  <2>3. CASE j \notin DOMAIN q
    BY <1>1, <1>2, <2>1, <2>3
  <2> QED BY <2>2, <2>3
<1> QED BY <1>2 DEF a

\* Every step of a head and of its closeOnDone keeps GroupInv.
LEMMA GroupHead ==
  ASSUME GroupInv, NEW h \in Heads,
         HeadStep(h) \/ Abandon(h) \/ CloseOnDone(h)
  PROVE  GroupInv'
<1> USE DEF GroupInv, TypeOK, groupVars
<1>1. CASE Pull(h)
  <2> USE <1>1 DEF Pull
  <2>1. TypeOK'
    OBVIOUS
  <2>2. InOrderOnce'
    BY DEF InOrderOnce
  <2>3. ScanInv'
    BY DEF ScanInv, UnsentInv
  <2>4. UnsentInv'
    BY DEF ScanInv, UnsentInv
  <2>5. OpenInv'
    BY DEF ScanInv, OpenInv, UnsentInv
  <2>6. EndedInv'
    BY DEF EndedInv
  <2> QED BY <2>1, <2>2, <2>3, <2>4, <2>5, <2>6
<1>2. CASE Open(h)
  <2> USE <1>2 DEF Open, Return
  <2> DEFINE s == Offered
  <2>1. s = sent + 1 /\ s \in Sources /\ sent \in Nat
    BY DEF Offered
  <2> HIDE DEF s
  <2>2. CASE /\ sc' = [sc EXCEPT ![h] = s]
             /\ status' = [status EXCEPT ![s] = "open"]
             /\ scanners' = scanners \cup {s}
             /\ taken' = [taken EXCEPT ![h] = Append(@, s)]
             /\ UNCHANGED <<hpc, failed>>
    <3> USE <2>1, <2>2
    <3>1. /\ Append(taken[h], s) \in Seq(Sources)
          /\ DOMAIN Append(taken[h], s) = 1..Len(taken[h]) + 1
          /\ \A i \in DOMAIN Append(taken[h], s) :
               Append(taken[h], s)[i] = IF i \in DOMAIN taken[h] THEN taken[h][i] ELSE s
          /\ ToSet(Append(taken[h], s)) = ToSet(taken[h]) \cup {s}
      BY Taken
    <3>2. DOMAIN taken[h] = 1..Len(taken[h]) /\ Len(taken[h]) \in Nat
      OBVIOUS
    <3>3. \A g \in Heads : s \notin ToSet(taken[g])
      BY DEF UnsentInv, ToSet
    <3>4. TypeOK'
      BY <3>1
    <3>5. InOrderOnce'
      <4>1. ASSUME NEW g \in Heads, NEW i \in DOMAIN taken'[g],
                   NEW j \in DOMAIN taken'[g], i < j
            PROVE  taken'[g][i] < taken'[g][j]
        <5>1. CASE g # h
          BY <4>1, <5>1 DEF InOrderOnce
        <5>2. CASE g = h
          <6>1. taken'[g] = Append(taken[h], s)
            BY <5>2
          <6>2. /\ taken[h] \in Seq(Sources)
                /\ \A m, n \in DOMAIN taken[h] : m < n => taken[h][m] < taken[h][n]
                /\ \A m \in DOMAIN taken[h] : taken[h][m] < s
            BY DEF InOrderOnce, UnsentInv
          <6> QED BY <4>1, <6>1, <6>2, <2>1, InOrder
        <5> QED BY <5>1, <5>2
      <4>2. ASSUME NEW g \in Heads, NEW k \in Heads, g # k
            PROVE  ToSet(taken'[g]) \cap ToSet(taken'[k]) = {}
        <5>1. \A f \in Heads : ToSet(taken'[f]) =
                IF f = h THEN ToSet(taken[f]) \cup {s} ELSE ToSet(taken[f])
          BY <3>1
        <5>2. ToSet(taken[g]) \cap ToSet(taken[k]) = {}
          BY <4>2 DEF InOrderOnce
        <5>3. s \notin ToSet(taken[g]) /\ s \notin ToSet(taken[k])
          BY <3>3
        <5> HIDE <1>2, <2>2, <2>1
        <5> QED BY <4>2, <5>1, <5>2, <5>3
      <4> QED BY <4>1, <4>2 DEF InOrderOnce
    <3>6. ScanInv'
      BY DEF ScanInv, UnsentInv
    <3>7. UnsentInv'
      <4>1. \A g \in Heads : \A i \in DOMAIN taken'[g] : taken'[g][i] <= sent'
        <5>1. \A i \in DOMAIN Append(taken[h], s) : Append(taken[h], s)[i] <= s
          BY <3>1 DEF UnsentInv
        <5> QED BY <5>1 DEF UnsentInv
      <4> QED BY <4>1 DEF UnsentInv
    <3>8. OpenInv' /\ EndedInv'
      BY DEF OpenInv, EndedInv, UnsentInv
    <3> QED BY <3>4, <3>5, <3>6, <3>7, <3>8
  <2>3. CASE UNCHANGED <<hpc, sc, status, scanners, taken, failed>>
    <3> USE <2>1, <2>3
    <3>1. TypeOK' /\ InOrderOnce' /\ ScanInv'
      BY DEF InOrderOnce, ScanInv
    <3>2. UnsentInv' /\ OpenInv' /\ EndedInv'
      BY DEF UnsentInv, OpenInv, EndedInv
    <3> QED BY <3>1, <3>2
  <2>4. CASE /\ Faults
             /\ hpc' = [hpc EXCEPT ![h] = "ended"]
             /\ failed' = TRUE
             /\ UNCHANGED <<sc, status, scanners, taken>>
    <3> USE <2>1, <2>4
    <3>1. TypeOK' /\ InOrderOnce' /\ ScanInv'
      BY DEF InOrderOnce, ScanInv
    <3>2. UnsentInv' /\ OpenInv' /\ EndedInv'
      BY DEF UnsentInv, OpenInv, EndedInv
    <3> QED BY <3>1, <3>2
  <2> QED BY <2>2, <2>3, <2>4 DEF s
<1>3. CASE NoMore(h)
  <2> USE <1>3 DEF NoMore, Return, SourceErr, senderVars
  <2>1. TypeOK'
    OBVIOUS
  <2>2. InOrderOnce'
    BY DEF InOrderOnce
  <2>3. ScanInv'
    BY DEF ScanInv, UnsentInv
  <2>4. UnsentInv'
    BY DEF ScanInv, UnsentInv
  <2>5. OpenInv'
    BY DEF ScanInv, OpenInv, UnsentInv
  <2>6. EndedInv'
    BY DEF EndedInv
  <2> QED BY <2>1, <2>2, <2>3, <2>4, <2>5, <2>6
<1>4. CASE NextCanceled(h)
  <2> USE <1>4 DEF NextCanceled, Return, senderVars
  <2>1. TypeOK'
    OBVIOUS
  <2>2. InOrderOnce'
    BY DEF InOrderOnce
  <2>3. ScanInv'
    BY DEF ScanInv, UnsentInv
  <2>4. UnsentInv'
    BY DEF ScanInv, UnsentInv
  <2>5. OpenInv'
    BY DEF ScanInv, OpenInv, UnsentInv
  <2>6. EndedInv'
    BY DEF EndedInv
  <2> QED BY <2>1, <2>2, <2>3, <2>4, <2>5, <2>6
<1>5. CASE ScanBatch(h)
  <2> USE <1>5 DEF ScanBatch, Return, senderVars
  <2>1. TypeOK'
    <3>1. read' \in [Sources -> 0..Records]
      OBVIOUS
    <3>2. hpc' \in [Heads -> {"idle", "pull", "ended"}]
      OBVIOUS
    <3> QED BY <3>1, <3>2
  <2>2. InOrderOnce'
    BY DEF InOrderOnce
  <2>3. ScanInv'
    BY DEF ScanInv, UnsentInv
  <2>4. UnsentInv'
    BY DEF ScanInv, UnsentInv
  <2>5. OpenInv'
    BY DEF ScanInv, OpenInv, UnsentInv
  <2>6. EndedInv'
    BY DEF EndedInv
  <2> QED BY <2>1, <2>2, <2>3, <2>4, <2>5, <2>6
<1>6. CASE ScanEnd(h)
  <2> USE <1>6 DEF ScanEnd, DoneSource, senderVars
  <2>1. TypeOK'
    <3>1. read[sc[h]] \in Nat /\ sc[h] \in Sources
      OBVIOUS
    <3>2. stats' \in Nat
      BY <3>1
    <3>3. scanners' \subseteq Sources
      OBVIOUS
    <3>4. sc' \in [Heads -> Sources \cup {NoSource}]
      OBVIOUS
    <3>5. status' \in [Sources -> {"none", "open", "closed"}]
      OBVIOUS
    <3> QED BY <3>2, <3>3, <3>4, <3>5
  <2>2. InOrderOnce'
    BY DEF InOrderOnce
  <2>3. ScanInv'
    BY DEF ScanInv, UnsentInv
  <2>4. UnsentInv'
    BY DEF ScanInv, UnsentInv
  <2>5. OpenInv'
    BY DEF ScanInv, OpenInv, UnsentInv
  <2>6. EndedInv'
    BY DEF EndedInv
  <2> QED BY <2>1, <2>2, <2>3, <2>4, <2>5, <2>6
<1>7. CASE ScanFail(h)
  <2> USE <1>7 DEF ScanFail, Return, senderVars
  <2>1. TypeOK'
    OBVIOUS
  <2>2. InOrderOnce'
    BY DEF InOrderOnce
  <2>3. ScanInv'
    BY DEF ScanInv, UnsentInv
  <2>4. UnsentInv'
    BY DEF ScanInv, UnsentInv
  <2>5. OpenInv'
    BY DEF ScanInv, OpenInv, UnsentInv
  <2>6. EndedInv'
    BY DEF EndedInv
  <2> QED BY <2>1, <2>2, <2>3, <2>4, <2>5, <2>6
<1>8. CASE Abandon(h)
  <2> USE <1>8 DEF Abandon, Return, senderVars
  <2>1. TypeOK'
    OBVIOUS
  <2>2. InOrderOnce'
    BY DEF InOrderOnce
  <2>3. ScanInv'
    BY DEF ScanInv, UnsentInv
  <2>4. UnsentInv'
    BY DEF ScanInv, UnsentInv
  <2>5. OpenInv'
    BY DEF ScanInv, OpenInv, UnsentInv
  <2>6. EndedInv'
    BY DEF EndedInv
  <2> QED BY <2>1, <2>2, <2>3, <2>4, <2>5, <2>6
<1>9. CASE CloseOnDone(h)
  <2> USE <1>9 DEF CloseOnDone, senderVars
  <2>1. TypeOK'
    OBVIOUS
  <2>2. InOrderOnce'
    BY DEF InOrderOnce
  <2>3. ScanInv'
    BY DEF ScanInv, UnsentInv
  <2>4. UnsentInv'
    BY DEF ScanInv, UnsentInv
  <2>5. OpenInv'
    BY DEF ScanInv, OpenInv, UnsentInv
  <2>6. EndedInv'
    BY DEF EndedInv
  <2> QED BY <2>1, <2>2, <2>3, <2>4, <2>5, <2>6
<1> QED BY <1>1, <1>2, <1>3, <1>4, <1>5, <1>6, <1>7, <1>8, <1>9 DEF HeadStep

\* run's closing of the channel and the end of the context keep GroupInv.
LEMMA GroupOther ==
  ASSUME GroupInv, SenderClose \/ Cancel \/ UNCHANGED vars
  PROVE  GroupInv'
<1> USE DEF GroupInv, TypeOK, senderVars, groupVars, vars
<1>1. TypeOK' /\ InOrderOnce' /\ ScanInv'
  BY DEF SenderClose, Cancel, InOrderOnce, ScanInv
<1>2. UnsentInv' /\ OpenInv' /\ EndedInv'
  BY DEF SenderClose, Cancel, UnsentInv, OpenInv, EndedInv
<1> QED BY <1>1, <1>2

\* GroupInv is what the heads, the sender and the closers keep.
THEOREM GroupInvariant == Spec => []GroupInv
<1>1. Init => GroupInv
  BY GroupInit
<1>2. GroupInv /\ [Next]_vars => GroupInv'
  BY GroupHead, GroupOther DEF Next, Quit
<1> QED BY <1>1, <1>2, PTL DEF Spec

\* The sources of a MultiSource are shared out among the parallelHeads of
\* driver/parallel.go without one being opened by two heads, out of order, or
\* lost: whatever the number of heads and however they interleave with
\* SendSources and the end of the context, heads that all end without an
\* error have read every source to its end.
THEOREM SharingSafe == Spec => []SourcesShared
<1>1. GroupInv => EndMeansAll
  <2> SUFFICES ASSUME GroupInv, \A h \in Heads : hpc[h] = "ended",
                      ~failed, ~canceled
               PROVE  /\ sent = NumSources
                      /\ \A s \in Sources : status[s] # "none" =>
                           read[s] = Records /\ status[s] = "closed"
    BY DEF EndMeansAll
  <2>1. \A h \in Heads : sc[h] = NoSource /\ sender = "closed"
    BY DEF GroupInv, EndedInv
  <2>2. sent = NumSources
    BY <2>1 DEF GroupInv, UnsentInv
  <2>3. \A s \in Sources : status[s] # "open"
    BY <2>1 DEF GroupInv, OpenInv
  <2> QED BY <2>2, <2>3 DEF GroupInv, OpenInv, TypeOK
<1>2. GroupInv => SourcesShared
  BY <1>1 DEF GroupInv, SourcesShared
<1> QED BY GroupInvariant, <1>2, PTL

\* What the scanners of S have returned when r says how far each has read.
Returned(r, S) == {x \in S \X (1..Records) : x[2] <= r[x[1]]}

\* The batches that sources have returned are finitely many.
LEMMA ReturnedFinite ==
  ASSUME NEW r, NEW S \in SUBSET Sources
  PROVE  /\ IsFiniteSet(Returned(r, S))
         /\ Cardinality(Returned(r, S)) \in Nat
<1>1. IsFiniteSet(Sources) /\ IsFiniteSet(1..Records)
  BY FS_Interval
<1>2. IsFiniteSet(S)
  BY <1>1, FS_Subset
<1>3. IsFiniteSet(S \X (1..Records))
  BY <1>1, <1>2, FS_Product
<1>4. Returned(r, S) \in SUBSET (S \X (1..Records))
  BY DEF Returned
<1> QED BY <1>3, <1>4, FS_Subset, FS_CardinalityType

\* A scanner counts for as many batches as it has returned.
LEMMA ReturnedByOne ==
  ASSUME NEW r \in [Sources -> 0..Records], NEW s \in Sources
  PROVE  Cardinality(Returned(r, {s})) = r[s]
<1>1. Returned(r, {s}) = {s} \X (1..r[s])
  BY DEF Returned
<1>2. IsFiniteSet({s}) /\ Cardinality({s}) = 1
  BY FS_Singleton
<1>3. r[s] \in Nat
  OBVIOUS
<1>4. /\ IsFiniteSet(1..r[s])
      /\ Cardinality(1..r[s]) = IF 1 > r[s] THEN 0 ELSE r[s] - 1 + 1
  <2>1. 1 \in Int /\ r[s] \in Int
    BY <1>3
  <2> QED BY <2>1, FS_Interval, Zenon
<1>5. Cardinality({s} \X (1..r[s])) = 1 * Cardinality(1..r[s])
  BY <1>2, <1>4, FS_Product, Zenon
<1>6. Cardinality(1..r[s]) = r[s]
  BY <1>3, <1>4
<1>7. 1 * r[s] = r[s]
  BY <1>3
<1> QED BY <1>1, <1>5, <1>6, <1>7, Zenon

\* Taking a scanner out of a set takes out just its own batches.
LEMMA ReturnedWithout ==
  ASSUME NEW r \in [Sources -> 0..Records], NEW S \in SUBSET Sources,
         NEW s \in S
  PROVE  Cardinality(Returned(r, S)) = Cardinality(Returned(r, S \ {s})) + r[s]
<1>1. Returned(r, S) = Returned(r, S \ {s}) \cup Returned(r, {s})
  BY DEF Returned
<1>2. Returned(r, S \ {s}) \cap Returned(r, {s}) = {}
  BY DEF Returned
<1>3. /\ IsFiniteSet(Returned(r, S \ {s})) /\ IsFiniteSet(Returned(r, {s}))
      /\ Cardinality(Returned(r, S \ {s})) \in Nat
  BY ReturnedFinite
<1>4. Cardinality(Returned(r, {s})) = r[s] /\ r[s] \in Nat
  BY ReturnedByOne
<1>5. Cardinality(Returned(r, S \ {s}) \cup Returned(r, {s})) =
        Cardinality(Returned(r, S \ {s})) + Cardinality(Returned(r, {s})) - 0
  BY <1>2, <1>3, FS_Union, FS_EmptySet, Zenon
<1> QED BY <1>1, <1>3, <1>4, <1>5

\* A batch more of a scanner of S is a batch more of S.
LEMMA ReturnedOneMore ==
  ASSUME NEW r \in [Sources -> 0..Records], NEW S \in SUBSET Sources,
         NEW s \in S, r[s] < Records
  PROVE  Cardinality(Returned([r EXCEPT ![s] = @ + 1], S)) =
           Cardinality(Returned(r, S)) + 1
<1> DEFINE q == [r EXCEPT ![s] = @ + 1]
<1>1. q \in [Sources -> 0..Records] /\ q[s] = r[s] + 1
  OBVIOUS
<1>2. Returned(q, S \ {s}) = Returned(r, S \ {s})
  BY DEF Returned
<1>3. /\ Cardinality(Returned(q, S)) = Cardinality(Returned(q, S \ {s})) + q[s]
      /\ Cardinality(Returned(r, S)) = Cardinality(Returned(r, S \ {s})) + r[s]
  BY <1>1, ReturnedWithout
<1>4. r[s] \in Nat /\ Cardinality(Returned(r, S \ {s})) \in Nat
  BY ReturnedFinite
<1> HIDE DEF q
<1>5. Cardinality(Returned(q, S)) = Cardinality(Returned(r, S)) + 1
  BY <1>1, <1>2, <1>3, <1>4
<1> QED BY <1>5 DEF q

\* The group's statistics (parallelGroup.Stats) count every batch that any
\* scanner has returned, and none twice, at every moment of the heads' scans:
\* while a scan runs, when doneSource moves its count into the total, and when
\* closeOnDone closes it half way.
THEOREM StatsAreExact == Spec => []StatsExact
<1> USE DEF GroupInv, TypeOK, ScanInv, UnsentInv
<1>1. StatsExact <=>
        stats + Cardinality(Returned(read, scanners)) =
          Cardinality(Returned(read, Sources))
  BY DEF StatsExact, SumOver, BatchesOf, Returned
<1>2. StatsExact' <=>
        stats' + Cardinality(Returned(read', scanners')) =
          Cardinality(Returned(read', Sources))
  BY DEF StatsExact, SumOver, BatchesOf, Returned
<1>3. Init => StatsExact
  <2> SUFFICES ASSUME Init PROVE StatsExact
    OBVIOUS
  <2>1. Returned(read, scanners) = {} /\ Returned(read, Sources) = {}
    BY DEF Init, Returned
  <2>2. Cardinality({}) = 0
    BY FS_EmptySet
  <2>3. stats = 0
    BY DEF Init
  <2>4. 0 + 0 = 0
    OBVIOUS
  <2> QED BY <2>1, <2>2, <2>3, <2>4, <1>1, Zenon
<1>4. GroupInv /\ StatsExact /\ [Next]_vars => StatsExact'
  <2> SUFFICES ASSUME GroupInv, StatsExact, [Next]_vars
               PROVE  StatsExact'
    OBVIOUS
  <2>1. CASE UNCHANGED <<stats, read, scanners>>
    BY <2>1, <1>1, <1>2
  <2>2. ASSUME NEW h \in Heads, Open(h), UNCHANGED <<stats, read>>,
               scanners' = scanners \cup {Offered}
        PROVE  StatsExact'
    <3>0. /\ read \in [Sources -> 0..Records] /\ scanners \in SUBSET Sources
          /\ stats \in Nat
      OBVIOUS
    <3>1. Offered \in Sources /\ Offered \notin scanners /\ read[Offered] = 0
      BY <2>2 DEF Open, Offered
    <3>2. /\ scanners' \in SUBSET Sources /\ Offered \in scanners'
          /\ scanners = scanners' \ {Offered}
      BY <2>2, <3>1
    <3>3. Cardinality(Returned(read, scanners')) =
            Cardinality(Returned(read, scanners' \ {Offered})) + read[Offered]
      <4> HIDE DEF GroupInv, TypeOK, ScanInv, UnsentInv, Sources
      <4> QED BY <3>0, <3>2, ReturnedWithout
    <3>4. Cardinality(Returned(read, scanners)) \in Nat
      BY ReturnedFinite
    <3>5. Cardinality(Returned(read, scanners')) =
            Cardinality(Returned(read, scanners))
      BY <3>1, <3>2, <3>3, <3>4
    <3> QED BY <1>1, <1>2, <2>2, <3>5, Zenon
  <2>3. ASSUME NEW h \in Heads, ScanBatch(h)
        PROVE  StatsExact'
    <3>1. /\ sc[h] \in scanners /\ sc[h] \in Sources /\ read[sc[h]] < Records
          /\ read' = [read EXCEPT ![sc[h]] = @ + 1]
          /\ UNCHANGED <<stats, scanners>>
      BY <2>3 DEF ScanBatch, groupVars
    <3>2. Cardinality(Returned(read', scanners)) =
            Cardinality(Returned(read, scanners)) + 1
      BY <3>1, ReturnedOneMore
    <3>3. Cardinality(Returned(read', Sources)) =
            Cardinality(Returned(read, Sources)) + 1
      BY <3>1, ReturnedOneMore
    <3>4. /\ Cardinality(Returned(read, scanners)) \in Nat
          /\ Cardinality(Returned(read, Sources)) \in Nat
      BY ReturnedFinite
    <3> QED BY <1>1, <1>2, <3>1, <3>2, <3>3, <3>4
  <2>4. ASSUME NEW h \in Heads, ScanEnd(h)
        PROVE  StatsExact'
    <3>0. /\ read \in [Sources -> 0..Records] /\ scanners \in SUBSET Sources
          /\ stats \in Nat
      OBVIOUS
    <3>1. /\ sc[h] \in scanners /\ sc[h] \in Sources /\ read[sc[h]] \in Nat
          /\ scanners' = scanners \ {sc[h]}
          /\ stats' = stats + read[sc[h]]
          /\ UNCHANGED read
      BY <2>4 DEF ScanEnd, DoneSource
    <3>2. Cardinality(Returned(read, scanners)) =
            Cardinality(Returned(read, scanners \ {sc[h]})) + read[sc[h]]
      <4> HIDE DEF GroupInv, TypeOK, ScanInv, UnsentInv, Sources
      <4> QED BY <3>0, <3>1, ReturnedWithout
    <3>3. Cardinality(Returned(read, scanners \ {sc[h]})) \in Nat
      BY ReturnedFinite
    <3> QED BY <1>1, <1>2, <3>1, <3>2, <3>3
  <2>5. ASSUME NEW h \in Heads, HeadStep(h) \/ Abandon(h) \/ CloseOnDone(h)
        PROVE  StatsExact'
    <3>1. \/ UNCHANGED <<stats, read, scanners>>
          \/ Open(h) /\ UNCHANGED <<stats, read>> /\ scanners' = scanners \cup {Offered}
          \/ ScanBatch(h) \/ ScanEnd(h)
      BY <2>5 DEF HeadStep, Pull, Open, NoMore, NextCanceled, ScanFail, Abandon,
                  CloseOnDone, groupVars
    <3> QED BY <3>1, <2>1, <2>2, <2>3, <2>4
  <2>6. \/ \E h \in Heads : HeadStep(h) \/ Abandon(h) \/ CloseOnDone(h)
        \/ UNCHANGED <<stats, read, scanners>>
    BY DEF Next, SenderClose, Cancel, Quit, groupVars, vars
  <2> QED BY <2>1, <2>5, <2>6
<1> QED BY GroupInvariant, <1>3, <1>4, PTL DEF Spec
=============================================================================
