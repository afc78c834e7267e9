-------------------------- MODULE FlowgraphProofs ---------------------------
(***************************************************************************)
(* What holds of Flowgraph for any finite set of branches, any sizes of    *)
(* batches and any sequence of heads.                                      *)
(***************************************************************************)
EXTENDS Flowgraph, TLAPS, FiniteSetTheorems, SequenceTheorems

\* The hypothesis of every theorem here.
Setting ==
  /\ IsFiniteSet(Parents)
  /\ Supply \in Nat /\ WarnMax \in Nat
  /\ Sizes \subseteq Nat \ {0}
  /\ Limits \in Seq(Nat \ {0})

\* The records that a runner has in its hands: it waits for the merge to take
\* them, or was stopped and has lost them.  The others reached the heads.
InHands(p) == IF rpc[p] = "pull" THEN 0 ELSE rval[p].batch
Held == {x \in Parents \X Nat : 1 <= x[2] /\ x[2] <= InHands(x[1])}
Received == produced - Cardinality(Held)

\* What head h + 1 was given: what the merge received, or what head h let
\* through.
Fed(h) == IF h = 0 THEN Received ELSE counts[h]
Least(a, b) == IF a <= b THEN a ELSE b

\* Every head has let through all it was given, up to its limit.
HeadInv ==
  /\ IsFiniteSet(Held)
  /\ Received \in Nat
  /\ \A h \in Heads : counts[h] = Least(Fed(h - 1), Limits[h])

\* What left the last head is on its way to the driver, in the hands of the mux
\* goroutine or in its channel, or was written; until the driver gives up
\* nothing is lost, except the batch that a head was cutting when it panicked.
InMux == IF mpc = "send" THEN mval.batch ELSE 0
InChannel == IF in = <<>> THEN 0 ELSE in[1].batch
Out == written + InChannel + InMux
OutInv ==
  /\ mval.err = "panic" => mpc # "pull" /\ mval.batch = 0
  /\ Out <= Fed(Len(Limits))
  /\ dpc \in {"run", "ok"} /\ mval.err # "panic" => Out = Fed(Len(Limits))

\* merge.Proc counts the parents that have not ended, and end of stream comes
\* from a head at its limit or from a merge without parents.
Open == {p \in Parents : rpc[p] # "stopped" \/ rval[p] # EOS}
EndInv ==
  /\ Cardinality(Open) <= nparents
  /\ mpc # "pull" /\ mval = EOS => Exhausted \/ nparents = 0

\* The mux goroutine ends with the one result that is not a batch, and the
\* driver counts it when that result is taken.
ChannelInv ==
  /\ mpc = "ended" => ~IsBatch(mval)
  /\ mpc = "ended" /\ in # <<>> => in[1] = mval
  /\ in # <<>> /\ ~IsBatch(in[1]) => mpc = "ended"
  /\ mpc # "ended" \/ in # <<>> => runners = 1
  /\ dpc \in {"run", "ok"} /\ runners = 0 => mpc = "ended" /\ mval = EOS
  /\ dpc = "ok" => runners = 0

FlowInv ==
  /\ TypeOK
  /\ warnings <= warned
  /\ HeadInv /\ OutInv /\ EndInv /\ ChannelInv

-----------------------------------------------------------------------------
(***************************************************************************)
(* The heads.                                                              *)
(***************************************************************************)
\* A set of naturals that is not empty has a least member: the proofs about the
\* sequence of heads look at the first one that would not be as claimed.
LEMMA LeastMember ==
  ASSUME NEW T, T \subseteq Nat, T # {}
  PROVE  \E x \in T : \A y \in T : x <= y
<1>1. \E x \in T : \A y \in T : ~(<<y, x>> \in OpToRel(<, Nat))
  <2> DEFINE R == OpToRel(<, Nat)
  <2>1. IsWellFoundedOn(R, Nat)
    BY NatLessThanWellFounded
  <2> HIDE DEF R
  <2>2. \E x \in T : \A y \in T : ~(<<y, x>> \in R)
    BY <2>1, WFMin, Zenon
  <2> QED BY <2>2 DEF R
<1>2. PICK x \in T : \A y \in T : ~(<<y, x>> \in OpToRel(<, Nat))
  BY <1>1
<1>3. ASSUME NEW y \in T
      PROVE  x <= y
  <2>1. x \in Nat /\ y \in Nat
    OBVIOUS
  <2>2. y < x => <<y, x>> \in OpToRel(<, Nat)
    BY <2>1 DEF OpToRel
  <2>3. ~(<<y, x>> \in OpToRel(<, Nat))
    BY <1>2
  <2>4. ~(y < x)
    BY <2>2, <2>3, Zenon
  <2> QED BY <2>1, <2>4
<1> QED BY <1>3

\* The recursion over the heads defines Passed(s).
LEMMA PassedEquation ==
  ASSUME NEW s, Len(Limits) \in Nat
  PROVE  Passed(s) = [h \in 0..Len(Limits) |->
                        IF h = 0 THEN s ELSE Cut(Passed(s)[h - 1], h)]
<1> DEFINE Upto(m, f) == [h \in 0..m |-> IF h = 0 THEN s ELSE Cut(f[h - 1], h)]
<1> DEFINE T == {m \in 0..Len(Limits) : ~(\E f : f = Upto(m, f))}
<1>1. ASSUME T # {}
      PROVE  FALSE
  <2>1. T \subseteq Nat
    OBVIOUS
  <2> HIDE DEF T
  <2>2. PICK m \in T : \A y \in T : m <= y
    BY <1>1, <2>1, LeastMember, Zenon
  <2>3. m \in 0..Len(Limits) /\ ~(\E f : f = Upto(m, f))
    BY <2>2 DEF T
  <2>4. m # 0
    <3> DEFINE f == [h \in 0..0 |-> s]
    <3>1. f = Upto(0, f)
      OBVIOUS
    <3> QED BY <2>3, <3>1
  <2>5. m - 1 \in 0..Len(Limits) /\ ~(m <= m - 1)
    BY <2>3, <2>4
  <2>6. m - 1 \notin T
    BY <2>2, <2>5
  <2>7. PICK f : f = Upto(m - 1, f)
    BY <2>5, <2>6 DEF T
  <2> DEFINE g == [h \in 0..m |-> IF h = m THEN Cut(f[m - 1], m) ELSE f[h]]
  <2>8. ASSUME NEW h \in 0..m
        PROVE  g[h] = IF h = 0 THEN s ELSE Cut(g[h - 1], h)
    <3>1. CASE h = m
      BY <2>3, <2>4, <3>1
    <3>2. CASE h # m /\ h = 0
      BY <2>3, <2>5, <2>7, <3>2
    <3>3. CASE h # m /\ h # 0
      <4>1. h \in 0..(m - 1) /\ h - 1 \in 0..m /\ h - 1 # m
        BY <2>3, <3>3
      <4>2. g[h] = f[h] /\ g[h - 1] = f[h - 1]
        BY <3>3, <4>1
      <4>3. f[h] = Cut(f[h - 1], h)
        <5> HIDE DEF g
        <5> QED BY <2>7, <3>3, <4>1
      <4> QED BY <3>3, <4>2, <4>3
    <3> QED BY <3>1, <3>2, <3>3
  <2>9. g = Upto(m, g)
    <3>1. g = [h \in 0..m |-> g[h]]
      OBVIOUS
    <3> HIDE DEF g
    <3> QED BY <2>8, <3>1
  <2> QED BY <2>3, <2>9
<1>2. \E f : f = Upto(Len(Limits), f)
  BY <1>1
<1>3. \E f : f = [h \in 0..Len(Limits) |-> IF h = 0 THEN s ELSE Cut(f[h - 1], h)]
  BY <1>2
<1> QED BY <1>3 DEF Passed

\* Of a batch that comes to heads below their limits, each head lets through
\* what the one before did, or what it still needs; never nothing.
LEMMA PassedOn ==
  ASSUME Setting, counts \in [Heads -> Nat], ~Exhausted, NEW s \in Nat \ {0}
  PROVE  /\ Passed(s)[0] = s
         /\ \A h \in 0..Len(Limits) : Passed(s)[h] \in Nat \ {0}
         /\ \A h \in Heads :
              Passed(s)[h] = Least(Passed(s)[h - 1], Limits[h] - counts[h])
<1>1. /\ Len(Limits) \in Nat /\ Heads = 1..Len(Limits)
      /\ \A h \in Heads : Limits[h] \in Nat \ {0}
  BY LenProperties, ElementOfSeq DEF Setting, Heads
<1>2. \A h \in Heads : counts[h] \in Nat /\ counts[h] < Limits[h]
  BY <1>1 DEF Exhausted
<1> DEFINE P == Passed(s)
<1>3. P = [h \in 0..Len(Limits) |-> IF h = 0 THEN s ELSE Cut(P[h - 1], h)]
  BY <1>1, PassedEquation, Zenon
<1> HIDE DEF P
<1>4. /\ P[0] = s
      /\ \A h \in Heads : P[h] = Cut(P[h - 1], h)
  BY <1>1, <1>3
<1> DEFINE T == {m \in 0..Len(Limits) : P[m] \notin Nat \ {0}}
<1>5. ASSUME T # {}
      PROVE  FALSE
  <2>1. T \subseteq Nat
    OBVIOUS
  <2> HIDE DEF T
  <2>2. PICK m \in T : \A y \in T : m <= y
    BY <1>5, <2>1, LeastMember, Zenon
  <2>3. m \in 0..Len(Limits) /\ P[m] \notin Nat \ {0}
    BY <2>2 DEF T
  <2>4. m # 0
    BY <1>4, <2>3
  <2>5. m - 1 \in 0..Len(Limits) /\ ~(m <= m - 1) /\ m \in Heads
    BY <1>1, <2>3, <2>4
  <2>6. P[m - 1] \in Nat \ {0}
    BY <2>2, <2>5 DEF T
  <2>7. P[m] = Cut(P[m - 1], m)
    BY <1>4, <2>5
  <2>8. P[m] \in Nat \ {0}
    BY <1>1, <1>2, <2>5, <2>6, <2>7 DEF Cut, Remaining
  <2> QED BY <2>3, <2>8
<1>6. \A h \in 0..Len(Limits) : P[h] \in Nat \ {0}
  BY <1>5
<1>7. ASSUME NEW h \in Heads
      PROVE  P[h] = Least(P[h - 1], Limits[h] - counts[h])
  <2>1. P[h - 1] \in Nat /\ Limits[h] \in Nat /\ counts[h] \in Nat
    BY <1>1, <1>2, <1>6
  <2>2. P[h] = Cut(P[h - 1], h)
    BY <1>4
  <2> QED BY <2>1, <2>2 DEF Cut, Remaining, Least
<1> QED BY <1>4, <1>6, <1>7 DEF P

\* What the heads let through only falls from one to the next, and is what came
\* to the first of them or the limit of one.
LEMMA FedFalls ==
  ASSUME Setting, counts \in [Heads -> Nat], HeadInv
  PROVE  /\ \A h \in Heads : Fed(Len(Limits)) <= counts[h] /\ counts[h] <= Received
         /\ Fed(Len(Limits)) <= Received
         /\ Fed(Len(Limits)) \in {Received} \cup ToSet(Limits)
<1> DEFINE L == Len(Limits)
<1>1. /\ L \in Nat /\ Heads = 1..L
      /\ \A h \in Heads : Limits[h] \in Nat \ {0}
      /\ Received \in Nat
      /\ \A h \in Heads : counts[h] \in Nat
  BY LenProperties, ElementOfSeq DEF Setting, Heads, HeadInv
<1>2. \A h \in 0..L : Fed(h) \in Nat
  BY <1>1 DEF Fed
<1>3. \A h \in 1..L : Fed(h) = Least(Fed(h - 1), Limits[h]) /\ Fed(h) = counts[h]
  BY <1>1 DEF HeadInv, Fed
<1> HIDE DEF L
<1> DEFINE Good(m) == /\ \A i \in 0..m : Fed(m) <= Fed(i)
                      /\ Fed(m) \in {Received} \cup ToSet(Limits)
<1> DEFINE T == {m \in 0..L : ~Good(m)}
<1>4. ASSUME T # {}
      PROVE  FALSE
  <2>1. T \subseteq Nat
    BY <1>1
  <2> HIDE DEF T
  <2>2. PICK m \in T : \A y \in T : m <= y
    BY <1>4, <2>1, LeastMember, Zenon
  <2>3. m \in 0..L /\ ~Good(m)
    BY <2>2 DEF T
  <2>4. m # 0
    <3>1. Good(0)
      BY <1>1, <1>2 DEF Fed
    <3> QED BY <2>3, <3>1
  <2>5. m - 1 \in 0..L /\ ~(m <= m - 1) /\ m \in 1..L
    BY <1>1, <2>3, <2>4
  <2>6. Good(m - 1)
    BY <2>2, <2>5 DEF T
  <2>7. Fed(m) = Fed(m - 1) \/ (Fed(m) = Limits[m] /\ Fed(m) <= Fed(m - 1))
    BY <1>1, <1>2, <1>3, <2>5 DEF Least
  <2>8. Limits[m] \in ToSet(Limits)
    BY <1>1, <2>5 DEF ToSet, Heads
  <2>9. Good(m)
    <3>1. Fed(m) \in {Received} \cup ToSet(Limits)
      BY <2>6, <2>7, <2>8
    <3>2. ASSUME NEW i \in 0..m
          PROVE  Fed(m) <= Fed(i)
      <4>0. Fed(m) \in Nat /\ Fed(m - 1) \in Nat /\ Fed(i) \in Nat
        BY <1>1, <1>2, <2>5
      <4>1. CASE i = m
        BY <4>0, <4>1
      <4>2. CASE i # m
        <5>1. i \in 0..(m - 1)
          BY <2>5, <4>2
        <5>2. Fed(m - 1) <= Fed(i)
          BY <2>6, <5>1
        <5> QED BY <2>7, <4>0, <5>2
      <4> QED BY <4>1, <4>2
    <3> QED BY <3>1, <3>2
  <2> QED BY <2>3, <2>9
<1>5. \A h \in 0..L : Good(h)
  BY <1>4
<1>6. Fed(0) = Received
  BY DEF Fed
<1> QED BY <1>1, <1>3, <1>5, <1>6 DEF L

-----------------------------------------------------------------------------
(***************************************************************************)
(* The records in the hands of the runners.                                *)
(***************************************************************************)
\* A pile of s records is s records.
LEMMA PileSize ==
  ASSUME NEW p, NEW s \in Nat
  PROVE  IsFiniteSet({p} \X (1..s)) /\ Cardinality({p} \X (1..s)) = s
<1>1. IsFiniteSet(1..s) /\ Cardinality(1..s) = s
  BY FS_Interval
<1>2. IsFiniteSet({p}) /\ Cardinality({p}) = 1
  BY FS_Singleton, Zenon
<1>3. /\ IsFiniteSet({p} \X (1..s))
      /\ Cardinality({p} \X (1..s)) = Cardinality({p}) * Cardinality(1..s)
  BY <1>1, <1>2, FS_Product, Zenon
<1> QED BY <1>1, <1>2, <1>3

\* A parent's result comes into the hands of its runner ...
LEMMA HandsFill ==
  ASSUME IsFiniteSet(Held), NEW p \in Parents, NEW s \in Nat,
         InHands(p) = 0, InHands(p)' = s,
         \A q \in Parents \ {p} : InHands(q)' = InHands(q)
  PROVE  /\ IsFiniteSet(Held')
         /\ Cardinality(Held') = Cardinality(Held) + s
         /\ Cardinality(Held) \in Nat
<1> DEFINE B == {p} \X (1..s)
<1>1. Held' = Held \cup B
  <2>1. \A q \in Parents, i \in Nat :
          <<q, i>> \in Held' <=> <<q, i>> \in Held \cup B
    BY DEF Held
  <2>2. Held' \subseteq Parents \X Nat /\ Held \cup B \subseteq Parents \X Nat
    BY DEF Held
  <2> HIDE DEF B
  <2> QED BY <2>1, <2>2
<1>2. Held \cap B = {}
  BY DEF Held
<1>3. IsFiniteSet(B) /\ Cardinality(B) = s
  BY PileSize
<1> HIDE DEF B
<1>4. /\ IsFiniteSet(Held \cup B)
      /\ Cardinality(Held \cup B) = Cardinality(Held) + Cardinality(B) - Cardinality(Held \cap B)
  BY <1>3, FS_Union, Zenon
<1>5. Cardinality({}) = 0 /\ Cardinality(Held) \in Nat
  BY FS_EmptySet, FS_CardinalityType, Zenon
<1>6. Cardinality(Held \cap B) = 0
  BY <1>2, <1>5
<1>7. Cardinality(Held') = Cardinality(Held \cup B) /\ IsFiniteSet(Held')
  BY <1>1, <1>4
<1> QED BY <1>3, <1>4, <1>5, <1>6, <1>7

\* ... and leaves them for the heads.
LEMMA HandsEmpty ==
  ASSUME IsFiniteSet(Held), NEW p \in Parents, NEW s \in Nat,
         InHands(p) = s, InHands(p)' = 0,
         \A q \in Parents \ {p} : InHands(q)' = InHands(q)
  PROVE  /\ IsFiniteSet(Held')
         /\ Cardinality(Held') = Cardinality(Held) - s
         /\ Cardinality(Held) \in Nat /\ Cardinality(Held') \in Nat
<1> DEFINE B == {p} \X (1..s)
<1>1. Held' = Held \ B
  <2>1. \A q \in Parents, i \in Nat :
          <<q, i>> \in Held' <=> <<q, i>> \in Held \ B
    BY DEF Held
  <2>2. Held' \subseteq Parents \X Nat /\ Held \ B \subseteq Parents \X Nat
    BY DEF Held
  <2> HIDE DEF B
  <2> QED BY <2>1, <2>2
<1>2. Held \cap B = B
  <2>1. \A i \in 1..s : <<p, i>> \in Held
    BY DEF Held
  <2>2. B \subseteq Held
    BY <2>1
  <2> QED BY <2>2
<1>3. IsFiniteSet(B) /\ Cardinality(B) = s
  BY PileSize
<1> HIDE DEF B
<1>4. /\ IsFiniteSet(Held \ B)
      /\ Cardinality(Held \ B) = Cardinality(Held) - Cardinality(Held \cap B)
  BY FS_Difference, Zenon
<1>5. Cardinality(Held) \in Nat /\ Cardinality(Held \ B) \in Nat
  BY <1>4, FS_CardinalityType, Zenon
<1> QED BY <1>1, <1>2, <1>3, <1>4, <1>5

\* A step that leaves the runners' hands and the heads alone.
LEMMA HandsRest ==
  ASSUME HeadInv, \A p \in Parents : InHands(p)' = InHands(p),
         UNCHANGED <<produced, counts>>
  PROVE  HeadInv' /\ \A h : Fed(h)' = Fed(h)
<1>1. Held' = Held
  BY DEF Held
<1>2. Received' = Received
  BY <1>1 DEF Received
<1>3. \A h : Fed(h)' = Fed(h)
  BY <1>2 DEF Fed
<1>4. HeadInv'
  BY <1>1, <1>2, <1>3 DEF HeadInv, Least
<1> QED BY <1>3, <1>4

\* What HeadInv and the type invariant say of Fed and Out.
LEMMA FedType ==
  ASSUME Setting, TypeOK, HeadInv
  PROVE  /\ Len(Limits) \in Nat /\ Heads = 1..Len(Limits)
         /\ \A h \in 0..Len(Limits) : Fed(h) \in Nat
         /\ \A h \in Heads : counts[h] \in Nat /\ Limits[h] \in Nat \ {0}
         /\ Received \in Nat
         /\ InMux \in Nat /\ InChannel \in Nat
<1>1. Len(Limits) \in Nat /\ Heads = 1..Len(Limits)
  BY LenProperties DEF Setting, Heads
<1>2. \A h \in Heads : counts[h] \in Nat /\ Limits[h] \in Nat \ {0}
  BY <1>1, ElementOfSeq DEF Setting, TypeOK
<1>3. Received \in Nat
  BY DEF HeadInv
<1>4. \A h \in 0..Len(Limits) : Fed(h) \in Nat
  BY <1>1, <1>2, <1>3 DEF Fed
<1>5. InMux \in Nat
  BY DEF TypeOK, Results, InMux
<1>6. InChannel \in Nat
  <2>1. in # <<>> => in[1] \in Results
    BY DEF TypeOK
  <2> QED BY <2>1 DEF Results, InChannel
<1> QED BY <1>1, <1>2, <1>3, <1>4, <1>5, <1>6

-----------------------------------------------------------------------------
(***************************************************************************)
(* The invariant.                                                          *)
(***************************************************************************)
\* The mux's channel holds one result at most.
LEMMA OneInChannel ==
  ASSUME TypeOK
  PROVE  /\ in # <<>> => /\ Head(in) = in[1] /\ in[1] \in Results
                         /\ Tail(in) = <<>> /\ Tail(in) \in Seq(Results)
         /\ HasRoom => in = <<>>
         /\ \A x \in Results : /\ Append(<<>>, x) = <<x>> /\ <<x>> # <<>>
                               /\ <<x>> \in Seq(Results) /\ Len(<<x>>) = 1
                               /\ <<x>>[1] = x
<1>1. in \in Seq(Results) /\ Len(in) <= 1 /\ Len(in) \in Nat
  BY LenProperties DEF TypeOK
<1>2. ASSUME in # <<>>
      PROVE  /\ Head(in) = in[1] /\ in[1] \in Results
             /\ Tail(in) = <<>> /\ Tail(in) \in Seq(Results)
  <2>0. Len(in) # 0
    BY <1>1, <1>2, EmptySeq, Zenon
  <2>9. \A k \in Nat : k <= 1 /\ k # 0 => k = 1
    OBVIOUS
  <2>1. Len(in) = 1
    BY <1>1, <2>0, <2>9, Zenon
  <2>2. Tail(in) \in Seq(Results) /\ Len(Tail(in)) = 0
    BY <1>1, <1>2, <2>1, HeadTailProperties
  <2>3. Tail(in) = <<>>
    BY <2>2, EmptySeq
  <2> QED BY <1>1, <2>1, <2>2, <2>3
<1>3. HasRoom => in = <<>>
  BY <1>1, EmptySeq DEF HasRoom
<1>4. \A x \in Results : /\ Append(<<>>, x) = <<x>> /\ <<x>> # <<>>
                         /\ <<x>> \in Seq(Results) /\ Len(<<x>>) = 1
                         /\ <<x>>[1] = x
  OBVIOUS
<1> QED BY <1>2, <1>3, <1>4

\* The initial state.
LEMMA FlowInit ==
  ASSUME Setting, Init
  PROVE  FlowInv
<1>1. /\ Len(Limits) \in Nat /\ Heads = 1..Len(Limits)
      /\ \A h \in Heads : Limits[h] \in Nat \ {0}
  BY LenProperties, ElementOfSeq DEF Setting, Heads
<1>2. Cardinality(Parents) \in Nat
  BY FS_CardinalityType DEF Setting
<1>3. TypeOK
  <2>1. <<>> \in Seq(Results) /\ Len(<<>>) = 0
    OBVIOUS
  <2>2. EOS \in Results
    BY DEF EOS, Results
  <2>3. nparents \in 0..Cardinality(Parents)
    BY <1>2 DEF Init
  <2>4. rval \in [Parents -> Results] /\ mval \in Results
    BY <2>2 DEF Init
  <2>5. {warned, warnings} \subseteq 0..WarnMax /\ given \in [Parents -> 0..Supply]
    BY DEF Setting, Init
  <2>6. counts \in [Heads -> Nat] /\ in \in Seq(Results) /\ Len(in) <= 1
    BY <2>1 DEF Init, Heads
  <2>7. {produced, written, ends} \subseteq Nat
    BY DEF Init
  <2>10. {doneCh, canceled} \subseteq BOOLEAN
    <3>1. {FALSE} \subseteq BOOLEAN /\ doneCh = FALSE /\ canceled = FALSE
      BY Zenon DEF Init
    <3> QED BY <3>1, Zenon
  <2>8. /\ rpc \in [Parents -> {"pull", "send", "stopped"}]
        /\ mpc \in {"pull", "send", "ended"}
        /\ runners \in 0..1
        /\ dpc \in {"run", "drain", "ok", "failed"} \cup Failures
    BY DEF Init
  <2> QED BY <2>3, <2>4, <2>5, <2>6, <2>7, <2>8, <2>10 DEF TypeOK
<1>4. Held = {}
  BY DEF Init, Held, InHands
<1>5. IsFiniteSet(Held) /\ Cardinality(Held) = 0
  BY <1>4, FS_EmptySet
<1>6. Received = 0
  BY <1>5 DEF Init, Received
<1>7. \A h \in 0..Len(Limits) : Fed(h) = 0
  BY <1>1, <1>6 DEF Init, Fed
<1>8. HeadInv
  <2>1. ASSUME NEW h \in Heads
        PROVE  counts[h] = Least(Fed(h - 1), Limits[h])
    <3>1. h - 1 \in 0..Len(Limits) /\ counts[h] = 0 /\ Limits[h] \in Nat
      BY <1>1 DEF Init, Heads
    <3> QED BY <1>7, <3>1 DEF Least
  <2> QED BY <1>5, <1>6, <2>1 DEF HeadInv
<1>9. OutInv
  BY <1>1, <1>7 DEF Init, OutInv, Out, InMux, InChannel, EOS
<1>10. EndInv
  <2>1. Open = Parents
    BY DEF Init, Open
  <2> QED BY <1>2, <2>1 DEF Init, EndInv
<1>11. ChannelInv
  BY DEF Init, ChannelInv
<1> QED BY <1>3, <1>8, <1>9, <1>10, <1>11 DEF Init, FlowInv

\* A warning of a proc.
LEMMA FlowWarn ==
  ASSUME Setting, FlowInv, Warn
  PROVE  FlowInv'
<1> USE DEF mergeVars, muxVars, driverVars
<1>1. /\ TypeOK /\ HeadInv /\ OutInv /\ EndInv /\ ChannelInv
      /\ warnings \in Nat /\ warned \in Nat /\ warnings <= warned /\ WarnMax \in Nat
      /\ warned <= WarnMax
  BY DEF Setting, FlowInv, TypeOK
<1>2. /\ in # <<>> => /\ Head(in) = in[1] /\ in[1] \in Results
                      /\ Tail(in) = <<>> /\ Tail(in) \in Seq(Results)
      /\ HasRoom => in = <<>>
      /\ \A x \in Results : /\ Append(<<>>, x) = <<x>> /\ <<x>> # <<>>
                            /\ <<x>> \in Seq(Results) /\ Len(<<x>>) = 1
                            /\ <<x>>[1] = x
  BY <1>1, OneInChannel
<1>3. /\ Len(Limits) \in Nat /\ Fed(Len(Limits)) \in Nat
      /\ InMux \in Nat /\ InChannel \in Nat
  BY <1>1, FedType
<1>4. HeadInv' /\ Fed(Len(Limits))' = Fed(Len(Limits))
  <2>1. UNCHANGED <<rpc, rval, produced, counts>>
    BY DEF Warn
  <2>2. \A p \in Parents : InHands(p)' = InHands(p)
    BY <2>1 DEF InHands
  <2> QED BY <1>1, <2>1, <2>2, HandsRest
<1>5. TypeOK' /\ warnings' <= warned'
  BY <1>1, <1>2 DEF Warn, TypeOK, Results, Failures, ChannelInv
<1>6. OutInv'
  BY <1>1, <1>2, <1>3, <1>4 DEF Warn, TypeOK, Results, OutInv, Out, InMux, InChannel, ChannelInv, IsBatch
<1>7. EndInv'
  <2>1. Open' = Open /\ Exhausted' = Exhausted
    BY DEF Warn, Open, Exhausted
  <2> QED BY <1>1, <2>1 DEF Warn, EndInv, IsBatch, EOS
<1>8. ChannelInv'
  BY <1>1, <1>2 DEF Warn, TypeOK, Results, ChannelInv, IsBatch, EOS
<1> QED BY <1>4, <1>5, <1>6, <1>7, <1>8 DEF FlowInv

\* The mux goroutine is told the end.
LEMMA FlowMuxEOS ==
  ASSUME Setting, FlowInv, MuxEOS
  PROVE  FlowInv'
<1> USE DEF mergeVars, muxVars, driverVars
<1>1. /\ TypeOK /\ HeadInv /\ OutInv /\ EndInv /\ ChannelInv
      /\ warnings \in Nat /\ warned \in Nat /\ warnings <= warned /\ WarnMax \in Nat
      /\ warned <= WarnMax
  BY DEF Setting, FlowInv, TypeOK
<1>2. /\ in # <<>> => /\ Head(in) = in[1] /\ in[1] \in Results
                      /\ Tail(in) = <<>> /\ Tail(in) \in Seq(Results)
      /\ HasRoom => in = <<>>
      /\ \A x \in Results : /\ Append(<<>>, x) = <<x>> /\ <<x>> # <<>>
                            /\ <<x>> \in Seq(Results) /\ Len(<<x>>) = 1
                            /\ <<x>>[1] = x
  BY <1>1, OneInChannel
<1>3. /\ Len(Limits) \in Nat /\ Fed(Len(Limits)) \in Nat
      /\ InMux \in Nat /\ InChannel \in Nat
  BY <1>1, FedType
<1>4. HeadInv' /\ Fed(Len(Limits))' = Fed(Len(Limits))
  <2>1. UNCHANGED <<rpc, rval, produced, counts>>
    BY DEF MuxEOS
  <2>2. \A p \in Parents : InHands(p)' = InHands(p)
    BY <2>1 DEF InHands
  <2> QED BY <1>1, <2>1, <2>2, HandsRest
<1>5. TypeOK' /\ warnings' <= warned'
  BY <1>1, <1>2 DEF MuxEOS, TypeOK, Results, Failures, ChannelInv, EOS
<1>6. OutInv'
  BY <1>1, <1>2, <1>3, <1>4 DEF MuxEOS, TypeOK, Results, OutInv, Out, InMux, InChannel, ChannelInv, IsBatch, EOS
<1>7. EndInv'
  <2>1. Open' = Open /\ Exhausted' = Exhausted
    BY DEF MuxEOS, Open, Exhausted
  <2> QED BY <1>1, <2>1 DEF MuxEOS, EndInv, IsBatch, EOS
<1>8. ChannelInv'
  BY <1>1, <1>2 DEF MuxEOS, TypeOK, Results, ChannelInv, IsBatch, EOS
<1> QED BY <1>4, <1>5, <1>6, <1>7, <1>8 DEF FlowInv

\* The merge sees the context done.
LEMMA FlowMuxCancel ==
  ASSUME Setting, FlowInv, MuxCancel
  PROVE  FlowInv'
<1> USE DEF mergeVars, muxVars, driverVars
<1>1. /\ TypeOK /\ HeadInv /\ OutInv /\ EndInv /\ ChannelInv
      /\ warnings \in Nat /\ warned \in Nat /\ warnings <= warned /\ WarnMax \in Nat
      /\ warned <= WarnMax
  BY DEF Setting, FlowInv, TypeOK
<1>2. /\ in # <<>> => /\ Head(in) = in[1] /\ in[1] \in Results
                      /\ Tail(in) = <<>> /\ Tail(in) \in Seq(Results)
      /\ HasRoom => in = <<>>
      /\ \A x \in Results : /\ Append(<<>>, x) = <<x>> /\ <<x>> # <<>>
                            /\ <<x>> \in Seq(Results) /\ Len(<<x>>) = 1
                            /\ <<x>>[1] = x
  BY <1>1, OneInChannel
<1>3. /\ Len(Limits) \in Nat /\ Fed(Len(Limits)) \in Nat
      /\ InMux \in Nat /\ InChannel \in Nat
  BY <1>1, FedType
<1>4. HeadInv' /\ Fed(Len(Limits))' = Fed(Len(Limits))
  <2>1. UNCHANGED <<rpc, rval, produced, counts>>
    BY DEF MuxCancel
  <2>2. \A p \in Parents : InHands(p)' = InHands(p)
    BY <2>1 DEF InHands
  <2> QED BY <1>1, <2>1, <2>2, HandsRest
<1>5. TypeOK' /\ warnings' <= warned'
  BY <1>1, <1>2 DEF MuxCancel, TypeOK, Results, Failures, ChannelInv, Failure
<1>6. OutInv'
  BY <1>1, <1>2, <1>3, <1>4 DEF MuxCancel, TypeOK, Results, OutInv, Out, InMux, InChannel, ChannelInv, IsBatch, Failure
<1>7. EndInv'
  <2>1. Open' = Open /\ Exhausted' = Exhausted
    BY DEF MuxCancel, Open, Exhausted
  <2> QED BY <1>1, <2>1 DEF MuxCancel, EndInv, IsBatch, Failure, EOS
<1>8. ChannelInv'
  BY <1>1, <1>2 DEF MuxCancel, TypeOK, Results, ChannelInv, IsBatch, Failure, EOS
<1> QED BY <1>4, <1>5, <1>6, <1>7, <1>8 DEF FlowInv

\* The mux goroutine hands its result over.
LEMMA FlowMuxSend ==
  ASSUME Setting, FlowInv, MuxSend
  PROVE  FlowInv'
<1> USE DEF mergeVars, muxVars, driverVars
<1>1. /\ TypeOK /\ HeadInv /\ OutInv /\ EndInv /\ ChannelInv
      /\ warnings \in Nat /\ warned \in Nat /\ warnings <= warned /\ WarnMax \in Nat
      /\ warned <= WarnMax
  BY DEF Setting, FlowInv, TypeOK
<1>2. /\ in # <<>> => /\ Head(in) = in[1] /\ in[1] \in Results
                      /\ Tail(in) = <<>> /\ Tail(in) \in Seq(Results)
      /\ HasRoom => in = <<>>
      /\ \A x \in Results : /\ Append(<<>>, x) = <<x>> /\ <<x>> # <<>>
                            /\ <<x>> \in Seq(Results) /\ Len(<<x>>) = 1
                            /\ <<x>>[1] = x
  BY <1>1, OneInChannel
<1>3. /\ Len(Limits) \in Nat /\ Fed(Len(Limits)) \in Nat
      /\ InMux \in Nat /\ InChannel \in Nat
  BY <1>1, FedType
<1>4. HeadInv' /\ Fed(Len(Limits))' = Fed(Len(Limits))
  <2>1. UNCHANGED <<rpc, rval, produced, counts>>
    BY DEF MuxSend
  <2>2. \A p \in Parents : InHands(p)' = InHands(p)
    BY <2>1 DEF InHands
  <2> QED BY <1>1, <2>1, <2>2, HandsRest
<1>5. TypeOK' /\ warnings' <= warned'
  BY <1>1, <1>2 DEF MuxSend, TypeOK, Results, Failures, ChannelInv, AfterSend
<1>6. OutInv'
  BY <1>1, <1>2, <1>3, <1>4 DEF MuxSend, TypeOK, Results, OutInv, Out, InMux, InChannel, ChannelInv, IsBatch, AfterSend
<1>7. EndInv'
  <2>1. Open' = Open /\ Exhausted' = Exhausted
    BY DEF MuxSend, Open, Exhausted
  <2> QED BY <1>1, <2>1 DEF MuxSend, EndInv, IsBatch, AfterSend, EOS
<1>8. ChannelInv'
  BY <1>1, <1>2 DEF MuxSend, TypeOK, Results, ChannelInv, IsBatch, AfterSend, EOS
<1> QED BY <1>4, <1>5, <1>6, <1>7, <1>8 DEF FlowInv

\* A callback of the driver fails.
LEMMA FlowDriverFail ==
  ASSUME Setting, FlowInv, DriverFail
  PROVE  FlowInv'
<1> USE DEF mergeVars, muxVars, driverVars
<1>1. /\ TypeOK /\ HeadInv /\ OutInv /\ EndInv /\ ChannelInv
      /\ warnings \in Nat /\ warned \in Nat /\ warnings <= warned /\ WarnMax \in Nat
      /\ warned <= WarnMax
  BY DEF Setting, FlowInv, TypeOK
<1>2. /\ in # <<>> => /\ Head(in) = in[1] /\ in[1] \in Results
                      /\ Tail(in) = <<>> /\ Tail(in) \in Seq(Results)
      /\ HasRoom => in = <<>>
      /\ \A x \in Results : /\ Append(<<>>, x) = <<x>> /\ <<x>> # <<>>
                            /\ <<x>> \in Seq(Results) /\ Len(<<x>>) = 1
                            /\ <<x>>[1] = x
  BY <1>1, OneInChannel
<1>3. /\ Len(Limits) \in Nat /\ Fed(Len(Limits)) \in Nat
      /\ InMux \in Nat /\ InChannel \in Nat
  BY <1>1, FedType
<1>4. HeadInv' /\ Fed(Len(Limits))' = Fed(Len(Limits))
  <2>1. UNCHANGED <<rpc, rval, produced, counts>>
    BY DEF DriverFail
  <2>2. \A p \in Parents : InHands(p)' = InHands(p)
    BY <2>1 DEF InHands
  <2> QED BY <1>1, <2>1, <2>2, HandsRest
<1>5. TypeOK' /\ warnings' <= warned'
  BY <1>1, <1>2 DEF DriverFail, TypeOK, Results, Failures, ChannelInv
<1>6. OutInv'
  BY <1>1, <1>2, <1>3, <1>4 DEF DriverFail, TypeOK, Results, OutInv, Out, InMux, InChannel, ChannelInv, IsBatch
<1>7. EndInv'
  <2>1. Open' = Open /\ Exhausted' = Exhausted
    BY DEF DriverFail, Open, Exhausted
  <2> QED BY <1>1, <2>1 DEF DriverFail, EndInv, IsBatch, EOS
<1>8. ChannelInv'
  BY <1>1, <1>2 DEF DriverFail, TypeOK, Results, ChannelInv, IsBatch, EOS
<1> QED BY <1>4, <1>5, <1>6, <1>7, <1>8 DEF FlowInv

\* The driver takes a warning.
LEMMA FlowDriverWarning ==
  ASSUME Setting, FlowInv, DriverWarning
  PROVE  FlowInv'
<1> USE DEF mergeVars, muxVars, driverVars
<1>1. /\ TypeOK /\ HeadInv /\ OutInv /\ EndInv /\ ChannelInv
      /\ warnings \in Nat /\ warned \in Nat /\ warnings <= warned /\ WarnMax \in Nat
      /\ warned <= WarnMax
  BY DEF Setting, FlowInv, TypeOK
<1>2. /\ in # <<>> => /\ Head(in) = in[1] /\ in[1] \in Results
                      /\ Tail(in) = <<>> /\ Tail(in) \in Seq(Results)
      /\ HasRoom => in = <<>>
      /\ \A x \in Results : /\ Append(<<>>, x) = <<x>> /\ <<x>> # <<>>
                            /\ <<x>> \in Seq(Results) /\ Len(<<x>>) = 1
                            /\ <<x>>[1] = x
  BY <1>1, OneInChannel
<1>3. /\ Len(Limits) \in Nat /\ Fed(Len(Limits)) \in Nat
      /\ InMux \in Nat /\ InChannel \in Nat
  BY <1>1, FedType
<1>4. HeadInv' /\ Fed(Len(Limits))' = Fed(Len(Limits))
  <2>1. UNCHANGED <<rpc, rval, produced, counts>>
    BY DEF DriverWarning
  <2>2. \A p \in Parents : InHands(p)' = InHands(p)
    BY <2>1 DEF InHands
  <2> QED BY <1>1, <2>1, <2>2, HandsRest
<1>5. TypeOK' /\ warnings' <= warned'
  BY <1>1, <1>2 DEF DriverWarning, TypeOK, Results, Failures, ChannelInv
<1>6. OutInv'
  BY <1>1, <1>2, <1>3, <1>4 DEF DriverWarning, TypeOK, Results, OutInv, Out, InMux, InChannel, ChannelInv, IsBatch
<1>7. EndInv'
  <2>1. Open' = Open /\ Exhausted' = Exhausted
    BY DEF DriverWarning, Open, Exhausted
  <2> QED BY <1>1, <2>1 DEF DriverWarning, EndInv, IsBatch, EOS
<1>8. ChannelInv'
  BY <1>1, <1>2 DEF DriverWarning, TypeOK, Results, ChannelInv, IsBatch, EOS
<1> QED BY <1>4, <1>5, <1>6, <1>7, <1>8 DEF FlowInv

\* The driver takes a result: a batch is written, the end and an error end the mux.
LEMMA FlowDriverResult ==
  ASSUME Setting, FlowInv, DriverResult
  PROVE  FlowInv'
<1> USE DEF mergeVars, muxVars, driverVars
<1>1. /\ TypeOK /\ HeadInv /\ OutInv /\ EndInv /\ ChannelInv
      /\ warnings \in Nat /\ warned \in Nat /\ warnings <= warned /\ WarnMax \in Nat
      /\ warned <= WarnMax
  BY DEF Setting, FlowInv, TypeOK
<1>2. /\ in # <<>> => /\ Head(in) = in[1] /\ in[1] \in Results
                      /\ Tail(in) = <<>> /\ Tail(in) \in Seq(Results)
      /\ HasRoom => in = <<>>
      /\ \A x \in Results : /\ Append(<<>>, x) = <<x>> /\ <<x>> # <<>>
                            /\ <<x>> \in Seq(Results) /\ Len(<<x>>) = 1
                            /\ <<x>>[1] = x
  BY <1>1, OneInChannel
<1>3. /\ Len(Limits) \in Nat /\ Fed(Len(Limits)) \in Nat
      /\ InMux \in Nat /\ InChannel \in Nat
  BY <1>1, FedType
<1>4. HeadInv' /\ Fed(Len(Limits))' = Fed(Len(Limits))
  <2>1. UNCHANGED <<rpc, rval, produced, counts>>
    BY DEF DriverResult
  <2>2. \A p \in Parents : InHands(p)' = InHands(p)
    BY <2>1 DEF InHands
  <2> QED BY <1>1, <2>1, <2>2, HandsRest
<1>5. TypeOK' /\ warnings' <= warned'
  BY <1>1, <1>2 DEF DriverResult, TypeOK, Results, Failures, ChannelInv, EOS
<1>6. OutInv'
  BY <1>1, <1>2, <1>3, <1>4 DEF DriverResult, TypeOK, Results, OutInv, Out, InMux, InChannel, ChannelInv, IsBatch, EOS
<1>7. EndInv'
  <2>1. Open' = Open /\ Exhausted' = Exhausted
    BY DEF DriverResult, Open, Exhausted
  <2> QED BY <1>1, <2>1 DEF DriverResult, EndInv, IsBatch, EOS
<1>8. ChannelInv'
  <2>1. /\ in # <<>> /\ in' = <<>> /\ dpc = "run" /\ UNCHANGED <<mpc, mval>>
        /\ in[1] \in Results /\ runners = 1
        /\ runners' = IF IsBatch(in[1]) THEN runners ELSE runners - 1
        /\ dpc' \in {"run", "ok"} => in[1].err = "none"
        /\ dpc' # "ok"
    BY <1>1, <1>2 DEF DriverResult, ChannelInv, Results, Failures
  <2>2. CASE IsBatch(in[1])
    BY <1>1, <2>1, <2>2 DEF ChannelInv
  <2>3. CASE ~IsBatch(in[1])
    <3>1. mpc = "ended" /\ in[1] = mval /\ runners' = 0
      BY <1>1, <2>1, <2>3 DEF ChannelInv
    <3>2. in[1].err = "none" => in[1] = EOS
      BY <2>1, <2>3 DEF Results, IsBatch, EOS
    <3> QED BY <1>1, <2>1, <2>3, <3>1, <3>2 DEF ChannelInv
  <2> QED BY <2>2, <2>3
<1> QED BY <1>4, <1>5, <1>6, <1>7, <1>8 DEF FlowInv

\* The driver drops what it takes, after the context's error.
LEMMA FlowDrain ==
  ASSUME Setting, FlowInv, Drain
  PROVE  FlowInv'
<1> USE DEF mergeVars, muxVars, driverVars
<1>1. /\ TypeOK /\ HeadInv /\ OutInv /\ EndInv /\ ChannelInv
      /\ warnings \in Nat /\ warned \in Nat /\ warnings <= warned /\ WarnMax \in Nat
      /\ warned <= WarnMax
  BY DEF Setting, FlowInv, TypeOK
<1>2. /\ in # <<>> => /\ Head(in) = in[1] /\ in[1] \in Results
                      /\ Tail(in) = <<>> /\ Tail(in) \in Seq(Results)
      /\ HasRoom => in = <<>>
      /\ \A x \in Results : /\ Append(<<>>, x) = <<x>> /\ <<x>> # <<>>
                            /\ <<x>> \in Seq(Results) /\ Len(<<x>>) = 1
                            /\ <<x>>[1] = x
  BY <1>1, OneInChannel
<1>3. /\ Len(Limits) \in Nat /\ Fed(Len(Limits)) \in Nat
      /\ InMux \in Nat /\ InChannel \in Nat
  BY <1>1, FedType
<1>4. HeadInv' /\ Fed(Len(Limits))' = Fed(Len(Limits))
  <2>1. UNCHANGED <<rpc, rval, produced, counts>>
    BY DEF Drain
  <2>2. \A p \in Parents : InHands(p)' = InHands(p)
    BY <2>1 DEF InHands
  <2> QED BY <1>1, <2>1, <2>2, HandsRest
<1>5. TypeOK' /\ warnings' <= warned'
  BY <1>1, <1>2 DEF Drain, TypeOK, Results, Failures, ChannelInv
<1>6. OutInv'
  BY <1>1, <1>2, <1>3, <1>4 DEF Drain, TypeOK, Results, OutInv, Out, InMux, InChannel, ChannelInv, IsBatch
<1>7. EndInv'
  <2>1. Open' = Open /\ Exhausted' = Exhausted
    BY DEF Drain, Open, Exhausted
  <2> QED BY <1>1, <2>1 DEF Drain, EndInv, IsBatch, EOS
<1>8. ChannelInv'
  BY <1>1, <1>2 DEF Drain, TypeOK, Results, ChannelInv, IsBatch, EOS
<1> QED BY <1>4, <1>5, <1>6, <1>7, <1>8 DEF FlowInv

\* The driver returns.
LEMMA FlowDriverReturn ==
  ASSUME Setting, FlowInv, DriverReturn
  PROVE  FlowInv'
<1> USE DEF mergeVars, muxVars, driverVars
<1>1. /\ TypeOK /\ HeadInv /\ OutInv /\ EndInv /\ ChannelInv
      /\ warnings \in Nat /\ warned \in Nat /\ warnings <= warned /\ WarnMax \in Nat
      /\ warned <= WarnMax
  BY DEF Setting, FlowInv, TypeOK
<1>2. /\ in # <<>> => /\ Head(in) = in[1] /\ in[1] \in Results
                      /\ Tail(in) = <<>> /\ Tail(in) \in Seq(Results)
      /\ HasRoom => in = <<>>
      /\ \A x \in Results : /\ Append(<<>>, x) = <<x>> /\ <<x>> # <<>>
                            /\ <<x>> \in Seq(Results) /\ Len(<<x>>) = 1
                            /\ <<x>>[1] = x
  BY <1>1, OneInChannel
<1>3. /\ Len(Limits) \in Nat /\ Fed(Len(Limits)) \in Nat
      /\ InMux \in Nat /\ InChannel \in Nat
  BY <1>1, FedType
<1>4. HeadInv' /\ Fed(Len(Limits))' = Fed(Len(Limits))
  <2>1. UNCHANGED <<rpc, rval, produced, counts>>
    BY DEF DriverReturn
  <2>2. \A p \in Parents : InHands(p)' = InHands(p)
    BY <2>1 DEF InHands
  <2> QED BY <1>1, <2>1, <2>2, HandsRest
<1>5. TypeOK' /\ warnings' <= warned'
  BY <1>1, <1>2 DEF DriverReturn, TypeOK, Results, Failures, ChannelInv, Complete
<1>6. OutInv'
  BY <1>1, <1>2, <1>3, <1>4 DEF DriverReturn, TypeOK, Results, OutInv, Out, InMux, InChannel, ChannelInv, IsBatch, Complete
<1>7. EndInv'
  <2>1. Open' = Open /\ Exhausted' = Exhausted
    BY DEF DriverReturn, Open, Exhausted
  <2> QED BY <1>1, <2>1 DEF DriverReturn, EndInv, IsBatch, Complete, EOS
<1>8. ChannelInv'
  BY <1>1, <1>2 DEF DriverReturn, TypeOK, Results, ChannelInv, IsBatch, Complete, EOS
<1> QED BY <1>4, <1>5, <1>6, <1>7, <1>8 DEF FlowInv

\* The caller cancels.
LEMMA FlowCancel ==
  ASSUME Setting, FlowInv, Cancel
  PROVE  FlowInv'
<1> USE DEF mergeVars, muxVars, driverVars
<1>1. /\ TypeOK /\ HeadInv /\ OutInv /\ EndInv /\ ChannelInv
      /\ warnings \in Nat /\ warned \in Nat /\ warnings <= warned /\ WarnMax \in Nat
      /\ warned <= WarnMax
  BY DEF Setting, FlowInv, TypeOK
<1>2. /\ in # <<>> => /\ Head(in) = in[1] /\ in[1] \in Results
                      /\ Tail(in) = <<>> /\ Tail(in) \in Seq(Results)
      /\ HasRoom => in = <<>>
      /\ \A x \in Results : /\ Append(<<>>, x) = <<x>> /\ <<x>> # <<>>
                            /\ <<x>> \in Seq(Results) /\ Len(<<x>>) = 1
                            /\ <<x>>[1] = x
  BY <1>1, OneInChannel
<1>3. /\ Len(Limits) \in Nat /\ Fed(Len(Limits)) \in Nat
      /\ InMux \in Nat /\ InChannel \in Nat
  BY <1>1, FedType
<1>4. HeadInv' /\ Fed(Len(Limits))' = Fed(Len(Limits))
  <2>1. UNCHANGED <<rpc, rval, produced, counts>>
    BY DEF Cancel
  <2>2. \A p \in Parents : InHands(p)' = InHands(p)
    BY <2>1 DEF InHands
  <2> QED BY <1>1, <2>1, <2>2, HandsRest
<1>5. TypeOK' /\ warnings' <= warned'
  BY <1>1, <1>2 DEF Cancel, TypeOK, Results, Failures, ChannelInv
<1>6. OutInv'
  BY <1>1, <1>2, <1>3, <1>4 DEF Cancel, TypeOK, Results, OutInv, Out, InMux, InChannel, ChannelInv, IsBatch
<1>7. EndInv'
  <2>1. Open' = Open /\ Exhausted' = Exhausted
    BY DEF Cancel, Open, Exhausted
  <2> QED BY <1>1, <2>1 DEF Cancel, EndInv, IsBatch, EOS
<1>8. ChannelInv'
  BY <1>1, <1>2 DEF Cancel, TypeOK, Results, ChannelInv, IsBatch, EOS
<1> QED BY <1>4, <1>5, <1>6, <1>7, <1>8 DEF FlowInv

\* A branch gives its runner a result: nothing has reached the heads yet.
LEMMA FlowRunnerPull ==
  ASSUME Setting, FlowInv, NEW p \in Parents, RunnerPull(p)
  PROVE  FlowInv'
<1> USE DEF muxVars, driverVars
<1>1. /\ TypeOK /\ HeadInv /\ OutInv /\ EndInv /\ ChannelInv /\ warnings <= warned
      /\ Supply \in Nat
  BY DEF Setting, FlowInv
<1>2. PICK x \in Results :
        /\ rval' = [rval EXCEPT ![p] = x]
        /\ produced' = produced + x.batch
        /\ given' \in [Parents -> 0..Supply]
  <2>0. produced \in Nat /\ produced + 0 = produced /\ given \in [Parents -> 0..Supply]
    BY <1>1 DEF TypeOK
  <2>1. CASE \E s \in Sizes : /\ rval' = [rval EXCEPT ![p] = Batch(s)]
                              /\ produced' = produced + s
                              /\ given[p] < Supply
                              /\ given' = [given EXCEPT ![p] = @ + 1]
    <3>1. PICK s \in Sizes : /\ rval' = [rval EXCEPT ![p] = Batch(s)]
                             /\ produced' = produced + s
                             /\ given[p] < Supply
                             /\ given' = [given EXCEPT ![p] = @ + 1]
      BY <2>1
    <3>2. Batch(s) \in Results /\ Batch(s).batch = s
      BY DEF Setting, Batch, Results
    <3>3. given' \in [Parents -> 0..Supply]
      BY <1>1, <2>0, <3>1
    <3> QED BY <3>1, <3>2, <3>3
  <2>2. CASE rval' = [rval EXCEPT ![p] = EOS] /\ UNCHANGED <<given, produced>>
    <3>1. EOS \in Results /\ EOS.batch = 0
      BY DEF EOS, Results
    <3> QED BY <2>0, <2>2, <3>1
  <2>3. CASE \E e \in Failures : /\ rval' = [rval EXCEPT ![p] = Failure(e)]
                                 /\ UNCHANGED <<given, produced>>
    <3>1. \A e \in Failures : Failure(e) \in Results /\ Failure(e).batch = 0
      BY DEF Failure, Results
    <3> QED BY <2>0, <2>3, <3>1
  <2> QED BY <2>1, <2>2, <2>3 DEF RunnerPull, Failures
<1>3. /\ rpc[p] = "pull" /\ rpc' = [rpc EXCEPT ![p] = "send"]
      /\ UNCHANGED <<doneCh, nparents, counts, mpc, mval, in, warned, warnings, runners,
                     dpc, canceled, written, ends>>
  BY DEF RunnerPull
<1>4. x.batch \in Nat
  BY DEF Results
<1>5. TypeOK' /\ warnings' <= warned'
  <2>1. rpc' \in [Parents -> {"pull", "send", "stopped"}] /\ rval' \in [Parents -> Results]
    BY <1>1, <1>2, <1>3 DEF TypeOK
  <2>2. produced' \in Nat
    BY <1>1, <1>2, <1>4 DEF TypeOK
  <2> QED BY <1>1, <1>2, <1>3, <2>1, <2>2 DEF TypeOK, Heads
<1>6. HeadInv' /\ \A h : Fed(h)' = Fed(h)
  <2>1. /\ InHands(p) = 0 /\ InHands(p)' = x.batch
        /\ \A q \in Parents \ {p} : InHands(q)' = InHands(q)
    BY <1>1, <1>2, <1>3 DEF TypeOK, InHands
  <2>2. IsFiniteSet(Held)
    BY <1>1 DEF HeadInv
  <2>3. /\ IsFiniteSet(Held') /\ Cardinality(Held) \in Nat
        /\ Cardinality(Held') = Cardinality(Held) + x.batch
    BY <1>4, <2>1, <2>2, HandsFill
  <2>4. Received' = Received
    BY <1>1, <1>2, <1>4, <2>3 DEF Received, TypeOK
  <2>5. \A h : Fed(h)' = Fed(h)
    BY <1>3, <2>4 DEF Fed
  <2> QED BY <1>1, <1>3, <2>3, <2>4, <2>5 DEF HeadInv, Heads, Least
<1>7. OutInv'
  BY <1>1, <1>3, <1>6 DEF OutInv, Out, InMux, InChannel
<1>8. EndInv'
  <2>1. Open' = Open
    BY <1>1, <1>2, <1>3 DEF Open, TypeOK
  <2>2. Exhausted' = Exhausted
    BY <1>3 DEF Exhausted, Heads
  <2> QED BY <1>1, <1>3, <2>1, <2>2 DEF EndInv
<1>9. ChannelInv'
  BY <1>1, <1>3 DEF ChannelInv
<1> QED BY <1>5, <1>6, <1>7, <1>8, <1>9 DEF FlowInv

\* The parents that have not ended are finitely many, and fewer without p.
LEMMA OpenCount ==
  ASSUME Setting
  PROVE  /\ IsFiniteSet(Open) /\ Cardinality(Open) \in Nat
         /\ \A T \in SUBSET Open : Cardinality(T) \in Nat /\ Cardinality(T) <= Cardinality(Open)
         /\ \A p \in Open : Cardinality(Open \ {p}) = Cardinality(Open) - 1
         /\ Cardinality(Open) = 0 => Open = {}
<1>1. Open \in SUBSET Parents /\ IsFiniteSet(Parents)
  BY DEF Open, Setting
<1>2. IsFiniteSet(Open)
  BY <1>1, FS_Subset, Zenon
<1>3. \A T \in SUBSET Open : IsFiniteSet(T) /\ Cardinality(T) <= Cardinality(Open)
  BY <1>2, FS_Subset, Zenon
<1>4. Cardinality(Open) \in Nat /\ \A T \in SUBSET Open : Cardinality(T) \in Nat
  BY <1>2, <1>3, FS_CardinalityType, Zenon
<1>5. \A p \in Open : Cardinality(Open \ {p}) = Cardinality(Open) - 1
  BY <1>2, FS_RemoveElement
<1>6. Cardinality(Open) = 0 => Open = {}
  BY <1>2, FS_EmptySet, Zenon
<1> QED BY <1>2, <1>3, <1>4, <1>5, <1>6

\* A runner stops, and loses what it has in its hands.
LEMMA FlowRunnerStop ==
  ASSUME Setting, FlowInv, NEW p \in Parents, RunnerStop(p)
  PROVE  FlowInv'
<1> USE DEF muxVars, driverVars
<1>1. TypeOK /\ HeadInv /\ OutInv /\ EndInv /\ ChannelInv /\ warnings <= warned
  BY DEF FlowInv
<1>2. /\ rpc[p] = "send" /\ rpc' = [rpc EXCEPT ![p] = "stopped"]
      /\ UNCHANGED <<rval, given, produced, doneCh, nparents, counts, mpc, mval, in,
                     warned, warnings, runners, dpc, canceled, written, ends>>
  BY DEF RunnerStop
<1>3. TypeOK' /\ warnings' <= warned'
  <2>1. rpc' \in [Parents -> {"pull", "send", "stopped"}]
    BY <1>1, <1>2 DEF TypeOK
  <2> QED BY <1>1, <1>2, <2>1 DEF TypeOK, Heads
<1>4. HeadInv' /\ \A h : Fed(h)' = Fed(h)
  <2>1. \A q \in Parents : InHands(q)' = InHands(q)
    BY <1>1, <1>2 DEF TypeOK, InHands
  <2> QED BY <1>1, <1>2, <2>1, HandsRest
<1>5. OutInv'
  BY <1>1, <1>2, <1>4 DEF OutInv, Out, InMux, InChannel
<1>6. EndInv'
  <2>1. Open' \in SUBSET Open
    BY <1>1, <1>2 DEF Open, TypeOK
  <2>2. /\ Cardinality(Open) \in Nat
        /\ Cardinality(Open') \in Nat /\ Cardinality(Open') <= Cardinality(Open)
    BY <2>1, OpenCount, Zenon
  <2>3. Exhausted' = Exhausted
    BY <1>2 DEF Exhausted, Heads
  <2> QED BY <1>1, <1>2, <2>2, <2>3 DEF EndInv, TypeOK
<1>7. ChannelInv'
  BY <1>1, <1>2 DEF ChannelInv
<1> QED BY <1>3, <1>4, <1>5, <1>6, <1>7 DEF FlowInv

\* The merge receives the end of a parent or its error: no record.
LEMMA FlowReceiveEnd ==
  ASSUME Setting, FlowInv, NEW p \in Parents, MuxReceive(p), ~IsBatch(rval[p])
  PROVE  FlowInv'
<1> USE DEF driverVars
<1>1. /\ TypeOK /\ HeadInv /\ OutInv /\ EndInv /\ ChannelInv /\ warnings <= warned
  BY DEF FlowInv
<1>2. rval[p] \in Results /\ rval[p].batch = 0
  <2>1. rval[p] \in Results
    BY <1>1 DEF TypeOK
  <2> QED BY <2>1 DEF Results, IsBatch
<1>3. /\ mpc = "pull" /\ ~Exhausted /\ nparents > 0
      /\ rpc[p] = "send" /\ rpc' = [rpc EXCEPT ![p] = "stopped"]
      /\ UNCHANGED <<rval, given, produced, counts, doneCh, in, warned, warnings, runners,
                     dpc, canceled, written, ends>>
      /\ IF rval[p] = EOS THEN nparents' = nparents - 1 /\ UNCHANGED <<mpc, mval>>
         ELSE mval' = rval[p] /\ mpc' = "send" /\ UNCHANGED nparents
  BY DEF MuxReceive, Ended, Deliver
<1>4. TypeOK' /\ warnings' <= warned'
  <2>1. rpc' \in [Parents -> {"pull", "send", "stopped"}]
    BY <1>1, <1>3 DEF TypeOK
  <2>2. nparents' \in 0..Cardinality(Parents)
    <3>1. Cardinality(Parents) \in Nat
      BY FS_CardinalityType DEF Setting
    <3> QED BY <1>1, <1>3, <3>1 DEF TypeOK
  <2>3. mval' \in Results /\ mpc' \in {"pull", "send", "ended"}
    BY <1>1, <1>2, <1>3 DEF TypeOK
  <2> QED BY <1>1, <1>3, <2>1, <2>2, <2>3 DEF TypeOK, Heads
<1>5. HeadInv' /\ \A h : Fed(h)' = Fed(h)
  <2>1. \A q \in Parents : InHands(q)' = InHands(q)
    BY <1>1, <1>2, <1>3 DEF TypeOK, InHands
  <2> QED BY <1>1, <1>3, <2>1, HandsRest
<1>6. OutInv'
  <2>1. InMux = 0 /\ InMux' = 0
    BY <1>2, <1>3 DEF InMux
  <2>2. InChannel' = InChannel /\ Out' = Out
    BY <1>3, <2>1 DEF InChannel, Out
  <2>3. mval.err # "panic"
    BY <1>1, <1>3 DEF OutInv
  <2>4. mval'.err = "panic" => mpc' # "pull" /\ mval'.batch = 0
    BY <1>2, <1>3, <2>3
  <2> QED BY <1>1, <1>3, <1>5, <2>2, <2>3, <2>4 DEF OutInv
<1>7. EndInv'
  <2>1. Exhausted' = Exhausted /\ nparents \in Nat
    BY <1>1, <1>3 DEF Exhausted, Heads, TypeOK
  <2>2. CASE rval[p] = EOS
    <3>1. p \in Open /\ Open' = Open \ {p}
      BY <1>1, <1>3, <2>2 DEF Open, TypeOK
    <3>2. Cardinality(Open) \in Nat /\ Cardinality(Open') = Cardinality(Open) - 1
      BY <3>1, OpenCount
    <3> QED BY <1>1, <1>3, <2>1, <2>2, <3>2 DEF EndInv
  <2>3. CASE rval[p] # EOS
    <3>1. Open' \in SUBSET Open
      BY <1>1, <1>3 DEF Open, TypeOK
    <3>2. /\ Cardinality(Open) \in Nat
          /\ Cardinality(Open') \in Nat /\ Cardinality(Open') <= Cardinality(Open)
      BY <3>1, OpenCount, Zenon
    <3> QED BY <1>1, <1>3, <2>1, <2>3, <3>2 DEF EndInv
  <2> QED BY <2>2, <2>3
<1>8. ChannelInv'
  BY <1>1, <1>3 DEF ChannelInv
<1> QED BY <1>4, <1>5, <1>6, <1>7, <1>8 DEF FlowInv

\* The merge receives a batch and the heads take from it what they need.
LEMMA FlowReceiveBatch ==
  ASSUME Setting, FlowInv, NEW p \in Parents, MuxReceive(p), IsBatch(rval[p])
  PROVE  FlowInv'
<1> USE DEF driverVars
<1> DEFINE s == rval[p].batch
           L == Len(Limits)
<1>1. /\ TypeOK /\ HeadInv /\ OutInv /\ EndInv /\ ChannelInv /\ warnings <= warned
  BY DEF FlowInv
<1>2. rval[p] \in Results /\ s \in Nat \ {0}
  <2>1. rval[p] \in Results
    BY <1>1 DEF TypeOK
  <2> QED BY <2>1 DEF Results, IsBatch
<1>3. /\ mpc = "pull" /\ ~Exhausted /\ mpc' = "send"
      /\ rpc[p] = "send" /\ rpc' = [rpc EXCEPT ![p] = "pull"]
      /\ UNCHANGED <<nparents, rval, given, produced, in, warned, warnings, runners,
                     dpc, canceled, written, ends>>
      /\ counts' = [h \in Heads |-> counts[h] + Passed(s)[h]]
      /\ doneCh' = (doneCh \/ Finishing(s) # {})
      /\ mval' = Failure("panic") \/ mval' = Batch(Passed(s)[L])
  <2>1. rval[p] # EOS
    BY DEF EOS, IsBatch
  <2> QED BY <2>1 DEF MuxReceive, Ended, Deliver
<1> DEFINE P == Passed(s)
<1>4. /\ P[0] = s
      /\ \A h \in 0..L : P[h] \in Nat \ {0}
      /\ \A h \in Heads : P[h] = Least(P[h - 1], Limits[h] - counts[h])
  <2>1. counts \in [Heads -> Nat]
    BY <1>1 DEF TypeOK
  <2> HIDE DEF s, P
  <2>2. /\ Passed(s)[0] = s
        /\ \A h \in 0..Len(Limits) : Passed(s)[h] \in Nat \ {0}
        /\ \A h \in Heads :
             Passed(s)[h] = Least(Passed(s)[h - 1], Limits[h] - counts[h])
    BY <1>2, <1>3, <2>1, PassedOn
  <2> QED BY <2>2 DEF P
<1>5. /\ L \in Nat /\ Heads = 1..L
      /\ \A h \in 0..L : Fed(h) \in Nat
      /\ \A h \in Heads : counts[h] \in Nat /\ Limits[h] \in Nat \ {0}
      /\ Received \in Nat /\ InMux \in Nat /\ InChannel \in Nat
  BY <1>1, FedType
<1>6. counts' = [h \in Heads |-> counts[h] + P[h]]
  BY <1>3
<1>7. mval' = Failure("panic") \/ mval' = Batch(P[L])
  BY <1>3
<1> HIDE DEF s, P, L
<1>8. TypeOK' /\ warnings' <= warned'
  <2>1. rpc' \in [Parents -> {"pull", "send", "stopped"}]
    BY <1>1, <1>3 DEF TypeOK
  <2>2. counts' \in [Heads' -> Nat]
    <3>1. \A h \in Heads : counts[h] + P[h] \in Nat
      BY <1>4, <1>5
    <3>2. counts' \in [Heads -> Nat]
      BY <1>6, <3>1
    <3> QED BY <3>2 DEF Heads
  <2>3. mval' \in Results
    BY <1>4, <1>5, <1>7 DEF Results, Failure, Failures, Batch
  <2>4. {doneCh', canceled'} \subseteq BOOLEAN
    <3>1. doneCh' \in BOOLEAN
      BY <1>3, Zenon
    <3>2. canceled \in BOOLEAN
      BY <1>1, Zenon DEF TypeOK
    <3> QED BY <1>3, <3>1, <3>2, Zenon
  <2> QED BY <1>1, <1>3, <2>1, <2>2, <2>3, <2>4 DEF TypeOK
<1>9. IsFiniteSet(Held') /\ Received' = Received + s
  <2>1. /\ InHands(p) = s /\ InHands(p)' = 0
        /\ \A q \in Parents \ {p} : InHands(q)' = InHands(q)
    BY <1>1, <1>3 DEF TypeOK, InHands, s
  <2>2. IsFiniteSet(Held) /\ s \in Nat
    BY <1>1, <1>2 DEF HeadInv
  <2>3. /\ IsFiniteSet(Held') /\ Cardinality(Held) \in Nat /\ Cardinality(Held') \in Nat
        /\ Cardinality(Held') = Cardinality(Held) - s
    BY <2>1, <2>2, HandsEmpty
  <2> QED BY <1>1, <1>3, <2>2, <2>3 DEF Received, TypeOK
<1>10. \A h \in 0..L : Fed(h)' = Fed(h) + P[h]
  BY <1>4, <1>5, <1>6, <1>9 DEF Fed
<1>11. \A h \in Heads : counts[h] = Fed(h - 1) /\ counts[h] < Limits[h]
  BY <1>1, <1>3, <1>5 DEF Exhausted, HeadInv, Least
<1>12. HeadInv'
  <2>1. ASSUME NEW h \in Heads
        PROVE  counts'[h] = Least(Fed(h - 1)', Limits[h])
    <3>1. h - 1 \in 0..L /\ h \in 0..L
      BY <1>5
    <3>2. P[h - 1] \in Nat /\ Fed(h - 1)' = counts[h] + P[h - 1]
      BY <1>4, <1>10, <1>11, <3>1
    <3>3. counts'[h] = counts[h] + P[h] /\ P[h] = Least(P[h - 1], Limits[h] - counts[h])
      BY <1>4, <1>6
    <3>4. counts[h] \in Nat /\ Limits[h] \in Nat
      BY <1>5
    <3> QED BY <3>2, <3>3, <3>4 DEF Least
  <2>2. Received' \in Nat
    BY <1>2, <1>5, <1>9
  <2> QED BY <1>9, <2>1, <2>2 DEF HeadInv, Heads, Least
<1>13. OutInv'
  <2>1. L \in 0..L /\ P[L] \in Nat /\ Fed(L) \in Nat /\ Fed(L)' = Fed(L) + P[L]
    BY <1>4, <1>5, <1>10
  <2>2. InMux = 0 /\ InChannel' = InChannel /\ written' = written /\ written \in Nat
    BY <1>1, <1>3 DEF InMux, InChannel, TypeOK
  <2>3. mval.err # "panic"
    BY <1>1, <1>3 DEF OutInv
  <2>4. Out = written + InChannel /\ Out \in Nat /\ Out <= Fed(L)
        /\ (dpc \in {"run", "ok"} => Out = Fed(L))
    BY <1>1, <1>5, <2>2, <2>3 DEF OutInv, Out, L
  <2>5. CASE mval' = Failure("panic")
    <3>1. InMux' = 0 /\ mval'.err = "panic" /\ mval'.batch = 0
      BY <2>5 DEF InMux, Failure
    <3>2. Out' = Out
      BY <1>5, <2>2, <3>1 DEF Out
    <3>3. Out' <= Fed(L)'
      BY <2>1, <2>4, <3>2
    <3> QED BY <1>3, <3>1, <3>3 DEF OutInv, L
  <2>6. CASE mval' = Batch(P[L])
    <3>1. InMux' = P[L] /\ mval'.err # "panic"
      BY <1>3, <2>6 DEF InMux, Batch
    <3>2. Out' = Out + P[L]
      BY <1>5, <2>1, <2>2, <3>1, <2>4 DEF Out
    <3>3. Out' <= Fed(L)' /\ (dpc \in {"run", "ok"} => Out' = Fed(L)')
      BY <2>1, <2>4, <3>2
    <3> QED BY <1>3, <3>1, <3>3 DEF OutInv, L
  <2> QED BY <1>7, <2>5, <2>6
<1>14. EndInv'
  <2>1. Open' = Open
    BY <1>1, <1>3 DEF Open, TypeOK
  <2>2. mval' # EOS
    <3>1. P[L] > 0 /\ P[L] \in Nat
      BY <1>4, <1>5
    <3> QED BY <1>7, <3>1 DEF Failure, Batch, EOS
  <2> QED BY <1>1, <1>3, <2>1, <2>2 DEF EndInv
<1>15. ChannelInv'
  BY <1>1, <1>3 DEF ChannelInv
<1> QED BY <1>8, <1>12, <1>13, <1>14, <1>15 DEF FlowInv

\* Every step keeps the invariant.
LEMMA FlowStep ==
  ASSUME Setting, FlowInv, [Next]_vars
  PROVE  FlowInv'
<1>1. ASSUME NEW p \in Parents, Runner(p)
      PROVE  FlowInv'
  BY <1>1, FlowRunnerPull, FlowRunnerStop, FlowReceiveEnd, FlowReceiveBatch DEF Runner
<1>2. CASE Mux
  BY <1>2, FlowMuxEOS, FlowMuxCancel, FlowMuxSend DEF Mux
<1>3. CASE Driver
  BY <1>3, FlowDriverFail, FlowDriverWarning, FlowDriverResult, FlowDrain, FlowDriverReturn
     DEF Driver
<1>4. CASE vars' = vars
  <2>1. UNCHANGED <<rpc, rval, given, doneCh, nparents, counts, mpc, mval, in, warned,
                    warnings, runners, dpc, canceled, produced, written, ends>>
    BY <1>4 DEF vars
  <2>2. TypeOK' /\ warnings' <= warned'
    BY <2>1 DEF FlowInv, TypeOK, Heads
  <2>3. HeadInv' /\ \A h : Fed(h)' = Fed(h)
    <3>1. \A p \in Parents : InHands(p)' = InHands(p)
      BY <2>1 DEF InHands
    <3> QED BY <2>1, <3>1, HandsRest DEF FlowInv
  <2>4. OutInv'
    BY <2>1, <2>3 DEF FlowInv, OutInv, Out, InMux, InChannel
  <2>5. EndInv'
    <3>1. Open' = Open /\ Exhausted' = Exhausted
      BY <2>1 DEF Open, Exhausted, Heads
    <3> QED BY <2>1, <3>1 DEF FlowInv, EndInv
  <2>6. ChannelInv'
    BY <2>1 DEF FlowInv, ChannelInv
  <2> QED BY <2>2, <2>3, <2>4, <2>5, <2>6 DEF FlowInv
<1> QED BY <1>1, <1>2, <1>3, <1>4, FlowWarn, FlowCancel DEF Next

\* Nothing is lost, cut short or counted twice between the runners, the heads,
\* the mux and the driver.
THEOREM FlowInvariant ==
  ASSUME Setting
  PROVE  Spec => []FlowInv
<1>1. Init => FlowInv
  BY FlowInit
<1>2. FlowInv /\ [Next]_vars => FlowInv'
  BY FlowStep
<1> QED BY <1>1, <1>2, PTL DEF Spec

\* No head lets through more than its limit.
LEMMA NotTooMany ==
  ASSUME Setting, FlowInv
  PROVE  NeverTooMany
<1>1. TypeOK /\ HeadInv /\ OutInv
  BY DEF FlowInv
<1>2. /\ Len(Limits) \in Nat /\ Fed(Len(Limits)) \in Nat
      /\ \A h \in Heads : counts[h] \in Nat /\ Limits[h] \in Nat \ {0}
      /\ \A h \in 0..Len(Limits) : Fed(h) \in Nat
      /\ Heads = 1..Len(Limits)
      /\ InMux \in Nat /\ InChannel \in Nat /\ written \in Nat
  BY <1>1, FedType DEF TypeOK
<1>3. \A h \in Heads : Fed(Len(Limits)) <= counts[h]
  BY <1>1, FedFalls DEF TypeOK
<1>4. ASSUME NEW h \in Heads
      PROVE  counts[h] <= Limits[h]
  <2>1. h - 1 \in 0..Len(Limits)
    BY <1>2
  <2>2. counts[h] = Least(Fed(h - 1), Limits[h])
    BY <1>1 DEF HeadInv
  <2>3. Fed(h - 1) \in Nat /\ Limits[h] \in Nat
    BY <1>2, <2>1
  <2> QED BY <2>2, <2>3 DEF Least
<1>5. written <= Fed(Len(Limits))
  BY <1>1, <1>2 DEF OutInv, Out
<1> QED BY <1>2, <1>3, <1>4, <1>5 DEF NeverTooMany

\* The least of a set of naturals is the one there is.
LEMMA MinIs ==
  ASSUME NEW T, T \subseteq Nat, NEW m \in T, \A y \in T : m <= y
  PROVE  Min(T) = m
<1>1. \A x \in T : (\A y \in T : x <= y) => x = m
  <2>1. \A x \in T : (\A y \in T : x <= y) => x <= m /\ m <= x
    OBVIOUS
  <2>2. \A x \in Nat, y \in Nat : x <= y /\ y <= x => x = y
    OBVIOUS
  <2> QED BY <2>1, <2>2, Zenon
<1> QED BY <1>1 DEF Min

\* A run that succeeds delivered everything, or as much as the heads ask for.
LEMMA SuccessComplete ==
  ASSUME Setting, FlowInv
  PROVE  SuccessIsComplete
<1> SUFFICES ASSUME dpc = "ok"
             PROVE  /\ written = Bound
                    /\ Exhausted \/ \A p \in Parents : rval[p] = EOS
  BY DEF SuccessIsComplete
<1>1. TypeOK /\ HeadInv /\ OutInv /\ EndInv /\ ChannelInv
  BY DEF FlowInv
<1>2. runners = 0 /\ mpc = "ended" /\ mval = EOS /\ in = <<>>
  BY <1>1 DEF ChannelInv
<1>3. /\ Len(Limits) \in Nat
      /\ \A h \in Heads : counts[h] \in Nat /\ Limits[h] \in Nat \ {0}
      /\ \A h \in 0..Len(Limits) : Fed(h) \in Nat
      /\ Heads = 1..Len(Limits)
      /\ Received \in Nat
  BY <1>1, FedType
<1>4. written = Fed(Len(Limits))
  <2>1. InMux = 0 /\ InChannel = 0 /\ mval.err = "none"
    BY <1>2 DEF InMux, InChannel, EOS
  <2> QED BY <1>1, <1>3, <2>1 DEF OutInv, Out, TypeOK
<1>5. /\ \A h \in Heads : Fed(Len(Limits)) <= counts[h] /\ counts[h] <= Received
      /\ Fed(Len(Limits)) <= Received
      /\ Fed(Len(Limits)) \in {Received} \cup ToSet(Limits)
  BY <1>1, FedFalls DEF TypeOK
<1>6. ASSUME NEW h \in Heads
      PROVE  counts[h] <= Limits[h] /\ counts[h] <= Received
  <2>1. h - 1 \in 0..Len(Limits)
    BY <1>3
  <2>2. counts[h] <= Limits[h]
    <3>1. counts[h] = Least(Fed(h - 1), Limits[h])
      BY <1>1 DEF HeadInv
    <3>2. Fed(h - 1) \in Nat /\ Limits[h] \in Nat
      BY <1>3, <2>1
    <3> QED BY <3>1, <3>2 DEF Least
  <2> QED BY <1>5, <2>2
<1>7. produced \in Nat /\ Cardinality(Held) \in Nat /\ Received <= produced
  <2>1. Cardinality(Held) \in Nat /\ produced \in Nat
    BY <1>1, FS_CardinalityType DEF HeadInv, TypeOK
  <2> QED BY <2>1 DEF Received
<1>8. nparents = 0 => Received = produced /\ \A p \in Parents : rval[p] = EOS
  <2> HAVE nparents = 0
  <2>1. Cardinality(Open) = 0
    <3>1. Cardinality(Open) \in Nat /\ Cardinality(Open) <= 0
      BY <1>1, OpenCount DEF EndInv
    <3> QED BY <3>1
  <2>2. Open = {}
    BY <2>1, OpenCount
  <2>3. \A p \in Parents : rpc[p] = "stopped" /\ rval[p] = EOS
    BY <2>2 DEF Open
  <2>4. Held = {}
    BY <2>3 DEF Held, InHands, EOS
  <2>5. Cardinality(Held) = 0
    BY <2>4, FS_EmptySet
  <2> QED BY <1>7, <2>3, <2>5 DEF Received
<1>9. Exhausted \/ nparents = 0
  BY <1>1, <1>2 DEF EndInv
<1>10. Exhausted \/ \A p \in Parents : rval[p] = EOS
  BY <1>8, <1>9
<1>11. written \in {produced} \cup ToSet(Limits)
  <2>1. CASE Exhausted
    <3>1. PICK h \in Heads : counts[h] >= Limits[h]
      BY <2>1 DEF Exhausted
    <3>2. counts[h] = Limits[h] /\ Limits[h] <= Received
      BY <1>3, <1>6, <3>1
    <3>3. Limits[h] \in ToSet(Limits)
      BY DEF ToSet, Heads
    <3>4. CASE written = Received
      <4>1. written = Limits[h]
        BY <1>3, <1>4, <1>5, <3>2, <3>4
      <4> QED BY <3>3, <4>1
    <3>5. CASE written # Received
      BY <1>4, <1>5, <3>5
    <3> QED BY <3>4, <3>5
  <2>2. CASE nparents = 0
    BY <1>4, <1>5, <1>8, <2>2
  <2> QED BY <1>9, <2>1, <2>2
<1>12. \A y \in {produced} \cup ToSet(Limits) : y \in Nat /\ written <= y
  <2>1. written \in Nat
    BY <1>1 DEF TypeOK
  <2>2. written <= produced
    BY <1>3, <1>4, <1>5, <1>7
  <2>3. \A h \in Heads : Limits[h] \in Nat /\ written <= Limits[h]
    BY <1>3, <1>4, <1>5, <1>6, <2>1
  <2> QED BY <1>7, <2>2, <2>3 DEF ToSet, Heads
<1>13. written = Bound
  <2>1. CASE Limits = <<>>
    <3>1. ToSet(Limits) = {}
      BY <2>1 DEF ToSet
    <3>2. written = produced
      BY <1>11, <3>1
    <3> QED BY <2>1, <3>2 DEF Bound
  <2>2. CASE Limits # <<>>
    <3> DEFINE T == {produced} \cup ToSet(Limits)
    <3>1. T \subseteq Nat /\ written \in T /\ \A y \in T : written <= y
      BY <1>11, <1>12
    <3> HIDE DEF T
    <3>2. Min(T) = written
      BY <3>1, MinIs
    <3> QED BY <2>2, <3>2 DEF Bound, T
  <2> QED BY <2>1, <2>2
<1> QED BY <1>10, <1>13

\* The driver of a run that succeeds was given all there was to give, and no
\* head ever let more through than its limit.
THEOREM FlowgraphSafe ==
  ASSUME Setting
  PROVE  Spec => [](TypeOK /\ SuccessIsComplete /\ NeverTooMany)
<1>1. FlowInv => TypeOK /\ SuccessIsComplete /\ NeverTooMany
  BY NotTooMany, SuccessComplete DEF FlowInv
<1> QED BY <1>1, FlowInvariant, PTL
=============================================================================
