-------------------------- MODULE SplitMergeProofs --------------------------
(***************************************************************************)
(* What holds of SplitMerge, for any finite set of branches and any number *)
(* of batches.  First the Splitter alone; then the whole: the parts do     *)
(* together what each of them does alone, so what is proved of Splitter    *)
(* here and of Flowgraph in FlowgraphProofs holds of the whole.            *)
(***************************************************************************)
EXTENDS SplitMerge, TLAPS, FiniteSetTheorems, SequenceTheorems

FP == INSTANCE FlowgraphProofs

(***************************************************************************)
(* The Splitter alone.                                                     *)
(***************************************************************************)
\* The hypothesis of every theorem here.
Finite == IsFiniteSet(Parents) /\ Supply \in Nat

Active == {b \in Parents : bpc[b] # "closed"}
Waiting == {b \in Parents : bpc[b] = "wait"}
Holders(k) == {b \in Parents : k \in held[b]}
InTransit == run = "send" /\ ~eos

\* Splitter.n counts the branches that are not closed.
CountInv == n = Cardinality(Active)

\* The branches that wait are the ones gathered and, while send is at work, the
\* ones it has still to serve; each of them is in the queue once.
QueueInv ==
  /\ run \in {"off", "gather"} =>
       left = <<>> /\ IsInjective(flight) /\ ToSet(flight) = Waiting
  /\ run = "send" => IsInjective(left) /\ ToSet(left) = Waiting
  /\ run = "off" => \A b \in Parents : bpc[b] = "idle"
  /\ run = "exited" => n = 0

\* After upstream's end nothing is asked for any more.
EosInv ==
  /\ eos => run # "off"
  /\ eos => \A b \in Parents :
       bpc[b] \in {"null", "closed"} \/ (run = "send" /\ bpc[b] = "wait")

\* A branch has the first batches, and an active one all but the one in transit
\* that it waits for.
StreamInv ==
  /\ InTransit => pulled > 0
  /\ \A b \in Parents :
       /\ Len(got[b]) <= pulled
       /\ \A i \in 1..Len(got[b]) : got[b][i] = i
       /\ bpc[b] \notin {"null", "closed"} =>
            Len(got[b]) = pulled - (IF InTransit /\ bpc[b] = "wait" THEN 1 ELSE 0)
       /\ held[b] \subseteq 1..Len(got[b])

DoneInv == done = IF run = "exited" THEN 1 ELSE 0

SplitInv ==
  S!TypeOK /\ CountInv /\ QueueInv /\ EosInv /\ StreamInv /\ S!RefsExact /\ DoneInv

-----------------------------------------------------------------------------
\* A queue in which nobody is twice is as long as it has members.
LEMMA LenOfQueue ==
  ASSUME NEW T, NEW q \in Seq(T), IsInjective(q)
  PROVE  IsFiniteSet(ToSet(q)) /\ Cardinality(ToSet(q)) = Len(q)
<1>1. /\ Len(q) \in Nat
      /\ DOMAIN q = 1..Len(q)
      /\ q \in [1..Len(q) -> T]
  BY LenProperties
<1>2. q \in [1..Len(q) -> ToSet(q)]
  BY <1>1 DEF ToSet
<1>3. \A t \in ToSet(q) : \E i \in 1..Len(q) : q[i] = t
  BY <1>1 DEF ToSet
<1>4. q \in Bijection(1..Len(q), ToSet(q))
  BY <1>2, <1>3 DEF Bijection, Injection, Surjection
<1>5. ExistsBijection(1..Len(q), ToSet(q))
  BY <1>4 DEF ExistsBijection
<1> QED BY <1>1, <1>5, FS_NatBijection, FS_CountingElements

\* A branch joins the queue at its end ...
LEMMA JoinQueue ==
  ASSUME NEW T, NEW q \in Seq(T), NEW x \in T
  PROVE  /\ Append(q, x) \in Seq(T)
         /\ ToSet(Append(q, x)) = ToSet(q) \cup {x}
         /\ IsInjective(q) /\ x \notin ToSet(q) => IsInjective(Append(q, x))
<1> DEFINE a == Append(q, x)
<1>1. /\ a \in Seq(T) /\ Len(a) = Len(q) + 1
      /\ \A i \in 1..Len(q) : a[i] = q[i]
      /\ a[Len(q) + 1] = x
  BY AppendProperties
<1>2. Len(q) \in Nat /\ DOMAIN q = 1..Len(q) /\ DOMAIN a = 1..Len(q) + 1
  BY <1>1, LenProperties
<1> HIDE DEF a
<1>3. /\ \A i \in DOMAIN a : a[i] \in ToSet(q) \cup {x}
      /\ \A i \in DOMAIN q : i \in DOMAIN a /\ a[i] = q[i]
      /\ Len(q) + 1 \in DOMAIN a
  BY <1>1, <1>2 DEF ToSet
<1>4. ToSet(a) = ToSet(q) \cup {x}
  BY <1>1, <1>3, Zenon DEF ToSet
<1>5. ASSUME IsInjective(q), x \notin ToSet(q)
      PROVE  IsInjective(a)
  <2> SUFFICES ASSUME NEW i \in DOMAIN a, NEW j \in DOMAIN a, a[i] = a[j]
               PROVE  i = j
    BY DEF IsInjective
  <2>1. CASE i \in DOMAIN q /\ j \in DOMAIN q
    BY <1>1, <1>2, <1>5, <2>1 DEF IsInjective
  <2>2. CASE i \notin DOMAIN q /\ j \notin DOMAIN q
    BY <1>2, <2>2
  <2>3. \A k \in DOMAIN q : a[k] # x
    BY <1>1, <1>2, <1>5 DEF ToSet
  <2> QED BY <1>1, <1>2, <2>1, <2>2, <2>3
<1> QED BY <1>1, <1>4, <1>5 DEF a

\* ... and leaves it from its head.
LEMMA LeaveQueue ==
  ASSUME NEW T, NEW q \in Seq(T), q # <<>>, IsInjective(q)
  PROVE  /\ Head(q) \in T /\ Head(q) \in ToSet(q)
         /\ Tail(q) \in Seq(T) /\ IsInjective(Tail(q))
         /\ ToSet(Tail(q)) = ToSet(q) \ {Head(q)}
<1> DEFINE t == Tail(q)
<1>1. /\ Head(q) \in T
      /\ t \in Seq(T) /\ Len(t) = Len(q) - 1
      /\ \A i \in 1..Len(t) : t[i] = q[i + 1]
  BY HeadTailProperties
<1>2. /\ Len(q) \in Nat \ {0} /\ DOMAIN q = 1..Len(q)
      /\ DOMAIN t = 1..Len(q) - 1
  BY <1>1, LenProperties, EmptySeq
<1>3. Head(q) = q[1]
  OBVIOUS
<1> HIDE DEF t
<1>4. 1 \in DOMAIN q /\ \A i \in DOMAIN t : i + 1 \in DOMAIN q /\ i + 1 # 1
  BY <1>2
<1>5. IsInjective(t)
  BY <1>1, <1>2, <1>4 DEF IsInjective
<1>6. Head(q) \in ToSet(q)
  BY <1>3, <1>4 DEF ToSet
<1>7. ToSet(t) = ToSet(q) \ {Head(q)}
  <2>1. \A i \in DOMAIN t : t[i] \in ToSet(q) /\ t[i] # Head(q)
    BY <1>1, <1>2, <1>3, <1>4 DEF ToSet, IsInjective
  <2>2. \A i \in DOMAIN q : q[i] # Head(q) => i - 1 \in DOMAIN t /\ q[i] = t[i - 1]
    BY <1>1, <1>2, <1>3
  <2> QED BY <2>1, <2>2 DEF ToSet
<1> QED BY <1>1, <1>5, <1>6, <1>7 DEF t

USE DEF S!Batches, S!BranchPCs, S!splitVars

\* The sets of branches that are counted are finite.
LEMMA Counted ==
  ASSUME Finite
  PROVE  /\ IsFiniteSet(Active) /\ Cardinality(Active) \in Nat
         /\ IsFiniteSet(Waiting)
         /\ \A k : IsFiniteSet(Holders(k)) /\ Cardinality(Holders(k)) \in Nat
<1>1. /\ Active \in SUBSET Parents /\ Waiting \in SUBSET Parents
      /\ \A k : Holders(k) \in SUBSET Parents
  BY DEF Active, Waiting, Holders
<1>2. \A T \in SUBSET Parents : IsFiniteSet(T) /\ Cardinality(T) \in Nat
  BY FS_Subset, FS_CardinalityType DEF Finite
<1> QED BY <1>1, <1>2

\* RefsExact, with the names given above.
LEMMA RefsMeaning ==
  /\ S!RefsExact <=> \A k \in S!Batches : refs[k] =
       Cardinality(Holders(k)) + IF InTransit /\ k = pulled THEN 1 ELSE 0
  /\ S!RefsExact' <=> \A k \in S!Batches : refs'[k] =
       Cardinality(Holders(k)') + IF InTransit' /\ k = pulled' THEN 1 ELSE 0
  BY DEF S!RefsExact, S!Cardinality, Cardinality, Holders, InTransit

\* SplitInv holds when the parallel proc has been compiled: nothing runs yet.
LEMMA SplitInit ==
  ASSUME Finite, S!Init
  PROVE  SplitInv
<1> USE DEF S!Init, Finite, S!Cardinality, Cardinality
<1>1. Active = Parents /\ Waiting = {} /\ \A k : Holders(k) = {}
  BY DEF Active, Waiting, Holders
<1>2. Cardinality(Parents) \in Nat /\ Cardinality({}) = 0
  BY FS_CardinalityType, FS_EmptySet
<1>3. S!TypeOK
  <2>1. <<>> \in Seq(Parents) /\ <<>> \in Seq(1..Supply) /\ 0 \in 0..Supply
    OBVIOUS
  <2>2. got \in [Parents -> Seq(S!Batches)]
    BY <2>1
  <2> QED BY <1>2, <2>1, <2>2 DEF S!TypeOK
<1>4. CountInv
  BY <1>1 DEF CountInv
<1>5. QueueInv
  <2>1. ToSet(<<>>) = {} /\ IsInjective(<<>>)
    BY DEF ToSet, IsInjective
  <2> QED BY <1>1, <2>1 DEF QueueInv
<1>6. EosInv /\ StreamInv /\ DoneInv
  BY DEF EosInv, StreamInv, DoneInv, InTransit
<1>7. S!RefsExact
  <2>1. ~InTransit /\ \A k \in S!Batches : refs[k] = 0 /\ Cardinality(Holders(k)) = 0
    BY <1>1, <1>2 DEF InTransit
  <2> HIDE DEF S!Init, S!Cardinality, Cardinality
  <2> QED BY <2>1, RefsMeaning
<1> QED BY <1>3, <1>4, <1>5, <1>6, <1>7 DEF SplitInv

\* gather has a request of every branch that is not closed (split.go:53).
LEMMA AllAskedMeaning ==
  ASSUME Finite, SplitInv, run = "gather", S!AllAsked
  PROVE  \A b \in Parents : bpc[b] \in {"wait", "closed"}
<1>1. ToSet(flight) = Waiting /\ Cardinality(Waiting) = n
  BY LenOfQueue DEF SplitInv, S!TypeOK, QueueInv, S!AllAsked
<1>2. Waiting \in SUBSET Active
  BY DEF Waiting, Active
<1>3. Waiting = Active
  BY <1>1, <1>2, Counted, FS_Subset DEF SplitInv, CountInv
<1> QED BY <1>3 DEF Waiting, Active, SplitInv, S!TypeOK

\* With no branch left all are closed.
LEMMA NoneActive ==
  ASSUME Finite, SplitInv, n = 0
  PROVE  \A b \in Parents : bpc[b] = "closed"
<1>1. Active = {}
  BY Counted, FS_EmptySet DEF SplitInv, CountInv
<1> QED BY <1>1 DEF Active

\* The steps of the branches (split.Proc) and their requests keep SplitInv.
LEMMA SplitBranch ==
  ASSUME Finite, SplitInv, NEW b \in Parents, S!Branch(b)
  PROVE  SplitInv'
<1> USE DEF SplitInv
<1>1. CASE S!Pull(b)
  <2> USE <1>1 DEF S!Pull
  <2>1. Active' = Active /\ Waiting' = Waiting /\ \A k : Holders(k)' = Holders(k)
    BY DEF Active, Waiting, Holders, S!TypeOK
  <2>2. S!TypeOK'
    BY DEF S!TypeOK
  <2>3. CountInv' /\ DoneInv'
    BY <2>1 DEF CountInv, DoneInv, S!TypeOK
  <2>4. QueueInv'
    BY <2>1 DEF QueueInv, S!TypeOK
  <2>5. EosInv'
    BY DEF EosInv, S!TypeOK
  <2>6. StreamInv'
    BY DEF StreamInv, InTransit, S!TypeOK
  <2>7. S!RefsExact'
    BY <2>1, RefsMeaning DEF InTransit
  <2> QED BY <2>2, <2>3, <2>4, <2>5, <2>6, <2>7
<1>2. CASE S!Stop(b)
  <2> USE <1>2 DEF S!Stop
  <2>1. Active' = Active /\ Waiting' = Waiting /\ \A k : Holders(k)' = Holders(k)
    BY DEF Active, Waiting, Holders, S!TypeOK
  <2>2. S!TypeOK'
    BY DEF S!TypeOK
  <2>3. CountInv' /\ DoneInv'
    BY <2>1 DEF CountInv, DoneInv
  <2>4. QueueInv'
    BY <2>1 DEF QueueInv
  <2>5. EosInv'
    BY DEF EosInv, S!TypeOK
  <2>6. StreamInv'
    BY DEF StreamInv, InTransit, S!TypeOK
  <2>7. S!RefsExact'
    BY <2>1, RefsMeaning DEF InTransit
  <2> QED BY <2>2, <2>3, <2>4, <2>5, <2>6, <2>7
<1>3. CASE S!Release(b)
  <2> USE <1>3 DEF S!Release
  <2>1. PICK k \in held[b] : /\ held' = [held EXCEPT ![b] = @ \ {k}]
                             /\ refs' = [refs EXCEPT ![k] = @ - 1]
    OBVIOUS
  <2>2. /\ k \in S!Batches
        /\ Holders(k)' = Holders(k) \ {b} /\ b \in Holders(k)
        /\ \A j \in S!Batches \ {k} : Holders(j)' = Holders(j)
    BY <2>1 DEF Holders, S!TypeOK
  <2>3. /\ Cardinality(Holders(k)') = Cardinality(Holders(k)) - 1
        /\ Cardinality(Holders(k)) \in Nat \ {0}
    <3>1. IsFiniteSet(Holders(k)) /\ Cardinality(Holders(k)) \in Nat
      BY Counted
    <3>2. Cardinality(Holders(k) \ {b}) = Cardinality(Holders(k)) - 1
      BY <2>2, <3>1, FS_RemoveElement
    <3>3. Cardinality(Holders(k)) # 0
      BY <2>2, <3>1, FS_EmptySet
    <3> QED BY <2>2, <3>1, <3>2, <3>3
  <2>4. refs[k] \in Nat \ {0}
    BY <2>2, <2>3, RefsMeaning
  <2>5. S!TypeOK'
    BY <2>1, <2>2, <2>4 DEF S!TypeOK
  <2>6. CountInv' /\ QueueInv' /\ EosInv' /\ DoneInv'
    BY DEF CountInv, QueueInv, EosInv, DoneInv, Active, Waiting
  <2>7. StreamInv'
    BY <2>1 DEF StreamInv, InTransit, S!TypeOK
  <2>8. S!RefsExact'
    <3>1. \A j \in S!Batches : refs[j] \in Nat
      BY DEF S!TypeOK
    <3> SUFFICES ASSUME NEW j \in S!Batches
                 PROVE  refs'[j] = Cardinality(Holders(j)')
                                   + IF InTransit' /\ j = pulled' THEN 1 ELSE 0
      BY RefsMeaning
    <3>2. UNCHANGED <<InTransit, pulled>>
      BY DEF InTransit
    <3>3. refs[j] = Cardinality(Holders(j)) + IF InTransit /\ j = pulled THEN 1 ELSE 0
      BY RefsMeaning
    <3>4. CASE j = k
      <4>1. refs'[j] = refs[j] - 1
        BY <2>1, <2>2, <3>4 DEF S!TypeOK
      <4> QED BY <2>3, <3>2, <3>3, <3>4, <4>1
    <3>5. CASE j # k
      <4>1. refs'[j] = refs[j]
        BY <2>1, <2>2, <3>5 DEF S!TypeOK
      <4> QED BY <2>2, <3>2, <3>3, <3>5, <4>1
    <3> QED BY <3>4, <3>5
  <2> QED BY <2>5, <2>6, <2>7, <2>8
<1>4. CASE S!Gather(b)
  <2> USE <1>4 DEF S!Gather
  <2>1. /\ Active' = Active /\ Waiting' = Waiting \cup {b} /\ b \notin Waiting
        /\ \A k : Holders(k)' = Holders(k)
    BY DEF Active, Waiting, Holders, S!TypeOK
  <2>2. /\ flight' \in Seq(Parents) /\ IsInjective(flight')
        /\ ToSet(flight') = ToSet(flight) \cup {b}
    BY <2>1, JoinQueue DEF QueueInv, S!TypeOK
  <2>3. S!TypeOK'
    BY <2>2 DEF S!TypeOK
  <2>4. CountInv' /\ DoneInv'
    BY <2>1 DEF CountInv, DoneInv
  <2>5. QueueInv'
    BY <2>1, <2>2 DEF QueueInv
  <2>6. EosInv'
    BY DEF EosInv, S!TypeOK
  <2>7. StreamInv'
    BY DEF StreamInv, InTransit, S!TypeOK
  <2>8. S!RefsExact'
    BY <2>1, RefsMeaning DEF InTransit
  <2> QED BY <2>3, <2>4, <2>5, <2>6, <2>7, <2>8
<1>5. CASE S!GatherNull(b)
  <2> USE <1>5 DEF S!GatherNull
  <2>1. /\ Active' = Active \ {b} /\ b \in Active /\ Waiting' = Waiting
        /\ \A k : Holders(k)' = Holders(k)
    BY DEF Active, Waiting, Holders, S!TypeOK
  <2>2. n' \in Nat /\ n \in Nat
    <3>1. Len(flight) \in Nat /\ n \in Nat
      BY DEF S!TypeOK
    <3> QED BY <3>1
  <2>3. S!TypeOK'
    BY <2>2 DEF S!TypeOK
  <2>4. CountInv'
    <3>1. Cardinality(Active \ {b}) = Cardinality(Active) - 1
      BY <2>1, Counted, FS_RemoveElement
    <3> QED BY <2>1, <3>1 DEF CountInv
  <2>5. QueueInv' /\ DoneInv'
    BY <2>1 DEF QueueInv, DoneInv
  <2>6. EosInv'
    BY DEF EosInv, S!TypeOK
  <2>7. StreamInv'
    BY DEF StreamInv, InTransit, S!TypeOK
  <2>8. S!RefsExact'
    BY <2>1, RefsMeaning DEF InTransit
  <2> QED BY <2>3, <2>4, <2>5, <2>6, <2>7, <2>8
<1> QED BY <1>1, <1>2, <1>3, <1>4, <1>5 DEF S!Branch

\* The steps of Splitter.run keep SplitInv.
LEMMA SplitRun ==
  ASSUME Finite, SplitInv, S!PullBatch \/ S!PullEOS \/ S!Send \/ S!Sent \/ S!Exit
  PROVE  SplitInv'
<1> USE DEF SplitInv
<1>1. CASE S!PullBatch
  <2> USE <1>1 DEF S!PullBatch
  <2>1. \A b \in Parents : bpc[b] \in {"wait", "closed"}
    BY AllAskedMeaning
  <2>2. ~eos
    <3>1. ASSUME eos PROVE FALSE
      <4>1. \A b \in Parents : bpc[b] = "closed"
        BY <2>1, <3>1 DEF EosInv
      <4>2. Active = {}
        BY <4>1 DEF Active
      <4> QED BY <4>2, FS_EmptySet DEF CountInv
    <3> QED BY <3>1
  <2>3. /\ Active' = Active /\ Waiting' = Waiting /\ \A k : Holders(k)' = Holders(k)
        /\ pulled + 1 \in S!Batches /\ pulled \in Nat
    BY DEF Active, Waiting, Holders, S!TypeOK, Finite
  <2>4. S!TypeOK'
    BY <2>3 DEF S!TypeOK
  <2>5. CountInv' /\ DoneInv' /\ EosInv'
    BY <2>2, <2>3 DEF CountInv, DoneInv, EosInv
  <2>6. QueueInv'
    BY <2>3 DEF QueueInv
  <2>7. StreamInv'
    <3>1. ~InTransit /\ InTransit' /\ pulled' = pulled + 1
      BY <2>2 DEF InTransit
    <3>2. ASSUME NEW b \in Parents
          PROVE  /\ Len(got[b]) <= pulled + 1
                 /\ bpc[b] \notin {"null", "closed"} => Len(got[b]) =
                      pulled + 1 - (IF bpc[b] = "wait" THEN 1 ELSE 0)
      <4>1. Len(got[b]) \in Nat /\ Len(got[b]) <= pulled
        BY DEF StreamInv, S!TypeOK
      <4>2. bpc[b] = "wait" => Len(got[b]) = pulled
        BY <3>1 DEF StreamInv, S!TypeOK
      <4>3. Len(got[b]) <= pulled + 1
        BY <2>3, <4>1
      <4>4. CASE bpc[b] = "wait"
        BY <2>3, <4>1, <4>2, <4>3, <4>4
      <4>5. CASE bpc[b] = "closed"
        BY <4>3, <4>5
      <4> QED BY <2>1, <4>4, <4>5
    <3>3. InTransit' => pulled' > 0
      BY <2>3
    <3>4. \A b \in Parents :
            /\ \A i \in 1..Len(got[b]) : got[b][i] = i
            /\ held[b] \subseteq 1..Len(got[b])
      BY DEF StreamInv
    <3>5. UNCHANGED <<got, bpc, held>>
      OBVIOUS
    <3> HIDE <1>1 DEF SplitInv
    <3>6. ASSUME NEW b \in Parents
          PROVE  /\ Len(got'[b]) <= pulled'
                 /\ \A i \in 1..Len(got'[b]) : got'[b][i] = i
                 /\ bpc'[b] \notin {"null", "closed"} => Len(got'[b]) =
                      pulled' - (IF InTransit' /\ bpc'[b] = "wait" THEN 1 ELSE 0)
                 /\ held'[b] \subseteq 1..Len(got'[b])
      <4>1. /\ Len(got'[b]) <= pulled'
            /\ bpc'[b] \notin {"null", "closed"} => Len(got'[b]) =
                 pulled' - (IF InTransit' /\ bpc'[b] = "wait" THEN 1 ELSE 0)
        <5>1. got'[b] = got[b] /\ bpc'[b] = bpc[b]
          BY <3>5
        <5>2. Len(got'[b]) <= pulled'
          BY <3>1, <3>2, <5>1
        <5>3. ASSUME bpc[b] \notin {"null", "closed"}
              PROVE  Len(got[b]) =
                       pulled' - (IF InTransit' /\ bpc[b] = "wait" THEN 1 ELSE 0)
          <6>1. Len(got[b]) = pulled + 1 - (IF bpc[b] = "wait" THEN 1 ELSE 0)
            BY <3>2, <5>3
          <6>2. pulled' = pulled + 1
            BY <3>1
          <6> QED BY <2>3, <3>1, <6>1, <6>2
        <5> QED BY <5>1, <5>2, <5>3
      <4>2. /\ \A i \in 1..Len(got'[b]) : got'[b][i] = i
            /\ held'[b] \subseteq 1..Len(got'[b])
        BY <3>4, <3>5
      <4> QED BY <4>1, <4>2
    <3> QED BY <3>3, <3>6 DEF StreamInv
  <2>8. S!RefsExact'
    <3>1. ~InTransit /\ InTransit' /\ pulled' = pulled + 1
      BY <2>2 DEF InTransit
    <3>2. Cardinality(Holders(pulled + 1)) = 0
      <4>1. Holders(pulled + 1) = {}
        BY <2>3 DEF StreamInv, Holders, S!TypeOK
      <4> QED BY <4>1, FS_EmptySet
    <3> SUFFICES ASSUME NEW j \in S!Batches
                 PROVE  refs'[j] = Cardinality(Holders(j)')
                                   + IF InTransit' /\ j = pulled' THEN 1 ELSE 0
      BY RefsMeaning
    <3>3. refs[j] = Cardinality(Holders(j)) + 0
      BY <3>1, RefsMeaning
    <3>4. CASE j = pulled + 1
      <4>1. refs'[j] = 1
        BY <2>3, <3>4 DEF S!TypeOK
      <4> QED BY <2>3, <3>1, <3>2, <3>4, <4>1
    <3>5. CASE j # pulled + 1
      <4>1. refs'[j] = refs[j]
        BY <2>3, <3>5 DEF S!TypeOK
      <4> QED BY <2>3, <3>1, <3>3, <3>5, <4>1
    <3> QED BY <3>4, <3>5
  <2> QED BY <2>4, <2>5, <2>6, <2>7, <2>8
<1>2. CASE S!PullEOS
  <2> USE <1>2 DEF S!PullEOS
  <2>1. \A b \in Parents : bpc[b] \in {"wait", "closed"}
    BY AllAskedMeaning
  <2>2. Active' = Active /\ Waiting' = Waiting /\ \A k : Holders(k)' = Holders(k)
    BY DEF Active, Waiting, Holders
  <2>3. S!TypeOK'
    BY DEF S!TypeOK
  <2>4. CountInv' /\ DoneInv' /\ EosInv'
    BY <2>1, <2>2 DEF CountInv, DoneInv, EosInv
  <2>5. QueueInv'
    BY <2>2 DEF QueueInv
  <2>6. StreamInv'
    BY DEF StreamInv, InTransit
  <2>7. S!RefsExact'
    BY <2>2, RefsMeaning DEF InTransit
  <2> QED BY <2>3, <2>4, <2>5, <2>6, <2>7
<1>3. CASE S!Send
  <2> USE <1>3 DEF S!Send
  <2> DEFINE b == Head(left)
  <2>1. /\ b \in Parents /\ b \in Waiting
        /\ left' \in Seq(Parents) /\ IsInjective(left')
        /\ ToSet(left') = Waiting \ {b}
    BY LeaveQueue DEF S!TypeOK, QueueInv
  <2>2. bpc[b] = "wait"
    BY <2>1 DEF Waiting
  <2>3. bpc' = [bpc EXCEPT ![b] = IF eos THEN "null" ELSE "idle"]
    OBVIOUS
  <2>4. Active' = Active /\ Waiting' = Waiting \ {b}
    BY <2>1, <2>2, <2>3 DEF Active, Waiting, S!TypeOK
  <2>5. CountInv' /\ DoneInv'
    BY <2>4 DEF CountInv, DoneInv
  <2>6. QueueInv'
    BY <2>1, <2>4 DEF QueueInv
  <2>7. EosInv'
    BY <2>1, <2>3 DEF EosInv, S!TypeOK
  <2>8. CASE eos
    <3> USE <2>8
    <3>1. UNCHANGED <<got, held, refs, pulled>> /\ \A k : Holders(k)' = Holders(k)
      BY DEF Holders
    <3>2. S!TypeOK'
      BY <2>1, <2>3, <3>1 DEF S!TypeOK
    <3>3. StreamInv'
      BY <2>1, <2>3, <3>1 DEF StreamInv, InTransit, S!TypeOK
    <3>4. S!RefsExact'
      BY <3>1, RefsMeaning DEF InTransit
    <3> QED BY <2>5, <2>6, <2>7, <3>2, <3>3, <3>4
  <2>9. CASE ~eos
    <3> USE <2>9
    <3>1. /\ got' = [got EXCEPT ![b] = Append(@, pulled)]
          /\ held' = [held EXCEPT ![b] = @ \cup {pulled}]
          /\ refs' = [refs EXCEPT ![pulled] = @ + 1]
          /\ UNCHANGED <<run, pulled, eos>> /\ InTransit
      BY DEF InTransit
    <3>2. pulled \in S!Batches /\ pulled \in Nat
      BY <3>1 DEF StreamInv, S!TypeOK
    <3>3. Len(got[b]) = pulled - 1 /\ held[b] \subseteq 1..pulled - 1
      BY <2>1, <2>2, <3>1 DEF StreamInv
    <3>4. /\ Append(got[b], pulled) \in Seq(S!Batches)
          /\ Len(Append(got[b], pulled)) = pulled
          /\ \A i \in 1..pulled : Append(got[b], pulled)[i] = i
      <4>1. got[b] \in Seq(S!Batches)
        BY <2>1 DEF S!TypeOK
      <4>2. /\ Append(got[b], pulled) \in Seq(S!Batches)
            /\ Len(Append(got[b], pulled)) = Len(got[b]) + 1
            /\ \A i \in 1..Len(got[b]) : Append(got[b], pulled)[i] = got[b][i]
            /\ Append(got[b], pulled)[Len(got[b]) + 1] = pulled
        BY <3>2, <4>1, AppendProperties
      <4>3. \A i \in 1..Len(got[b]) : got[b][i] = i
        BY <2>1 DEF StreamInv
      <4> QED BY <3>2, <3>3, <4>2, <4>3
    <3>5. /\ got'[b] = Append(got[b], pulled) /\ held'[b] = held[b] \cup {pulled}
          /\ \A c \in Parents \ {b} : got'[c] = got[c] /\ held'[c] = held[c]
      BY <2>1, <3>1 DEF S!TypeOK
    <3>6. S!TypeOK'
      <4>1. got' \in [Parents -> Seq(S!Batches)]
        BY <3>1, <3>4 DEF S!TypeOK
      <4>2. held' \in [Parents -> SUBSET S!Batches]
        BY <3>1, <3>2 DEF S!TypeOK
      <4>3. refs' \in [S!Batches -> Nat]
        <5>1. refs \in [S!Batches -> Nat]
          BY DEF S!TypeOK
        <5>2. refs[pulled] \in Nat
          BY <3>2, <5>1
        <5>3. refs[pulled] + 1 \in Nat
          BY <5>2
        <5> QED BY <3>1, <5>1, <5>3
      <4>4. bpc' \in [Parents -> S!BranchPCs]
        BY <2>3 DEF S!TypeOK
      <4> QED BY <2>1, <4>1, <4>2, <4>3, <4>4 DEF S!TypeOK
    <3>7. StreamInv'
      <4>1. InTransit' /\ pulled' > 0
        BY <3>1 DEF InTransit, StreamInv
      <4>2. ASSUME NEW c \in Parents
            PROVE  /\ Len(got'[c]) <= pulled'
                   /\ \A i \in 1..Len(got'[c]) : got'[c][i] = i
                   /\ bpc'[c] \notin {"null", "closed"} => Len(got'[c]) =
                        pulled' - (IF InTransit' /\ bpc'[c] = "wait" THEN 1 ELSE 0)
                   /\ held'[c] \subseteq 1..Len(got'[c])
        <5>1. CASE c = b
          <6>1. bpc'[c] = "idle"
            BY <2>1, <2>3, <5>1 DEF S!TypeOK
          <6> QED BY <3>1, <3>2, <3>3, <3>4, <3>5, <5>1, <6>1
        <5>2. CASE c # b
          <6>1. bpc'[c] = bpc[c]
            BY <2>1, <2>3, <5>2 DEF S!TypeOK
          <6> QED BY <3>1, <3>5, <4>1, <5>2, <6>1 DEF StreamInv
        <5> QED BY <5>1, <5>2
      <4> QED BY <4>1, <4>2 DEF StreamInv
    <3>8. S!RefsExact'
      <4>1. /\ b \notin Holders(pulled) /\ Holders(pulled)' = Holders(pulled) \cup {b}
            /\ \A k \in S!Batches \ {pulled} : Holders(k)' = Holders(k)
        BY <2>1, <3>1, <3>2, <3>3, <3>5 DEF Holders
      <4>2. /\ Cardinality(Holders(pulled) \cup {b}) = Cardinality(Holders(pulled)) + 1
            /\ Cardinality(Holders(pulled)) \in Nat
        BY <4>1, Counted, FS_AddElement
      <4>3. InTransit' /\ pulled' = pulled
        BY <3>1 DEF InTransit
      <4> SUFFICES ASSUME NEW j \in S!Batches
                   PROVE  refs'[j] = Cardinality(Holders(j)')
                                     + IF InTransit' /\ j = pulled' THEN 1 ELSE 0
        BY RefsMeaning
      <4>4. refs[j] = Cardinality(Holders(j)) + IF j = pulled THEN 1 ELSE 0
        BY <3>1, RefsMeaning
      <4>5. CASE j = pulled
        <5>1. refs'[j] = refs[j] + 1
          BY <3>1, <3>2, <4>5 DEF S!TypeOK
        <5> QED BY <4>1, <4>2, <4>3, <4>4, <4>5, <5>1
      <4>6. CASE j # pulled
        <5>1. refs'[j] = refs[j]
          BY <3>1, <3>2, <4>6 DEF S!TypeOK
        <5> QED BY <4>1, <4>3, <4>4, <4>6, <5>1
      <4> QED BY <4>5, <4>6
    <3> QED BY <2>5, <2>6, <2>7, <3>6, <3>7, <3>8
  <2> QED BY <2>8, <2>9
<1>4. CASE S!Sent
  <2> USE <1>4 DEF S!Sent
  <2>1. /\ Active' = Active /\ Waiting' = Waiting /\ Waiting = {}
        /\ \A k : Holders(k)' = Holders(k)
    <3>1. ToSet(<<>>) = {}
      BY DEF ToSet
    <3> QED BY <3>1 DEF Active, Waiting, Holders, QueueInv
  <2>2. ~InTransit' /\ pulled' = pulled
    BY DEF InTransit
  <2>3. CountInv' /\ DoneInv'
    BY <2>1 DEF CountInv, DoneInv
  <2>4. QueueInv'
    <3>1. ToSet(<<>>) = {} /\ IsInjective(<<>>)
      BY DEF ToSet, IsInjective
    <3> QED BY <2>1, <3>1 DEF QueueInv
  <2>5. EosInv'
    BY <2>1 DEF EosInv, Waiting
  <2>6. StreamInv'
    BY <2>1, <2>2 DEF StreamInv, Waiting, S!TypeOK
  <2>7. CASE eos
    <3>1. refs' = refs /\ ~InTransit
      BY <2>7 DEF InTransit
    <3>2. S!TypeOK'
      BY <3>1 DEF S!TypeOK
    <3>3. S!RefsExact'
      BY <2>1, <2>2, <3>1, RefsMeaning
    <3> QED BY <2>3, <2>4, <2>5, <2>6, <3>2, <3>3
  <2>8. CASE ~eos
    <3>1. InTransit /\ refs' = [refs EXCEPT ![pulled] = @ - 1] /\ pulled \in S!Batches
      BY <2>8 DEF InTransit, StreamInv, S!TypeOK
    <3>2. /\ refs[pulled] = Cardinality(Holders(pulled)) + 1
          /\ Cardinality(Holders(pulled)) \in Nat
      BY <3>1, RefsMeaning, Counted
    <3>3. S!TypeOK'
      BY <3>1, <3>2 DEF S!TypeOK
    <3>4. S!RefsExact'
      <4> SUFFICES ASSUME NEW j \in S!Batches
                   PROVE  refs'[j] = Cardinality(Holders(j)')
                                     + IF InTransit' /\ j = pulled' THEN 1 ELSE 0
        BY RefsMeaning
      <4>1. refs[j] = Cardinality(Holders(j)) + IF j = pulled THEN 1 ELSE 0
        BY <3>1, RefsMeaning
      <4>2. refs'[j] = IF j = pulled THEN refs[j] - 1 ELSE refs[j]
        BY <3>1 DEF S!TypeOK
      <4>3. Holders(j)' = Holders(j) /\ Cardinality(Holders(j)) \in Nat
        BY <2>1, Counted
      <4> QED BY <2>2, <4>1, <4>2, <4>3
    <3> QED BY <2>3, <2>4, <2>5, <2>6, <3>3, <3>4
  <2> QED BY <2>7, <2>8
<1>5. CASE S!Exit
  <2> USE <1>5 DEF S!Exit
  <2>1. Active' = Active /\ \A k : Holders(k)' = Holders(k)
    BY DEF Active, Holders
  <2>2. S!TypeOK' /\ DoneInv'
    <3>1. done = 0 /\ done' = 1 /\ run' = "exited"
      BY DEF DoneInv
    <3> QED BY <3>1 DEF S!TypeOK, DoneInv
  <2>5. CountInv' /\ QueueInv'
    BY <2>1 DEF CountInv, QueueInv
  <2>3. EosInv' /\ StreamInv'
    BY DEF EosInv, StreamInv, InTransit
  <2>4. S!RefsExact'
    BY <2>1, RefsMeaning DEF InTransit
  <2> QED BY <2>2, <2>3, <2>4, <2>5
<1> QED BY <1>1, <1>2, <1>3, <1>4, <1>5

\* A step that changes nothing keeps SplitInv.
LEMMA SplitStutter ==
  ASSUME SplitInv, UNCHANGED S!vars
  PROVE  SplitInv'
<1> USE DEF SplitInv, S!vars
<1>1. S!TypeOK' /\ CountInv' /\ QueueInv' /\ EosInv' /\ DoneInv'
  BY DEF S!TypeOK, CountInv, QueueInv, EosInv, DoneInv, Active, Waiting
<1>2. StreamInv' /\ S!RefsExact'
  BY DEF StreamInv, S!RefsExact, InTransit
<1> QED BY <1>1, <1>2

\* Every step of the Splitter and its branches keeps SplitInv.
LEMMA SplitStep ==
  ASSUME Finite, SplitInv, [S!Next]_S!vars
  PROVE  SplitInv'
  BY SplitBranch, SplitRun, SplitStutter DEF S!Next

\* What FlowControl says of a step: proc/split pulls upstream when every active
\* branch waits, never after its end, and tells it Done once.
Controlled ==
  /\ (pulled' # pulled \/ eos' # eos) =>
       \A b \in Parents : bpc[b] \in {"wait", "closed"}
  /\ eos => pulled' = pulled
  /\ done' # done => /\ done = 0
                     /\ \A b \in Parents : bpc[b] = "closed"

\* Every step is Controlled.
LEMMA StepControlled ==
  ASSUME Finite, SplitInv, [S!Next]_S!vars
  PROVE  Controlled
<1>1. CASE S!PullBatch \/ S!PullEOS
  <2>1. \A b \in Parents : bpc[b] \in {"wait", "closed"}
    BY <1>1, AllAskedMeaning DEF S!PullBatch, S!PullEOS
  <2>2. done' = done
    BY <1>1 DEF S!PullBatch, S!PullEOS
  <2>3. ASSUME eos PROVE FALSE
    <3>1. Active = {}
      BY <1>1, <2>1, <2>3 DEF SplitInv, EosInv, Active, S!PullBatch, S!PullEOS
    <3> QED BY <1>1, <3>1, FS_EmptySet DEF SplitInv, CountInv, S!PullBatch, S!PullEOS
  <2> QED BY <2>1, <2>2, <2>3 DEF Controlled
<1>2. CASE S!Exit
  <2>1. \A b \in Parents : bpc[b] = "closed"
    BY <1>2, NoneActive DEF S!Exit
  <2>2. done = 0 /\ UNCHANGED <<pulled, eos>>
    BY <1>2 DEF S!Exit, SplitInv, DoneInv
  <2> QED BY <2>1, <2>2 DEF Controlled
<1>3. CASE UNCHANGED <<pulled, eos, done>>
  BY <1>3 DEF Controlled
<1> QED
  BY <1>1, <1>2, <1>3
  DEF S!Next, S!Branch, S!Pull, S!Stop, S!Release, S!Gather, S!GatherNull, S!Send, S!Sent, S!vars

\* SplitInv holds throughout a run of the Splitter.
THEOREM SplitInvariant ==
  ASSUME Finite
  PROVE  S!Spec => []SplitInv
<1>1. S!Init => SplitInv
  BY SplitInit
<1>2. SplitInv /\ [S!Next]_S!vars => SplitInv'
  BY SplitStep
<1> QED BY <1>1, <1>2, PTL DEF S!Spec

\* SplitInv implies that every branch sees upstream's batches in order and
\* without a gap.
LEMMA StreamFollows ==
  ASSUME SplitInv
  PROVE  S!SameStream
<1> SUFFICES ASSUME NEW b \in Parents
             PROVE  /\ got[b] = [k \in 1..Len(got[b]) |-> k]
                    /\ bpc[b] \notin {"null", "closed"} =>
                         Len(got[b]) >= pulled -
                           (IF run = "send" /\ b \in ToSet(left) THEN 1 ELSE 0)
  BY DEF S!SameStream, S!ToSet, ToSet
<1> USE DEF SplitInv
<1>1. got[b] \in [1..Len(got[b]) -> S!Batches]
  BY LenProperties DEF S!TypeOK
<1>2. got[b] = [k \in 1..Len(got[b]) |-> k]
  BY <1>1 DEF StreamInv
<1>3. pulled \in Nat /\ (run = "send" => (bpc[b] = "wait" <=> b \in ToSet(left)))
  BY DEF S!TypeOK, QueueInv, Waiting
<1>4. ASSUME bpc[b] \notin {"null", "closed"}
      PROVE  Len(got[b]) >= pulled -
               (IF run = "send" /\ b \in ToSet(left) THEN 1 ELSE 0)
  <2>1. Len(got[b]) = pulled - (IF InTransit /\ bpc[b] = "wait" THEN 1 ELSE 0)
    BY <1>4 DEF StreamInv
  <2>2. CASE InTransit /\ bpc[b] = "wait"
    BY <1>3, <2>1, <2>2 DEF InTransit
  <2>3. CASE ~(InTransit /\ bpc[b] = "wait")
    BY <1>3, <2>1, <2>3
  <2> QED BY <2>2, <2>3
<1> QED BY <1>2, <1>4

\* Whatever the number of branches and batches and however the branches' Pull
\* and Done interleave with Splitter.run (proc/split): the types, the exact
\* reference counts and the same stream for every branch ...
THEOREM SplitterSafe ==
  ASSUME Finite
  PROVE  S!Spec => [](S!TypeOK /\ S!RefsExact /\ S!SameStream)
<1>1. SplitInv => S!TypeOK /\ S!RefsExact /\ S!SameStream
  BY StreamFollows DEF SplitInv
<1> QED BY <1>1, SplitInvariant, PTL

\* ... and upstream is pulled only when every active branch waits (split.go:53).
THEOREM SplitterControlsFlow ==
  ASSUME Finite
  PROVE  S!Spec => S!FlowControl
<1>1. SplitInv /\ [S!Next]_S!vars => [Controlled]_S!vars
  BY StepControlled
<1>2. S!FlowControl <=> [][Controlled]_S!vars
  BY PTL DEF S!FlowControl, Controlled
<1> QED BY <1>1, <1>2, SplitInvariant, PTL DEF S!Spec

HIDE DEF S!Batches, S!BranchPCs, S!splitVars

-----------------------------------------------------------------------------
(***************************************************************************)
(* The whole.                                                              *)
(***************************************************************************)
\* A runner is inside its branch while the branch is inside the Splitter.
InsideInv(p) ==
  /\ bpc[p] \in {"request", "wait"} => rpc[p] = "pull"
  /\ bpc[p] = "null" /\ rpc[p] # "stopped" => rpc[p] = "pull"
  /\ rpc[p] # "pull" /\ bpc[p] # "closed" => F!IsBatch(rval[p])

\* A runner was given batches its branch received; a branch that is satisfied
\* has one more, which its Pull returns when Done has been said.
GivenInv(p) ==
  /\ given[p] <= Len(got[p])
  /\ last[p] # 0 /\ bpc[p] # "closed" =>
       rpc[p] = "pull" /\ bpc[p] \in {"idle", "null"} /\ given[p] < Len(got[p])

\* A branch is closed because it was satisfied, because its runner stopped with
\* a batch in its hands, or because it has seen all batches and the end.
ClosedInv(p) ==
  bpc[p] \in {"null", "closed"} /\ last[p] = 0 =>
    \/ rpc[p] = "stopped" /\ F!IsBatch(rval[p])
    \/ eos /\ Len(got[p]) = pulled

BranchInv(p) == InsideInv(p) /\ GivenInv(p) /\ ClosedInv(p)

\* What the Splitter pulled: the sizes of the batches, and how they end.
PulledInv ==
  /\ size \in [1..Supply -> {0} \cup Sizes]
  /\ \A k \in 1..pulled : size[k] \in Sizes
  /\ last \in [Parents -> 0..Supply]
  /\ \A p \in Parents : last[p] <= pulled
  /\ \/ upstream = F!EOS
     \/ upstream = F!Failure("error") /\ Errors
     \/ upstream = F!Failure("canceled") /\ canceled

JointInv ==
  /\ SplitInv /\ FP!FlowInv
  /\ PulledInv
  /\ \A p \in Parents : BranchInv(p)

-----------------------------------------------------------------------------
(***************************************************************************)
(* The flowgraph FlowgraphProofs is about is the one of SplitMerge.         *)
(***************************************************************************)
\* The hypotheses about the parts are the assumptions of the whole.
LEMMA PartsSetting == Finite /\ FP!Setting
<1>1. Finite
  BY ParentsAssumption, CountsAssumption DEF Finite
<1>2. FP!IsFiniteSet(Parents)
  BY ParentsAssumption DEF FP!IsFiniteSet, IsFiniteSet
<1>3. FP!Setting
  BY <1>2, CountsAssumption, SizesAssumption, LimitsAssumption DEF FP!Setting
<1> QED BY <1>1, <1>3

\* The flowgraph begins as it does alone,
LEMMA SameFlowInit == F!Init => FP!Init
  BY DEF F!Init, FP!Init, F!EOS, FP!EOS, F!Cardinality, FP!Cardinality

\* and its steps are the ones FlowgraphProofs knows.
LEMMA SameFlowStep == [F!Next]_F!vars => [FP!Next]_FP!vars
<1> USE DEF F!Batch, FP!Batch, F!Failure, FP!Failure, F!EOS, FP!EOS, F!IsBatch, FP!IsBatch,
      F!mergeVars, FP!mergeVars, F!muxVars, FP!muxVars, F!driverVars, FP!driverVars
<1>1. \A p \in Parents : F!RunnerPull(p) => FP!RunnerPull(p)
  BY DEF F!RunnerPull, FP!RunnerPull
<1>2. \A p \in Parents : F!RunnerStop(p) => FP!RunnerStop(p)
  BY DEF F!RunnerStop, FP!RunnerStop, F!StopSignal, FP!StopSignal
<1>3. F!Exhausted <=> FP!Exhausted
  BY DEF F!Exhausted, FP!Exhausted, F!Heads, FP!Heads
<1>4. \A s : F!Passed(s) = FP!Passed(s)
  BY DEF F!Passed, FP!Passed, F!Cut, FP!Cut, F!Remaining, FP!Remaining
<1>5. \A s : F!Finishing(s) = FP!Finishing(s)
  BY <1>4 DEF F!Finishing, FP!Finishing, F!Heads, FP!Heads, F!Remaining, FP!Remaining
<1>6. \A x : F!Deliver(x) => FP!Deliver(x)
  BY <1>4, <1>5 DEF F!Deliver, FP!Deliver, F!Heads, FP!Heads, F!Cardinality, FP!Cardinality
<1>7. \A p \in Parents : F!MuxReceive(p) => FP!MuxReceive(p)
  BY <1>3, <1>6 DEF F!MuxReceive, FP!MuxReceive, F!Ended, FP!Ended
<1>8. F!Warn => FP!Warn
  BY DEF F!Warn, FP!Warn
<1>9. F!Mux => FP!Mux
  BY <1>3 DEF F!Mux, FP!Mux, F!MuxEOS, FP!MuxEOS, F!MuxCancel, FP!MuxCancel, F!MuxSend,
     FP!MuxSend, F!HasRoom, FP!HasRoom, F!AfterSend, FP!AfterSend
<1>10. F!Driver => FP!Driver
  BY DEF F!Driver, FP!Driver, F!DriverFail, FP!DriverFail, F!DriverWarning,
     FP!DriverWarning, F!DriverResult, FP!DriverResult, F!Drain, FP!Drain, F!DriverReturn,
     FP!DriverReturn, F!Complete, FP!Complete
<1>11. F!Cancel => FP!Cancel
  BY DEF F!Cancel, FP!Cancel
<1>12. F!vars = FP!vars /\ F!vars' = FP!vars'
  BY DEF F!vars, FP!vars
<1> QED BY <1>1, <1>2, <1>7, <1>8, <1>9, <1>10, <1>11, <1>12
        DEF F!Next, FP!Next, F!Runner, FP!Runner

\* What FlowgraphProofs shows is what Flowgraph states.
LEMMA SameFlowProperties ==
  /\ FP!TypeOK => F!TypeOK
  /\ FP!SuccessIsComplete => F!SuccessIsComplete
  /\ FP!NeverTooMany => F!NeverTooMany
<1>1. FP!TypeOK => F!TypeOK
  BY DEF FP!TypeOK, F!TypeOK, F!Results, FP!Results, F!Failures, FP!Failures, F!Heads,
     FP!Heads, F!Cardinality, FP!Cardinality
<1>2. F!Exhausted <=> FP!Exhausted
  BY DEF F!Exhausted, FP!Exhausted, F!Heads, FP!Heads
<1>3. F!Bound = FP!Bound
  BY DEF F!Bound, FP!Bound, F!Min, FP!Min, F!ToSet, FP!ToSet
<1>4. FP!SuccessIsComplete => F!SuccessIsComplete
  BY <1>2, <1>3 DEF FP!SuccessIsComplete, F!SuccessIsComplete, F!EOS, FP!EOS
<1>5. FP!NeverTooMany => F!NeverTooMany
  BY DEF FP!NeverTooMany, F!NeverTooMany, F!Heads, FP!Heads
<1> QED BY <1>1, <1>4, <1>5

-----------------------------------------------------------------------------
(***************************************************************************)
(* Each step of the whole is a step of its parts.                          *)
(***************************************************************************)
\* To the Splitter the runners are branches that pull, stop and release.
LEMMA StepOfSplit ==
  ASSUME [Next]_vars
  PROVE  [S!Next]_S!vars
<1>1. ASSUME UNCHANGED splitVars
      PROVE  UNCHANGED S!vars
  BY <1>1 DEF splitVars, S!vars
<1>2. ASSUME NEW p \in Parents, Branch(p)
      PROVE  [S!Next]_S!vars
  <2>1. CASE Ask(p) \/ AskAgain(p) \/ Gather(p) \/ GatherNull(p)
    BY <1>1, <2>1 DEF Ask, AskAgain, Gather, GatherNull, S!Next, S!Branch
  <2>2. CASE SatisfiedDone(p) \/ RunnerStop(p) \/ Receive(p)
    BY <1>1, <2>2 DEF SatisfiedDone, RunnerStop, Receive, S!Next, S!Branch
  <2> QED BY <1>2, <2>1, <2>2 DEF Branch
<1>3. CASE PullBatch \/ PullEOS \/ Send \/ SendSatisfied \/ Sent \/ Exit
  BY <1>3 DEF PullBatch, PullEOS, Send, SendSatisfied, Sent, Exit, S!Next
<1>4. CASE Downstream \/ Quit \/ vars' = vars
  BY <1>1, <1>4 DEF Downstream, Quit, vars
<1> QED BY <1>2, <1>3, <1>4 DEF Next

\* The result of a branch's Pull is one that Flowgraph's runner may be given.
Returnable(p, x) ==
  \/ x = F!EOS
  \/ x = F!Failure("error") /\ Errors
  \/ x = F!Failure("canceled") /\ canceled
  \/ \E s \in Sizes : x = F!Batch(s) /\ given[p] < Supply

\* A runner's Pull that returns such a result is a RunnerPull of Flowgraph.
LEMMA ReturnsIsPull ==
  ASSUME F!TypeOK, NEW p \in Parents, rpc[p] = "pull", NEW x, Returns(p, x), Returnable(p, x)
  PROVE  F!RunnerPull(p)
<1>1. given \in [Parents -> 0..Supply] /\ produced \in Nat
  BY DEF F!TypeOK
<1>2. [given EXCEPT ![p] = @] = given /\ produced + 0 = produced
  BY <1>1
<1>3. CASE x = F!EOS
  BY <1>2, <1>3 DEF Returns, F!RunnerPull, F!EOS, F!IsBatch, F!muxVars, F!driverVars
<1>4. CASE x = F!Failure("error") /\ Errors
  BY <1>2, <1>4 DEF Returns, F!RunnerPull, F!Failure, F!IsBatch, F!muxVars, F!driverVars
<1>5. CASE x = F!Failure("canceled") /\ canceled
  BY <1>2, <1>5 DEF Returns, F!RunnerPull, F!Failure, F!IsBatch, F!muxVars, F!driverVars
<1>6. CASE \E s \in Sizes : x = F!Batch(s) /\ given[p] < Supply
  <2>1. PICK s \in Sizes : x = F!Batch(s) /\ given[p] < Supply
    BY <1>6
  <2>2. F!IsBatch(x) /\ x.batch = s
    BY <2>1, SizesAssumption DEF F!Batch, F!IsBatch
  <2> QED BY <2>1, <2>2 DEF Returns, F!RunnerPull, F!muxVars, F!driverVars
<1> QED BY <1>3, <1>4, <1>5, <1>6 DEF Returnable

\* What the invariants of the parts say of the branch at the head of the queue.
LEMMA Served ==
  ASSUME SplitInv, run = "send", left # <<>>
  PROVE  /\ Head(left) \in Parents /\ bpc[Head(left)] = "wait"
         /\ pulled \in 0..Supply /\ Len(got[Head(left)]) \in Nat
         /\ ~eos => pulled > 0 /\ Len(got[Head(left)]) = pulled - 1
         /\ eos => Len(got[Head(left)]) = pulled
<1>1. S!TypeOK /\ QueueInv /\ StreamInv
  BY DEF SplitInv
<1>2. left \in Seq(Parents) /\ ToSet(left) = Waiting
  BY <1>1 DEF S!TypeOK, QueueInv
<1>3. 1 \in DOMAIN left /\ Head(left) = left[1]
  BY <1>2
<1>4. Head(left) \in ToSet(left)
  BY <1>3 DEF ToSet
<1>5. Head(left) \in Parents /\ bpc[Head(left)] = "wait"
  BY <1>2, <1>4 DEF Waiting
<1>6. pulled \in 0..Supply /\ Len(got[Head(left)]) \in Nat
  BY <1>1, <1>5 DEF S!TypeOK
<1>7. Len(got[Head(left)]) = pulled - (IF InTransit THEN 1 ELSE 0)
  BY <1>1, <1>5 DEF StreamInv
<1>8. InTransit => pulled > 0
  BY <1>1 DEF StreamInv
<1>9. InTransit <=> ~eos
  BY DEF InTransit
<1> QED BY <1>5, <1>6, <1>7, <1>8, <1>9

\* To the merge and the driver the Splitter and its branches are parents that
\* return batches and ends.
LEMMA StepOfFlow ==
  ASSUME JointInv, [Next]_vars
  PROVE  [F!Next]_F!vars
<1>1. ASSUME UNCHANGED flowVars
      PROVE  UNCHANGED F!vars
  BY <1>1 DEF flowVars, F!vars
<1>2. F!TypeOK /\ SplitInv /\ PulledInv /\ \A p \in Parents : BranchInv(p)
  BY SameFlowProperties DEF JointInv, FP!FlowInv
<1>3. ASSUME NEW p \in Parents, F!Runner(p)
      PROVE  F!Next
  BY <1>3 DEF F!Next
<1>4. ASSUME NEW p \in Parents, AskAgain(p)
      PROVE  F!Next
  BY <1>2, <1>3, <1>4, ReturnsIsPull DEF AskAgain, Returnable, F!Runner
<1>5. ASSUME NEW p \in Parents, GatherNull(p)
      PROVE  [F!Next]_F!vars
  <2>1. CASE rpc[p] = "stopped"
    BY <1>1, <1>5, <2>1 DEF GatherNull
  <2>2. CASE rpc[p] # "stopped"
    <3> DEFINE x == IF last[p] # 0 THEN F!Batch(size[last[p]]) ELSE upstream
    <3>1. bpc[p] = "null" /\ Returns(p, x)
      BY <1>5, <2>2 DEF GatherNull, S!GatherNull
    <3>2. rpc[p] = "pull"
      BY <1>2, <2>2, <3>1 DEF BranchInv, InsideInv
    <3>3. Returnable(p, x)
      <4>1. CASE last[p] = 0
        BY <1>2, <4>1 DEF PulledInv, Returnable
      <4>2. CASE last[p] # 0
        <5>1. last[p] \in 1..pulled
          BY <1>2, <4>2 DEF PulledInv, SplitInv, S!TypeOK
        <5>2. size[last[p]] \in Sizes
          BY <1>2, <5>1 DEF PulledInv
        <5>3. given[p] < Len(got[p])
          BY <1>2, <3>1, <4>2 DEF BranchInv, GivenInv
        <5>4. Len(got[p]) \in Nat /\ Len(got[p]) <= pulled /\ pulled \in 0..Supply
          BY <1>2 DEF SplitInv, S!TypeOK, StreamInv
        <5>5. given[p] < Supply
          BY <1>2, <5>3, <5>4, CountsAssumption DEF F!TypeOK
        <5> QED BY <4>2, <5>2, <5>5 DEF Returnable
      <4> QED BY <4>1, <4>2
    <3> HIDE DEF x
    <3> QED BY <1>2, <1>3, <3>1, <3>2, <3>3, ReturnsIsPull DEF F!Runner
  <2> QED BY <2>1, <2>2
<1>6. ASSUME Send
      PROVE  [F!Next]_F!vars
  <2> DEFINE p == Head(left)
  <2>1. CASE eos
    BY <1>1, <1>6, <2>1 DEF Send, Inside
  <2>2. CASE ~eos
    <3>1. run = "send" /\ left # <<>> /\ Returns(p, F!Batch(size[pulled]))
      BY <1>6, <2>2 DEF Send, S!Send
    <3>2. /\ p \in Parents /\ bpc[p] = "wait" /\ pulled \in 1..Supply
          /\ Len(got[p]) = pulled - 1
      BY <1>2, <2>2, <3>1, Served
    <3> HIDE DEF p
    <3>3. rpc[p] = "pull"
      BY <1>2, <3>2 DEF BranchInv, InsideInv
    <3>4. size[pulled] \in Sizes
      BY <1>2, <3>2 DEF PulledInv
    <3>5. given[p] < Supply
      BY <1>2, <3>2, CountsAssumption DEF BranchInv, GivenInv, F!TypeOK
    <3>6. Returnable(p, F!Batch(size[pulled]))
      BY <3>4, <3>5 DEF Returnable
    <3> QED BY <1>2, <1>3, <3>1, <3>2, <3>3, <3>6, ReturnsIsPull DEF F!Runner
  <2> QED BY <2>1, <2>2
<1>7. ASSUME NEW p \in Parents, Branch(p)
      PROVE  [F!Next]_F!vars
  <2>1. CASE Ask(p) \/ Gather(p) \/ SatisfiedDone(p)
    BY <1>1, <2>1 DEF Ask, Gather, SatisfiedDone, Inside
  <2>2. CASE RunnerStop(p) \/ Receive(p)
    BY <1>3, <2>2 DEF RunnerStop, Receive, F!Runner
  <2> QED BY <1>4, <1>5, <1>7, <2>1, <2>2 DEF Branch
<1>8. CASE PullBatch \/ PullEOS \/ SendSatisfied \/ Sent \/ Exit
  BY <1>1, <1>8 DEF PullBatch, PullEOS, SendSatisfied, Sent, Exit, Inside
<1>9. CASE Downstream \/ Quit \/ vars' = vars
  BY <1>1, <1>9 DEF Downstream, Quit, vars, F!Next
<1> QED BY <1>6, <1>7, <1>8, <1>9 DEF Next

-----------------------------------------------------------------------------
(***************************************************************************)
(* The joint invariant.                                                    *)
(***************************************************************************)
\* The Splitter's step never takes the end back, and nothing is pulled after it.
LEMMA EndStays ==
  ASSUME SplitInv, [S!Next]_S!vars, eos
  PROVE  eos' /\ pulled' = pulled
<1>1. Controlled
  BY PartsSetting, StepControlled
<1>2. pulled' = pulled
  BY <1>1 DEF Controlled
<1>3. eos'
  BY DEF S!Next, S!vars, S!Branch, S!Pull, S!Stop, S!Release, S!Gather, S!GatherNull,
     S!PullBatch, S!PullEOS, S!Send, S!Sent, S!Exit, S!splitVars
<1> QED BY <1>2, <1>3

\* A step that is not of branch p nor of its runner.
LEMMA BranchRest ==
  ASSUME NEW p \in Parents, BranchInv(p), eos => eos' /\ pulled' = pulled,
         bpc'[p] = bpc[p], rpc'[p] = rpc[p], rval'[p] = rval[p],
         given'[p] = given[p], got'[p] = got[p], last'[p] = last[p]
  PROVE  BranchInv(p)'
  BY DEF BranchInv, InsideInv, GivenInv, ClosedInv, F!IsBatch

\* What the type invariants of the parts say of one branch.
LEMMA BranchTypes ==
  ASSUME JointInv
  PROVE  /\ rpc \in [Parents -> {"pull", "send", "stopped"}]
         /\ rval \in [Parents -> FP!Results]
         /\ given \in [Parents -> 0..Supply]
         /\ bpc \in [Parents -> S!BranchPCs]
         /\ got \in [Parents -> Seq(1..Supply)]
         /\ pulled \in 0..Supply
         /\ SplitInv /\ PulledInv /\ F!TypeOK
         /\ \A p \in Parents : BranchInv(p)
<1>1. FP!TypeOK /\ S!TypeOK /\ F!TypeOK
  BY SameFlowProperties DEF JointInv, FP!FlowInv, SplitInv
<1> QED BY <1>1 DEF JointInv, FP!TypeOK, S!TypeOK, S!Batches

\* The steps of one branch and its runner.
LEMMA BranchStep ==
  ASSUME JointInv, NEW q \in Parents, Branch(q)
  PROVE  \A p \in Parents : BranchInv(p)'
<1> USE DEF BranchInv
<1>1. /\ rpc \in [Parents -> {"pull", "send", "stopped"}]
      /\ rval \in [Parents -> FP!Results]
      /\ given \in [Parents -> 0..Supply]
      /\ bpc \in [Parents -> S!BranchPCs]
      /\ got \in [Parents -> Seq(1..Supply)]
      /\ pulled \in 0..Supply /\ SplitInv /\ F!TypeOK /\ PulledInv
      /\ \A p \in Parents : BranchInv(p)
  BY BranchTypes
<1>2. [Next]_vars
  BY DEF Next
<1>3. eos => eos' /\ pulled' = pulled
  BY <1>1, <1>2, StepOfSplit, EndStays
<1>4. last' = last /\ got' = got /\ pulled' = pulled /\ eos' = eos
  BY DEF Branch, Ask, AskAgain, Gather, GatherNull, SatisfiedDone, RunnerStop, Receive, Inside,
     mine, splitVars, S!Pull, S!Stop, S!Release, S!Gather, S!GatherNull, S!splitVars
<1>5. ASSUME NEW p \in Parents, p # q
      PROVE  bpc'[p] = bpc[p] /\ rpc'[p] = rpc[p] /\ rval'[p] = rval[p] /\ given'[p] = given[p]
  <2>1. CASE (Ask(q) /\ last[q] = 0) \/ Gather(q) \/ SatisfiedDone(q)
    BY <1>1, <1>5, <2>1 DEF Ask, Gather, SatisfiedDone, Inside, flowVars, S!Pull, S!Gather, S!Stop
  <2>2. CASE AskAgain(q) \/ GatherNull(q)
    BY <1>1, <1>5, <2>2 DEF AskAgain, GatherNull, Returns, flowVars, splitVars, S!GatherNull
  <2>3. CASE RunnerStop(q) \/ Receive(q)
    BY <1>1, <1>5, <2>3 DEF RunnerStop, Receive, splitVars, S!Stop, S!Release,
       F!RunnerStop, F!MuxReceive
  <2> QED BY <2>1, <2>2, <2>3 DEF Branch
<1>6. ASSUME NEW p \in Parents, p # q
      PROVE  BranchInv(p)'
  <2> HIDE DEF BranchInv
  <2>1. bpc'[p] = bpc[p] /\ rpc'[p] = rpc[p] /\ rval'[p] = rval[p] /\ given'[p] = given[p]
    BY <1>5, <1>6
  <2> QED BY <1>1, <1>3, <1>4, <2>1, BranchRest
<1>7. BranchInv(q)
  BY <1>1
<1>8. given[q] \in Nat /\ Len(got[q]) \in Nat /\ rval[q] \in FP!Results
  BY <1>1
<1>9. BranchInv(q)'
  <2>1. CASE Ask(q) /\ last[q] = 0
    <3>1. /\ bpc[q] = "idle" /\ bpc'[q] = "request" /\ rpc[q] = "pull"
          /\ rpc' = rpc /\ given' = given
      BY <1>1, <2>1 DEF Ask, Inside, flowVars, S!Pull
    <3> QED BY <1>4, <1>7, <1>8, <2>1, <3>1 DEF InsideInv, GivenInv, ClosedInv
  <2>2. CASE Gather(q)
    <3>1. /\ bpc[q] = "request" /\ bpc'[q] = "wait"
          /\ rpc' = rpc /\ given' = given
      BY <1>1, <2>2 DEF Gather, Inside, flowVars, S!Gather
    <3> QED BY <1>4, <1>7, <1>8, <3>1 DEF InsideInv, GivenInv, ClosedInv
  <2>3. CASE SatisfiedDone(q)
    <3>1. /\ bpc[q] = "idle" /\ bpc'[q] = "null" /\ rpc[q] = "pull" /\ last[q] # 0
          /\ rpc' = rpc /\ given' = given
      BY <1>1, <2>3 DEF SatisfiedDone, Inside, flowVars, S!Stop
    <3> QED BY <1>4, <1>7, <1>8, <3>1 DEF InsideInv, GivenInv, ClosedInv
  <2>4. CASE AskAgain(q)
    <3>1. /\ rpc[q] = "pull" /\ rpc'[q] = "send" /\ bpc[q] = "closed" /\ bpc' = bpc
          /\ given'[q] = given[q]
      BY <1>1, <2>4 DEF AskAgain, Returns, splitVars, F!EOS, F!IsBatch
    <3> QED BY <1>4, <1>7, <1>8, <3>1 DEF InsideInv, GivenInv, ClosedInv
  <2>5. CASE GatherNull(q)
    <3>1. bpc[q] = "null" /\ bpc'[q] = "closed"
      BY <1>1, <2>5 DEF GatherNull, S!GatherNull
    <3>2. CASE rpc[q] = "stopped"
      <4>1. rpc' = rpc /\ rval' = rval /\ given' = given
        BY <2>5, <3>2 DEF GatherNull, flowVars
      <4> QED BY <1>4, <1>7, <1>8, <3>1, <4>1 DEF InsideInv, GivenInv, ClosedInv, F!IsBatch
    <3>3. CASE rpc[q] # "stopped"
      <4>1. rpc[q] = "pull" /\ rpc'[q] = "send"
        BY <1>1, <1>7, <2>5, <3>1, <3>3 DEF InsideInv, GatherNull, Returns
      <4>2. CASE last[q] = 0
        <5>1. ~F!IsBatch(upstream)
          BY <1>1 DEF PulledInv, F!IsBatch, F!EOS, F!Failure
        <5>2. given'[q] = given[q]
          BY <1>1, <2>5, <3>3, <4>2, <5>1 DEF GatherNull, Returns
        <5> QED BY <1>4, <1>7, <1>8, <3>1, <4>1, <4>2, <5>2 DEF InsideInv, GivenInv, ClosedInv
      <4>3. CASE last[q] # 0
        <5>1. given'[q] = given[q] \/ given'[q] = given[q] + 1
          BY <1>1, <2>5, <3>3 DEF GatherNull, Returns
        <5> QED BY <1>4, <1>7, <1>8, <3>1, <4>3, <5>1 DEF InsideInv, GivenInv, ClosedInv
      <4> QED BY <4>2, <4>3
    <3> QED BY <3>2, <3>3
  <2>6. CASE RunnerStop(q)
    <3>1. /\ rpc[q] = "send" /\ rpc'[q] = "stopped" /\ rval' = rval /\ given' = given
          /\ \/ bpc'[q] = bpc[q]
             \/ bpc[q] = "idle" /\ bpc'[q] = "null"
      BY <1>1, <2>6 DEF RunnerStop, F!RunnerStop, splitVars, S!Stop
    <3> QED BY <1>4, <1>7, <1>8, <3>1 DEF InsideInv, GivenInv, ClosedInv, F!IsBatch
  <2>7. CASE Receive(q)
    <3>1. /\ rpc[q] = "send" /\ rval' = rval /\ given' = given /\ bpc' = bpc
          /\ rpc'[q] = IF F!IsBatch(rval[q]) THEN "pull" ELSE "stopped"
      BY <1>1, <2>7 DEF Receive, F!MuxReceive, splitVars, S!Release
    <3> QED BY <1>4, <1>7, <1>8, <3>1 DEF InsideInv, GivenInv, ClosedInv, F!IsBatch
  <2> QED BY <2>1, <2>2, <2>3, <2>4, <2>5, <2>6, <2>7 DEF Branch
<1> HIDE DEF BranchInv
<1> QED BY <1>6, <1>9

\* The Splitter serves a branch.
LEMMA ServeStep ==
  ASSUME JointInv, Send \/ SendSatisfied
  PROVE  \A p \in Parents : BranchInv(p)'
<1>1. /\ rpc \in [Parents -> {"pull", "send", "stopped"}]
      /\ rval \in [Parents -> FP!Results]
      /\ given \in [Parents -> 0..Supply]
      /\ bpc \in [Parents -> S!BranchPCs]
      /\ got \in [Parents -> Seq(1..Supply)]
      /\ pulled \in 0..Supply /\ SplitInv /\ F!TypeOK /\ PulledInv
      /\ last \in [Parents -> 0..Supply]
      /\ \A p \in Parents : BranchInv(p)
  BY BranchTypes DEF PulledInv
<1>0. run = "send" /\ left # <<>>
  BY DEF Send, SendSatisfied, S!Send
<1>q. PICK q \in Parents : q = Head(left)
  BY <1>0, <1>1, Served
<1>2. /\ pulled' = pulled /\ eos' = eos
      /\ IF eos
           THEN bpc' = [bpc EXCEPT ![q] = "null"] /\ got' = got
           ELSE /\ bpc' = [bpc EXCEPT ![q] = "idle"]
                /\ got' = [got EXCEPT ![q] = Append(@, pulled)]
  BY <1>q DEF Send, SendSatisfied, S!Send
<1>3. /\ bpc[q] = "wait"
      /\ ~eos => pulled > 0 /\ Len(got[q]) = pulled - 1
      /\ eos => Len(got[q]) = pulled
  BY <1>0, <1>1, <1>q, Served
<1>4. \/ UNCHANGED <<rpc, rval, given, last>> /\ eos
      \/ Returns(q, F!Batch(size[pulled])) /\ last' = last /\ ~eos
      \/ /\ ~eos /\ last' = [last EXCEPT ![q] = pulled]
         /\ UNCHANGED <<rpc, rval, given>>
  BY <1>q DEF Send, SendSatisfied, Inside, flowVars, mine
<1>5. ASSUME NEW p \in Parents, p # q
      PROVE  BranchInv(p)'
  <2>1. bpc'[p] = bpc[p] /\ got'[p] = got[p]
    BY <1>1, <1>2, <1>3, <1>5
  <2>2. rpc'[p] = rpc[p] /\ rval'[p] = rval[p] /\ given'[p] = given[p] /\ last'[p] = last[p]
    BY <1>1, <1>3, <1>4, <1>5 DEF Returns
  <2> QED BY <1>1, <1>2, <2>1, <2>2, BranchRest
<1>6. BranchInv(q)'
  <2>1. /\ rpc[q] = "pull" /\ last[q] = 0 /\ given[q] <= Len(got[q])
        /\ given[q] \in Nat /\ Len(got[q]) \in Nat
    <3>1. given[q] \in Nat /\ Len(got[q]) \in Nat
      BY <1>1
    <3>2. InsideInv(q) /\ GivenInv(q)
      BY <1>1 DEF BranchInv
    <3>3. rpc[q] = "pull"
      BY <1>3, <3>2 DEF InsideInv
    <3>4. last[q] = 0 /\ given[q] <= Len(got[q])
      BY <1>3, <3>2 DEF GivenInv
    <3> QED BY <3>1, <3>3, <3>4
  <2>2. CASE eos
    <3>1. /\ bpc'[q] = "null" /\ got' = got
          /\ UNCHANGED <<rpc, rval, given, last>>
      BY <1>1, <1>2, <1>4, <2>2
    <3> QED BY <1>2, <1>3, <2>1, <2>2, <3>1 DEF BranchInv, InsideInv, GivenInv, ClosedInv
  <2>3. CASE ~eos
    <3>1. bpc'[q] = "idle" /\ got'[q] = Append(got[q], pulled)
      BY <1>1, <1>2, <1>3, <2>3
    <3>2. Len(got'[q]) = Len(got[q]) + 1
      <4>1. pulled \in 1..Supply /\ got[q] \in Seq(1..Supply)
        BY <1>1, <1>3, <2>3
      <4> QED BY <3>1, <4>1
    <3>3. CASE Returns(q, F!Batch(size[pulled])) /\ last' = last
      <4>1. size[pulled] \in Sizes
        BY <1>1, <1>3, <2>3 DEF PulledInv
      <4>2. F!IsBatch(F!Batch(size[pulled]))
        <5>1. \A s \in Sizes : F!IsBatch(F!Batch(s))
          BY SizesAssumption DEF F!IsBatch, F!Batch
        <5> QED BY <4>1, <5>1
      <4>3. /\ rpc'[q] = "send" /\ rval'[q] = F!Batch(size[pulled])
            /\ given'[q] = given[q] + 1
        BY <1>1, <1>3, <3>3, <4>2 DEF Returns
      <4>4. F!IsBatch(rval'[q])
        BY <4>2, <4>3
      <4> QED BY <2>1, <3>1, <3>2, <3>3, <4>3, <4>4
              DEF BranchInv, InsideInv, GivenInv, ClosedInv, F!IsBatch
    <3>4. CASE UNCHANGED <<rpc, rval, given>>
      BY <2>1, <3>1, <3>2, <3>4 DEF BranchInv, InsideInv, GivenInv, ClosedInv
    <3> QED BY <1>4, <2>3, <3>3, <3>4
  <2> QED BY <2>2, <2>3
<1> QED BY <1>5, <1>6

\* The other steps leave the branches and the runners alone.
LEMMA BranchesKept ==
  ASSUME JointInv, [Next]_vars
  PROVE  \A p \in Parents : BranchInv(p)'
<1>1. SplitInv /\ \A p \in Parents : BranchInv(p)
  BY DEF JointInv
<1>2. eos => eos' /\ pulled' = pulled
  BY <1>1, StepOfSplit, EndStays
<1>3. ASSUME UNCHANGED <<bpc, got, rpc, rval, given, last>>
      PROVE  \A p \in Parents : BranchInv(p)'
  BY <1>1, <1>2, <1>3, BranchRest
<1>4. CASE PullBatch \/ PullEOS \/ Sent \/ Exit
  BY <1>3, <1>4 DEF PullBatch, PullEOS, Sent, Exit, S!PullBatch, S!PullEOS, S!Sent, S!Exit,
     Inside, flowVars, mine
<1>5. CASE Downstream
  <2>1. UNCHANGED <<rpc, rval, given>>
    BY <1>5 DEF Downstream, F!Warn, F!Mux, F!MuxEOS, F!MuxCancel, F!MuxSend, F!Driver,
       F!DriverFail, F!DriverWarning, F!DriverResult, F!Drain, F!DriverReturn, F!Cancel,
       F!mergeVars
  <2> QED BY <1>3, <1>5, <2>1 DEF Downstream, splitVars, mine
<1>6. CASE Quit \/ vars' = vars
  BY <1>3, <1>6 DEF Quit, vars, flowVars, splitVars, mine
<1> QED BY <1>4, <1>5, <1>6, BranchStep, ServeStep DEF Next

\* What was pulled is kept as it was, and the context stays done.
LEMMA PulledKept ==
  ASSUME JointInv, [Next]_vars
  PROVE  PulledInv'
<1>1. PulledInv /\ pulled \in 0..Supply /\ SplitInv
  BY DEF JointInv, SplitInv, S!TypeOK
<1>2. canceled => canceled'
  <2>1. [F!Next]_F!vars
    BY StepOfFlow
  <2>2. ASSUME NEW p \in Parents, F!Runner(p)
        PROVE  canceled' = canceled
    BY <2>2 DEF F!Runner, F!RunnerPull, F!RunnerStop, F!MuxReceive
  <2>3. CASE F!Warn \/ F!Mux \/ F!Cancel \/ F!vars' = F!vars
    BY <2>3 DEF F!Warn, F!Mux, F!MuxEOS, F!MuxCancel, F!MuxSend, F!Cancel, F!vars
  <2>4. CASE F!Driver
    BY <2>4 DEF F!Driver, F!DriverFail, F!DriverWarning, F!DriverResult, F!Drain,
       F!DriverReturn
  <2> QED BY <2>1, <2>2, <2>3, <2>4 DEF F!Next
<1>3. ASSUME UNCHANGED <<size, upstream, last, pulled>>
      PROVE  PulledInv'
  BY <1>1, <1>2, <1>3 DEF PulledInv, F!EOS, F!Failure
<1>4. CASE PullBatch
  <2>1. /\ pulled < Supply /\ pulled' = pulled + 1 /\ UNCHANGED <<upstream, last>>
        /\ \E s \in Sizes : size' = [size EXCEPT ![pulled + 1] = s]
    BY <1>4 DEF PullBatch, S!PullBatch
  <2>2. PICK s \in Sizes : size' = [size EXCEPT ![pulled + 1] = s]
    BY <2>1
  <2>3. size \in [1..Supply -> {0} \cup Sizes] /\ pulled + 1 \in 1..Supply
    BY <1>1, <2>1, CountsAssumption DEF PulledInv
  <2>4. size' \in [1..Supply -> {0} \cup Sizes]
    BY <2>2, <2>3
  <2>5. \A k \in 1..pulled' : size'[k] \in Sizes
    BY <1>1, <2>1, <2>2, <2>3 DEF PulledInv
  <2>6. \A p \in Parents : last'[p] <= pulled'
    BY <1>1, <2>1 DEF PulledInv
  <2> QED BY <1>1, <1>2, <2>1, <2>4, <2>5, <2>6 DEF PulledInv, F!EOS, F!Failure
<1>5. CASE PullEOS
  <2>1. /\ UNCHANGED <<size, last, pulled, canceled>>
        /\ \/ upstream' = F!EOS
           \/ upstream' = F!Failure("error") /\ Errors
           \/ upstream' = F!Failure("canceled") /\ canceled
    BY <1>5 DEF PullEOS, S!PullEOS, flowVars
  <2> QED BY <1>1, <2>1 DEF PulledInv, F!EOS, F!Failure
<1>6. CASE SendSatisfied
  <2>1. last' = [last EXCEPT ![Head(left)] = pulled] /\ UNCHANGED <<size, upstream, pulled>>
    BY <1>6 DEF SendSatisfied, S!Send
  <2>2. last' \in [Parents -> 0..Supply] /\ \A p \in Parents : last'[p] <= pulled'
    <3>1. /\ last \in [Parents -> 0..Supply] /\ pulled \in Nat /\ pulled' = pulled
          /\ \A p \in Parents : last[p] <= pulled
      BY <1>1, <2>1 DEF PulledInv
    <3>2. \A p \in Parents : last'[p] = last[p] \/ last'[p] = pulled
      BY <2>1, <3>1
    <3>3. last' \in [Parents -> 0..Supply]
      BY <1>1, <2>1, <3>1
    <3> QED BY <3>1, <3>2, <3>3
  <2> QED BY <1>1, <1>2, <2>1, <2>2 DEF PulledInv, F!EOS, F!Failure
<1>7. ASSUME NEW p \in Parents, Branch(p)
      PROVE  UNCHANGED <<size, upstream, last, pulled>>
  BY <1>7 DEF Branch, Ask, AskAgain, Gather, GatherNull, SatisfiedDone, RunnerStop, Receive,
     Inside, mine, splitVars, S!Pull, S!Stop, S!Release, S!Gather, S!GatherNull, S!splitVars
<1>8. CASE Send \/ Sent \/ Exit
  BY <1>3, <1>8 DEF Send, Sent, Exit, Inside, mine, S!Send, S!Sent, S!Exit
<1>9. CASE Downstream \/ Quit \/ vars' = vars
  BY <1>3, <1>9 DEF Downstream, Quit, vars, splitVars, mine
<1> QED BY <1>3, <1>4, <1>5, <1>6, <1>7, <1>8, <1>9 DEF Next

\* The initial state.
LEMMA JointInit ==
  ASSUME Init
  PROVE  JointInv
<1>1. SplitInv
  BY PartsSetting, SplitInit DEF Init
<1>2. FP!FlowInv
  BY PartsSetting, SameFlowInit, FP!FlowInit DEF Init
<1>3. PulledInv
  BY CountsAssumption DEF Init, S!Init, PulledInv
<1>4. ASSUME NEW p \in Parents
      PROVE  BranchInv(p)
  <2>1. /\ bpc[p] = "idle" /\ rpc[p] = "pull" /\ given[p] = 0 /\ got[p] = <<>> /\ last[p] = 0
    BY DEF Init, S!Init, F!Init
  <2> QED BY <2>1 DEF BranchInv, InsideInv, GivenInv, ClosedInv
<1> QED BY <1>1, <1>2, <1>3, <1>4 DEF JointInv

\* Every step keeps the joint invariant.
LEMMA JointStep ==
  ASSUME JointInv, [Next]_vars
  PROVE  JointInv'
<1>1. SplitInv'
  BY PartsSetting, StepOfSplit, SplitStep DEF JointInv
<1>2. FP!FlowInv'
  BY PartsSetting, StepOfFlow, SameFlowStep, FP!FlowStep DEF JointInv
<1> QED BY <1>1, <1>2, BranchesKept, PulledKept DEF JointInv

\* The invariants of the parts, and what joins them, hold of the whole.
THEOREM JointInvariant == Spec => []JointInv
<1>1. Init => JointInv
  BY JointInit
<1>2. JointInv /\ [Next]_vars => JointInv'
  BY JointStep
<1> QED BY <1>1, <1>2, PTL DEF Spec

-----------------------------------------------------------------------------
\* The composed flowgraph implements both of its parts: proc/split sees branches
\* that pull, stop and release as Splitter allows, merge and the driver see
\* parents as Flowgraph allows, and upstream is pulled only when every open
\* branch of the split waits (FlowControl).
THEOREM PartsAreImplemented == Spec => PartsImplemented
<1>1. Spec => S!Spec
  <2>1. Init => S!Init
    BY DEF Init
  <2>2. [Next]_vars => [S!Next]_S!vars
    BY StepOfSplit
  <2> QED BY <2>1, <2>2, PTL DEF Spec, S!Spec
<1>2. Spec => F!Spec
  <2>1. Init => F!Init
    BY DEF Init
  <2>2. JointInv /\ [Next]_vars => [F!Next]_F!vars
    BY StepOfFlow
  <2> QED BY <2>1, <2>2, JointInvariant, PTL DEF Spec, F!Spec
<1>3. Spec => S!FlowControl
  <2>1. Finite
    BY PartsSetting
  <2>2. JointInv /\ [Next]_vars =>
          [/\ (pulled' # pulled \/ eos' # eos) =>
                \A b \in Parents : bpc[b] \in {"wait", "closed"}
           /\ eos => pulled' = pulled
           /\ done' # done => /\ done = 0
                              /\ \A b \in Parents : bpc[b] = "closed"]_S!vars
    BY <2>1, StepOfSplit, StepControlled DEF JointInv, Controlled
  <2> QED BY <2>2, JointInvariant, PTL DEF Spec, S!FlowControl
<1> QED BY <1>1, <1>2, <1>3, PTL DEF PartsImplemented

\* In the whole flowgraph the count of a batch is the number of its holders
\* (split.go's Ref and Unref, merge's release), and no queue, channel or counter
\* leaves its range.
THEOREM ReferencesExact == Spec => []RefsExact
<1>1. JointInv => RefsExact
  <2> SUFFICES ASSUME JointInv
               PROVE  RefsExact
    OBVIOUS
  <2>1. F!TypeOK /\ S!TypeOK /\ S!RefsExact
    BY SameFlowProperties DEF JointInv, SplitInv, FP!FlowInv
  <2>2. /\ size \in [1..Supply -> {0} \cup Sizes]
        /\ last \in [Parents -> 0..Supply]
    BY DEF JointInv, PulledInv
  <2>3. upstream \in {F!EOS} \cup {F!Failure(e) : e \in F!Failures}
    BY DEF JointInv, PulledInv, F!Failures
  <2> QED BY <2>1, <2>2, <2>3 DEF RefsExact, TypeOK
<1> QED BY <1>1, JointInvariant, PTL

\* Every branch sees upstream's batches in order and without a gap.
THEOREM StreamsSame == Spec => []SameStream
<1>1. JointInv => SameStream
  BY PartsSetting, StreamFollows DEF JointInv, SameStream
<1> QED BY <1>1, JointInvariant, PTL

\* A run that succeeds delivered all there was or all the heads ask for, and
\* every branch was shown every batch until it or the heads had enough.
THEOREM SuccessComplete == Spec => []SuccessIsComplete
<1>1. ASSUME JointInv
      PROVE  SuccessIsComplete
  <2>1. F!SuccessIsComplete /\ F!NeverTooMany
    BY <1>1, PartsSetting, FP!SuccessComplete, FP!NotTooMany, SameFlowProperties DEF JointInv
  <2>2. ASSUME dpc = "ok", ~F!Exhausted, NEW p \in Parents
        PROVE  last[p] # 0 \/ Len(got[p]) = pulled
    <3>1. rpc[p] = "stopped" /\ rval[p] = F!EOS
      <4>1. ~FP!Exhausted
        BY <2>2 DEF F!Exhausted, FP!Exhausted, F!Heads, FP!Heads
      <4>2. FP!EndInv /\ FP!ChannelInv /\ FP!TypeOK
        BY <1>1 DEF JointInv, FP!FlowInv
      <4>3. mpc = "ended" /\ mval = FP!EOS
        BY <2>2, <4>2 DEF FP!ChannelInv
      <4>4. nparents = 0 /\ FP!Cardinality(FP!Open) <= 0
        BY <4>1, <4>2, <4>3 DEF FP!EndInv
      <4>5. FP!Cardinality(FP!Open) \in Nat /\ (FP!Cardinality(FP!Open) = 0 => FP!Open = {})
        BY PartsSetting, FP!OpenCount
      <4>6. FP!Open = {}
        BY <4>4, <4>5
      <4> QED BY <4>6 DEF FP!Open, FP!EOS, F!EOS
    <3>2. ~F!IsBatch(rval[p])
      BY <3>1 DEF F!IsBatch, F!EOS
    <3>3. bpc[p] = "closed"
      BY <1>1, <3>1, <3>2 DEF JointInv, BranchInv, InsideInv
    <3> QED BY <1>1, <3>2, <3>3 DEF JointInv, BranchInv, ClosedInv
  <2> QED BY <2>1, <2>2 DEF SuccessIsComplete
<1> QED BY <1>1, JointInvariant, PTL
=============================================================================
