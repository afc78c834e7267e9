--------------------------- MODULE ArchiveProofs ---------------------------
(***************************************************************************)
(* What holds of an archive for any records and limits, through failures   *)
(* and crashes: a chunk that readers see is whole, no record is imported   *)
(* twice or lost by an import that succeeds, and a scan gives the visible  *)
(* records of its span once and in order, however the chunks overlap.      *)
(***************************************************************************)
EXTENDS Archive, TLAPS, FiniteSetTheorems, SequenceTheorems, WellFoundedInduction

\* The records of some runs, and that none is there twice.
AtPlace(runs, x) == runs[x[1]][x[2]]
All(runs) == {AtPlace(runs, x) : x \in Places(runs)}
Apart(runs) == \A x, y \in Places(runs) : AtPlace(runs, x) = AtPlace(runs, y) => x = y
Once(s) == \A i, j \in DOMAIN s : s[i] = s[j] => i = j
Ordered(s) == \A i, j \in DOMAIN s : i < j => ~Before(s[j], s[i])
OfDay(d, S) == \A r \in S : Day(Ts(r)) = d

\* What a writer has: its runs and its buffer.
Held(w) == Append(w.runs, w.records)
IsWriter(d, w) ==
  /\ w = [records |-> w.records, runs |-> w.runs]
  /\ w.records \in Seq(Records) /\ w.runs \in Seq(Seq(Records))
  /\ \A k \in DOMAIN w.runs : Ordered(w.runs[k])
  /\ Apart(Held(w))
  /\ OfDay(d, All(Held(w)))

\* What a chunk is made of.
IsContent(d, s) == s \in Seq(Records) /\ s # <<>> /\ Ordered(s) /\ Once(s) /\ OfDay(d, SeqSet(s))

Running == phase \in {"copy", "close"}
Flushing == task.stage \in {"data", "index", "entries"}
Underway == IF Flushing THEN SeqSet(task.records) ELSE {}
InFile(c) == SeqSet(data[c].records)
Listed == DOMAIN data \cap DOMAIN seekIndex

\* An import that runs has met no error as long as it copies; it ends with
\* every writer gone.
PhaseInv ==
  /\ todo \subseteq Records /\ given \subseteq Records \ todo /\ base \subseteq Records
  /\ imports \in 0..MaxImports /\ failures \in 0..MaxFailures
  /\ forward \in BOOLEAN /\ failed \in BOOLEAN
  /\ phase \in {"copy", "close", "ok", "err", "crashed"}
  /\ phase \in {"copy", "ok"} => ~failed
  /\ ~Running => task = NoTask /\ DOMAIN writers = {}

\* The memory that is accounted for is what the writers hold, or more once a
\* spill has failed.
BufferOf(f) == UNION {{<<d, k>> : k \in DOMAIN f[d].records} : d \in DOMAIN f}
Buffered == BufferOf(writers)
MemoryInv ==
  /\ IsFiniteSet(Buffered)
  /\ memBuffered \in Nat /\ memBuffered <= Cardinality(given)
  /\ Cardinality(Buffered) <= memBuffered
  /\ phase = "copy" => memBuffered = Cardinality(Buffered) /\ memBuffered <= ImportBufSize + 1

\* A writer has records of its day, none of them to come or in a file, unless
\* it is the one being copied.
WriterInv ==
  \A d \in DOMAIN writers :
    /\ IsWriter(d, writers[d])
    /\ All(Held(writers[d])) \cap todo = {}
    /\ \A c \in DOMAIN data :
         ~(Flushing /\ c = task.chunk) => All(Held(writers[d])) \cap InFile(c) = {}

\* No record is in two files.
FileInv ==
  /\ \E n \in Nat : DOMAIN data = 1..n
  /\ \A c \in DOMAIN data :
       /\ data[c] = [day |-> data[c].day, records |-> data[c].records, closed |-> data[c].closed]
       /\ data[c].records \in Seq(Records) /\ Once(data[c].records)
       /\ InFile(c) \cap todo = {}
  /\ \A c, e \in DOMAIN data : c # e => InFile(c) \cap InFile(e) = {}

\* A flush copies records that are in no other file, and are all that its
\* writer has, unless it took over the writer's runs.
FlushInv ==
  \/ task = NoTask
  \/ /\ task = [stage |-> "flush", day |-> task.day]
     /\ task.day \in DOMAIN writers
  \/ /\ Flushing
     /\ task = [stage |-> task.stage, day |-> task.day, chunk |-> task.chunk, records |-> task.records]
     /\ task.day \in DOMAIN writers
     /\ task.chunk \in DOMAIN data
     /\ task.chunk \in DOMAIN seekIndex <=> task.stage = "entries"
     /\ IsContent(task.day, task.records)
     /\ IF task.stage = "data" THEN data[task.chunk].records = <<>>
        ELSE data[task.chunk].records = task.records /\ data[task.chunk].closed
     /\ SeqSet(task.records) \cap todo = {}
     /\ \A c \in DOMAIN data : c # task.chunk => SeqSet(task.records) \cap InFile(c) = {}
     /\ All(Held(writers[task.day])) \in {{}, SeqSet(task.records)}

\* A name tells the truth about the file.
NamedTruly(name, s) ==
  /\ name = [day |-> name.day, first |-> name.first, last |-> name.last, count |-> name.count]
  /\ name.count = Len(s) /\ name.last = Ts(s[Len(s)])
  /\ name.first = Ts(s[1]) \/ (forward /\ Ts(s[1]) = 0)
SeekInv ==
  /\ DOMAIN seekIndex \subseteq DOMAIN data
  /\ \A c \in DOMAIN seekIndex :
       /\ data[c].closed
       /\ IsContent(seekIndex[c].day, data[c].records)
       /\ NamedTruly(seekIndex[c], data[c].records)

\* Without an error nothing is lost: what was given is visible, with a writer,
\* or being copied.
Shown == UNION {InFile(c) : c \in Listed}
KeptBy(f) == UNION {All(Held(f[d])) : d \in DOMAIN f}
Kept == KeptBy(writers)
LossInv == ~failed => base \cup given = Shown \cup Kept \cup Underway

ArchiveInv == PhaseInv /\ MemoryInv /\ WriterInv /\ FileInv /\ FlushInv /\ SeekInv /\ LossInv

-----------------------------------------------------------------------------
(***************************************************************************)
(* Orders.                                                                 *)
(***************************************************************************)
\* A set of naturals that is not empty has a least member: what an induction
\* looks at is the first number for which its claim would fail.
LEMMA LeastNumber ==
  ASSUME NEW T, T \subseteq Nat, T # {}
  PROVE  \E x \in T : \A y \in T : x <= y
<1> DEFINE R == OpToRel(<, Nat)
<1>1. IsWellFoundedOn(R, Nat)
  BY NatLessThanWellFounded
<1> HIDE DEF R
<1>2. PICK x \in T : \A y \in T : ~(<<y, x>> \in R)
  BY <1>1, WFMin, Zenon
<1>3. ASSUME NEW y \in T
      PROVE  x <= y
  <2>1. x \in Nat /\ y \in Nat
    OBVIOUS
  <2>2. y < x => <<y, x>> \in R
    BY <2>1 DEF R, OpToRel
  <2> QED BY <1>2, <2>1, <2>2
<1> QED BY <1>3

\* A strict order of a set, and how many members go in front of one.
IsOrder(S, R) ==
  /\ \A x \in S : <<x, x>> \notin R
  /\ \A x, y, z \in S : <<x, y>> \in R /\ <<y, z>> \in R => <<x, z>> \in R
  /\ \A x, y \in S : x = y \/ <<x, y>> \in R \/ <<y, x>> \in R
Less(S, R, x) == {y \in S : <<y, x>> \in R}
Rank(S, R, x) == Cardinality(Less(S, R, x))

\* More members go in front of one that is further behind.
LEMMA RankGrows ==
  ASSUME NEW S, IsFiniteSet(S), NEW R, IsOrder(S, R),
         NEW a \in S, NEW b \in S, <<a, b>> \in R
  PROVE  Rank(S, R, a) < Rank(S, R, b)
<1> DEFINE A == Less(S, R, a)
           B == Less(S, R, b)
<1>1. A \subseteq B /\ a \in B /\ a \notin A
  BY DEF IsOrder, Less
<1>2. IsFiniteSet(B)
  BY FS_Subset DEF Less
<1> HIDE DEF A, B
<1>3. IsFiniteSet(A) /\ Cardinality(A) <= Cardinality(B) /\ Cardinality(A) # Cardinality(B)
  BY <1>1, <1>2, FS_Subset
<1>4. Cardinality(A) \in Nat /\ Cardinality(B) \in Nat
  BY <1>2, <1>3, FS_CardinalityType
<1>5. Cardinality(A) < Cardinality(B)
  BY <1>3, <1>4
<1> QED BY <1>5 DEF Rank, A, B

\* In an order of n members each number below n is the rank of one of them.
LEMMA Ranks ==
  ASSUME NEW S, IsFiniteSet(S), NEW R, IsOrder(S, R)
  PROVE  /\ \A x \in S : Rank(S, R, x) \in 0..(Cardinality(S) - 1)
         /\ \A x, y \in S : Rank(S, R, x) = Rank(S, R, y) => x = y
         /\ \A x, y \in S : Rank(S, R, x) < Rank(S, R, y) => <<x, y>> \in R
         /\ \A n \in 0..(Cardinality(S) - 1) : \E x \in S : Rank(S, R, x) = n
<1>0. Cardinality(S) \in Nat
  BY FS_CardinalityType
<1>1. ASSUME NEW x \in S
      PROVE  Rank(S, R, x) \in 0..(Cardinality(S) - 1)
  <2> DEFINE L == Less(S, R, x)
  <2>1. L \subseteq S /\ x \in S /\ x \notin L
    BY DEF Less, IsOrder
  <2> HIDE DEF L
  <2>2. IsFiniteSet(L) /\ Cardinality(L) <= Cardinality(S) /\ Cardinality(L) # Cardinality(S)
    BY <2>1, FS_Subset
  <2>3. Cardinality(L) \in Nat
    BY <2>2, FS_CardinalityType
  <2>4. Cardinality(L) \in 0..(Cardinality(S) - 1)
    BY <1>0, <2>2, <2>3
  <2> QED BY <2>4 DEF Rank, L
<1>2. ASSUME NEW x \in S, NEW y \in S, <<x, y>> \in R
      PROVE  Rank(S, R, x) < Rank(S, R, y)
  BY <1>2, RankGrows
<1>3. \A x, y \in S : x = y \/ <<x, y>> \in R \/ <<y, x>> \in R
  BY DEF IsOrder
<1> DEFINE N == 0..(Cardinality(S) - 1)
           f == [x \in S |-> Rank(S, R, x)]
<1>4. \A x, y \in S : f[x] = f[y] => x = y
  <2>1. ASSUME NEW x \in S, NEW y \in S, Rank(S, R, x) = Rank(S, R, y)
        PROVE  x = y
    <3>1. Rank(S, R, x) \in Nat /\ Rank(S, R, y) \in Nat
      BY <1>1
    <3>2. <<x, y>> \in R => Rank(S, R, x) < Rank(S, R, y)
      BY <1>2
    <3>3. <<y, x>> \in R => Rank(S, R, y) < Rank(S, R, x)
      BY <1>2
    <3>4. <<x, y>> \notin R /\ <<y, x>> \notin R
      BY <2>1, <3>1, <3>2, <3>3
    <3> QED BY <1>3, <3>4
  <2> QED BY <2>1
<1>5. f \in [S -> N]
  BY <1>1
<1>6. IsFiniteSet(N) /\ Cardinality(N) = Cardinality(S)
  BY <1>0, FS_Interval
<1>7. f \in Injection(S, N)
  <2> HIDE DEF f, N
  <2> QED BY <1>4, <1>5 DEF Injection, IsInjective
<1>8. f \in Surjection(S, N)
  <2> HIDE DEF f, N
  <2> QED BY <1>6, <1>7, FS_Injection
<1>9. \A n \in N : \E x \in S : f[x] = n
  <2> HIDE DEF f, N
  <2> QED BY <1>8 DEF Surjection
<1>10. ASSUME NEW x \in S, NEW y \in S, Rank(S, R, x) < Rank(S, R, y)
       PROVE  <<x, y>> \in R
  <2>1. Rank(S, R, x) \in Nat /\ Rank(S, R, y) \in Nat
    BY <1>1
  <2>2. <<y, x>> \in R => Rank(S, R, y) < Rank(S, R, x)
    BY <1>2
  <2>3. x # y /\ <<y, x>> \notin R
    BY <1>10, <2>1, <2>2
  <2> QED BY <1>3, <2>3
<1> QED BY <1>1, <1>4, <1>9, <1>10

\* One of those ranks.
LEMMA RankTaken ==
  ASSUME NEW S, IsFiniteSet(S), NEW R, IsOrder(S, R), NEW n \in 0..(Cardinality(S) - 1)
  PROVE  \E x \in S : Rank(S, R, x) = n
BY Ranks

\* importCompareFn orders records by time, backward or forward.
LEMMA BeforeOrders ==
  ASSUME NEW a \in Records, NEW b \in Records, NEW c \in Records
  PROVE  /\ Ts(a) \in Nat
         /\ ~Before(a, a)
         /\ Before(a, b) => ~Before(b, a)
         /\ Before(a, b) /\ Before(b, c) => Before(a, c)
         /\ ~Before(a, b) /\ ~Before(b, c) => ~Before(a, c)
<1>1. Ts(a) \in Nat /\ Ts(b) \in Nat /\ Ts(c) \in Nat
  BY ArchiveAssumption DEF Ts
<1> QED BY <1>1 DEF Before

-----------------------------------------------------------------------------
(***************************************************************************)
(* Sorting.                                                                *)
(***************************************************************************)
\* sort.SliceStable puts each record at its rank.
LEMMA SortPermutes ==
  ASSUME NEW s \in Seq(Records)
  PROVE  /\ SortStable(s) \in Seq(Records) /\ Len(SortStable(s)) = Len(s)
         /\ \E f \in [DOMAIN s -> DOMAIN s] :
              /\ \A k \in DOMAIN s : SortStable(s)[k] = s[f[k]]
              /\ \A k, l \in DOMAIN s : k < l => f[k] \in InFront(s, f[l])
              /\ \A k, l \in DOMAIN s : f[k] = f[l] => k = l
              /\ \A i \in DOMAIN s : \E k \in DOMAIN s : f[k] = i
<1> DEFINE D == DOMAIN s
           R == {x \in D \X D : x[1] \in InFront(s, x[2])}
           n == Len(s)
<1>1. D = 1..n /\ n \in Nat /\ \A i \in D : s[i] \in Records
  OBVIOUS
<1>2. IsFiniteSet(D) /\ Cardinality(D) = n
  <2> HIDE DEF D, n
  <2> QED BY <1>1, FS_Interval
<1>3. \A i, j \in D : <<j, i>> \in R <=>
        Before(s[j], s[i]) \/ (~Before(s[i], s[j]) /\ j < i)
  BY DEF InFront
<1>4. \A i \in D : Less(D, R, i) = InFront(s, i)
  BY DEF Less, InFront
<1> HIDE DEF R
<1>5. IsOrder(D, R)
  <2>1. \A i \in D : <<i, i>> \notin R
    BY <1>1, <1>3, BeforeOrders
  <2>2. ASSUME NEW i \in D, NEW j \in D, NEW k \in D, <<i, j>> \in R, <<j, k>> \in R
        PROVE  <<i, k>> \in R
    <3>1. i \in Int /\ j \in Int /\ k \in Int
      BY <1>1
    <3>2. s[i] \in Records /\ s[j] \in Records /\ s[k] \in Records
      BY <1>1
    <3>3. Before(s[i], s[j]) \/ (~Before(s[j], s[i]) /\ i < j)
      BY <1>3, <2>2
    <3>4. Before(s[j], s[k]) \/ (~Before(s[k], s[j]) /\ j < k)
      BY <1>3, <2>2
    <3> DEFINE a == s[i]
               b == s[j]
               c == s[k]
    <3>5. a \in Records /\ b \in Records /\ c \in Records
      BY <3>2
    <3> HIDE DEF a, b, c, D
    <3>6. /\ Before(a, b) /\ Before(b, c) => Before(a, c)
          /\ ~Before(c, b) /\ ~Before(b, a) => ~Before(c, a)
          /\ Before(a, b) => ~Before(b, a)
          /\ Before(b, c) => ~Before(c, b)
          /\ ~Before(a, c) /\ ~Before(c, b) => ~Before(a, b)
          /\ ~Before(b, a) /\ ~Before(a, c) => ~Before(b, c)
      BY <3>5, BeforeOrders
    <3>7. Before(a, c) \/ (~Before(c, a) /\ i < k)
      BY <3>1, <3>3, <3>4, <3>6 DEF a, b, c
    <3> QED BY <1>3, <3>7 DEF a, c
  <2>3. ASSUME NEW i \in D, NEW j \in D
        PROVE  i = j \/ <<i, j>> \in R \/ <<j, i>> \in R
    <3>1. i \in Int /\ j \in Int
      BY <1>1
    <3> HIDE DEF D
    <3> QED BY <1>3, <3>1
  <2> HIDE DEF D
  <2> QED BY <2>1, <2>2, <2>3 DEF IsOrder
<1> DEFINE f == [k \in D |-> CHOOSE i \in D : Rank(D, R, i) = k - 1]
           t == SortStable(s)
<1>6. ASSUME NEW k \in D
      PROVE  f[k] \in D /\ Rank(D, R, f[k]) = k - 1
  <2>1. k - 1 \in 0..(n - 1)
    BY <1>1
  <2>2. \E i \in D : Rank(D, R, i) = k - 1
    <3> HIDE DEF D, n
    <3> QED BY <1>2, <1>5, <2>1, Ranks
  <2> HIDE DEF D
  <2> QED BY <2>2
<1>7. t = [k \in D |-> s[f[k]]]
  <2>1. \A i \in D : Rank(D, R, i) = Cardinality(InFront(s, i))
    BY <1>4 DEF Rank
  <2>2. ASSUME NEW k \in D
        PROVE  (CHOOSE i \in D : Rank(D, R, i) = k - 1)
                 = CHOOSE i \in D : Cardinality(InFront(s, i)) = k - 1
    <3> HIDE DEF D
    <3> QED BY <2>1, Zenon
  <2>3. \A k \in D : s[f[k]] = s[CHOOSE i \in D : Cardinality(InFront(s, i)) = k - 1]
    BY <2>2
  <2>4. t = [k \in D |-> s[CHOOSE i \in D : Cardinality(InFront(s, i)) = k - 1]]
    BY DEF SortStable
  <2> HIDE DEF D, f, t
  <2> QED BY <2>3, <2>4
<1>8. f \in [D -> D]
  <2>1. \A k \in D : (CHOOSE i \in D : Rank(D, R, i) = k - 1) \in D
    BY <1>6
  <2> HIDE DEF D
  <2> QED BY <2>1
<1> HIDE DEF f
<1>9. \A k \in D : t[k] = s[f[k]]
  <2> HIDE DEF D, t
  <2> QED BY <1>7
<1>10. ASSUME NEW k \in D, NEW l \in D, k < l
       PROVE  f[k] \in InFront(s, f[l])
  <2>1. f[k] \in D /\ f[l] \in D /\ Rank(D, R, f[k]) = k - 1 /\ Rank(D, R, f[l]) = l - 1
    BY <1>6
  <2>2. k - 1 < l - 1
    BY <1>1, <1>10
  <2>3. <<f[k], f[l]>> \in R
    <3> HIDE DEF D
    <3> QED BY <1>2, <1>5, <2>1, <2>2, Ranks
  <2> QED BY <2>3 DEF R
<1>11. ASSUME NEW k \in D, NEW l \in D, f[k] = f[l]
       PROVE  k = l
  <2>1. k - 1 = l - 1
    BY <1>6, <1>11
  <2> QED BY <1>1, <2>1
<1>12. ASSUME NEW i \in D
       PROVE  \E k \in D : f[k] = i
  <2> DEFINE k == Rank(D, R, i) + 1
  <2>1. Less(D, R, i) \subseteq D /\ i \notin Less(D, R, i)
    BY <1>5 DEF Less, IsOrder
  <2>2. /\ Cardinality(Less(D, R, i)) \in Nat /\ Cardinality(Less(D, R, i)) <= n
        /\ Cardinality(Less(D, R, i)) # n
    <3> HIDE DEF D, n
    <3> QED BY <1>2, <2>1, FS_Subset, FS_CardinalityType
  <2>3. k \in D /\ k - 1 = Rank(D, R, i)
    BY <1>1, <2>2 DEF Rank
  <2> HIDE DEF k
  <2>4. Rank(D, R, f[k]) = Rank(D, R, i) /\ f[k] \in D
    BY <1>6, <2>3
  <2>5. f[k] = i
    <3> HIDE DEF D
    <3> QED BY <1>2, <1>5, <2>4, Ranks
  <2> QED BY <2>3, <2>5
<1>13. t \in Seq(Records) /\ Len(t) = n
  <2>1. \A k \in D : s[f[k]] \in Records
    BY <1>1, <1>8
  <2>2. t \in [1..n -> Records]
    <3> HIDE DEF n, t, D
    <3> QED BY <1>1, <1>7, <2>1
  <2> HIDE DEF t
  <2>3. t \in Seq(Records)
    BY <1>1, <2>2, IsASeq
  <2> QED BY <1>1, <2>2, <2>3
<1> HIDE DEF t, D
<1>14. \E g \in [D -> D] :
         /\ \A k \in D : t[k] = s[g[k]]
         /\ \A k, l \in D : k < l => g[k] \in InFront(s, g[l])
         /\ \A k, l \in D : g[k] = g[l] => k = l
         /\ \A i \in D : \E k \in D : g[k] = i
  BY <1>8, <1>9, <1>10, <1>11, <1>12
<1> QED BY <1>13, <1>14 DEF t, D

\* What is sorted is the same records, in order.
LEMMA SortKeeps ==
  ASSUME NEW s \in Seq(Records)
  PROVE  /\ SortStable(s) \in Seq(Records) /\ Len(SortStable(s)) = Len(s)
         /\ Ordered(SortStable(s))
         /\ SeqSet(SortStable(s)) = SeqSet(s)
         /\ Once(s) => Once(SortStable(s))
<1> DEFINE t == SortStable(s)
           D == DOMAIN s
<1>1. PICK f \in [D -> D] :
         /\ \A k \in D : t[k] = s[f[k]]
         /\ \A k, l \in D : k < l => f[k] \in InFront(s, f[l])
         /\ \A k, l \in D : f[k] = f[l] => k = l
         /\ \A i \in D : \E k \in D : f[k] = i
  BY SortPermutes
<1>2. t \in Seq(Records) /\ Len(t) = Len(s)
  BY SortPermutes
<1> HIDE DEF t
<1>3. DOMAIN t = D
  BY <1>2
<1>4. \A i \in D : s[i] \in Records
  OBVIOUS
<1> HIDE DEF D
<1>5. Ordered(t)
  <2>1. ASSUME NEW k \in D, NEW l \in D, k < l
        PROVE  ~Before(t[l], t[k])
    <3>1. f[k] \in D /\ f[l] \in D /\ t[k] = s[f[k]] /\ t[l] = s[f[l]] /\ f[k] \in InFront(s, f[l])
      BY <1>1, <2>1
    <3>2. s[f[k]] \in Records /\ s[f[l]] \in Records
      BY <1>4, <3>1
    <3>3. Before(s[f[k]], s[f[l]]) => ~Before(s[f[l]], s[f[k]])
      BY <3>2, BeforeOrders
    <3> QED BY <3>1, <3>3 DEF InFront
  <2> QED BY <1>3, <2>1 DEF Ordered
<1>6. SeqSet(t) = SeqSet(s)
  <2>1. SeqSet(s) = {s[i] : i \in D} /\ SeqSet(t) = {t[i] : i \in D}
    BY <1>3 DEF SeqSet, D
  <2> QED BY <1>1, <2>1
<1>7. Once(s) => Once(t)
  BY <1>1, <1>3 DEF Once, D
<1> QED BY <1>2, <1>5, <1>6, <1>7 DEF t


-----------------------------------------------------------------------------
(***************************************************************************)
(* Repeating a step.                                                       *)
(***************************************************************************)
\* f is the course of a loop of L rounds that begins with a.
Course(f, L, a, Round) ==
  /\ f = [n \in 0..L |-> f[n]]
  /\ f[0] = a
  /\ \A n \in 1..L : f[n] = Round[n][f[n - 1]]

\* A loop of L rounds that begins with a has its course, whatever the rounds do.
LEMMA StepsExist ==
  ASSUME NEW L \in Nat, NEW a, NEW Round
  PROVE  \E f : Course(f, L, a, Round)
<1> DEFINE Upto(m, f) == [n \in 0..m |-> IF n = 0 THEN a ELSE Round[n][f[n - 1]]]
           T == {m \in 0..L : ~(\E f : f = Upto(m, f))}
<1>1. ASSUME T # {}
      PROVE  FALSE
  <2>1. T \subseteq Nat
    OBVIOUS
  <2> HIDE DEF T
  <2>2. PICK m \in T : \A y \in T : m <= y
    BY <1>1, <2>1, LeastNumber, Zenon
  <2>3. m \in 0..L /\ ~(\E f : f = Upto(m, f))
    BY <2>2 DEF T
  <2>4. m # 0
    <3> DEFINE f == [n \in 0..0 |-> a]
    <3>1. f = Upto(0, f)
      OBVIOUS
    <3> QED BY <2>3, <3>1
  <2>5. m - 1 \in 0..L /\ ~(m <= m - 1)
    BY <2>3, <2>4
  <2>6. m - 1 \notin T
    BY <2>2, <2>5
  <2>7. PICK f : f = Upto(m - 1, f)
    BY <2>5, <2>6 DEF T
  <2> DEFINE h == [n \in 0..m |-> IF n = m THEN Round[m][f[m - 1]] ELSE f[n]]
  <2>8. ASSUME NEW n \in 0..m
        PROVE  h[n] = IF n = 0 THEN a ELSE Round[n][h[n - 1]]
    <3>1. CASE n = m
      BY <2>3, <2>4, <3>1
    <3>2. CASE n # m /\ n = 0
      BY <2>3, <2>5, <2>7, <3>2
    <3>3. CASE n # m /\ n # 0
      <4>1. n \in 0..(m - 1) /\ n - 1 \in 0..m /\ n - 1 # m
        BY <2>3, <3>3
      <4>2. h[n] = f[n] /\ h[n - 1] = f[n - 1]
        BY <3>3, <4>1
      <4>3. f[n] = Round[n][f[n - 1]]
        <5> HIDE DEF h
        <5> QED BY <2>7, <3>3, <4>1
      <4> QED BY <3>3, <4>2, <4>3
    <3> QED BY <3>1, <3>2, <3>3
  <2>9. h = Upto(m, h)
    <3>1. h = [n \in 0..m |-> h[n]]
      OBVIOUS
    <3> HIDE DEF h
    <3> QED BY <2>8, <3>1
  <2> QED BY <2>3, <2>9
<1>2. L \in 0..L /\ L \notin T
  <2>1. L \in 0..L
    OBVIOUS
  <2> HIDE DEF T
  <2> QED BY <1>1, <2>1
<1>3. PICK f : f = Upto(L, f)
  BY <1>2
<1>4. f = [n \in 0..L |-> f[n]]
  BY <1>3
<1>5. \A n \in 0..L : f[n] = IF n = 0 THEN a ELSE Round[n][f[n - 1]]
  BY <1>3
<1>6. f[0] = a /\ \A n \in 1..L : f[n] = Round[n][f[n - 1]]
  BY <1>5
<1> QED BY <1>4, <1>6 DEF Course

\* What every round keeps holds after each of them.
LEMMA StepsTyped ==
  ASSUME NEW L \in Nat, NEW T, NEW a \in T, NEW Round,
         \A n \in 1..L : \A x \in T : Round[n][x] \in T,
         NEW f, Course(f, L, a, Round)
  PROVE  \A n \in 0..L : f[n] \in T
<1> DEFINE Bad == {n \in 0..L : f[n] \notin T}
<1>1. ASSUME Bad # {}
      PROVE  FALSE
  <2>1. Bad \subseteq Nat
    OBVIOUS
  <2> HIDE DEF Bad
  <2>2. PICK m \in Bad : \A y \in Bad : m <= y
    BY <1>1, <2>1, LeastNumber, Zenon
  <2>3. m \in 0..L /\ f[m] \notin T
    BY <2>2 DEF Bad
  <2>4. m # 0
    BY <2>3 DEF Course
  <2>5. m - 1 \in 0..L /\ ~(m <= m - 1) /\ m \in 1..L
    BY <2>3, <2>4
  <2>6. f[m - 1] \in T
    BY <2>2, <2>5 DEF Bad
  <2>7. f[m] = Round[m][f[m - 1]]
    BY <2>5 DEF Course
  <2> QED BY <2>3, <2>5, <2>6, <2>7
<1> QED BY <1>1
-----------------------------------------------------------------------------
(***************************************************************************)
(* Runs.                                                                   *)
(***************************************************************************)
Runs == Seq(Seq(Records))

\* The places of some runs.
LEMMA PlaceFacts ==
  ASSUME NEW runs \in Runs
  PROVE  /\ Len(runs) \in Nat /\ DOMAIN runs = 1..Len(runs)
         /\ \A k \in DOMAIN runs :
              runs[k] \in Seq(Records) /\ Len(runs[k]) \in Nat /\ DOMAIN runs[k] = 1..Len(runs[k])
         /\ \A x \in Places(runs) :
              x = <<x[1], x[2]>> /\ x[1] \in DOMAIN runs /\ x[2] \in DOMAIN runs[x[1]]
         /\ \A k \in DOMAIN runs : \A i \in DOMAIN runs[k] : <<k, i>> \in Places(runs)
         /\ All(runs) \subseteq Records
         /\ IsFiniteSet(Places(runs))
<1>1. Len(runs) \in Nat /\ DOMAIN runs = 1..Len(runs)
  BY DEF Runs
<1>2. \A k \in DOMAIN runs :
        runs[k] \in Seq(Records) /\ Len(runs[k]) \in Nat /\ DOMAIN runs[k] = 1..Len(runs[k])
  <2>1. \A k \in DOMAIN runs : runs[k] \in Seq(Records)
    BY DEF Runs
  <2> QED BY <2>1, LenProperties
<1>3. \A x \in Places(runs) :
        x = <<x[1], x[2]>> /\ x[1] \in DOMAIN runs /\ x[2] \in DOMAIN runs[x[1]]
  BY DEF Places
<1>4. \A k \in DOMAIN runs : \A i \in DOMAIN runs[k] : <<k, i>> \in Places(runs)
  BY DEF Places
<1>5. All(runs) \subseteq Records
  <2> SUFFICES ASSUME NEW x \in Places(runs) PROVE runs[x[1]][x[2]] \in Records
    BY DEF All, AtPlace
  <2>1. x[1] \in DOMAIN runs /\ x[2] \in DOMAIN runs[x[1]]
    BY <1>3
  <2>2. runs[x[1]] \in Seq(Records) /\ x[2] \in 1..Len(runs[x[1]])
    BY <1>2, <2>1
  <2> QED BY <2>2, ElementOfSeq
<1>6. IsFiniteSet(Places(runs))
  <2> DEFINE F == {{k} \X DOMAIN runs[k] : k \in DOMAIN runs}
             f == [k \in DOMAIN runs |-> {k} \X DOMAIN runs[k]]
  <2>1. IsFiniteSet(DOMAIN runs)
    BY <1>1, FS_Interval
  <2>2. f \in Surjection(DOMAIN runs, F)
    BY DEF Surjection
  <2>3. \A k \in DOMAIN runs : IsFiniteSet({k} \X DOMAIN runs[k])
    <3> SUFFICES ASSUME NEW k \in DOMAIN runs PROVE IsFiniteSet({k} \X DOMAIN runs[k])
      OBVIOUS
    <3> DEFINE D == DOMAIN runs[k]
    <3>1. IsFiniteSet(D)
      BY <1>2, FS_Interval
    <3> HIDE DEF D
    <3>2. IsFiniteSet({k} \X D)
      BY <3>1, FS_Singleton, FS_Product
    <3> QED BY <3>2 DEF D
  <2>4. \A T \in F : IsFiniteSet(T)
    BY <2>3
  <2> HIDE DEF F, f
  <2>5. IsFiniteSet(F)
    BY <2>1, <2>2, FS_Surjection
  <2>6. IsFiniteSet(UNION F)
    BY <2>4, <2>5, FS_UNION
  <2> QED BY <2>6 DEF F, Places
<1> QED BY <1>1, <1>2, <1>3, <1>4, <1>5, <1>6

\* The records of a run.
LEMMA RunFacts ==
  ASSUME NEW s \in Seq(Records)
  PROVE  /\ Len(s) \in Nat /\ DOMAIN s = 1..Len(s)
         /\ \A i \in DOMAIN s : s[i] \in Records
         /\ SeqSet(s) \subseteq Records
         /\ SeqSet(s) = {} <=> s = <<>>
         /\ Len(s) = 0 <=> s = <<>>
<1>1. Len(s) \in Nat /\ DOMAIN s = 1..Len(s) /\ \A i \in DOMAIN s : s[i] \in Records
  OBVIOUS
<1>2. Len(s) = 0 <=> s = <<>>
  BY EmptySeq
<1>3. SeqSet(s) = {} <=> Len(s) = 0
  <2>1. Len(s) # 0 => s[1] \in SeqSet(s)
    BY <1>1 DEF SeqSet
  <2>2. Len(s) = 0 => DOMAIN s = {}
    BY <1>1
  <2>3. DOMAIN s = {} => SeqSet(s) = {}
    BY DEF SeqSet
  <2> QED BY <2>1, <2>2, <2>3
<1> QED BY <1>1, <1>2, <1>3 DEF SeqSet

\* A run in which no record is twice has as many places as records.
LEMMA OnceCounts ==
  ASSUME NEW s \in Seq(Records), Once(s)
  PROVE  Cardinality(SeqSet(s)) = Len(s)
<1> DEFINE n == Len(s)
           D == 1..n
           S == SeqSet(s)
<1>1. n \in Nat /\ DOMAIN s = D
  BY RunFacts
<1>2. s \in [D -> S]
  <2>1. s = [i \in D |-> s[i]]
    OBVIOUS
  <2>2. \A i \in D : s[i] \in S
    BY <1>1 DEF SeqSet
  <2> HIDE DEF D, S
  <2> QED BY <2>1, <2>2
<1>3. \A y \in S : \E i \in D : s[i] = y
  BY <1>1 DEF SeqSet
<1>4. \A i, j \in D : s[i] = s[j] => i = j
  BY <1>1 DEF Once
<1>5. IsFiniteSet(D) /\ Cardinality(D) = n
  <2> HIDE DEF n
  <2> QED BY <1>1, FS_Interval
<1> HIDE DEF n, D, S
<1>6. s \in Bijection(D, S)
  BY <1>2, <1>3, <1>4 DEF Bijection, Injection, Surjection, IsInjective
<1>7. ExistsBijection(D, S)
  BY <1>6 DEF ExistsBijection
<1>8. Cardinality(S) = n
  BY <1>5, <1>7, FS_Bijection
<1> QED BY <1>8 DEF S, n

\* Without runs there are no records.
LEMMA NoRuns == <<>> \in Runs /\ Places(<<>>) = {} /\ All(<<>>) = {} /\ Apart(<<>>)
BY DEF Runs, Places, All, Apart

\* One run more brings its records, and keeps the runs apart if it brings none that was there.
LEMMA MoreRuns ==
  ASSUME NEW runs \in Runs, NEW s \in Seq(Records)
  PROVE  /\ Append(runs, s) \in Runs
         /\ All(Append(runs, s)) = All(runs) \cup SeqSet(s)
         /\ Apart(Append(runs, s)) <=>
              Apart(runs) /\ Once(s) /\ All(runs) \cap SeqSet(s) = {}
<1> DEFINE more == Append(runs, s)
           n == Len(runs) + 1
           P == Places(runs)
           Q == {n} \X DOMAIN s
<1>1. /\ more \in Runs /\ DOMAIN more = DOMAIN runs \cup {n} /\ n \notin DOMAIN runs
      /\ more[n] = s /\ \A k \in DOMAIN runs : more[k] = runs[k]
  BY DEF Runs
<1> HIDE DEF more, n
<1>2. Places(more) = P \cup Q
  BY <1>1 DEF Places
<1>3. \A x \in P : x[1] \in DOMAIN runs /\ AtPlace(more, x) = AtPlace(runs, x)
  BY <1>1, PlaceFacts DEF AtPlace
<1>4. \A x \in Q : x = <<n, x[2]>> /\ x[2] \in DOMAIN s /\ AtPlace(more, x) = s[x[2]]
  BY <1>1 DEF AtPlace
<1>5. \A i \in DOMAIN s : <<n, i>> \in Q /\ AtPlace(more, <<n, i>>) = s[i]
  BY <1>1 DEF AtPlace
<1> HIDE DEF P, Q
<1>6. All(more) = All(runs) \cup SeqSet(s)
  <2>1. All(more) = {AtPlace(more, x) : x \in P} \cup {AtPlace(more, x) : x \in Q}
    BY <1>2 DEF All
  <2>2. {AtPlace(more, x) : x \in P} = All(runs)
    BY <1>3 DEF All, P
  <2>3. {AtPlace(more, x) : x \in Q} = SeqSet(s)
    <3>1. ASSUME NEW x \in Q PROVE AtPlace(more, x) \in SeqSet(s)
      BY <1>4 DEF SeqSet
    <3>2. ASSUME NEW i \in DOMAIN s PROVE \E x \in Q : AtPlace(more, x) = s[i]
      BY <1>5
    <3>3. SeqSet(s) = {s[i] : i \in DOMAIN s}
      BY DEF SeqSet
    <3> QED BY <3>1, <3>2, <3>3
  <2> QED BY <2>1, <2>2, <2>3
<1>7. ASSUME Apart(more)
      PROVE  Apart(runs) /\ Once(s) /\ All(runs) \cap SeqSet(s) = {}
  <2>1. \A x, y \in P \cup Q : AtPlace(more, x) = AtPlace(more, y) => x = y
    BY <1>2, <1>7 DEF Apart
  <2>2. Apart(runs)
    BY <1>3, <2>1 DEF Apart, P
  <2>3. Once(s)
    <3>1. ASSUME NEW i \in DOMAIN s, NEW j \in DOMAIN s, s[i] = s[j]
          PROVE  i = j
      <4>1. <<n, i>> = <<n, j>>
        BY <1>5, <2>1, <3>1
      <4> QED BY <4>1
    <3> QED BY <3>1 DEF Once
  <2>4. ASSUME NEW x \in P, NEW i \in DOMAIN s, AtPlace(runs, x) = s[i]
        PROVE  FALSE
    <3>1. x = <<n, i>>
      BY <1>3, <1>5, <2>1, <2>4
    <3>2. x[1] = n
      BY <3>1
    <3> QED BY <1>1, <1>3, <3>2
  <2> QED BY <2>2, <2>3, <2>4 DEF All, SeqSet, P
<1>8. ASSUME Apart(runs), Once(s), All(runs) \cap SeqSet(s) = {}
      PROVE  Apart(more)
  <2> SUFFICES ASSUME NEW x \in P \cup Q, NEW y \in P \cup Q, AtPlace(more, x) = AtPlace(more, y)
               PROVE  x = y
    BY <1>2 DEF Apart
  <2>1. CASE x \in P /\ y \in P
    BY <1>3, <1>8, <2>1 DEF Apart, P
  <2>2. CASE x \in Q /\ y \in Q
    <3>1. s[x[2]] = s[y[2]] /\ x[2] \in DOMAIN s /\ y[2] \in DOMAIN s
      BY <1>4, <2>2
    <3>2. x[2] = y[2]
      BY <1>8, <3>1 DEF Once
    <3> QED BY <1>4, <2>2, <3>2
  <2>3. \A a \in P, b \in Q : AtPlace(more, a) # AtPlace(more, b)
    BY <1>3, <1>4, <1>8 DEF All, SeqSet, P
  <2> QED BY <2>1, <2>2, <2>3
<1> QED BY <1>1, <1>6, <1>7, <1>8 DEF more

\* Taking the first record of a run that is not empty.
LEMMA DropHead ==
  ASSUME NEW runs \in Runs, NEW k \in Heads(runs)
  PROVE  LET rest == [runs EXCEPT ![k] = Tail(@)] IN
         /\ runs[k][1] \in Records
         /\ rest \in Runs /\ Len(rest) = Len(runs)
         /\ Cardinality(Places(rest)) = Cardinality(Places(runs)) - 1
         /\ All(rest) \cup {runs[k][1]} = All(runs)
         /\ Apart(runs) => Apart(rest) /\ runs[k][1] \notin All(rest)
         /\ (\A j \in DOMAIN runs : Ordered(runs[j])) => \A j \in DOMAIN rest : Ordered(rest[j])
<1> DEFINE rest == [runs EXCEPT ![k] = Tail(@)]
           s == runs[k]
           t == Tail(s)
           n == Len(s)
           h == s[1]
<1>1. /\ k \in DOMAIN runs /\ s \in Seq(Records) /\ n \in Nat \ {0}
      /\ DOMAIN s = 1..n
  BY PlaceFacts DEF Heads
<1>2. h \in Records
  BY <1>1, ElementOfSeq
<1>3. /\ t \in Seq(Records) /\ Len(t) = n - 1 /\ DOMAIN t = 1..(n - 1)
      /\ \A i \in 1..(n - 1) : t[i] = s[i + 1]
  <2>1. s # <<>>
    BY <1>1, EmptySeq
  <2> HIDE DEF s
  <2> QED BY <1>1, <2>1, HeadTailProperties, LenProperties
<1>4. /\ rest \in Runs /\ Len(rest) = Len(runs) /\ DOMAIN rest = DOMAIN runs
      /\ rest[k] = t /\ \A j \in DOMAIN runs : j # k => rest[j] = runs[j]
  <2>1. k \in 1..Len(runs)
    BY <1>1, PlaceFacts
  <2>2. /\ rest \in Runs /\ Len(rest) = Len(runs)
    <3> HIDE DEF t
    <3>1. rest = [runs EXCEPT ![k] = t]
      BY DEF t
    <3> HIDE DEF rest
    <3> QED BY <1>3, <2>1, <3>1, ExceptSeq DEF Runs
  <2> QED BY <1>1, <2>2
<1> HIDE DEF t, n, s, rest, h
<1> DEFINE up(x) == <<x[1], IF x[1] = k THEN x[2] + 1 ELSE x[2]>>
           P == Places(runs)
           Q == Places(rest)
<1>5. Q = P \ {<<k, n>>}
  <2>1. ASSUME NEW x \in Q
        PROVE  x \in P /\ x # <<k, n>>
    <3>1. x = <<x[1], x[2]>> /\ x[1] \in DOMAIN runs /\ x[2] \in DOMAIN rest[x[1]]
      BY <1>4, PlaceFacts
    <3>2. CASE x[1] = k
      <4>1. x[2] \in 1..(n - 1)
        BY <1>3, <1>4, <3>1, <3>2
      <4>2. x[2] \in DOMAIN runs[k] /\ x[2] # n
        BY <1>1, <4>1 DEF s
      <4>3. <<k, x[2]>> \in P
        BY <1>1, <4>2, PlaceFacts
      <4> QED BY <3>1, <3>2, <4>2, <4>3
    <3>3. CASE x[1] # k
      <4>1. <<x[1], x[2]>> \in P
        BY <1>4, <3>1, <3>3, PlaceFacts
      <4> QED BY <3>1, <3>3, <4>1
    <3> QED BY <3>2, <3>3
  <2>2. ASSUME NEW x \in P, x # <<k, n>>
        PROVE  x \in Q
    <3>1. x = <<x[1], x[2]>> /\ x[1] \in DOMAIN runs /\ x[2] \in DOMAIN runs[x[1]]
      BY PlaceFacts
    <3>2. x[2] \in DOMAIN rest[x[1]]
      <4>1. CASE x[1] = k
        <5>1. x[2] \in 1..n /\ x[2] # n
          BY <1>1, <2>2, <3>1, <4>1 DEF s
        <5>2. x[2] \in 1..(n - 1)
          BY <1>1, <5>1
        <5> QED BY <1>3, <1>4, <4>1, <5>2
      <4>2. CASE x[1] # k
        BY <1>4, <3>1, <4>2
      <4> QED BY <4>1, <4>2
    <3>3. <<x[1], x[2]>> \in Q
      BY <1>4, <3>1, <3>2, PlaceFacts
    <3> QED BY <3>1, <3>3
  <2> QED BY <2>1, <2>2
<1>6. /\ <<k, n>> \in P /\ <<k, 1>> \in P
      /\ IsFiniteSet(P) /\ Cardinality(Q) = Cardinality(P) - 1
  <2>1. <<k, n>> \in P /\ <<k, 1>> \in P
    BY <1>1, PlaceFacts DEF s
  <2>2. IsFiniteSet(P)
    BY PlaceFacts
  <2> HIDE DEF P, Q
  <2> QED BY <1>5, <2>1, <2>2, FS_RemoveElement
<1>7. ASSUME NEW x \in Q
      PROVE  /\ up(x) \in P /\ up(x) # <<k, 1>>
             /\ AtPlace(rest, x) = AtPlace(runs, up(x))
  <2>1. x = <<x[1], x[2]>> /\ x[1] \in DOMAIN runs /\ x[2] \in DOMAIN rest[x[1]]
    BY <1>4, PlaceFacts
  <2>2. CASE x[1] = k
    <3>1. x[2] \in 1..(n - 1)
      BY <1>3, <1>4, <2>1, <2>2
    <3>2. x[2] + 1 \in DOMAIN runs[k] /\ x[2] + 1 # 1 /\ t[x[2]] = s[x[2] + 1]
      BY <1>1, <1>3, <3>1 DEF s
    <3>3. <<k, x[2] + 1>> \in P
      BY <1>1, <3>2, PlaceFacts
    <3>4. up(x) = <<k, x[2] + 1>>
      BY <2>2
    <3> HIDE DEF up
    <3> QED BY <1>4, <2>2, <3>2, <3>3, <3>4 DEF AtPlace, s
  <2>3. CASE x[1] # k
    <3>1. <<x[1], x[2]>> \in P
      BY <1>4, <2>1, <2>3, PlaceFacts
    <3>2. up(x) = <<x[1], x[2]>>
      BY <2>3
    <3> HIDE DEF up
    <3> QED BY <1>4, <2>1, <2>3, <3>1, <3>2 DEF AtPlace
  <2> QED BY <2>2, <2>3
<1>8. ASSUME NEW y \in P, y # <<k, 1>>
      PROVE  \E x \in Q : up(x) = y
  <2>1. y = <<y[1], y[2]>> /\ y[1] \in DOMAIN runs /\ y[2] \in DOMAIN runs[y[1]]
    BY PlaceFacts
  <2>2. CASE y[1] = k
    <3>1. y[2] \in 1..n /\ y[2] # 1
      BY <1>1, <1>8, <2>1, <2>2 DEF s
    <3>2. y[2] - 1 \in 1..(n - 1) /\ (y[2] - 1) + 1 = y[2]
      BY <1>1, <3>1
    <3>3. <<k, y[2] - 1>> \in Q
      BY <1>1, <1>3, <1>4, <3>2, PlaceFacts
    <3>4. up(<<k, y[2] - 1>>) = <<k, y[2]>>
      BY <3>2
    <3> HIDE DEF up, Q
    <3> QED BY <2>1, <2>2, <3>3, <3>4
  <2>3. CASE y[1] # k
    <3>1. y \in Q
      BY <1>5, <2>1, <2>3
    <3>2. up(y) = y
      BY <2>1, <2>3
    <3> HIDE DEF up, Q
    <3> QED BY <3>1, <3>2
  <2> QED BY <2>2, <2>3
<1>9. ASSUME NEW x \in Q, NEW y \in Q, up(x) = up(y)
      PROVE  x = y
  <2>1. /\ x = <<x[1], x[2]>> /\ y = <<y[1], y[2]>>
        /\ x[1] \in DOMAIN rest /\ y[1] \in DOMAIN rest
        /\ x[2] \in DOMAIN rest[x[1]] /\ y[2] \in DOMAIN rest[y[1]]
    BY <1>4, PlaceFacts
  <2>2. x[2] \in Int /\ y[2] \in Int
    <3>1. \A j \in DOMAIN rest : DOMAIN rest[j] = 1..Len(rest[j])
      BY <1>4, PlaceFacts
    <3> QED BY <2>1, <3>1
  <2>3. x[1] = y[1] /\ x[2] = y[2]
    BY <1>9, <2>2
  <2> QED BY <2>1, <2>3
<1>10. AtPlace(runs, <<k, 1>>) = h
  BY DEF AtPlace, h, s
<1> HIDE DEF P, Q, up
<1>11. All(rest) \cup {h} = All(runs)
  <2>1. All(rest) = {AtPlace(rest, x) : x \in Q} /\ All(runs) = {AtPlace(runs, y) : y \in P}
    BY DEF All, P, Q
  <2>2. All(rest) \cup {h} \subseteq All(runs)
    BY <1>6, <1>7, <1>10, <2>1
  <2>3. All(runs) \subseteq All(rest) \cup {h}
    BY <1>7, <1>8, <1>10, <2>1
  <2> QED BY <2>2, <2>3
<1>12. ASSUME Apart(runs)
       PROVE  Apart(rest) /\ h \notin All(rest)
  <2>1. \A x, y \in P : AtPlace(runs, x) = AtPlace(runs, y) => x = y
    BY <1>12 DEF Apart, P
  <2>2. \A x, y \in Q : AtPlace(rest, x) = AtPlace(rest, y) => x = y
    BY <1>7, <1>9, <2>1
  <2>3. \A x \in Q : AtPlace(rest, x) # h
    BY <1>6, <1>7, <1>10, <2>1
  <2> QED BY <2>2, <2>3 DEF Apart, All, Q
<1>13. ASSUME \A j \in DOMAIN runs : Ordered(runs[j]), NEW j \in DOMAIN rest
       PROVE  Ordered(rest[j])
  <2>1. CASE j = k
    <3>1. Ordered(s)
      BY <1>1, <1>13 DEF s
    <3>2. ASSUME NEW a \in DOMAIN t, NEW b \in DOMAIN t, a < b
          PROVE  ~Before(t[b], t[a])
      <4>1. /\ a + 1 \in DOMAIN s /\ b + 1 \in DOMAIN s /\ a + 1 < b + 1
            /\ t[a] = s[a + 1] /\ t[b] = s[b + 1]
        BY <1>1, <1>3, <3>2
      <4> QED BY <3>1, <4>1 DEF Ordered
    <3> QED BY <1>4, <2>1, <3>2 DEF Ordered
  <2>2. CASE j # k
    BY <1>4, <1>13, <2>2
  <2> QED BY <2>1, <2>2
<1> QED BY <1>2, <1>4, <1>6, <1>11, <1>12, <1>13 DEF rest, P, Q, h, s

-----------------------------------------------------------------------------
(***************************************************************************)
(* Merging.                                                                *)
(***************************************************************************)
\* The head that MergeSort.Read takes is none that another head goes before.
LEMMA FirstIsFirst ==
  ASSUME NEW runs \in Runs, Heads(runs) # {}
  PROVE  /\ FirstRun(runs) \in Heads(runs)
         /\ \A j \in Heads(runs) : ~Before(runs[j][1], runs[FirstRun(runs)][1])
<1> DEFINE H == Heads(runs)
           R == {x \in H \X H : \/ Before(runs[x[1]][1], runs[x[2]][1])
                                \/ ~Before(runs[x[2]][1], runs[x[1]][1]) /\ x[1] < x[2]}
<1>1. /\ H \subseteq 1..Len(runs) /\ Len(runs) \in Nat
      /\ \A k \in H : runs[k][1] \in Records
  <2>1. \A k \in H : 1 \in DOMAIN runs[k]
    BY PlaceFacts DEF Heads
  <2>2. \A k \in H : runs[k][1] \in Records
    BY <2>1, PlaceFacts, ElementOfSeq DEF Heads
  <2> QED BY <2>2, PlaceFacts DEF Heads
<1>2. IsFiniteSet(H)
  <2> DEFINE n == Len(runs)
  <2>1. n \in Int /\ H \subseteq 1..n
    BY <1>1
  <2> HIDE DEF H, n
  <2>2. IsFiniteSet(1..n)
    BY <2>1, FS_Interval
  <2> QED BY <2>1, <2>2, FS_Subset
<1>3. \A j, i \in H : <<j, i>> \in R <=>
        Before(runs[j][1], runs[i][1]) \/ (~Before(runs[i][1], runs[j][1]) /\ j < i)
  OBVIOUS
<1> HIDE DEF R, H
<1>4. IsOrder(H, R)
  <2>1. \A i \in H : <<i, i>> \notin R
    BY <1>1, <1>3, BeforeOrders
  <2>2. ASSUME NEW i \in H, NEW j \in H, NEW k \in H, <<i, j>> \in R, <<j, k>> \in R
        PROVE  <<i, k>> \in R
    <3>1. i \in Int /\ j \in Int /\ k \in Int
      BY <1>1
    <3> DEFINE a == runs[i][1]
               b == runs[j][1]
               c == runs[k][1]
    <3>2. Before(a, b) \/ (~Before(b, a) /\ i < j)
      BY <1>3, <2>2
    <3>3. Before(b, c) \/ (~Before(c, b) /\ j < k)
      BY <1>3, <2>2
    <3>4. a \in Records /\ b \in Records /\ c \in Records
      BY <1>1
    <3> HIDE DEF a, b, c
    <3>5. /\ Before(a, b) /\ Before(b, c) => Before(a, c)
          /\ ~Before(c, b) /\ ~Before(b, a) => ~Before(c, a)
          /\ Before(a, b) => ~Before(b, a)
          /\ Before(b, c) => ~Before(c, b)
          /\ ~Before(a, c) /\ ~Before(c, b) => ~Before(a, b)
          /\ ~Before(b, a) /\ ~Before(a, c) => ~Before(b, c)
      BY <3>4, BeforeOrders
    <3>6. Before(a, c) \/ (~Before(c, a) /\ i < k)
      BY <3>1, <3>2, <3>3, <3>5
    <3> QED BY <1>3, <3>6 DEF a, c
  <2>3. ASSUME NEW i \in H, NEW j \in H
        PROVE  i = j \/ <<i, j>> \in R \/ <<j, i>> \in R
    <3>1. i \in Int /\ j \in Int
      BY <1>1
    <3> QED BY <1>3, <3>1
  <2> QED BY <2>1, <2>2, <2>3 DEF IsOrder
<1>5. PICK k \in H : Rank(H, R, k) = 0
  <2>1. Cardinality(H) \in Nat /\ Cardinality(H) # 0
    BY <1>2, FS_CardinalityType, FS_EmptySet DEF H
  <2>2. 0 \in 0..(Cardinality(H) - 1)
    BY <2>1
  <2> QED BY <1>2, <1>4, <2>2, Ranks
<1>6. Less(H, R, k) = {}
  <2>1. IsFiniteSet(Less(H, R, k))
    BY <1>2, FS_Subset DEF Less
  <2> QED BY <1>5, <2>1, FS_EmptySet DEF Rank
<1>7. \A j \in H \ {k} : <<k, j>> \in R
  BY <1>4, <1>6 DEF IsOrder, Less
<1> DEFINE IsFirst(x) == \A j \in H \ {x} :
             Before(runs[x][1], runs[j][1]) \/ (~Before(runs[j][1], runs[x][1]) /\ x < j)
<1>8. IsFirst(k)
  BY <1>3, <1>7
<1>9. FirstRun(runs) = CHOOSE x \in H : IsFirst(x)
  BY DEF FirstRun, H
<1>10. FirstRun(runs) \in H /\ IsFirst(FirstRun(runs))
  <2> HIDE DEF IsFirst
  <2> QED BY <1>5, <1>8, <1>9, Zenon
<1> DEFINE f == FirstRun(runs)
<1>11. ASSUME NEW j \in H
       PROVE  ~Before(runs[j][1], runs[f][1])
  <2>0. f \in H
    BY <1>10
  <2>1. runs[j][1] \in Records /\ runs[f][1] \in Records
    BY <1>1, <2>0
  <2>2. /\ ~Before(runs[j][1], runs[j][1])
        /\ Before(runs[f][1], runs[j][1]) => ~Before(runs[j][1], runs[f][1])
    BY <2>1, BeforeOrders
  <2>3. j # f => Before(runs[f][1], runs[j][1]) \/ ~Before(runs[j][1], runs[f][1])
    BY <1>10
  <2> QED BY <2>2, <2>3
<1> QED BY <1>10, <1>11 DEF H

\* n records have been read from the runs.
Merged(runs, m, n) ==
  /\ m \in Merging
  /\ \A k \in DOMAIN m.runs : Ordered(m.runs[k])
  /\ Ordered(m.out)
  /\ \A i \in DOMAIN m.out : \A r \in All(m.runs) : ~Before(r, m.out[i])
  /\ SeqSet(m.out) \cup All(m.runs) = All(runs)
  /\ Cardinality(Places(m.runs)) = Cardinality(Places(runs)) - n
  /\ Apart(runs) => /\ Once(m.out) /\ Apart(m.runs)
                    /\ SeqSet(m.out) \cap All(m.runs) = {}

\* Some reader has moved a head that no other one goes before to what has been read.
Moves(m, b) ==
  \E k \in Heads(m.runs) :
    /\ \A j \in Heads(m.runs) : ~Before(m.runs[j][1], m.runs[k][1])
    /\ b = [runs |-> [m.runs EXCEPT ![k] = Tail(@)], out |-> Append(m.out, m.runs[k][1])]

\* Such a step takes a record that comes first of all that are left.
LEMMA MoveKeeps ==
  ASSUME NEW runs \in Runs, NEW n \in Nat, n < Cardinality(Places(runs)),
         NEW m, Merged(runs, m, n), NEW b, Moves(m, b)
  PROVE  Merged(runs, b, n + 1)
<1> DEFINE rs == m.runs
           out == m.out
<1>5. PICK k \in Heads(rs) :
        /\ \A j \in Heads(rs) : ~Before(rs[j][1], rs[k][1])
        /\ b = [runs |-> [rs EXCEPT ![k] = Tail(@)], out |-> Append(out, rs[k][1])]
  BY DEF Moves
<1> DEFINE h == rs[k][1]
           rest == [rs EXCEPT ![k] = Tail(@)]
           more == Append(out, h)
<1>1. b = [runs |-> rest, out |-> more]
  BY <1>5
<1>2. rs \in Runs /\ out \in Seq(Records)
  BY DEF Merged, Merging, Runs
<1>3. /\ \A j \in DOMAIN rs : Ordered(rs[j])
      /\ Ordered(out)
      /\ \A i \in DOMAIN out : \A r \in All(rs) : ~Before(r, out[i])
      /\ SeqSet(out) \cup All(rs) = All(runs)
      /\ Cardinality(Places(rs)) = Cardinality(Places(runs)) - n
      /\ Apart(runs) => Once(out) /\ Apart(rs) /\ SeqSet(out) \cap All(rs) = {}
  BY DEF Merged
<1> HIDE DEF rs, out
<1>4. Cardinality(Places(runs)) \in Nat
  BY PlaceFacts, FS_CardinalityType
<1>6. k \in Heads(rs) /\ \A j \in Heads(rs) : ~Before(rs[j][1], h)
  BY <1>5
<1>7. /\ h \in Records
      /\ rest \in Runs
      /\ Cardinality(Places(rest)) = Cardinality(Places(rs)) - 1
      /\ All(rest) \cup {h} = All(rs)
      /\ Apart(rs) => Apart(rest) /\ h \notin All(rest)
      /\ \A j \in DOMAIN rest : Ordered(rest[j])
  BY <1>2, <1>3, <1>6, DropHead
<1>8. ASSUME NEW r \in All(rs)
      PROVE  ~Before(r, h)
  <2>1. PICK x \in Places(rs) : r = AtPlace(rs, x)
    BY DEF All
  <2>2. /\ x[1] \in DOMAIN rs /\ x[2] \in DOMAIN rs[x[1]]
        /\ DOMAIN rs[x[1]] = 1..Len(rs[x[1]]) /\ Len(rs[x[1]]) \in Nat
        /\ rs[x[1]] \in Seq(Records)
    BY <1>2, PlaceFacts
  <2> DEFINE g == rs[x[1]][1]
  <2>3. x[1] \in Heads(rs) /\ 1 \in DOMAIN rs[x[1]]
    BY <2>2 DEF Heads
  <2>4. ~Before(g, h)
    BY <1>6, <2>3
  <2>5. g \in Records /\ r \in Records
    BY <2>1, <2>2, <2>3, ElementOfSeq DEF AtPlace
  <2>6. ~Before(r, g)
    <3>1. CASE x[2] = 1
      BY <2>1, <2>5, <3>1, BeforeOrders DEF AtPlace
    <3>2. CASE x[2] # 1
      <4>1. 1 < x[2]
        BY <2>2, <3>2
      <4>2. Ordered(rs[x[1]])
        BY <1>3, <2>2
      <4> QED BY <2>1, <2>2, <2>3, <4>1, <4>2 DEF Ordered, AtPlace
    <3> QED BY <3>1, <3>2
  <2> HIDE DEF g
  <2> QED BY <1>7, <2>4, <2>5, <2>6, BeforeOrders
<1> HIDE DEF h, rest
<1> DEFINE l == Len(out) + 1
<1>9. /\ more \in Seq(Records) /\ DOMAIN more = DOMAIN out \cup {l} /\ l \notin DOMAIN out
      /\ more[l] = h /\ \A i \in DOMAIN out : more[i] = out[i] /\ i < l
  BY <1>2, <1>7
<1>10. SeqSet(more) = SeqSet(out) \cup {h}
  BY <1>9 DEF SeqSet
<1> HIDE DEF more, l
<1>11. Ordered(more)
  <2> SUFFICES ASSUME NEW i \in DOMAIN more, NEW j \in DOMAIN more, i < j
               PROVE  ~Before(more[j], more[i])
    BY DEF Ordered
  <2>1. i \in DOMAIN out
    <3>1. DOMAIN out \subseteq Int /\ l \in Int
      BY <1>2 DEF l
    <3>2. \A x \in DOMAIN out : x < l
      BY <1>9
    <3>3. i = l => FALSE
      <4>1. j \in Int /\ (j = l \/ j < l)
        BY <1>9, <3>1, <3>2
      <4> QED BY <3>1, <4>1
    <3> QED BY <1>9, <3>3
  <2>2. CASE j \in DOMAIN out
    BY <1>3, <1>9, <2>1, <2>2 DEF Ordered
  <2>3. CASE j = l
    <3>1. h \in All(rs)
      BY <1>7
    <3> QED BY <1>3, <1>9, <2>1, <2>3, <3>1
  <2> QED BY <1>9, <2>2, <2>3
<1>12. \A i \in DOMAIN more : \A r \in All(rest) : ~Before(r, more[i])
  <2>1. All(rest) \subseteq All(rs)
    BY <1>7
  <2> QED BY <1>3, <1>8, <1>9, <2>1
<1>13. SeqSet(more) \cup All(rest) = All(runs)
  BY <1>3, <1>7, <1>10
<1>14. ASSUME Apart(runs)
       PROVE  Once(more) /\ Apart(rest) /\ SeqSet(more) \cap All(rest) = {}
  <2>1. Once(out) /\ Apart(rs) /\ SeqSet(out) \cap All(rs) = {}
    BY <1>3, <1>14
  <2>2. Apart(rest) /\ h \notin All(rest) /\ h \in All(rs) /\ All(rest) \subseteq All(rs)
    BY <1>7, <2>1
  <2>3. \A i \in DOMAIN out : out[i] # h
    BY <2>1, <2>2 DEF SeqSet
  <2>4. Once(more)
    BY <1>9, <2>1, <2>3 DEF Once
  <2> QED BY <1>10, <2>1, <2>2, <2>4
<1>15. Cardinality(Places(rest)) = Cardinality(Places(runs)) - (n + 1)
  BY <1>3, <1>4, <1>7
<1>16. b \in Merging /\ b.runs = rest /\ b.out = more
  BY <1>1, <1>7, <1>9 DEF Merging, Runs
<1> QED BY <1>7, <1>11, <1>12, <1>13, <1>14, <1>15, <1>16 DEF Merged

\* As long as there is a place with a record some run has a head.
LEMMA HeadsLeft ==
  ASSUME NEW rs \in Runs, Cardinality(Places(rs)) # 0
  PROVE  Heads(rs) # {}
<1>1. Places(rs) # {}
  BY FS_EmptySet
<1>2. PICK x \in Places(rs) : TRUE
  BY <1>1
<1>3. x[1] \in DOMAIN rs /\ x[2] \in 1..Len(rs[x[1]]) /\ Len(rs[x[1]]) \in Nat
  BY PlaceFacts
<1>4. x[1] \in Heads(rs)
  BY <1>3 DEF Heads
<1> QED BY <1>4

\* MergeSort.Read is such a step.
LEMMA ReadKeeps ==
  ASSUME NEW m \in Merging, Heads(m.runs) # {}
  PROVE  Moves(m, ReadNext[m])
<1>1. m.runs \in Runs
  BY DEF Merging, Runs
<1>2. /\ FirstRun(m.runs) \in Heads(m.runs)
      /\ \A j \in Heads(m.runs) : ~Before(m.runs[j][1], m.runs[FirstRun(m.runs)][1])
  BY <1>1, FirstIsFirst
<1> DEFINE k == FirstRun(m.runs)
<1>3. ReadNext[m] = [runs |-> [m.runs EXCEPT ![k] = Tail(@)], out |-> Append(m.out, m.runs[k][1])]
  BY DEF ReadNext
<1> HIDE DEF k
<1> QED BY <1>2, <1>3 DEF Moves, k

\* The state after n reads is that after n - 1, and one read more.
LEMMA ReadsEquation ==
  ASSUME NEW runs \in Runs
  PROVE  Reads(runs) =
           [n \in 0..Cardinality(Places(runs)) |->
              IF n = 0 THEN [runs |-> runs, out |-> <<>>] ELSE ReadNext[Reads(runs)[n - 1]]]
<1> DEFINE a == [runs |-> runs, out |-> <<>>]
           L == Cardinality(Places(runs))
           Round == [n \in 1..L |-> ReadNext]
<1>0. L \in Nat
  BY PlaceFacts, FS_CardinalityType
<1>1. PICK f : Course(f, L, a, Round)
  <2> HIDE DEF a, L, Round
  <2> QED BY <1>0, StepsExist
<1>2. \A n \in 1..L : f[n] = ReadNext[f[n - 1]]
  BY <1>1 DEF Course
<1>3. f = [n \in 0..L |-> IF n = 0 THEN a ELSE ReadNext[f[n - 1]]]
  <2> HIDE DEF a, L, Round
  <2>1. \A n \in 0..L : f[n] = IF n = 0 THEN a ELSE ReadNext[f[n - 1]]
    <3>1. \A n \in 0..L : n # 0 => n \in 1..L
      BY <1>0
    <3> QED BY <1>1, <1>2, <3>1 DEF Course
  <2> QED BY <1>1, <2>1 DEF Course
<1>4. \E g : g = [n \in 0..L |-> IF n = 0 THEN a ELSE ReadNext[g[n - 1]]]
  BY <1>3
<1> QED BY <1>4 DEF Reads

\* Whoever moves heads as long as there are some gives the records of sorted
\* runs, once and in order.
LEMMA AllRead ==
  ASSUME NEW runs \in Runs, \A k \in DOMAIN runs : Ordered(runs[k]),
         NEW R, R[0] = [runs |-> runs, out |-> <<>>],
         \A n \in 1..Cardinality(Places(runs)) :
           R[n - 1] \in Merging /\ Heads(R[n - 1].runs) # {} => Moves(R[n - 1], R[n])
  PROVE  LET out == R[Cardinality(Places(runs))].out IN
         /\ out \in Seq(Records)
         /\ Ordered(out)
         /\ SeqSet(out) = All(runs)
         /\ Apart(runs) => Once(out)
<1> DEFINE L == Cardinality(Places(runs))
           T == {n \in 0..L : ~Merged(runs, R[n], n)}
<1>0. L \in Nat
  BY PlaceFacts, FS_CardinalityType
<1>3. Merged(runs, R[0], 0)
  <2>1. /\ R[0].runs = runs /\ R[0].out = <<>>
        /\ R[0] \in Merging
    BY DEF Merging, Runs
  <2>2. DOMAIN R[0].out = {} /\ SeqSet(R[0].out) = {}
    BY <2>1 DEF SeqSet
  <2>3. Ordered(R[0].out) /\ Once(R[0].out)
    BY <2>2 DEF Ordered, Once
  <2>4. Cardinality(Places(runs)) = Cardinality(Places(runs)) - 0
    BY <1>0
  <2> QED BY <2>1, <2>2, <2>3, <2>4 DEF Merged
<1>4. ASSUME T # {}
      PROVE  FALSE
  <2>1. T \subseteq Nat
    BY <1>0
  <2> HIDE DEF T
  <2>2. PICK m \in T : \A y \in T : m <= y
    BY <1>4, <2>1, LeastNumber, Zenon
  <2>3. m \in 0..L /\ ~Merged(runs, R[m], m)
    BY <2>2 DEF T
  <2>4. m # 0
    BY <1>3, <2>3
  <2>5. m - 1 \in 0..L /\ m - 1 \in Nat /\ ~(m <= m - 1) /\ m - 1 < L /\ (m - 1) + 1 = m
    BY <1>0, <2>3, <2>4
  <2>6. m - 1 \notin T
    BY <2>2, <2>5
  <2>7. Merged(runs, R[m - 1], m - 1)
    BY <2>5, <2>6 DEF T
  <2> DEFINE j == m - 1
             x == R[j]
             y == R[m]
  <2>8. Heads(x.runs) # {}
    <3>1. x.runs \in Runs /\ Cardinality(Places(x.runs)) = L - j
      BY <2>7 DEF Merged, Merging, Runs
    <3>2. L - j # 0
      BY <1>0, <2>5
    <3> HIDE DEF x, j, L
    <3> QED BY <3>1, <3>2, HeadsLeft
  <2>9. Moves(x, y)
    <3>1. m \in 1..L /\ x \in Merging
      BY <1>0, <2>3, <2>4, <2>7 DEF Merged
    <3> QED BY <2>8, <3>1
  <2>10. Merged(runs, y, j + 1)
    <3>1. Merged(runs, x, j) /\ j \in Nat /\ j < Cardinality(Places(runs))
      BY <2>5, <2>7
    <3> HIDE DEF x, y, j
    <3> QED BY <2>9, <3>1, MoveKeeps
  <2> QED BY <2>3, <2>5, <2>10
<1> DEFINE m == R[L]
<1>5. Merged(runs, m, L)
  <2>1. L \in 0..L
    BY <1>0
  <2> QED BY <1>4, <2>1
<1> HIDE DEF m
<1>7. m.runs \in Runs /\ m.out \in Seq(Records)
  BY <1>5 DEF Merged, Merging, Runs
<1>8. All(m.runs) = {}
  <2>1. Cardinality(Places(m.runs)) = 0
    BY <1>0, <1>5 DEF Merged
  <2>2. Places(m.runs) = {}
    BY <1>7, <2>1, PlaceFacts, FS_EmptySet
  <2> QED BY <2>2 DEF All
<1>9. m.out = R[L].out
  BY DEF m
<1> QED BY <1>5, <1>7, <1>8, <1>9 DEF Merged

\* MergeSort gives the records of sorted runs, once and in order.
LEMMA MergeKeeps ==
  ASSUME NEW runs \in Runs, \A k \in DOMAIN runs : Ordered(runs[k])
  PROVE  /\ MergeRuns(runs) \in Seq(Records)
         /\ Ordered(MergeRuns(runs))
         /\ SeqSet(MergeRuns(runs)) = All(runs)
         /\ Apart(runs) => Once(MergeRuns(runs))
<1> DEFINE R == Reads(runs)
           L == Cardinality(Places(runs))
<1>0. L \in Nat
  BY PlaceFacts, FS_CardinalityType
<1> HIDE DEF R, L
<1>1. R = [n \in 0..L |-> IF n = 0 THEN [runs |-> runs, out |-> <<>>] ELSE ReadNext[R[n - 1]]]
  BY ReadsEquation DEF R, L
<1>2. R[0] = [runs |-> runs, out |-> <<>>]
  <2>1. 0 \in 0..L
    BY <1>0
  <2> QED BY <1>1, <2>1
<1>3. ASSUME NEW n \in 1..L, R[n - 1] \in Merging, Heads(R[n - 1].runs) # {}
      PROVE  Moves(R[n - 1], R[n])
  <2>1. R[n] = ReadNext[R[n - 1]]
    <3>1. n \in 0..L /\ n # 0
      BY <1>0
    <3> QED BY <1>1, <3>1
  <2> QED BY <1>3, <2>1, ReadKeeps
<1>4. \A n \in 1..L : R[n - 1] \in Merging /\ Heads(R[n - 1].runs) # {} => Moves(R[n - 1], R[n])
  BY <1>3
<1>5. MergeRuns(runs) = R[L].out
  BY DEF MergeRuns, R, L
<1> QED BY <1>2, <1>4, <1>5, AllRead DEF L

-----------------------------------------------------------------------------
(***************************************************************************)
(* The writer of a day.                                                    *)
(***************************************************************************)
\* What is known of what a writer has.
LEMMA WriterFacts ==
  ASSUME NEW d, NEW w, IsWriter(d, w)
  PROVE  /\ w.records \in Seq(Records) /\ w.runs \in Runs /\ Held(w) \in Runs
         /\ All(Held(w)) = All(w.runs) \cup SeqSet(w.records)
         /\ All(Held(w)) \subseteq Records
         /\ Apart(w.runs) /\ Once(w.records) /\ All(w.runs) \cap SeqSet(w.records) = {}
         /\ Len(w.records) \in Nat
         /\ TotalRecordBytes(w) \in Nat
         /\ TotalRecordBytes(w) = 0 <=> All(Held(w)) = {}
<1> DEFINE s == w.records
           runs == w.runs
           P == Places(runs)
<1>1. s \in Seq(Records) /\ runs \in Runs /\ Apart(Held(w)) /\ Held(w) = Append(runs, s)
  BY DEF IsWriter, Runs, Held
<1> HIDE DEF s, runs
<1>2. /\ Held(w) \in Runs /\ All(Held(w)) = All(runs) \cup SeqSet(s)
      /\ Apart(runs) /\ Once(s) /\ All(runs) \cap SeqSet(s) = {}
  BY <1>1, MoreRuns
<1>3. Len(s) \in Nat /\ (Len(s) = 0 <=> s = <<>>) /\ (SeqSet(s) = {} <=> s = <<>>)
  BY <1>1, RunFacts
<1>4. IsFiniteSet(P) /\ All(Held(w)) \subseteq Records
  BY <1>1, <1>2, PlaceFacts
<1>5. Cardinality(P) \in Nat /\ (Cardinality(P) = 0 <=> P = {})
  <2> HIDE DEF P
  <2> QED BY <1>4, FS_CardinalityType, FS_EmptySet
<1>6. P = {} <=> All(runs) = {}
  BY DEF All
<1>7. TotalRecordBytes(w) = Len(s) + Cardinality(P)
  BY DEF TotalRecordBytes, SpillSize, s, runs
<1> HIDE DEF P
<1>8. TotalRecordBytes(w) \in Nat /\ (TotalRecordBytes(w) = 0 <=> Len(s) = 0 /\ Cardinality(P) = 0)
  BY <1>3, <1>5, <1>7
<1>9. All(Held(w)) = {} <=> Len(s) = 0 /\ Cardinality(P) = 0
  BY <1>2, <1>3, <1>5, <1>6
<1> QED BY <1>1, <1>2, <1>3, <1>4, <1>8, <1>9 DEF s, runs

\* A new writer has nothing.
LEMMA NewWriterKeeps ==
  ASSUME NEW d
  PROVE  IsWriter(d, NewWriter) /\ All(Held(NewWriter)) = {} /\ NewWriter.records = <<>>
<1>1. <<>> \in Seq(Records) /\ <<>> \in Seq(Seq(Records))
  OBVIOUS
<1>2. NewWriter.records = <<>> /\ NewWriter.runs = <<>>
  BY DEF NewWriter
<1>3. SeqSet(<<>>) = {} /\ Once(<<>>)
  BY DEF SeqSet, Once
<1>4. Held(NewWriter) = Append(<<>>, <<>>)
  BY <1>2 DEF Held
<1>5. All(Held(NewWriter)) = {} /\ Apart(Held(NewWriter))
  <2> DEFINE e == <<>>
  <2>1. e \in Runs /\ e \in Seq(Records) /\ All(e) = {} /\ Apart(e) /\ SeqSet(e) = {} /\ Once(e)
    BY <1>1, <1>3, NoRuns
  <2>2. Held(NewWriter) = Append(e, e)
    BY <1>4
  <2> HIDE DEF e
  <2>3. All(e) \cap SeqSet(e) = {} /\ All(e) \cup SeqSet(e) = {}
    BY <2>1
  <2> QED BY <2>1, <2>2, <2>3, MoreRuns
<1>6. OfDay(d, All(Held(NewWriter)))
  BY <1>5 DEF OfDay
<1>7. NewWriter = [records |-> NewWriter.records, runs |-> NewWriter.runs]
  BY DEF NewWriter
<1>8. \A k \in DOMAIN NewWriter.runs : Ordered(NewWriter.runs[k])
  BY <1>2
<1> QED BY <1>1, <1>2, <1>5, <1>6, <1>7, <1>8 DEF IsWriter

\* writeOne adds its record.
LEMMA WriteKeeps ==
  ASSUME NEW r \in Records, NEW w, IsWriter(Day(Ts(r)), w), r \notin All(Held(w))
  PROVE  LET v == [w EXCEPT !.records = Append(@, r)] IN
         /\ IsWriter(Day(Ts(r)), v)
         /\ All(Held(v)) = All(Held(w)) \cup {r}
         /\ v.records = Append(w.records, r)
<1> DEFINE d == Day(Ts(r))
           s == w.records
           runs == w.runs
           more == Append(s, r)
           v == [w EXCEPT !.records = Append(@, r)]
<1>1. w = [records |-> s, runs |-> runs]
  BY DEF IsWriter
<1>2. v = [records |-> more, runs |-> runs]
  <2> HIDE DEF s, runs, more
  <2>1. v = [w EXCEPT !.records = more]
    BY DEF more, s
  <2> HIDE DEF v
  <2> QED BY <1>1, <2>1
<1>3. /\ s \in Seq(Records) /\ runs \in Runs /\ Apart(runs) /\ Once(s)
      /\ All(runs) \cap SeqSet(s) = {}
      /\ All(Held(w)) = All(runs) \cup SeqSet(s)
  BY WriterFacts
<1>4. \A k \in DOMAIN runs : Ordered(runs[k])
  BY DEF IsWriter
<1>5. OfDay(d, All(Held(w)))
  BY DEF IsWriter
<1> HIDE DEF s, runs, v
<1> DEFINE l == Len(s) + 1
<1>6. /\ more \in Seq(Records) /\ DOMAIN more = DOMAIN s \cup {l} /\ l \notin DOMAIN s
      /\ more[l] = r /\ \A i \in DOMAIN s : more[i] = s[i]
  BY <1>3
<1> HIDE DEF l
<1>7. SeqSet(more) = SeqSet(s) \cup {r}
  <2> HIDE DEF more
  <2> QED BY <1>6 DEF SeqSet
<1>8. r \notin SeqSet(s) /\ r \notin All(runs)
  BY <1>3
<1>9. Once(more)
  <2>1. \A i \in DOMAIN s : s[i] # r
    BY <1>8 DEF SeqSet
  <2> HIDE DEF more
  <2> QED BY <1>3, <1>6, <2>1 DEF Once
<1>10. v.records = more /\ v.runs = runs /\ Held(v) = Append(runs, more)
  BY <1>2 DEF Held
<1> HIDE DEF more
<1>11. All(Held(v)) = All(runs) \cup SeqSet(more) /\ Apart(Held(v))
  <2>1. All(runs) \cap SeqSet(more) = {}
    BY <1>3, <1>7, <1>8
  <2> QED BY <1>3, <1>6, <1>9, <1>10, <2>1, MoreRuns
<1>12. All(Held(v)) = All(Held(w)) \cup {r}
  BY <1>3, <1>7, <1>11
<1>13. OfDay(d, All(Held(v)))
  BY <1>5, <1>12 DEF OfDay
<1>14. v = [records |-> v.records, runs |-> v.runs]
  BY <1>2, <1>10
<1>15. IsWriter(d, v)
  BY <1>3, <1>4, <1>6, <1>10, <1>11, <1>13, <1>14 DEF IsWriter, Runs
<1> QED BY <1>10, <1>12, <1>15 DEF v, d, more, s

\* A spill moves the buffer into a sorted run.
LEMMA SpillKeeps ==
  ASSUME NEW d, NEW w, IsWriter(d, w)
  PROVE  /\ IsWriter(d, Spilled(w))
         /\ All(Held(Spilled(w))) = All(Held(w))
         /\ Spilled(w).records = <<>>
<1> DEFINE s == w.records
           runs == w.runs
           v == Spilled(w)
           t == SortStable(s)
<1>1. /\ s \in Seq(Records) /\ runs \in Runs /\ Apart(runs) /\ Once(s)
      /\ All(runs) \cap SeqSet(s) = {}
      /\ All(Held(w)) = All(runs) \cup SeqSet(s)
  BY WriterFacts
<1>2. CASE Len(s) = 0
  <2>1. v = w
    BY <1>2 DEF Spilled
  <2>2. s = <<>>
    BY <1>1, <1>2, RunFacts
  <2> HIDE DEF v
  <2> QED BY <2>1, <2>2 DEF v
<1>3. CASE Len(s) # 0
  <2>1. v = [records |-> <<>>, runs |-> Append(runs, t)]
    BY <1>3 DEF Spilled
  <2>2. /\ t \in Seq(Records) /\ Ordered(t) /\ SeqSet(t) = SeqSet(s) /\ Once(t)
    BY <1>1, SortKeeps
  <2>3. \A k \in DOMAIN runs : Ordered(runs[k])
    BY DEF IsWriter
  <2>4. OfDay(d, All(Held(w)))
    BY DEF IsWriter
  <2> HIDE DEF s, runs, v, t
  <2> DEFINE more == Append(runs, t)
  <2>5. more \in Runs /\ All(more) = All(runs) \cup SeqSet(t) /\ Apart(more)
    <3>1. All(runs) \cap SeqSet(t) = {}
      BY <1>1, <2>2
    <3> QED BY <1>1, <2>2, <3>1, MoreRuns
  <2>6. \A k \in DOMAIN more : Ordered(more[k])
    <3>1. runs \in Seq(Seq(Records))
      BY <1>1 DEF Runs
    <3>2. \A k \in DOMAIN more : more[k] = t \/ (k \in DOMAIN runs /\ more[k] = runs[k])
      BY <2>2, <3>1
    <3> HIDE DEF more
    <3> QED BY <2>2, <2>3, <3>2
  <2> HIDE DEF more
  <2>7. v.records = <<>> /\ v.runs = more /\ Held(v) = Append(more, <<>>)
    BY <2>1 DEF Held, more
  <2>8. All(Held(v)) = All(more) /\ Apart(Held(v))
    <3> DEFINE e == <<>>
    <3>1. e \in Seq(Records) /\ SeqSet(e) = {} /\ Once(e)
      BY DEF SeqSet, Once
    <3>2. Held(v) = Append(more, e)
      BY <2>7
    <3> HIDE DEF e
    <3>3. All(more) \cap SeqSet(e) = {} /\ All(more) \cup SeqSet(e) = All(more)
      BY <3>1
    <3> QED BY <2>5, <3>1, <3>2, <3>3, MoreRuns
  <2>9. All(Held(v)) = All(Held(w))
    BY <1>1, <2>2, <2>5, <2>8
  <2>10. v = [records |-> v.records, runs |-> v.runs] /\ v.records \in Seq(Records)
    BY <2>1, <2>7 DEF more
  <2>11. IsWriter(d, v)
    BY <2>4, <2>5, <2>6, <2>7, <2>8, <2>9, <2>10 DEF IsWriter, Runs
  <2> QED BY <2>7, <2>9, <2>11 DEF v
<1> QED BY <1>2, <1>3

\* A flush reads all that its writer has, in order.
LEMMA SortedKeeps ==
  ASSUME NEW d, NEW w, IsWriter(d, w)
  PROVE  /\ SeqSet(Sorted(w)) = All(Held(w))
         /\ TotalRecordBytes(w) > 0 => IsContent(d, Sorted(w))
<1> DEFINE s == w.records
           runs == w.runs
           t == Sorted(w)
<1>1. /\ s \in Seq(Records) /\ runs \in Runs /\ Once(s)
      /\ All(Held(w)) = All(runs) \cup SeqSet(s)
      /\ TotalRecordBytes(w) \in Nat
      /\ TotalRecordBytes(w) = 0 <=> All(Held(w)) = {}
  BY WriterFacts
<1>2. OfDay(d, All(Held(w)))
  BY DEF IsWriter
<1>3. t \in Seq(Records) /\ Ordered(t) /\ Once(t) /\ SeqSet(t) = All(Held(w))
  <2>1. CASE runs = <<>>
    <3>1. t = SortStable(s)
      BY <2>1 DEF Sorted
    <3> HIDE DEF s, runs, t
    <3>2. All(Held(w)) = SeqSet(s)
      BY <1>1, <2>1, NoRuns
    <3> QED BY <1>1, <3>1, <3>2, SortKeeps
  <2>2. CASE runs # <<>>
    <3> DEFINE v == Spilled(w)
               more == v.runs
    <3>1. t = MergeRuns(more)
      BY <2>2 DEF Sorted
    <3>2. IsWriter(d, v) /\ All(Held(v)) = All(Held(w)) /\ v.records = <<>>
      BY SpillKeeps
    <3> HIDE DEF v
    <3>3. more \in Runs /\ All(Held(v)) = All(more) \cup SeqSet(v.records) /\ Apart(more)
      BY <3>2, WriterFacts
    <3>4. \A k \in DOMAIN more : Ordered(more[k])
      BY <3>2 DEF IsWriter
    <3>5. All(more) = All(Held(w))
      BY <3>2, <3>3 DEF SeqSet
    <3> HIDE DEF more, t
    <3> QED BY <3>1, <3>3, <3>4, <3>5, MergeKeeps
  <2> QED BY <2>1, <2>2
<1> HIDE DEF t, s, runs
<1>4. ASSUME TotalRecordBytes(w) > 0
      PROVE  IsContent(d, t)
  <2>1. All(Held(w)) # {}
    BY <1>1, <1>4
  <2>2. t # <<>>
    BY <1>3, <2>1 DEF SeqSet
  <2> QED BY <1>2, <1>3, <2>2 DEF IsContent
<1> QED BY <1>3, <1>4 DEF t

-----------------------------------------------------------------------------
(***************************************************************************)
(* Files.                                                                  *)
(***************************************************************************)
\* The direction of an archive is fixed, and with it what is in order.
LEMMA SameDirection ==
  ASSUME UNCHANGED forward
  PROVE  /\ \A d, w : IsWriter(d, w)' <=> IsWriter(d, w)
         /\ \A d, s : IsContent(d, s)' <=> IsContent(d, s)
         /\ \A n, s : NamedTruly(n, s)' <=> NamedTruly(n, s)
<1>1. \A a, b : Before(a, b)' <=> Before(a, b)
  BY DEF Before
<1>2. \A s : Ordered(s)' <=> Ordered(s)
  BY <1>1 DEF Ordered
<1>3. \A d, w : IsWriter(d, w)' <=> IsWriter(d, w)
  BY <1>2 DEF IsWriter
<1>4. \A d, s : IsContent(d, s)' <=> IsContent(d, s)
  BY <1>2 DEF IsContent
<1>5. \A n, s : NamedTruly(n, s)' <=> NamedTruly(n, s)
  BY DEF NamedTruly
<1> QED BY <1>3, <1>4, <1>5

\* What a name tells is so: a first timestamp that is not the first record's
\* is only there when that is 0 and the archive goes forward.
LEMMA NameIsTrue ==
  ASSUME NEW d, NEW s, IsContent(d, s), forward \in BOOLEAN
  PROVE  NameOf(d, s).day = d /\ NamedTruly(NameOf(d, s), s)
<1> DEFINE n == NameOf(d, s)
           set == {k \in DOMAIN s : Ts(s[k]) # 0}
           IsLeast(k) == \A j \in set : k <= j
<1>1. n = [day |-> d, first |-> FirstTs(s), last |-> Ts(s[Len(s)]), count |-> Len(s)]
  BY DEF NameOf
<1>2. s \in Seq(Records) /\ s # <<>> /\ Ordered(s)
  BY DEF IsContent
<1>3. /\ Len(s) \in Nat /\ Len(s) # 0 /\ DOMAIN s = 1..Len(s)
      /\ \A k \in DOMAIN s : s[k] \in Records
  BY <1>2, RunFacts
<1>4. 1 \in DOMAIN s /\ \A k \in DOMAIN s : k \in Nat /\ 1 <= k
  BY <1>3
<1>5. \A k \in DOMAIN s : Ts(s[k]) \in Nat
  BY <1>3, BeforeOrders
<1>6. FirstTs(s) = IF set = {} THEN 0 ELSE Ts(s[CHOOSE k \in set : IsLeast(k)])
  BY DEF FirstTs
<1>7. FirstTs(s) = Ts(s[1]) \/ (forward /\ Ts(s[1]) = 0)
  <2>1. CASE Ts(s[1]) # 0
    <3>1. 1 \in set /\ IsLeast(1) /\ \A k \in set : k \in Nat
      BY <1>4, <2>1
    <3> DEFINE k == CHOOSE k \in set : IsLeast(k)
    <3>2. k \in set /\ IsLeast(k)
      <4> HIDE DEF set, IsLeast
      <4> QED BY <3>1, Zenon
    <3>3. set # {} /\ FirstTs(s) = Ts(s[k])
      BY <1>6, <3>1
    <3> HIDE DEF k
    <3>4. k <= 1 /\ 1 <= k /\ k \in Nat
      BY <1>4, <3>1, <3>2
    <3>5. k = 1
      BY <3>4
    <3> QED BY <3>3, <3>5
  <2>2. CASE Ts(s[1]) = 0 /\ ~forward
    <3>1. \A k \in DOMAIN s : Ts(s[k]) = 0
      <4> SUFFICES ASSUME NEW k \in DOMAIN s, k # 1
                   PROVE  Ts(s[k]) = 0
        BY <2>2
      <4>1. 1 < k
        BY <1>4
      <4>2. ~Before(s[k], s[1])
        BY <1>2, <1>4, <4>1 DEF Ordered
      <4>3. ~(Ts(s[1]) < Ts(s[k]))
        BY <2>2, <4>2 DEF Before
      <4> QED BY <1>5, <2>2, <4>3
    <3>2. set = {}
      BY <3>1
    <3> QED BY <1>6, <2>2, <3>2
  <2> QED BY <2>1, <2>2
<1>8. n.day = d /\ n.first = FirstTs(s) /\ n.last = Ts(s[Len(s)]) /\ n.count = Len(s)
  BY <1>1
<1> HIDE DEF n
<1> QED BY <1>1, <1>7, <1>8 DEF NamedTruly, n

-----------------------------------------------------------------------------
(***************************************************************************)
(* What a step that changes one writer or one file keeps.                  *)
(***************************************************************************)
\* When one writer's buffer changes, the memory changes by its length.
LengthOf(f, d) == IF d \in DOMAIN f THEN Len(f[d].records) ELSE 0
\* What is buffered in all changes as one writer's buffer does (importWriter.memBuffered).
LEMMA OneBuffer ==
  ASSUME NEW f, NEW g, NEW d, IsFiniteSet(BufferOf(f)),
         d \in DOMAIN f => f[d].records \in Seq(Records),
         d \in DOMAIN g => g[d].records \in Seq(Records),
         \A e : e # d => (e \in DOMAIN f <=> e \in DOMAIN g),
         \A e \in DOMAIN f : e # d => DOMAIN f[e].records = DOMAIN g[e].records
  PROVE  /\ IsFiniteSet(BufferOf(g))
         /\ Cardinality(BufferOf(f)) \in Nat /\ Cardinality(BufferOf(g)) \in Nat
         /\ LengthOf(f, d) \in Nat /\ LengthOf(g, d) \in Nat
         /\ LengthOf(f, d) <= Cardinality(BufferOf(f))
         /\ Cardinality(BufferOf(g)) = Cardinality(BufferOf(f)) - LengthOf(f, d) + LengthOf(g, d)
<1> DEFINE F == BufferOf(f)
           G == BufferOf(g)
           Own(n) == {d} \X (1..n)
           m == LengthOf(f, d)
           n == LengthOf(g, d)
           Rest == F \ Own(m)
<1>1. m \in Nat /\ n \in Nat
  <2>1. d \in DOMAIN f => Len(f[d].records) \in Nat
    BY RunFacts
  <2>2. d \in DOMAIN g => Len(g[d].records) \in Nat
    BY RunFacts
  <2> QED BY <2>1, <2>2 DEF LengthOf
<1>2. Own(m) \subseteq F
  <2>1. CASE d \in DOMAIN f
    <3>1. DOMAIN f[d].records = 1..m
      BY <2>1, RunFacts DEF LengthOf
    <3>2. \A k \in 1..m : <<d, k>> \in F
      <4> DEFINE Of(e) == {<<e, k>> : k \in DOMAIN f[e].records}
                 Each == {Of(e) : e \in DOMAIN f}
      <4> HIDE DEF m
      <4>1. F = UNION Each
        BY DEF BufferOf
      <4> HIDE DEF F
      <4>2. Of(d) \in Each
        <5> HIDE DEF Of
        <5> QED BY <2>1
      <4> HIDE DEF Each
      <4>3. Of(d) \subseteq F
        <5> HIDE DEF Of
        <5> QED BY <4>1, <4>2
      <4> QED BY <3>1, <4>3
    <3> HIDE DEF F, m
    <3> QED BY <3>2
  <2>2. CASE d \notin DOMAIN f
    BY <2>2 DEF LengthOf
  <2> QED BY <2>1, <2>2
<1>3. G = Rest \cup Own(n) /\ Rest \cap Own(n) = {}
  <2>1. \A x \in F : x[1] = d => x \in Own(m)
    <3> SUFFICES ASSUME NEW x \in F, x[1] = d
                 PROVE  x \in Own(m)
      OBVIOUS
    <3>1. PICK e \in DOMAIN f : x \in {<<e, k>> : k \in DOMAIN f[e].records}
      BY DEF BufferOf
    <3>2. PICK k \in DOMAIN f[e].records : x = <<e, k>>
      BY <3>1
    <3>3. e = d
      BY <3>2
    <3>4. DOMAIN f[d].records = 1..m
      BY <3>3, RunFacts DEF LengthOf
    <3> HIDE DEF m
    <3> QED BY <3>2, <3>3, <3>4
  <2>2. \A x \in G : x[1] = d => x \in Own(n)
    <3> SUFFICES ASSUME NEW x \in G, x[1] = d
                 PROVE  x \in Own(n)
      OBVIOUS
    <3>1. PICK e \in DOMAIN g : x \in {<<e, k>> : k \in DOMAIN g[e].records}
      BY DEF BufferOf
    <3>2. PICK k \in DOMAIN g[e].records : x = <<e, k>>
      BY <3>1
    <3>3. e = d
      BY <3>2
    <3>4. DOMAIN g[d].records = 1..n
      BY <3>3, RunFacts DEF LengthOf
    <3> HIDE DEF n
    <3> QED BY <3>2, <3>3, <3>4
  <2>3. Own(n) \subseteq G
    <3>1. CASE d \in DOMAIN g
      <4>1. DOMAIN g[d].records = 1..n
        BY <3>1, RunFacts DEF LengthOf
      <4>2. \A k \in 1..n : <<d, k>> \in G
        <5> HIDE DEF n
        <5>1. {<<d, k>> : k \in DOMAIN g[d].records} \subseteq G
          BY <3>1, Zenon DEF BufferOf
        <5> HIDE DEF G
        <5> QED BY <4>1, <5>1
      <4> HIDE DEF G, n
      <4> QED BY <4>2
    <3>2. CASE d \notin DOMAIN g
      BY <3>2 DEF LengthOf
    <3> QED BY <3>1, <3>2
  <2>4. \A x : x[1] # d => (x \in F <=> x \in G)
    BY DEF BufferOf
  <2>5. \A x \in Own(m) : x[1] = d
    BY DEF Own
  <2>6. \A x \in Own(n) : x[1] = d
    BY DEF Own
  <2> HIDE DEF F, G, Own, m, n
  <2>7. \A x \in Rest : x \in F /\ x[1] # d
    BY <2>1
  <2>8. G \subseteq Rest \cup Own(n)
    BY <2>2, <2>4, <2>5
  <2> QED BY <2>3, <2>4, <2>6, <2>7, <2>8
<1>4. /\ IsFiniteSet(Own(m)) /\ Cardinality(Own(m)) = m
      /\ IsFiniteSet(Own(n)) /\ Cardinality(Own(n)) = n
  <2>1. ASSUME NEW k \in Nat
        PROVE  IsFiniteSet({d} \X (1..k)) /\ Cardinality({d} \X (1..k)) = k
    <3>1. IsFiniteSet({d}) /\ Cardinality({d}) = 1
      BY FS_Singleton
    <3>2. IsFiniteSet(1..k) /\ Cardinality(1..k) = k
      BY FS_Interval
    <3> DEFINE D == {d}
               N == 1..k
    <3>3. IsFiniteSet(D) /\ Cardinality(D) = 1 /\ IsFiniteSet(N) /\ Cardinality(N) = k
      BY <3>1, <3>2
    <3> HIDE DEF D, N
    <3>4. IsFiniteSet(D \X N) /\ Cardinality(D \X N) = Cardinality(D) * Cardinality(N)
      BY <3>3, FS_Product
    <3>5. Cardinality(D \X N) = k
      BY <3>3, <3>4
    <3> QED BY <3>4, <3>5 DEF D, N
  <2> HIDE DEF m, n
  <2> QED BY <1>1, <2>1
<1> HIDE DEF F, G, Own, m, n
<1>5. IsFiniteSet(Rest) /\ Cardinality(Rest) = Cardinality(F) - m
  <2>1. F \cap Own(m) = Own(m)
    BY <1>2
  <2>2. IsFiniteSet(F)
    BY DEF F
  <2> DEFINE O == Own(m)
  <2>3. F \cap O = O /\ Cardinality(O) = m
    BY <1>4, <2>1
  <2> HIDE DEF O
  <2>4. IsFiniteSet(F \ O) /\ Cardinality(F \ O) = Cardinality(F) - Cardinality(F \cap O)
    BY <2>2, FS_Difference, Zenon
  <2> QED BY <2>3, <2>4 DEF O
<1> HIDE DEF Rest
<1>6. /\ IsFiniteSet(G)
      /\ Cardinality(G) = Cardinality(Rest) + Cardinality(Own(n)) - Cardinality({})
  BY <1>3, <1>4, <1>5, FS_Union
<1>7. Cardinality(F) \in Nat /\ Cardinality(Rest) \in Nat /\ Cardinality(G) \in Nat
  BY <1>5, <1>6, FS_CardinalityType DEF F
<1>8. Cardinality({}) = 0
  BY FS_EmptySet
<1>9. Cardinality(G) = Cardinality(F) - m + n /\ m <= Cardinality(F)
  BY <1>1, <1>4, <1>5, <1>6, <1>7, <1>8
<1> QED BY <1>1, <1>6, <1>7, <1>9 DEF F, G, m, n

\* What holds of the writers when one of them, and no file of another day, changes.
LEMMA WritersKept ==
  ASSUME WriterInv, UNCHANGED forward, todo' \subseteq todo, NEW d,
         \A e \in DOMAIN writers' : e = d \/ (e \in DOMAIN writers /\ writers'[e] = writers[e]),
         d \in DOMAIN writers' => IsWriter(d, writers'[d]) /\ All(Held(writers'[d])) \cap todo' = {},
         \A c \in DOMAIN data' :
           \/ Flushing' /\ c = task'.chunk
           \/ /\ d \in DOMAIN writers' => All(Held(writers'[d])) \cap InFile(c)' = {}
              /\ \/ c \in DOMAIN data /\ InFile(c)' = InFile(c) /\ ~(Flushing /\ c = task.chunk)
                 \/ OfDay(d, InFile(c)')
  PROVE  WriterInv'
<1> SUFFICES ASSUME NEW e \in DOMAIN writers'
             PROVE  /\ IsWriter(e, writers[e])'
                    /\ All(Held(writers'[e])) \cap todo' = {}
                    /\ \A c \in DOMAIN data' :
                         (Flushing' /\ c = task'.chunk) \/ All(Held(writers'[e])) \cap InFile(c)' = {}
  BY DEF WriterInv
<1>1. CASE e = d
  <2>1. IsWriter(d, writers[d])'
    BY <1>1, SameDirection
  <2> QED BY <1>1, <2>1
<1>2. CASE e # d
  <2>1. e \in DOMAIN writers /\ writers'[e] = writers[e]
    BY <1>2
  <2>2. /\ IsWriter(e, writers[e]) /\ All(Held(writers[e])) \cap todo = {}
        /\ \A c \in DOMAIN data : ~(Flushing /\ c = task.chunk) => All(Held(writers[e])) \cap InFile(c) = {}
    BY <2>1 DEF WriterInv
  <2>3. IsWriter(e, writers[e])'
    BY <2>1, <2>2, SameDirection
  <2>4. OfDay(e, All(Held(writers[e])))
    BY <2>2 DEF IsWriter
  <2>5. \A S : OfDay(d, S) => All(Held(writers[e])) \cap S = {}
    BY <1>2, <2>4 DEF OfDay
  <2> QED BY <2>1, <2>2, <2>3, <2>5
<1> QED BY <1>1, <1>2

\* A step that leaves the files alone.
LEMMA FilesKept ==
  ASSUME FileInv, UNCHANGED data, todo' \subseteq todo
  PROVE  FileInv' /\ \A c : InFile(c)' = InFile(c)
<1>1. \A c : InFile(c)' = InFile(c)
  BY DEF InFile
<1> QED BY <1>1 DEF FileInv

\* A step that leaves alone the files that readers see.
LEMMA SeeksKept ==
  ASSUME SeekInv, UNCHANGED <<forward, seekIndex>>, DOMAIN data \subseteq DOMAIN data',
         \A c \in DOMAIN seekIndex : data'[c].closed = data[c].closed /\ data'[c].records = data[c].records
  PROVE  SeekInv'
<1> SUFFICES ASSUME NEW c \in DOMAIN seekIndex
             PROVE  /\ data'[c].closed
                    /\ IsContent(seekIndex[c].day, data[c].records)'
                    /\ NamedTruly(seekIndex[c], data[c].records)'
  BY DEF SeekInv
<1>1. /\ data[c].closed /\ IsContent(seekIndex[c].day, data[c].records)
      /\ NamedTruly(seekIndex[c], data[c].records)
  BY DEF SeekInv
<1> QED BY <1>1, SameDirection

\* When one writer changes, so does what it holds.
HeldOf(f, d) == IF d \in DOMAIN f THEN All(Held(f[d])) ELSE {}
\* What is held in all changes as what one writer holds does.
LEMMA OneWriter ==
  ASSUME NEW f, NEW g, NEW d,
         \A e : e # d => (e \in DOMAIN f <=> e \in DOMAIN g),
         \A e \in DOMAIN f : e # d => f[e] = g[e]
  PROVE  /\ HeldOf(f, d) \subseteq KeptBy(f)
         /\ HeldOf(g, d) \subseteq KeptBy(g)
         /\ KeptBy(f) \cup HeldOf(g, d) = KeptBy(g) \cup HeldOf(f, d)
<1> DEFINE A(h, e) == All(Held(h[e]))
<1>0. /\ \A r : r \in KeptBy(f) <=> \E e \in DOMAIN f : r \in A(f, e)
      /\ \A r : r \in KeptBy(g) <=> \E e \in DOMAIN g : r \in A(g, e)
  BY Zenon DEF KeptBy
<1>1. /\ \A r : r \in HeldOf(f, d) <=> d \in DOMAIN f /\ r \in A(f, d)
      /\ \A r : r \in HeldOf(g, d) <=> d \in DOMAIN g /\ r \in A(g, d)
  BY DEF HeldOf
<1>2. \A e \in DOMAIN f : e # d => A(f, e) = A(g, e)
  OBVIOUS
<1> HIDE DEF A
<1>3. HeldOf(f, d) \subseteq KeptBy(f) /\ HeldOf(g, d) \subseteq KeptBy(g)
  BY <1>0, <1>1
<1>4. KeptBy(f) \subseteq KeptBy(g) \cup HeldOf(f, d)
  BY <1>0, <1>1, <1>2
<1>5. KeptBy(g) \subseteq KeptBy(f) \cup HeldOf(g, d)
  BY <1>0, <1>1, <1>2
<1> QED BY <1>3, <1>4, <1>5

\* A step that leaves the files and their names alone.
LEMMA FilesStill ==
  ASSUME FileInv, SeekInv, UNCHANGED <<forward, data, seekIndex>>, todo' \subseteq todo
  PROVE  FileInv' /\ SeekInv' /\ Shown' = Shown /\ \A c : InFile(c)' = InFile(c)
<1>1. FileInv' /\ \A c : InFile(c)' = InFile(c)
  BY FilesKept
<1>2. SeekInv'
  BY SeeksKept
<1>3. Shown' = Shown
  BY DEF Shown, Listed, InFile
<1> QED BY <1>1, <1>2, <1>3

-----------------------------------------------------------------------------
(***************************************************************************)
(* The steps of an import.                                                 *)
(***************************************************************************)
\* An archive begins empty.
LEMMA StartsSound ==
  ASSUME Init
  PROVE  ArchiveInv
<1> USE DEF Init
<1>1. DOMAIN writers = {} /\ DOMAIN data = {} /\ DOMAIN seekIndex = {} /\ task.stage = "none"
  BY DEF NoWriters, NoTask
<1>2. PhaseInv
  <2>1. 0 \in 0..MaxImports /\ 0 \in 0..MaxFailures
    BY ArchiveAssumption
  <2> QED BY <1>1, <2>1, Zenon DEF PhaseInv, Running
<1>3. Buffered = {} /\ Kept = {}
  BY <1>1 DEF Buffered, BufferOf, Kept, KeptBy
<1>4. MemoryInv
  <2>1. IsFiniteSet({}) /\ Cardinality({}) = 0
    BY FS_EmptySet
  <2> QED BY <1>3, <2>1 DEF MemoryInv
<1>5. WriterInv
  BY <1>1 DEF WriterInv
<1>6. FileInv
  <2>1. DOMAIN data = 1..0
    BY <1>1
  <2> QED BY <1>1, <2>1 DEF FileInv
<1>7. FlushInv
  BY DEF FlushInv
<1>8. SeekInv
  BY <1>1 DEF SeekInv
<1>9. LossInv
  <2>1. Shown = {} /\ Underway = {}
    BY <1>1 DEF Shown, Listed, Underway, Flushing
  <2> QED BY <1>3, <2>1 DEF LossInv
<1> QED BY <1>2, <1>4, <1>5, <1>6, <1>7, <1>8, <1>9 DEF ArchiveInv

\* What readers see is in the files that have a name.
LEMMA VisibleFacts ==
  /\ VisibleRecords = Shown
  /\ \A c \in VisibleChunks :
       /\ c.id \in Listed
       /\ c.day = seekIndex[c.id].day /\ c.first = seekIndex[c.id].first
       /\ c.last = seekIndex[c.id].last /\ c.count = seekIndex[c.id].count
       /\ c = [id |-> c.id, day |-> c.day, first |-> c.first, last |-> c.last, count |-> c.count]
<1> DEFINE chunk(i) == [id |-> i, day |-> seekIndex[i].day, first |-> seekIndex[i].first,
                        last |-> seekIndex[i].last, count |-> seekIndex[i].count]
<1>1. VisibleChunks = {chunk(i) : i \in Listed}
  BY DEF VisibleChunks, Listed
<1>2. \A i : /\ chunk(i).id = i /\ chunk(i).day = seekIndex[i].day /\ chunk(i).first = seekIndex[i].first
             /\ chunk(i).last = seekIndex[i].last /\ chunk(i).count = seekIndex[i].count
  OBVIOUS
<1>3. \A i : chunk(i) = [id |-> chunk(i).id, day |-> chunk(i).day, first |-> chunk(i).first,
                        last |-> chunk(i).last, count |-> chunk(i).count]
  OBVIOUS
<1> HIDE DEF chunk
<1>4. \A c \in VisibleChunks :
        /\ c.id \in Listed
        /\ c.day = seekIndex[c.id].day /\ c.first = seekIndex[c.id].first
        /\ c.last = seekIndex[c.id].last /\ c.count = seekIndex[c.id].count
        /\ c = [id |-> c.id, day |-> c.day, first |-> c.first, last |-> c.last, count |-> c.count]
  BY <1>1, <1>2, <1>3
<1>5. VisibleRecords = Shown
  <2>1. \A i : SeqSet(data[chunk(i).id].records) = InFile(i)
    BY <1>2 DEF InFile
  <2>2. VisibleRecords = UNION {SeqSet(data[c.id].records) : c \in VisibleChunks}
    BY DEF VisibleRecords
  <2>3. Shown \subseteq VisibleRecords
    BY <1>1, <2>1, <2>2 DEF Shown
  <2>4. VisibleRecords \subseteq Shown
    BY <1>1, <2>1, <2>2 DEF Shown
  <2> QED BY <2>3, <2>4
<1> QED BY <1>4, <1>5

\* Files hold records.
LEMMA ShownRecords ==
  ASSUME FileInv
  PROVE  Shown \subseteq Records
<1>1. \A c \in DOMAIN data : InFile(c) \subseteq Records
  BY RunFacts DEF FileInv, InFile
<1> QED BY <1>1 DEF Shown, Listed

\* A new import begins from what is on disk.
LEMMA ImportKeeps ==
  ASSUME ArchiveInv, Import, UNCHANGED forward
  PROVE  ArchiveInv'
<1> USE DEF Import
<1>1. /\ PhaseInv /\ MemoryInv /\ FileInv /\ SeekInv
  BY DEF ArchiveInv
<1>2. task = NoTask /\ DOMAIN writers = {} /\ DOMAIN writers' = {} /\ ~Flushing'
  <2>1. ~Running
    BY DEF Running
  <2> QED BY <1>1, <2>1 DEF PhaseInv, Flushing, NoTask
<1>3. FileInv' /\ SeekInv' /\ Shown' = Shown
  BY <1>1, FilesStill
<1>4. base' = Shown /\ base' \subseteq Records
  BY <1>1, VisibleFacts, ShownRecords
<1>5. PhaseInv'
  <2>1. imports' \in 0..MaxImports /\ failures' \in 0..MaxFailures
    BY <1>1, ArchiveAssumption DEF PhaseInv
  <2>2. todo' \subseteq Records /\ given' \subseteq Records \ todo'
    BY <1>1 DEF PhaseInv
  <2>3. forward' \in BOOLEAN /\ failed' \in BOOLEAN /\ ~failed'
    BY <1>1, Zenon DEF PhaseInv
  <2>4. phase' \in {"copy", "close", "ok", "err", "crashed"} /\ Running'
    BY DEF Running
  <2> QED BY <1>4, <2>1, <2>2, <2>3, <2>4, Zenon DEF PhaseInv
<1>6. Buffered' = {} /\ Kept' = {}
  BY <1>2 DEF Buffered, BufferOf, Kept, KeptBy
<1>7. MemoryInv'
  <2>1. IsFiniteSet({}) /\ Cardinality({}) = 0
    BY FS_EmptySet
  <2>2. 0 <= ImportBufSize + 1
    BY ArchiveAssumption
  <2> QED BY <1>6, <2>1, <2>2 DEF MemoryInv
<1>8. WriterInv' /\ FlushInv'
  BY <1>2 DEF WriterInv, FlushInv
<1>9. LossInv'
  BY <1>2, <1>3, <1>4, <1>6 DEF LossInv, Underway
<1> QED BY <1>3, <1>5, <1>7, <1>8, <1>9 DEF ArchiveInv

\* An import that moves on without touching a record.
LEMMA QuietKeeps ==
  ASSUME ArchiveInv, PhaseInv', task = NoTask, failed => failed', phase' = "copy" => phase = "copy",
         UNCHANGED <<forward, todo, given, base, writers, memBuffered, task, data, seekIndex>>
  PROVE  ArchiveInv'
<1>1. MemoryInv /\ WriterInv /\ FileInv /\ SeekInv /\ LossInv
  BY DEF ArchiveInv
<1>2. FileInv' /\ SeekInv' /\ Shown' = Shown /\ \A c : InFile(c)' = InFile(c)
  BY <1>1, FilesStill
<1>3. Buffered' = Buffered /\ Kept' = Kept /\ Underway' = Underway /\ (Flushing' <=> Flushing)
  BY DEF Buffered, Kept, Underway, Flushing
<1>4. MemoryInv'
  BY <1>1, <1>3 DEF MemoryInv
<1>5. WriterInv'
  BY <1>1, <1>2, <1>3, SameDirection DEF WriterInv
<1>6. FlushInv'
  BY DEF FlushInv
<1>7. LossInv'
  BY <1>1, <1>2, <1>3 DEF LossInv
<1> QED BY <1>2, <1>4, <1>5, <1>6, <1>7 DEF ArchiveInv

\* The copy ends, or the close does, with an error or without.
LEMMA EndKeeps ==
  ASSUME ArchiveInv, SpillFails \/ EndOfInput \/ ReadFails \/ CloseDone, UNCHANGED forward
  PROVE  ArchiveInv'
<1>1. PhaseInv
  BY DEF ArchiveInv
<1>2. /\ task = NoTask /\ (failed => failed') /\ phase' # "copy"
      /\ UNCHANGED <<forward, todo, given, base, imports, writers, memBuffered, task, data, seekIndex>>
  BY DEF SpillFails, EndOfInput, ReadFails, CloseDone
<1>3. PhaseInv'
  <2>1. failures' \in 0..MaxFailures
    BY <1>1, ArchiveAssumption DEF PhaseInv, MayFail, SpillFails, EndOfInput, ReadFails, CloseDone
  <2>2. failed' \in BOOLEAN
    BY <1>1 DEF PhaseInv, SpillFails, EndOfInput, ReadFails, CloseDone
  <2>3. phase' \in {"copy", "close", "ok", "err", "crashed"} /\ (phase' \in {"copy", "ok"} => ~failed')
    BY <1>1 DEF PhaseInv, SpillFails, EndOfInput, ReadFails, CloseDone
  <2>4. ~Running' => DOMAIN writers' = {}
    BY <1>1 DEF PhaseInv, Running, SpillFails, EndOfInput, ReadFails, CloseDone
  <2> QED BY <1>1, <1>2, <2>1, <2>2, <2>3, <2>4, Zenon DEF PhaseInv
<1> QED BY <1>2, <1>3, QuietKeeps

\* importWriter.close turns to the next writer.
LEMMA CloseWriterKeeps ==
  ASSUME ArchiveInv, NEW d \in DOMAIN writers, CloseWriter(d), UNCHANGED forward
  PROVE  ArchiveInv'
<1> USE DEF CloseWriter
<1>1. PhaseInv /\ MemoryInv /\ WriterInv /\ FileInv /\ SeekInv /\ LossInv
  BY DEF ArchiveInv
<1>2. FileInv' /\ SeekInv' /\ Shown' = Shown /\ \A c : InFile(c)' = InFile(c)
  BY <1>1, FilesStill
<1>3. task' = [stage |-> "flush", day |-> d] /\ task'.day = d /\ ~Flushing' /\ ~Flushing
  BY DEF Flushing, NoTask
<1>4. Buffered' = Buffered /\ Kept' = Kept /\ Underway' = Underway
  BY <1>3 DEF Buffered, Kept, Underway
<1>5. PhaseInv'
  <2>1. Running'
    BY DEF Running
  <2> QED BY <1>1, <2>1, Zenon DEF PhaseInv
<1>6. MemoryInv'
  BY <1>1, <1>4 DEF MemoryInv
<1>7. WriterInv'
  BY <1>1, <1>2, <1>3, SameDirection DEF WriterInv
<1>8. FlushInv'
  BY <1>3 DEF FlushInv
<1>9. LossInv'
  BY <1>1, <1>2, <1>4 DEF LossInv
<1> QED BY <1>2, <1>5, <1>6, <1>7, <1>8, <1>9 DEF ArchiveInv

\* A crash leaves what is on disk.
LEMMA CrashKeeps ==
  ASSUME ArchiveInv, Crash, UNCHANGED forward
  PROVE  ArchiveInv'
<1> USE DEF Crash
<1>1. PhaseInv /\ MemoryInv /\ FileInv /\ SeekInv
  BY DEF ArchiveInv
<1>2. FileInv' /\ SeekInv'
  BY <1>1, FilesStill
<1>3. DOMAIN writers' = {} /\ task' = NoTask
  BY DEF NoWriters
<1>4. PhaseInv'
  <2>1. failures' \in 0..MaxFailures
    BY <1>1, ArchiveAssumption DEF PhaseInv, MayFail
  <2>2. failed' \in BOOLEAN /\ phase' = "crashed"
    OBVIOUS
  <2> QED BY <1>1, <1>3, <2>1, <2>2, Zenon DEF PhaseInv
<1>5. MemoryInv'
  <2>1. Buffered' = {}
    BY <1>3 DEF Buffered, BufferOf
  <2>2. IsFiniteSet({}) /\ Cardinality({}) = 0
    BY FS_EmptySet
  <2>3. memBuffered \in Nat /\ memBuffered <= Cardinality(given)
    BY <1>1 DEF MemoryInv
  <2>4. IsFiniteSet(given)
    BY <1>1, ArchiveAssumption, FS_Subset DEF PhaseInv
  <2>5. Cardinality(given) \in Nat
    BY <2>4, FS_CardinalityType
  <2> QED BY <2>1, <2>2, <2>3, <2>5 DEF MemoryInv
<1>6. WriterInv' /\ FlushInv'
  BY <1>3 DEF WriterInv, FlushInv
<1>7. LossInv'
  BY DEF LossInv
<1> QED BY <1>2, <1>4, <1>5, <1>6, <1>7 DEF ArchiveInv

\* A record goes from the input to the writer of its day.
LEMMA WriteStepKeeps ==
  ASSUME ArchiveInv, NEW r \in Records, Write(r), UNCHANGED forward
  PROVE  ArchiveInv'
<1> DEFINE d == Day(Ts(r))
           w == WriterOf(d)
           v == [w EXCEPT !.records = Append(@, r)]
<1>1. PhaseInv /\ MemoryInv /\ WriterInv /\ FileInv /\ SeekInv /\ LossInv
  BY DEF ArchiveInv
<1>2. /\ phase = "copy" /\ task = NoTask /\ memBuffered <= ImportBufSize
      /\ r \in todo /\ todo' = todo \ {r} /\ given' = given \cup {r}
      /\ writers' = With(writers, d, v)
      /\ memBuffered' = memBuffered + 1
      /\ task' = [stage |-> "flush", day |-> d] \/ task' = NoTask
      /\ UNCHANGED <<base, imports, failures, phase, failed, data, seekIndex>>
  BY DEF Write
<1>3. IsWriter(d, w) /\ All(Held(w)) \cap todo = {} /\ \A c \in DOMAIN data : All(Held(w)) \cap InFile(c) = {}
  <2>1. CASE d \in DOMAIN writers
    <3>1. ~Flushing
      BY <1>2 DEF Flushing, NoTask
    <3>2. w = writers[d]
      BY <2>1 DEF WriterOf
    <3> HIDE DEF w, d
    <3> QED BY <1>1, <2>1, <3>1, <3>2 DEF WriterInv
  <2>2. CASE d \notin DOMAIN writers
    <3>1. w = NewWriter
      BY <2>2 DEF WriterOf
    <3> QED BY <3>1, NewWriterKeeps
  <2> QED BY <2>1, <2>2
<1> HIDE DEF w
<1>4. r \notin All(Held(w))
  BY <1>2, <1>3
<1>5. /\ IsWriter(d, v)
      /\ All(Held(v)) = All(Held(w)) \cup {r}
      /\ v.records = Append(w.records, r)
  BY <1>3, <1>4, WriteKeeps
<1> HIDE DEF v, d
<1>6. /\ DOMAIN writers' = DOMAIN writers \cup {d} /\ writers'[d] = v
      /\ \A e \in DOMAIN writers : e # d => writers'[e] = writers[e]
  BY <1>2 DEF With
<1>7. ~Flushing /\ ~Flushing'
  BY <1>2 DEF Flushing, NoTask
<1>8. FileInv' /\ SeekInv' /\ Shown' = Shown /\ \A c : InFile(c)' = InFile(c)
  <2>1. todo' \subseteq todo
    BY <1>2
  <2> QED BY <1>1, <1>2, <2>1, FilesStill
<1>9. PhaseInv'
  <2>1. todo' \subseteq Records /\ given' \subseteq Records \ todo'
    BY <1>1, <1>2 DEF PhaseInv
  <2>2. Running'
    BY <1>2 DEF Running
  <2> QED BY <1>1, <1>2, <2>1, <2>2, Zenon DEF PhaseInv
<1>10. MemoryInv'
  <2>1. LengthOf(writers, d) = Len(w.records) /\ LengthOf(writers', d) = Len(v.records)
    <3>1. d \in DOMAIN writers => w = writers[d]
      BY DEF w, WriterOf
    <3>2. d \notin DOMAIN writers => w.records = <<>>
      BY DEF w, WriterOf, NewWriter
    <3> QED BY <1>6, <3>1, <3>2 DEF LengthOf
  <2>2. w.records \in Seq(Records) /\ v.records \in Seq(Records)
    BY <1>3, <1>5 DEF IsWriter
  <2>3. Len(v.records) = Len(w.records) + 1 /\ Len(w.records) \in Nat
    BY <1>5, <2>2
  <2>4. d \in DOMAIN writers => writers[d].records \in Seq(Records)
    BY <1>1 DEF WriterInv, IsWriter
  <2> DEFINE f == writers
             g == writers'
  <2>5. /\ IsFiniteSet(BufferOf(f))
        /\ d \in DOMAIN f => f[d].records \in Seq(Records)
        /\ d \in DOMAIN g => g[d].records \in Seq(Records)
        /\ \A e : e # d => (e \in DOMAIN f <=> e \in DOMAIN g)
        /\ \A e \in DOMAIN f : e # d => DOMAIN f[e].records = DOMAIN g[e].records
    BY <1>1, <1>6, <2>2, <2>4 DEF MemoryInv, Buffered
  <2>6. /\ IsFiniteSet(BufferOf(g)) /\ Cardinality(BufferOf(f)) \in Nat
        /\ Cardinality(BufferOf(g)) = Cardinality(BufferOf(f)) - LengthOf(f, d) + LengthOf(g, d)
    <3> HIDE DEF f, g
    <3> QED BY <2>5, OneBuffer
  <2>7. IsFiniteSet(Buffered') /\ Cardinality(Buffered') = Cardinality(Buffered) + 1 /\ Cardinality(Buffered) \in Nat
    BY <2>1, <2>3, <2>6 DEF Buffered
  <2>8. r \notin given /\ IsFiniteSet(given)
    BY <1>1, <1>2, ArchiveAssumption, FS_Subset DEF PhaseInv
  <2>9. Cardinality(given') = Cardinality(given) + 1 /\ Cardinality(given) \in Nat
    BY <1>2, <2>8, FS_AddElement, FS_CardinalityType
  <2>10. memBuffered \in Nat /\ memBuffered <= Cardinality(given) /\ memBuffered = Cardinality(Buffered)
    BY <1>1, <1>2 DEF MemoryInv
  <2>11. ImportBufSize \in Nat
    BY ArchiveAssumption
  <2>12. /\ memBuffered' \in Nat /\ memBuffered' <= Cardinality(given')
         /\ memBuffered' = Cardinality(Buffered') /\ memBuffered' <= ImportBufSize + 1
         /\ Cardinality(Buffered') <= memBuffered'
    BY <1>2, <2>7, <2>9, <2>10, <2>11
  <2> QED BY <2>7, <2>12 DEF MemoryInv
<1>11. WriterInv'
  <2>1. \A e \in DOMAIN writers' : e = d \/ (e \in DOMAIN writers /\ writers'[e] = writers[e])
    BY <1>6
  <2>2. IsWriter(d, writers'[d]) /\ All(Held(writers'[d])) \cap todo' = {}
    BY <1>2, <1>3, <1>5, <1>6
  <2>3. \A c \in DOMAIN data : r \notin InFile(c)
    BY <1>1, <1>2 DEF FileInv
  <2>4. ASSUME NEW c \in DOMAIN data'
        PROVE  /\ All(Held(writers'[d])) \cap InFile(c)' = {}
               /\ c \in DOMAIN data /\ InFile(c)' = InFile(c) /\ ~(Flushing /\ c = task.chunk)
    BY <1>2, <1>3, <1>5, <1>6, <1>7, <1>8, <2>3
  <2>5. todo' \subseteq todo
    BY <1>2
  <2> QED BY <1>1, <2>1, <2>2, <2>4, <2>5, WritersKept
<1>12. FlushInv'
  <2>1. CASE task' = NoTask
    BY <2>1 DEF FlushInv
  <2>2. CASE task' = [stage |-> "flush", day |-> d]
    <3>1. task'.day = d
      BY <2>2
    <3> QED BY <1>6, <2>2, <3>1 DEF FlushInv
  <2> QED BY <1>2, <2>1, <2>2
<1>13. LossInv'
  <2>1. HeldOf(writers, d) = All(Held(w)) /\ HeldOf(writers', d) = All(Held(w)) \cup {r}
    <3>1. d \in DOMAIN writers => w = writers[d]
      BY DEF w, WriterOf
    <3>2. d \notin DOMAIN writers => All(Held(w)) = {}
      BY NewWriterKeeps DEF w, WriterOf
    <3> QED BY <1>5, <1>6, <3>1, <3>2 DEF HeldOf
  <2> DEFINE f == writers
             g == writers'
  <2>2. /\ \A e : e # d => (e \in DOMAIN f <=> e \in DOMAIN g)
        /\ \A e \in DOMAIN f : e # d => f[e] = g[e]
    BY <1>6
  <2>3. /\ HeldOf(f, d) \subseteq KeptBy(f)
        /\ HeldOf(g, d) \subseteq KeptBy(g)
        /\ KeptBy(f) \cup HeldOf(g, d) = KeptBy(g) \cup HeldOf(f, d)
    <3> HIDE DEF f, g
    <3> QED BY <2>2, OneWriter
  <2>4. Kept' = Kept \cup {r}
    BY <2>1, <2>3 DEF Kept
  <2>5. Underway = {} /\ Underway' = {}
    BY <1>7 DEF Underway
  <2> QED BY <1>1, <1>2, <1>8, <2>4, <2>5 DEF LossInv
<1> QED BY <1>8, <1>9, <1>10, <1>11, <1>12, <1>13 DEF ArchiveInv

\* spillLargestBuffer makes room.
LEMMA SpillLargestKeeps ==
  ASSUME ArchiveInv, NEW d \in DOMAIN writers, SpillLargest(d), UNCHANGED forward
  PROVE  ArchiveInv'
<1> DEFINE w == writers[d]
           v == Spilled(w)
<1>1. PhaseInv /\ MemoryInv /\ WriterInv /\ FileInv /\ SeekInv /\ LossInv
  BY DEF ArchiveInv
<1>2. /\ phase = "copy" /\ task = NoTask
      /\ writers' = [writers EXCEPT ![d] = v]
      /\ memBuffered' = memBuffered - Len(w.records)
      /\ UNCHANGED <<todo, given, base, imports, failures, phase, failed, task, data, seekIndex>>
  BY DEF SpillLargest, BufSize
<1>3. ~Flushing /\ ~Flushing'
  BY <1>2 DEF Flushing, NoTask
<1>4. IsWriter(d, w) /\ All(Held(w)) \cap todo = {} /\ \A c \in DOMAIN data : All(Held(w)) \cap InFile(c) = {}
  BY <1>1, <1>3 DEF WriterInv
<1>5. IsWriter(d, v) /\ All(Held(v)) = All(Held(w)) /\ v.records = <<>>
  BY <1>4, SpillKeeps
<1> HIDE DEF v
<1>6. /\ DOMAIN writers' = DOMAIN writers /\ writers'[d] = v
      /\ \A e \in DOMAIN writers : e # d => writers'[e] = writers[e]
  BY <1>2
<1>7. FileInv' /\ SeekInv' /\ Shown' = Shown /\ \A c : InFile(c)' = InFile(c)
  BY <1>1, <1>2, FilesStill
<1>8. PhaseInv'
  <2>1. Running'
    BY <1>2 DEF Running
  <2> QED BY <1>1, <1>2, <2>1, Zenon DEF PhaseInv
<1> DEFINE f == writers
           g == writers'
<1>9. MemoryInv'
  <2>1. w.records \in Seq(Records) /\ v.records \in Seq(Records)
    BY <1>4, <1>5
       DEF IsWriter
  <2>2. LengthOf(f, d) = Len(w.records) /\ LengthOf(g, d) = 0 /\ Len(w.records) \in Nat
    BY <1>5, <1>6, <2>1 DEF LengthOf
  <2>3. /\ IsFiniteSet(BufferOf(f))
        /\ d \in DOMAIN f => f[d].records \in Seq(Records)
        /\ d \in DOMAIN g => g[d].records \in Seq(Records)
        /\ \A e : e # d => (e \in DOMAIN f <=> e \in DOMAIN g)
        /\ \A e \in DOMAIN f : e # d => DOMAIN f[e].records = DOMAIN g[e].records
    BY <1>1, <1>6, <2>1 DEF MemoryInv, Buffered
  <2>4. /\ IsFiniteSet(BufferOf(g)) /\ Cardinality(BufferOf(f)) \in Nat
        /\ Cardinality(BufferOf(g)) \in Nat
        /\ Cardinality(BufferOf(g)) = Cardinality(BufferOf(f)) - LengthOf(f, d) + LengthOf(g, d)
    <3> HIDE DEF f, g
    <3> QED BY <2>3, OneBuffer
  <2>5. /\ IsFiniteSet(Buffered') /\ Cardinality(Buffered) \in Nat /\ Cardinality(Buffered') \in Nat
        /\ Cardinality(Buffered') = Cardinality(Buffered) - Len(w.records)
    BY <2>2, <2>4 DEF Buffered
  <2>6. /\ memBuffered \in Nat /\ memBuffered = Cardinality(Buffered)
        /\ memBuffered <= Cardinality(given) /\ memBuffered <= ImportBufSize + 1
    BY <1>1, <1>2 DEF MemoryInv
  <2>7. ImportBufSize \in Nat /\ Cardinality(given) \in Nat
    <3>1. IsFiniteSet(given)
      BY <1>1, ArchiveAssumption, FS_Subset DEF PhaseInv
    <3> QED BY <3>1, ArchiveAssumption, FS_CardinalityType
  <2>8. /\ memBuffered' \in Nat /\ memBuffered' = Cardinality(Buffered')
        /\ memBuffered' <= Cardinality(given) /\ memBuffered' <= ImportBufSize + 1
        /\ Cardinality(Buffered') <= memBuffered'
    BY <1>2, <2>2, <2>5, <2>6, <2>7
  <2> QED BY <1>2, <2>5, <2>8 DEF MemoryInv
<1>10. WriterInv'
  <2>1. \A e \in DOMAIN writers' : e = d \/ (e \in DOMAIN writers /\ writers'[e] = writers[e])
    BY <1>6
  <2>2. IsWriter(d, writers'[d]) /\ All(Held(writers'[d])) \cap todo' = {}
    BY <1>2, <1>4, <1>5, <1>6
  <2>3. ASSUME NEW c \in DOMAIN data'
        PROVE  /\ All(Held(writers'[d])) \cap InFile(c)' = {}
               /\ c \in DOMAIN data /\ InFile(c)' = InFile(c) /\ ~(Flushing /\ c = task.chunk)
    BY <1>2, <1>3, <1>4, <1>5, <1>6, <1>7
  <2>4. todo' \subseteq todo
    BY <1>2
  <2> QED BY <1>1, <2>1, <2>2, <2>3, <2>4, WritersKept
<1>11. FlushInv'
  BY <1>2 DEF FlushInv
<1>12. LossInv'
  <2>1. HeldOf(f, d) = HeldOf(g, d)
    BY <1>5, <1>6 DEF HeldOf
  <2>2. /\ \A e : e # d => (e \in DOMAIN f <=> e \in DOMAIN g)
        /\ \A e \in DOMAIN f : e # d => f[e] = g[e]
    BY <1>6
  <2>3. /\ HeldOf(f, d) \subseteq KeptBy(f)
        /\ HeldOf(g, d) \subseteq KeptBy(g)
        /\ KeptBy(f) \cup HeldOf(g, d) = KeptBy(g) \cup HeldOf(f, d)
    <3> HIDE DEF f, g
    <3> QED BY <2>2, OneWriter
  <2>4. Kept' = Kept
    BY <2>1, <2>3 DEF Kept
  <2>5. Underway = {} /\ Underway' = {}
    BY <1>3 DEF Underway
  <2> QED BY <1>1, <1>2, <1>7, <2>4, <2>5 DEF LossInv
<1> QED BY <1>7, <1>8, <1>9, <1>10, <1>11, <1>12 DEF ArchiveInv

-----------------------------------------------------------------------------
(***************************************************************************)
(* The steps of a flush.                                                   *)
(***************************************************************************)
\* A flush belongs to a writer; what it copies is of the writer's day.
LEMMA FlushFacts ==
  ASSUME ArchiveInv, task # NoTask
  PROVE  /\ Running /\ task.day \in DOMAIN writers
         /\ IsWriter(task.day, writers[task.day])
         /\ task.stage \in {"flush", "data", "index", "entries"}
         /\ task.stage = "flush" => ~Flushing
         /\ Flushing => /\ IsContent(task.day, task.records) /\ task.chunk \in DOMAIN data
                        /\ InFile(task.chunk) \subseteq SeqSet(task.records)
<1>1. FlushInv /\ PhaseInv /\ WriterInv
  BY DEF ArchiveInv
<1>2. Running
  BY <1>1 DEF PhaseInv
<1>3. CASE task = [stage |-> "flush", day |-> task.day] /\ task.day \in DOMAIN writers
  <2>1. task.stage = "flush"
    BY <1>3
  <2>2. ~Flushing
    BY <2>1 DEF Flushing
  <2> QED BY <1>1, <1>2, <1>3, <2>1, <2>2 DEF WriterInv
<1>4. CASE ~(task = [stage |-> "flush", day |-> task.day] /\ task.day \in DOMAIN writers)
  <2>1. /\ Flushing /\ task.day \in DOMAIN writers /\ task.chunk \in DOMAIN data
        /\ IsContent(task.day, task.records)
        /\ data[task.chunk].records \in {<<>>, task.records}
    BY <1>1, <1>4 DEF FlushInv
  <2>2. task.stage \in {"data", "index", "entries"} /\ task.stage # "flush"
    BY <2>1 DEF Flushing
  <2>3. InFile(task.chunk) \subseteq SeqSet(task.records)
    <3>1. SeqSet(<<>>) = {}
      BY DEF SeqSet
    <3> QED BY <2>1, <3>1 DEF InFile
  <2> QED BY <1>1, <1>2, <2>1, <2>2, <2>3 DEF WriterInv
<1> QED BY <1>3, <1>4

\* A flush is over: its writer is gone, or is w, which has nothing but what the
\* writer had, and the file it wrote has nothing but what it was copying.
LEMMA FlushOver ==
  ASSUME ArchiveInv, task # NoTask, task' = NoTask,
         UNCHANGED <<forward, todo, given, base, imports>>,
         NEW w, writers' = AfterFlush(w), IsWriter(task.day, w), All(Held(w)) \cap todo = {},
         \A c \in DOMAIN data' : All(Held(w)) \cap InFile(c)' = {},
         DOMAIN data' = DOMAIN data,
         \A c \in DOMAIN data :
           InFile(c)' = InFile(c) \/ (Flushing /\ c = task.chunk /\ InFile(c)' \subseteq SeqSet(task.records)),
         failures' \in 0..MaxFailures, failed' \in BOOLEAN, phase' \in {"copy", "close"},
         phase' = "copy" => phase = "copy" /\ ~failed',
         \/ memBuffered' = memBuffered - Len(writers[task.day].records) /\ w.records = <<>>
         \/ memBuffered' = memBuffered /\ w = writers[task.day] /\ phase' # "copy"
  PROVE  /\ PhaseInv' /\ MemoryInv' /\ WriterInv' /\ FlushInv'
         /\ Kept' \subseteq Kept \cup All(Held(w))
         /\ Kept \subseteq Kept' \cup All(Held(writers[task.day]))
<1>1. PhaseInv /\ MemoryInv /\ WriterInv /\ FlushInv
  BY DEF ArchiveInv
<1>2. PICK d : d = task.day
  OBVIOUS
<1>3. /\ d \in DOMAIN writers /\ IsWriter(d, writers[d])
      /\ Flushing => IsContent(d, task.records) /\ InFile(task.chunk) \subseteq SeqSet(task.records)
  BY <1>2, FlushFacts
<1>4. /\ \A e : e # d => (e \in DOMAIN writers <=> e \in DOMAIN writers')
      /\ \A e \in DOMAIN writers : e # d => writers'[e] = writers[e]
      /\ d \in DOMAIN writers' => writers'[d] = w
  BY <1>2, <1>3 DEF AfterFlush, Without
<1> DEFINE f == writers
           g == writers'
<1>5. PhaseInv'
  <2>1. Running'
    BY DEF Running
  <2>2. phase' \in {"copy", "close", "ok", "err", "crashed"} /\ phase' # "ok"
    OBVIOUS
  <2>3. phase' \in {"copy", "ok"} => ~failed'
    BY <2>2
  <2> QED BY <1>1, <2>1, <2>2, <2>3, Zenon DEF PhaseInv
<1>6. MemoryInv'
  <2>1. w.records \in Seq(Records) /\ writers[d].records \in Seq(Records)
    BY <1>2, <1>3 DEF IsWriter
  <2> DEFINE n == Len(writers[d].records)
  <2>2. n \in Nat /\ LengthOf(f, d) = n
    BY <1>3, <2>1 DEF LengthOf
  <2>3. w.records = <<>> => LengthOf(g, d) = 0
    BY <1>4 DEF LengthOf
  <2>4. w = writers[d] => LengthOf(g, d) \in {0, n}
    BY <1>4 DEF LengthOf
  <2>5. /\ IsFiniteSet(BufferOf(f))
        /\ d \in DOMAIN f => f[d].records \in Seq(Records)
        /\ d \in DOMAIN g => g[d].records \in Seq(Records)
        /\ \A e : e # d => (e \in DOMAIN f <=> e \in DOMAIN g)
        /\ \A e \in DOMAIN f : e # d => DOMAIN f[e].records = DOMAIN g[e].records
    BY <1>1, <1>4, <2>1 DEF MemoryInv, Buffered
  <2>6. /\ IsFiniteSet(BufferOf(g)) /\ Cardinality(BufferOf(f)) \in Nat
        /\ Cardinality(BufferOf(g)) \in Nat
        /\ LengthOf(f, d) <= Cardinality(BufferOf(f))
        /\ Cardinality(BufferOf(g)) = Cardinality(BufferOf(f)) - LengthOf(f, d) + LengthOf(g, d)
    <3> HIDE DEF f, g
    <3> QED BY <2>5, OneBuffer
  <2> DEFINE B == Cardinality(Buffered)
             C == Cardinality(Buffered')
  <2>7. /\ IsFiniteSet(Buffered') /\ B \in Nat /\ C \in Nat
        /\ n <= B /\ C = B - n + LengthOf(g, d)
    BY <2>2, <2>6 DEF Buffered
  <2>8. /\ memBuffered \in Nat /\ B <= memBuffered /\ memBuffered <= Cardinality(given)
        /\ phase = "copy" => memBuffered = B /\ memBuffered <= ImportBufSize + 1
    BY <1>1 DEF MemoryInv
  <2>9. ImportBufSize \in Nat /\ Cardinality(given) \in Nat
    <3>1. IsFiniteSet(given)
      BY <1>1, ArchiveAssumption, FS_Subset DEF PhaseInv
    <3> QED BY <3>1, ArchiveAssumption, FS_CardinalityType
  <2> HIDE DEF n, B, C, f, g
  <2>10. CASE memBuffered' = memBuffered - n /\ w.records = <<>>
    <3>1. C = B - n
      BY <2>2, <2>3, <2>7, <2>10
    <3>2. memBuffered' \in Nat /\ C <= memBuffered' /\ memBuffered' <= Cardinality(given)
      BY <2>2, <2>7, <2>8, <2>9, <2>10, <3>1
    <3>3. phase' = "copy" => memBuffered' = C /\ memBuffered' <= ImportBufSize + 1
      BY <2>2, <2>7, <2>8, <2>9, <2>10, <3>1
    <3> QED BY <2>7, <3>2, <3>3 DEF MemoryInv, C
  <2>11. CASE memBuffered' = memBuffered /\ w = writers[d] /\ phase' # "copy"
    <3>1. C <= B
      BY <2>2, <2>4, <2>7, <2>11
    <3>2. memBuffered' \in Nat /\ C <= memBuffered' /\ memBuffered' <= Cardinality(given)
      BY <2>7, <2>8, <2>9, <2>11, <3>1
    <3> QED BY <2>7, <2>11, <3>2 DEF MemoryInv, C
  <2> QED BY <1>2, <2>10, <2>11 DEF n
<1>7. ~Flushing'
  BY DEF Flushing, NoTask
<1>8. WriterInv'
  <2>1. \A e \in DOMAIN writers' : e = d \/ (e \in DOMAIN writers /\ writers'[e] = writers[e])
    BY <1>4
  <2>2. d \in DOMAIN writers' => IsWriter(d, writers'[d]) /\ All(Held(writers'[d])) \cap todo' = {}
    BY <1>2, <1>4
  <2>3. Flushing => OfDay(d, SeqSet(task.records))
    BY <1>3 DEF IsContent
  <2>4. ASSUME NEW c \in DOMAIN data'
        PROVE  /\ d \in DOMAIN writers' => All(Held(writers'[d])) \cap InFile(c)' = {}
               /\ \/ c \in DOMAIN data /\ InFile(c)' = InFile(c) /\ ~(Flushing /\ c = task.chunk)
                  \/ OfDay(d, InFile(c)')
    <3>1. d \in DOMAIN writers' => All(Held(writers'[d])) \cap InFile(c)' = {}
      BY <1>4
    <3>2. CASE Flushing /\ c = task.chunk
      <4>1. InFile(c)' \subseteq SeqSet(task.records)
        BY <1>3, <3>2
      <4>2. OfDay(d, InFile(c)')
        BY <2>3, <3>2, <4>1 DEF OfDay
      <4> QED BY <3>1, <4>2
    <3>3. CASE ~(Flushing /\ c = task.chunk)
      BY <3>1, <3>3
    <3> QED BY <3>2, <3>3
  <2> QED BY <1>1, <2>1, <2>2, <2>4, WritersKept
<1>9. FlushInv'
  BY DEF FlushInv
<1>10. /\ Kept' \subseteq Kept \cup All(Held(w))
       /\ Kept \subseteq Kept' \cup All(Held(writers[d]))
  <2>1. HeldOf(f, d) = All(Held(writers[d])) /\ HeldOf(g, d) \subseteq All(Held(w))
    BY <1>3, <1>4 DEF HeldOf
  <2>2. /\ \A e : e # d => (e \in DOMAIN f <=> e \in DOMAIN g)
        /\ \A e \in DOMAIN f : e # d => f[e] = g[e]
    BY <1>4
  <2>3. KeptBy(f) \cup HeldOf(g, d) = KeptBy(g) \cup HeldOf(f, d)
    <3> HIDE DEF f, g
    <3> QED BY <2>2, OneWriter
  <2> QED BY <2>1, <2>3 DEF Kept
<1> QED BY <1>2, <1>5, <1>6, <1>8, <1>9, <1>10

\* The same of a flush that ends with a new writer.
LEMMA EndFlushKeeps ==
  ASSUME ArchiveInv, task # NoTask, NEW ok \in BOOLEAN, EndFlush(NewWriter, ok),
         UNCHANGED forward, ok \/ MayFail, DOMAIN data' = DOMAIN data,
         \A c \in DOMAIN data :
           InFile(c)' = InFile(c) \/ (Flushing /\ c = task.chunk /\ InFile(c)' \subseteq SeqSet(task.records))
  PROVE  /\ PhaseInv' /\ MemoryInv' /\ WriterInv' /\ FlushInv'
         /\ Kept' \subseteq Kept
         /\ Kept \subseteq Kept' \cup All(Held(writers[task.day]))
         /\ UNCHANGED <<todo, given, base>> /\ (~ok => failed') /\ (ok => failed' = failed)
         /\ task' = NoTask
<1>1. PhaseInv
  BY DEF ArchiveInv
<1>2. phase \in {"copy", "close"}
  BY FlushFacts DEF Running
<1>3. /\ writers' = AfterFlush(NewWriter) /\ task' = NoTask
      /\ memBuffered' = memBuffered - Len(writers[task.day].records)
      /\ UNCHANGED <<forward, todo, given, base, imports>>
  BY DEF EndFlush, BufSize
<1>4. /\ failed' = (failed \/ ~ok)
      /\ phase' = IF ok THEN phase ELSE "close"
      /\ failures' = IF ok THEN failures ELSE failures + 1
  BY DEF EndFlush
<1>5. failed' \in BOOLEAN /\ (~ok => failed')
  BY <1>4
<1>6. ok => failed' = failed
  BY <1>1, <1>4 DEF PhaseInv
<1>7. phase' \in {"copy", "close"} /\ (phase' = "copy" => phase = "copy" /\ ok)
  BY <1>2, <1>4
<1>8. phase' = "copy" => phase = "copy" /\ ~failed'
  BY <1>1, <1>6, <1>7, Zenon DEF PhaseInv
<1>9. failures' \in 0..MaxFailures
  BY <1>1, <1>4, ArchiveAssumption DEF PhaseInv, MayFail
<1>10. /\ IsWriter(task.day, NewWriter) /\ All(Held(NewWriter)) = {} /\ NewWriter.records = <<>>
  BY NewWriterKeeps
<1> DEFINE w == NewWriter
<1>11. /\ writers' = AfterFlush(w) /\ IsWriter(task.day, w) /\ All(Held(w)) \cap todo = {}
       /\ \A c \in DOMAIN data' : All(Held(w)) \cap InFile(c)' = {}
       /\ w.records = <<>> /\ All(Held(w)) = {}
  BY <1>3, <1>10
<1> HIDE DEF w
<1>12. /\ PhaseInv' /\ MemoryInv' /\ WriterInv' /\ FlushInv'
       /\ Kept' \subseteq Kept \cup All(Held(w))
       /\ Kept \subseteq Kept' \cup All(Held(writers[task.day]))
  BY <1>3, <1>5, <1>7, <1>8, <1>9, <1>11, FlushOver
<1>13. UNCHANGED <<todo, given, base>>
  BY <1>3
<1> QED BY <1>3, <1>5, <1>6, <1>11, <1>12, <1>13

\* A writer with nothing is flushed by forgetting it.
LEMMA FlushNothingKeeps ==
  ASSUME ArchiveInv, FlushNothing, UNCHANGED forward
  PROVE  ArchiveInv'
<1> DEFINE ok == TRUE
<1>1. /\ task.stage = "flush" /\ TotalRecordBytes(writers[task.day]) = 0
      /\ EndFlush(NewWriter, ok) /\ ok \in BOOLEAN /\ ok
      /\ UNCHANGED <<data, seekIndex>>
  BY DEF FlushNothing
<1> HIDE DEF ok
<1>2. FileInv /\ SeekInv /\ LossInv
  BY DEF ArchiveInv
<1>3. task # NoTask
  BY <1>1 DEF NoTask
<1>4. ~Flushing /\ IsWriter(task.day, writers[task.day])
  BY <1>1, <1>3, FlushFacts
<1>5. All(Held(writers[task.day])) = {}
  BY <1>1, <1>4, WriterFacts
<1>6. \A c \in DOMAIN data : InFile(c)' = InFile(c)
  BY <1>1 DEF InFile
<1>7. /\ PhaseInv' /\ MemoryInv' /\ WriterInv' /\ FlushInv'
      /\ Kept' \subseteq Kept
      /\ Kept \subseteq Kept' \cup All(Held(writers[task.day]))
      /\ UNCHANGED <<todo, given, base>> /\ failed' = failed /\ task' = NoTask
  BY <1>1, <1>3, <1>6, EndFlushKeeps
<1>8. FileInv' /\ SeekInv' /\ Shown' = Shown
  BY <1>1, <1>2, <1>7, FilesStill
<1>9. Underway = {} /\ Underway' = {}
  BY <1>4, <1>7 DEF Underway, Flushing, NoTask
<1>10. LossInv'
  BY <1>2, <1>5, <1>7, <1>8, <1>9 DEF LossInv
<1> QED BY <1>7, <1>8, <1>10 DEF ArchiveInv

\* A flush that fails with no data written loses what it had, and says so.
LEMMA FlushFailsKeeps ==
  ASSUME ArchiveInv, FlushFails \/ IndexFails, UNCHANGED forward
  PROVE  ArchiveInv'
<1> DEFINE ok == FALSE
<1>1. /\ task.stage \in {"flush", "index"} /\ MayFail
      /\ EndFlush(NewWriter, ok) /\ ok \in BOOLEAN /\ ~ok
      /\ UNCHANGED <<data, seekIndex>>
  BY DEF FlushFails, IndexFails
<1> HIDE DEF ok
<1>2. FileInv /\ SeekInv
  BY DEF ArchiveInv
<1>3. task # NoTask
  BY <1>1 DEF NoTask
<1>4. \A c \in DOMAIN data : InFile(c)' = InFile(c)
  BY <1>1 DEF InFile
<1>5. /\ PhaseInv' /\ MemoryInv' /\ WriterInv' /\ FlushInv'
      /\ UNCHANGED <<todo, given, base>> /\ failed'
  BY <1>1, <1>3, <1>4, EndFlushKeeps
<1>6. FileInv' /\ SeekInv'
  BY <1>1, <1>2, <1>5, FilesStill
<1>7. LossInv'
  BY <1>5 DEF LossInv
<1> QED BY <1>5, <1>6, <1>7 DEF ArchiveInv

\* A last spill that fails leaves the writer as it is, or drops it.
LEMMA LastSpillFailsKeeps ==
  ASSUME ArchiveInv, LastSpillFails, UNCHANGED forward
  PROVE  ArchiveInv'
<1> DEFINE w == writers[task.day]
<1>1. /\ task.stage = "flush" /\ failures < MaxFailures
      /\ writers' = AfterFlush(w)
      /\ task' = NoTask /\ failed' = TRUE /\ phase' = "close" /\ failures' = failures + 1
      /\ UNCHANGED <<todo, given, base, imports, memBuffered, data, seekIndex>>
  BY DEF LastSpillFails, MayFail
<1>2. PhaseInv /\ WriterInv /\ FileInv /\ SeekInv
  BY DEF ArchiveInv
<1>3. task # NoTask
  BY <1>1 DEF NoTask
<1>4. ~Flushing /\ IsWriter(task.day, w) /\ task.day \in DOMAIN writers
  BY <1>1, <1>3, FlushFacts
<1>5. FileInv' /\ SeekInv' /\ \A c : InFile(c)' = InFile(c)
  BY <1>1, <1>2, FilesStill
<1>6. All(Held(w)) \cap todo = {} /\ \A c \in DOMAIN data' : All(Held(w)) \cap InFile(c)' = {}
  BY <1>1, <1>2, <1>4, <1>5 DEF WriterInv
<1>7. failures' \in 0..MaxFailures /\ failed' \in BOOLEAN /\ phase' \in {"copy", "close"} /\ phase' # "copy"
  BY <1>1, <1>2, ArchiveAssumption DEF PhaseInv
<1>8. w = writers[task.day] /\ DOMAIN data' = DOMAIN data /\ memBuffered' = memBuffered
  BY <1>1
<1> HIDE DEF w
<1>9. PhaseInv' /\ MemoryInv' /\ WriterInv' /\ FlushInv'
  BY <1>1, <1>3, <1>4, <1>5, <1>6, <1>7, <1>8, FlushOver
<1>10. LossInv'
  BY <1>1 DEF LossInv
<1> QED BY <1>5, <1>9, <1>10 DEF ArchiveInv

\* A flush sorts what its writer has and creates a file for it.
LEMMA FlushStartKeeps ==
  ASSUME ArchiveInv, FlushStart, UNCHANGED forward
  PROVE  ArchiveInv'
<1>1. PhaseInv /\ MemoryInv /\ WriterInv /\ FileInv /\ SeekInv /\ LossInv
  BY DEF ArchiveInv
<1>2. PICK d, w, s, n : d = task.day /\ w = writers[d] /\ s = Sorted(w) /\ n = NewChunk
  OBVIOUS
<1>3. /\ task.stage = "flush" /\ TotalRecordBytes(w) > 0
      /\ task' = [stage |-> "data", day |-> d, chunk |-> n, records |-> s]
      /\ data' = With(data, n, [day |-> d, records |-> <<>>, closed |-> FALSE])
      /\ \/ UNCHANGED <<writers, memBuffered>>
         \/ writers' = [writers EXCEPT ![d] = NewWriter] /\ memBuffered' = memBuffered - Len(w.records)
      /\ UNCHANGED <<todo, given, base, imports, failures, phase, failed, seekIndex>>
  BY <1>2 DEF FlushStart, BufSize
<1>4. task # NoTask
  BY <1>3 DEF NoTask
<1>5. Running /\ d \in DOMAIN writers /\ IsWriter(d, w) /\ ~Flushing
  BY <1>2, <1>3, <1>4, FlushFacts
<1>6. IsContent(d, s) /\ SeqSet(s) = All(Held(w))
  BY <1>2, <1>3, <1>5, SortedKeeps
<1>7. All(Held(w)) \cap todo = {} /\ \A c \in DOMAIN data : All(Held(w)) \cap InFile(c) = {}
  BY <1>1, <1>2, <1>5 DEF WriterInv
<1>8. PICK m \in Nat : DOMAIN data = 1..m
  BY <1>1 DEF FileInv
<1>9. n = m + 1
  <2>1. Cardinality(1..m) = m
    BY <1>8, FS_Interval
  <2> QED BY <1>2, <1>8, <2>1 DEF NewChunk
<1>10. n \notin DOMAIN data /\ DOMAIN data \cup {n} = 1..(m + 1)
  BY <1>8, <1>9
<1>9a. PICK b : b = [day |-> d, records |-> <<>>, closed |-> FALSE]
  OBVIOUS
<1>11. /\ DOMAIN data' = DOMAIN data \cup {n}
       /\ data'[n] = b /\ \A c \in DOMAIN data : data'[c] = data[c]
  BY <1>3, <1>10, <1>9a DEF With
<1>12. b.records = <<>> /\ b = [day |-> b.day, records |-> b.records, closed |-> b.closed] /\ SeqSet(<<>>) = {}
  BY <1>9a DEF SeqSet
<1>13. InFile(n)' = {} /\ \A c \in DOMAIN data : InFile(c)' = InFile(c)
  BY <1>11, <1>12 DEF InFile
<1>14. /\ task'.stage = "data" /\ task'.day = d /\ task'.chunk = n /\ task'.records = s
       /\ Flushing' /\ Underway' = SeqSet(s) /\ Underway = {}
  BY <1>3, <1>5 DEF Flushing, Underway
<1>15. /\ DOMAIN writers' = DOMAIN writers
       /\ \A e \in DOMAIN writers : e # d => writers'[e] = writers[e]
       /\ \/ writers'[d] = w /\ memBuffered' = memBuffered
          \/ writers'[d] = NewWriter /\ memBuffered' = memBuffered - Len(w.records)
  BY <1>2, <1>3, <1>5
<1>16. /\ IsWriter(d, writers'[d])
       /\ \/ writers'[d] = w
          \/ All(Held(writers'[d])) = {}
       /\ All(Held(writers'[d])) \subseteq All(Held(w))
  BY <1>5, <1>15, NewWriterKeeps
<1> DEFINE f == writers
           g == writers'
<1>17. PhaseInv'
  <2>1. Running'
    BY <1>3, <1>5 DEF Running
  <2> QED BY <1>1, <1>3, <2>1, Zenon DEF PhaseInv
<1>18. MemoryInv'
  <2>1. w.records \in Seq(Records) /\ writers'[d].records \in Seq(Records) /\ w = f[d]
    BY <1>2, <1>5, <1>16 DEF IsWriter
  <2> DEFINE k == Len(w.records)
             B == Cardinality(Buffered)
             C == Cardinality(Buffered')
  <2>2. k \in Nat /\ LengthOf(f, d) = k
    BY <1>5, <2>1 DEF LengthOf
  <2>3. writers'[d] = w => LengthOf(g, d) = k
    BY <1>5, <1>15 DEF LengthOf
  <2>4. writers'[d] = NewWriter => LengthOf(g, d) = 0
    BY <1>15, NewWriterKeeps DEF LengthOf
  <2>5. /\ IsFiniteSet(BufferOf(f))
        /\ d \in DOMAIN f => f[d].records \in Seq(Records)
        /\ d \in DOMAIN g => g[d].records \in Seq(Records)
        /\ \A e : e # d => (e \in DOMAIN f <=> e \in DOMAIN g)
        /\ \A e \in DOMAIN f : e # d => DOMAIN f[e].records = DOMAIN g[e].records
    BY <1>1, <1>15, <2>1 DEF MemoryInv, Buffered
  <2>6. /\ IsFiniteSet(BufferOf(g)) /\ Cardinality(BufferOf(f)) \in Nat
        /\ Cardinality(BufferOf(g)) \in Nat
        /\ LengthOf(f, d) <= Cardinality(BufferOf(f))
        /\ Cardinality(BufferOf(g)) = Cardinality(BufferOf(f)) - LengthOf(f, d) + LengthOf(g, d)
    <3> HIDE DEF f, g
    <3> QED BY <2>5, OneBuffer
  <2>7. /\ IsFiniteSet(Buffered') /\ B \in Nat /\ C \in Nat
        /\ k <= B /\ C = B - k + LengthOf(g, d)
    BY <2>2, <2>6 DEF Buffered
  <2>8. /\ memBuffered \in Nat /\ B <= memBuffered /\ memBuffered <= Cardinality(given)
        /\ phase = "copy" => memBuffered = B /\ memBuffered <= ImportBufSize + 1
    BY <1>1 DEF MemoryInv
  <2>9. ImportBufSize \in Nat /\ Cardinality(given) \in Nat
    <3>1. IsFiniteSet(given)
      BY <1>1, ArchiveAssumption, FS_Subset DEF PhaseInv
    <3> QED BY <3>1, ArchiveAssumption, FS_CardinalityType
  <2> HIDE DEF k, B, C, f, g
  <2>10. B - C = memBuffered - memBuffered' /\ C <= B /\ memBuffered' \in Int
    <3>1. CASE writers'[d] = w /\ memBuffered' = memBuffered
      BY <2>2, <2>3, <2>7, <2>8, <3>1
    <3>2. CASE writers'[d] = NewWriter /\ memBuffered' = memBuffered - k
      BY <2>2, <2>4, <2>7, <2>8, <3>2
    <3> QED BY <1>15, <3>1, <3>2 DEF k
  <2>11. /\ memBuffered' \in Nat /\ C <= memBuffered' /\ memBuffered' <= Cardinality(given)
         /\ phase = "copy" => memBuffered' = C /\ memBuffered' <= ImportBufSize + 1
    BY <2>7, <2>8, <2>9, <2>10
  <2> QED BY <1>3, <2>7, <2>11 DEF MemoryInv, C
<1>19. WriterInv'
  <2>1. \A e \in DOMAIN writers' : e = d \/ (e \in DOMAIN writers /\ writers'[e] = writers[e])
    BY <1>15
  <2>2. IsWriter(d, writers'[d]) /\ All(Held(writers'[d])) \cap todo' = {}
    BY <1>3, <1>7, <1>16
  <2>3. ASSUME NEW c \in DOMAIN data'
        PROVE  \/ Flushing' /\ c = task'.chunk
               \/ /\ d \in DOMAIN writers' => All(Held(writers'[d])) \cap InFile(c)' = {}
                  /\ \/ c \in DOMAIN data /\ InFile(c)' = InFile(c) /\ ~(Flushing /\ c = task.chunk)
                     \/ OfDay(d, InFile(c)')
    BY <1>5, <1>7, <1>11, <1>13, <1>14, <1>16
  <2>4. todo' \subseteq todo
    BY <1>3
  <2> QED BY <1>1, <2>1, <2>2, <2>3, <2>4, WritersKept
<1>20. FileInv'
  <2>1. m + 1 \in Nat /\ DOMAIN data' = 1..(m + 1)
    BY <1>8, <1>10, <1>11
  <2>2. ASSUME NEW c \in DOMAIN data'
        PROVE  /\ data'[c] = [day |-> data'[c].day, records |-> data'[c].records, closed |-> data'[c].closed]
               /\ data'[c].records \in Seq(Records) /\ Once(data'[c].records)
               /\ InFile(c)' \cap todo' = {}
    <3>1. CASE c = n
      <4>1. <<>> \in Seq(Records) /\ Once(<<>>)
        BY DEF Once
      <4> QED BY <1>11, <1>12, <1>13, <3>1, <4>1
    <3>2. CASE c \in DOMAIN data
      BY <1>1, <1>3, <1>11, <1>13, <3>2 DEF FileInv
    <3> QED BY <1>11, <3>1, <3>2
  <2>3. ASSUME NEW c \in DOMAIN data', NEW e \in DOMAIN data', c # e
        PROVE  InFile(c)' \cap InFile(e)' = {}
    <3>1. \A i, j \in DOMAIN data : i # j => InFile(i) \cap InFile(j) = {}
      BY <1>1 DEF FileInv
    <3> QED BY <1>11, <1>13, <2>3, <3>1
  <2> QED BY <2>1, <2>2, <2>3 DEF FileInv
<1>21. n \notin DOMAIN seekIndex /\ seekIndex' = seekIndex
  BY <1>1, <1>3, <1>10 DEF SeekInv
<1>22. FlushInv'
  <2>1. /\ task' = [stage |-> task'.stage, day |-> task'.day, chunk |-> task'.chunk, records |-> task'.records]
    BY <1>3, <1>14
  <2>2. task'.day \in DOMAIN writers' /\ task'.chunk \in DOMAIN data'
    BY <1>5, <1>11, <1>14, <1>15
  <2>3. task'.chunk \in DOMAIN seekIndex' <=> task'.stage = "entries"
    BY <1>14, <1>21
  <2>4. IsContent(d, s)'
    BY <1>6, SameDirection
  <2>5. IsContent(task.day, task.records)'
    BY <1>14, <2>4, SameDirection, <1>6
  <2>6. data'[task'.chunk].records = <<>> /\ task'.stage = "data"
    BY <1>11, <1>12, <1>14
  <2>7. SeqSet(task'.records) \cap todo' = {}
    BY <1>3, <1>6, <1>7, <1>14
  <2>8. \A c \in DOMAIN data' : c # task'.chunk => SeqSet(task'.records) \cap InFile(c)' = {}
    BY <1>6, <1>7, <1>11, <1>13, <1>14
  <2>9. All(Held(writers'[task'.day])) \in {{}, SeqSet(task'.records)}
    BY <1>6, <1>14, <1>16
  <2> QED BY <1>14, <2>1, <2>2, <2>3, <2>5, <2>6, <2>7, <2>8, <2>9 DEF FlushInv
<1>23. SeekInv'
  <2>1. \A c \in DOMAIN seekIndex : data'[c].closed = data[c].closed /\ data'[c].records = data[c].records
    BY <1>1, <1>11 DEF SeekInv
  <2> QED BY <1>1, <1>11, <1>21, <2>1, SeeksKept
<1>24. LossInv'
  <2>1. HeldOf(f, d) = SeqSet(s) /\ HeldOf(g, d) \subseteq SeqSet(s)
    BY <1>2, <1>5, <1>6, <1>15, <1>16 DEF HeldOf
  <2>2. /\ \A e : e # d => (e \in DOMAIN f <=> e \in DOMAIN g)
        /\ \A e \in DOMAIN f : e # d => f[e] = g[e]
    BY <1>15
  <2>3. /\ HeldOf(f, d) \subseteq KeptBy(f)
        /\ KeptBy(f) \cup HeldOf(g, d) = KeptBy(g) \cup HeldOf(f, d)
    <3> HIDE DEF f, g
    <3> QED BY <2>2, OneWriter
  <2>4. Kept' \cup SeqSet(s) = Kept
    BY <2>1, <2>3 DEF Kept
  <2>5. Shown' = Shown
    <3>1. Listed' = Listed /\ Listed \subseteq DOMAIN data
      BY <1>11, <1>21 DEF Listed
    <3>2. \A c \in Listed : InFile(c)' = InFile(c)
      BY <1>13, <3>1
    <3> QED BY <3>1, <3>2 DEF Shown
  <2> QED BY <1>1, <1>3, <1>14, <2>4, <2>5 DEF LossInv
<1> QED BY <1>17, <1>18, <1>19, <1>20, <1>22, <1>23, <1>24 DEF ArchiveInv

\* What is known of a flush that has begun to write.
LEMMA CopyFacts ==
  ASSUME ArchiveInv, task.stage \in {"data", "index", "entries"}
  PROVE  /\ task # NoTask /\ Flushing /\ Running
         /\ task = [stage |-> task.stage, day |-> task.day, chunk |-> task.chunk, records |-> task.records]
         /\ task.day \in DOMAIN writers
         /\ task.chunk \in DOMAIN data
         /\ task.chunk \in DOMAIN seekIndex <=> task.stage = "entries"
         /\ IsContent(task.day, task.records)
         /\ task.records \in Seq(Records) /\ Once(task.records)
         /\ task.stage = "data" => data[task.chunk].records = <<>>
         /\ task.stage # "data" => data[task.chunk].records = task.records /\ data[task.chunk].closed
         /\ SeqSet(task.records) \cap todo = {}
         /\ \A c \in DOMAIN data : c # task.chunk => SeqSet(task.records) \cap InFile(c) = {}
         /\ All(Held(writers[task.day])) \in {{}, SeqSet(task.records)}
<1>1. Flushing
  BY DEF Flushing
<1>2. task # NoTask
  BY DEF NoTask
<1>3. FlushInv
  BY DEF ArchiveInv
<1>4. task # [stage |-> "flush", day |-> task.day]
  OBVIOUS
<1>5. Running
  BY <1>2, FlushFacts
<1>6. IsContent(task.day, task.records)
  BY <1>2, <1>3, <1>4 DEF FlushInv
<1>7. task.records \in Seq(Records) /\ Once(task.records)
  BY <1>6 DEF IsContent
<1> QED BY <1>1, <1>2, <1>3, <1>4, <1>5, <1>6, <1>7 DEF FlushInv

\* When one file changes that has no name yet, and has nothing but what is
\* copied to it, the others and the names are as they were.
LEMMA OneFile ==
  ASSUME ArchiveInv, task.stage = "data", UNCHANGED <<forward, todo, seekIndex>>,
         NEW b, b.records \in Seq(Records), Once(b.records), SeqSet(b.records) \subseteq SeqSet(task.records),
         b = [day |-> b.day, records |-> b.records, closed |-> b.closed],
         data' = [data EXCEPT ![task.chunk] = b]
  PROVE  /\ FileInv' /\ SeekInv' /\ Shown' = Shown
         /\ DOMAIN data' = DOMAIN data /\ data'[task.chunk] = b
         /\ \A c \in DOMAIN data : c # task.chunk => data'[c] = data[c] /\ InFile(c)' = InFile(c)
<1>1. FileInv /\ SeekInv
  BY DEF ArchiveInv
<1>2. PICK n : n = task.chunk
  OBVIOUS
<1>3. /\ n \in DOMAIN data /\ n \notin DOMAIN seekIndex
      /\ SeqSet(task.records) \cap todo = {}
      /\ \A c \in DOMAIN data : c # n => SeqSet(task.records) \cap InFile(c) = {}
  BY <1>2, CopyFacts
<1>4. DOMAIN data' = DOMAIN data /\ data'[n] = b /\ \A c \in DOMAIN data : c # n => data'[c] = data[c]
  BY <1>2, <1>3
<1>5. InFile(n)' = SeqSet(b.records) /\ \A c \in DOMAIN data : c # n => InFile(c)' = InFile(c)
  BY <1>4 DEF InFile
<1>6. FileInv'
  <2>1. \E m \in Nat : DOMAIN data' = 1..m
    BY <1>1, <1>4 DEF FileInv
  <2>2. ASSUME NEW c \in DOMAIN data'
        PROVE  /\ data'[c] = [day |-> data'[c].day, records |-> data'[c].records, closed |-> data'[c].closed]
               /\ data'[c].records \in Seq(Records) /\ Once(data'[c].records)
               /\ InFile(c)' \cap todo' = {}
    <3>1. CASE c = n
      BY <1>3, <1>4, <1>5, <3>1
    <3>2. CASE c # n
      BY <1>1, <1>4, <1>5, <3>2 DEF FileInv
    <3> QED BY <3>1, <3>2
  <2>3. ASSUME NEW c \in DOMAIN data', NEW e \in DOMAIN data', c # e
        PROVE  InFile(c)' \cap InFile(e)' = {}
    <3>1. \A i, j \in DOMAIN data : i # j => InFile(i) \cap InFile(j) = {}
      BY <1>1 DEF FileInv
    <3>2. \A i \in DOMAIN data : i # n => InFile(n)' \cap InFile(i)' = {}
      BY <1>3, <1>5
    <3>3. CASE c # n /\ e # n
      BY <1>4, <1>5, <2>3, <3>1, <3>3
    <3> QED BY <1>4, <2>3, <3>2, <3>3
  <2> QED BY <2>1, <2>2, <2>3 DEF FileInv
<1>7. SeekInv'
  <2>1. \A c \in DOMAIN seekIndex : data'[c].closed = data[c].closed /\ data'[c].records = data[c].records
    BY <1>1, <1>3, <1>4 DEF SeekInv
  <2> QED BY <1>1, <1>4, <2>1, SeeksKept
<1>8. Shown' = Shown
  <2>1. Listed' = Listed /\ Listed \subseteq DOMAIN data /\ n \notin Listed
    BY <1>3, <1>4 DEF Listed
  <2>2. \A c \in Listed : InFile(c)' = InFile(c)
    BY <1>5, <2>1
  <2> QED BY <2>1, <2>2 DEF Shown
<1> QED BY <1>2, <1>4, <1>5, <1>6, <1>7, <1>8

\* The records are copied to the file.
LEMMA CopyChunkKeeps ==
  ASSUME ArchiveInv, CopyChunk, UNCHANGED forward
  PROVE  ArchiveInv'
<1>1. PhaseInv /\ MemoryInv /\ WriterInv /\ LossInv
  BY DEF ArchiveInv
<1>2. PICK n, d, s : n = task.chunk /\ d = task.day /\ s = task.records
  OBVIOUS
<1>3. /\ task.stage = "data"
      /\ data' = [data EXCEPT ![n] = [data[n] EXCEPT !.records = s, !.closed = TRUE]]
      /\ task' = [task EXCEPT !.stage = "index"]
      /\ UNCHANGED <<todo, given, base, imports, failures, phase, failed, writers, memBuffered, seekIndex>>
  BY <1>2 DEF CopyChunk
<1>4. /\ Flushing /\ Running /\ d \in DOMAIN writers /\ n \in DOMAIN data /\ n \notin DOMAIN seekIndex
      /\ task = [stage |-> "data", day |-> d, chunk |-> n, records |-> s]
      /\ IsContent(d, s) /\ s \in Seq(Records) /\ Once(s)
      /\ SeqSet(s) \cap todo = {}
      /\ \A c \in DOMAIN data : c # n => SeqSet(s) \cap InFile(c) = {}
      /\ All(Held(writers[d])) \in {{}, SeqSet(s)}
  BY <1>2, <1>3, CopyFacts
<1>5. PICK b : b = [data[n] EXCEPT !.records = s, !.closed = TRUE]
  OBVIOUS
<1>6. b = [day |-> b.day, records |-> b.records, closed |-> b.closed] /\ b.records = s /\ b.closed
  <2>1. data[n] = [day |-> data[n].day, records |-> data[n].records, closed |-> data[n].closed]
    BY <1>4 DEF ArchiveInv, FileInv
  <2>2. b = [day |-> data[n].day, records |-> s, closed |-> TRUE]
    BY <1>5, <2>1
  <2> QED BY <2>2
<1>7. /\ FileInv' /\ SeekInv' /\ Shown' = Shown
      /\ DOMAIN data' = DOMAIN data /\ data'[n] = b
      /\ \A c \in DOMAIN data : c # n => InFile(c)' = InFile(c)
  BY <1>2, <1>3, <1>4, <1>5, <1>6, OneFile
<1>8. /\ task' = [stage |-> "index", day |-> d, chunk |-> n, records |-> s]
      /\ Flushing' /\ Underway' = Underway
  <2>1. task' = [stage |-> "index", day |-> d, chunk |-> n, records |-> s]
    BY <1>3, <1>4
  <2>2. task'.stage = "index" /\ task'.records = s
    BY <2>1
  <2> QED BY <1>2, <1>4, <2>1, <2>2 DEF Flushing, Underway
<1>9. task'.stage = "index" /\ task'.day = d /\ task'.chunk = n /\ task'.records = s
  BY <1>8
<1>10. PhaseInv'
  <2>1. Running'
    BY <1>3, <1>4 DEF Running
  <2> QED BY <1>1, <1>3, <2>1, Zenon DEF PhaseInv
<1>11. MemoryInv'
  BY <1>1, <1>3 DEF MemoryInv, Buffered
<1>12. WriterInv'
  <2>1. ASSUME NEW e \in DOMAIN writers'
        PROVE  /\ IsWriter(e, writers[e])'
               /\ All(Held(writers'[e])) \cap todo' = {}
               /\ \A c \in DOMAIN data' : ~(Flushing' /\ c = task'.chunk) => All(Held(writers'[e])) \cap InFile(c)' = {}
    <3>1. /\ IsWriter(e, writers[e]) /\ All(Held(writers[e])) \cap todo = {}
          /\ \A c \in DOMAIN data : ~(Flushing /\ c = task.chunk) => All(Held(writers[e])) \cap InFile(c) = {}
      BY <1>1, <1>3, <2>1 DEF WriterInv
    <3> QED BY <1>2, <1>3, <1>7, <1>8, <1>9, <3>1, SameDirection
  <2> QED BY <2>1 DEF WriterInv
<1>13. FlushInv'
  <2>1. task' = [stage |-> task'.stage, day |-> task'.day, chunk |-> task'.chunk, records |-> task'.records]
    BY <1>8, <1>9
  <2>2. IsContent(task.day, task.records)'
    BY <1>4, <1>9, SameDirection
  <2>3. task'.day \in DOMAIN writers' /\ task'.chunk \in DOMAIN data'
    BY <1>3, <1>4, <1>7, <1>9
  <2>4. task'.chunk \in DOMAIN seekIndex' <=> task'.stage = "entries"
    BY <1>3, <1>4, <1>9
  <2>5. data'[task'.chunk].records = task'.records /\ data'[task'.chunk].closed /\ task'.stage # "data"
    BY <1>6, <1>7, <1>9
  <2>6. SeqSet(task'.records) \cap todo' = {}
    BY <1>3, <1>4, <1>9
  <2>7. \A c \in DOMAIN data' : c # task'.chunk => SeqSet(task'.records) \cap InFile(c)' = {}
    BY <1>4, <1>7, <1>9
  <2>8. All(Held(writers'[task'.day])) \in {{}, SeqSet(task'.records)}
    BY <1>3, <1>4, <1>9
  <2> QED BY <1>8, <2>1, <2>2, <2>3, <2>4, <2>5, <2>6, <2>7, <2>8 DEF FlushInv
<1>14. LossInv'
  BY <1>1, <1>3, <1>7, <1>8 DEF LossInv, Kept
<1> QED BY <1>7, <1>10, <1>11, <1>12, <1>13, <1>14 DEF ArchiveInv

\* A copy that fails leaves a file without a name, with a part of the records.
LEMMA CopyFailsKeeps ==
  ASSUME ArchiveInv, CopyFails, UNCHANGED forward
  PROVE  ArchiveInv'
<1> DEFINE ok == FALSE
<1>1. PICK n, s, k : n = task.chunk /\ s = task.records /\ k \in 0..Len(s)
                     /\ data' = [data EXCEPT ![n].records = SubSeq(s, 1, k)]
  BY DEF CopyFails
<1>2. /\ task.stage = "data" /\ MayFail
      /\ EndFlush(NewWriter, ok) /\ ok \in BOOLEAN /\ ~ok
      /\ UNCHANGED <<seekIndex, todo>>
  BY DEF CopyFails, EndFlush
<1> HIDE DEF ok
<1>3. /\ Flushing /\ task # NoTask /\ n \in DOMAIN data
      /\ s \in Seq(Records) /\ Once(s)
  BY <1>1, <1>2, CopyFacts
<1>4. PICK t : t = SubSeq(s, 1, k)
  OBVIOUS
<1>5. t \in Seq(Records) /\ Once(t) /\ SeqSet(t) \subseteq SeqSet(s)
  <2>1. Len(s) \in Nat /\ DOMAIN s = 1..Len(s) /\ \A i \in DOMAIN s : s[i] \in Records
    BY <1>3, RunFacts
  <2>2. k \in Nat /\ k <= Len(s)
    BY <1>1, <2>1
  <2>3. t \in Seq(Records) /\ DOMAIN t = 1..k /\ \A i \in 1..k : t[i] = s[i]
    BY <1>3, <1>4, <2>1, <2>2
  <2>4. 1..k \subseteq DOMAIN s
    BY <2>1, <2>2
  <2>5. Once(t)
    BY <1>3, <2>3, <2>4 DEF Once
  <2>6. SeqSet(t) \subseteq SeqSet(s)
    BY <2>3, <2>4 DEF SeqSet
  <2> QED BY <2>3, <2>5, <2>6
<1>6. PICK b : b = [data[n] EXCEPT !.records = t]
  OBVIOUS
<1>7. /\ b = [day |-> b.day, records |-> b.records, closed |-> b.closed] /\ b.records = t
      /\ data' = [data EXCEPT ![n] = b]
  <2>1. data[n] = [day |-> data[n].day, records |-> data[n].records, closed |-> data[n].closed]
    BY <1>3 DEF ArchiveInv, FileInv
  <2>2. b = [day |-> data[n].day, records |-> t, closed |-> data[n].closed]
    BY <1>6, <2>1
  <2> QED BY <1>1, <1>4, <1>6, <2>2
<1>8. /\ FileInv' /\ SeekInv'
      /\ DOMAIN data' = DOMAIN data /\ data'[n] = b
      /\ \A c \in DOMAIN data : c # n => InFile(c)' = InFile(c)
  BY <1>1, <1>2, <1>5, <1>7, OneFile
<1>9. InFile(n)' \subseteq SeqSet(task.records)
  BY <1>1, <1>5, <1>7, <1>8 DEF InFile
<1>10. \A c \in DOMAIN data :
         InFile(c)' = InFile(c) \/ (Flushing /\ c = task.chunk /\ InFile(c)' \subseteq SeqSet(task.records))
  BY <1>1, <1>3, <1>8, <1>9
<1>11. /\ PhaseInv' /\ MemoryInv' /\ WriterInv' /\ FlushInv' /\ failed'
  BY <1>2, <1>3, <1>8, <1>10, EndFlushKeeps
<1>12. LossInv'
  BY <1>11 DEF LossInv
<1> QED BY <1>8, <1>11, <1>12 DEF ArchiveInv

\* The chunk gets its name: what was being copied is visible now.
LEMMA CreateIndexKeeps ==
  ASSUME ArchiveInv, CreateIndex, UNCHANGED forward
  PROVE  ArchiveInv'
<1>1. PhaseInv /\ MemoryInv /\ WriterInv /\ FileInv /\ SeekInv /\ LossInv
  BY DEF ArchiveInv
<1>2. PICK n, d, s, a : n = task.chunk /\ d = task.day /\ s = task.records /\ a = NameOf(d, s)
  OBVIOUS
<1>3. /\ task.stage = "index"
      /\ seekIndex' = With(seekIndex, n, a)
      /\ task' = [task EXCEPT !.stage = "entries"]
      /\ UNCHANGED <<todo, given, base, imports, failures, phase, failed, writers, memBuffered, data>>
  BY <1>2 DEF CreateIndex
<1>4. /\ Flushing /\ Running /\ d \in DOMAIN writers /\ n \in DOMAIN data
      /\ task = [stage |-> "index", day |-> d, chunk |-> n, records |-> s]
      /\ n \notin DOMAIN seekIndex
      /\ IsContent(d, s)
      /\ data[n].records = s /\ data[n].closed
      /\ SeqSet(s) \cap todo = {}
      /\ \A c \in DOMAIN data : c # n => SeqSet(s) \cap InFile(c) = {}
      /\ All(Held(writers[d])) \in {{}, SeqSet(s)}
  BY <1>2, <1>3, CopyFacts
<1>5. a.day = d /\ NamedTruly(a, s)
  BY <1>1, <1>2, <1>4, NameIsTrue DEF PhaseInv
<1>6. /\ DOMAIN seekIndex' = DOMAIN seekIndex \cup {n} /\ seekIndex'[n] = a
      /\ \A c \in DOMAIN seekIndex : seekIndex'[c] = seekIndex[c]
  BY <1>3, <1>4 DEF With
<1>7. /\ task' = [stage |-> "entries", day |-> d, chunk |-> n, records |-> s]
  BY <1>3, <1>4
<1>8. task'.stage = "entries" /\ task'.day = d /\ task'.chunk = n /\ task'.records = s
  BY <1>7
<1>9. Flushing' /\ Underway' = SeqSet(s) /\ Underway = SeqSet(s)
  BY <1>2, <1>4, <1>8 DEF Flushing, Underway
<1>10. FileInv' /\ \A c : InFile(c)' = InFile(c)
  BY <1>1, <1>3, FilesKept
<1>11. PhaseInv'
  <2>1. Running'
    BY <1>3, <1>4 DEF Running
  <2> QED BY <1>1, <1>3, <2>1, Zenon DEF PhaseInv
<1>12. MemoryInv'
  BY <1>1, <1>3 DEF MemoryInv, Buffered
<1>13. WriterInv'
  <2>1. ASSUME NEW e \in DOMAIN writers'
        PROVE  /\ IsWriter(e, writers[e])'
               /\ All(Held(writers'[e])) \cap todo' = {}
               /\ \A c \in DOMAIN data' : ~(Flushing' /\ c = task'.chunk) => All(Held(writers'[e])) \cap InFile(c)' = {}
    <3>1. /\ IsWriter(e, writers[e]) /\ All(Held(writers[e])) \cap todo = {}
          /\ \A c \in DOMAIN data : ~(Flushing /\ c = task.chunk) => All(Held(writers[e])) \cap InFile(c) = {}
      BY <1>1, <1>3, <2>1 DEF WriterInv
    <3> QED BY <1>2, <1>3, <1>8, <1>9, <1>10, <3>1, SameDirection
  <2> QED BY <2>1 DEF WriterInv
<1>14. FlushInv'
  <2>1. task' = [stage |-> task'.stage, day |-> task'.day, chunk |-> task'.chunk, records |-> task'.records]
    BY <1>7, <1>8
  <2>2. IsContent(task.day, task.records)'
    BY <1>4, <1>8, SameDirection
  <2>3. task'.day \in DOMAIN writers' /\ task'.chunk \in DOMAIN data'
    BY <1>3, <1>4, <1>8
  <2>4. task'.chunk \in DOMAIN seekIndex' <=> task'.stage = "entries"
    BY <1>6, <1>8
  <2>5. data'[task'.chunk].records = task'.records /\ data'[task'.chunk].closed /\ task'.stage # "data"
    BY <1>3, <1>4, <1>8
  <2>6. SeqSet(task'.records) \cap todo' = {}
    BY <1>3, <1>4, <1>8
  <2>7. \A c \in DOMAIN data' : c # task'.chunk => SeqSet(task'.records) \cap InFile(c)' = {}
    BY <1>3, <1>4, <1>8, <1>10
  <2>8. All(Held(writers'[task'.day])) \in {{}, SeqSet(task'.records)}
    BY <1>3, <1>4, <1>8
  <2> QED BY <1>9, <2>1, <2>2, <2>3, <2>4, <2>5, <2>6, <2>7, <2>8 DEF FlushInv
<1>15. SeekInv'
  <2>1. DOMAIN seekIndex' \subseteq DOMAIN data'
    BY <1>1, <1>3, <1>4, <1>6 DEF SeekInv
  <2>2. ASSUME NEW c \in DOMAIN seekIndex'
        PROVE  /\ data'[c].closed
               /\ IsContent(seekIndex[c].day, data[c].records)'
               /\ NamedTruly(seekIndex[c], data[c].records)'
    <3>1. CASE c = n
      BY <1>3, <1>4, <1>5, <1>6, <3>1, SameDirection
    <3>2. CASE c # n
      <4>1. c \in DOMAIN seekIndex
        BY <1>6, <3>2
      <4>2. /\ data[c].closed /\ IsContent(seekIndex[c].day, data[c].records)
            /\ NamedTruly(seekIndex[c], data[c].records)
        BY <1>1, <4>1 DEF SeekInv
      <4> QED BY <1>3, <1>6, <4>1, <4>2, SameDirection
    <3> QED BY <3>1, <3>2
  <2> QED BY <2>1, <2>2 DEF SeekInv
<1>16. LossInv'
  <2>1. Listed' = Listed \cup {n}
    BY <1>3, <1>4, <1>6 DEF Listed
  <2>2. InFile(n) = SeqSet(s)
    BY <1>4 DEF InFile
  <2>3. Shown' = Shown \cup SeqSet(s)
    BY <1>10, <2>1, <2>2 DEF Shown
  <2>4. Kept' = Kept
    BY <1>3 DEF Kept
  <2> QED BY <1>1, <1>3, <1>9, <2>3, <2>4 DEF LossInv
<1> QED BY <1>10, <1>11, <1>12, <1>13, <1>14, <1>15, <1>16 DEF ArchiveInv

\* The chunk is finished, and its writer has nothing left.
LEMMA FinishIndexKeeps ==
  ASSUME ArchiveInv, FinishIndex, UNCHANGED forward
  PROVE  ArchiveInv'
<1> DEFINE ok == TRUE
<1>1. /\ task.stage = "entries"
      /\ EndFlush(NewWriter, ok) /\ ok \in BOOLEAN /\ ok
      /\ UNCHANGED <<data, seekIndex>>
  BY DEF FinishIndex
<1> HIDE DEF ok
<1>2. FileInv /\ SeekInv /\ LossInv
  BY DEF ArchiveInv
<1>3. /\ task # NoTask /\ Flushing
      /\ task.chunk \in DOMAIN data /\ task.chunk \in DOMAIN seekIndex
      /\ data[task.chunk].records = task.records
      /\ All(Held(writers[task.day])) \in {{}, SeqSet(task.records)}
  BY <1>1, CopyFacts
<1>4. \A c \in DOMAIN data : InFile(c)' = InFile(c)
  BY <1>1 DEF InFile
<1>5. /\ PhaseInv' /\ MemoryInv' /\ WriterInv' /\ FlushInv'
      /\ Kept' \subseteq Kept
      /\ Kept \subseteq Kept' \cup All(Held(writers[task.day]))
      /\ UNCHANGED <<todo, given, base>> /\ failed' = failed /\ task' = NoTask
  BY <1>1, <1>3, <1>4, EndFlushKeeps
<1>6. FileInv' /\ SeekInv' /\ Shown' = Shown
  BY <1>1, <1>2, <1>5, FilesStill
<1>7. Underway = SeqSet(task.records) /\ Underway' = {}
  BY <1>3, <1>5 DEF Underway, Flushing, NoTask
<1>8. SeqSet(task.records) \subseteq Shown
  BY <1>3 DEF Shown, Listed, InFile
<1>9. LossInv'
  BY <1>2, <1>3, <1>5, <1>6, <1>7, <1>8 DEF LossInv
<1> QED BY <1>5, <1>6, <1>9 DEF ArchiveInv

\* A seek index that cannot be finished stays, or its chunk disappears.
LEMMA AbortIndexKeeps ==
  ASSUME ArchiveInv, AbortIndex, UNCHANGED forward
  PROVE  ArchiveInv'
<1> DEFINE ok == FALSE
<1>1. /\ task.stage = "entries" /\ MayFail
      /\ EndFlush(NewWriter, ok) /\ ok \in BOOLEAN /\ ~ok
      /\ seekIndex' = seekIndex \/ seekIndex' = Without(seekIndex, task.chunk)
      /\ UNCHANGED data
  BY DEF AbortIndex
<1> HIDE DEF ok
<1>2. FileInv /\ SeekInv
  BY DEF ArchiveInv
<1>3. task # NoTask
  BY <1>1, CopyFacts
<1>4. \A c \in DOMAIN data : InFile(c)' = InFile(c)
  BY <1>1 DEF InFile
<1>5. /\ PhaseInv' /\ MemoryInv' /\ WriterInv' /\ FlushInv'
      /\ UNCHANGED <<todo, given, base>> /\ failed'
  BY <1>1, <1>3, <1>4, EndFlushKeeps
<1>6. FileInv'
  BY <1>1, <1>2, <1>5, FilesKept
<1>7. SeekInv'
  <2>1. DOMAIN seekIndex' \subseteq DOMAIN seekIndex /\ \A c \in DOMAIN seekIndex' : seekIndex'[c] = seekIndex[c]
    BY <1>1 DEF Without
  <2>2. ASSUME NEW c \in DOMAIN seekIndex'
        PROVE  /\ data'[c].closed
               /\ IsContent(seekIndex[c].day, data[c].records)'
               /\ NamedTruly(seekIndex[c], data[c].records)'
    <3>1. /\ data[c].closed /\ IsContent(seekIndex[c].day, data[c].records)
          /\ NamedTruly(seekIndex[c], data[c].records)
      BY <1>2, <2>1 DEF SeekInv
    <3> QED BY <1>1, <2>1, <3>1, SameDirection
  <2>3. DOMAIN seekIndex' \subseteq DOMAIN data'
    BY <1>1, <1>2, <2>1 DEF SeekInv
  <2> QED BY <2>2, <2>3 DEF SeekInv
<1>8. LossInv'
  BY <1>5 DEF LossInv
<1> QED BY <1>5, <1>6, <1>7, <1>8 DEF ArchiveInv

\* A step that changes nothing.
LEMMA StutterKeeps ==
  ASSUME ArchiveInv, UNCHANGED vars
  PROVE  ArchiveInv'
<1>1. UNCHANGED <<forward, todo, given, base, imports, failures, phase, failed, writers, memBuffered, task, data, seekIndex>>
  BY DEF vars, importVars
<1>2. PhaseInv /\ MemoryInv /\ WriterInv /\ FileInv /\ FlushInv /\ SeekInv /\ LossInv
  BY DEF ArchiveInv
<1>3. FileInv' /\ SeekInv' /\ Shown' = Shown /\ \A c : InFile(c)' = InFile(c)
  BY <1>1, <1>2, FilesStill
<1>4. Buffered' = Buffered /\ Kept' = Kept /\ Underway' = Underway /\ (Flushing' <=> Flushing)
  BY <1>1 DEF Buffered, Kept, Underway, Flushing
<1>5. PhaseInv'
  BY <1>1, <1>2, Zenon DEF PhaseInv, Running
<1>6. MemoryInv'
  BY <1>1, <1>2, <1>4 DEF MemoryInv
<1>7. WriterInv'
  BY <1>1, <1>2, <1>3, <1>4, SameDirection DEF WriterInv
<1>8. FlushInv'
  <2>1. IsContent(task.day, task.records)' <=> IsContent(task.day, task.records)
    BY <1>1, SameDirection
  <2> QED BY <1>1, <1>2, <1>3, <1>4, <2>1 DEF FlushInv
<1>9. LossInv'
  BY <1>1, <1>2, <1>3, <1>4 DEF LossInv
<1> QED BY <1>3, <1>5, <1>6, <1>7, <1>8, <1>9 DEF ArchiveInv

-----------------------------------------------------------------------------
(***************************************************************************)
(* The theorems.                                                           *)
(***************************************************************************)
\* Every step of an import, every failure and a crash keep the invariant.
LEMMA StepKeeps ==
  ASSUME ArchiveInv, [Next]_vars
  PROVE  ArchiveInv'
<1>1. CASE UNCHANGED vars
  BY <1>1, StutterKeeps
<1>2. CASE Next
  <2>1. UNCHANGED forward /\ (Import \/ Step \/ Fault)
    BY <1>2 DEF Next
  <2>2. CASE Import
    BY <2>1, <2>2, ImportKeeps
  <2>3. CASE Step
    <3>1. ASSUME NEW r \in Records, Write(r)
          PROVE  ArchiveInv'
      BY <2>1, <3>1, WriteStepKeeps
    <3>2. ASSUME NEW d \in DOMAIN writers, SpillLargest(d)
          PROVE  ArchiveInv'
      BY <2>1, <3>2, SpillLargestKeeps
    <3>3. ASSUME NEW d \in DOMAIN writers, CloseWriter(d)
          PROVE  ArchiveInv'
      BY <2>1, <3>3, CloseWriterKeeps
    <3>4. CASE EndOfInput \/ CloseDone
      BY <2>1, <3>4, EndKeeps
    <3>5. CASE FlushNothing
      BY <2>1, <3>5, FlushNothingKeeps
    <3>6. CASE FlushStart
      BY <2>1, <3>6, FlushStartKeeps
    <3>7. CASE CopyChunk
      BY <2>1, <3>7, CopyChunkKeeps
    <3>8. CASE CreateIndex
      BY <2>1, <3>8, CreateIndexKeeps
    <3>9. CASE FinishIndex
      BY <2>1, <3>9, FinishIndexKeeps
    <3> QED BY <2>3, <3>1, <3>2, <3>3, <3>4, <3>5, <3>6, <3>7, <3>8, <3>9 DEF Step
  <2>4. CASE Fault
    <3>1. CASE SpillFails \/ ReadFails
      BY <2>1, <3>1, EndKeeps
    <3>2. CASE LastSpillFails
      BY <2>1, <3>2, LastSpillFailsKeeps
    <3>3. CASE FlushFails \/ IndexFails
      BY <2>1, <3>3, FlushFailsKeeps
    <3>4. CASE CopyFails
      BY <2>1, <3>4, CopyFailsKeeps
    <3>5. CASE AbortIndex
      BY <2>1, <3>5, AbortIndexKeeps
    <3>6. CASE Crash
      BY <2>1, <3>6, CrashKeeps
    <3> QED BY <2>4, <3>1, <3>2, <3>3, <3>4, <3>5, <3>6 DEF Fault
  <2> QED BY <2>1, <2>2, <2>3, <2>4
<1> QED BY <1>1, <1>2

\* The invariant that everything below rests on: whatever fails and wherever an
\* import crashes, no record is in two places at once, the file that is being
\* written has what its flush took from one writer, and only a file that is
\* complete has a name.
THEOREM ArchiveInvariant == Spec => []ArchiveInv
<1>1. Init => ArchiveInv
  BY StartsSound
<1>2. ArchiveInv /\ [Next]_vars => ArchiveInv'
  BY StepKeeps
<1> QED BY <1>1, <1>2, PTL DEF Spec

\* The variables have their types.
LEMMA TypesOfArchive ==
  ASSUME ArchiveInv
  PROVE  TypeOK
<1>1. PhaseInv /\ MemoryInv /\ WriterInv /\ FileInv /\ SeekInv
  BY DEF ArchiveInv
<1>2. \A d \in DOMAIN writers :
        /\ SeqSet(writers[d].records) \subseteq Records
        /\ \A k \in DOMAIN writers[d].runs : SeqSet(writers[d].runs[k]) \subseteq Records
  <2> SUFFICES ASSUME NEW d \in DOMAIN writers
               PROVE  /\ SeqSet(writers[d].records) \subseteq Records
                      /\ \A k \in DOMAIN writers[d].runs : SeqSet(writers[d].runs[k]) \subseteq Records
    OBVIOUS
  <2>1. writers[d].records \in Seq(Records) /\ writers[d].runs \in Runs
    BY <1>1, WriterFacts DEF WriterInv
  <2>2. \A k \in DOMAIN writers[d].runs : writers[d].runs[k] \in Seq(Records)
    BY <2>1, PlaceFacts
  <2> QED BY <2>1, <2>2, RunFacts
<1>3. memBuffered \in 0..Cardinality(Records)
  <2>1. given \subseteq Records /\ IsFiniteSet(Records)
    BY <1>1, ArchiveAssumption DEF PhaseInv
  <2>2. IsFiniteSet(given) /\ Cardinality(given) <= Cardinality(Records)
    BY <2>1, FS_Subset
  <2>3. Cardinality(given) \in Nat /\ Cardinality(Records) \in Nat
    BY <2>1, <2>2, FS_CardinalityType
  <2> QED BY <1>1, <2>2, <2>3 DEF MemoryInv
<1>4. task.stage \in Stages
  <2>1. CASE task = NoTask
    BY <2>1 DEF NoTask, Stages
  <2>2. CASE task # NoTask
    BY <2>2, FlushFacts DEF Stages
  <2> QED BY <2>1, <2>2
<1>5. \A c \in DOMAIN data : SeqSet(data[c].records) \subseteq Records
  BY <1>1, RunFacts DEF FileInv
<1>6. DOMAIN seekIndex \subseteq DOMAIN data
  BY <1>1 DEF SeekInv
<1>7. todo \subseteq Records /\ given \subseteq Records /\ base \subseteq Records
  BY <1>1 DEF PhaseInv
<1> QED BY <1>1, <1>2, <1>3, <1>4, <1>5, <1>6, <1>7, Zenon DEF TypeOK, PhaseInv

\* A chunk that readers see is whole, in order and of its day, and its name is
\* true, whichever step of a flush failed and wherever an import crashed.
THEOREM ChunksWhole == Spec => []VisibleIsWhole
<1>1. ASSUME ArchiveInv
      PROVE  VisibleIsWhole
  <2>1. TypeOK
    BY <1>1, TypesOfArchive
  <2> DEFINE Whole(c, s) ==
               /\ data[c.id].closed /\ Len(s) = c.count /\ Len(s) > 0
               /\ \A k \in 1..Len(s) - 1 : ~Before(s[k + 1], s[k])
               /\ Ts(s[Len(s)]) = c.last
               /\ Ts(s[1]) = c.first \/ (forward /\ Ts(s[1]) = 0)
               /\ \A k \in DOMAIN s : Day(Ts(s[k])) = c.day
  <2>2. ASSUME NEW c \in VisibleChunks
        PROVE  Whole(c, data[c.id].records)
    <3>1. PICK s : s = data[c.id].records
      OBVIOUS
    <3>2. /\ c.id \in DOMAIN seekIndex
          /\ c.day = seekIndex[c.id].day /\ c.first = seekIndex[c.id].first
          /\ c.last = seekIndex[c.id].last /\ c.count = seekIndex[c.id].count
      BY VisibleFacts DEF Listed
    <3>3. data[c.id].closed /\ IsContent(c.day, s) /\ NamedTruly(seekIndex[c.id], s)
      BY <1>1, <3>1, <3>2 DEF ArchiveInv, SeekInv
    <3>4. s \in Seq(Records) /\ s # <<>> /\ Ordered(s) /\ OfDay(c.day, SeqSet(s))
      BY <3>3 DEF IsContent
    <3>5. /\ Len(s) = c.count /\ Ts(s[Len(s)]) = c.last
          /\ Ts(s[1]) = c.first \/ (forward /\ Ts(s[1]) = 0)
      BY <3>2, <3>3 DEF NamedTruly
    <3>6. Len(s) \in Nat /\ Len(s) > 0 /\ DOMAIN s = 1..Len(s)
      BY <3>4, RunFacts
    <3>7. ASSUME NEW k \in 1..Len(s) - 1
          PROVE  ~Before(s[k + 1], s[k])
      <4>1. k \in DOMAIN s /\ k + 1 \in DOMAIN s /\ k < k + 1
        BY <3>6
      <4> QED BY <3>4, <4>1 DEF Ordered
    <3>8. \A k \in DOMAIN s : Day(Ts(s[k])) = c.day
      BY <3>4 DEF OfDay, SeqSet
    <3>9. Whole(c, s)
      BY <3>3, <3>5, <3>6, <3>7, <3>8
    <3> HIDE DEF Whole
    <3> QED BY <3>1, <3>9
  <2> QED BY <2>1, <2>2 DEF VisibleIsWhole
<1> QED BY <1>1, ArchiveInvariant, PTL

\* No record is visible twice, an import that succeeds made visible all that it
\* was given, and its memory is accounted for.
THEOREM NothingTwiceOrLost == Spec => []ImportedOnce
<1>1. ASSUME ArchiveInv
      PROVE  ImportedOnce
  <2>1. PhaseInv /\ MemoryInv /\ FileInv /\ SeekInv /\ LossInv
    BY <1>1 DEF ArchiveInv
  <2>2. MemoryAccounted
    BY <2>1 DEF MemoryInv, MemoryAccounted, Buffered, BufferOf
  <2>3. ASSUME NEW c \in VisibleChunks, NEW e \in VisibleChunks, c # e
        PROVE  SeqSet(data[c.id].records) \cap SeqSet(data[e.id].records) = {}
    <3>1. c.id \in DOMAIN data /\ e.id \in DOMAIN data
      BY VisibleFacts DEF Listed
    <3>2. c.id # e.id
      BY <2>3, VisibleFacts
    <3> QED BY <2>1, <3>1, <3>2 DEF FileInv, InFile
  <2>4. ASSUME NEW c \in VisibleChunks
        PROVE  Cardinality(SeqSet(data[c.id].records)) = Len(data[c.id].records)
    <3>1. c.id \in DOMAIN data
      BY VisibleFacts DEF Listed
    <3>2. PICK s : s = data[c.id].records
      OBVIOUS
    <3>3. s \in Seq(Records) /\ Once(s)
      BY <2>1, <3>1, <3>2 DEF FileInv
    <3> QED BY <3>2, <3>3, OnceCounts
  <2>5. ASSUME phase = "ok"
        PROVE  VisibleRecords = base \cup given
    <3>1. ~failed /\ task = NoTask /\ DOMAIN writers = {}
      BY <2>1, <2>5 DEF PhaseInv, Running
    <3>2. Kept = {} /\ Underway = {}
      BY <3>1 DEF Kept, KeptBy, Underway, Flushing, NoTask
    <3> QED BY <2>1, <3>1, <3>2, VisibleFacts DEF LossInv
  <2> QED BY <2>2, <2>3, <2>4, <2>5 DEF ImportedOnce
<1> QED BY <1>1, ArchiveInvariant, PTL

\* A chunk keeps its name and its data, or its own seek index cannot be finished.
Stays(c) ==
  \/ c \in DOMAIN seekIndex' /\ seekIndex'[c] = seekIndex[c] /\ data'[c] = data[c]
  \/ task # NoTask /\ task.stage = "entries" /\ task.chunk = c /\ failures' > failures
\* Files are only created, and written to while they have no name.
LEMMA StepStays ==
  ASSUME ArchiveInv, [Next]_vars, NEW c \in DOMAIN seekIndex
  PROVE  Stays(c)
<1>1. CASE UNCHANGED <<data, seekIndex>>
  BY <1>1 DEF Stays
<1>2. SeekInv /\ PhaseInv /\ FileInv /\ c \in DOMAIN data
  BY DEF ArchiveInv, SeekInv
<1>3. CASE FlushStart
  <2>1. PICK n, b : n = NewChunk /\ data' = With(data, n, b) /\ seekIndex' = seekIndex
    BY <1>3 DEF FlushStart
  <2>2. PICK m \in Nat : DOMAIN data = 1..m
    BY <1>2 DEF FileInv
  <2>3. Cardinality(1..m) = m
    BY <2>2, FS_Interval
  <2>4. n \notin DOMAIN data
    BY <2>1, <2>2, <2>3 DEF NewChunk
  <2>5. data'[c] = data[c]
    BY <1>2, <2>1, <2>4 DEF With
  <2> QED BY <2>1, <2>5 DEF Stays
<1>4. CASE CopyChunk \/ CopyFails
  <2>1. task.stage = "data" /\ seekIndex' = seekIndex
    BY <1>4 DEF CopyChunk, CopyFails
  <2>2. PICK n, b : n = task.chunk /\ data' = [data EXCEPT ![n] = b]
    <3>1. CASE CopyChunk
      BY <3>1 DEF CopyChunk
    <3>2. CASE CopyFails
      BY <3>2 DEF CopyFails
    <3> QED BY <1>4, <3>1, <3>2
  <2>3. n \notin DOMAIN seekIndex
    BY <2>1, <2>2, CopyFacts
  <2>4. data'[c] = data[c]
    BY <1>2, <2>2, <2>3
  <2> QED BY <2>1, <2>4 DEF Stays
<1>5. CASE CreateIndex
  <2>1. PICK n, b : n = task.chunk /\ seekIndex' = With(seekIndex, n, b) /\ data' = data /\ task.stage = "index"
    BY <1>5 DEF CreateIndex
  <2>2. n \notin DOMAIN seekIndex
    BY <2>1, CopyFacts
  <2>3. c \in DOMAIN seekIndex' /\ seekIndex'[c] = seekIndex[c]
    BY <2>1, <2>2 DEF With
  <2> QED BY <2>1, <2>3 DEF Stays
<1>6. CASE AbortIndex
  <2>1. /\ task.stage = "entries" /\ data' = data
        /\ seekIndex' = seekIndex \/ seekIndex' = Without(seekIndex, task.chunk)
        /\ failures' = failures + 1
    BY <1>6 DEF AbortIndex, EndFlush
  <2>2. failures' > failures
    BY <1>2, <2>1, ArchiveAssumption DEF PhaseInv
  <2>3. task # NoTask
    BY <2>1 DEF NoTask
  <2>4. c # task.chunk => c \in DOMAIN seekIndex' /\ seekIndex'[c] = seekIndex[c]
    BY <2>1 DEF Without
  <2> QED BY <2>1, <2>2, <2>3, <2>4 DEF Stays
<1>7. CASE ~(FlushStart \/ CopyChunk \/ CopyFails \/ CreateIndex \/ AbortIndex)
  <2>1. UNCHANGED <<data, seekIndex>>
    BY <1>7 DEF Next, Step, Fault, vars, Import, Write, SpillLargest, CloseWriter, EndOfInput, CloseDone,
       FlushNothing, FinishIndex, SpillFails, ReadFails, LastSpillFails, FlushFails, IndexFails, Crash
  <2> QED BY <1>1, <2>1
<1> QED BY <1>3, <1>4, <1>5, <1>6, <1>7

\* What readers have seen stays as it is, but for a chunk whose own seek index
\* cannot be finished (chunkWriter.close aborts it).
THEOREM ReadersKeep == Spec => VisibleStays
<1>1. ArchiveInv /\ [Next]_vars => [\A c \in DOMAIN seekIndex : Stays(c)]_vars
  BY StepStays
<1>2. [\A c \in DOMAIN seekIndex : Stays(c)]_vars =>
        [\A c \in DOMAIN seekIndex :
           \/ c \in DOMAIN seekIndex' /\ seekIndex'[c] = seekIndex[c] /\ data'[c] = data[c]
           \/ task # NoTask /\ task.stage = "entries" /\ task.chunk = c /\ failures' > failures]_vars
  BY DEF Stays
<1> QED BY <1>1, <1>2, ArchiveInvariant, PTL DEF Spec, VisibleStays

-----------------------------------------------------------------------------
(***************************************************************************)
(* Lists.                                                                  *)
(***************************************************************************)
\* Where a timestamp is in the order of the archive.
Pos(t) == IF forward THEN t ELSE -t

\* What boundaries and days are sorted to: each once, in the order of the archive (chunksSort).
LEMMA InOrderLists ==
  ASSUME NEW S, S \subseteq Int, IsFiniteSet(S)
  PROVE  /\ InOrder(S) \in Seq(S)
         /\ SeqSet(InOrder(S)) = S
         /\ \A i, j \in DOMAIN InOrder(S) : i < j => Pos(InOrder(S)[i]) < Pos(InOrder(S)[j])
<1> DEFINE R == {x \in S \X S : Pos(x[1]) < Pos(x[2])}
           n == Cardinality(S)
           s == InOrder(S)
<1>0. n \in Nat
  BY FS_CardinalityType
<1>1. \A x, y \in S : <<x, y>> \in R <=> Pos(x) < Pos(y)
  OBVIOUS
<1>2. \A x \in S : Pos(x) \in Int
  BY DEF Pos
<1>3. \A x, y \in S : Pos(x) = Pos(y) => x = y
  BY DEF Pos
<1> HIDE DEF R
<1>4. ASSUME NEW x \in S
      PROVE  Less(S, R, x) = Ahead(S, x)
  <2>1. \A y \in S : <<y, x>> \in R <=> IF forward THEN y < x ELSE x < y
    BY <1>1 DEF Pos
  <2> QED BY <2>1 DEF Less, Ahead
<1>5. IsOrder(S, R)
  BY <1>1, <1>2, <1>3 DEF IsOrder
<1>6. /\ \A x \in S : Rank(S, R, x) \in 0..(n - 1)
      /\ \A x, y \in S : Rank(S, R, x) < Rank(S, R, y) => <<x, y>> \in R
      /\ \A k \in 0..(n - 1) : \E x \in S : Rank(S, R, x) = k
  <2>1. \A x \in S : Rank(S, R, x) \in 0..(n - 1)
    BY <1>5, Ranks
  <2>2. \A x, y \in S : Rank(S, R, x) < Rank(S, R, y) => <<x, y>> \in R
    BY <1>5, Ranks
  <2>3. ASSUME NEW k \in 0..(n - 1)
        PROVE  \E x \in S : Rank(S, R, x) = k
    BY <1>5, RankTaken
  <2> QED BY <2>1, <2>2, <2>3
<1>7. \A x \in S : Rank(S, R, x) = Cardinality(Ahead(S, x))
  BY <1>4 DEF Rank
<1>8. \A x, y \in S : Rank(S, R, x) = Rank(S, R, y) => x = y
  BY <1>5, Ranks
<1>9. ASSUME NEW k \in 1..n
      PROVE  s[k] \in S /\ Rank(S, R, s[k]) = k - 1
  <2>1. s[k] = CHOOSE x \in S : Cardinality(Ahead(S, x)) = k - 1
    BY DEF InOrder
  <2>2. k - 1 \in 0..(n - 1)
    BY <1>0
  <2>3. \E x \in S : Cardinality(Ahead(S, x)) = k - 1
    BY <1>6, <1>7, <2>2
  <2> HIDE DEF s
  <2>4. s[k] \in S /\ Cardinality(Ahead(S, s[k])) = k - 1
    BY <2>1, <2>3
  <2> QED BY <1>7, <2>4
<1>10. DOMAIN s = 1..n /\ s = [k \in 1..n |-> s[k]]
  BY DEF InOrder
<1> HIDE DEF s, n
<1>11. s \in Seq(S)
  BY <1>0, <1>9, <1>10, SeqDef
<1>12. SeqSet(s) = S
  <2>1. ASSUME NEW x \in S
        PROVE  x \in SeqSet(s)
    <3>1. PICK k \in 1..n : Rank(S, R, x) = k - 1
      <4>1. Rank(S, R, x) + 1 \in 1..n /\ Rank(S, R, x) = (Rank(S, R, x) + 1) - 1
        BY <1>0, <1>6
      <4> QED BY <4>1
    <3>2. x = s[k]
      BY <1>8, <1>9, <3>1
    <3> QED BY <1>10, <3>2 DEF SeqSet
  <2> QED BY <1>9, <1>10, <2>1 DEF SeqSet
<1>13. \A i, j \in DOMAIN s : i < j => Pos(s[i]) < Pos(s[j])
  <2> SUFFICES ASSUME NEW i \in 1..n, NEW j \in 1..n, i < j
               PROVE  Pos(s[i]) < Pos(s[j])
    BY <1>10
  <2>1. s[i] \in S /\ s[j] \in S /\ Rank(S, R, s[i]) = i - 1 /\ Rank(S, R, s[j]) = j - 1
    BY <1>9
  <2>2. Rank(S, R, s[i]) < Rank(S, R, s[j])
    BY <1>0, <2>1
  <2> QED BY <1>1, <1>6, <2>1, <2>2
<1> QED BY <1>11, <1>12, <1>13 DEF s

\* c is the first n sequences of ss one after the other: part and place tell where each element comes from.
Laid(c, ss, n, part, place) ==
  /\ \A i \in DOMAIN c :
       /\ part[i] \in 1..n /\ place[i] \in DOMAIN ss[part[i]]
       /\ c[i] = ss[part[i]][place[i]]
  /\ \A i, j \in DOMAIN c : i < j =>
       part[i] < part[j] \/ (part[i] = part[j] /\ place[i] < place[j])
  /\ \A k \in 1..n : \A l \in DOMAIN ss[k] : \E i \in DOMAIN c : part[i] = k /\ place[i] = l

\* One sequence more.
LEMMA LaidMore ==
  ASSUME NEW S, NEW ss \in Seq(Seq(S)), NEW n \in 1..Len(ss),
         NEW c \in Seq(S), NEW part, NEW place, Laid(c, ss, n - 1, part, place)
  PROVE  /\ c \o ss[n] \in Seq(S)
         /\ \E p, q : Laid(c \o ss[n], ss, n, p, q)
<1> DEFINE t == ss[n]
           d == c \o t
           m == Len(c)
           p == [i \in DOMAIN d |-> IF i <= m THEN part[i] ELSE n]
           q == [i \in DOMAIN d |-> IF i <= m THEN place[i] ELSE i - m]
<1>0. n \in Nat \ {0} /\ n - 1 \in Nat
  <2>1. Len(ss) \in Nat
    OBVIOUS
  <2> QED BY <2>1
<1>1. t \in Seq(S)
  <2>1. DOMAIN ss = 1..Len(ss)
    OBVIOUS
  <2> QED BY <2>1
<1> HIDE DEF t
<1>2. /\ d \in Seq(S) /\ m \in Nat /\ Len(t) \in Nat
      /\ DOMAIN d = 1..(m + Len(t)) /\ DOMAIN c = 1..m /\ DOMAIN t = 1..Len(t)
      /\ \A i \in 1..m : d[i] = c[i]
      /\ \A i \in 1..Len(t) : d[m + i] = t[i]
  BY <1>1
<1>3. \A i \in 1..m : i \in DOMAIN d /\ p[i] = part[i] /\ q[i] = place[i]
  BY <1>2
<1>4. \A i \in DOMAIN d \ (1..m) : p[i] = n /\ q[i] = i - m /\ i - m \in 1..Len(t) /\ d[i] = t[i - m] /\ i > m
  <2> SUFFICES ASSUME NEW i \in DOMAIN d \ (1..m)
               PROVE  p[i] = n /\ q[i] = i - m /\ i - m \in 1..Len(t) /\ d[i] = t[i - m] /\ i > m
    OBVIOUS
  <2>1. i \in Int /\ i > m /\ i - m \in 1..Len(t) /\ m + (i - m) = i
    BY <1>2
  <2>2. d[i] = t[i - m]
    BY <1>2, <2>1
  <2> QED BY <1>2, <2>1, <2>2
<1>5. \A i \in 1..Len(t) : m + i \in DOMAIN d \ (1..m) /\ (m + i) - m = i
  BY <1>2
<1> HIDE DEF d, p, q, m
<1> DEFINE D == DOMAIN c
<1>6. /\ \A i \in 1..m : /\ part[i] \in 1..(n - 1) /\ place[i] \in DOMAIN ss[part[i]]
                         /\ c[i] = ss[part[i]][place[i]]
      /\ \A i, j \in 1..m : i < j => part[i] < part[j] \/ (part[i] = part[j] /\ place[i] < place[j])
      /\ \A k \in 1..(n - 1) : \A l \in DOMAIN ss[k] : \E i \in 1..m : part[i] = k /\ place[i] = l
  <2>1. D = 1..m
    BY <1>2
  <2>2. /\ \A i \in D : /\ part[i] \in 1..(n - 1) /\ place[i] \in DOMAIN ss[part[i]]
                       /\ c[i] = ss[part[i]][place[i]]
        /\ \A i, j \in D : i < j => part[i] < part[j] \/ (part[i] = part[j] /\ place[i] < place[j])
        /\ \A k \in 1..(n - 1) : \A l \in DOMAIN ss[k] : \E i \in D : part[i] = k /\ place[i] = l
    BY DEF Laid
  <2> HIDE DEF D
  <2> QED BY <2>1, <2>2
<1>7. ASSUME NEW i \in DOMAIN d
      PROVE  p[i] \in 1..n /\ q[i] \in DOMAIN ss[p[i]] /\ d[i] = ss[p[i]][q[i]]
  <2>1. CASE i \in 1..m
    <3>1. p[i] \in 1..(n - 1)
      BY <1>3, <1>6, <2>1
    <3>2. p[i] \in 1..n
      BY <1>0, <3>1
    <3> QED BY <1>2, <1>3, <1>6, <2>1, <3>2
  <2>2. CASE i \notin 1..m
    <3>1. p[i] = n /\ q[i] \in 1..Len(t) /\ d[i] = t[q[i]]
      BY <1>4, <2>2
    <3>2. n \in 1..n
      BY <1>0
    <3> QED BY <1>2, <3>1, <3>2 DEF t
  <2> QED BY <2>1, <2>2
<1>8. ASSUME NEW i \in DOMAIN d, NEW j \in DOMAIN d, i < j
      PROVE  p[i] < p[j] \/ (p[i] = p[j] /\ q[i] < q[j])
  <2>0. i \in Int /\ j \in Int
    BY <1>2
  <2>1. CASE i \in 1..m /\ j \in 1..m
    BY <1>3, <1>6, <1>8, <2>1
  <2>2. CASE i \in 1..m /\ j \notin 1..m
    <3>1. p[i] \in 1..(n - 1) /\ p[j] = n
      BY <1>3, <1>4, <1>6, <2>2
    <3> QED BY <1>0, <3>1
  <2>3. CASE i \notin 1..m /\ j \notin 1..m
    <3>1. p[i] = n /\ p[j] = n /\ q[i] = i - m /\ q[j] = j - m
      BY <1>4, <2>3
    <3> QED BY <1>2, <1>8, <2>0, <3>1
  <2>4. CASE i \notin 1..m /\ j \in 1..m
    <3>1. i > m /\ j <= m
      BY <1>2, <1>4, <2>4
    <3> QED BY <1>2, <1>8, <2>0, <3>1
  <2> QED BY <2>1, <2>2, <2>3, <2>4
<1>9. ASSUME NEW k \in 1..n, NEW l \in DOMAIN ss[k]
      PROVE  \E i \in DOMAIN d : p[i] = k /\ q[i] = l
  <2>1. CASE k = n
    <3>1. l \in 1..Len(t)
      BY <1>2, <1>9, <2>1 DEF t
    <3>2. m + l \in DOMAIN d \ (1..m) /\ (m + l) - m = l
      BY <1>5, <3>1
    <3>3. p[m + l] = k /\ q[m + l] = l
      BY <1>4, <2>1, <3>2
    <3> QED BY <3>2, <3>3
  <2>2. CASE k # n
    <3>1. k \in 1..(n - 1)
      BY <1>0, <2>2
    <3>2. PICK i \in 1..m : part[i] = k /\ place[i] = l
      BY <1>6, <3>1
    <3> QED BY <1>3, <3>2
  <2> QED BY <2>1, <2>2
<1>10. Laid(d, ss, n, p, q)
  BY <1>7, <1>8, <1>9 DEF Laid
<1> QED BY <1>2, <1>10 DEF d, t

\* The sequences joined so far, one by one.
Joined(ss) ==
  LET acc[n \in 0..Len(ss)] == IF n = 0 THEN <<>> ELSE acc[n - 1] \o ss[n]
  IN  acc

\* Concat goes on from what it has joined before.
LEMMA ConcatEquation ==
  ASSUME NEW S, NEW ss \in Seq(Seq(S))
  PROVE  /\ Concat(ss) = Joined(ss)[Len(ss)]
         /\ Joined(ss)[0] = <<>>
         /\ \A n \in 1..Len(ss) : Joined(ss)[n] = Joined(ss)[n - 1] \o ss[n]
<1> DEFINE L == Len(ss)
           Round == [n \in 1..L |-> [x \in Seq(S) |-> x \o ss[n]]]
           a == <<>>
<1>0. L \in Nat /\ a \in Seq(S)
  OBVIOUS
<1>1. \A n \in 1..L : \A x \in Seq(S) : Round[n][x] = x \o ss[n] /\ x \o ss[n] \in Seq(S)
  <2>1. \A n \in 1..L : ss[n] \in Seq(S)
    OBVIOUS
  <2> QED BY <2>1
<1> HIDE DEF L, Round, a
<1>2. PICK f : Course(f, L, a, Round)
  BY <1>0, StepsExist
<1>3. \A n \in 1..L : \A x \in Seq(S) : Round[n][x] \in Seq(S)
  BY <1>1
<1>4. \A n \in 0..L : f[n] \in Seq(S)
  BY <1>0, <1>2, <1>3, StepsTyped
<1>5. \A n \in 0..L : n # 0 => n \in 1..L /\ n - 1 \in 0..L
  BY <1>0
<1>6. \A n \in 0..L : f[n] = IF n = 0 THEN a ELSE f[n - 1] \o ss[n]
  BY <1>1, <1>2, <1>4, <1>5 DEF Course
<1>7. f = [n \in 0..L |-> IF n = 0 THEN a ELSE f[n - 1] \o ss[n]]
  BY <1>2, <1>6 DEF Course
<1>8. \E g : g = [n \in 0..L |-> IF n = 0 THEN a ELSE g[n - 1] \o ss[n]]
  BY <1>7
<1>9. Joined(ss) = [n \in 0..L |-> IF n = 0 THEN a ELSE Joined(ss)[n - 1] \o ss[n]]
  BY <1>8 DEF Joined, L, a
<1>10. Concat(ss) = Joined(ss)[Len(ss)]
  BY DEF Concat, Joined
<1> DEFINE g == Joined(ss)
<1> HIDE DEF g
<1>11. \A n \in 0..L : g[n] = IF n = 0 THEN a ELSE g[n - 1] \o ss[n]
  BY <1>9 DEF g
<1>12. g[0] = a
  <2>1. 0 \in 0..L
    BY <1>0
  <2> QED BY <1>11, <2>1
<1>13. \A n \in 1..L : g[n] = g[n - 1] \o ss[n]
  <2>1. \A n \in 1..L : n \in 0..L /\ n # 0
    BY <1>0
  <2> QED BY <1>11, <2>1
<1> QED BY <1>10, <1>12, <1>13 DEF g, L, a

\* Concat lays the sequences one behind the other.
LEMMA ConcatLays ==
  ASSUME NEW S, NEW ss \in Seq(Seq(S))
  PROVE  /\ Concat(ss) \in Seq(S)
         /\ \E part, place : Laid(Concat(ss), ss, Len(ss), part, place)
<1> DEFINE L == Len(ss)
           g == Joined(ss)
           Good(n) == g[n] \in Seq(S) /\ \E p, q : Laid(g[n], ss, n, p, q)
           Bad == {n \in 0..L : ~Good(n)}
<1>0. L \in Nat
  OBVIOUS
<1>1. Concat(ss) = g[L] /\ g[0] = <<>> /\ \A n \in 1..L : g[n] = g[n - 1] \o ss[n]
  BY ConcatEquation
<1> HIDE DEF g
<1>2. Good(0)
  <2>1. DOMAIN g[0] = {} /\ g[0] \in Seq(S)
    BY <1>1
  <2>2. 1..0 = {}
    OBVIOUS
  <2>3. Laid(g[0], ss, 0, <<>>, <<>>)
    BY <2>1, <2>2 DEF Laid
  <2> QED BY <2>1, <2>3
<1>3. ASSUME NEW n \in 1..L, Good(n - 1)
      PROVE  Good(n)
  <2>1. PICK p, q : Laid(g[n - 1], ss, n - 1, p, q)
    BY <1>3
  <2> DEFINE c == g[n - 1]
  <2>2. c \in Seq(S)
    BY <1>3
  <2>3. g[n] = c \o ss[n]
    BY <1>1
  <2> HIDE DEF c
  <2>4. /\ c \o ss[n] \in Seq(S)
        /\ \E r, s : Laid(c \o ss[n], ss, n, r, s)
    BY <2>1, <2>2, LaidMore DEF c, L
  <2> QED BY <2>3, <2>4
<1>4. ASSUME Bad # {}
      PROVE  FALSE
  <2>1. Bad \subseteq Nat
    BY <1>0
  <2> HIDE DEF Bad, Good
  <2>2. PICK m \in Bad : \A y \in Bad : m <= y
    BY <1>4, <2>1, LeastNumber, Zenon
  <2>3. m \in 0..L /\ ~Good(m)
    BY <2>2 DEF Bad
  <2>4. m # 0
    BY <1>2, <2>3
  <2>5. m - 1 \in 0..L /\ ~(m <= m - 1) /\ m \in 1..L
    BY <1>0, <2>3, <2>4
  <2>6. Good(m - 1)
    BY <2>2, <2>5 DEF Bad
  <2> QED BY <1>3, <2>3, <2>5, <2>6
<1>5. Good(L)
  <2>1. L \in 0..L
    BY <1>0
  <2> HIDE DEF Good
  <2> QED BY <1>4, <2>1
<1> QED BY <1>1, <1>5

\* Joining runs that follow each other.
LEMMA ConcatOfRuns ==
  ASSUME NEW ss \in Runs
  PROVE  /\ Concat(ss) \in Seq(Records)
         /\ SeqSet(Concat(ss)) = All(ss)
         /\ /\ \A k \in DOMAIN ss : Ordered(ss[k])
            /\ \A k, l \in DOMAIN ss : k < l =>
                 \A x \in SeqSet(ss[k]), y \in SeqSet(ss[l]) : ~Before(y, x)
            => Ordered(Concat(ss))
         /\ Apart(ss) => Once(Concat(ss))
<1> DEFINE c == Concat(ss)
           L == Len(ss)
<1>1. c \in Seq(Records) /\ \E part, place : Laid(c, ss, L, part, place)
  BY ConcatLays DEF Runs
<1>2. PICK part, place : Laid(c, ss, L, part, place)
  BY <1>1
<1>3. L \in Nat /\ DOMAIN ss = 1..L
  BY PlaceFacts
<1>4. DOMAIN c \subseteq Int
  BY <1>1
<1> HIDE DEF c, L
<1>5. \A i \in DOMAIN c : /\ part[i] \in DOMAIN ss /\ place[i] \in DOMAIN ss[part[i]]
                          /\ c[i] = ss[part[i]][place[i]]
  BY <1>2, <1>3 DEF Laid
<1>6. \A i, j \in DOMAIN c : i < j =>
        part[i] < part[j] \/ (part[i] = part[j] /\ place[i] < place[j])
  BY <1>2 DEF Laid
<1>7. \A k \in DOMAIN ss : \A l \in DOMAIN ss[k] : \E i \in DOMAIN c : part[i] = k /\ place[i] = l
  BY <1>2, <1>3 DEF Laid
<1>8. \A k \in DOMAIN ss : DOMAIN ss[k] = 1..Len(ss[k]) /\ Len(ss[k]) \in Nat
  BY PlaceFacts
<1>9. SeqSet(c) = All(ss)
  <2>1. ASSUME NEW i \in DOMAIN c
        PROVE  c[i] \in All(ss)
    <3>1. <<part[i], place[i]>> \in Places(ss)
      BY <1>5, PlaceFacts
    <3> QED BY <1>5, <3>1 DEF All, AtPlace
  <2>2. ASSUME NEW x \in Places(ss)
        PROVE  AtPlace(ss, x) \in SeqSet(c)
    <3>1. x[1] \in DOMAIN ss /\ x[2] \in DOMAIN ss[x[1]]
      BY PlaceFacts
    <3>2. PICK i \in DOMAIN c : part[i] = x[1] /\ place[i] = x[2]
      BY <1>7, <3>1
    <3>3. c[i] = AtPlace(ss, x)
      BY <1>5, <3>2 DEF AtPlace
    <3> QED BY <3>3 DEF SeqSet
  <2> QED BY <2>1, <2>2 DEF SeqSet, All
<1>10. ASSUME \A k \in DOMAIN ss : Ordered(ss[k]),
              \A k, l \in DOMAIN ss : k < l =>
                \A x \in SeqSet(ss[k]), y \in SeqSet(ss[l]) : ~Before(y, x)
       PROVE  Ordered(c)
  <2> SUFFICES ASSUME NEW i \in DOMAIN c, NEW j \in DOMAIN c, i < j
               PROVE  ~Before(c[j], c[i])
    BY DEF Ordered
  <2> DEFINE k == part[i]
             l == part[j]
             s == ss[k]
             t == ss[l]
  <2>1. k \in DOMAIN ss /\ l \in DOMAIN ss /\ place[i] \in DOMAIN s /\ place[j] \in DOMAIN t
        /\ c[i] = s[place[i]] /\ c[j] = t[place[j]]
    BY <1>5
  <2>2. k < l \/ (k = l /\ place[i] < place[j])
    BY <1>6
  <2> HIDE DEF k, l
  <2>3. CASE k < l
    <3>1. c[i] \in SeqSet(s) /\ c[j] \in SeqSet(t)
      BY <2>1 DEF SeqSet
    <3> QED BY <1>10, <2>1, <2>3, <3>1
  <2>4. CASE k = l /\ place[i] < place[j]
    <3>1. Ordered(s)
      BY <1>10, <2>1
    <3> HIDE DEF s
    <3> QED BY <2>1, <2>4, <3>1 DEF Ordered, s
  <2> QED BY <2>2, <2>3, <2>4
<1>11. ASSUME Apart(ss)
       PROVE  Once(c)
  <2> SUFFICES ASSUME NEW i \in DOMAIN c, NEW j \in DOMAIN c, c[i] = c[j]
               PROVE  i = j
    BY DEF Once
  <2> DEFINE x == <<part[i], place[i]>>
             y == <<part[j], place[j]>>
  <2>1. x \in Places(ss) /\ y \in Places(ss)
    BY <1>5, PlaceFacts
  <2>2. AtPlace(ss, x) = AtPlace(ss, y)
    BY <1>5 DEF AtPlace
  <2>3. x = y
    BY <1>11, <2>1, <2>2 DEF Apart
  <2>4. part[i] = part[j] /\ place[i] = place[j]
    BY <2>3
  <2>5. part[i] \in Int /\ place[i] \in Int
    BY <1>3, <1>5, <1>8
  <2>6. ~(i < j) /\ ~(j < i)
    BY <1>6, <2>4, <2>5
  <2> QED BY <1>4, <2>6
<1> QED BY <1>1, <1>9, <1>10, <1>11 DEF c

-----------------------------------------------------------------------------
(***************************************************************************)
(* Combining the chunks of a span.                                         *)
(***************************************************************************)
\* The reader that combiner.Read would take of the first k.
BestOf(runs) ==
  LET idx[k \in 0..Len(runs)] ==
        IF k = 0 THEN 0
        ELSE IF runs[k] # <<>> /\ (idx[k - 1] = 0 \/ RecordCompare(runs[k][1], runs[idx[k - 1]][1])) THEN k ELSE idx[k - 1]
  IN idx

\* It looks at one more reader at a time.
LEMMA BestEquation ==
  ASSUME NEW runs \in Runs
  PROVE  LET idx == BestOf(runs) IN
         /\ Idx(runs) = idx[Len(runs)]
         /\ idx[0] = 0
         /\ \A k \in 1..Len(runs) :
              idx[k] = IF runs[k] # <<>> /\ (idx[k - 1] = 0 \/ RecordCompare(runs[k][1], runs[idx[k - 1]][1]))
                       THEN k ELSE idx[k - 1]
<1> DEFINE L == Len(runs)
           Takes(k, x) == runs[k] # <<>> /\ (x = 0 \/ RecordCompare(runs[k][1], runs[x][1]))
           Round == [k \in 1..L |-> [x \in 0..L |-> IF Takes(k, x) THEN k ELSE x]]
<1>0. L \in Nat /\ 0 \in 0..L
  BY PlaceFacts
<1> HIDE DEF Takes
<1>1. \A k \in 1..L : \A x \in 0..L : Round[k][x] = IF Takes(k, x) THEN k ELSE x
  OBVIOUS
<1>2. \A k \in 1..L : k \in 0..L
  BY <1>0
<1> HIDE DEF L, Round
<1>3. PICK f : Course(f, L, 0, Round)
  BY <1>0, StepsExist
<1>4. \A k \in 1..L : \A x \in 0..L : Round[k][x] \in 0..L
  BY <1>1, <1>2
<1> DEFINE D == 0..L
<1>5. \A k \in D : f[k] \in D
  <2>1. 0 \in D /\ \A k \in 1..L : \A x \in D : Round[k][x] \in D
    BY <1>0, <1>4
  <2> HIDE DEF D
  <2>2. \A k \in 0..L : f[k] \in D
    BY <1>0, <1>3, <2>1, StepsTyped
  <2> QED BY <2>2 DEF D
<1>6. \A k \in 0..L : k # 0 => k \in 1..L /\ k - 1 \in 0..L
  BY <1>0
<1>7. \A k \in 0..L : f[k] = IF k = 0 THEN 0 ELSE IF Takes(k, f[k - 1]) THEN k ELSE f[k - 1]
  BY <1>1, <1>3, <1>5, <1>6 DEF Course
<1>8. f = [k \in 0..L |-> IF k = 0 THEN 0 ELSE IF Takes(k, f[k - 1]) THEN k ELSE f[k - 1]]
  BY <1>3, <1>7 DEF Course
<1>9. \E g : g = [k \in 0..L |-> IF k = 0 THEN 0 ELSE IF Takes(k, g[k - 1]) THEN k ELSE g[k - 1]]
  BY <1>8
<1> DEFINE g == BestOf(runs)
<1>10. g = [k \in 0..L |-> IF k = 0 THEN 0 ELSE IF Takes(k, g[k - 1]) THEN k ELSE g[k - 1]]
  BY <1>9 DEF BestOf, Takes, L
<1>11. Idx(runs) = g[Len(runs)]
  BY DEF Idx, BestOf
<1> HIDE DEF g
<1>12. g[0] = 0
  BY <1>0, <1>10
<1>13. \A k \in 1..L : g[k] = IF Takes(k, g[k - 1]) THEN k ELSE g[k - 1]
  <2>1. \A k \in 1..L : k \in 0..L /\ k # 0
    BY <1>0
  <2> QED BY <1>10, <2>1
<1> QED BY <1>11, <1>12, <1>13 DEF g, L, Takes

\* The reader that combiner.Read takes has a record as long as one has, and no
\* record at the head of another goes before it.
LEMMA IdxIsFirst ==
  ASSUME NEW runs \in Runs, Heads(runs) # {}
  PROVE  /\ Idx(runs) \in Heads(runs)
         /\ \A j \in Heads(runs) : ~Before(runs[j][1], runs[Idx(runs)][1])
<1> DEFINE g == BestOf(runs)
           L == Len(runs)
           Best(k, b) ==
             IF b = 0 THEN \A j \in 1..k : runs[j] = <<>>
             ELSE /\ b \in 1..k /\ runs[b] # <<>>
                  /\ \A j \in 1..k : runs[j] # <<>> => ~Before(runs[j][1], runs[b][1])
           Good(k) == Best(k, g[k])
           Bad == {k \in 0..L : ~Good(k)}
<1>0. L \in Nat /\ DOMAIN runs = 1..L
  BY PlaceFacts
<1>1. \A j \in 1..L : runs[j] # <<>> => runs[j][1] \in Records
  <2> SUFFICES ASSUME NEW j \in 1..L, runs[j] # <<>>
               PROVE  runs[j][1] \in Records
    OBVIOUS
  <2>1. runs[j] \in Seq(Records)
    BY <1>0, PlaceFacts
  <2> QED BY <2>1
<1>2. /\ Idx(runs) = g[L]
      /\ g[0] = 0
      /\ \A k \in 1..L :
           g[k] = IF runs[k] # <<>> /\ (g[k - 1] = 0 \/ RecordCompare(runs[k][1], runs[g[k - 1]][1]))
                  THEN k ELSE g[k - 1]
  BY BestEquation
<1> HIDE DEF g
<1>3. ASSUME NEW a \in Records, NEW b \in Records
      PROVE  /\ RecordCompare(a, b) => ~Before(b, a)
             /\ ~RecordCompare(a, b) => ~Before(a, b)
             /\ ~Before(a, a)
  <2>1. Ts(a) \in Int /\ Ts(b) \in Int
    BY BeforeOrders
  <2> QED BY <2>1 DEF RecordCompare, Before
<1>4. Good(0)
  <2>1. 1..0 = {}
    OBVIOUS
  <2> QED BY <1>2, <2>1
<1>5. ASSUME NEW k \in 1..L, Good(k - 1)
      PROVE  Good(k)
  <2> DEFINE b == g[k - 1]
             Takes == runs[k] # <<>> /\ (b = 0 \/ RecordCompare(runs[k][1], runs[b][1]))
  <2>1. g[k] = IF Takes THEN k ELSE b
    BY <1>2
  <2>2. Best(k - 1, b)
    BY <1>5
  <2>3. k \in Nat /\ k # 0 /\ \A j \in 1..k : j = k \/ j \in 1..(k - 1)
    BY <1>0
  <2>4. k \in 1..k /\ \A j \in 1..(k - 1) : j \in 1..k /\ j \in 1..L
    BY <1>0
  <2> HIDE DEF b
  <2>5. CASE Takes
    <3>1. runs[k][1] \in Records
      BY <1>1, <2>5
    <3>2. ASSUME NEW j \in 1..k, runs[j] # <<>>
          PROVE  ~Before(runs[j][1], runs[k][1])
      <4>1. CASE j = k
        BY <1>3, <3>1, <4>1
      <4>2. CASE j # k
        <5>1. j \in 1..(k - 1) /\ j \in 1..L
          BY <2>3, <2>4, <4>2
        <5>2. b # 0 /\ b \in 1..(k - 1) /\ b \in 1..L /\ runs[b] # <<>> /\ ~Before(runs[j][1], runs[b][1])
          BY <2>2, <2>4, <3>2, <5>1
        <5>3. runs[j][1] \in Records /\ runs[b][1] \in Records
          BY <1>1, <3>2, <5>1, <5>2
        <5>4. ~Before(runs[b][1], runs[k][1])
          BY <1>3, <2>5, <3>1, <5>2, <5>3
        <5> QED BY <3>1, <5>2, <5>3, <5>4, BeforeOrders
      <4> QED BY <4>1, <4>2
    <3>3. g[k] = k
      BY <2>1, <2>5
    <3> QED BY <2>3, <2>4, <2>5, <3>2, <3>3
  <2>6. CASE ~Takes
    <3>1. g[k] = b
      BY <2>1, <2>6
    <3>2. CASE b = 0
      <4>1. runs[k] = <<>>
        BY <2>6, <3>2
      <4> QED BY <2>2, <2>3, <3>1, <3>2, <4>1
    <3>3. CASE b # 0
      <4>1. b \in 1..k /\ b \in 1..L /\ runs[b] # <<>>
        BY <2>2, <2>4, <3>3
      <4>2. ASSUME NEW j \in 1..k, runs[j] # <<>>
            PROVE  ~Before(runs[j][1], runs[b][1])
        <5>1. CASE j = k
          <6>1. runs[k][1] \in Records /\ runs[b][1] \in Records
            BY <1>1, <4>1, <4>2, <5>1
          <6>2. ~RecordCompare(runs[k][1], runs[b][1])
            BY <2>6, <4>2, <5>1
          <6> QED BY <1>3, <5>1, <6>1, <6>2
        <5>2. CASE j # k
          BY <2>2, <2>3, <3>3, <4>2, <5>2
        <5> QED BY <5>1, <5>2
      <4> QED BY <3>1, <3>3, <4>1, <4>2
    <3> QED BY <3>2, <3>3
  <2> QED BY <2>5, <2>6
<1>6. ASSUME Bad # {}
      PROVE  FALSE
  <2>1. Bad \subseteq Nat
    BY <1>0
  <2> HIDE DEF Bad, Good
  <2>2. PICK m \in Bad : \A y \in Bad : m <= y
    BY <1>6, <2>1, LeastNumber, Zenon
  <2>3. m \in 0..L /\ ~Good(m)
    BY <2>2 DEF Bad
  <2>4. m # 0
    BY <1>4, <2>3
  <2>5. m - 1 \in 0..L /\ ~(m <= m - 1) /\ m \in 1..L
    BY <1>0, <2>3, <2>4
  <2>6. Good(m - 1)
    BY <2>2, <2>5 DEF Bad
  <2> QED BY <1>5, <2>3, <2>5, <2>6
<1>7. Good(L)
  <2>1. L \in 0..L
    BY <1>0
  <2> HIDE DEF Good
  <2> QED BY <1>6, <2>1
<1>8. \A j \in 1..L : j \in Heads(runs) <=> runs[j] # <<>>
  <2> SUFFICES ASSUME NEW j \in 1..L
               PROVE  j \in Heads(runs) <=> runs[j] # <<>>
    OBVIOUS
  <2>1. runs[j] \in Seq(Records)
    BY <1>0, PlaceFacts
  <2>2. Len(runs[j]) \in Nat /\ (Len(runs[j]) = 0 <=> runs[j] = <<>>)
    BY <2>1, RunFacts
  <2> QED BY <1>0, <2>2 DEF Heads
<1>9. Heads(runs) \subseteq 1..L
  BY <1>0 DEF Heads
<1> DEFINE b == g[L]
<1> HIDE DEF b
<1>10. Best(L, b)
  BY <1>7 DEF b
<1>11. b # 0
  BY <1>8, <1>9, <1>10
<1> QED BY <1>2, <1>8, <1>9, <1>10, <1>11 DEF b

\* combiner.Read moves a head that no other one goes before.
LEMMA CombineReads ==
  ASSUME NEW m \in Merging, Heads(m.runs) # {}
  PROVE  Moves(m, CombineNext[m])
<1>1. m.runs \in Runs
  BY DEF Merging, Runs
<1>2. /\ Idx(m.runs) \in Heads(m.runs)
      /\ \A j \in Heads(m.runs) : ~Before(m.runs[j][1], m.runs[Idx(m.runs)][1])
  BY <1>1, IdxIsFirst
<1> DEFINE k == Idx(m.runs)
<1>3. CombineNext[m] = [runs |-> [m.runs EXCEPT ![k] = Tail(@)], out |-> Append(m.out, m.runs[k][1])]
  BY DEF CombineNext
<1> HIDE DEF k
<1> QED BY <1>2, <1>3 DEF Moves, k

\* The state after n reads is that after n - 1, and one read more.
LEMMA CombinedEquation ==
  ASSUME NEW runs \in Runs
  PROVE  Combined(runs) =
           [n \in 0..Cardinality(Places(runs)) |->
              IF n = 0 THEN [runs |-> runs, out |-> <<>>] ELSE CombineNext[Combined(runs)[n - 1]]]
<1> DEFINE a == [runs |-> runs, out |-> <<>>]
           L == Cardinality(Places(runs))
           Round == [n \in 1..L |-> CombineNext]
<1>0. L \in Nat
  BY PlaceFacts, FS_CardinalityType
<1>1. PICK f : Course(f, L, a, Round)
  <2> HIDE DEF a, L, Round
  <2> QED BY <1>0, StepsExist
<1>2. \A n \in 1..L : f[n] = CombineNext[f[n - 1]]
  BY <1>1 DEF Course
<1>3. f = [n \in 0..L |-> IF n = 0 THEN a ELSE CombineNext[f[n - 1]]]
  <2> HIDE DEF a, L, Round
  <2>1. \A n \in 0..L : f[n] = IF n = 0 THEN a ELSE CombineNext[f[n - 1]]
    <3>1. \A n \in 0..L : n # 0 => n \in 1..L
      BY <1>0
    <3> QED BY <1>1, <1>2, <3>1 DEF Course
  <2> QED BY <1>1, <2>1 DEF Course
<1>4. \E g : g = [n \in 0..L |-> IF n = 0 THEN a ELSE CombineNext[g[n - 1]]]
  BY <1>3
<1> QED BY <1>4 DEF Combined

\* A combiner gives the records of sorted readers, once and in order.
LEMMA CombineKeeps ==
  ASSUME NEW runs \in Runs, \A k \in DOMAIN runs : Ordered(runs[k])
  PROVE  /\ Combine(runs) \in Seq(Records)
         /\ Ordered(Combine(runs))
         /\ SeqSet(Combine(runs)) = All(runs)
         /\ Apart(runs) => Once(Combine(runs))
<1> DEFINE R == Combined(runs)
           L == Cardinality(Places(runs))
<1>0. L \in Nat
  BY PlaceFacts, FS_CardinalityType
<1> HIDE DEF R, L
<1>1. R = [n \in 0..L |-> IF n = 0 THEN [runs |-> runs, out |-> <<>>] ELSE CombineNext[R[n - 1]]]
  BY CombinedEquation DEF R, L
<1>2. R[0] = [runs |-> runs, out |-> <<>>]
  <2>1. 0 \in 0..L
    BY <1>0
  <2> QED BY <1>1, <2>1
<1>3. ASSUME NEW n \in 1..L, R[n - 1] \in Merging, Heads(R[n - 1].runs) # {}
      PROVE  Moves(R[n - 1], R[n])
  <2>1. R[n] = CombineNext[R[n - 1]]
    <3>1. n \in 0..L /\ n # 0
      BY <1>0
    <3> QED BY <1>1, <3>1
  <2> QED BY <1>3, <2>1, CombineReads
<1>4. \A n \in 1..L : R[n - 1] \in Merging /\ Heads(R[n - 1].runs) # {} => Moves(R[n - 1], R[n])
  BY <1>3
<1>5. Combine(runs) = R[L].out
  BY DEF Combine, R, L
<1> QED BY <1>2, <1>4, <1>5, AllRead DEF L

-----------------------------------------------------------------------------
(***************************************************************************)
(* Scanning a span.                                                        *)
(***************************************************************************)
At(span, t) == span[1] <= t /\ t <= span[2]
Within(span, r) == At(span, Ts(r))
Piece(span, r) == IF Within(span, r) THEN <<r>> ELSE <<>>

\* A record is kept, alone, or dropped.
LEMMA PieceFacts ==
  ASSUME NEW r \in Records, NEW span
  PROVE  /\ Piece(span, r) \in Seq(Records)
         /\ Ordered(Piece(span, r))
         /\ \A i \in DOMAIN Piece(span, r) : i = 1 /\ Piece(span, r)[i] = r /\ Within(span, r)
         /\ Within(span, r) => 1 \in DOMAIN Piece(span, r)
<1>1. CASE Within(span, r)
  <2>1. Piece(span, r) = <<r>>
    BY <1>1 DEF Piece
  <2>2. /\ <<r>> \in Seq(Records) /\ DOMAIN <<r>> = {1} /\ <<r>>[1] = r
    OBVIOUS
  <2> QED BY <1>1, <2>1, <2>2 DEF Ordered
<1>2. CASE ~Within(span, r)
  <2>1. Piece(span, r) = <<>>
    BY <1>2 DEF Piece
  <2>2. <<>> \in Seq(Records) /\ DOMAIN <<>> = {}
    OBVIOUS
  <2> QED BY <1>2, <2>1, <2>2 DEF Ordered
<1> QED BY <1>1, <1>2

\* The scanner of one chunk gives its records of the span, as they are ordered there.
LEMMA InSpanKeeps ==
  ASSUME NEW s \in Seq(Records), NEW span
  PROVE  /\ InSpan(span, s) \in Seq(Records)
         /\ SeqSet(InSpan(span, s)) = {r \in SeqSet(s) : Within(span, r)}
         /\ Ordered(s) => Ordered(InSpan(span, s))
         /\ Once(s) => Once(InSpan(span, s))
<1> DEFINE D == DOMAIN s
           ss == [k \in D |-> Piece(span, s[k])]
<1>1. D = 1..Len(s) /\ Len(s) \in Nat /\ \A k \in D : s[k] \in Records
  BY RunFacts
<1>2. InSpan(span, s) = Concat(ss)
  BY DEF InSpan, Piece, Within, At
<1>3. DOMAIN ss = D /\ \A k \in D : ss[k] = Piece(span, s[k])
  OBVIOUS
<1>4. ss \in Runs
  <2>1. \A k \in D : Piece(span, s[k]) \in Seq(Records)
    BY <1>1, PieceFacts
  <2> DEFINE n == Len(s)
  <2>2. ss \in [1..n -> Seq(Records)]
    <3> HIDE DEF D, n
    <3>1. \A k \in D : Piece(span, s[k]) \in Seq(Records)
      BY <2>1
    <3>2. D = 1..n
      BY <1>1 DEF n
    <3> QED BY <3>1, <3>2
  <2>3. n \in Nat
    BY <1>1
  <2> HIDE DEF ss, n
  <2> QED BY <2>2, <2>3, IsASeq DEF Runs
<1> HIDE DEF ss, D
<1>5. \A k \in D : \A i \in DOMAIN ss[k] : i = 1 /\ ss[k][i] = s[k] /\ Within(span, s[k])
  BY <1>1, <1>3, PieceFacts
<1>6. \A k \in D : Within(span, s[k]) => 1 \in DOMAIN ss[k]
  BY <1>1, <1>3, PieceFacts
<1>7. All(ss) = {r \in SeqSet(s) : Within(span, r)}
  <2>1. ASSUME NEW x \in Places(ss)
        PROVE  AtPlace(ss, x) \in SeqSet(s) /\ Within(span, AtPlace(ss, x))
    <3>1. x[1] \in D /\ x[2] \in DOMAIN ss[x[1]]
      BY <1>3, <1>4, PlaceFacts
    <3>2. AtPlace(ss, x) = s[x[1]] /\ Within(span, s[x[1]])
      BY <1>5, <3>1 DEF AtPlace
    <3> QED BY <3>1, <3>2 DEF SeqSet, D
  <2>2. ASSUME NEW k \in D, Within(span, s[k])
        PROVE  s[k] \in All(ss)
    <3>1. 1 \in DOMAIN ss[k] /\ ss[k][1] = s[k]
      BY <1>5, <1>6, <2>2
    <3> DEFINE x == <<k, 1>>
    <3>2. x \in Places(ss)
      BY <1>3, <1>4, <3>1, PlaceFacts
    <3>3. AtPlace(ss, x) = s[k]
      BY <3>1 DEF AtPlace
    <3> HIDE DEF x
    <3> QED BY <3>2, <3>3 DEF All
  <2> QED BY <2>1, <2>2 DEF All, SeqSet, D
<1>8. ASSUME Ordered(s)
      PROVE  Ordered(Concat(ss))
  <2>1. \A k \in D : Ordered(ss[k])
    BY <1>1, <1>3, PieceFacts
  <2>2. ASSUME NEW k \in D, NEW l \in D, k < l, NEW x \in SeqSet(ss[k]), NEW y \in SeqSet(ss[l])
        PROVE  ~Before(y, x)
    <3>1. x = s[k] /\ y = s[l]
      BY <1>5 DEF SeqSet
    <3> QED BY <1>8, <2>2, <3>1 DEF Ordered, D
  <2> QED BY <1>3, <1>4, <2>1, <2>2, ConcatOfRuns
<1>9. ASSUME Once(s)
      PROVE  Once(Concat(ss))
  <2>1. ASSUME NEW x \in Places(ss), NEW y \in Places(ss), AtPlace(ss, x) = AtPlace(ss, y)
        PROVE  x = y
    <3>1. /\ x[1] \in D /\ x[2] \in DOMAIN ss[x[1]] /\ x = <<x[1], x[2]>>
          /\ y[1] \in D /\ y[2] \in DOMAIN ss[y[1]] /\ y = <<y[1], y[2]>>
      BY <1>3, <1>4, PlaceFacts
    <3>2. x[2] = 1 /\ y[2] = 1 /\ s[x[1]] = s[y[1]]
      BY <1>5, <2>1, <3>1 DEF AtPlace
    <3>3. x[1] = y[1]
      BY <1>9, <3>1, <3>2 DEF Once, D
    <3> QED BY <3>1, <3>2, <3>3
  <2>2. Apart(ss)
    BY <2>1 DEF Apart
  <2> QED BY <1>4, <2>2, ConcatOfRuns
<1> QED BY <1>2, <1>4, <1>7, <1>8, <1>9, ConcatOfRuns

\* Some sequence names every member of a finite set, and the one chosen none twice.
Listing(S) == CHOOSE s \in [1..Cardinality(S) -> S] : SeqSet(s) = S
LEMMA SomeOrder ==
  ASSUME NEW S, IsFiniteSet(S)
  PROVE  /\ Listing(S) \in [1..Cardinality(S) -> S]
         /\ \A x \in S : \E k \in 1..Cardinality(S) : Listing(S)[k] = x
         /\ \A k, l \in 1..Cardinality(S) : Listing(S)[k] = Listing(S)[l] => k = l
<1> DEFINE n == Cardinality(S)
           D == 1..n
           order == Listing(S)
<1>1. n \in Nat /\ ExistsBijection(D, S)
  BY FS_CardinalityType
<1>2. IsFiniteSet(D) /\ Cardinality(D) = n
  <2> HIDE DEF n
  <2> QED BY <1>1, FS_Interval
<1> HIDE DEF D, n
<1>3. PICK f : f \in Bijection(D, S)
  BY <1>1 DEF ExistsBijection
<1>4. f \in [D -> S] /\ \A x \in S : \E k \in D : f[k] = x
  BY <1>3 DEF Bijection, Surjection
<1>5. SeqSet(f) = S
  BY <1>4 DEF SeqSet
<1>6. order \in [D -> S] /\ SeqSet(order) = S
  BY <1>4, <1>5 DEF Listing, D, n
<1> HIDE DEF order
<1>7. \A x \in S : \E k \in D : order[k] = x
  BY <1>6 DEF SeqSet
<1>8. order \in Surjection(D, S)
  BY <1>6, <1>7 DEF Surjection
<1>9. Cardinality(S) = Cardinality(D)
  BY <1>2 DEF n
<1>10. order \in Injection(D, S)
  BY <1>2, <1>8, <1>9, FS_Surjection
<1>11. \A k, l \in D : order[k] = order[l] => k = l
  BY <1>10 DEF Injection, IsInjective
<1> QED BY <1>6, <1>7, <1>11 DEF order, D, n

\* The records of the chunks of a span that lie in it.
InInfo(info) == {r \in UNION {InFile(c.id) : c \in info.chunks} : Within(info.span, r)}
\* A span scanner gives the records of its chunks that lie in its span, once and in order.
LEMMA SpanScanKeeps ==
  ASSUME FileInv, SeekInv, NEW info, info.chunks \subseteq VisibleChunks
  PROVE  /\ SpanScan(info) \in Seq(Records)
         /\ Ordered(SpanScan(info)) /\ Once(SpanScan(info))
         /\ SeqSet(SpanScan(info)) = InInfo(info)
<1> DEFINE files == {c.id : c \in info.chunks}
           order == Listing(files)
           n == Cardinality(files)
           span == info.span
           runs == [k \in DOMAIN order |-> InSpan(span, data[order[k]].records)]
<1>1. SpanScan(info) = Combine(runs)
  BY DEF SpanScan, Listing
<1>2. \A i \in files : i \in Listed /\ i \in DOMAIN data /\ i \in DOMAIN seekIndex
  BY VisibleFacts DEF Listed
<1>3. IsFiniteSet(files)
  <2>1. PICK m \in Nat : DOMAIN data = 1..m
    BY DEF FileInv
  <2>2. IsFiniteSet(1..m)
    BY <2>1, FS_Interval
  <2>3. files \subseteq 1..m
    BY <1>2, <2>1
  <2> HIDE DEF files
  <2> QED BY <2>2, <2>3, FS_Subset
<1>4. \A i \in files : data[i].records \in Seq(Records) /\ Ordered(data[i].records) /\ Once(data[i].records)
  <2> SUFFICES ASSUME NEW i \in files
               PROVE  data[i].records \in Seq(Records) /\ Ordered(data[i].records) /\ Once(data[i].records)
    OBVIOUS
  <2>1. i \in DOMAIN seekIndex
    BY <1>2
  <2>2. IsContent(seekIndex[i].day, data[i].records)
    BY <2>1 DEF SeekInv
  <2> QED BY <2>2 DEF IsContent
<1> HIDE DEF files
<1>5. /\ order \in [1..n -> files]
      /\ \A x \in files : \E k \in 1..n : order[k] = x
      /\ \A k, l \in 1..n : order[k] = order[l] => k = l
  BY <1>3, SomeOrder
<1>6. n \in Nat
  BY <1>3, FS_CardinalityType
<1> HIDE DEF order, n, span
<1> DEFINE D == DOMAIN order
<1>7. D = 1..n /\ \A k \in D : order[k] \in files
  BY <1>5
<1>8. DOMAIN runs = D /\ \A k \in D : runs[k] = InSpan(span, data[order[k]].records)
  OBVIOUS
<1> HIDE DEF runs, D
<1>9. ASSUME NEW k \in D
      PROVE  /\ runs[k] \in Seq(Records) /\ Ordered(runs[k]) /\ Once(runs[k])
             /\ SeqSet(runs[k]) = {r \in InFile(order[k]) : Within(span, r)}
  <2>1. PICK s : s = data[order[k]].records
    OBVIOUS
  <2>2. s \in Seq(Records) /\ Ordered(s) /\ Once(s) /\ runs[k] = InSpan(span, s) /\ SeqSet(s) = InFile(order[k])
    BY <1>4, <1>7, <1>8, <2>1 DEF InFile
  <2> QED BY <2>2, InSpanKeeps
<1>10. runs \in Runs
  <2>1. runs = [k \in D |-> runs[k]]
    BY <1>8 DEF runs, D
  <2>2. runs \in [1..n -> Seq(Records)]
    BY <1>7, <1>9, <2>1
  <2> QED BY <1>6, <2>2, IsASeq DEF Runs
<1>11. All(runs) = InInfo(info)
  <2>1. ASSUME NEW x \in Places(runs)
        PROVE  AtPlace(runs, x) \in InInfo(info)
    <3>1. x[1] \in D /\ x[2] \in DOMAIN runs[x[1]]
      BY <1>8, <1>10, PlaceFacts
    <3>2. AtPlace(runs, x) \in SeqSet(runs[x[1]])
      BY <3>1 DEF AtPlace, SeqSet
    <3>3. AtPlace(runs, x) \in InFile(order[x[1]]) /\ Within(span, AtPlace(runs, x))
      BY <1>9, <3>1, <3>2
    <3>4. \E c \in info.chunks : order[x[1]] = c.id
      BY <1>7, <3>1 DEF files
    <3> QED BY <3>3, <3>4 DEF InInfo, span
  <2>2. ASSUME NEW r \in InInfo(info)
        PROVE  r \in All(runs)
    <3>1. PICK c \in info.chunks : r \in InFile(c.id) /\ Within(span, r)
      BY DEF InInfo, span
    <3>2. PICK k \in D : order[k] = c.id
      BY <1>5, <1>7, <3>1 DEF files
    <3>3. r \in SeqSet(runs[k])
      BY <1>9, <3>1, <3>2
    <3>4. PICK i \in DOMAIN runs[k] : r = runs[k][i]
      BY <3>3 DEF SeqSet
    <3> DEFINE x == <<k, i>>
    <3>5. x \in Places(runs)
      BY <1>8, <1>10, PlaceFacts
    <3>6. AtPlace(runs, x) = r
      BY <3>4 DEF AtPlace
    <3> HIDE DEF x
    <3> QED BY <3>5, <3>6 DEF All
  <2> QED BY <2>1, <2>2 DEF All
<1>12. Apart(runs)
  <2>1. ASSUME NEW x \in Places(runs), NEW y \in Places(runs), AtPlace(runs, x) = AtPlace(runs, y)
        PROVE  x = y
    <3>1. /\ x[1] \in D /\ x[2] \in DOMAIN runs[x[1]] /\ x = <<x[1], x[2]>>
          /\ y[1] \in D /\ y[2] \in DOMAIN runs[y[1]] /\ y = <<y[1], y[2]>>
      BY <1>8, <1>10, PlaceFacts
    <3> DEFINE r == AtPlace(runs, x)
    <3>2. r \in SeqSet(runs[x[1]]) /\ r \in SeqSet(runs[y[1]])
      BY <2>1, <3>1 DEF AtPlace, SeqSet
    <3> HIDE DEF r
    <3>3. r \in InFile(order[x[1]]) /\ r \in InFile(order[y[1]])
      BY <1>9, <3>1, <3>2
    <3>4. order[x[1]] \in DOMAIN data /\ order[y[1]] \in DOMAIN data
      BY <1>2, <1>7, <3>1
    <3>5. order[x[1]] = order[y[1]]
      BY <3>3, <3>4 DEF FileInv
    <3>6. x[1] = y[1]
      BY <1>5, <1>7, <3>1, <3>5
    <3>7. Once(runs[x[1]])
      BY <1>9, <3>1
    <3>8. x[2] = y[2]
      BY <2>1, <3>1, <3>6, <3>7 DEF Once, AtPlace
    <3> QED BY <3>1, <3>6, <3>8
  <2> QED BY <2>1 DEF Apart
<1>13. \A k \in DOMAIN runs : Ordered(runs[k])
  BY <1>8, <1>9
<1> QED BY <1>1, <1>10, <1>11, <1>12, <1>13, CombineKeeps

-----------------------------------------------------------------------------
(***************************************************************************)
(* The spans of a day.                                                     *)
(***************************************************************************)
\* Positions are timestamps forward or backward, and the neighbours of a
\* timestamp have those next to its own.
LEMMA PosFacts ==
  ASSUME NEW x \in Int, NEW y \in Int
  PROVE  /\ Pos(x) \in Int
         /\ Pos(x) = Pos(y) => x = y
         /\ NextTs(x) \in Int /\ Pos(NextTs(x)) = Pos(x) + 1
         /\ PrevTs(x) \in Int /\ Pos(PrevTs(x)) = Pos(x) - 1
BY DEF Pos, NextTs, PrevTs

\* firstLastToSpan gives what lies between its ends.
LEMMA SpanFacts ==
  ASSUME NEW x \in Int, NEW y \in Int, Pos(x) <= Pos(y)
  PROVE  /\ FirstLastToSpan(x, y) \in Int \X Int
         /\ \A t \in Int : At(FirstLastToSpan(x, y), t) <=> Pos(x) <= Pos(t) /\ Pos(t) <= Pos(y)
BY DEF Pos, FirstLastToSpan, LowTs, HighTs, At

\* Spans have in common what lies in their intersection, and nothing if they do not overlap.
LEMMA IntersectFacts ==
  ASSUME NEW a \in Int \X Int, NEW b \in Int \X Int
  PROVE  /\ Intersect(a, b) \in Int \X Int
         /\ \A t \in Int : At(Intersect(a, b), t) <=> At(a, t) /\ At(b, t)
         /\ \A t \in Int : At(a, t) /\ At(b, t) => Overlaps(a, b)
BY DEF Intersect, LowTs, HighTs, At, Overlaps

\* Spans of some chunks, in the order of the archive and before position p: each lies
\* in the filter and in one of its chunks.
Infos(cs) == [span : Int \X Int, chunks : SUBSET cs]
Covers(c, t) == Pos(c.first) <= Pos(t) /\ Pos(t) <= Pos(c.last)
Found(infos, c, t) == \E i \in DOMAIN infos : c \in infos[i].chunks /\ At(infos[i].span, t)
Sound(info, filter, p) ==
  \A t \in Int : At(info.span, t) => Pos(t) < p /\ At(filter, t) /\ \E c \in info.chunks : Covers(c, t)
Ascending(infos) ==
  \A i, j \in DOMAIN infos : i < j =>
    \A t, u \in Int : At(infos[i].span, t) /\ At(infos[j].span, u) => Pos(t) < Pos(u)
Orderly(infos, cs, filter, p) ==
  /\ infos \in Seq(Infos(cs))
  /\ \A i \in DOMAIN infos : Sound(infos[i], filter, p)
  /\ Ascending(infos)

\* What is before a position is before a later one.
LEMMA OrderlyLater ==
  ASSUME NEW cs, NEW filter, NEW p \in Int, NEW q \in Int, p <= q, NEW infos, Orderly(infos, cs, filter, p)
  PROVE  Orderly(infos, cs, filter, q)
<1>1. ASSUME NEW i \in DOMAIN infos, NEW t \in Int, At(infos[i].span, t)
      PROVE  Pos(t) < q /\ At(filter, t) /\ \E c \in infos[i].chunks : Covers(c, t)
  <2>1. Pos(t) < p /\ At(filter, t) /\ \E c \in infos[i].chunks : Covers(c, t)
    BY <1>1 DEF Orderly, Sound
  <2>2. Pos(t) \in Int
    BY PosFacts
  <2>3. Pos(t) < q
    BY <2>1, <2>2
  <2> QED BY <2>1, <2>3
<1> QED BY <1>1 DEF Orderly, Sound

\* One span more, behind those that are there.
Emit(infos, filter, x, y, open) == infos \o SpanInfoFor(filter, FirstLastToSpan(x, y), open)
LEMMA SpanEmitted ==
  ASSUME NEW cs, NEW filter \in Int \X Int, NEW p \in Int, NEW infos, Orderly(infos, cs, filter, p),
         \A c \in cs : c.first \in Int /\ c.last \in Int,
         NEW x \in Int, NEW y \in Int, p <= Pos(x), Pos(x) <= Pos(y),
         NEW open \in SUBSET cs, \E c \in open : Pos(c.first) <= Pos(x) /\ Pos(y) <= Pos(c.last)
  PROVE  /\ Orderly(Emit(infos, filter, x, y, open), cs, filter, Pos(y) + 1)
         /\ \A c \in cs : \A t \in Int : Found(infos, c, t) => Found(Emit(infos, filter, x, y, open), c, t)
         /\ \A c \in open : \A t \in Int :
              Pos(x) <= Pos(t) /\ Pos(t) <= Pos(y) /\ At(filter, t) => Found(Emit(infos, filter, x, y, open), c, t)
<1> DEFINE span == FirstLastToSpan(x, y)
           info == [span |-> Intersect(filter, span), chunks |-> open]
           n == Len(infos)
           S == Infos(cs)
           more == Emit(infos, filter, x, y, open)
<1>1. /\ span \in Int \X Int
      /\ \A t \in Int : At(span, t) <=> Pos(x) <= Pos(t) /\ Pos(t) <= Pos(y)
  BY SpanFacts
<1>2. SpanInfoFor(filter, span, open) = IF Overlaps(filter, span) THEN <<info>> ELSE <<>>
  BY DEF SpanInfoFor
<1>2a. more = infos \o SpanInfoFor(filter, span, open)
  BY DEF Emit
<1> HIDE DEF span, more
<1>3. /\ info.span \in Int \X Int /\ info.chunks = open /\ info \in S
      /\ \A t \in Int : At(info.span, t) <=> At(filter, t) /\ Pos(x) <= Pos(t) /\ Pos(t) <= Pos(y)
      /\ \A t \in Int : At(filter, t) /\ Pos(x) <= Pos(t) /\ Pos(t) <= Pos(y) => Overlaps(filter, span)
  <2>1. Intersect(filter, span) \in Int \X Int
    BY <1>1, IntersectFacts
  <2>2. info \in S
    BY <2>1 DEF Infos
  <2> QED BY <1>1, <2>1, <2>2, IntersectFacts
<1>4. Pos(x) \in Int /\ Pos(y) \in Int
  BY PosFacts
<1>5. /\ infos \in Seq(S)
      /\ \A i \in DOMAIN infos : Sound(infos[i], filter, p)
      /\ Ascending(infos)
  BY DEF Orderly
<1>6. n \in Nat /\ DOMAIN infos = 1..n
  BY <1>5
<1> HIDE DEF info, S
<1>7. \A i \in DOMAIN infos : Sound(infos[i], filter, Pos(y) + 1)
  <2>1. p <= Pos(y) + 1 /\ Pos(y) + 1 \in Int
    BY <1>4
  <2>2. Orderly(infos, cs, filter, Pos(y) + 1)
    BY <2>1, OrderlyLater
  <2> QED BY <2>2 DEF Orderly
<1>8. CASE ~Overlaps(filter, span)
  <2>1. more = infos
    BY <1>2, <1>2a, <1>5, <1>8, ConcatEmptySeq
  <2>2. Orderly(more, cs, filter, Pos(y) + 1)
    BY <1>5, <1>7, <2>1 DEF Orderly, S
  <2> QED BY <1>3, <1>8, <2>1, <2>2 DEF more
<1>9. CASE Overlaps(filter, span)
  <2>0. more = infos \o <<info>>
    BY <1>2, <1>2a, <1>9
  <2>1. more \in Seq(S) /\ Len(more) = n + 1 /\ DOMAIN more = 1..(n + 1)
        /\ more[n + 1] = info /\ \A i \in DOMAIN infos : more[i] = infos[i]
    BY <1>3, <1>5, <2>0
  <2>2. DOMAIN more = DOMAIN infos \cup {n + 1} /\ n + 1 \notin DOMAIN infos
        /\ \A i \in DOMAIN infos : i < n + 1 /\ ~(n + 1 < i)
    BY <1>6, <2>1
  <2>3. Sound(info, filter, Pos(y) + 1)
    <3> SUFFICES ASSUME NEW t \in Int, At(info.span, t)
                 PROVE  Pos(t) < Pos(y) + 1 /\ At(filter, t) /\ \E c \in info.chunks : Covers(c, t)
      BY DEF Sound
    <3>1. At(filter, t) /\ Pos(x) <= Pos(t) /\ Pos(t) <= Pos(y)
      BY <1>3
    <3>2. PICK c \in open : Pos(c.first) <= Pos(x) /\ Pos(y) <= Pos(c.last)
      OBVIOUS
    <3>3. Pos(c.first) \in Int /\ Pos(c.last) \in Int /\ Pos(t) \in Int
      BY PosFacts
    <3>4. Covers(c, t)
      <4>1. Pos(c.first) <= Pos(t)
        BY <1>4, <3>1, <3>2, <3>3
      <4>2. Pos(t) <= Pos(c.last)
        BY <1>4, <3>1, <3>2, <3>3
      <4> QED BY <4>1, <4>2 DEF Covers
    <3>5. Pos(t) < Pos(y) + 1
      BY <1>4, <3>1, <3>3
    <3> QED BY <1>3, <3>1, <3>4, <3>5
  <2>4. Ascending(more)
    <3> SUFFICES ASSUME NEW i \in DOMAIN more, NEW j \in DOMAIN more, i < j,
                        NEW t \in Int, NEW u \in Int, At(more[i].span, t), At(more[j].span, u)
                 PROVE  Pos(t) < Pos(u)
      BY DEF Ascending
    <3>1. CASE j \in DOMAIN infos
      <4>1. i \in DOMAIN infos
        BY <2>2, <3>1
      <4> QED BY <1>5, <2>1, <3>1, <4>1 DEF Ascending
    <3>2. CASE j = n + 1
      <4>1. i \in DOMAIN infos
        <5>1. i \in 1..(n + 1) /\ i < n + 1
          BY <2>1, <3>2
        <5> QED BY <1>6, <5>1
      <4>2. Pos(t) < p
        BY <1>5, <2>1, <4>1 DEF Sound
      <4>3. Pos(x) <= Pos(u)
        BY <1>3, <2>1, <3>2
      <4>4. Pos(t) \in Int /\ Pos(u) \in Int
        BY PosFacts
      <4> QED BY <1>4, <4>2, <4>3, <4>4
    <3> QED BY <2>2, <3>1, <3>2
  <2>5. Orderly(more, cs, filter, Pos(y) + 1)
    BY <1>7, <2>1, <2>2, <2>3, <2>4 DEF Orderly, S
  <2>6. \A c \in cs : \A t \in Int : Found(infos, c, t) => Found(more, c, t)
    BY <2>1, <2>2 DEF Found
  <2>7. \A c \in open : \A t \in Int :
          Pos(x) <= Pos(t) /\ Pos(t) <= Pos(y) /\ At(filter, t) => Found(more, c, t)
    BY <1>3, <2>1, <2>2 DEF Found
  <2> QED BY <2>5, <2>6, <2>7 DEF more
<1> QED BY <1>8, <1>9 DEF more

\* Chunks as a day has them: each begins before it ends, and none begins right
\* behind another one while a third goes on.
IsDay(cs) ==
  /\ \A c \in cs : c.first \in Int /\ c.last \in Int /\ Pos(c.first) <= Pos(c.last)
  /\ \A a, b, c \in cs :
       Pos(b.first) = Pos(a.last) + 1 => ~(Pos(c.first) <= Pos(a.last) /\ Pos(b.first) <= Pos(c.last))

\* The walk over the boundaries has come to position p: what is open goes on behind it,
\* and what lies before the front has been given to the span it is in.
Front(acc, p) == IF acc.open = {} THEN p + 1 ELSE Pos(acc.first)
Given(infos, cs, filter, q) ==
  \A c \in cs : \A t \in Int : Covers(c, t) /\ At(filter, t) /\ Pos(t) < q => Found(infos, c, t)
Walked(acc, cs, filter, p) ==
  /\ acc.first \in Int
  /\ acc.open = {c \in cs : Pos(c.first) <= p /\ p < Pos(c.last)}
  /\ Front(acc, p) = p \/ Front(acc, p) = p + 1
  /\ Front(acc, p) = p => \A c \in cs : Pos(c.last) # p
  /\ acc.open # {} /\ Front(acc, p) = p + 1 => \E a \in cs : Pos(a.last) = p
  /\ Orderly(acc.infos, cs, filter, Front(acc, p))
  /\ Given(acc.infos, cs, filter, Front(acc, p))

\* b is the boundary that follows position p.
Follows(b, cs, p) ==
  /\ b \in Int /\ p < Pos(b)
  /\ \E c \in cs : c.first = b \/ c.last = b
  /\ \A c \in cs : /\ Pos(c.first) <= p \/ Pos(b) <= Pos(c.first)
                   /\ Pos(c.last) <= p \/ Pos(b) <= Pos(c.last)
Starting(cs, b) == {c \in cs : c.first = b}
OpenAt(acc, cs, b) == acc.open \cup Starting(cs, b)
FirstAt(acc, cs, b) == IF Starting(cs, b) # {} THEN b ELSE acc.first
InfosAt(acc, cs, b, filter) ==
  acc.infos \o (IF Starting(cs, b) # {} /\ acc.open # {}
                THEN SpanInfoFor(filter, FirstLastToSpan(acc.first, PrevTs(b)), acc.open) ELSE <<>>)
\* Up to a boundary at which chunks start, what is open is given.
StartsTaken(infos, first, open, cs, b, filter) ==
  /\ first \in Int /\ Pos(first) <= Pos(b)
  /\ open = {c \in cs : Pos(c.first) <= Pos(b) /\ Pos(b) <= Pos(c.last)}
  /\ open # {}
  /\ \A c \in open : Pos(c.first) <= Pos(first)
  /\ \A c \in cs : \A t \in Int :
       Covers(c, t) /\ Pos(first) <= Pos(t) /\ Pos(t) <= Pos(b) => c \in open
  /\ Orderly(infos, cs, filter, Pos(first)) /\ Given(infos, cs, filter, Pos(first))
LEMMA BeforeBoundary ==
  ASSUME NEW cs, IsDay(cs), NEW filter \in Int \X Int, NEW p \in Int, NEW acc, Walked(acc, cs, filter, p),
         NEW b, Follows(b, cs, p)
  PROVE  StartsTaken(InfosAt(acc, cs, b, filter), FirstAt(acc, cs, b), OpenAt(acc, cs, b), cs, b, filter)
<1> DEFINE q == Front(acc, p)
           r == Pos(b)
           starting == Starting(cs, b)
           infos == InfosAt(acc, cs, b, filter)
           first == FirstAt(acc, cs, b)
           open == OpenAt(acc, cs, b)
<1>a. /\ b \in Int /\ p < Pos(b)
      /\ \E c \in cs : c.first = b \/ c.last = b
      /\ \A c \in cs : /\ Pos(c.first) <= p \/ Pos(b) <= Pos(c.first)
                       /\ Pos(c.last) <= p \/ Pos(b) <= Pos(c.last)
  BY DEF Follows
<1>b. /\ starting = {c \in cs : c.first = b}
      /\ first = IF starting # {} THEN b ELSE acc.first
      /\ open = acc.open \cup starting
      /\ infos = acc.infos \o (IF starting # {} /\ acc.open # {}
                               THEN SpanInfoFor(filter, FirstLastToSpan(acc.first, PrevTs(b)), acc.open) ELSE <<>>)
  BY DEF Starting, FirstAt, OpenAt, InfosAt
<1> HIDE DEF starting, infos, first, open
<1>1. /\ acc.first \in Int
      /\ acc.open = {c \in cs : Pos(c.first) <= p /\ p < Pos(c.last)}
      /\ q = p \/ q = p + 1
      /\ q = p => \A c \in cs : Pos(c.last) # p
      /\ acc.open # {} /\ q = p + 1 => \E a \in cs : Pos(a.last) = p
      /\ Orderly(acc.infos, cs, filter, q)
      /\ Given(acc.infos, cs, filter, q)
  BY DEF Walked
<1>2. acc.open # {} => q = Pos(acc.first)
  BY DEF Front
<1>3. acc.open = {} => q = p + 1
  BY DEF Front
<1>4. r \in Int /\ p < r
  BY <1>a, PosFacts
<1> HIDE DEF q, r
<1>5. q \in Int /\ p <= q /\ q <= p + 1 /\ q <= r
  BY <1>1, <1>4
<1>6. ASSUME NEW c \in cs
      PROVE  /\ c.first \in Int /\ c.last \in Int /\ Pos(c.first) \in Int /\ Pos(c.last) \in Int
             /\ Pos(c.first) <= Pos(c.last)
             /\ Pos(c.first) <= p \/ r <= Pos(c.first)
             /\ Pos(c.last) <= p \/ r <= Pos(c.last)
             /\ c \in starting <=> Pos(c.first) = r
             /\ c.last = b <=> Pos(c.last) = r
             /\ c \in acc.open <=> Pos(c.first) <= p /\ p < Pos(c.last)
  <2>1. c.first \in Int /\ c.last \in Int /\ Pos(c.first) <= Pos(c.last)
    BY DEF IsDay
  <2>2. Pos(c.first) \in Int /\ Pos(c.last) \in Int /\ (Pos(c.first) = Pos(b) => c.first = b) /\ (Pos(c.last) = Pos(b) => c.last = b)
    BY <1>a, <2>1, PosFacts
  <2> QED BY <1>1, <1>a, <1>b, <2>1, <2>2 DEF r
<1>7. open = {c \in cs : Pos(c.first) <= r /\ r <= Pos(c.last)}
  <2>1. ASSUME NEW c \in cs
        PROVE  c \in open <=> Pos(c.first) <= r /\ r <= Pos(c.last)
    BY <1>4, <1>6, <1>b
  <2>2. open \subseteq cs
    BY <1>1, <1>b
  <2> QED BY <2>1, <2>2
<1>8. starting = {} => acc.open # {}
  <2> SUFFICES ASSUME starting = {}
               PROVE  acc.open # {}
    OBVIOUS
  <2>1. PICK c \in cs : c.first = b \/ c.last = b
    BY <1>a
  <2>2. c.last = b
    BY <1>b, <2>1
  <2>3. Pos(c.last) = r /\ Pos(c.first) # r /\ Pos(c.first) <= Pos(c.last)
    BY <1>6, <2>2
  <2>4. c \in acc.open
    BY <1>4, <1>6, <2>3
  <2> QED BY <2>4
<1>9. starting # {} /\ acc.open # {} => q < r
  <2> SUFFICES ASSUME starting # {}, acc.open # {}, q = r
               PROVE  FALSE
    BY <1>4, <1>5
  <2>1. q = p + 1
    BY <1>1, <1>4
  <2>2. PICK a \in cs : Pos(a.last) = p
    BY <1>1, <2>1
  <2>3. PICK x \in starting : TRUE
    OBVIOUS
  <2>4. PICK c \in acc.open : TRUE
    OBVIOUS
  <2>5. x \in cs /\ c \in cs /\ Pos(x.first) = r /\ Pos(c.first) <= p /\ p < Pos(c.last)
    BY <1>1, <1>b, <1>6, <2>3, <2>4
  <2>6. r <= Pos(c.last)
    BY <1>6, <2>5
  <2> QED BY <2>1, <2>2, <2>5, <2>6 DEF IsDay
<1>10. CASE starting # {} /\ acc.open # {}
  <2> DEFINE x == acc.first
             y == PrevTs(b)
  <2>1. first = b /\ infos = Emit(acc.infos, filter, x, y, acc.open)
    BY <1>10, <1>b DEF Emit
  <2>2. x \in Int /\ y \in Int /\ Pos(x) = q /\ Pos(y) = r - 1
    BY <1>1, <1>2, <1>10, <1>a, PosFacts DEF r
  <2> HIDE DEF x, y
  <2>3. q <= Pos(x) /\ Pos(x) <= Pos(y)
    BY <1>4, <1>5, <1>9, <1>10, <2>2
  <2>4. \A c \in acc.open : c \in cs /\ Pos(c.first) <= Pos(x) /\ Pos(y) <= Pos(c.last)
    <3> SUFFICES ASSUME NEW c \in acc.open
                 PROVE  c \in cs /\ Pos(c.first) <= Pos(x) /\ Pos(y) <= Pos(c.last)
      OBVIOUS
    <3>1. c \in cs
      BY <1>1
    <3>2. Pos(c.first) <= p /\ p < Pos(c.last) /\ r <= Pos(c.last) /\ Pos(c.first) \in Int /\ Pos(c.last) \in Int
      BY <1>4, <1>6, <3>1
    <3>3. Pos(c.first) <= q /\ r - 1 <= Pos(c.last)
      BY <1>4, <1>5, <3>2
    <3> QED BY <2>2, <3>1, <3>3
  <2>5. acc.open \in SUBSET cs /\ \E c \in acc.open : Pos(c.first) <= Pos(x) /\ Pos(y) <= Pos(c.last)
    BY <1>10, <2>4
  <2>6. \A c \in cs : c.first \in Int /\ c.last \in Int
    BY <1>6
  <2>7. /\ Orderly(infos, cs, filter, Pos(y) + 1)
        /\ \A c \in cs : \A t \in Int : Found(acc.infos, c, t) => Found(infos, c, t)
        /\ \A c \in acc.open : \A t \in Int :
             Pos(x) <= Pos(t) /\ Pos(t) <= Pos(y) /\ At(filter, t) => Found(infos, c, t)
    <3>1. Orderly(acc.infos, cs, filter, q) /\ q \in Int /\ x \in Int /\ y \in Int
      BY <1>1, <1>5, <2>2
    <3> QED BY <2>1, <2>3, <2>5, <2>6, <3>1, SpanEmitted
  <2>8. Pos(y) + 1 = r /\ Pos(first) = r
    BY <1>4, <2>1, <2>2 DEF r
  <2>9. Given(infos, cs, filter, r)
    <3> SUFFICES ASSUME NEW c \in cs, NEW t \in Int, Covers(c, t), At(filter, t), Pos(t) < r
                 PROVE  Found(infos, c, t)
      BY DEF Given
    <3>0. Pos(t) \in Int
      BY PosFacts
    <3>1. CASE Pos(t) < q
      BY <1>1, <2>7, <3>1 DEF Given
    <3>2. CASE q <= Pos(t)
      <4>1. Pos(c.first) <= Pos(t) /\ Pos(t) <= Pos(c.last)
        BY DEF Covers
      <4>2. Pos(c.first) <= p
        BY <1>4, <1>6, <3>0, <4>1
      <4>3. p < Pos(c.last)
        <5>1. p <= Pos(c.last) /\ (q = p => Pos(c.last) # p)
          BY <1>1, <1>5, <1>6, <3>0, <3>2, <4>1
        <5>2. q = p + 1 => p < Pos(c.last)
          BY <1>6, <3>0, <3>2, <4>1
        <5> QED BY <1>1, <1>6, <5>1, <5>2
      <4>4. c \in acc.open
        BY <1>6, <4>2, <4>3
      <4>5. Pos(x) <= Pos(t) /\ Pos(t) <= Pos(y)
        BY <1>4, <2>2, <3>0, <3>2
      <4> QED BY <2>7, <4>4, <4>5
    <3> QED BY <1>5, <3>0, <3>1, <3>2
  <2>10. first \in Int /\ Pos(first) <= r
    BY <1>4, <1>a, <2>1, <2>8
  <2>11. \A c \in open : Pos(c.first) <= Pos(first)
    BY <1>7, <2>8
  <2>12. ASSUME NEW c \in cs, NEW t \in Int, Covers(c, t), Pos(first) <= Pos(t), Pos(t) <= r
         PROVE  c \in open
    <3>1. Pos(t) = r
      <4>1. Pos(t) \in Int
        BY PosFacts
      <4> QED BY <1>4, <2>8, <2>12, <4>1
    <3> QED BY <1>7, <2>12, <3>1 DEF Covers
  <2>13. open # {}
    BY <1>10, <1>b
  <2> QED BY <1>7, <2>7, <2>8, <2>9, <2>10, <2>11, <2>12, <2>13 DEF StartsTaken, r, infos, first, open
<1>11. CASE starting # {} /\ acc.open = {}
  <2>1. first = b /\ Pos(first) = r /\ infos = acc.infos
    <3>1. acc.infos \in Seq(Infos(cs))
      BY <1>1 DEF Orderly
    <3>2. infos = acc.infos \o <<>>
      BY <1>11, <1>b
    <3> QED BY <1>11, <1>b, <3>1, <3>2, ConcatEmptySeq DEF r
  <2>2. Orderly(infos, cs, filter, r)
    BY <1>1, <1>4, <1>5, <2>1, OrderlyLater
  <2>3. Given(infos, cs, filter, r)
    <3> SUFFICES ASSUME NEW c \in cs, NEW t \in Int, Covers(c, t), At(filter, t), Pos(t) < r
                 PROVE  Found(infos, c, t)
      BY DEF Given
    <3>0. Pos(t) \in Int
      BY PosFacts
    <3>1. Pos(c.first) <= Pos(t) /\ Pos(t) <= Pos(c.last)
      BY DEF Covers
    <3>2. Pos(c.first) <= p /\ ~(p < Pos(c.last))
      BY <1>4, <1>6, <1>11, <3>0, <3>1
    <3>3. Pos(t) < q
      BY <1>3, <1>6, <1>11, <3>0, <3>1, <3>2
    <3> QED BY <1>1, <2>1, <3>3 DEF Given
  <2>4. \A c \in open : Pos(c.first) <= Pos(first)
    BY <1>7, <2>1
  <2>5. ASSUME NEW c \in cs, NEW t \in Int, Covers(c, t), Pos(first) <= Pos(t), Pos(t) <= r
        PROVE  c \in open
    <3>1. Pos(t) = r
      <4>1. Pos(t) \in Int
        BY PosFacts
      <4> QED BY <1>4, <2>1, <2>5, <4>1
    <3> QED BY <1>7, <2>5, <3>1 DEF Covers
  <2>6. first \in Int /\ Pos(first) <= r
    BY <1>4, <1>a, <2>1
  <2>7. open # {}
    BY <1>11, <1>b
  <2> QED BY <1>7, <2>1, <2>2, <2>3, <2>4, <2>5, <2>6, <2>7 DEF StartsTaken, r, infos, first, open
<1>12. CASE starting = {}
  <2>1. first = acc.first /\ Pos(first) = q /\ infos = acc.infos
    <3>1. acc.infos \in Seq(Infos(cs))
      BY <1>1 DEF Orderly
    <3>2. infos = acc.infos \o <<>>
      BY <1>12, <1>b
    <3> QED BY <1>2, <1>8, <1>12, <1>b, <3>1, <3>2, ConcatEmptySeq
  <2>2. \A c \in open : Pos(c.first) <= Pos(first)
    <3> SUFFICES ASSUME NEW c \in open
                 PROVE  Pos(c.first) <= q
      BY <2>1
    <3>1. c \in cs /\ Pos(c.first) <= p
      BY <1>1, <1>12, <1>b
    <3> QED BY <1>5, <1>6, <3>1
  <2>3. ASSUME NEW c \in cs, NEW t \in Int, Covers(c, t), Pos(first) <= Pos(t), Pos(t) <= r
        PROVE  c \in open
    <3>0. Pos(t) \in Int
      BY PosFacts
    <3>1. Pos(c.first) <= Pos(t) /\ Pos(t) <= Pos(c.last)
      BY <2>3 DEF Covers
    <3>2. Pos(c.first) <= r
      BY <1>4, <1>6, <2>3, <3>0, <3>1
    <3>3. p < Pos(c.last)
      <4>1. q <= Pos(c.last)
        BY <1>5, <1>6, <2>1, <2>3, <3>0, <3>1
      <4>2. q = p => Pos(c.last) # p
        BY <1>1
      <4> QED BY <1>1, <1>6, <4>1, <4>2
    <3>4. r <= Pos(c.last)
      BY <1>6, <3>3
    <3> QED BY <1>7, <3>2, <3>4
  <2>4. first \in Int /\ Pos(first) <= r /\ open # {}
    BY <1>1, <1>5, <1>8, <1>12, <1>b, <2>1
  <2>5. Orderly(infos, cs, filter, q) /\ Given(infos, cs, filter, q)
    BY <1>1, <2>1
  <2> QED BY <1>7, <2>1, <2>2, <2>3, <2>4, <2>5 DEF StartsTaken, r, infos, first, open
<1> QED BY <1>10, <1>11, <1>12

\* A boundary takes the walk to its own position.
LEMMA BoundaryWalked ==
  ASSUME NEW cs, IsDay(cs), NEW filter \in Int \X Int, NEW p \in Int, NEW acc, Walked(acc, cs, filter, p),
         NEW b, Follows(b, cs, p)
  PROVE  Walked(AtBoundary(acc, cs, b, filter), cs, filter, Pos(b))
<1> DEFINE r == Pos(b)
           starting == Starting(cs, b)
           ending == {c \in cs : c.last = b}
           infos == InfosAt(acc, cs, b, filter)
           first == FirstAt(acc, cs, b)
           open == OpenAt(acc, cs, b)
           upTo == IF ending # {} THEN SpanInfoFor(filter, FirstLastToSpan(first, b), open) ELSE <<>>
           after == AtBoundary(acc, cs, b, filter)
<1>1. /\ after.open = IF ending # {} THEN open \ ending ELSE open
      /\ after.first = IF ending # {} THEN NextTs(b) ELSE first
      /\ after.infos = infos \o upTo
  BY DEF AtBoundary, InfosAt, FirstAt, OpenAt, Starting
<1>a. StartsTaken(infos, first, open, cs, b, filter)
  BY BeforeBoundary
<1>b. b \in Int /\ \E c \in cs : c.first = b \/ c.last = b
  BY DEF Follows
<1>3. starting # {} => first = b
  BY DEF FirstAt
<1>7. starting # {} \/ ending # {}
  BY <1>b DEF Starting
<1> HIDE DEF infos, first, open
<1>2. /\ first \in Int /\ Pos(first) <= r
      /\ open = {c \in cs : Pos(c.first) <= r /\ r <= Pos(c.last)}
      /\ open # {}
      /\ \A c \in open : Pos(c.first) <= Pos(first)
      /\ \A c \in cs : \A t \in Int : Covers(c, t) /\ Pos(first) <= Pos(t) /\ Pos(t) <= r => c \in open
      /\ Orderly(infos, cs, filter, Pos(first)) /\ Given(infos, cs, filter, Pos(first))
  BY <1>a DEF StartsTaken
<1>4. \A c \in cs : /\ c.first \in Int /\ c.last \in Int /\ Pos(c.first) \in Int /\ Pos(c.last) \in Int
                    /\ (c \in ending <=> Pos(c.last) = r)
  <2> SUFFICES ASSUME NEW c \in cs
               PROVE  /\ c.first \in Int /\ c.last \in Int /\ Pos(c.first) \in Int /\ Pos(c.last) \in Int
                      /\ (c \in ending <=> Pos(c.last) = r)
    OBVIOUS
  <2>1. c.first \in Int /\ c.last \in Int
    BY DEF IsDay
  <2>2. Pos(c.first) \in Int /\ Pos(c.last) \in Int /\ (Pos(c.last) = Pos(b) => c.last = b)
    BY <1>b, <2>1, PosFacts
  <2> QED BY <2>1, <2>2
<1>5. r \in Int /\ Pos(first) \in Int /\ NextTs(b) \in Int /\ Pos(NextTs(b)) = r + 1
  BY <1>2, <1>b, PosFacts
<1>6. open \subseteq cs /\ ending \subseteq cs
  BY <1>2
<1> HIDE DEF r, starting, ending, after
<1>8. CASE ending # {}
  <2>1. /\ after.open = open \ ending
        /\ after.first = NextTs(b)
        /\ after.infos = Emit(infos, filter, first, b, open)
    BY <1>1, <1>8 DEF Emit
  <2>2. after.open = {c \in cs : Pos(c.first) <= r /\ r < Pos(c.last)}
    <3>1. ASSUME NEW c \in cs
          PROVE  c \in after.open <=> Pos(c.first) <= r /\ r < Pos(c.last)
      <4>1. c \in open <=> Pos(c.first) <= r /\ r <= Pos(c.last)
        BY <1>2
      <4>2. Pos(c.last) \in Int /\ (c \in ending <=> Pos(c.last) = r)
        BY <1>4
      <4> QED BY <1>5, <2>1, <4>1, <4>2
    <3>2. after.open \subseteq cs
      BY <1>6, <2>1
    <3> HIDE DEF after
    <3> QED BY <3>1, <3>2
  <2>3. Front(after, r) = r + 1
    BY <1>5, <2>1 DEF Front
  <2>4. \E c \in open : Pos(c.first) <= Pos(first) /\ Pos(b) <= Pos(c.last)
    BY <1>2 DEF r
  <2>5. /\ Orderly(after.infos, cs, filter, r + 1)
        /\ \A c \in cs : \A t \in Int : Found(infos, c, t) => Found(after.infos, c, t)
        /\ \A c \in open : \A t \in Int :
             Pos(first) <= Pos(t) /\ Pos(t) <= r /\ At(filter, t) => Found(after.infos, c, t)
    <3>1. first \in Int /\ Pos(first) \in Int /\ Pos(first) <= Pos(first) /\ Pos(first) <= Pos(b) /\ open \in SUBSET cs
      BY <1>2, <1>5, <1>6 DEF r
    <3>2. Orderly(infos, cs, filter, Pos(first)) /\ \A c \in cs : c.first \in Int /\ c.last \in Int
      BY <1>2, <1>4
    <3> DEFINE e == Emit(infos, filter, first, b, open)
    <3>3. /\ Orderly(e, cs, filter, Pos(b) + 1)
          /\ \A c \in cs : \A t \in Int : Found(infos, c, t) => Found(e, c, t)
          /\ \A c \in open : \A t \in Int :
               Pos(first) <= Pos(t) /\ Pos(t) <= Pos(b) /\ At(filter, t) => Found(e, c, t)
      BY <1>b, <2>4, <3>1, <3>2, SpanEmitted
    <3> QED BY <2>1, <3>3 DEF r
  <2>6. Given(after.infos, cs, filter, r + 1)
    <3> SUFFICES ASSUME NEW c \in cs, NEW t \in Int, Covers(c, t), At(filter, t), Pos(t) < r + 1
                 PROVE  Found(after.infos, c, t)
      BY DEF Given
    <3>1. Pos(t) \in Int
      BY PosFacts
    <3>2. CASE Pos(t) < Pos(first)
      BY <1>2, <2>5, <3>2 DEF Given
    <3>3. CASE Pos(first) <= Pos(t)
      <4>1. Pos(t) <= r
        BY <1>5, <3>1
      <4>2. c \in open
        BY <1>2, <3>3, <4>1
      <4> QED BY <2>5, <3>3, <4>1, <4>2
    <3> QED BY <1>5, <3>1, <3>2, <3>3
  <2>7. \E a \in cs : Pos(a.last) = r
    BY <1>4, <1>6, <1>8
  <2>8. after.first \in Int /\ r + 1 # r
    BY <1>5, <2>1
  <2> QED BY <2>2, <2>3, <2>5, <2>6, <2>7, <2>8 DEF Walked, after, r
<1>9. CASE ending = {}
  <2>1. after.open = open /\ after.first = b /\ first = b /\ after.infos = infos
    <3>1. infos \in Seq(Infos(cs))
      BY <1>2 DEF Orderly
    <3>2. after.infos = infos \o <<>>
      BY <1>1, <1>9
    <3> QED BY <1>1, <1>3, <1>7, <1>9, <3>1, <3>2, ConcatEmptySeq
  <2>2. \A c \in cs : Pos(c.last) # r
    BY <1>4, <1>9
  <2>3. after.open = {c \in cs : Pos(c.first) <= r /\ r < Pos(c.last)}
    <3>1. ASSUME NEW c \in cs
          PROVE  c \in open <=> Pos(c.first) <= r /\ r < Pos(c.last)
      <4>1. c \in open <=> Pos(c.first) <= r /\ r <= Pos(c.last)
        BY <1>2
      <4>2. Pos(c.last) \in Int /\ Pos(c.last) # r
        BY <1>4, <2>2
      <4> QED BY <1>5, <4>1, <4>2
    <3> QED BY <1>6, <2>1, <3>1
  <2>4. Front(after, r) = r
    BY <1>2, <2>1 DEF Front, r
  <2>5. Orderly(after.infos, cs, filter, r) /\ Given(after.infos, cs, filter, r)
    BY <1>2, <2>1 DEF r
  <2>6. r # r + 1 /\ after.first \in Int
    BY <1>5, <1>b, <2>1
  <2> QED BY <2>2, <2>3, <2>4, <2>5, <2>6 DEF Walked, after, r
<1> QED BY <1>8, <1>9

\* The walk over the boundaries, one by one.
Boundary(cs, filter) ==
  LET bs == Boundaries(cs)
      acc[n \in 0..Len(bs)] == IF n = 0 THEN NothingOpen ELSE AtBoundary(acc[n - 1], cs, bs[n], filter)
  IN  acc

\* Its states have their types.
Walks(cs) == [open : SUBSET cs, first : Int, infos : Seq(Infos(cs))]
LEMMA BoundaryTyped ==
  ASSUME NEW cs, IsDay(cs), NEW filter \in Int \X Int, NEW acc \in Walks(cs), NEW b \in Int
  PROVE  AtBoundary(acc, cs, b, filter) \in Walks(cs)
<1> DEFINE starting == Starting(cs, b)
           ending == {c \in cs : c.last = b}
           first == FirstAt(acc, cs, b)
           open == OpenAt(acc, cs, b)
           S == Infos(cs)
           before == IF starting # {} /\ acc.open # {}
                     THEN SpanInfoFor(filter, FirstLastToSpan(acc.first, PrevTs(b)), acc.open) ELSE <<>>
           upTo == IF ending # {} THEN SpanInfoFor(filter, FirstLastToSpan(first, b), open) ELSE <<>>
<1>1. AtBoundary(acc, cs, b, filter) =
        [open |-> IF ending # {} THEN open \ ending ELSE open,
         first |-> IF ending # {} THEN NextTs(b) ELSE first,
         infos |-> acc.infos \o before \o upTo]
  BY DEF AtBoundary, FirstAt, OpenAt, Starting
<1>2. acc.open \subseteq cs /\ acc.first \in Int /\ acc.infos \in Seq(S)
  BY DEF Walks
<1>3. open \subseteq cs /\ first \in Int /\ starting \subseteq cs
  BY <1>2 DEF OpenAt, FirstAt, Starting
<1>4. \A x, y \in Int : FirstLastToSpan(x, y) \in Int \X Int
  BY DEF FirstLastToSpan, LowTs, HighTs
<1>5. ASSUME NEW span \in Int \X Int, NEW ds \in SUBSET cs
      PROVE  SpanInfoFor(filter, span, ds) \in Seq(S)
  <2>1. Intersect(filter, span) \in Int \X Int
    BY IntersectFacts
  <2> DEFINE info == [span |-> Intersect(filter, span), chunks |-> ds]
  <2>2. info \in S
    BY <2>1 DEF Infos
  <2>3. SpanInfoFor(filter, span, ds) = IF Overlaps(filter, span) THEN <<info>> ELSE <<>>
    BY DEF SpanInfoFor
  <2> HIDE DEF info, S
  <2> QED BY <2>2, <2>3
<1>6. PrevTs(b) \in Int /\ NextTs(b) \in Int
  BY PosFacts
<1> HIDE DEF starting, ending, first, open
<1>7. before \in Seq(S) /\ upTo \in Seq(S)
  <2>1. FirstLastToSpan(acc.first, PrevTs(b)) \in Int \X Int /\ FirstLastToSpan(first, b) \in Int \X Int
    BY <1>2, <1>3, <1>4, <1>6
  <2>2. <<>> \in Seq(S)
    OBVIOUS
  <2> QED BY <1>2, <1>3, <1>5, <2>1, <2>2
<1> HIDE DEF before, upTo
<1>8. acc.infos \o before \o upTo \in Seq(S)
  <2>1. acc.infos \o before \in Seq(S)
    BY <1>2, <1>7
  <2> QED BY <1>7, <2>1
<1> QED BY <1>1, <1>3, <1>6, <1>8 DEF Walks

\* The boundaries of some chunks.
LEMMA BoundaryFacts ==
  ASSUME NEW cs, IsDay(cs), IsFiniteSet(cs)
  PROVE  LET bs == Boundaries(cs) IN
         /\ bs \in Seq(Int) /\ Len(bs) \in Nat /\ DOMAIN bs = 1..Len(bs)
         /\ \A n \in 1..Len(bs) : \E c \in cs : c.first = bs[n] \/ c.last = bs[n]
         /\ \A c \in cs : \E n \in 1..Len(bs) : c.first = bs[n]
         /\ \A c \in cs : \E n \in 1..Len(bs) : c.last = bs[n]
         /\ \A m, n \in 1..Len(bs) : m < n => Pos(bs[m]) < Pos(bs[n])
<1> DEFINE F == {c.first : c \in cs}
           G == {c.last : c \in cs}
           S == F \cup G
           bs == Boundaries(cs)
<1>1. S \subseteq Int
  BY DEF IsDay
<1>2. IsFiniteSet(S)
  <2>1. IsFiniteSet(F)
    <3> DEFINE f == [c \in cs |-> c.first]
    <3>1. f \in Surjection(cs, F)
      BY DEF Surjection
    <3> HIDE DEF f, F
    <3> QED BY <3>1, FS_Surjection
  <2>2. IsFiniteSet(G)
    <3> DEFINE f == [c \in cs |-> c.last]
    <3>1. f \in Surjection(cs, G)
      BY DEF Surjection
    <3> HIDE DEF f, G
    <3> QED BY <3>1, FS_Surjection
  <2> HIDE DEF F, G
  <2> QED BY <2>1, <2>2, FS_Union
<1>3. bs = InOrder(S)
  BY DEF Boundaries
<1> HIDE DEF S, bs
<1>4. bs \in Seq(S) /\ SeqSet(bs) = S /\ \A i, j \in DOMAIN bs : i < j => Pos(bs[i]) < Pos(bs[j])
  BY <1>1, <1>2, <1>3, InOrderLists
<1>5. bs \in Seq(Int) /\ Len(bs) \in Nat /\ DOMAIN bs = 1..Len(bs) /\ \A n \in DOMAIN bs : bs[n] \in S
  <2>1. \A n \in DOMAIN bs : bs[n] \in S
    BY <1>4
  <2>2. Len(bs) \in Nat /\ DOMAIN bs = 1..Len(bs) /\ bs \in [1..Len(bs) -> S]
    BY <1>4, LenProperties
  <2>3. bs \in [1..Len(bs) -> Int]
    BY <1>1, <2>2
  <2>4. bs \in Seq(Int)
    BY <2>2, <2>3, IsASeq
  <2> QED BY <2>1, <2>2, <2>4
<1>6. \A x \in S : \E n \in 1..Len(bs) : x = bs[n]
  BY <1>4, <1>5 DEF SeqSet
<1>7. \A x : x \in S <=> \E c \in cs : x = c.first \/ x = c.last
  BY DEF S
<1> QED BY <1>4, <1>5, <1>6, <1>7 DEF bs

\* The walk goes on from where it was.
LEMMA MergeEquation ==
  ASSUME NEW cs, IsDay(cs), IsFiniteSet(cs), NEW filter \in Int \X Int
  PROVE  LET bs == Boundaries(cs)
             acc == Boundary(cs, filter) IN
         /\ MergeChunksToSpans(cs, filter) = acc[Len(bs)].infos
         /\ acc[0] = NothingOpen
         /\ \A n \in 1..Len(bs) : acc[n] = AtBoundary(acc[n - 1], cs, bs[n], filter)
<1> DEFINE bs == Boundaries(cs)
           L == Len(bs)
           T == Walks(cs)
           Round == [n \in 1..L |-> [x \in T |-> AtBoundary(x, cs, bs[n], filter)]]
<1>0. L \in Nat /\ \A n \in 1..L : bs[n] \in Int
  <2>1. bs \in Seq(Int) /\ L \in Nat /\ DOMAIN bs = 1..L
    BY BoundaryFacts
  <2> HIDE DEF bs
  <2> QED BY <2>1
<1>1. NothingOpen \in T
  BY DEF NothingOpen, Walks
<1> HIDE DEF bs, L, T
<1>2. \A n \in 1..L : \A x \in T : Round[n][x] = AtBoundary(x, cs, bs[n], filter)
  OBVIOUS
<1> HIDE DEF Round
<1>3. \A n \in 1..L : \A x \in T : Round[n][x] \in T
  <2> SUFFICES ASSUME NEW n \in 1..L, NEW x \in T
               PROVE  AtBoundary(x, cs, bs[n], filter) \in T
    BY <1>2
  <2> QED BY <1>0, BoundaryTyped DEF T
<1>4. PICK f : Course(f, L, NothingOpen, Round)
  BY <1>0, StepsExist
<1>5. \A n \in 0..L : f[n] \in T
  BY <1>0, <1>1, <1>3, <1>4, StepsTyped
<1>6. \A n \in 0..L : n # 0 => n \in 1..L /\ n - 1 \in 0..L
  BY <1>0
<1>7. \A n \in 0..L : f[n] = IF n = 0 THEN NothingOpen ELSE AtBoundary(f[n - 1], cs, bs[n], filter)
  BY <1>2, <1>4, <1>5, <1>6 DEF Course
<1>8. f = [n \in 0..L |-> IF n = 0 THEN NothingOpen ELSE AtBoundary(f[n - 1], cs, bs[n], filter)]
  BY <1>4, <1>7 DEF Course
<1>9. \E g : g = [n \in 0..L |-> IF n = 0 THEN NothingOpen ELSE AtBoundary(g[n - 1], cs, bs[n], filter)]
  BY <1>8
<1> DEFINE g == Boundary(cs, filter)
<1>10. g = [n \in 0..L |-> IF n = 0 THEN NothingOpen ELSE AtBoundary(g[n - 1], cs, bs[n], filter)]
  BY <1>9 DEF Boundary, L, bs
<1>11. MergeChunksToSpans(cs, filter) = g[L].infos
  BY DEF MergeChunksToSpans, Boundary, L, bs
<1> HIDE DEF g
<1>12. g[0] = NothingOpen
  <2>1. 0 \in 0..L
    BY <1>0
  <2> QED BY <1>10, <2>1
<1>13. \A n \in 1..L : g[n] = AtBoundary(g[n - 1], cs, bs[n], filter)
  <2>1. \A n \in 1..L : n \in 0..L /\ n # 0
    BY <1>0
  <2> QED BY <1>10, <2>1
<1> QED BY <1>11, <1>12, <1>13 DEF g, L, bs

\* mergeChunksToSpans gives spans in the order of the archive, and of each chunk
\* every time that lies in the filter.
LEMMA MergeGives ==
  ASSUME NEW cs, IsDay(cs), IsFiniteSet(cs), NEW filter \in Int \X Int
  PROVE  \E p \in Int :
           /\ Orderly(MergeChunksToSpans(cs, filter), cs, filter, p)
           /\ \A c \in cs : \A t \in Int :
                Covers(c, t) /\ At(filter, t) => Found(MergeChunksToSpans(cs, filter), c, t)
<1> DEFINE bs == Boundaries(cs)
           L == Len(bs)
           acc == Boundary(cs, filter)
           P(n) == IF n = 0 THEN IF L = 0 THEN 0 ELSE Pos(bs[1]) - 1 ELSE Pos(bs[n])
           Good(n) == Walked(acc[n], cs, filter, P(n))
           Bad == {n \in 0..L : ~Good(n)}
<1>1. /\ bs \in Seq(Int) /\ L \in Nat /\ DOMAIN bs = 1..L
      /\ \A n \in 1..L : \E c \in cs : c.first = bs[n] \/ c.last = bs[n]
      /\ \A c \in cs : \E n \in 1..L : c.first = bs[n]
      /\ \A c \in cs : \E n \in 1..L : c.last = bs[n]
      /\ \A m, n \in 1..L : m < n => Pos(bs[m]) < Pos(bs[n])
  BY BoundaryFacts
<1>2. /\ MergeChunksToSpans(cs, filter) = acc[L].infos
      /\ acc[0] = NothingOpen
      /\ \A n \in 1..L : acc[n] = AtBoundary(acc[n - 1], cs, bs[n], filter)
  BY MergeEquation
<1> HIDE DEF bs, acc, L
<1>0. L \in Nat
  BY <1>1
<1>3. \A n \in 1..L : bs[n] \in Int /\ Pos(bs[n]) \in Int
  <2>1. \A n \in 1..L : bs[n] \in Int
    BY <1>1
  <2> QED BY <2>1, PosFacts
<1>4. \A n \in 0..L : P(n) \in Int
  <2>1. \A n \in 0..L : n # 0 => n \in 1..L
    BY <1>1
  <2>2. L # 0 => 1 \in 1..L
    BY <1>1
  <2> QED BY <1>3, <2>1, <2>2
<1>5. \A n \in 1..L : P(n) = Pos(bs[n])
  BY <1>1
<1>6. ASSUME NEW n \in 1..L
      PROVE  n - 1 \in 0..L /\ P(n - 1) \in Int /\ P(n - 1) < Pos(bs[n])
  <2>1. n - 1 \in 0..L /\ 1 \in 1..L /\ L # 0
    BY <1>1
  <2>2. CASE n = 1
    <3>1. P(0) = Pos(bs[1]) - 1
      BY <2>1
    <3> QED BY <1>3, <1>4, <2>1, <2>2, <3>1
  <2>3. CASE n # 1
    <3>1. n - 1 \in 1..L /\ n - 1 < n
      BY <1>1, <2>3
    <3>2. P(n - 1) = Pos(bs[n - 1])
      BY <1>5, <3>1
    <3> QED BY <1>1, <1>4, <2>1, <3>1, <3>2
  <2> QED BY <2>2, <2>3
<1>7. ASSUME NEW n \in 1..L, NEW m \in 1..L
      PROVE  Pos(bs[m]) <= P(n - 1) \/ Pos(bs[n]) <= Pos(bs[m])
  <2>1. m \in Int /\ n \in Int /\ Pos(bs[m]) \in Int /\ Pos(bs[n]) \in Int
    BY <1>3
  <2>2. CASE m = n
    BY <2>1, <2>2
  <2>3. CASE n < m
    BY <1>1, <2>1, <2>3
  <2>4. CASE m < n
    <3>1. n - 1 \in 1..L /\ (m = n - 1 \/ m < n - 1)
      BY <1>0, <2>4
    <3>2. P(n - 1) = Pos(bs[n - 1]) /\ Pos(bs[n - 1]) \in Int
      BY <1>3, <1>5, <3>1
    <3>3. m = n - 1 \/ Pos(bs[m]) < Pos(bs[n - 1])
      BY <1>1, <3>1
    <3> QED BY <2>1, <3>2, <3>3
  <2> QED BY <2>1, <2>2, <2>3, <2>4
<1> HIDE DEF P
<1>8. ASSUME NEW n \in 1..L
      PROVE  Follows(bs[n], cs, P(n - 1))
  <2>1. \A c \in cs : /\ Pos(c.first) <= P(n - 1) \/ Pos(bs[n]) <= Pos(c.first)
                      /\ Pos(c.last) <= P(n - 1) \/ Pos(bs[n]) <= Pos(c.last)
    <3> SUFFICES ASSUME NEW c \in cs
                 PROVE  /\ Pos(c.first) <= P(n - 1) \/ Pos(bs[n]) <= Pos(c.first)
                        /\ Pos(c.last) <= P(n - 1) \/ Pos(bs[n]) <= Pos(c.last)
      OBVIOUS
    <3>1. PICK k \in 1..L : c.first = bs[k]
      BY <1>1
    <3>2. PICK l \in 1..L : c.last = bs[l]
      BY <1>1
    <3>3. Pos(bs[k]) <= P(n - 1) \/ Pos(bs[n]) <= Pos(bs[k])
      BY <1>7
    <3>4. Pos(bs[l]) <= P(n - 1) \/ Pos(bs[n]) <= Pos(bs[l])
      BY <1>7
    <3> QED BY <3>1, <3>2, <3>3, <3>4
  <2> QED BY <1>1, <1>3, <1>6, <2>1 DEF Follows
<1>9. Good(0)
  <2> DEFINE p == P(0)
  <2>1. p \in Int
    BY <1>1, <1>4
  <2>2. \A c \in cs : Pos(c.first) \in Int /\ p < Pos(c.first)
    <3> SUFFICES ASSUME NEW c \in cs
                 PROVE  Pos(c.first) \in Int /\ p < Pos(c.first)
      OBVIOUS
    <3>1. PICK k \in 1..L : c.first = bs[k]
      BY <1>1
    <3>2. 1 \in 1..L /\ 1 - 1 = 0
      BY <1>1
    <3>3. p < Pos(bs[1])
      BY <1>6, <3>2
    <3>4. Pos(bs[1]) <= Pos(bs[k])
      <4>1. CASE k = 1
        BY <1>3, <4>1
      <4>2. CASE 1 < k
        <5>1. Pos(bs[1]) < Pos(bs[k])
          BY <1>1, <3>2, <4>2
        <5>2. Pos(bs[1]) \in Int /\ Pos(bs[k]) \in Int
          BY <1>3, <3>2
        <5> QED BY <5>1, <5>2
      <4> QED BY <1>0, <4>1, <4>2
    <3> QED BY <1>3, <2>1, <3>1, <3>2, <3>3, <3>4
  <2> DEFINE a == acc[0]
  <2>3. a.open = {} /\ a.first \in Int /\ a.infos = <<>>
    BY <1>2 DEF NothingOpen
  <2> HIDE DEF p, a
  <2>4. a.open = {c \in cs : Pos(c.first) <= p /\ p < Pos(c.last)}
    BY <2>1, <2>2, <2>3
  <2>5. Front(a, p) = p + 1 /\ p + 1 # p
    BY <2>1, <2>3 DEF Front
  <2>6. Orderly(a.infos, cs, filter, p + 1)
    <3>1. <<>> \in Seq(Infos(cs)) /\ DOMAIN <<>> = {}
      OBVIOUS
    <3> QED BY <2>3, <3>1 DEF Orderly, Ascending
  <2>7. Given(a.infos, cs, filter, p + 1)
    <3> SUFFICES ASSUME NEW c \in cs, NEW t \in Int, Covers(c, t), Pos(t) < p + 1
                 PROVE  FALSE
      BY DEF Given
    <3>1. Pos(t) \in Int /\ Pos(c.first) <= Pos(t)
      BY PosFacts DEF Covers
    <3>2. Pos(c.first) \in Int /\ p < Pos(c.first)
      BY <2>2
    <3> QED BY <2>1, <3>1, <3>2
  <2> QED BY <2>3, <2>4, <2>5, <2>6, <2>7 DEF Walked, p, a
<1>10. ASSUME NEW n \in 1..L, Good(n - 1)
       PROVE  Good(n)
  <2> DEFINE a == acc[n - 1]
             b == bs[n]
             p == P(n - 1)
  <2>1. Walked(a, cs, filter, p) /\ p \in Int /\ Follows(b, cs, p)
    BY <1>6, <1>8, <1>10
  <2>2. acc[n] = AtBoundary(a, cs, b, filter) /\ P(n) = Pos(b)
    BY <1>2, <1>5
  <2> HIDE DEF a, b, p
  <2>3. Walked(AtBoundary(a, cs, b, filter), cs, filter, Pos(b))
    BY <2>1, BoundaryWalked
  <2> QED BY <2>2, <2>3
<1>11. ASSUME Bad # {}
       PROVE  FALSE
  <2>1. Bad \subseteq Nat
    BY <1>1
  <2> HIDE DEF Bad, Good
  <2>2. PICK m \in Bad : \A y \in Bad : m <= y
    BY <1>11, <2>1, LeastNumber, Zenon
  <2>3. m \in 0..L /\ ~Good(m)
    BY <2>2 DEF Bad
  <2>4. m # 0
    BY <1>9, <2>3
  <2>5. m - 1 \in 0..L /\ ~(m <= m - 1) /\ m \in 1..L
    BY <1>1, <2>3, <2>4
  <2>6. Good(m - 1)
    BY <2>2, <2>5 DEF Bad
  <2> QED BY <1>10, <2>3, <2>5, <2>6
<1>12. L \in 0..L /\ Good(L)
  <2>1. L \in 0..L
    BY <1>1
  <2> HIDE DEF Good
  <2> QED BY <1>11, <2>1
<1> DEFINE p == P(L)
           a == acc[L]
<1>13. p \in Int /\ Walked(a, cs, filter, p)
  BY <1>4, <1>12
<1>14. \A c \in cs : Pos(c.last) \in Int /\ Pos(c.last) <= p
  <2> SUFFICES ASSUME NEW c \in cs
               PROVE  Pos(c.last) \in Int /\ Pos(c.last) <= p
    OBVIOUS
  <2>1. PICK l \in 1..L : c.last = bs[l]
    BY <1>1
  <2>2. L \in 1..L /\ (l = L \/ l < L)
    BY <1>0
  <2>3. p = Pos(bs[L])
    BY <1>5, <2>2
  <2>4. Pos(bs[l]) <= Pos(bs[L])
    <3>1. Pos(bs[l]) \in Int /\ Pos(bs[L]) \in Int
      BY <1>3, <2>2
    <3>2. l = L \/ Pos(bs[l]) < Pos(bs[L])
      BY <1>1, <2>2
    <3> QED BY <3>1, <3>2
  <2> QED BY <1>3, <2>1, <2>3, <2>4
<1> HIDE DEF p, a
<1>15. a.open = {}
  <2>1. a.open = {c \in cs : Pos(c.first) <= p /\ p < Pos(c.last)}
    BY <1>13 DEF Walked
  <2> QED BY <1>13, <1>14, <2>1
<1>16. Orderly(a.infos, cs, filter, p + 1) /\ Given(a.infos, cs, filter, p + 1)
  BY <1>13, <1>15 DEF Walked, Front
<1>17. \A c \in cs : \A t \in Int : Covers(c, t) /\ At(filter, t) => Found(a.infos, c, t)
  <2> SUFFICES ASSUME NEW c \in cs, NEW t \in Int, Covers(c, t), At(filter, t)
               PROVE  Found(a.infos, c, t)
    OBVIOUS
  <2>1. Pos(t) \in Int /\ Pos(t) <= Pos(c.last)
    BY PosFacts DEF Covers
  <2>2. Pos(t) < p + 1
    BY <1>13, <1>14, <2>1
  <2> QED BY <1>16, <2>2 DEF Given
<1>18. p + 1 \in Int /\ MergeChunksToSpans(cs, filter) = a.infos
  BY <1>2, <1>13 DEF a
<1> QED BY <1>16, <1>17, <1>18

-----------------------------------------------------------------------------
(***************************************************************************)
(* The spans of a scan.                                                    *)
(***************************************************************************)
\* Days are as timestamps are ordered.
LEMMA DayGrows ==
  ASSUME NEW x \in Int, NEW y \in Int, x <= y
  PROVE  Day(x) \in Int /\ Day(y) \in Int /\ Day(x) <= Day(y)
<1> DEFINE D == DayLength
           a == x \div D
           b == y \div D
<1>1. D \in Nat \ {0}
  BY ArchiveAssumption
<1>2. a \in Int /\ D * a <= x /\ x < D * a + D
  BY <1>1
<1>3. b \in Int /\ D * b <= y /\ y < D * b + D
  BY <1>1
<1> HIDE DEF D, a, b
<1>4. ASSUME b < a
      PROVE  FALSE
  <2>1. b + 1 <= a
    BY <1>2, <1>3, <1>4
  <2>2. D * (b + 1) <= D * a
    BY <1>1, <1>2, <1>3, <2>1
  <2>3. D * (b + 1) = D * b + D
    BY <1>1, <1>3
  <2> QED BY <1>1, <1>2, <1>3, <2>2, <2>3
<1> QED BY <1>2, <1>3, <1>4 DEF Day, a, b, D

\* So are they in the order of the archive.
LEMMA DayOrder ==
  ASSUME NEW x \in Int, NEW y \in Int, Pos(x) <= Pos(y)
  PROVE  /\ Day(x) \in Int /\ Day(y) \in Int
         /\ Pos(Day(x)) \in Int /\ Pos(Day(y)) \in Int /\ Pos(Day(x)) <= Pos(Day(y))
<1>1. CASE forward
  <2>1. x <= y
    BY <1>1 DEF Pos
  <2>2. Day(x) \in Int /\ Day(y) \in Int /\ Day(x) <= Day(y)
    BY <2>1, DayGrows
  <2> QED BY <1>1, <2>2 DEF Pos
<1>2. CASE ~forward
  <2>1. y <= x
    BY <1>2 DEF Pos
  <2>2. Day(x) \in Int /\ Day(y) \in Int /\ Day(y) <= Day(x)
    BY <2>1, DayGrows
  <2> QED BY <1>2, <2>2 DEF Pos
<1> QED BY <1>1, <1>2

\* Records are ordered by the position of their time.
LEMMA RecordOrder ==
  ASSUME NEW a \in Records, NEW b \in Records
  PROVE  /\ Ts(a) \in Nat /\ Ts(b) \in Nat
         /\ ~Before(b, a) <=> Pos(Ts(a)) <= Pos(Ts(b))
         /\ Pos(Ts(a)) < Pos(Ts(b)) => ~Before(b, a)
<1>1. Ts(a) \in Nat /\ Ts(b) \in Nat
  BY BeforeOrders
<1> QED BY <1>1 DEF Before, Pos

\* The name of a chunk tells the day and the span of its records.
LEMMA ChunkFacts ==
  ASSUME FileInv, SeekInv, ~EpochMissed, NEW c \in VisibleChunks
  PROVE  /\ c.first \in Int /\ c.last \in Int /\ Pos(c.first) <= Pos(c.last)
         /\ Day(c.first) = c.day /\ Day(c.last) = c.day
         /\ \A r \in InFile(c.id) : Ts(r) \in Int /\ Covers(c, Ts(r))
<1>1. PICK s : s = data[c.id].records
  OBVIOUS
<1>2. /\ c.id \in DOMAIN seekIndex
      /\ c.day = seekIndex[c.id].day /\ c.first = seekIndex[c.id].first /\ c.last = seekIndex[c.id].last
  BY VisibleFacts DEF Listed
<1>3. IsContent(c.day, s) /\ NamedTruly(seekIndex[c.id], s)
  BY <1>1, <1>2 DEF SeekInv
<1>4. s \in Seq(Records) /\ s # <<>> /\ Ordered(s) /\ OfDay(c.day, SeqSet(s))
  BY <1>3 DEF IsContent
<1>5. c.last = Ts(s[Len(s)]) /\ c.first = Ts(s[1])
  BY <1>1, <1>2, <1>3 DEF NamedTruly, EpochMissed
<1> DEFINE n == Len(s)
<1>6. n \in Nat /\ n # 0 /\ DOMAIN s = 1..n /\ \A i \in 1..n : s[i] \in Records
  BY <1>4, RunFacts
<1> HIDE DEF n
<1>7. 1 \in 1..n /\ n \in 1..n
  BY <1>6
<1>8. \A i \in 1..n : Ts(s[i]) \in Nat /\ Day(Ts(s[i])) = c.day
  <2> SUFFICES ASSUME NEW i \in 1..n
               PROVE  Ts(s[i]) \in Nat /\ Day(Ts(s[i])) = c.day
    OBVIOUS
  <2>1. s[i] \in Records /\ s[i] \in SeqSet(s)
    BY <1>6 DEF SeqSet
  <2> QED BY <1>4, <2>1, RecordOrder DEF OfDay
<1>9. ASSUME NEW i \in 1..n, NEW j \in 1..n, i <= j
      PROVE  Pos(Ts(s[i])) <= Pos(Ts(s[j]))
  <2>1. s[i] \in Records /\ s[j] \in Records
    BY <1>6
  <2>2. CASE i = j
    <3>1. Pos(Ts(s[i])) \in Int
      BY <1>8, PosFacts
    <3> QED BY <2>2, <3>1
  <2>3. CASE i < j
    <3>1. ~Before(s[j], s[i])
      BY <1>4, <1>6, <2>3 DEF Ordered
    <3> QED BY <2>1, <3>1, RecordOrder
  <2> QED BY <1>6, <1>9, <2>2, <2>3
<1>10. c.first = Ts(s[1]) /\ c.last = Ts(s[n])
  BY <1>5 DEF n
<1>11. \A i \in 1..n : Covers(c, Ts(s[i]))
  <2> SUFFICES ASSUME NEW i \in 1..n
               PROVE  Pos(c.first) <= Pos(Ts(s[i])) /\ Pos(Ts(s[i])) <= Pos(c.last)
    BY DEF Covers
  <2>1. 1 <= i /\ i <= n
    BY <1>6
  <2> QED BY <1>7, <1>9, <1>10, <2>1
<1>12. \A r \in InFile(c.id) : \E i \in 1..n : r = s[i]
  BY <1>1, <1>6 DEF InFile, SeqSet
<1>13. Pos(c.first) <= Pos(c.last)
  <2>1. 1 <= n
    BY <1>6
  <2> QED BY <1>7, <1>9, <1>10, <2>1
<1>14. c.first \in Int /\ c.last \in Int /\ Day(c.first) = c.day /\ Day(c.last) = c.day
  BY <1>7, <1>8, <1>10
<1>15. \A r \in InFile(c.id) : Ts(r) \in Int /\ Covers(c, Ts(r))
  BY <1>8, <1>11, <1>12
<1> QED BY <1>13, <1>14, <1>15

\* Readers see finitely many chunks.
LEMMA FinitelyMany ==
  ASSUME FileInv
  PROVE  IsFiniteSet(VisibleChunks)
<1> DEFINE chunk(i) == [id |-> i, day |-> seekIndex[i].day, first |-> seekIndex[i].first,
                        last |-> seekIndex[i].last, count |-> seekIndex[i].count]
           f == [i \in Listed |-> chunk(i)]
<1>1. IsFiniteSet(Listed)
  <2>1. PICK m \in Nat : DOMAIN data = 1..m
    BY DEF FileInv
  <2>2. IsFiniteSet(1..m) /\ Listed \subseteq 1..m
    BY <2>1, FS_Interval DEF Listed
  <2> QED BY <2>2, FS_Subset
<1>2. VisibleChunks = {chunk(i) : i \in Listed}
  BY DEF VisibleChunks, Listed
<1> HIDE DEF chunk
<1>3. f \in Surjection(Listed, VisibleChunks)
  BY <1>2 DEF Surjection
<1> HIDE DEF f
<1> QED BY <1>1, <1>3, FS_Surjection

\* The chunks of one day, where no abutting ones are.
LEMMA ChunksOfDay ==
  ASSUME FileInv, SeekInv, ~EpochMissed, ~Abutting,
         NEW cs \in SUBSET VisibleChunks, \A a, b \in cs : a.day = b.day
  PROVE  IsDay(cs) /\ IsFiniteSet(cs)
<1>1. IsFiniteSet(cs)
  BY FinitelyMany, FS_Subset
<1>2. \A c \in cs : c.first \in Int /\ c.last \in Int /\ Pos(c.first) <= Pos(c.last)
  BY ChunkFacts
<1>3. ASSUME NEW a \in cs, NEW b \in cs, NEW c \in cs,
             Pos(b.first) = Pos(a.last) + 1, Pos(c.first) <= Pos(a.last), Pos(b.first) <= Pos(c.last)
      PROVE  FALSE
  <2> DEFINE x == a.last
             y == b.first
             span == ChunkSpan(c)
  <2>1. x \in Int /\ y \in Int /\ c.first \in Int /\ c.last \in Int
    BY <1>2
  <2>2. Pos(x) \in Int /\ Pos(y) \in Int /\ Pos(c.first) \in Int /\ Pos(c.last) \in Int
    BY <2>1, PosFacts
  <2>3. Covers(c, x) /\ Covers(c, y)
    BY <1>3, <2>2 DEF Covers
  <2>4. At(span, x) /\ At(span, y)
    BY <1>2, <2>1, <2>3, SpanFacts DEF ChunkSpan, Covers
  <2>5. y = x + (IF forward THEN 1 ELSE -1)
    BY <1>3, <2>1 DEF Pos
  <2>6. a.day = b.day /\ b.day = c.day
    OBVIOUS
  <2>7. Overlaps(span, <<x, x>>) /\ Overlaps(span, <<y, y>>)
    BY <2>4 DEF Overlaps, At
  <2> QED BY <2>5, <2>6, <2>7 DEF Abutting
<1> QED BY <1>1, <1>2, <1>3 DEF IsDay

\* spanWalk gives spans of the filter in the order of the archive, and of each chunk
\* every time that lies in the filter.
LEMMA WalkGives ==
  ASSUME FileInv, SeekInv, ~EpochMissed, ~Abutting, NEW filter \in Int \X Int
  PROVE  /\ SpanWalk(filter) \in Seq(Infos(VisibleChunks))
         /\ \A i \in DOMAIN SpanWalk(filter) : \A t \in Int : At(SpanWalk(filter)[i].span, t) => At(filter, t)
         /\ Ascending(SpanWalk(filter))
         /\ \A c \in VisibleChunks : \A t \in Int :
              Covers(c, t) /\ At(filter, t) => Found(SpanWalk(filter), c, t)
<1> DEFINE seen == {c \in VisibleChunks : Overlaps(filter, ChunkSpan(c))}
           E == {c.day : c \in seen}
           days == DaysOf(seen)
           of(d) == {c \in seen : c.day = d}
           parts == [n \in DOMAIN days |-> MergeChunksToSpans(of(days[n]), filter)]
           L == Len(days)
           S == Infos(VisibleChunks)
           infos == SpanWalk(filter)
<1>1. infos = Concat(parts)
  BY DEF SpanWalk
<1>2. \A c \in VisibleChunks : c.first \in Int /\ c.last \in Int /\ Pos(c.first) <= Pos(c.last)
                               /\ Day(c.first) = c.day /\ Day(c.last) = c.day
  BY ChunkFacts
<1>3. ASSUME NEW c \in VisibleChunks, NEW t \in Int, Covers(c, t)
      PROVE  Day(t) = c.day /\ c.day \in Int
  <2>1. c.first \in Int /\ c.last \in Int /\ Day(c.first) = c.day /\ Day(c.last) = c.day
    BY <1>2
  <2>2. Pos(c.first) <= Pos(t) /\ Pos(t) <= Pos(c.last)
    BY <1>3 DEF Covers
  <2>3. Day(t) \in Int /\ c.day \in Int /\ Pos(c.day) <= Pos(Day(t)) /\ Pos(c.day) \in Int /\ Pos(Day(t)) \in Int
    BY <2>1, <2>2, DayOrder
  <2>4. Pos(Day(t)) <= Pos(c.day)
    BY <2>1, <2>2, DayOrder
  <2>5. Pos(Day(t)) = Pos(c.day)
    BY <2>3, <2>4
  <2> QED BY <2>3, <2>5, PosFacts
<1>4. E \subseteq Int /\ IsFiniteSet(E)
  <2>1. E \subseteq Int
    <3>1. \A c \in VisibleChunks : c.day \in Int
      <4> SUFFICES ASSUME NEW c \in VisibleChunks
                   PROVE  c.day \in Int
        OBVIOUS
      <4>1. c.first \in Int /\ Day(c.first) = c.day /\ Pos(c.first) \in Int
        BY <1>2, PosFacts
      <4> QED BY <4>1, DayOrder
    <3> QED BY <3>1
  <2>2. IsFiniteSet(seen)
    BY FinitelyMany, FS_Subset
  <2> DEFINE f == [c \in seen |-> c.day]
  <2>3. f \in Surjection(seen, E)
    BY DEF Surjection
  <2> HIDE DEF f, seen, E
  <2>4. IsFiniteSet(E)
    BY <2>2, <2>3, FS_Surjection
  <2> QED BY <2>1, <2>4 DEF E
<1>5. days = InOrder(E)
  BY DEF DaysOf
<1> HIDE DEF days, E
<1>6. /\ days \in Seq(E) /\ SeqSet(days) = E
      /\ \A i, j \in DOMAIN days : i < j => Pos(days[i]) < Pos(days[j])
  BY <1>4, <1>5, InOrderLists
<1>7. L \in Nat /\ DOMAIN days = 1..L /\ \A n \in 1..L : days[n] \in E
  BY <1>6
<1> HIDE DEF seen, L
<1>8. seen \subseteq VisibleChunks
  BY DEF seen
<1>9. ASSUME NEW n \in 1..L
      PROVE  /\ parts[n] \in Seq(S)
             /\ \A i \in DOMAIN parts[n] : \A t \in Int :
                  At(parts[n][i].span, t) => At(filter, t) /\ Day(t) = days[n]
             /\ Ascending(parts[n])
             /\ \A c \in of(days[n]) : \A t \in Int : Covers(c, t) /\ At(filter, t) => Found(parts[n], c, t)
  <2> DEFINE cs == of(days[n])
             m == MergeChunksToSpans(cs, filter)
  <2>1. parts[n] = m
    BY <1>7
  <2>2. cs \in SUBSET VisibleChunks /\ \A c \in cs : c.day = days[n]
    BY <1>8
  <2> HIDE DEF cs, m
  <2>3. IsDay(cs) /\ IsFiniteSet(cs)
    <3>1. \A a, b \in cs : a.day = b.day
      BY <2>2
    <3> QED BY <2>2, <3>1, ChunksOfDay
  <2>4. PICK p \in Int : /\ Orderly(m, cs, filter, p)
                         /\ \A c \in cs : \A t \in Int : Covers(c, t) /\ At(filter, t) => Found(m, c, t)
    BY <2>3, MergeGives DEF m
  <2>5. m \in Seq(Infos(cs)) /\ Ascending(m) /\ \A i \in DOMAIN m : Sound(m[i], filter, p)
    BY <2>4 DEF Orderly
  <2>6. m \in Seq(S)
    <3>1. Infos(cs) \subseteq S
      BY <2>2 DEF Infos
    <3> HIDE DEF S
    <3>2. Len(m) \in Nat /\ m \in [1..Len(m) -> Infos(cs)]
      BY <2>5, LenProperties
    <3>3. m \in [1..Len(m) -> S]
      BY <3>1, <3>2
    <3> QED BY <3>2, <3>3, IsASeq
  <2>7. ASSUME NEW i \in DOMAIN m, NEW t \in Int, At(m[i].span, t)
        PROVE  At(filter, t) /\ Day(t) = days[n]
    <3>1. At(filter, t) /\ \E c \in m[i].chunks : Covers(c, t)
      BY <2>5, <2>7 DEF Sound
    <3>2. PICK c \in m[i].chunks : Covers(c, t)
      BY <3>1
    <3>3. c \in cs
      <4>1. m[i] \in Infos(cs)
        BY <2>5
      <4> QED BY <4>1 DEF Infos
    <3>4. c \in VisibleChunks /\ c.day = days[n]
      BY <2>2, <3>3
    <3> QED BY <1>3, <3>1, <3>2, <3>4
  <2> QED BY <2>1, <2>4, <2>5, <2>6, <2>7 DEF cs
<1>10. DOMAIN parts = 1..L
  BY <1>7
<1> HIDE DEF S
<1>11. parts \in Seq(Seq(S)) /\ Len(parts) = L
  <2>1. parts = [n \in 1..L |-> parts[n]]
    BY <1>10
  <2> HIDE DEF parts
  <2>2. parts \in [1..L -> Seq(S)]
    BY <1>9, <2>1
  <2>3. parts \in Seq(Seq(S))
    BY <1>7, <2>2, IsASeq
  <2> QED BY <1>7, <1>10, <2>3
<1> HIDE DEF parts, infos, of
<1>12. infos \in Seq(S) /\ \E part, place : Laid(infos, parts, L, part, place)
  BY <1>1, <1>11, ConcatLays
<1>13. PICK part, place : Laid(infos, parts, L, part, place)
  BY <1>12
<1>14. /\ \A i \in DOMAIN infos :
            /\ part[i] \in 1..L /\ place[i] \in DOMAIN parts[part[i]]
            /\ infos[i] = parts[part[i]][place[i]]
       /\ \A i, j \in DOMAIN infos : i < j =>
            part[i] < part[j] \/ (part[i] = part[j] /\ place[i] < place[j])
       /\ \A k \in 1..L : \A l \in DOMAIN parts[k] : \E i \in DOMAIN infos : part[i] = k /\ place[i] = l
  BY <1>13 DEF Laid
<1>15. ASSUME NEW i \in DOMAIN infos, NEW t \in Int, At(infos[i].span, t)
       PROVE  At(filter, t) /\ Day(t) = days[part[i]]
  <2>1. part[i] \in 1..L /\ place[i] \in DOMAIN parts[part[i]] /\ infos[i] = parts[part[i]][place[i]]
    BY <1>14
  <2> QED BY <1>9, <1>15, <2>1
<1>16. Ascending(infos)
  <2> SUFFICES ASSUME NEW i \in DOMAIN infos, NEW j \in DOMAIN infos, i < j, NEW t \in Int, NEW u \in Int,
                      At(infos[i].span, t), At(infos[j].span, u)
               PROVE  Pos(t) < Pos(u)
    BY DEF Ascending
  <2>1. /\ part[i] \in 1..L /\ place[i] \in DOMAIN parts[part[i]] /\ infos[i] = parts[part[i]][place[i]]
        /\ part[j] \in 1..L /\ place[j] \in DOMAIN parts[part[j]] /\ infos[j] = parts[part[j]][place[j]]
        /\ part[i] < part[j] \/ (part[i] = part[j] /\ place[i] < place[j])
    BY <1>14
  <2>2. CASE part[i] < part[j]
    <3>1. Pos(days[part[i]]) < Pos(days[part[j]])
      BY <1>6, <1>7, <2>1, <2>2
    <3>2. Day(t) = days[part[i]] /\ Day(u) = days[part[j]]
      BY <1>15
    <3>3. Pos(t) \in Int /\ Pos(u) \in Int
      BY PosFacts
    <3>4. ASSUME Pos(u) <= Pos(t)
          PROVE  FALSE
      <4>1. Pos(Day(u)) <= Pos(Day(t)) /\ Pos(Day(u)) \in Int /\ Pos(Day(t)) \in Int
        BY <3>4, DayOrder
      <4> QED BY <3>1, <3>2, <4>1
    <3> QED BY <3>3, <3>4
  <2>3. CASE part[i] = part[j] /\ place[i] < place[j]
    <3>1. Ascending(parts[part[i]])
      BY <1>9, <2>1
    <3> QED BY <2>1, <2>3, <3>1 DEF Ascending
  <2> QED BY <2>1, <2>2, <2>3
<1>17. ASSUME NEW c \in VisibleChunks, NEW t \in Int, Covers(c, t), At(filter, t)
       PROVE  Found(infos, c, t)
  <2>1. c \in seen
    <3>1. ChunkSpan(c) \in Int \X Int /\ At(ChunkSpan(c), t)
      BY <1>2, <1>17, SpanFacts DEF ChunkSpan, Covers
    <3> QED BY <1>17, <3>1, IntersectFacts DEF seen
  <2>2. PICK n \in 1..L : days[n] = c.day
    <3>1. c.day \in E
      BY <2>1 DEF E
    <3> QED BY <1>6, <1>7, <3>1 DEF SeqSet
  <2>3. c \in of(days[n])
    BY <2>1, <2>2 DEF of
  <2>4. Found(parts[n], c, t)
    BY <1>9, <1>17, <2>3
  <2>5. PICK l \in DOMAIN parts[n] : c \in parts[n][l].chunks /\ At(parts[n][l].span, t)
    BY <2>4 DEF Found
  <2>6. PICK i \in DOMAIN infos : part[i] = n /\ place[i] = l
    BY <1>14
  <2>7. infos[i] = parts[n][l]
    BY <1>14, <2>6
  <2> QED BY <2>5, <2>7 DEF Found
<1> QED BY <1>12, <1>15, <1>16, <1>17 DEF infos, S

\* A scan gives what it was asked for, once and in order.
LEMMA ScanGives ==
  ASSUME FileInv, SeekInv, ~EpochMissed, ~Abutting, NEW filter \in Int \X Int
  PROVE  Exact(Scan(filter), filter)
<1> DEFINE infos == SpanWalk(filter)
           runs == [n \in DOMAIN infos |-> SpanScan(infos[n])]
           D == DOMAIN infos
           L == Len(infos)
           s == Scan(filter)
<1>1. s = Concat(runs)
  BY DEF Scan
<1>2. /\ infos \in Seq(Infos(VisibleChunks))
      /\ \A i \in D : \A t \in Int : At(infos[i].span, t) => At(filter, t)
      /\ Ascending(infos)
      /\ \A c \in VisibleChunks : \A t \in Int : Covers(c, t) /\ At(filter, t) => Found(infos, c, t)
  BY WalkGives
<1> HIDE DEF infos, s
<1>3. L \in Nat /\ D = 1..L
  BY <1>2
<1>4. \A n \in D : infos[n].chunks \subseteq VisibleChunks
  <2>1. \A n \in D : infos[n] \in Infos(VisibleChunks)
    BY <1>2
  <2> QED BY <2>1 DEF Infos
<1>5. \A r \in Records : Ts(r) \in Int
  BY RecordOrder
<1>6. ASSUME NEW n \in D
      PROVE  /\ runs[n] \in Seq(Records) /\ Ordered(runs[n]) /\ Once(runs[n])
             /\ SeqSet(runs[n]) = InInfo(infos[n])
  <2> DEFINE info == infos[n]
  <2>1. info.chunks \subseteq VisibleChunks /\ runs[n] = SpanScan(info)
    BY <1>4
  <2> HIDE DEF info
  <2> QED BY <2>1, SpanScanKeeps DEF info
<1>7. DOMAIN runs = D
  OBVIOUS
<1> HIDE DEF L
<1>8. runs \in Runs
  <2>1. runs = [n \in 1..L |-> runs[n]]
    BY <1>3
  <2> HIDE DEF runs
  <2>2. runs \in [1..L -> Seq(Records)]
    BY <1>3, <1>6, <2>1
  <2> QED BY <1>3, <2>2, IsASeq DEF Runs
<1> HIDE DEF runs, D
<1>9. ASSUME NEW n \in D, NEW r \in SeqSet(runs[n])
      PROVE  /\ r \in Records /\ Ts(r) \in Int /\ At(infos[n].span, Ts(r))
             /\ \E c \in infos[n].chunks : r \in InFile(c.id)
  <2>1. r \in Records
    BY <1>6, RunFacts
  <2>2. r \in InInfo(infos[n])
    BY <1>6
  <2> QED BY <1>5, <2>1, <2>2 DEF InInfo, Within
<1>10. All(runs) = Asked(filter)
  <2>1. ASSUME NEW x \in Places(runs)
        PROVE  AtPlace(runs, x) \in Asked(filter)
    <3> DEFINE n == x[1]
               r == AtPlace(runs, x)
    <3>1. n \in D /\ x[2] \in DOMAIN runs[n]
      BY <1>7, <1>8, PlaceFacts
    <3>2. r \in SeqSet(runs[n])
      BY <3>1 DEF AtPlace, SeqSet
    <3> HIDE DEF n, r
    <3>3. Ts(r) \in Int /\ At(infos[n].span, Ts(r)) /\ \E c \in infos[n].chunks : r \in InFile(c.id)
      BY <1>9, <3>1, <3>2
    <3>4. At(filter, Ts(r))
      BY <1>2, <3>1, <3>3 DEF D
    <3>5. PICK c \in VisibleChunks : r \in InFile(c.id)
      BY <1>4, <3>1, <3>3
    <3>6. r \in Shown
      BY <3>5, VisibleFacts DEF Shown
    <3>7. r \in VisibleRecords
      BY <3>6, VisibleFacts
    <3> QED BY <3>4, <3>7 DEF Asked, At, r
  <2>2. ASSUME NEW r \in Asked(filter)
        PROVE  r \in All(runs)
    <3>1. r \in VisibleRecords /\ At(filter, Ts(r))
      BY DEF Asked, At
    <3>2. PICK c \in VisibleChunks : r \in InFile(c.id)
      BY <3>1 DEF VisibleRecords, InFile
    <3>3. Ts(r) \in Int /\ Covers(c, Ts(r))
      BY <3>2, ChunkFacts
    <3>4. Found(infos, c, Ts(r))
      BY <1>2, <3>1, <3>3
    <3>5. PICK n \in D : c \in infos[n].chunks /\ At(infos[n].span, Ts(r))
      BY <3>4 DEF Found, D
    <3>6. r \in InInfo(infos[n])
      BY <3>2, <3>5 DEF InInfo, Within
    <3>7. r \in SeqSet(runs[n])
      BY <1>6, <3>6
    <3>8. PICK i \in DOMAIN runs[n] : r = runs[n][i]
      BY <3>7 DEF SeqSet
    <3> DEFINE x == <<n, i>>
    <3>9. x \in Places(runs)
      BY <1>7, <1>8, PlaceFacts
    <3>10. AtPlace(runs, x) = r
      BY <3>8 DEF AtPlace
    <3> HIDE DEF x
    <3> QED BY <3>9, <3>10 DEF All
  <2> QED BY <2>1, <2>2 DEF All
<1>11. ASSUME NEW k \in D, NEW l \in D, k < l, NEW x \in SeqSet(runs[k]), NEW y \in SeqSet(runs[l])
       PROVE  ~Before(y, x) /\ x # y
  <2>1. /\ x \in Records /\ Ts(x) \in Int /\ At(infos[k].span, Ts(x))
        /\ y \in Records /\ Ts(y) \in Int /\ At(infos[l].span, Ts(y))
    BY <1>9
  <2>2. Pos(Ts(x)) < Pos(Ts(y))
    BY <1>2, <1>11, <2>1 DEF Ascending, D
  <2>3. Pos(Ts(x)) \in Int /\ Pos(Ts(y)) \in Int
    BY <2>1, PosFacts
  <2> QED BY <2>1, <2>2, <2>3, RecordOrder
<1>12. Apart(runs)
  <2>1. ASSUME NEW x \in Places(runs), NEW y \in Places(runs), AtPlace(runs, x) = AtPlace(runs, y)
        PROVE  x = y
    <3>1. /\ x[1] \in D /\ x[2] \in DOMAIN runs[x[1]] /\ x = <<x[1], x[2]>>
          /\ y[1] \in D /\ y[2] \in DOMAIN runs[y[1]] /\ y = <<y[1], y[2]>>
      BY <1>7, <1>8, PlaceFacts
    <3>2. AtPlace(runs, x) \in SeqSet(runs[x[1]]) /\ AtPlace(runs, y) \in SeqSet(runs[y[1]])
      BY <3>1 DEF AtPlace, SeqSet
    <3>3. ~(x[1] < y[1]) /\ ~(y[1] < x[1])
      BY <1>11, <2>1, <3>1, <3>2
    <3>4. x[1] = y[1]
      BY <1>3, <3>1, <3>3
    <3>5. Once(runs[x[1]])
      BY <1>6, <3>1
    <3>6. x[2] = y[2]
      BY <2>1, <3>1, <3>4, <3>5 DEF Once, AtPlace
    <3> QED BY <3>1, <3>4, <3>6
  <2> QED BY <2>1 DEF Apart
<1>13. \A k \in DOMAIN runs : Ordered(runs[k])
  BY <1>6, <1>7
<1>14. \A k, l \in DOMAIN runs : k < l =>
         \A x \in SeqSet(runs[k]), y \in SeqSet(runs[l]) : ~Before(y, x)
  BY <1>7, <1>11
<1>15. s \in Seq(Records) /\ SeqSet(s) = Asked(filter) /\ Ordered(s) /\ Once(s)
  BY <1>1, <1>8, <1>10, <1>12, <1>13, <1>14, ConcatOfRuns
<1>16. Len(s) = Cardinality(Asked(filter))
  BY <1>15, OnceCounts
<1>17. ASSUME NEW k \in 1..Len(s) - 1
       PROVE  ~Before(s[k + 1], s[k])
  <2>1. Len(s) \in Nat /\ DOMAIN s = 1..Len(s)
    BY <1>15, RunFacts
  <2>2. k \in DOMAIN s /\ k + 1 \in DOMAIN s /\ k < k + 1
    BY <2>1
  <2> QED BY <1>15, <2>2 DEF Ordered
<1> QED BY <1>15, <1>16, <1>17 DEF Exact, s

\* At any moment, during an import, after a failed one or a crash, a scan gives every
\* visible record of its span once and in the order of the archive, however the chunks
\* overlap (spanWalk, mergeChunksToSpans, newSpanScanner and combiner.Read), unless two
\* chunks abut inside of a third or a first timestamp of 0 went uncounted.
THEOREM ScansExact == Spec => []ScanExact
<1>1. ASSUME ArchiveInv
      PROVE  ScanExact
  <2>1. FileInv /\ SeekInv
    BY <1>1 DEF ArchiveInv
  <2>2. ASSUME ~Abutting, ~EpochMissed, NEW f \in Filters
        PROVE  Exact(Scan(f), f)
    <3>1. f \in Int \X Int
      BY ArchiveAssumption
    <3> QED BY <2>1, <2>2, <3>1, ScanGives
  <2> QED BY <2>2 DEF ScanExact
<1> QED BY <1>1, ArchiveInvariant, PTL
=============================================================================
