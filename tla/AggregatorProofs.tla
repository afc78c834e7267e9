-------------------------- MODULE AggregatorProofs --------------------------
(***************************************************************************)
(* What holds of the group-by for any keys, reducers, limit and input.     *)
(* No group is lost between memory, disk and output, and it fails only for *)
(* want of memory (AggInv).  Groups leave in the order of their keys and   *)
(* only when no record of theirs is to come (OrderInv), so that what is    *)
(* sent is what the reducers make of all the records of a group, however   *)
(* its partial results went through the runs on disk (ValueInv).           *)
(***************************************************************************)
EXTENDS Aggregator, TLAPS, FiniteSetTheorems, SequenceTheorems

\* What every group-by of a query is like: it has room for a group
\* (NewAggregator puts DefaultLimit for 0), and keys of different names (the
\* type of its results has no two columns of one name).
IsGroupBy(g) ==
  /\ g.limit \in Nat \ {0}
  /\ \E n \in Nat : DOMAIN g.keys = 1..n
  /\ \A i \in DOMAIN g.keys : g.keys[i].trunc \in Nat
  /\ \A i, j \in DOMAIN g.keys : g.keys[i].target = g.keys[j].target => i = j

\* The hypothesis of every theorem here.
Setting ==
  /\ \A g \in GroupBys : IsGroupBy(g)
  /\ \A r \in Inputs : \A f \in DOMAIN r : r[f] \in Nat

IsSequence(s) == s \in Seq(Range(s))

\* A record of results has a value for every key.
IsKeyed(g, r) ==
  \A i \in DOMAIN g.keys : g.keys[i].target \in DOMAIN r /\ r[g.keys[i].target] \in Nat
Keyed(g, s) == IsSequence(s) /\ \A i \in DOMAIN s : IsKeyed(g, s[i])
GroupKey(g, r) == [i \in DOMAIN g.keys |-> r[g.keys[i].target]]
KeysIn(g, s) == {GroupKey(g, s[i]) : i \in DOMAIN s}

\* The keys of a record that is consumed.
KeyFor(g, r) == [i \in DOMAIN g.keys |-> KeyValue(g.keys[i], r)]
Lacking(g, r) == \E i \in DOMAIN g.keys : KeyFor(g, r)[i] = Absent

\* An Aggregator: its groups are in memory, on disk, or sent.
HasFields(a) ==
  a = [table |-> a.table, maxTableKey |-> a.maxTableKey,
       maxSpillKey |-> a.maxSpillKey, spiller |-> a.spiller,
       runs |-> a.runs, out |-> a.out, err |-> a.err]
IsAggregator(g, a) ==
  /\ HasFields(a)
  /\ DOMAIN a.table \subseteq [DOMAIN g.keys -> Nat]
  /\ IsFiniteSet(DOMAIN a.table)
  /\ Keyed(g, a.runs) /\ Keyed(g, a.out)
  /\ ~a.spiller => a.runs = <<>>
Groups(g, a) == DOMAIN a.table \cup KeysIn(g, a.runs) \cup KeysIn(g, a.out)

\* Every group of the records consumed so far is in one of the three places,
\* but for the group that found no room when the group-by failed.
AggInv ==
  /\ p \in GroupBys
  /\ input \in Seq(Inputs) /\ Len(input) <= MaxInput
  /\ batch \in BOOLEAN /\ ended \in BOOLEAN
  /\ IsAggregator(p, agg)
  /\ Cardinality(DOMAIN agg.table) <= p.limit
  /\ agg.err \in {"none", "too big"}
  /\ Groups(p, agg) \subseteq KeysSeen
  /\ agg.err = "none" => Groups(p, agg) = KeysSeen
  /\ ended => agg.err = "none" /\ DOMAIN agg.table = {} /\ agg.runs = <<>>
  /\ FailsOnlyTooBig

-----------------------------------------------------------------------------
(***************************************************************************)
(* Sequences and sorting.                                                  *)
(***************************************************************************)
\* A set of naturals that is not empty has a least member: what an induction
\* looks at is the first number for which its claim would fail.
LEMMA LeastNumber ==
  ASSUME NEW T, T \subseteq Nat, T # {}
  PROVE  \E x \in T : \A y \in T : x <= y
<1> DEFINE R == OpToRel(<, Nat)
<1>1. IsWellFoundedOn(R, Nat)
  BY NatLessThanWellFounded
<1> HIDE DEF R
<1>2. PICK x \in T : \A y \in T : ~(<<y, x>> \in R)
  BY <1>1, WFMin, Zenon
<1>3. ASSUME NEW y \in T
      PROVE  x <= y
  <2>1. x \in Nat /\ y \in Nat
    OBVIOUS
  <2>2. y < x => <<y, x>> \in R
    BY <2>1 DEF R, OpToRel
  <2> QED BY <1>2, <2>1, <2>2
<1> QED BY <1>3

\* What a sequence is, element by element.
LEMMA SequenceFacts ==
  ASSUME NEW s, IsSequence(s)
  PROVE  /\ Len(s) \in Nat
         /\ DOMAIN s = 1..Len(s)
         /\ s = [i \in 1..Len(s) |-> s[i]]
         /\ Range(s) = {s[i] : i \in 1..Len(s)}
<1>1. Len(s) \in Nat /\ DOMAIN s = 1..Len(s)
  BY LenProperties DEF IsSequence
<1>2. s = [i \in 1..Len(s) |-> s[i]]
  BY LenProperties DEF IsSequence
<1> QED BY <1>1, <1>2 DEF Range

\* A function on 1..n is a sequence of length n.
LEMMA MakesSequence ==
  ASSUME NEW s, NEW n \in Nat, DOMAIN s = 1..n, s = [i \in 1..n |-> s[i]]
  PROVE  IsSequence(s) /\ Len(s) = n
<1>1. \A i \in 1..n : s[i] \in Range(s)
  BY DEF Range
<1>2. s \in Seq(Range(s))
  BY <1>1, IsASeq
<1> QED BY <1>2, LenProperties DEF IsSequence

\* Putting sequences together.
LEMMA JoinSequences ==
  ASSUME NEW s, NEW t, IsSequence(s), IsSequence(t)
  PROVE  /\ IsSequence(s \o t)
         /\ Len(s \o t) = Len(s) + Len(t)
         /\ Range(s \o t) = Range(s) \cup Range(t)
<1> DEFINE S == Range(s) \cup Range(t)
<1>1. s \in Seq(S) /\ t \in Seq(S)
  BY SeqMonotonic DEF IsSequence
<1> HIDE DEF S
<1>2. /\ s \o t \in Seq(S)
      /\ Len(s \o t) = Len(s) + Len(t)
      /\ \A i \in 1..(Len(s) + Len(t)) :
           (s \o t)[i] = IF i <= Len(s) THEN s[i] ELSE t[i - Len(s)]
  BY <1>1, ConcatProperties
<1> DEFINE u == s \o t
<1>3. /\ DOMAIN u = 1..(Len(s) + Len(t))
      /\ u = [i \in 1..(Len(s) + Len(t)) |-> u[i]]
  BY <1>2, LenProperties
<1>4. Len(s) \in Nat /\ Len(t) \in Nat
  BY SequenceFacts
<1>5. IsSequence(u)
  BY <1>3, <1>4, MakesSequence
<1>6. Range(s) = {s[i] : i \in 1..Len(s)} /\ Range(t) = {t[i] : i \in 1..Len(t)}
  BY SequenceFacts
<1>7. Range(u) \subseteq Range(s) \cup Range(t)
  BY <1>2, <1>3, <1>4, <1>6 DEF Range
<1>8. ASSUME NEW i \in 1..Len(s)
      PROVE  s[i] \in Range(u)
  BY <1>2, <1>3, <1>4, <1>8 DEF Range
<1>9. ASSUME NEW i \in 1..Len(t)
      PROVE  t[i] \in Range(u)
  <2>1. Len(s) + i \in 1..(Len(s) + Len(t)) /\ u[Len(s) + i] = t[i]
    BY <1>2, <1>4
  <2> QED BY <1>3, <2>1 DEF Range
<1> QED BY <1>2, <1>5, <1>6, <1>7, <1>8, <1>9

\* A part of a sequence.
LEMMA PartSequence ==
  ASSUME NEW s, IsSequence(s), NEW m \in 1..(Len(s) + 1), NEW n \in (m - 1)..Len(s)
  PROVE  /\ IsSequence(SubSeq(s, m, n))
         /\ Len(SubSeq(s, m, n)) = n - m + 1
         /\ Range(SubSeq(s, m, n)) = {s[i] : i \in m..n}
<1> DEFINE u == SubSeq(s, m, n)
<1>1. Len(s) \in Nat
  BY SequenceFacts
<1>2. /\ u \in Seq(Range(s))
      /\ Len(u) = n - m + 1
      /\ \A i \in 1..(n - m + 1) : u[i] = s[m + i - 1]
  BY <1>1, SubSeqProperties DEF IsSequence
<1>3. /\ DOMAIN u = 1..(n - m + 1)
      /\ u = [i \in 1..(n - m + 1) |-> u[i]]
  BY <1>2, LenProperties
<1>4. n - m + 1 \in Nat /\ m \in Nat /\ n \in Nat
  BY <1>1
<1>5. IsSequence(u)
  BY <1>3, <1>4, MakesSequence
<1>6. ASSUME NEW i \in m..n
      PROVE  s[i] \in Range(u)
  <2>1. i - m + 1 \in 1..(n - m + 1) /\ u[i - m + 1] = s[i]
    BY <1>2, <1>4
  <2> QED BY <1>3, <2>1 DEF Range
<1>7. ASSUME NEW i \in 1..(n - m + 1)
      PROVE  u[i] \in {s[j] : j \in m..n}
  <2>1. m + i - 1 \in m..n /\ u[i] = s[m + i - 1]
    BY <1>2, <1>4
  <2> QED BY <2>1
<1> QED BY <1>2, <1>3, <1>5, <1>6, <1>7 DEF Range

\* A sequence of one element.
LEMMA OneElement ==
  ASSUME NEW r
  PROVE  IsSequence(<<r>>) /\ Len(<<r>>) = 1 /\ Range(<<r>>) = {r}
<1> DEFINE s == <<r>>
<1>1. DOMAIN s = 1..1 /\ s = [i \in 1..1 |-> s[i]] /\ s[1] = r
  OBVIOUS
<1> HIDE DEF s
<1>2. IsSequence(s) /\ Len(s) = 1
  BY <1>1, MakesSequence
<1>3. Range(s) = {r}
  BY <1>1 DEF Range
<1> QED BY <1>2, <1>3 DEF s

\* The empty sequence.
LEMMA NoElement ==
  /\ IsSequence(<<>>) /\ Len(<<>>) = 0 /\ Range(<<>>) = {}
  /\ \A s : IsSequence(s) /\ Len(s) = 0 => s = <<>>
<1> DEFINE e == <<>>
<1>1. DOMAIN e = {} /\ e \in Seq({}) /\ Len(e) = 0
  OBVIOUS
<1> HIDE DEF e
<1>2. Range(e) = {}
  BY <1>1 DEF Range
<1>3. IsSequence(e)
  BY <1>1, <1>2 DEF IsSequence
<1>4. ASSUME NEW s, IsSequence(s), Len(s) = 0
      PROVE  s = <<>>
  BY <1>4, EmptySeq DEF IsSequence
<1> QED BY <1>1, <1>2, <1>3, <1>4 DEF e

\* How many there can be among the first n.
LEMMA CountAmong ==
  ASSUME NEW n \in Nat, NEW S \in SUBSET (1..n)
  PROVE  IsFiniteSet(S) /\ Cardinality(S) \in 0..n
<1>1. IsFiniteSet(1..n) /\ Cardinality(1..n) = n
  BY FS_Interval
<1>2. IsFiniteSet(S) /\ Cardinality(S) <= n
  BY <1>1, FS_Subset
<1>3. Cardinality(S) \in Nat
  BY <1>2, FS_CardinalityType
<1> QED BY <1>2, <1>3

\* An insertion adds its record and keeps the others.
LEMMA InsertAdds ==
  ASSUME NEW s, NEW r, NEW dir, NEW nullsMax, NEW fields, IsSequence(s)
  PROVE  /\ IsSequence(InsertStable(s, r, dir, nullsMax, fields))
         /\ Len(InsertStable(s, r, dir, nullsMax, fields)) = Len(s) + 1
         /\ Range(InsertStable(s, r, dir, nullsMax, fields)) = Range(s) \cup {r}
<1> DEFINE k == Cardinality({i \in DOMAIN s : Directed(dir, nullsMax, fields, s[i], r) <= 0})
<1>1. /\ Len(s) \in Nat /\ DOMAIN s = 1..Len(s)
      /\ Range(s) = {s[i] : i \in 1..Len(s)}
  BY SequenceFacts
<1>2. k \in 0..Len(s)
  <2>1. {i \in DOMAIN s : Directed(dir, nullsMax, fields, s[i], r) <= 0}
          \in SUBSET (1..Len(s))
    BY <1>1
  <2> QED BY <1>1, <2>1, CountAmong
<1> HIDE DEF k
<1> DEFINE a == SubSeq(s, 1, k)
           b == SubSeq(s, k + 1, Len(s))
<1>3. IsSequence(a) /\ Len(a) = k /\ Range(a) = {s[i] : i \in 1..k}
  BY <1>1, <1>2, PartSequence
<1>4. IsSequence(b) /\ Len(b) = Len(s) - k /\ Range(b) = {s[i] : i \in (k + 1)..Len(s)}
  <2>1. /\ k + 1 \in 1..(Len(s) + 1) /\ Len(s) \in ((k + 1) - 1)..Len(s)
        /\ Len(s) - (k + 1) + 1 = Len(s) - k
    BY <1>1, <1>2
  <2>2. /\ IsSequence(b) /\ Len(b) = Len(s) - (k + 1) + 1
        /\ Range(b) = {s[i] : i \in (k + 1)..Len(s)}
    BY <2>1, PartSequence
  <2> QED BY <2>1, <2>2
<1> HIDE DEF a, b
<1>5. /\ IsSequence(a \o <<r>>) /\ Len(a \o <<r>>) = k + 1
      /\ Range(a \o <<r>>) = Range(a) \cup {r}
  BY <1>3, OneElement, JoinSequences
<1>6. /\ IsSequence(a \o <<r>> \o b) /\ Len(a \o <<r>> \o b) = k + 1 + (Len(s) - k)
      /\ Range(a \o <<r>> \o b) = Range(a) \cup {r} \cup Range(b)
  BY <1>4, <1>5, JoinSequences
<1>7. InsertStable(s, r, dir, nullsMax, fields) = a \o <<r>> \o b
  BY DEF InsertStable, a, b, k
<1>8. Range(a) \cup Range(b) = Range(s)
  <2>1. \A i \in 1..Len(s) : i \in 1..k \/ i \in (k + 1)..Len(s)
    BY <1>1, <1>2
  <2>2. 1..k \subseteq 1..Len(s) /\ (k + 1)..Len(s) \subseteq 1..Len(s)
    BY <1>1, <1>2
  <2> QED BY <1>1, <1>3, <1>4, <2>1, <2>2
<1>9. k + 1 + (Len(s) - k) = Len(s) + 1
  BY <1>1, <1>2
<1> QED BY <1>6, <1>7, <1>8, <1>9

\* The recursion of the insertion sort defines Insertions.
LEMMA InsertionsEquation ==
  ASSUME NEW s, NEW dir, NEW nullsMax, NEW fields, Len(s) \in Nat
  PROVE  Insertions(s, dir, nullsMax, fields) =
           [n \in 0..Len(s) |->
              IF n = 0 THEN <<>>
              ELSE InsertStable(Insertions(s, dir, nullsMax, fields)[n - 1], s[n],
                                dir, nullsMax, fields)]
<1> DEFINE Ins(t, n) == InsertStable(t, s[n], dir, nullsMax, fields)
<1> HIDE DEF Ins
<1> DEFINE Upto(m, f) == [n \in 0..m |-> IF n = 0 THEN <<>> ELSE Ins(f[n - 1], n)]
           T == {m \in 0..Len(s) : ~(\E f : f = Upto(m, f))}
<1>1. ASSUME T # {}
      PROVE  FALSE
  <2>1. T \subseteq Nat
    OBVIOUS
  <2> HIDE DEF T
  <2>2. PICK m \in T : \A y \in T : m <= y
    BY <1>1, <2>1, LeastNumber, Zenon
  <2>3. m \in 0..Len(s) /\ ~(\E f : f = Upto(m, f))
    BY <2>2 DEF T
  <2>4. m # 0
    <3> DEFINE f == [n \in 0..0 |-> <<>>]
    <3>1. f = Upto(0, f)
      OBVIOUS
    <3> QED BY <2>3, <3>1
  <2>5. m - 1 \in 0..Len(s) /\ ~(m <= m - 1)
    BY <2>3, <2>4
  <2>6. m - 1 \notin T
    BY <2>2, <2>5
  <2>7. PICK f : f = Upto(m - 1, f)
    BY <2>5, <2>6 DEF T
  <2> DEFINE h == [n \in 0..m |-> IF n = m THEN Ins(f[m - 1], m) ELSE f[n]]
  <2>8. ASSUME NEW n \in 0..m
        PROVE  h[n] = IF n = 0 THEN <<>> ELSE Ins(h[n - 1], n)
    <3>1. CASE n = m
      BY <2>3, <2>4, <3>1
    <3>2. CASE n # m /\ n = 0
      BY <2>3, <2>5, <2>7, <3>2
    <3>3. CASE n # m /\ n # 0
      <4>1. n \in 0..(m - 1) /\ n - 1 \in 0..m /\ n - 1 # m
        BY <2>3, <3>3
      <4>2. h[n] = f[n] /\ h[n - 1] = f[n - 1]
        BY <3>3, <4>1
      <4>3. f[n] = Ins(f[n - 1], n)
        <5> HIDE DEF h
        <5> QED BY <2>7, <3>3, <4>1
      <4> QED BY <3>3, <4>2, <4>3
    <3> QED BY <3>1, <3>2, <3>3
  <2>9. h = Upto(m, h)
    <3>1. h = [n \in 0..m |-> h[n]]
      OBVIOUS
    <3> HIDE DEF h
    <3> QED BY <2>8, <3>1
  <2> QED BY <2>3, <2>9
<1>2. \E f : f = [n \in 0..Len(s) |-> IF n = 0 THEN <<>> ELSE Ins(f[n - 1], n)]
  BY <1>1
<1>3. \E f : f = [n \in 0..Len(s) |->
                    IF n = 0 THEN <<>>
                    ELSE InsertStable(f[n - 1], s[n], dir, nullsMax, fields)]
  BY <1>2 DEF Ins
<1> QED BY <1>3 DEF Insertions

\* Sorting keeps the records.
LEMMA SortKeeps ==
  ASSUME NEW s, NEW dir, NEW nullsMax, NEW fields, IsSequence(s)
  PROVE  /\ IsSequence(SortStable(s, dir, nullsMax, fields))
         /\ Range(SortStable(s, dir, nullsMax, fields)) = Range(s)
         /\ Len(SortStable(s, dir, nullsMax, fields)) = Len(s)
<1> DEFINE I == Insertions(s, dir, nullsMax, fields)
           Good(n) == /\ IsSequence(I[n]) /\ Len(I[n]) = n
                      /\ Range(I[n]) = {s[i] : i \in 1..n}
           T == {n \in 0..Len(s) : ~Good(n)}
<1>1. Len(s) \in Nat /\ Range(s) = {s[i] : i \in 1..Len(s)}
  BY SequenceFacts
<1>2. /\ I[0] = <<>>
      /\ \A n \in 1..Len(s) : I[n] = InsertStable(I[n - 1], s[n], dir, nullsMax, fields)
  BY <1>1, InsertionsEquation
<1>3. ASSUME T # {}
      PROVE  FALSE
  <2>1. T \subseteq Nat
    OBVIOUS
  <2> HIDE DEF T
  <2>2. PICK m \in T : \A y \in T : m <= y
    BY <1>3, <2>1, LeastNumber, Zenon
  <2> HIDE DEF I, Good
  <2>3. m \in 0..Len(s) /\ ~Good(m)
    BY <2>2 DEF T
  <2>4. m # 0
    <3>1. Good(0)
      BY <1>2, NoElement DEF Good
    <3> QED BY <2>3, <3>1
  <2>5. m - 1 \in 0..Len(s) /\ ~(m <= m - 1) /\ m \in 1..Len(s)
    BY <1>1, <2>3, <2>4
  <2>6. Good(m - 1)
    BY <2>2, <2>5 DEF T
  <2>7. I[m] = InsertStable(I[m - 1], s[m], dir, nullsMax, fields)
    BY <1>2, <2>5
  <2>8. /\ IsSequence(I[m]) /\ Len(I[m]) = Len(I[m - 1]) + 1
        /\ Range(I[m]) = Range(I[m - 1]) \cup {s[m]}
    BY <2>6, <2>7, InsertAdds DEF Good
  <2>9. Len(I[m]) = m
    BY <2>5, <2>6, <2>8 DEF Good
  <2>10. Range(I[m]) = {s[i] : i \in 1..m}
    <3>1. \A i \in 1..m : i \in 1..(m - 1) \/ i = m
      BY <2>5
    <3>2. 1..(m - 1) \subseteq 1..m /\ m \in 1..m
      BY <2>5
    <3> QED BY <2>6, <2>8, <3>1, <3>2 DEF Good
  <2> QED BY <2>3, <2>8, <2>9, <2>10 DEF Good
<1>4. Good(Len(s))
  <2>1. Len(s) \in 0..Len(s)
    BY <1>1
  <2> QED BY <1>3, <2>1
<1> QED BY <1>1, <1>4 DEF SortStable

\* The elements of a finite set, one after another.
LEMMA SetToSeqKeeps ==
  ASSUME NEW S, IsFiniteSet(S)
  PROVE  IsSequence(SetToSeq(S)) /\ Range(SetToSeq(S)) = S
<1> DEFINE n == Cardinality(S)
<1>1. n \in Nat /\ ExistsBijection(1..n, S)
  BY FS_CardinalityType
<1>2. PICK f : f \in Bijection(1..n, S)
  BY <1>1 DEF ExistsBijection
<1>3. f \in [1..n -> S] /\ IsInjective(f)
  BY <1>2 DEF Bijection, Injection, IsInjective
<1> DEFINE q == SetToSeq(S)
<1>4. q \in [1..n -> S] /\ IsInjective(q)
  BY <1>3 DEF SetToSeq
<1> HIDE DEF q
<1>5. q \in Injection(1..n, S)
  BY <1>4 DEF Injection, IsInjective
<1>6. IsFiniteSet(1..n) /\ Cardinality(1..n) = n
  BY <1>1, FS_Interval
<1>7. q \in Surjection(1..n, S)
  BY <1>5, <1>6, FS_Injection
<1>8. Range(q) = S
  BY <1>4, <1>7 DEF Surjection, Range
<1>9. IsSequence(q)
  BY <1>1, <1>4, MakesSequence
<1> QED BY <1>8, <1>9 DEF q

-----------------------------------------------------------------------------
(***************************************************************************)
(* The records of groups and their keys.                                   *)
(***************************************************************************)
\* The records of a sequence decide which groups are in it, not their order.
LEMMA KeyedRecords ==
  ASSUME NEW g, NEW s
  PROVE  /\ Keyed(g, s) <=> IsSequence(s) /\ \A r \in Range(s) : IsKeyed(g, r)
         /\ KeysIn(g, s) = {GroupKey(g, r) : r \in Range(s)}
  BY DEF Keyed, KeysIn, Range

\* Nothing is in the empty sequence.
LEMMA KeyedNone ==
  ASSUME NEW g
  PROVE  Keyed(g, <<>>) /\ KeysIn(g, <<>>) = {}
  BY NoElement, KeyedRecords

\* The groups of two sequences, one after the other.
LEMMA KeyedJoin ==
  ASSUME NEW g, NEW s, NEW t, Keyed(g, s), Keyed(g, t)
  PROVE  /\ Keyed(g, s \o t)
         /\ KeysIn(g, s \o t) = KeysIn(g, s) \cup KeysIn(g, t)
<1>1. IsSequence(s) /\ IsSequence(t)
  BY DEF Keyed
<1>2. IsSequence(s \o t) /\ Range(s \o t) = Range(s) \cup Range(t)
  BY <1>1, JoinSequences
<1>3. /\ \A r \in Range(s) : IsKeyed(g, r)
      /\ \A r \in Range(t) : IsKeyed(g, r)
  BY KeyedRecords
<1>4. Keyed(g, s \o t)
  BY <1>2, <1>3, KeyedRecords
<1>5. /\ KeysIn(g, s) = {GroupKey(g, r) : r \in Range(s)}
      /\ KeysIn(g, t) = {GroupKey(g, r) : r \in Range(t)}
      /\ KeysIn(g, s \o t) = {GroupKey(g, r) : r \in Range(s \o t)}
  BY KeyedRecords
<1> QED BY <1>2, <1>4, <1>5

\* The record of a group carries its key.
LEMMA RowKey ==
  ASSUME NEW g, IsGroupBy(g), NEW key \in [DOMAIN g.keys -> Nat], NEW row
  PROVE  /\ IsKeyed(g, RowRecord(g, key, row))
         /\ GroupKey(g, RowRecord(g, key, row)) = key
<1> DEFINE rec == RowRecord(g, key, row)
<1>1. ASSUME NEW i \in DOMAIN g.keys
      PROVE  g.keys[i].target \in DOMAIN rec /\ rec[g.keys[i].target] = key[i]
  <2> DEFINE f == g.keys[i].target
  <2>1. f \in DOMAIN rec
    BY DEF RowRecord
  <2>2. (CHOOSE j \in DOMAIN g.keys : g.keys[j].target = f) = i
    BY DEF IsGroupBy
  <2>3. rec[f] = key[CHOOSE j \in DOMAIN g.keys : g.keys[j].target = f]
    BY <2>1 DEF RowRecord
  <2> QED BY <2>1, <2>2, <2>3
<1> HIDE DEF rec
<1>2. IsKeyed(g, rec)
  BY <1>1 DEF IsKeyed
<1>3. GroupKey(g, rec) = key
  BY <1>1 DEF GroupKey
<1> QED BY <1>2, <1>3 DEF rec

\* The groups that are read from the table.
LEMMA TableKeys ==
  ASSUME NEW g, IsGroupBy(g), NEW a,
         NEW keys \in SUBSET [DOMAIN g.keys -> Nat], IsFiniteSet(keys)
  PROVE  /\ Keyed(g, TableRecords(g, a, keys))
         /\ KeysIn(g, TableRecords(g, a, keys)) = keys
<1> DEFINE Row(key) == RowRecord(g, key, a.table[key])
           S == {Row(key) : key \in keys}
           f == [key \in keys |-> Row(key)]
<1>1. \A key \in keys : IsKeyed(g, Row(key)) /\ GroupKey(g, Row(key)) = key
  BY RowKey
<1> HIDE DEF Row
<1>2. f \in Surjection(keys, S)
  BY DEF Surjection
<1>3. IsFiniteSet(S)
  BY <1>2, FS_Surjection
<1> HIDE DEF f
<1>4. IsSequence(SetToSeq(S)) /\ Range(SetToSeq(S)) = S
  BY <1>3, SetToSeqKeeps
<1>5. Keyed(g, SetToSeq(S))
  BY <1>1, <1>4, KeyedRecords
<1>6. KeysIn(g, SetToSeq(S)) = keys
  <2>1. KeysIn(g, SetToSeq(S)) = {GroupKey(g, r) : r \in S}
    BY <1>4, KeyedRecords
  <2> QED BY <1>1, <2>1
<1>7. TableRecords(g, a, keys) = SetToSeq(S)
  BY DEF TableRecords, Row
<1> QED BY <1>5, <1>6, <1>7

\* Sorting leaves the groups as they are.
LEMMA KeyedSort ==
  ASSUME NEW g, NEW s, NEW dir, NEW nullsMax, NEW fields, Keyed(g, s)
  PROVE  /\ Keyed(g, SortStable(s, dir, nullsMax, fields))
         /\ KeysIn(g, SortStable(s, dir, nullsMax, fields)) = KeysIn(g, s)
<1> DEFINE t == SortStable(s, dir, nullsMax, fields)
<1>1. IsSequence(s) /\ \A r \in Range(s) : IsKeyed(g, r)
  BY KeyedRecords
<1>2. IsSequence(t) /\ Range(t) = Range(s)
  BY <1>1, SortKeeps
<1> HIDE DEF t
<1>3. Keyed(g, t)
  BY <1>1, <1>2, KeyedRecords
<1>4. KeysIn(g, t) = KeysIn(g, s)
  BY <1>2, KeyedRecords
<1> QED BY <1>3, <1>4 DEF t

\* The same of the sort by the keys.
LEMMA KeyedSortByKeys ==
  ASSUME NEW g, NEW s, Keyed(g, s)
  PROVE  Keyed(g, SortByKeys(g, s)) /\ KeysIn(g, SortByKeys(g, s)) = KeysIn(g, s)
<1> DEFINE nullsMax == TRUE
           dir == g.dir
           fields == KeyTargets(g)
<1>1. SortByKeys(g, s) = SortStable(s, dir, nullsMax, fields)
  BY DEF SortByKeys
<1> HIDE DEF nullsMax, dir, fields
<1> QED BY <1>1, KeyedSort

\* Two values compare as equal when they are.
LEMMA SameValues ==
  ASSUME NEW nullsMax, NEW a \in Nat, NEW b \in Nat
  PROVE  CompareValues(nullsMax, a, b) = 0 <=> a = b
  BY DEF CompareValues, IsNull, Null, Absent

\* keysCompare says of two records that they are of one group exactly when
\* they are.
LEMMA SameGroup ==
  ASSUME NEW g, IsGroupBy(g), NEW ra, NEW rb, IsKeyed(g, ra), IsKeyed(g, rb)
  PROVE  KeysCompare(g, ra, rb) = 0 <=> GroupKey(g, ra) = GroupKey(g, rb)
<1>1. PICK n \in Nat : DOMAIN g.keys = 1..n
  BY DEF IsGroupBy
<1> DEFINE fields == KeyTargets(g)
           Differ(x, y) == {k \in DOMAIN fields :
                  CompareValues(TRUE, Eval(x, fields[k]), Eval(y, fields[k])) # 0}
<1>2. DOMAIN fields = 1..n /\ \A k \in 1..n : fields[k] = g.keys[k].target
  BY <1>1 DEF KeyTargets
<1> HIDE DEF fields
<1>3. ASSUME NEW x, NEW y, IsKeyed(g, x), IsKeyed(g, y)
      PROVE  Compare(TRUE, fields, x, y) = 0 <=> GroupKey(g, x) = GroupKey(g, y)
  <2>1. ASSUME NEW k \in 1..n
        PROVE  /\ Eval(x, fields[k]) = GroupKey(g, x)[k]
               /\ Eval(y, fields[k]) = GroupKey(g, y)[k]
               /\ GroupKey(g, x)[k] \in Nat /\ GroupKey(g, y)[k] \in Nat
    BY <1>1, <1>2, <1>3 DEF IsKeyed, Eval, GroupKey
  <2>2. GroupKey(g, x) = GroupKey(g, y) <=>
          \A k \in 1..n : GroupKey(g, x)[k] = GroupKey(g, y)[k]
    BY <1>1 DEF GroupKey
  <2>3. \A k \in 1..n :
          CompareValues(TRUE, Eval(x, fields[k]), Eval(y, fields[k])) = 0
            <=> GroupKey(g, x)[k] = GroupKey(g, y)[k]
    <3> SUFFICES ASSUME NEW k \in 1..n
                 PROVE  CompareValues(TRUE, Eval(x, fields[k]), Eval(y, fields[k])) = 0
                          <=> GroupKey(g, x)[k] = GroupKey(g, y)[k]
      OBVIOUS
    <3> DEFINE u == GroupKey(g, x)[k]
               v == GroupKey(g, y)[k]
    <3>1. u \in Nat /\ v \in Nat
      BY <2>1
    <3>2. Eval(x, fields[k]) = u /\ Eval(y, fields[k]) = v
      BY <2>1
    <3> HIDE DEF u, v
    <3>3. CompareValues(TRUE, u, v) = 0 <=> u = v
      BY <3>1, SameValues
    <3>4. CompareValues(TRUE, Eval(x, fields[k]), Eval(y, fields[k])) = 0 <=> u = v
      BY <3>2, <3>3, Zenon
    <3> QED BY <3>4 DEF u, v
  <2>4. Differ(x, y) = {} <=> GroupKey(g, x) = GroupKey(g, y)
    BY <1>2, <2>2, <2>3
  <2>5. CASE Differ(x, y) = {}
    BY <2>4, <2>5 DEF Compare
  <2>6. CASE Differ(x, y) # {}
    <3> DEFINE D == Differ(x, y)
    <3>1. D \subseteq Nat /\ D # {}
      <4>1. D \subseteq DOMAIN fields
        OBVIOUS
      <4>2. DOMAIN fields \subseteq Nat
        BY <1>2
      <4> HIDE DEF Differ
      <4> QED BY <2>6, <4>1, <4>2
    <3>2. \A k \in D : CompareValues(TRUE, Eval(x, fields[k]), Eval(y, fields[k])) # 0
      OBVIOUS
    <3>3. Compare(TRUE, fields, x, y) =
            CompareValues(TRUE, Eval(x, fields[Min(D)]), Eval(y, fields[Min(D)]))
      BY <2>6 DEF Compare
    <3> HIDE DEF D
    <3>4. \E k \in D : \A j \in D : k <= j
      BY <3>1, LeastNumber, Zenon
    <3>5. Min(D) \in D
      BY <3>4 DEF Min
    <3> QED BY <2>4, <2>6, <3>2, <3>3, <3>5
  <2> QED BY <2>5, <2>6
<1> HIDE DEF Differ
<1>4. CASE g.dir < 0
  BY <1>3, <1>4 DEF KeysCompare, Directed, fields
<1>5. CASE ~(g.dir < 0)
  BY <1>3, <1>5 DEF KeysCompare, Directed, fields
<1> QED BY <1>4, <1>5

-----------------------------------------------------------------------------
(***************************************************************************)
(* Spilling and reading the spills.                                        *)
(***************************************************************************)
\* spillTable moves every group of the table to disk.
LEMMA SpillMoves ==
  ASSUME NEW g, IsGroupBy(g), NEW a, IsAggregator(g, a), NEW eof
  PROVE  /\ IsAggregator(g, SpillTable(g, a, eof))
         /\ DOMAIN SpillTable(g, a, eof).table = {}
         /\ SpillTable(g, a, eof).err = a.err
         /\ Groups(g, SpillTable(g, a, eof)) = Groups(g, a)
<1> DEFINE b == SpillTable(g, a, eof)
           keys == DOMAIN a.table
           recs == SortByKeys(g, TableRecords(g, a, keys))
           runs == SortByKeys(g, a.runs \o recs)
<1>1. CASE keys = {}
  BY <1>1 DEF SpillTable
<1>2. CASE keys # {}
  <2>1. Keyed(g, recs) /\ KeysIn(g, recs) = keys
    BY TableKeys, KeyedSortByKeys DEF IsAggregator
  <2>2. Keyed(g, a.runs)
    BY DEF IsAggregator
  <2> HIDE DEF recs
  <2>3. Keyed(g, runs) /\ KeysIn(g, runs) = KeysIn(g, a.runs) \cup keys
    BY <2>1, <2>2, KeyedJoin, KeyedSortByKeys
  <2> HIDE DEF runs
  <2>4. PICK m : b = [WithoutKeys(a, keys) EXCEPT
                        !.spiller = TRUE, !.runs = runs, !.maxSpillKey = m]
    BY <1>2 DEF SpillTable, recs, runs
  <2>5. HasFields(a)
    BY DEF IsAggregator
  <2> HIDE DEF b
  <2>6. /\ HasFields(b)
        /\ DOMAIN b.table = {}
        /\ b.spiller = TRUE /\ b.runs = runs /\ b.out = a.out /\ b.err = a.err
    BY <2>4, <2>5 DEF HasFields, WithoutKeys
  <2>7. IsAggregator(g, b)
    BY <2>3, <2>6, FS_EmptySet DEF IsAggregator
  <2>8. Groups(g, b) = Groups(g, a)
    BY <2>3, <2>6 DEF Groups
  <2> QED BY <2>6, <2>7, <2>8 DEF b
<1> QED BY <1>1, <1>2

\* The front group of the runs: its records are the first ones, at least one.
LEMMA FrontOfRuns ==
  ASSUME NEW g, IsGroupBy(g), NEW runs, Keyed(g, runs), runs # <<>>
  PROVE  /\ FrontGroup(g, runs) \in 1..Len(runs)
         /\ \A i \in 1..FrontGroup(g, runs) :
              GroupKey(g, runs[i]) = GroupKey(g, runs[1])
<1> DEFINE S == {i \in DOMAIN runs : \A j \in 1..i : KeysCompare(g, runs[1], runs[j]) = 0}
           n == Cardinality(S)
<1>1. Len(runs) \in Nat /\ DOMAIN runs = 1..Len(runs)
  BY SequenceFacts DEF Keyed
<1>2. 1 \in 1..Len(runs)
  <2>1. Len(runs) # 0
    BY NoElement DEF Keyed
  <2> QED BY <1>1, <2>1
<1>3. \A i \in 1..Len(runs) : IsKeyed(g, runs[i])
  BY <1>1 DEF Keyed
<1>4. \A i \in 1..Len(runs) :
        KeysCompare(g, runs[1], runs[i]) = 0
          <=> GroupKey(g, runs[1]) = GroupKey(g, runs[i])
  BY <1>2, <1>3, SameGroup
<1>5. S \in SUBSET (1..Len(runs))
  BY <1>1
<1>6. 1 \in S
  <2>1. \A j \in 1..1 : j = 1
    OBVIOUS
  <2> QED BY <1>1, <1>2, <1>4, <2>1
<1>7. IsFiniteSet(S) /\ n \in 0..Len(runs)
  BY <1>1, <1>5, CountAmong
<1>8. n # 0
  BY <1>6, <1>7, FS_EmptySet
<1>9. ASSUME NEW i \in 1..n
      PROVE  i \in S
  <2>1. i \in 1..Len(runs)
    BY <1>1, <1>7
  <2>2. SUFFICES ASSUME i \notin S
                 PROVE  FALSE
    OBVIOUS
  <2>3. ASSUME NEW k \in S
        PROVE  k \in 1..(i - 1)
    <3>1. k \in 1..Len(runs) /\ \A j \in 1..k : KeysCompare(g, runs[1], runs[j]) = 0
      BY <1>1
    <3>2. i <= k => i \in S
      <4> SUFFICES ASSUME i <= k
                   PROVE  i \in S
        OBVIOUS
      <4>1. \A j \in 1..i : j \in 1..k
        BY <2>1, <3>1
      <4> QED BY <1>1, <2>1, <3>1, <4>1
    <3>3. ~(i <= k)
      BY <2>2, <3>2
    <3> QED BY <2>1, <3>1, <3>3
  <2> HIDE DEF S
  <2>4. S \in SUBSET (1..(i - 1)) /\ i - 1 \in Nat
    BY <2>1, <2>3
  <2>5. n <= i - 1
    BY <2>4, CountAmong
  <2> QED BY <1>7, <1>9, <2>5
<1>10. ASSUME NEW i \in 1..n
       PROVE  GroupKey(g, runs[i]) = GroupKey(g, runs[1])
  <2>1. i \in S
    BY <1>9
  <2>2. i \in 1..Len(runs) /\ i \in 1..i
    BY <1>5, <2>1
  <2>3. KeysCompare(g, runs[1], runs[i]) = 0
    BY <2>1, <2>2
  <2> QED BY <1>4, <2>2, <2>3
<1>11. FrontGroup(g, runs) = n
  BY DEF FrontGroup
<1> HIDE DEF n
<1>12. n \in 1..Len(runs)
  BY <1>1, <1>7, <1>8
<1> QED BY <1>10, <1>11, <1>12

\* readSpills moves the front group from disk to the output.
LEMMA ReadMoves ==
  ASSUME NEW g, IsGroupBy(g), NEW a, IsAggregator(g, a), a.runs # <<>>
  PROVE  /\ IsAggregator(g, ReadSpill(g, a))
         /\ ReadSpill(g, a).table = a.table
         /\ ReadSpill(g, a).err = a.err
         /\ ReadSpill(g, a).spiller = a.spiller
         /\ Groups(g, ReadSpill(g, a)) = Groups(g, a)
         /\ Len(ReadSpill(g, a).runs) < Len(a.runs)
<1> DEFINE b == ReadSpill(g, a)
           n == FrontGroup(g, a.runs)
           rec == SpilledRecord(g, a.runs)
           rest == SubSeq(a.runs, n + 1, Len(a.runs))
           key == GroupKey(g, a.runs[1])
<1>1. Keyed(g, a.runs) /\ Keyed(g, a.out) /\ HasFields(a)
  BY DEF IsAggregator
<1>2. /\ Len(a.runs) \in Nat /\ DOMAIN a.runs = 1..Len(a.runs)
      /\ Range(a.runs) = {a.runs[i] : i \in 1..Len(a.runs)}
  BY <1>1, SequenceFacts DEF Keyed
<1>3. n \in 1..Len(a.runs) /\ \A i \in 1..n : GroupKey(g, a.runs[i]) = key
  BY <1>1, FrontOfRuns
<1> HIDE DEF n
<1>4. 1 \in 1..Len(a.runs) /\ 1 \in 1..n
  BY <1>2, <1>3
<1>5. IsKeyed(g, a.runs[1])
  BY <1>1, <1>2, <1>4 DEF Keyed
<1>6. key \in [DOMAIN g.keys -> Nat]
  BY <1>5 DEF IsKeyed, GroupKey
<1>7. key = [i \in DOMAIN g.keys |-> Eval(a.runs[1], g.keys[i].target)]
  BY <1>5 DEF IsKeyed, GroupKey, Eval
<1> HIDE DEF key
<1>8. PICK row : rec = RowRecord(g, key, row)
  BY <1>7 DEF SpilledRecord
<1> HIDE DEF rec
<1>9. IsKeyed(g, rec) /\ GroupKey(g, rec) = key
  BY <1>6, <1>8, RowKey
<1>10. Keyed(g, <<rec>>) /\ KeysIn(g, <<rec>>) = {key}
  <2>1. IsSequence(<<rec>>) /\ Range(<<rec>>) = {rec}
    BY OneElement
  <2>2. Keyed(g, <<rec>>)
    BY <1>9, <2>1, KeyedRecords
  <2>3. KeysIn(g, <<rec>>) = {GroupKey(g, r) : r \in {rec}}
    BY <2>1, KeyedRecords
  <2> QED BY <1>9, <2>2, <2>3
<1>11. /\ IsSequence(rest) /\ Len(rest) = Len(a.runs) - n
       /\ Range(rest) = {a.runs[i] : i \in (n + 1)..Len(a.runs)}
  <2>1. /\ n + 1 \in 1..(Len(a.runs) + 1)
        /\ Len(a.runs) \in ((n + 1) - 1)..Len(a.runs)
        /\ Len(a.runs) - (n + 1) + 1 = Len(a.runs) - n
    BY <1>2, <1>3
  <2>2. IsSequence(a.runs)
    BY <1>1 DEF Keyed
  <2>3. /\ IsSequence(rest) /\ Len(rest) = Len(a.runs) - (n + 1) + 1
        /\ Range(rest) = {a.runs[i] : i \in (n + 1)..Len(a.runs)}
    BY <2>1, <2>2, PartSequence
  <2> QED BY <2>1, <2>3
<1> HIDE DEF rest
<1>12. Keyed(g, rest)
  <2>1. \A i \in (n + 1)..Len(a.runs) : i \in 1..Len(a.runs)
    BY <1>2, <1>3
  <2>2. \A r \in Range(rest) : IsKeyed(g, r)
    BY <1>1, <1>2, <1>11, <2>1 DEF Keyed
  <2> QED BY <1>11, <2>2, KeyedRecords
<1>13. KeysIn(g, a.runs) = {key} \cup KeysIn(g, rest)
  <2>1. \A i \in 1..Len(a.runs) : i \in 1..n \/ i \in (n + 1)..Len(a.runs)
    BY <1>2, <1>3
  <2>2. \A i \in (n + 1)..Len(a.runs) : i \in 1..Len(a.runs)
    BY <1>2, <1>3
  <2>3. KeysIn(g, a.runs) = {GroupKey(g, a.runs[i]) : i \in 1..Len(a.runs)}
    BY <1>2 DEF KeysIn
  <2>4. KeysIn(g, rest) = {GroupKey(g, r) : r \in Range(rest)}
    BY KeyedRecords
  <2>5. KeysIn(g, rest) = {GroupKey(g, a.runs[i]) : i \in (n + 1)..Len(a.runs)}
    BY <1>11, <2>4
  <2>6. key \in KeysIn(g, a.runs)
    BY <1>3, <1>4, <2>3
  <2> QED BY <1>3, <2>1, <2>2, <2>3, <2>5, <2>6
<1>14. b = [a EXCEPT !.out = Append(@, rec), !.runs = rest]
  BY DEF ReadSpill, rec, rest, n
<1>15. Append(a.out, rec) = a.out \o <<rec>>
  <2>1. a.out \in Seq(Range(a.out) \cup {rec}) /\ rec \in Range(a.out) \cup {rec}
    BY <1>1, SeqMonotonic DEF Keyed, IsSequence
  <2> QED BY <2>1, AppendIsConcat
<1>16. /\ Keyed(g, Append(a.out, rec))
       /\ KeysIn(g, Append(a.out, rec)) = KeysIn(g, a.out) \cup {key}
  BY <1>1, <1>10, <1>15, KeyedJoin
<1> HIDE DEF b
<1>17. /\ HasFields(b) /\ b.table = a.table /\ b.err = a.err /\ b.spiller = a.spiller
       /\ b.out = Append(a.out, rec) /\ b.runs = rest
  BY <1>1, <1>14 DEF HasFields
<1>18. IsAggregator(g, b)
  BY <1>12, <1>16, <1>17 DEF IsAggregator
<1>19. Groups(g, b) = Groups(g, a)
  BY <1>13, <1>16, <1>17 DEF Groups
<1>20. Len(b.runs) < Len(a.runs)
  BY <1>2, <1>3, <1>11, <1>17
<1> QED BY <1>17, <1>18, <1>19, <1>20 DEF b

\* The recursion of readSpills defines SpillReads.
LEMMA SpillReadsEquation ==
  ASSUME NEW g, NEW a, NEW eof, Len(a.runs) \in Nat
  PROVE  SpillReads(g, a, eof) =
           [n \in 0..Len(a.runs) |->
              IF n = 0 THEN a ELSE NextSpill(g, SpillReads(g, a, eof)[n - 1], eof)]
<1> DEFINE Read(x) == NextSpill(g, x, eof)
           L == Len(a.runs)
<1> HIDE DEF Read
<1> DEFINE Upto(m, f) == [n \in 0..m |-> IF n = 0 THEN a ELSE Read(f[n - 1])]
           T == {m \in 0..L : ~(\E f : f = Upto(m, f))}
<1>0. L \in Nat
  OBVIOUS
<1> HIDE DEF L
<1>1. ASSUME T # {}
      PROVE  FALSE
  <2>1. T \subseteq Nat
    BY <1>0
  <2> HIDE DEF T
  <2>2. PICK m \in T : \A y \in T : m <= y
    BY <1>1, <2>1, LeastNumber, Zenon
  <2>3. m \in 0..L /\ ~(\E f : f = Upto(m, f))
    BY <2>2 DEF T
  <2>4. m # 0
    <3> DEFINE f == [n \in 0..0 |-> a]
    <3>1. f = Upto(0, f)
      OBVIOUS
    <3> QED BY <2>3, <3>1
  <2>5. m - 1 \in 0..L /\ ~(m <= m - 1)
    BY <1>0, <2>3, <2>4
  <2>6. m - 1 \notin T
    BY <2>2, <2>5
  <2>7. PICK f : f = Upto(m - 1, f)
    BY <2>5, <2>6 DEF T
  <2> DEFINE h == [n \in 0..m |-> IF n = m THEN Read(f[m - 1]) ELSE f[n]]
  <2>8. ASSUME NEW n \in 0..m
        PROVE  h[n] = IF n = 0 THEN a ELSE Read(h[n - 1])
    <3>1. CASE n = m
      BY <1>0, <2>3, <2>4, <3>1
    <3>2. CASE n # m /\ n = 0
      BY <1>0, <2>3, <2>5, <2>7, <3>2
    <3>3. CASE n # m /\ n # 0
      <4>1. n \in 0..(m - 1) /\ n - 1 \in 0..m /\ n - 1 # m
        BY <1>0, <2>3, <3>3
      <4>2. h[n] = f[n] /\ h[n - 1] = f[n - 1]
        BY <3>3, <4>1
      <4>3. f[n] = Read(f[n - 1])
        <5> HIDE DEF h
        <5> QED BY <2>7, <3>3, <4>1
      <4> QED BY <3>3, <4>2, <4>3
    <3> QED BY <3>1, <3>2, <3>3
  <2>9. h = Upto(m, h)
    <3>1. h = [n \in 0..m |-> h[n]]
      OBVIOUS
    <3> HIDE DEF h
    <3> QED BY <2>8, <3>1
  <2> QED BY <2>3, <2>9
<1>2. \E f : f = [n \in 0..L |-> IF n = 0 THEN a ELSE Read(f[n - 1])]
  BY <1>0, <1>1
<1>3. \E f : f = [n \in 0..Len(a.runs) |->
                    IF n = 0 THEN a ELSE NextSpill(g, f[n - 1], eof)]
  BY <1>2 DEF Read, L
<1> QED BY <1>3 DEF SpillReads

\* readSpills loses no group and, at the end of the input, leaves none on disk.
LEMMA ReadsMove ==
  ASSUME NEW g, IsGroupBy(g), NEW a, IsAggregator(g, a), NEW eof
  PROVE  /\ IsAggregator(g, ReadSpills(g, a, eof))
         /\ ReadSpills(g, a, eof).table = a.table
         /\ ReadSpills(g, a, eof).err = a.err
         /\ Groups(g, ReadSpills(g, a, eof)) = Groups(g, a)
         /\ eof => ReadSpills(g, a, eof).runs = <<>>
<1> DEFINE R == SpillReads(g, a, eof)
           L == Len(a.runs)
           Good(n) == /\ IsAggregator(g, R[n])
                      /\ R[n].table = a.table /\ R[n].err = a.err
                      /\ Groups(g, R[n]) = Groups(g, a)
                      /\ eof => Len(R[n].runs) <= L - n
           T == {n \in 0..L : ~Good(n)}
<1>1. L \in Nat
  BY SequenceFacts DEF IsAggregator, Keyed
<1>2. R[0] = a /\ \A n \in 1..L : R[n] = NextSpill(g, R[n - 1], eof)
  BY <1>1, SpillReadsEquation
<1> HIDE DEF R
<1>3. ASSUME T # {}
      PROVE  FALSE
  <2>1. T \subseteq Nat
    BY <1>1
  <2> HIDE DEF T
  <2>2. PICK m \in T : \A y \in T : m <= y
    BY <1>3, <2>1, LeastNumber, Zenon
  <2> HIDE DEF L, Good
  <2>3. m \in 0..L /\ ~Good(m)
    BY <2>2 DEF T
  <2>4. m # 0
    <3>1. Len(a.runs) <= L - 0
      BY <1>1 DEF L
    <3>2. Good(0)
      BY <1>2, <3>1 DEF Good
    <3> QED BY <2>3, <3>2
  <2>5. m - 1 \in 0..L /\ ~(m <= m - 1) /\ m \in 1..L
    BY <1>1, <2>3, <2>4
  <2>6. Good(m - 1)
    BY <2>2, <2>5 DEF T
  <2> DEFINE x == R[m - 1]
  <2>7. IsAggregator(g, x) /\ R[m] = NextSpill(g, x, eof)
    BY <1>2, <2>5, <2>6 DEF Good
  <2>8. Len(x.runs) \in Nat
    BY <2>7, SequenceFacts DEF IsAggregator, Keyed
  <2>9. /\ x.table = a.table /\ x.err = a.err /\ Groups(g, x) = Groups(g, a)
        /\ eof => Len(x.runs) <= L - (m - 1)
    BY <2>6 DEF Good
  <2> HIDE DEF x
  <2>10. CASE SpillReady(g, x, eof)
    <3> DEFINE y == ReadSpill(g, x)
    <3>1. x.runs # <<>> /\ R[m] = y
      BY <2>7, <2>10 DEF SpillReady, NextSpill
    <3>2. /\ IsAggregator(g, y) /\ y.table = x.table /\ y.err = x.err
          /\ Groups(g, y) = Groups(g, x) /\ Len(y.runs) < Len(x.runs)
      BY <2>7, <3>1, ReadMoves
    <3>3. Len(y.runs) \in Nat
      BY <3>2, SequenceFacts DEF IsAggregator, Keyed
    <3> HIDE DEF y
    <3>4. eof => Len(y.runs) <= L - m
      BY <1>1, <2>5, <2>8, <2>9, <3>2, <3>3
    <3>5. Good(m)
      BY <2>9, <3>1, <3>2, <3>4 DEF Good
    <3> QED BY <2>3, <3>5
  <2>11. CASE ~SpillReady(g, x, eof)
    <3>1. R[m] = x
      BY <2>7, <2>11 DEF NextSpill
    <3>2. eof => x.runs = <<>>
      BY <2>11 DEF SpillReady
    <3>3. eof => Len(x.runs) <= L - m
      BY <1>1, <2>5, <3>2, NoElement
    <3>4. Good(m)
      BY <2>7, <2>9, <3>1, <3>3 DEF Good
    <3> QED BY <2>3, <3>4
  <2> QED BY <2>10, <2>11
<1>4. Good(L)
  <2>1. L \in 0..L
    BY <1>1
  <2> QED BY <1>3, <2>1
<1>5. ReadSpills(g, a, eof) = R[L]
  BY DEF ReadSpills, R
<1>6. eof => R[L].runs = <<>>
  <2>1. IsSequence(R[L].runs) /\ Len(R[L].runs) \in Nat
    BY <1>4, SequenceFacts DEF IsAggregator, Keyed
  <2>2. eof => Len(R[L].runs) = 0
    BY <1>1, <1>4, <2>1
  <2> QED BY <2>1, <2>2, NoElement
<1> HIDE DEF L
<1> QED BY <1>4, <1>5, <1>6

\* Groups of the table are sent.
Sent(a, keys, recs) == [WithoutKeys(a, keys) EXCEPT !.out = @ \o recs]

\* What is sent has left the table.
LEMMA SendMoves ==
  ASSUME NEW g, NEW a, IsAggregator(g, a), NEW keys \in SUBSET DOMAIN a.table,
         NEW recs, Keyed(g, recs), KeysIn(g, recs) = keys
  PROVE  /\ IsAggregator(g, Sent(a, keys, recs))
         /\ DOMAIN Sent(a, keys, recs).table = DOMAIN a.table \ keys
         /\ Sent(a, keys, recs).err = a.err /\ Sent(a, keys, recs).runs = a.runs
         /\ Groups(g, Sent(a, keys, recs)) = Groups(g, a)
<1> DEFINE b == Sent(a, keys, recs)
<1>0. b = [WithoutKeys(a, keys) EXCEPT !.out = @ \o recs]
  BY DEF Sent
<1> HIDE DEF b
<1>1. HasFields(a) /\ Keyed(g, a.out)
  BY DEF IsAggregator
<1>2. /\ HasFields(b)
      /\ DOMAIN b.table = DOMAIN a.table \ keys
      /\ b.spiller = a.spiller /\ b.runs = a.runs /\ b.err = a.err
      /\ b.out = a.out \o recs
  BY <1>0, <1>1 DEF HasFields, WithoutKeys
<1>3. Keyed(g, b.out) /\ KeysIn(g, b.out) = KeysIn(g, a.out) \cup keys
  <2>1. /\ Keyed(g, a.out \o recs)
        /\ KeysIn(g, a.out \o recs) = KeysIn(g, a.out) \cup KeysIn(g, recs)
    BY <1>1, KeyedJoin
  <2> QED BY <1>2, <2>1
<1>4. IsFiniteSet(DOMAIN b.table)
  BY <1>2, FS_Subset DEF IsAggregator
<1>5. IsAggregator(g, b)
  BY <1>2, <1>3, <1>4 DEF IsAggregator
<1>6. Groups(g, b) = Groups(g, a)
  BY <1>2, <1>3 DEF Groups
<1> QED BY <1>2, <1>5, <1>6 DEF b

\* After a batch: groups are sent, none is lost.
LEMMA BatchMoves ==
  ASSUME NEW g, IsGroupBy(g), NEW a, IsAggregator(g, a), a.err = "none"
  PROVE  /\ IsAggregator(g, AfterBatch(g, a))
         /\ DOMAIN AfterBatch(g, a).table \subseteq DOMAIN a.table
         /\ AfterBatch(g, a).err = "none"
         /\ Groups(g, AfterBatch(g, a)) = Groups(g, a)
<1> DEFINE b == AfterBatch(g, a)
<1>1. CASE g.dir = 0
  BY <1>1 DEF AfterBatch
<1>2. CASE g.dir # 0 /\ a.spiller
  <2> DEFINE eof == FALSE
  <2>1. b = ReadSpills(g, a, eof)
    BY <1>2 DEF AfterBatch
  <2> HIDE DEF eof
  <2> QED BY <2>1, ReadsMove
<1>3. CASE g.dir # 0 /\ ~a.spiller
  <2> DEFINE keys == Completed(g, a)
             nullsMax == TRUE
             dir == g.dir
             fields == <<g.keys[1].target>>
             recs == SortStable(TableRecords(g, a, keys), dir, nullsMax, fields)
  <2>1. b = Sent(a, keys, recs)
    BY <1>3 DEF AfterBatch, Sent
  <2> HIDE DEF nullsMax, dir, fields
  <2>2. keys \in SUBSET DOMAIN a.table
    BY DEF Completed
  <2> HIDE DEF keys
  <2>3. IsFiniteSet(keys) /\ keys \in SUBSET [DOMAIN g.keys -> Nat]
    BY <2>2, FS_Subset DEF IsAggregator
  <2>4. Keyed(g, recs) /\ KeysIn(g, recs) = keys
    BY <2>3, TableKeys, KeyedSort
  <2> HIDE DEF b, recs
  <2>5. IsAggregator(g, b) /\ DOMAIN b.table \subseteq DOMAIN a.table
        /\ b.err = "none" /\ Groups(g, b) = Groups(g, a)
    BY <2>1, <2>2, <2>4, SendMoves
  <2> QED BY <2>5 DEF b
<1> QED BY <1>1, <1>2, <1>3

\* At the end of the input: every group is sent.
LEMMA EndMoves ==
  ASSUME NEW g, IsGroupBy(g), NEW a, IsAggregator(g, a), a.err = "none"
  PROVE  /\ IsAggregator(g, AtEnd(g, a))
         /\ DOMAIN AtEnd(g, a).table = {} /\ AtEnd(g, a).runs = <<>>
         /\ AtEnd(g, a).err = "none"
         /\ Groups(g, AtEnd(g, a)) = Groups(g, a)
<1> DEFINE b == AtEnd(g, a)
<1>1. CASE a.spiller
  <2> DEFINE eof == TRUE
             c == SpillTable(g, a, eof)
  <2>1. b = ReadSpills(g, c, eof)
    BY <1>1 DEF AtEnd
  <2>2. eof
    OBVIOUS
  <2> HIDE DEF eof
  <2>3. /\ IsAggregator(g, c) /\ DOMAIN c.table = {} /\ c.err = "none"
        /\ Groups(g, c) = Groups(g, a)
    BY SpillMoves
  <2> HIDE DEF c
  <2> DEFINE d == ReadSpills(g, c, eof)
  <2>4. /\ IsAggregator(g, d) /\ d.table = c.table /\ d.err = c.err
        /\ Groups(g, d) = Groups(g, c)
    BY <2>3, ReadsMove
  <2>5. d.runs = <<>>
    BY <2>2, <2>3, ReadsMove, Zenon
  <2> QED BY <2>1, <2>3, <2>4, <2>5
<1>2. CASE ~a.spiller
  <2> DEFINE keys == DOMAIN a.table
             recs == TableRecords(g, a, keys)
  <2>1. b = Sent(a, keys, recs)
    BY <1>2 DEF AtEnd, Sent
  <2>2. Keyed(g, recs) /\ KeysIn(g, recs) = keys
    BY TableKeys DEF IsAggregator
  <2>3. a.runs = <<>>
    BY <1>2 DEF IsAggregator
  <2> HIDE DEF b, recs
  <2>4. /\ IsAggregator(g, b) /\ DOMAIN b.table = DOMAIN a.table \ keys
        /\ b.err = a.err /\ b.runs = a.runs /\ Groups(g, b) = Groups(g, a)
    BY <2>1, <2>2, SendMoves
  <2>5. DOMAIN a.table \ keys = {}
    OBVIOUS
  <2> QED BY <2>3, <2>4, <2>5 DEF b
<1> QED BY <1>1, <1>2

-----------------------------------------------------------------------------
(***************************************************************************)
(* Consuming a record.                                                     *)
(***************************************************************************)
\* The keys of a record that lacks none are values.
LEMMA KeyOfRecord ==
  ASSUME NEW g, IsGroupBy(g), NEW r, \A f \in DOMAIN r : r[f] \in Nat,
         ~Lacking(g, r)
  PROVE  KeyFor(g, r) \in [DOMAIN g.keys -> Nat]
<1>1. ASSUME NEW i \in DOMAIN g.keys
      PROVE  KeyValue(g.keys[i], r) \in Nat
  <2> DEFINE k == g.keys[i]
             v == Eval(r, k.source)
  <2>1. KeyValue(k, r) # Absent
    BY DEF Lacking, KeyFor
  <2>2. v \in Nat \/ v = Absent
    BY DEF Eval
  <2>3. k.trunc \in Nat
    BY DEF IsGroupBy
  <2>4. KeyValue(k, r) = IF k.trunc = 0 \/ IsNull(v) THEN v ELSE v - (v % k.trunc)
    BY DEF KeyValue
  <2> DEFINE t == k.trunc
  <2> HIDE DEF k, v, t
  <2>5. CASE k.trunc = 0 \/ IsNull(v)
    BY <2>1, <2>2, <2>4, <2>5 DEF k
  <2>6. CASE ~(k.trunc = 0 \/ IsNull(v))
    <3>1. v \in Nat /\ t \in Nat \ {0}
      BY <2>2, <2>3, <2>6 DEF IsNull, t
    <3>2. v - (v % t) \in Nat
      BY <3>1
    <3> QED BY <2>4, <2>6, <3>2 DEF t, k
  <2> QED BY <2>5, <2>6
<1> QED BY <1>1 DEF KeyFor

\* A record without one of the keys is passed over.  Any other one adds its
\* group, unless the table is full, the group is not in it and the reducers
\* cannot be spilled.  The table stays within its limit.
LEMMA ConsumeAdds ==
  ASSUME NEW g, IsGroupBy(g), NEW a, IsAggregator(g, a), a.err = "none",
         Cardinality(DOMAIN a.table) <= g.limit,
         NEW r, \A f \in DOMAIN r : r[f] \in Nat
  PROVE  /\ Lacking(g, r) => Consumed(g, a, r) = a
         /\ ~Lacking(g, r) =>
              /\ IsAggregator(g, Consumed(g, a, r))
              /\ Cardinality(DOMAIN Consumed(g, a, r).table) <= g.limit
              /\ \/ /\ Consumed(g, a, r).err = "none"
                    /\ Groups(g, Consumed(g, a, r)) = Groups(g, a) \cup {KeyFor(g, r)}
                 \/ /\ Consumed(g, a, r).err = "too big"
                    /\ Groups(g, Consumed(g, a, r)) = Groups(g, a)
                    /\ KeyFor(g, r) \notin DOMAIN a.table
                    /\ Cardinality(DOMAIN a.table) >= g.limit
                    /\ \E i \in DOMAIN g.reds : ~Decomposable(g.reds[i].op)
<1> DEFINE b == Consumed(g, a, r)
           key == KeyFor(g, r)
           a1 == IF g.dir = 0 THEN a
                 ELSE [a EXCEPT !.maxTableKey = LaterKey(g, @, key[1])]
           full == Full(g, a, key)
           eof == FALSE
           a2 == IF full THEN SpillTable(g, a1, eof) ELSE a1
           row == IF key \in DOMAIN a2.table THEN a2.table[key] ELSE NewRow(g)
           next == IF g.consumePart THEN RowConsumePart(g, row, r) ELSE RowConsume(g, row, r)
           stuck == full /\ \E i \in DOMAIN g.reds : ~Decomposable(g.reds[i].op)
           failed == [a1 EXCEPT !.err = "too big"]
           added == [a2 EXCEPT !.table =
                       [k \in DOMAIN @ \cup {key} |-> IF k = key THEN next ELSE @[k]]]
<1>1. b = IF \E i \in DOMAIN key : key[i] = Absent THEN a
          ELSE IF stuck THEN failed ELSE added
  BY Zenon DEF Consumed, KeyFor
<1>2. (\E i \in DOMAIN key : key[i] = Absent) <=> Lacking(g, r)
  BY DEF Lacking, KeyFor
<1> HIDE DEF b, next
<1>3. CASE Lacking(g, r)
  <2> HIDE DEF failed, added, stuck, key
  <2>1. b = a
    BY <1>1, <1>2, <1>3
  <2> QED BY <1>3, <2>1 DEF b
<1>4. CASE ~Lacking(g, r)
  <2>1. key \in [DOMAIN g.keys -> Nat]
    BY <1>4, KeyOfRecord
  <2> HIDE DEF key
  <2>2. IsAggregator(g, a1) /\ a1.table = a.table /\ a1.err = a.err /\ Groups(g, a1) = Groups(g, a)
    <3>1. CASE g.dir = 0
      BY <3>1
    <3>2. CASE g.dir # 0
      <4>1. PICK m : a1 = [a EXCEPT !.maxTableKey = m]
        BY <3>2
      <4> HIDE DEF a1
      <4>2. /\ HasFields(a1) /\ a1.table = a.table /\ a1.err = a.err
            /\ a1.spiller = a.spiller /\ a1.runs = a.runs /\ a1.out = a.out
        BY <4>1 DEF HasFields, IsAggregator
      <4> QED BY <4>2 DEF IsAggregator, Groups
    <3> QED BY <3>1, <3>2
  <2> HIDE DEF a1
  <2>3. /\ IsAggregator(g, a2) /\ a2.err = a.err /\ Groups(g, a2) = Groups(g, a)
        /\ full => DOMAIN a2.table = {}
        /\ ~full => a2 = a1
    <3>1. CASE full
      <4>1. a2 = SpillTable(g, a1, eof)
        BY <3>1
      <4> HIDE DEF eof
      <4>2. /\ IsAggregator(g, SpillTable(g, a1, eof))
            /\ DOMAIN SpillTable(g, a1, eof).table = {}
            /\ SpillTable(g, a1, eof).err = a1.err
            /\ Groups(g, SpillTable(g, a1, eof)) = Groups(g, a1)
        BY <2>2, SpillMoves
      <4> QED BY <2>2, <3>1, <4>1, <4>2
    <3>2. CASE ~full
      BY <2>2, <3>2
    <3> QED BY <3>1, <3>2
  <2> HIDE DEF a2
  <2>4. full <=> key \notin DOMAIN a.table /\ Cardinality(DOMAIN a.table) >= g.limit
    BY DEF Full
  <2> HIDE DEF full
  <2>5. CASE stuck
    <3>1. b = [a1 EXCEPT !.err = "too big"]
      BY <1>1, <1>2, <1>4, <2>5
    <3>2. /\ HasFields(b) /\ b.table = a1.table /\ b.err = "too big"
          /\ b.spiller = a1.spiller /\ b.runs = a1.runs /\ b.out = a1.out
      BY <2>2, <3>1 DEF HasFields, IsAggregator
    <3>3. IsAggregator(g, b) /\ Groups(g, b) = Groups(g, a)
      BY <2>2, <3>2 DEF IsAggregator, Groups
    <3>4. DOMAIN b.table = DOMAIN a.table
      BY <2>2, <3>2
    <3> QED BY <1>4, <2>4, <2>5, <3>2, <3>3, <3>4 DEF b, key
  <2>6. CASE ~stuck
    <3>1. b = [a2 EXCEPT !.table =
                 [k \in DOMAIN @ \cup {key} |-> IF k = key THEN next ELSE @[k]]]
      BY <1>1, <1>2, <1>4, <2>6
    <3> DEFINE K == DOMAIN a2.table
    <3>2. /\ HasFields(b) /\ DOMAIN b.table = K \cup {key} /\ b.err = "none"
          /\ b.spiller = a2.spiller /\ b.runs = a2.runs /\ b.out = a2.out
      BY <2>3, <3>1 DEF HasFields, IsAggregator
    <3>3. IsFiniteSet(K) /\ IsFiniteSet(DOMAIN a.table)
      BY <2>3 DEF IsAggregator
    <3>4. /\ IsFiniteSet(K \cup {key})
          /\ Cardinality(K \cup {key}) = IF key \in K THEN Cardinality(K) ELSE Cardinality(K) + 1
      BY <3>3, FS_AddElement
    <3>5. Cardinality(K) \in Nat /\ Cardinality(DOMAIN a.table) \in Nat /\ g.limit \in Nat \ {0}
      BY <3>3, FS_CardinalityType DEF IsGroupBy
    <3>6. Cardinality(K \cup {key}) <= g.limit
      <4>1. CASE full
        <5>1. Cardinality(K) = 0
          BY <2>3, <4>1, FS_EmptySet
        <5> QED BY <3>4, <3>5, <5>1
      <4>2. CASE ~full
        <5>1. K = DOMAIN a.table
          BY <2>2, <2>3, <4>2
        <5> HIDE DEF K
        <5>2. key \in K \/ ~(Cardinality(K) >= g.limit)
          BY <2>4, <4>2, <5>1
        <5>3. Cardinality(K) <= g.limit
          BY <5>1
        <5> QED BY <3>4, <3>5, <5>2, <5>3
      <4> QED BY <4>1, <4>2
    <3>7. IsAggregator(g, b)
      BY <2>1, <2>3, <3>2, <3>4 DEF IsAggregator
    <3>8. Groups(g, b) = Groups(g, a) \cup {key}
      BY <2>3, <3>2 DEF Groups
    <3> QED BY <1>4, <3>2, <3>6, <3>7, <3>8 DEF b, key
  <2> QED BY <2>5, <2>6
<1> QED BY <1>3, <1>4

-----------------------------------------------------------------------------
(***************************************************************************)
(* The invariant.                                                          *)
(***************************************************************************)
\* The keys of the results, and of the input, in the terms of the lemmas.
Complete(g, s) == {j \in DOMAIN s : ~Lacking(g, s[j])}
KeysOf(g, s) == {KeyFor(g, s[i]) : i \in Complete(g, s)}

\* The keys of the records are those of the input.
LEMMA KeysOfInput == KeysSeen = KeysOf(p, input)
<1>1. \A r : KeyOf(r) = KeyFor(p, r)
  BY DEF KeyOf, KeyFor
<1>2. ASSUME NEW j \in DOMAIN input
      PROVE  (\A k \in DOMAIN p.keys : KeyOf(input[j])[k] # Absent) <=> ~Lacking(p, input[j])
  BY <1>1 DEF Lacking
<1> QED BY <1>1, <1>2, Zenon DEF KeysSeen, KeysOf, Complete

\* No records, no keys.
LEMMA KeysOfNothing == ASSUME NEW g PROVE KeysOf(g, <<>>) = {}
BY DEF KeysOf, Complete

\* A record adds its group to the groups of the input, if it has the keys.
LEMMA KeysOfMore ==
  ASSUME NEW g, NEW s \in Seq(Inputs), NEW r \in Inputs
  PROVE  KeysOf(g, Append(s, r)) =
           IF Lacking(g, r) THEN KeysOf(g, s) ELSE KeysOf(g, s) \cup {KeyFor(g, r)}
<1> DEFINE t == Append(s, r)
           n == Len(s) + 1
<1>1. /\ DOMAIN s = 1..Len(s) /\ Len(s) \in Nat
      /\ DOMAIN t = 1..n /\ t[n] = r
      /\ \A i \in 1..Len(s) : t[i] = s[i]
  OBVIOUS
<1> HIDE DEF t
<1>2. DOMAIN t = DOMAIN s \cup {n}
  BY <1>1
<1>3. \A i \in DOMAIN s : t[i] = s[i]
  BY <1>1
<1>4. t[n] = r
  BY <1>1
<1> HIDE DEF n
<1>5. Complete(g, t) = IF Lacking(g, r) THEN Complete(g, s) ELSE Complete(g, s) \cup {n}
  <2>0. n \notin DOMAIN s
    BY <1>1 DEF n
  <2> QED BY <1>2, <1>3, <1>4, <2>0 DEF Complete
<1>6. \A i \in Complete(g, s) : t[i] = s[i]
  BY <1>3 DEF Complete
<1>7. KeysOf(g, t) = IF Lacking(g, r) THEN KeysOf(g, s) ELSE KeysOf(g, s) \cup {KeyFor(g, r)}
  BY <1>4, <1>5, <1>6 DEF KeysOf
<1> QED BY <1>7 DEF t

\* The groups of an input are finitely many.
LEMMA KeysOfFinite ==
  ASSUME NEW g, NEW s \in Seq(Inputs)
  PROVE  IsFiniteSet(KeysOf(g, s))
<1>1. IsFiniteSet(1..Len(s)) /\ Complete(g, s) \subseteq 1..Len(s)
  <2>1. Len(s) \in Nat /\ DOMAIN s = 1..Len(s)
    OBVIOUS
  <2> QED BY <2>1, FS_Interval DEF Complete
<1>2. IsFiniteSet(Complete(g, s))
  BY <1>1, FS_Subset
<1> DEFINE C == Complete(g, s)
           K == KeysOf(g, s)
           f == [i \in C |-> KeyFor(g, s[i])]
<1>3. f \in Surjection(C, K)
  <2>1. K = {KeyFor(g, s[i]) : i \in C}
    BY DEF KeysOf
  <2> HIDE DEF C, K
  <2> QED BY <2>1 DEF Surjection
<1> HIDE DEF C, K, f
<1>4. IsFiniteSet(K)
  BY <1>2, <1>3, FS_Surjection DEF C
<1> QED BY <1>4 DEF K

\* A group-by that starts has no groups, and neither has its input.
LEMMA AggInit == ASSUME Setting PROVE Init => AggInv
<1> SUFFICES ASSUME Init PROVE AggInv
  OBVIOUS
<1>1. IsGroupBy(p) /\ p \in GroupBys
  BY DEF Init, Setting
<1>2. /\ HasFields(agg) /\ agg.table = <<>> /\ agg.runs = <<>> /\ agg.out = <<>>
      /\ agg.err = "none"
  BY DEF Init, NewAggregator, HasFields
<1>3. DOMAIN agg.table = {}
  BY <1>2
<1>4. Keyed(p, <<>>) /\ KeysIn(p, <<>>) = {}
  BY KeyedNone
<1>5. IsFiniteSet({}) /\ Cardinality({}) = 0
  BY FS_EmptySet
<1>6. IsAggregator(p, agg)
  BY <1>2, <1>3, <1>4, <1>5 DEF IsAggregator
<1>7. Groups(p, agg) = {} /\ KeysSeen = {}
  <2>1. KeysSeen = {}
    BY KeysOfInput, KeysOfNothing DEF Init
  <2> QED BY <1>2, <1>3, <1>4, <2>1 DEF Groups
<1>8. Cardinality(DOMAIN agg.table) <= p.limit
  BY <1>1, <1>3, <1>5 DEF IsGroupBy
<1>9. input \in Seq(Inputs) /\ Len(input) <= MaxInput
  BY MaxInputAssumption DEF Init
<1> QED BY <1>1, <1>2, <1>6, <1>7, <1>8, <1>9 DEF AggInv, FailsOnlyTooBig, Init

\* A record that is consumed.
LEMMA ConsumeKeeps ==
  ASSUME Setting, AggInv, NEW r \in Inputs, ConsumeRecord(r)
  PROVE  AggInv'
<1> DEFINE b == Consumed(p, agg, r)
<1>1. /\ IsGroupBy(p) /\ p \in GroupBys /\ IsAggregator(p, agg) /\ agg.err = "none" /\ ~ended
      /\ Cardinality(DOMAIN agg.table) <= p.limit
      /\ \A f \in DOMAIN r : r[f] \in Nat
      /\ input \in Seq(Inputs)
      /\ Groups(p, agg) = KeysSeen
  BY DEF AggInv, Setting, ConsumeRecord
<1>2. /\ p' = p /\ agg' = b /\ input' = Append(input, r) /\ batch' = TRUE /\ ended' = FALSE
      /\ Len(input) < MaxInput
  BY <1>1 DEF ConsumeRecord, AggInv
<1>3. input' \in Seq(Inputs) /\ Len(input') <= MaxInput
  <2>1. Len(input') = Len(input) + 1 /\ Len(input) \in Nat /\ input' \in Seq(Inputs)
    BY <1>1, <1>2
  <2> QED BY <1>2, <2>1, MaxInputAssumption
<1> DEFINE K == KeysOf(p, input)
<1>4. KeysSeen = K
  BY KeysOfInput
<1>5. KeysSeen' = IF Lacking(p, r) THEN K ELSE K \cup {KeyFor(p, r)}
  <2>1. (KeysSeen = KeysOf(p, input))'
    BY KeysOfInput, PTL
  <2>2. KeysOf(p, Append(input, r)) = IF Lacking(p, r) THEN K ELSE K \cup {KeyFor(p, r)}
    BY <1>1, KeysOfMore
  <2> QED BY <1>2, <2>1, <2>2
<1>6. /\ Lacking(p, r) => b = agg
      /\ ~Lacking(p, r) =>
           /\ IsAggregator(p, b)
           /\ Cardinality(DOMAIN b.table) <= p.limit
           /\ \/ /\ b.err = "none"
                 /\ Groups(p, b) = Groups(p, agg) \cup {KeyFor(p, r)}
              \/ /\ b.err = "too big"
                 /\ Groups(p, b) = Groups(p, agg)
                 /\ KeyFor(p, r) \notin DOMAIN agg.table
                 /\ Cardinality(DOMAIN agg.table) >= p.limit
                 /\ \E i \in DOMAIN p.reds : ~Decomposable(p.reds[i].op)
  BY <1>1, ConsumeAdds
<1>7. IsFiniteSet(KeysOf(p, input))
  BY <1>1, KeysOfFinite
<1> HIDE DEF b, K
<1>8. /\ IsAggregator(p, b) /\ Cardinality(DOMAIN b.table) <= p.limit
      /\ b.err \in {"none", "too big"}
      /\ Groups(p, b) \subseteq KeysSeen'
      /\ b.err = "none" => Groups(p, b) = KeysSeen'
  BY <1>1, <1>4, <1>5, <1>6
<1>9. ASSUME b.err # "none"
      PROVE  /\ \E i \in DOMAIN p.reds : ~Decomposable(p.reds[i].op)
             /\ Cardinality(KeysSeen') > p.limit
  <2> DEFINE T == DOMAIN agg.table
             key == KeyFor(p, r)
             S == KeysSeen'
  <2>1. /\ ~Lacking(p, r) /\ b.err = "too big" /\ key \notin T /\ Cardinality(T) >= p.limit
        /\ \E i \in DOMAIN p.reds : ~Decomposable(p.reds[i].op)
    BY <1>1, <1>6, <1>9
  <2>2. S = K \cup {key} /\ T \subseteq K
    BY <1>1, <1>4, <1>5, <2>1 DEF Groups
  <2>3. IsFiniteSet(K) /\ IsFiniteSet(T)
    BY <1>1, <1>7 DEF IsAggregator, K
  <2> HIDE DEF T, key, S
  <2>4. IsFiniteSet(K \cup {key})
    BY <2>3, FS_AddElement
  <2>5. Cardinality(T \cup {key}) = Cardinality(T) + 1
    BY <2>1, <2>3, FS_AddElement
  <2>6. Cardinality(T \cup {key}) <= Cardinality(K \cup {key})
    <3>1. T \cup {key} \subseteq K \cup {key}
      BY <2>2
    <3> QED BY <2>4, <3>1, FS_Subset
  <2>7. Cardinality(T) \in Nat /\ Cardinality(K \cup {key}) \in Nat /\ p.limit \in Nat
    BY <1>1, <2>3, <2>4, FS_CardinalityType DEF IsGroupBy
  <2>8. Cardinality(S) > p.limit
    <3>1. Cardinality(K \cup {key}) > p.limit
      <4> DEFINE l == p.limit
                 m == Cardinality(T)
                 n == Cardinality(K \cup {key})
      <4>1. l \in Nat /\ m \in Nat /\ n \in Nat /\ m >= l /\ m + 1 <= n
        BY <2>1, <2>5, <2>6, <2>7
      <4> HIDE DEF l, m, n
      <4>2. n > l
        BY <4>1
      <4> QED BY <4>2 DEF l, n
    <3> QED BY <2>2, <3>1
  <2> QED BY <2>1, <2>8 DEF S
<1>10. FailsOnlyTooBig'
  BY <1>2, <1>9 DEF FailsOnlyTooBig
<1> QED BY <1>1, <1>2, <1>3, <1>8, <1>10 DEF AggInv

\* The steps that only move groups keep the groups of the input accounted for.
LEMMA MoveKeeps ==
  ASSUME Setting, AggInv, p' = p, input' = input, agg.err = "none",
         batch' \in BOOLEAN, ended' \in BOOLEAN,
         IsAggregator(p, agg'), agg'.err = "none",
         Groups(p, agg') = Groups(p, agg),
         DOMAIN agg'.table \subseteq DOMAIN agg.table,
         ended' => DOMAIN agg'.table = {} /\ agg'.runs = <<>>
  PROVE  AggInv'
<1>0. KeysSeen = KeysOf(p, input) /\ (KeysSeen = KeysOf(p, input))'
  BY KeysOfInput, PTL
<1>1. KeysSeen' = KeysSeen
  BY <1>0
<1>2. Cardinality(DOMAIN agg'.table) <= p.limit
  <2> DEFINE T == DOMAIN agg.table
             U == DOMAIN agg'.table
  <2>1. /\ IsFiniteSet(T) /\ U \subseteq T
        /\ Cardinality(T) <= p.limit /\ p.limit \in Nat
    BY DEF AggInv, IsAggregator, Setting, IsGroupBy
  <2> HIDE DEF T, U
  <2>2. IsFiniteSet(U) /\ Cardinality(U) <= Cardinality(T)
    BY <2>1, FS_Subset
  <2>3. Cardinality(T) \in Nat /\ Cardinality(U) \in Nat
    BY <2>1, <2>2, FS_CardinalityType
  <2>4. Cardinality(U) <= p.limit
    BY <2>1, <2>2, <2>3
  <2> QED BY <2>4 DEF U
<1>3. FailsOnlyTooBig'
  BY DEF FailsOnlyTooBig
<1> QED BY <1>1, <1>2, <1>3 DEF AggInv

\* Every step keeps the invariant.
LEMMA AggStep == ASSUME Setting, AggInv, [Next]_vars PROVE AggInv'
<1>0. IsGroupBy(p) /\ IsAggregator(p, agg)
  BY DEF AggInv, Setting
<1>1. ASSUME NEW r \in Inputs, ConsumeRecord(r)
      PROVE  AggInv'
  BY <1>1, ConsumeKeeps
<1>2. CASE SendCompleted
  <2>1. /\ p' = p /\ input' = input /\ agg.err = "none" /\ batch' = FALSE
        /\ ended' = FALSE /\ agg' = AfterBatch(p, agg)
    BY <1>2 DEF SendCompleted, AggInv
  <2>2. /\ IsAggregator(p, agg') /\ agg'.err = "none"
        /\ DOMAIN agg'.table \subseteq DOMAIN agg.table
        /\ Groups(p, agg') = Groups(p, agg)
    BY <1>0, <2>1, BatchMoves
  <2> QED BY <2>1, <2>2, MoveKeeps
<1>3. CASE SendRest
  <2>1. /\ p' = p /\ input' = input /\ agg.err = "none" /\ batch' = batch
        /\ batch \in BOOLEAN /\ ended' = TRUE /\ agg' = AtEnd(p, agg)
    BY <1>3 DEF SendRest, AggInv
  <2>2. /\ IsAggregator(p, agg') /\ agg'.err = "none"
        /\ DOMAIN agg'.table = {} /\ agg'.runs = <<>>
        /\ Groups(p, agg') = Groups(p, agg)
    BY <1>0, <2>1, EndMoves
  <2> QED BY <2>1, <2>2, MoveKeeps
<1>4. CASE UNCHANGED vars
  <2>1. p' = p /\ input' = input /\ agg' = agg /\ batch' = batch /\ ended' = ended
    BY <1>4 DEF vars
  <2>0. KeysSeen = KeysOf(p, input) /\ (KeysSeen = KeysOf(p, input))'
    BY KeysOfInput, PTL
  <2>2. KeysSeen' = KeysSeen
    BY <2>0, <2>1
  <2>3. FailsOnlyTooBig'
    BY <2>1, <2>2 DEF AggInv, FailsOnlyTooBig
  <2> QED BY <2>1, <2>2, <2>3 DEF AggInv
<1> QED BY <1>1, <1>2, <1>3, <1>4 DEF Next, Quit

-----------------------------------------------------------------------------
(***************************************************************************)
(* The theorems.                                                           *)
(***************************************************************************)
\* Whatever the group-by and its input, however the records come in batches
\* and however often the table is spilled, every group of the records consumed
\* is in the table, in a run on disk or among the results (Aggregator.Consume,
\* spillTable and Results of proc/groupby/groupby.go).
THEOREM AggregatorInvariant == Setting => (Spec => []AggInv)
<1> SUFFICES ASSUME Setting PROVE Spec => []AggInv
  OBVIOUS
<1>1. Init => AggInv
  BY AggInit
<1>2. AggInv /\ [Next]_vars => AggInv'
  BY AggStep
<1> QED BY <1>1, <1>2, PTL DEF Spec

\* The table stays within its limit, there are runs only once there is a
\* spiller, and no key is made up.
THEOREM GroupByTypeCorrect == Setting => (Spec => []TypeOK)
<1> SUFFICES ASSUME Setting PROVE Spec => []TypeOK
  OBVIOUS
<1>1. AggInv => TypeOK
  <2> SUFFICES ASSUME AggInv PROVE TypeOK
    OBVIOUS
  <2>1. DOMAIN agg.table \subseteq KeysSeen
    BY DEF AggInv, Groups
  <2>2. \A i \in DOMAIN agg.runs : OutKey(agg.runs[i]) \in KeysSeen
    <3>1. \A i \in DOMAIN agg.runs : OutKey(agg.runs[i]) = GroupKey(p, agg.runs[i])
      BY DEF OutKey, GroupKey
    <3> QED BY <3>1 DEF AggInv, Groups, KeysIn
  <2>3. ~agg.spiller => agg.runs = <<>>
    BY DEF AggInv, IsAggregator
  <2> QED BY <2>1, <2>2, <2>3 DEF AggInv, TypeOK
<1> QED BY <1>1, AggregatorInvariant, PTL

\* When the group-by has sent its last result, the groups among its results are
\* those of its input, and nothing is left in the table or on disk.
THEOREM NoGroupLost == Setting => (Spec => []NothingLost)
<1> SUFFICES ASSUME Setting PROVE Spec => []NothingLost
  OBVIOUS
<1>1. AggInv => NothingLost
  <2> SUFFICES ASSUME AggInv, ended PROVE
          /\ {OutKey(agg.out[i]) : i \in DOMAIN agg.out} = KeysSeen
          /\ DOMAIN agg.table = {} /\ agg.runs = <<>>
    BY DEF NothingLost
  <2>1. DOMAIN agg.table = {} /\ agg.runs = <<>> /\ Groups(p, agg) = KeysSeen
    BY DEF AggInv
  <2>2. KeysIn(p, agg.runs) = {}
    BY <2>1, KeyedNone
  <2>3. KeysIn(p, agg.out) = {OutKey(agg.out[i]) : i \in DOMAIN agg.out}
    BY Zenon DEF KeysIn, OutKey, GroupKey
  <2> QED BY <2>1, <2>2, <2>3 DEF Groups
<1> QED BY <1>1, AggregatorInvariant, PTL

\* The group-by fails only when a reducer cannot be decomposed and the input
\* has more groups than the table may hold (errTooBig).
THEOREM FailsForMemory == Setting => (Spec => []FailsOnlyTooBig)
<1> SUFFICES ASSUME Setting PROVE Spec => []FailsOnlyTooBig
  OBVIOUS
<1>1. AggInv => FailsOnlyTooBig
  BY DEF AggInv
<1> QED BY <1>1, AggregatorInvariant, PTL


-----------------------------------------------------------------------------
(***************************************************************************)
(* The order of values and of groups.                                      *)
(***************************************************************************)
\* valueCompare as an order.
Le(g, a, b) == ValueCompare(g, a, b) <= 0
Lt(g, a, b) == ValueCompare(g, a, b) < 0
Values == Nat \cup {Absent}

\* The order of keysCompare on the keys of groups.
KeyLess(g, K, L) ==
  \E i \in DOMAIN g.keys :
    /\ \A k \in DOMAIN g.keys : k < i => K[k] = L[k]
    /\ Lt(g, K[i], L[i])

\* Only a first key that keeps its name is declared sorted
\* (setGroupByProcInputSortDir), and to truncate a time makes no null of it.
SortsByKey(g) ==
  /\ g.dir \in Int
  /\ g.dir # 0 => 1 \in DOMAIN g.keys /\ g.keys[1].target = g.keys[1].source
OrderSetting ==
  /\ Setting
  /\ \A g \in GroupBys : SortsByKey(g)
  /\ \A g \in GroupBys, r \in Inputs :
       g.dir # 0 /\ ~IsNull(Eval(r, g.keys[1].source)) => ~IsNull(KeyValue(g.keys[1], r))

(***************************************************************************)
(* The runs are sorted and come after what was sent.  With sorted input    *)
(* the groups that were sent come before those in the table, before the    *)
(* greatest key of the table and, once there are runs, before the greatest *)
(* key that was spilled.                                                   *)
(***************************************************************************)
RunsSorted(g, runs) ==
  \A i, j \in DOMAIN runs : i < j => ~KeyLess(g, GroupKey(g, runs[j]), GroupKey(g, runs[i]))
OutDistinct(g, out) ==
  \A i, j \in DOMAIN out : i < j => GroupKey(g, out[i]) # GroupKey(g, out[j])
OutSorted(g, out) ==
  \A i, j \in DOMAIN out : i < j => Le(g, GroupKey(g, out[i])[1], GroupKey(g, out[j])[1])

Queued(g, a) ==
  /\ RunsSorted(g, a.runs)
  /\ OutDistinct(g, a.out)
  /\ \A K \in KeysIn(g, a.out), L \in KeysIn(g, a.runs) : KeyLess(g, K, L)
  /\ g.dir # 0 => OutSorted(g, a.out)

TableLater(g, a) ==
  /\ \A L \in DOMAIN a.table : a.maxTableKey \in Nat /\ Le(g, L[1], a.maxTableKey)
  /\ \A K \in KeysIn(g, a.out) :
       /\ a.maxTableKey \in Nat /\ Lt(g, K[1], a.maxTableKey)
       /\ \A L \in DOMAIN a.table : Lt(g, K[1], L[1])
SpillLater(g, a) ==
  /\ a.maxTableKey = NoKey \/ a.maxTableKey \in Nat
  /\ ~a.spiller => a.maxSpillKey = NoKey
  /\ a.spiller =>
       /\ a.maxSpillKey \in Nat /\ a.maxTableKey \in Nat
       /\ Le(g, a.maxSpillKey, a.maxTableKey)
       /\ \A L \in DOMAIN a.table : Le(g, a.maxSpillKey, L[1])
       /\ \A K \in KeysIn(g, a.out) : Lt(g, K[1], a.maxSpillKey)

Ordered(g, a) ==
  /\ Queued(g, a)
  /\ g.dir = 0 => a.out = <<>>
  /\ g.dir # 0 => TableLater(g, a) /\ SpillLater(g, a)

\* No record that is still to come is before the greatest key of the table.
NothingEarlier ==
  p.dir # 0 /\ agg.maxTableKey # NoKey =>
    /\ input # <<>>
    /\ agg.maxTableKey \in Nat
    /\ Le(p, agg.maxTableKey, KeyValue(p.keys[1], Last(input)))

\* After a batch the groups of the greatest key are all the table has.
OnlyLast ==
  p.dir # 0 /\ ~batch /\ ~agg.spiller =>
    \A L \in DOMAIN agg.table : Le(p, agg.maxTableKey, L[1])

OrderInv ==
  /\ OutDistinct(p, agg.out)
  /\ p.dir # 0 => OutSorted(p, agg.out)
  /\ ~ended /\ agg.err = "none" => Ordered(p, agg) /\ NothingEarlier /\ OnlyLast

\* valueCompare is a total preorder on the values, nulls included.
LEMMA ValueOrder ==
  ASSUME NEW g, g.dir \in Int, NEW a \in Values, NEW b \in Values
  PROVE  /\ ValueCompare(g, a, b) \in Int
         /\ Le(g, a, a)
         /\ ~Lt(g, a, b) <=> Le(g, b, a)
         /\ Lt(g, a, b) => Le(g, a, b) /\ a # b
         /\ a \in Nat /\ b \in Nat /\ ~Lt(g, a, b) /\ ~Lt(g, b, a) => a = b
<1>1. CASE g.dir < 0
  BY <1>1 DEF ValueCompare, CompareValues, IsNull, Null, Absent, Values, Le, Lt
<1>2. CASE ~(g.dir < 0)
  BY <1>2 DEF ValueCompare, CompareValues, IsNull, Null, Absent, Values, Le, Lt
<1> QED BY <1>1, <1>2

\* It is transitive.
LEMMA ValueOrderTransitive ==
  ASSUME NEW g, g.dir \in Int, NEW a \in Values, NEW b \in Values, NEW c \in Values
  PROVE  /\ Le(g, a, b) /\ Le(g, b, c) => Le(g, a, c)
         /\ Lt(g, a, b) /\ Le(g, b, c) => Lt(g, a, c)
         /\ Le(g, a, b) /\ Lt(g, b, c) => Lt(g, a, c)
<1>1. CASE g.dir < 0
  BY <1>1 DEF ValueCompare, CompareValues, IsNull, Null, Absent, Values, Le, Lt
<1>2. CASE ~(g.dir < 0)
  BY <1>2 DEF ValueCompare, CompareValues, IsNull, Null, Absent, Values, Le, Lt
<1> QED BY <1>1, <1>2

\* The later of a key that may be missing and a value.
LEMMA LaterOfTwo ==
  ASSUME NEW g, g.dir \in Int, NEW m, m = NoKey \/ m \in Nat, NEW v \in Nat
  PROVE  /\ LaterKey(g, m, v) \in Nat
         /\ LaterKey(g, m, v) \in {m, v}
         /\ Le(g, v, LaterKey(g, m, v))
         /\ m # NoKey => Le(g, m, LaterKey(g, m, v))
<1>1. CASE m = NoKey
  BY <1>1, ValueOrder DEF LaterKey, Values
<1>2. CASE m \in Nat
  <2>1. m # NoKey
    BY <1>2 DEF NoKey
  <2>2. ValueCompare(g, v, m) > 0 <=> ~Le(g, v, m)
    BY <1>2, ValueOrder DEF Le, Values
  <2>3. ~Le(g, v, m) => Le(g, m, v)
    BY <1>2, ValueOrder DEF Values
  <2>4. Le(g, m, m) /\ Le(g, v, v)
    BY <1>2, ValueOrder DEF Values
  <2> QED BY <1>2, <2>1, <2>2, <2>3, <2>4 DEF LaterKey
<1> QED BY <1>1, <1>2

\* The order of groups is strict and total.
LEMMA KeyOrder ==
  ASSUME NEW g, IsGroupBy(g), SortsByKey(g),
         NEW X \in [DOMAIN g.keys -> Nat], NEW Y \in [DOMAIN g.keys -> Nat]
  PROVE  /\ KeyLess(g, X, Y) => X # Y /\ ~KeyLess(g, Y, X)
         /\ X = Y \/ KeyLess(g, X, Y) \/ KeyLess(g, Y, X)
         /\ 1 \in DOMAIN g.keys =>
              /\ KeyLess(g, X, Y) => Le(g, X[1], Y[1])
              /\ Lt(g, X[1], Y[1]) => KeyLess(g, X, Y)
<1>1. PICK n \in Nat : DOMAIN g.keys = 1..n
  BY DEF IsGroupBy
<1>2. \A i \in 1..n : X[i] \in Values /\ Y[i] \in Values /\ X[i] \in Nat /\ Y[i] \in Nat
  BY <1>1 DEF Values
<1>3. g.dir \in Int
  BY DEF SortsByKey
<1>4. ASSUME NEW i \in 1..n
      PROVE  /\ ~Lt(g, X[i], Y[i]) <=> Le(g, Y[i], X[i])
             /\ Lt(g, X[i], Y[i]) => Le(g, X[i], Y[i]) /\ X[i] # Y[i]
             /\ ~Lt(g, Y[i], X[i]) <=> Le(g, X[i], Y[i])
             /\ Lt(g, Y[i], X[i]) => Le(g, Y[i], X[i]) /\ X[i] # Y[i]
             /\ ~Lt(g, X[i], Y[i]) /\ ~Lt(g, Y[i], X[i]) => X[i] = Y[i]
             /\ Le(g, X[i], X[i])
  <2>1. X[i] \in Values /\ Y[i] \in Values /\ X[i] \in Nat /\ Y[i] \in Nat
    BY <1>2
  <2> QED BY <1>3, <2>1, ValueOrder
<1>5. ASSUME KeyLess(g, X, Y)
      PROVE  X # Y /\ ~KeyLess(g, Y, X)
  <2>1. PICK i \in 1..n : (\A k \in 1..n : k < i => X[k] = Y[k]) /\ Lt(g, X[i], Y[i])
    BY <1>1, <1>5 DEF KeyLess
  <2>2. X[i] # Y[i] /\ ~Lt(g, Y[i], X[i])
    BY <1>4, <2>1
  <2>3. ASSUME KeyLess(g, Y, X)
        PROVE  FALSE
    <3>1. PICK j \in 1..n : (\A k \in 1..n : k < j => Y[k] = X[k]) /\ Lt(g, Y[j], X[j])
      BY <1>1, <2>3 DEF KeyLess
    <3>2. X[j] # Y[j]
      BY <1>4, <3>1
    <3>3. ~(i < j) /\ ~(j < i)
      BY <2>1, <2>2, <3>1, <3>2
    <3>4. i = j
      BY <3>3
    <3> QED BY <2>2, <3>1, <3>4
  <2> QED BY <2>2, <2>3
<1>6. ASSUME X # Y
      PROVE  KeyLess(g, X, Y) \/ KeyLess(g, Y, X)
  <2> DEFINE D == {i \in 1..n : X[i] # Y[i]}
  <2>0. \E i \in 1..n : X[i] # Y[i]
    BY <1>1, <1>6
  <2>1. D # {} /\ D \subseteq Nat
    BY <2>0
  <2>2. PICK i \in D : \A j \in D : i <= j
    BY <2>1, LeastNumber, Zenon
  <2>3. i \in 1..n /\ \A k \in 1..n : k < i => X[k] = Y[k]
    BY <2>2
  <2>4. Lt(g, X[i], Y[i]) \/ Lt(g, Y[i], X[i])
    BY <1>4, <2>2, <2>3
  <2>5. \A k \in 1..n : k < i => Y[k] = X[k]
    BY <2>3
  <2> HIDE DEF D
  <2> QED BY <1>1, <2>3, <2>4, <2>5, Zenon DEF KeyLess
<1>7. ASSUME 1 \in DOMAIN g.keys, KeyLess(g, X, Y)
      PROVE  Le(g, X[1], Y[1])
  <2>1. PICK i \in 1..n : (\A k \in 1..n : k < i => X[k] = Y[k]) /\ Lt(g, X[i], Y[i])
    BY <1>1, <1>7 DEF KeyLess
  <2>2. i = 1 \/ X[1] = Y[1]
    BY <1>1, <1>7, <2>1
  <2> QED BY <1>1, <1>4, <1>7, <2>1, <2>2
<1>8. ASSUME 1 \in DOMAIN g.keys, Lt(g, X[1], Y[1])
      PROVE  KeyLess(g, X, Y)
  <2>1. \A k \in DOMAIN g.keys : k < 1 => X[k] = Y[k]
    BY <1>1
  <2> QED BY <1>8, <2>1 DEF KeyLess
<1> QED BY <1>5, <1>6, <1>7, <1>8

\* It is transitive.
LEMMA KeyOrderTransitive ==
  ASSUME NEW g, IsGroupBy(g), SortsByKey(g),
         NEW X \in [DOMAIN g.keys -> Nat], NEW Y \in [DOMAIN g.keys -> Nat],
         NEW Z \in [DOMAIN g.keys -> Nat]
  PROVE  /\ KeyLess(g, X, Y) /\ KeyLess(g, Y, Z) => KeyLess(g, X, Z)
         /\ ~KeyLess(g, Y, X) /\ ~KeyLess(g, Z, Y) => ~KeyLess(g, Z, X)
         /\ KeyLess(g, X, Y) /\ ~KeyLess(g, Z, Y) => KeyLess(g, X, Z)
<1>1. PICK n \in Nat : DOMAIN g.keys = 1..n
  BY DEF IsGroupBy
<1>2. ASSUME KeyLess(g, X, Y), KeyLess(g, Y, Z)
      PROVE  KeyLess(g, X, Z)
  <2>1. PICK i \in 1..n : (\A k \in 1..n : k < i => X[k] = Y[k]) /\ Lt(g, X[i], Y[i])
    BY <1>1, <1>2 DEF KeyLess
  <2>2. PICK j \in 1..n : (\A k \in 1..n : k < j => Y[k] = Z[k]) /\ Lt(g, Y[j], Z[j])
    BY <1>1, <1>2 DEF KeyLess
  <2>3. CASE i < j
    <3>1. Lt(g, X[i], Z[i])
      BY <2>1, <2>2, <2>3
    <3>2. \A k \in 1..n : k < i => X[k] = Z[k]
      BY <2>1, <2>2, <2>3
    <3> QED BY <1>1, <3>1, <3>2 DEF KeyLess
  <2>4. CASE j < i
    <3>1. Lt(g, X[j], Z[j])
      BY <2>1, <2>2, <2>4
    <3>2. \A k \in 1..n : k < j => X[k] = Z[k]
      BY <2>1, <2>2, <2>4
    <3> QED BY <1>1, <3>1, <3>2 DEF KeyLess
  <2>5. CASE i = j
    <3>0. g.dir \in Int /\ X[i] \in Nat /\ Y[i] \in Nat /\ Z[i] \in Nat
      BY <1>1 DEF SortsByKey
    <3>1. Lt(g, X[i], Y[i]) /\ Lt(g, Y[i], Z[i])
      BY <2>1, <2>2, <2>5
    <3>2. Le(g, Y[i], Z[i])
      BY <3>0, <3>1, ValueOrder DEF Values
    <3>3. Lt(g, X[i], Z[i])
      BY <3>0, <3>1, <3>2, ValueOrderTransitive DEF Values
    <3>4. \A k \in 1..n : k < i => X[k] = Z[k]
      BY <2>1, <2>2, <2>5
    <3> QED BY <1>1, <3>3, <3>4 DEF KeyLess
  <2> QED BY <2>3, <2>4, <2>5
<1>3. /\ X = Y \/ KeyLess(g, X, Y) \/ KeyLess(g, Y, X)
      /\ Y = Z \/ KeyLess(g, Y, Z) \/ KeyLess(g, Z, Y)
      /\ KeyLess(g, Z, X) => ~KeyLess(g, X, Z) /\ X # Z
      /\ KeyLess(g, Z, Y) => ~KeyLess(g, Y, Z)
      /\ KeyLess(g, Y, X) => ~KeyLess(g, X, Y)
  BY KeyOrder
<1> QED BY <1>2, <1>3

\* keysCompare orders records as their keys are ordered.
LEMMA CompareByKey ==
  ASSUME NEW g, IsGroupBy(g), SortsByKey(g), NEW ra, NEW rb, IsKeyed(g, ra), IsKeyed(g, rb)
  PROVE  /\ KeysCompare(g, ra, rb) \in Int
         /\ KeysCompare(g, ra, rb) <= 0 <=> ~KeyLess(g, GroupKey(g, rb), GroupKey(g, ra))
<1>1. PICK n \in Nat : DOMAIN g.keys = 1..n
  BY DEF IsGroupBy
<1> DEFINE fields == KeyTargets(g)
           Differ(x, y) == {k \in DOMAIN fields :
                  CompareValues(TRUE, Eval(x, fields[k]), Eval(y, fields[k])) # 0}
           X(x, k) == GroupKey(g, x)[k]
           Value(x, y, k) == CompareValues(TRUE, X(x, k), X(y, k))
<1>2. DOMAIN fields = 1..n /\ \A k \in 1..n : fields[k] = g.keys[k].target
  BY <1>1 DEF KeyTargets
<1> HIDE DEF fields
<1>3. ASSUME NEW x, NEW y, IsKeyed(g, x), IsKeyed(g, y), GroupKey(g, x) # GroupKey(g, y)
      PROVE  \E i \in 1..n :
               /\ \A k \in 1..n : k < i => X(x, k) = X(y, k)
               /\ X(x, i) # X(y, i)
               /\ Compare(TRUE, fields, x, y) = Value(x, y, i)
  <2>1. ASSUME NEW k \in 1..n
        PROVE  /\ Eval(x, fields[k]) = X(x, k)
               /\ Eval(y, fields[k]) = X(y, k)
               /\ X(x, k) \in Nat /\ X(y, k) \in Nat
    BY <1>1, <1>2, <1>3 DEF IsKeyed, Eval, GroupKey
  <2>2. \E k \in 1..n : X(x, k) # X(y, k)
    BY <1>1, <1>3 DEF GroupKey
  <2> HIDE DEF X
  <2> DEFINE D == Differ(x, y)
  <2>3. D = {k \in 1..n : X(x, k) # X(y, k)}
    <3>1. ASSUME NEW k \in 1..n
          PROVE  CompareValues(TRUE, Eval(x, fields[k]), Eval(y, fields[k])) = 0
                   <=> X(x, k) = X(y, k)
      <4> DEFINE u == X(x, k)
                 v == X(y, k)
      <4>0. Eval(x, fields[k]) = u /\ Eval(y, fields[k]) = v
        BY <2>1
      <4>1. u \in Nat /\ v \in Nat
        BY <2>1
      <4> HIDE DEF u, v
      <4>2. CompareValues(TRUE, u, v) = 0 <=> u = v
        BY <4>1, SameValues
      <4>3. CompareValues(TRUE, Eval(x, fields[k]), Eval(y, fields[k])) = 0 <=> u = v
        BY <4>0, <4>2, Zenon
      <4> QED BY <4>3 DEF u, v
    <3> QED BY <1>2, <3>1
  <2>4. D # {} => Compare(TRUE, fields, x, y) =
          CompareValues(TRUE, Eval(x, fields[Min(D)]), Eval(y, fields[Min(D)]))
    BY DEF Compare
  <2> HIDE DEF D
  <2>5. D # {} /\ D \subseteq Nat
    BY <2>2, <2>3
  <2>6. \E k \in D : \A j \in D : k <= j
    BY <2>5, LeastNumber, Zenon
  <2>7. Min(D) \in D /\ \A j \in D : Min(D) <= j
    BY <2>6 DEF Min
  <2> DEFINE i == Min(D)
  <2>8. i \in 1..n /\ X(x, i) # X(y, i)
    BY <2>3, <2>7
  <2>9. \A k \in 1..n : k < i => X(x, k) = X(y, k)
    BY <2>3, <2>7, <2>8
  <2>10. Compare(TRUE, fields, x, y) = Value(x, y, i)
    BY <2>1, <2>4, <2>5, <2>8
  <2> HIDE DEF i, Value
  <2> QED BY <2>8, <2>9, <2>10
<1> DEFINE A == GroupKey(g, ra)
           B == GroupKey(g, rb)
<1>4. A \in [DOMAIN g.keys -> Nat] /\ B \in [DOMAIN g.keys -> Nat]
  BY DEF IsKeyed, GroupKey
<1>5. CASE A = B
  <2>1. KeysCompare(g, ra, rb) = 0
    BY <1>5, SameGroup
  <2>2. ~KeyLess(g, B, A)
    <3> HIDE DEF A, B
    <3> QED BY <1>4, <1>5, KeyOrder
  <2> QED BY <2>1, <2>2
<1>6. CASE A # B
  <2>1. \E i \in 1..n :
          /\ \A k \in 1..n : k < i => A[k] = B[k]
          /\ A[i] # B[i]
          /\ KeysCompare(g, ra, rb) = ValueCompare(g, A[i], B[i])
    <3>1. CASE g.dir < 0
      <4>1. KeysCompare(g, ra, rb) = Compare(TRUE, fields, rb, ra)
        BY <3>1 DEF KeysCompare, Directed, fields
      <4>2. \A u, v : ValueCompare(g, u, v) = CompareValues(TRUE, v, u)
        BY <3>1 DEF ValueCompare
      <4>3. PICK i \in 1..n :
               /\ \A k \in 1..n : k < i => X(rb, k) = X(ra, k)
               /\ X(rb, i) # X(ra, i)
               /\ Compare(TRUE, fields, rb, ra) = Value(rb, ra, i)
        <5>1. GroupKey(g, rb) # GroupKey(g, ra)
          BY <1>6
        <5> HIDE DEF X, Value
        <5> QED BY <1>3, <5>1
      <4> QED BY <4>1, <4>2, <4>3
    <3>2. CASE ~(g.dir < 0)
      <4>1. KeysCompare(g, ra, rb) = Compare(TRUE, fields, ra, rb)
        BY <3>2 DEF KeysCompare, Directed, fields
      <4>2. \A u, v : ValueCompare(g, u, v) = CompareValues(TRUE, u, v)
        BY <3>2 DEF ValueCompare
      <4>3. PICK i \in 1..n :
               /\ \A k \in 1..n : k < i => X(ra, k) = X(rb, k)
               /\ X(ra, i) # X(rb, i)
               /\ Compare(TRUE, fields, ra, rb) = Value(ra, rb, i)
        <5>1. GroupKey(g, ra) # GroupKey(g, rb)
          BY <1>6
        <5> HIDE DEF X, Value
        <5> QED BY <1>3, <5>1
      <4> QED BY <4>1, <4>2, <4>3
    <3> QED BY <3>1, <3>2
  <2> HIDE DEF A, B
  <2>2. PICK i \in 1..n :
          /\ \A k \in 1..n : k < i => A[k] = B[k]
          /\ A[i] # B[i]
          /\ KeysCompare(g, ra, rb) = ValueCompare(g, A[i], B[i])
    BY <2>1
  <2>3. A[i] \in Values /\ B[i] \in Values /\ A[i] \in Nat /\ B[i] \in Nat /\ g.dir \in Int
    BY <1>1, <1>4 DEF Values, SortsByKey
  <2>4. /\ ValueCompare(g, A[i], B[i]) \in Int
        /\ Le(g, A[i], B[i]) <=> ~Lt(g, B[i], A[i])
        /\ Lt(g, A[i], B[i]) \/ Lt(g, B[i], A[i])
    BY <2>2, <2>3, ValueOrder
  <2>5. Lt(g, A[i], B[i]) => KeyLess(g, A, B)
    BY <1>1, <2>2 DEF KeyLess
  <2>6. Lt(g, B[i], A[i]) => KeyLess(g, B, A)
    BY <1>1, <2>2 DEF KeyLess
  <2>7. KeyLess(g, A, B) => ~KeyLess(g, B, A)
    BY <1>4, KeyOrder
  <2>8. Le(g, A[i], B[i]) <=> ~KeyLess(g, B, A)
    BY <2>4, <2>5, <2>6, <2>7
  <2>9. KeysCompare(g, ra, rb) <= 0 <=> Le(g, A[i], B[i])
    BY <2>2 DEF Le
  <2> QED BY <2>2, <2>4, <2>8, <2>9 DEF A, B
<1> QED BY <1>5, <1>6

-----------------------------------------------------------------------------
(***************************************************************************)
(* The insertion sort sorts.                                               *)
(***************************************************************************)
\* A comparison of records that is a total preorder on some of them.
Orders(dir, nullsMax, fields, R) ==
  \A x, y, z \in R :
    /\ Directed(dir, nullsMax, fields, x, y) <= 0 \/ Directed(dir, nullsMax, fields, y, x) <= 0
    /\ /\ Directed(dir, nullsMax, fields, x, y) <= 0
       /\ Directed(dir, nullsMax, fields, y, z) <= 0
       => Directed(dir, nullsMax, fields, x, z) <= 0
Sorted(dir, nullsMax, fields, s) ==
  \A i, j \in DOMAIN s : i < j => Directed(dir, nullsMax, fields, s[i], s[j]) <= 0

\* Where an insertion puts its record: after the k records that are not later.
Place(s, r, dir, nullsMax, fields) ==
  Cardinality({i \in DOMAIN s : Directed(dir, nullsMax, fields, s[i], r) <= 0})
Between(s, r, k) == SubSeq(s, 1, k) \o <<r>> \o SubSeq(s, k + 1, Len(s))

\* A set of positions that has all those before each of its members.
LEMMA InitialSegment ==
  ASSUME NEW n \in Nat, NEW S \in SUBSET (1..n),
         \A i \in S : \A j \in 1..i : j \in S
  PROVE  /\ Cardinality(S) \in 0..n
         /\ S = 1..Cardinality(S)
<1> DEFINE c == Cardinality(S)
<1>1. IsFiniteSet(S) /\ c \in 0..n
  BY CountAmong
<1> HIDE DEF c
<1>2. ASSUME NEW i \in S
      PROVE  i \in 1..c
  <2>1. i \in 1..n /\ 1..i \subseteq S /\ i \in Nat
    OBVIOUS
  <2>2. IsFiniteSet(1..i) /\ Cardinality(1..i) = i
    BY <2>1, FS_Interval
  <2>3. Cardinality(1..i) <= Cardinality(S)
    BY <1>1, <2>1, FS_Subset
  <2> QED BY <1>1, <2>1, <2>2, <2>3 DEF c
<1>3. ASSUME NEW i \in 1..c
      PROVE  i \in S
  <2> SUFFICES ASSUME i \notin S PROVE FALSE
    OBVIOUS
  <2>1. i \in Nat /\ i >= 1 /\ i <= c /\ i - 1 \in Nat
    BY <1>1
  <2>2. ASSUME NEW j \in S
        PROVE  j \in 1..(i - 1)
    <3>1. j \in 1..n
      OBVIOUS
    <3>2. i <= j => i \in 1..j
      BY <2>1, <3>1
    <3>3. ~(i <= j)
      BY <3>2
    <3> QED BY <2>1, <3>1, <3>3
  <2>3. S \in SUBSET (1..(i - 1))
    BY <2>2
  <2>4. Cardinality(S) \in 0..(i - 1)
    BY <2>1, <2>3, CountAmong
  <2>5. c \in 0..(i - 1)
    BY <2>4 DEF c
  <2> QED BY <2>1, <2>5
<1> QED BY <1>1, <1>2, <1>3 DEF c

\* The elements of a sequence with a record put between.
LEMMA BetweenElements ==
  ASSUME NEW s, IsSequence(s), NEW r, NEW k \in 0..Len(s)
  PROVE  /\ IsSequence(Between(s, r, k)) /\ Len(Between(s, r, k)) = Len(s) + 1
         /\ \A i \in 1..(Len(s) + 1) :
              Between(s, r, k)[i] = IF i <= k THEN s[i] ELSE IF i = k + 1 THEN r ELSE s[i - 1]
<1> DEFINE a == SubSeq(s, 1, k)
           b == SubSeq(s, k + 1, Len(s))
           R == Range(s) \cup {r}
           L == Len(s)
<1>0. s \in Seq(R) /\ L \in Nat /\ k \in 0..L /\ r \in R
  BY SeqMonotonic, SequenceFacts DEF IsSequence
<1>1. a \in Seq(R) /\ Len(a) = k /\ \A i \in 1..k : a[i] = s[i]
  <2>1. 1 \in 1..(L + 1) /\ k \in (1 - 1)..L
    BY <1>0
  <2>2. /\ a \in Seq(R) /\ Len(a) = k - 1 + 1
        /\ \A i \in 1..(k - 1 + 1) : a[i] = s[1 + i - 1]
    BY <1>0, <2>1, SubSeqProperties
  <2> QED BY <1>0, <2>2
<1>2. b \in Seq(R) /\ Len(b) = L - k /\ \A i \in 1..(L - k) : b[i] = s[k + i]
  <2>1. k + 1 \in 1..(L + 1) /\ L \in ((k + 1) - 1)..L
    BY <1>0
  <2>2. /\ b \in Seq(R) /\ Len(b) = L - (k + 1) + 1
        /\ \A i \in 1..(L - (k + 1) + 1) : b[i] = s[(k + 1) + i - 1]
    BY <1>0, <2>1, SubSeqProperties
  <2>3. L - (k + 1) + 1 = L - k /\ \A i \in 1..(L - k) : (k + 1) + i - 1 = k + i
    BY <1>0
  <2> QED BY <2>2, <2>3
<1> HIDE DEF a, b, R, L
<1> DEFINE c == a \o <<r>>
<1>3. c \in Seq(R) /\ Len(c) = k + 1 /\ \A i \in 1..(k + 1) : c[i] = IF i <= k THEN s[i] ELSE r
  <2>1. <<r>> \in Seq(R) /\ Len(<<r>>) = 1 /\ <<r>>[1] = r
    BY <1>0
  <2> DEFINE d == <<r>>
  <2> HIDE DEF d
  <2>2. /\ a \o d \in Seq(R) /\ Len(a \o d) = Len(a) + Len(d)
        /\ \A i \in 1..(Len(a) + Len(d)) :
             (a \o d)[i] = IF i <= Len(a) THEN a[i] ELSE d[i - Len(a)]
    BY <1>1, <2>1, ConcatProperties DEF d
  <2>3. Len(d) = 1 /\ d[1] = r
    BY <2>1 DEF d
  <2>0. k \in Nat
    BY <1>0
  <2>4. \A i \in 1..(k + 1) : (i <= k /\ i \in 1..k) \/ (~(i <= k) /\ i - k = 1)
    BY <2>0
  <2>5. c = a \o d
    BY DEF d
  <2> HIDE DEF c
  <2> QED BY <1>1, <2>2, <2>3, <2>4, <2>5
<1> HIDE DEF c
<1> DEFINE u == c \o b
<1>4. /\ u \in Seq(R) /\ Len(u) = Len(c) + Len(b)
      /\ \A i \in 1..(Len(c) + Len(b)) : u[i] = IF i <= Len(c) THEN c[i] ELSE b[i - Len(c)]
  BY <1>2, <1>3, ConcatProperties
<1> HIDE DEF u
<1>5. Len(c) + Len(b) = L + 1
  BY <1>0, <1>2, <1>3
<1>6. ASSUME NEW i \in 1..(L + 1)
      PROVE  u[i] = IF i <= k THEN s[i] ELSE IF i = k + 1 THEN r ELSE s[i - 1]
  <2>1. CASE i <= k + 1
    <3>1. u[i] = c[i] /\ i \in 1..(k + 1)
      BY <1>0, <1>3, <1>4, <1>5, <2>1
    <3> QED BY <1>0, <1>3, <2>1, <3>1
  <2>2. CASE ~(i <= k + 1)
    <3>1. i - (k + 1) \in 1..(L - k) /\ k + (i - (k + 1)) = i - 1
      BY <1>0, <2>2
    <3>2. u[i] = b[i - (k + 1)]
      BY <1>3, <1>4, <1>5, <2>2
    <3>3. b[i - (k + 1)] = s[k + (i - (k + 1))]
      BY <1>2, <3>1
    <3>4. ~(i <= k) /\ i # k + 1
      BY <1>0, <2>2
    <3> QED BY <3>1, <3>2, <3>3, <3>4
  <2> QED BY <2>1, <2>2
<1>7. IsSequence(u) /\ Len(u) = L + 1
  <2>1. DOMAIN u = 1..(L + 1) /\ u = [i \in 1..(L + 1) |-> u[i]] /\ L + 1 \in Nat
    BY <1>0, <1>4, <1>5, LenProperties
  <2> QED BY <2>1, MakesSequence
<1>8. Between(s, r, k) = u
  BY DEF Between, u, c, a, b
<1> QED BY <1>6, <1>7, <1>8 DEF L

\* In a sorted sequence the records that are not later are the first ones.
LEMMA PlaceSplits ==
  ASSUME NEW s, NEW r, NEW dir, NEW nullsMax, NEW fields, IsSequence(s),
         Orders(dir, nullsMax, fields, Range(s) \cup {r}), Sorted(dir, nullsMax, fields, s)
  PROVE  LET k == Place(s, r, dir, nullsMax, fields) IN
         /\ InsertStable(s, r, dir, nullsMax, fields) = Between(s, r, k)
         /\ k \in 0..Len(s)
         /\ \A i \in 1..Len(s) : Directed(dir, nullsMax, fields, s[i], r) <= 0 <=> i <= k
<1> DEFINE S == {i \in DOMAIN s : Directed(dir, nullsMax, fields, s[i], r) <= 0}
           k == Place(s, r, dir, nullsMax, fields)
<1>1. Len(s) \in Nat /\ DOMAIN s = 1..Len(s) /\ \A i \in 1..Len(s) : s[i] \in Range(s)
  BY SequenceFacts DEF Range
<1>2. S \in SUBSET (1..Len(s)) /\ k = Cardinality(S)
  BY <1>1 DEF Place
<1>3. ASSUME NEW i \in S, NEW j \in 1..i
      PROVE  j \in S
  <2>1. i \in 1..Len(s) /\ j \in 1..Len(s) /\ (j < i \/ j = i)
    BY <1>1
  <2>2. CASE j < i
    <3>1. Directed(dir, nullsMax, fields, s[j], s[i]) <= 0
      BY <1>1, <2>1, <2>2 DEF Sorted
    <3>2. Directed(dir, nullsMax, fields, s[i], r) <= 0
      OBVIOUS
    <3>3. s[j] \in Range(s) \cup {r} /\ s[i] \in Range(s) \cup {r} /\ r \in Range(s) \cup {r}
      BY <1>1, <2>1
    <3>4. Directed(dir, nullsMax, fields, s[j], r) <= 0
      BY <3>1, <3>2, <3>3 DEF Orders
    <3> QED BY <1>1, <2>1, <3>4
  <2>3. CASE j = i
    BY <2>3
  <2> QED BY <2>1, <2>2, <2>3
<1>4. k \in 0..Len(s) /\ S = 1..k
  <2> HIDE DEF S, k
  <2> QED BY <1>1, <1>2, <1>3, InitialSegment
<1>5. ASSUME NEW i \in 1..Len(s)
      PROVE  Directed(dir, nullsMax, fields, s[i], r) <= 0 <=> i <= k
  <2>1. i \in S <=> Directed(dir, nullsMax, fields, s[i], r) <= 0
    BY <1>1
  <2> HIDE DEF S, k
  <2>2. i \in S <=> i <= k
    BY <1>4, <1>1
  <2> QED BY <2>1, <2>2
<1>6. InsertStable(s, r, dir, nullsMax, fields) = Between(s, r, k)
  BY DEF InsertStable, Between, Place
<1> QED BY <1>4, <1>5, <1>6

\* An insertion into a sorted sequence leaves it sorted.
LEMMA InsertSorts ==
  ASSUME NEW s, NEW r, NEW dir, NEW nullsMax, NEW fields, IsSequence(s),
         Orders(dir, nullsMax, fields, Range(s) \cup {r}), Sorted(dir, nullsMax, fields, s)
  PROVE  Sorted(dir, nullsMax, fields, InsertStable(s, r, dir, nullsMax, fields))
<1> DEFINE Dir(x, y) == Directed(dir, nullsMax, fields, x, y) <= 0
           k == Place(s, r, dir, nullsMax, fields)
           t == InsertStable(s, r, dir, nullsMax, fields)
           L == Len(s)
           R == Range(s) \cup {r}
<1>1. /\ t = Between(s, r, k) /\ k \in 0..L
      /\ \A i \in 1..L : Dir(s[i], r) <=> i <= k
  BY PlaceSplits
<1>2. L \in Nat /\ DOMAIN s = 1..L /\ \A i \in 1..L : s[i] \in R
  BY SequenceFacts DEF Range
<1>3. \A x, y \in R : Dir(x, y) \/ Dir(y, x)
  BY DEF Orders
<1>4. \A i, j \in 1..L : i < j => Dir(s[i], s[j])
  BY <1>2 DEF Sorted
<1> HIDE DEF Dir, k, t
<1>5. /\ IsSequence(t) /\ Len(t) = L + 1
      /\ \A i \in 1..(L + 1) : t[i] = IF i <= k THEN s[i] ELSE IF i = k + 1 THEN r ELSE s[i - 1]
  BY <1>1, BetweenElements
<1> HIDE DEF L
<1>6. DOMAIN t = 1..(L + 1)
  BY <1>5, SequenceFacts
<1>7. r \in R
  OBVIOUS
<1> HIDE DEF R
<1>8. ASSUME NEW i \in 1..(L + 1), NEW j \in 1..(L + 1), i < j
      PROVE  Dir(t[i], t[j])
  <2>1. CASE j <= k
    <3>1. t[i] = s[i] /\ t[j] = s[j] /\ i \in 1..L /\ j \in 1..L
      BY <1>1, <1>2, <1>5, <1>8, <2>1
    <3> QED BY <1>4, <1>8, <3>1
  <2>2. CASE j = k + 1
    <3>1. t[i] = s[i] /\ t[j] = r /\ i \in 1..L /\ i <= k
      BY <1>1, <1>2, <1>5, <1>8, <2>2
    <3> QED BY <1>1, <3>1
  <2>3. CASE ~(j <= k + 1)
    <3>1. t[j] = s[j - 1] /\ j - 1 \in 1..L /\ ~(j - 1 <= k)
      BY <1>1, <1>2, <1>5, <2>3
    <3>2. CASE i <= k
      <4>1. t[i] = s[i] /\ i \in 1..L /\ i < j - 1
        BY <1>1, <1>2, <1>5, <2>3, <3>2
      <4> QED BY <1>4, <3>1, <4>1
    <3>3. CASE i = k + 1
      <4>1. t[i] = r
        BY <1>1, <1>2, <1>5, <3>3
      <4>2. ~Dir(s[j - 1], r)
        BY <1>1, <3>1
      <4> QED BY <1>2, <1>3, <1>7, <3>1, <4>1, <4>2
    <3>4. CASE ~(i <= k + 1)
      <4>1. t[i] = s[i - 1] /\ i - 1 \in 1..L /\ i - 1 < j - 1
        BY <1>1, <1>2, <1>5, <1>8, <3>4
      <4> QED BY <1>4, <3>1, <4>1
    <3> QED BY <1>1, <1>2, <3>2, <3>3, <3>4
  <2> QED BY <1>1, <1>2, <2>1, <2>2, <2>3
<1> QED BY <1>6, <1>8 DEF Sorted, Dir, t

\* A part of the records is ordered too.
LEMMA OrdersPart ==
  ASSUME NEW dir, NEW nullsMax, NEW fields, NEW R, NEW S, S \subseteq R,
         Orders(dir, nullsMax, fields, R)
  PROVE  Orders(dir, nullsMax, fields, S)
  BY DEF Orders

\* The sort sorts, at each of its insertions.
LEMMA SortSorts ==
  ASSUME NEW s, NEW dir, NEW nullsMax, NEW fields, IsSequence(s),
         Orders(dir, nullsMax, fields, Range(s))
  PROVE  /\ \A n \in 0..Len(s) : LET t == Insertions(s, dir, nullsMax, fields)[n] IN
              /\ IsSequence(t) /\ Len(t) = n /\ Range(t) \subseteq Range(s)
              /\ Sorted(dir, nullsMax, fields, t)
         /\ Sorted(dir, nullsMax, fields, SortStable(s, dir, nullsMax, fields))
<1> DEFINE I == Insertions(s, dir, nullsMax, fields)
           Good(n) == /\ IsSequence(I[n]) /\ Len(I[n]) = n
                      /\ Range(I[n]) \subseteq Range(s)
                      /\ Sorted(dir, nullsMax, fields, I[n])
           T == {n \in 0..Len(s) : ~Good(n)}
<1>1. Len(s) \in Nat /\ \A i \in 1..Len(s) : s[i] \in Range(s)
  BY SequenceFacts DEF Range
<1>2. /\ I[0] = <<>>
      /\ \A n \in 1..Len(s) : I[n] = InsertStable(I[n - 1], s[n], dir, nullsMax, fields)
  BY <1>1, InsertionsEquation
<1>3. ASSUME T # {}
      PROVE  FALSE
  <2>1. T \subseteq Nat
    OBVIOUS
  <2> HIDE DEF T
  <2>2. PICK m \in T : \A y \in T : m <= y
    BY <1>3, <2>1, LeastNumber, Zenon
  <2> HIDE DEF I, Good
  <2>3. m \in 0..Len(s) /\ ~Good(m)
    BY <2>2 DEF T
  <2>4. m # 0
    <3>1. Sorted(dir, nullsMax, fields, <<>>)
      BY DEF Sorted
    <3>2. Good(0)
      BY <1>2, <3>1, NoElement DEF Good
    <3> QED BY <2>3, <3>2
  <2>5. m - 1 \in 0..Len(s) /\ ~(m <= m - 1) /\ m \in 1..Len(s)
    BY <1>1, <2>3, <2>4
  <2>6. Good(m - 1)
    BY <2>2, <2>5 DEF T
  <2> DEFINE u == I[m - 1]
             x == s[m]
  <2>7. I[m] = InsertStable(u, x, dir, nullsMax, fields)
    BY <1>2, <2>5
  <2>8. /\ IsSequence(u) /\ Len(u) = m - 1 /\ Range(u) \subseteq Range(s)
        /\ Sorted(dir, nullsMax, fields, u) /\ x \in Range(s)
    BY <1>1, <2>5, <2>6 DEF Good
  <2> HIDE DEF u, x
  <2>9. Orders(dir, nullsMax, fields, Range(u) \cup {x})
    BY <2>8, OrdersPart
  <2>10. /\ IsSequence(I[m]) /\ Len(I[m]) = Len(u) + 1 /\ Range(I[m]) = Range(u) \cup {x}
    BY <2>7, <2>8, InsertAdds
  <2>11. Sorted(dir, nullsMax, fields, I[m])
    BY <2>7, <2>8, <2>9, InsertSorts
  <2>12. Good(m)
    BY <2>5, <2>8, <2>10, <2>11 DEF Good
  <2> QED BY <2>3, <2>12
<1>4. \A n \in 0..Len(s) : Good(n)
  BY <1>3
<1>5. Len(s) \in 0..Len(s)
  BY <1>1
<1> QED BY <1>4, <1>5 DEF SortStable

\* A position of the sequence, and the key of the record there.
LEMMA KeyThere ==
  ASSUME NEW g, NEW s, Keyed(g, s)
  PROVE  /\ Len(s) \in Nat /\ DOMAIN s = 1..Len(s)
         /\ \A i \in DOMAIN s :
              /\ IsKeyed(g, s[i]) /\ GroupKey(g, s[i]) \in [DOMAIN g.keys -> Nat]
              /\ GroupKey(g, s[i]) \in KeysIn(g, s)
         /\ \A K \in KeysIn(g, s) :
              /\ K \in [DOMAIN g.keys -> Nat]
              /\ \E i \in DOMAIN s : K = GroupKey(g, s[i])
<1>1. Len(s) \in Nat /\ DOMAIN s = 1..Len(s)
  BY SequenceFacts DEF Keyed
<1>2. \A i \in DOMAIN s : IsKeyed(g, s[i])
  BY DEF Keyed
<1>3. \A i \in DOMAIN s : GroupKey(g, s[i]) \in [DOMAIN g.keys -> Nat]
  BY <1>2 DEF IsKeyed, GroupKey
<1> QED BY <1>1, <1>2, <1>3 DEF KeysIn

\* Records with keys are ordered by keysCompare, and the sort by the keys puts
\* them in the order of their keys.
LEMMA SortedByKeys ==
  ASSUME NEW g, IsGroupBy(g), SortsByKey(g), NEW s, Keyed(g, s)
  PROVE  /\ \A dir, nullsMax, fields :
              dir = g.dir /\ nullsMax = TRUE /\ fields = KeyTargets(g) =>
                Orders(dir, nullsMax, fields, Range(s))
         /\ RunsSorted(g, SortByKeys(g, s))
<1> DEFINE nullsMax == TRUE
           dir == g.dir
           fields == KeyTargets(g)
           t == SortByKeys(g, s)
<1>1. \A x, y : KeysCompare(g, x, y) = Directed(dir, nullsMax, fields, x, y)
  BY DEF KeysCompare
<1>2. t = SortStable(s, dir, nullsMax, fields)
  BY DEF SortByKeys
<1>3. IsSequence(s) /\ \A r \in Range(s) : IsKeyed(g, r)
  BY KeyedRecords
<1>9. \A e, m, f : e = g.dir /\ m = TRUE /\ f = KeyTargets(g) =>
         e = dir /\ m = nullsMax /\ f = fields
  OBVIOUS
<1> HIDE DEF nullsMax, dir, fields
<1>4. \A r \in Range(s) : GroupKey(g, r) \in [DOMAIN g.keys -> Nat]
  BY <1>3 DEF IsKeyed, GroupKey
<1>5. Orders(dir, nullsMax, fields, Range(s))
  <2> SUFFICES ASSUME NEW x \in Range(s), NEW y \in Range(s), NEW z \in Range(s)
               PROVE  /\ \/ Directed(dir, nullsMax, fields, x, y) <= 0
                         \/ Directed(dir, nullsMax, fields, y, x) <= 0
                      /\ /\ Directed(dir, nullsMax, fields, x, y) <= 0
                         /\ Directed(dir, nullsMax, fields, y, z) <= 0
                         => Directed(dir, nullsMax, fields, x, z) <= 0
    BY DEF Orders
  <2> DEFINE X == GroupKey(g, x)
             Y == GroupKey(g, y)
             Z == GroupKey(g, z)
  <2>1. IsKeyed(g, x) /\ IsKeyed(g, y) /\ IsKeyed(g, z)
    BY <1>3
  <2>2. /\ X \in [DOMAIN g.keys -> Nat] /\ Y \in [DOMAIN g.keys -> Nat]
        /\ Z \in [DOMAIN g.keys -> Nat]
    BY <1>4
  <2>3. /\ KeysCompare(g, x, y) <= 0 <=> ~KeyLess(g, Y, X)
        /\ KeysCompare(g, y, x) <= 0 <=> ~KeyLess(g, X, Y)
        /\ KeysCompare(g, y, z) <= 0 <=> ~KeyLess(g, Z, Y)
        /\ KeysCompare(g, x, z) <= 0 <=> ~KeyLess(g, Z, X)
    BY <2>1, CompareByKey
  <2> HIDE DEF X, Y, Z
  <2>4. KeyLess(g, X, Y) => ~KeyLess(g, Y, X)
    BY <2>2, KeyOrder
  <2>5. ~KeyLess(g, Y, X) /\ ~KeyLess(g, Z, Y) => ~KeyLess(g, Z, X)
    BY <2>2, KeyOrderTransitive
  <2> QED BY <1>1, <2>3, <2>4, <2>5
<1>6. Sorted(dir, nullsMax, fields, t)
  BY <1>2, <1>3, <1>5, SortSorts
<1>7. Keyed(g, t)
  BY KeyedSortByKeys
<1> HIDE DEF t
<1>8. RunsSorted(g, t)
  <2> SUFFICES ASSUME NEW i \in DOMAIN t, NEW j \in DOMAIN t, i < j
               PROVE  ~KeyLess(g, GroupKey(g, t[j]), GroupKey(g, t[i]))
    BY DEF RunsSorted
  <2>1. IsKeyed(g, t[i]) /\ IsKeyed(g, t[j])
    BY <1>7 DEF Keyed
  <2>2. Directed(dir, nullsMax, fields, t[i], t[j]) <= 0
    BY <1>6 DEF Sorted
  <2>3. KeysCompare(g, t[i], t[j]) <= 0
    BY <1>1, <2>2
  <2> QED BY <2>1, <2>3, CompareByKey
<1> QED BY <1>5, <1>8, <1>9 DEF t

\* The sort by the first key puts them in the order of that.
LEMMA SortedByFirst ==
  ASSUME NEW g, IsGroupBy(g), SortsByKey(g), 1 \in DOMAIN g.keys, NEW s, Keyed(g, s)
  PROVE  OutSorted(g, SortStable(s, g.dir, TRUE, <<g.keys[1].target>>))
<1> DEFINE nullsMax == TRUE
           dir == g.dir
           fields == <<g.keys[1].target>>
           t == SortStable(s, dir, nullsMax, fields)
           First(r) == GroupKey(g, r)[1]
<1>1. ASSUME NEW x, NEW y, IsKeyed(g, x), IsKeyed(g, y)
      PROVE  Directed(dir, nullsMax, fields, x, y) = ValueCompare(g, First(x), First(y))
  <2>1. /\ Eval(x, g.keys[1].target) = First(x) /\ Eval(y, g.keys[1].target) = First(y)
    BY <1>1 DEF IsKeyed, Eval, GroupKey
  <2> DEFINE f == g.keys[1].target
  <2>2. DOMAIN fields = {1} /\ fields[1] = f
    OBVIOUS
  <2> HIDE DEF fields, f
  <2>3. ASSUME NEW u, NEW v
        PROVE  Compare(TRUE, fields, u, v) = CompareValues(TRUE, Eval(u, f), Eval(v, f))
    <3> DEFINE D == {k \in DOMAIN fields :
                       CompareValues(TRUE, Eval(u, fields[k]), Eval(v, fields[k])) # 0}
               c == CompareValues(TRUE, Eval(u, f), Eval(v, f))
    <3>1. D = IF c # 0 THEN {1} ELSE {}
      BY <2>2
    <3>2. Min({1}) = 1
      BY DEF Min
    <3>3. Compare(TRUE, fields, u, v) =
            IF D = {} THEN 0
            ELSE CompareValues(TRUE, Eval(u, fields[Min(D)]), Eval(v, fields[Min(D)]))
      BY DEF Compare
    <3> HIDE DEF D
    <3> QED BY <2>2, <3>1, <3>2, <3>3
  <2>4. CASE g.dir < 0
    BY <2>1, <2>3, <2>4 DEF Directed, ValueCompare, f
  <2>5. CASE ~(g.dir < 0)
    BY <2>1, <2>3, <2>5 DEF Directed, ValueCompare, f
  <2> QED BY <2>4, <2>5
<1>2. IsSequence(s) /\ \A r \in Range(s) : IsKeyed(g, r)
  BY KeyedRecords
<1>3. \A r : IsKeyed(g, r) => First(r) \in Values
  BY DEF IsKeyed, GroupKey, Values
<1>4. g.dir \in Int
  BY DEF SortsByKey
<1>8. t = SortStable(s, g.dir, TRUE, <<g.keys[1].target>>)
  OBVIOUS
<1> HIDE DEF nullsMax, dir, fields, First
<1>5. Orders(dir, nullsMax, fields, Range(s))
  <2> SUFFICES ASSUME NEW x \in Range(s), NEW y \in Range(s), NEW z \in Range(s)
               PROVE  /\ \/ Directed(dir, nullsMax, fields, x, y) <= 0
                         \/ Directed(dir, nullsMax, fields, y, x) <= 0
                      /\ /\ Directed(dir, nullsMax, fields, x, y) <= 0
                         /\ Directed(dir, nullsMax, fields, y, z) <= 0
                         => Directed(dir, nullsMax, fields, x, z) <= 0
    BY DEF Orders
  <2>1. IsKeyed(g, x) /\ IsKeyed(g, y) /\ IsKeyed(g, z)
    BY <1>2
  <2>2. /\ Directed(dir, nullsMax, fields, x, y) <= 0 <=> Le(g, First(x), First(y))
        /\ Directed(dir, nullsMax, fields, y, x) <= 0 <=> Le(g, First(y), First(x))
        /\ Directed(dir, nullsMax, fields, y, z) <= 0 <=> Le(g, First(y), First(z))
        /\ Directed(dir, nullsMax, fields, x, z) <= 0 <=> Le(g, First(x), First(z))
    BY <1>1, <2>1 DEF Le
  <2>3. First(x) \in Values /\ First(y) \in Values /\ First(z) \in Values
    BY <1>3, <2>1
  <2>4. Le(g, First(x), First(y)) \/ Le(g, First(y), First(x))
    BY <1>4, <2>3, ValueOrder
  <2>5. Le(g, First(x), First(y)) /\ Le(g, First(y), First(z)) => Le(g, First(x), First(z))
    BY <1>4, <2>3, ValueOrderTransitive
  <2> QED BY <2>2, <2>4, <2>5
<1>6. Sorted(dir, nullsMax, fields, t)
  BY <1>2, <1>5, SortSorts
<1>7. Keyed(g, t)
  BY KeyedSort
<1> HIDE DEF t
<1>9. OutSorted(g, t)
  <2> SUFFICES ASSUME NEW i \in DOMAIN t, NEW j \in DOMAIN t, i < j
               PROVE  Le(g, GroupKey(g, t[i])[1], GroupKey(g, t[j])[1])
    BY DEF OutSorted
  <2>1. IsKeyed(g, t[i]) /\ IsKeyed(g, t[j])
    BY <1>7 DEF Keyed
  <2>2. Directed(dir, nullsMax, fields, t[i], t[j]) <= 0
    BY <1>6 DEF Sorted
  <2>3. ValueCompare(g, First(t[i]), First(t[j])) <= 0
    BY <1>1, <2>1, <2>2
  <2> QED BY <2>3 DEF Le, First
<1> QED BY <1>8, <1>9

\* A sequence as long as it has elements has each of them once.
LEMMA LongEnough ==
  ASSUME NEW s, IsSequence(s), IsFiniteSet(Range(s)), Cardinality(Range(s)) = Len(s)
  PROVE  \A i, j \in DOMAIN s : i # j => s[i] # s[j]
<1>1. /\ Len(s) \in Nat /\ DOMAIN s = 1..Len(s)
      /\ s = [i \in 1..Len(s) |-> s[i]]
      /\ Range(s) = {s[i] : i \in 1..Len(s)}
  BY SequenceFacts
<1> DEFINE R == Range(s)
           n == Len(s)
<1>2. IsFiniteSet(1..n) /\ Cardinality(1..n) = n
  <2>1. n \in Nat
    BY <1>1
  <2> HIDE DEF n
  <2> QED BY <2>1, FS_Interval
<1>3. s \in Surjection(1..n, R)
  <2>1. s \in [1..n -> R]
    BY <1>1
  <2>2. \A y \in R : \E i \in 1..n : s[i] = y
    BY <1>1
  <2> QED BY <2>1, <2>2 DEF Surjection
<1> HIDE DEF R, n
<1>4. Cardinality(R) = Cardinality(1..n)
  BY <1>2 DEF R, n
<1>5. s \in Injection(1..n, R)
  BY <1>2, <1>3, <1>4, FS_Surjection
<1> QED BY <1>1, <1>5 DEF Injection, IsInjective, n

\* Of a group there is one record among those read from the table, and among
\* them sorted.
LEMMA TableDistinct ==
  ASSUME NEW g, IsGroupBy(g), NEW a,
         NEW keys \in SUBSET [DOMAIN g.keys -> Nat], IsFiniteSet(keys)
  PROVE  /\ OutDistinct(g, TableRecords(g, a, keys))
         /\ \A dir, nullsMax, fields :
              OutDistinct(g, SortStable(TableRecords(g, a, keys), dir, nullsMax, fields))
<1> DEFINE Row(key) == RowRecord(g, key, a.table[key])
           S == {Row(key) : key \in keys}
           f == [key \in keys |-> Row(key)]
           q == TableRecords(g, a, keys)
<1>1. \A key \in keys : GroupKey(g, Row(key)) = key
  BY RowKey
<1>2. q = SetToSeq(S)
  BY DEF TableRecords
<1> HIDE DEF Row
<1>3. f \in Surjection(keys, S)
  BY DEF Surjection
<1>4. \A x, y \in S : GroupKey(g, x) = GroupKey(g, y) => x = y
  BY <1>1
<1> HIDE DEF f
<1>5. IsFiniteSet(S)
  BY <1>3, FS_Surjection
<1> HIDE DEF S
<1>6. IsSequence(q) /\ Range(q) = S
  BY <1>2, <1>5, SetToSeqKeeps
<1>7. Len(q) = Cardinality(S)
  <2>1. Cardinality(S) \in Nat
    BY <1>5, FS_CardinalityType
  <2>2. ExistsBijection(1..Cardinality(S), S)
    BY <1>5, FS_CardinalityType
  <2>3. PICK h : h \in Bijection(1..Cardinality(S), S)
    BY <2>2 DEF ExistsBijection
  <2>4. h \in [1..Cardinality(S) -> S] /\ IsInjective(h)
    BY <2>3 DEF Bijection, Injection, IsInjective
  <2>5. q \in [1..Cardinality(S) -> S]
    BY <1>2, <2>4 DEF SetToSeq
  <2> QED BY <1>6, <2>1, <2>5, MakesSequence
<1>8. ASSUME NEW t, IsSequence(t), Range(t) = S, Len(t) = Cardinality(S)
      PROVE  OutDistinct(g, t)
  <2>1. \A i, j \in DOMAIN t : i # j => t[i] # t[j]
    BY <1>5, <1>8, LongEnough
  <2>2. DOMAIN t \subseteq Nat /\ \A i \in DOMAIN t : t[i] \in S
    BY <1>8, SequenceFacts DEF Range
  <2>3. \A i, j \in DOMAIN t : i < j => i # j
    BY <2>2
  <2> QED BY <1>4, <2>1, <2>2, <2>3 DEF OutDistinct
<1>9. OutDistinct(g, q)
  BY <1>6, <1>7, <1>8
<1>10. ASSUME NEW dir, NEW nullsMax, NEW fields
       PROVE  OutDistinct(g, SortStable(q, dir, nullsMax, fields))
  <2> DEFINE t == SortStable(q, dir, nullsMax, fields)
  <2> HIDE DEF q
  <2>1. IsSequence(t) /\ Range(t) = S /\ Len(t) = Cardinality(S)
    BY <1>6, <1>7, SortKeeps
  <2> HIDE DEF t
  <2>2. OutDistinct(g, t)
    BY <1>8, <2>1
  <2> QED BY <2>2 DEF t
<1> QED BY <1>9, <1>10

-----------------------------------------------------------------------------
(***************************************************************************)
(* Spilling and reading the spills in order.                               *)
(***************************************************************************)
\* The first key of a group has been truncated.
Truncated(g, K) ==
  g.dir # 0 => \/ g.keys[1].trunc = 0
               \/ IsNull(K[1])
               \/ K[1] % g.keys[1].trunc = 0

\* The first key evaluates on a result to what the result has for it.
LEMMA KeyAgain ==
  ASSUME NEW g, IsGroupBy(g), SortsByKey(g), g.dir # 0, NEW r, IsKeyed(g, r),
         Truncated(g, GroupKey(g, r))
  PROVE  KeyValue(g.keys[1], r) = GroupKey(g, r)[1]
<1> DEFINE v == GroupKey(g, r)[1]
           t == g.keys[1].trunc
<1>1. 1 \in DOMAIN g.keys /\ g.keys[1].target = g.keys[1].source /\ t \in Nat
  BY DEF SortsByKey, IsGroupBy
<1>2. Eval(r, g.keys[1].source) = v /\ v \in Nat
  BY <1>1 DEF IsKeyed, Eval, GroupKey
<1>3. t = 0 \/ IsNull(v) \/ v % t = 0
  BY DEF Truncated
<1>4. KeyValue(g.keys[1], r) = IF t = 0 \/ IsNull(v) THEN v ELSE v - (v % t)
  BY <1>2 DEF KeyValue
<1> HIDE DEF v, t
<1>5. v - 0 = v
  BY <1>2
<1> QED BY <1>3, <1>4, <1>5 DEF v

\* The last record of a sequence is one of it.
LEMMA LastThere ==
  ASSUME NEW s, IsSequence(s), s # <<>>
  PROVE  Last(s) \in Range(s)
<1>1. Len(s) \in Nat /\ DOMAIN s = 1..Len(s)
  BY SequenceFacts
<1>2. Len(s) # 0
  BY NoElement
<1>3. Len(s) \in 1..Len(s)
  BY <1>1, <1>2
<1> QED BY <1>1, <1>3 DEF Last, Range

\* The table goes to disk in the order of its keys, behind what was sent.
LEMMA SpillSorts ==
  ASSUME NEW g, IsGroupBy(g), SortsByKey(g), NEW a, IsAggregator(g, a), NEW eof,
         Queued(g, a), DOMAIN a.table # {},
         \A L \in DOMAIN a.table : Truncated(g, L),
         \A K \in KeysIn(g, a.out), L \in DOMAIN a.table : KeyLess(g, K, L)
  PROVE  LET b == SpillTable(g, a, eof) IN
         /\ Queued(g, b)
         /\ b.out = a.out /\ b.spiller /\ b.maxTableKey = a.maxTableKey
         /\ KeysIn(g, b.runs) = KeysIn(g, a.runs) \cup DOMAIN a.table
         /\ \E L \in DOMAIN a.table :
              b.maxSpillKey = IF ~eof /\ g.dir # 0 THEN LaterKey(g, a.maxSpillKey, L[1])
                              ELSE a.maxSpillKey
<1> DEFINE b == SpillTable(g, a, eof)
           keys == DOMAIN a.table
           recs == SortByKeys(g, TableRecords(g, a, keys))
           runs == SortByKeys(g, a.runs \o recs)
           last == KeyValue(g.keys[1], Last(recs))
           m == IF ~eof /\ g.dir # 0 THEN LaterKey(g, a.maxSpillKey, last) ELSE a.maxSpillKey
<1>1. Keyed(g, recs) /\ KeysIn(g, recs) = keys
  BY TableKeys, KeyedSortByKeys DEF IsAggregator
<1>2. Keyed(g, a.runs) /\ HasFields(a)
  BY DEF IsAggregator
<1>3. b = [WithoutKeys(a, keys) EXCEPT
             !.spiller = TRUE, !.runs = runs, !.maxSpillKey = m]
  <2> DEFINE w == WithoutKeys(a, keys)
  <2>1. w.maxSpillKey = a.maxSpillKey
    BY <1>2 DEF HasFields, WithoutKeys
  <2>2. b = [w EXCEPT !.spiller = TRUE, !.runs = runs,
               !.maxSpillKey = IF ~eof /\ g.dir # 0 THEN LaterKey(g, w.maxSpillKey, last)
                               ELSE w.maxSpillKey]
    <3> HIDE DEF w
    <3>1. b = [w EXCEPT !.spiller = TRUE, !.runs = runs,
                 !.maxSpillKey = IF ~eof /\ g.dir # 0 THEN LaterKey(g, @, last) ELSE @]
      BY DEF SpillTable, w
    <3> HIDE DEF b, runs, last
    <3> QED BY <3>1
  <2> HIDE DEF w, b, runs, last
  <2>3. b = [w EXCEPT !.spiller = TRUE, !.runs = runs, !.maxSpillKey = m]
    BY <2>1, <2>2
  <2> QED BY <2>3 DEF w
<1> HIDE DEF recs, b
<1>4. Keyed(g, a.runs \o recs) /\ KeysIn(g, a.runs \o recs) = KeysIn(g, a.runs) \cup keys
  BY <1>1, <1>2, KeyedJoin
<1>5. Keyed(g, runs) /\ KeysIn(g, runs) = KeysIn(g, a.runs) \cup keys
  BY <1>4, KeyedSortByKeys
<1>6. RunsSorted(g, runs)
  BY <1>4, SortedByKeys
<1> HIDE DEF runs, m
<1>7. /\ b.spiller /\ b.runs = runs /\ b.out = a.out /\ b.maxTableKey = a.maxTableKey
      /\ b.maxSpillKey = m
  BY <1>2, <1>3 DEF HasFields, WithoutKeys
<1>8. Queued(g, b)
  BY <1>5, <1>6, <1>7 DEF Queued
<1>9. ASSUME ~eof /\ g.dir # 0
      PROVE  \E L \in keys : last = L[1]
  <2>1. recs # <<>>
    BY <1>1, KeyedNone
  <2>2. IsSequence(recs) /\ Last(recs) \in Range(recs)
    BY <1>1, <2>1, LastThere DEF Keyed
  <2>3. IsKeyed(g, Last(recs)) /\ GroupKey(g, Last(recs)) \in keys
    BY <1>1, <2>2, KeyedRecords
  <2>4. last = GroupKey(g, Last(recs))[1]
    BY <1>9, <2>3, KeyAgain
  <2> QED BY <2>3, <2>4
<1> HIDE DEF last
<1>10. \E L \in keys : m = IF ~eof /\ g.dir # 0 THEN LaterKey(g, a.maxSpillKey, L[1])
                           ELSE a.maxSpillKey
  BY <1>9 DEF m
<1> QED BY <1>5, <1>7, <1>8, <1>10 DEF b

\* Behind the front group of sorted runs there are later groups only.
LEMMA BehindFront ==
  ASSUME NEW g, IsGroupBy(g), SortsByKey(g), NEW runs, Keyed(g, runs), runs # <<>>,
         RunsSorted(g, runs)
  PROVE  \A i \in (FrontGroup(g, runs) + 1)..Len(runs) :
           KeyLess(g, GroupKey(g, runs[1]), GroupKey(g, runs[i]))
<1> DEFINE S == {i \in DOMAIN runs : \A j \in 1..i : KeysCompare(g, runs[1], runs[j]) = 0}
           n == Cardinality(S)
           L == Len(runs)
           Key(i) == GroupKey(g, runs[i])
<1>1. /\ L \in Nat /\ DOMAIN runs = 1..L
      /\ \A i \in 1..L : IsKeyed(g, runs[i]) /\ Key(i) \in [DOMAIN g.keys -> Nat]
  BY KeyThere
<1>2. 1 \in 1..L
  <2>1. L # 0
    BY NoElement DEF Keyed
  <2> QED BY <1>1, <2>1
<1>3. \A i \in 1..L : KeysCompare(g, runs[1], runs[i]) = 0 <=> Key(1) = Key(i)
  BY <1>1, <1>2, SameGroup
<1>4. S \in SUBSET (1..L) /\ \A i \in S : \A j \in 1..i : j \in S
  <2>1. ASSUME NEW i \in S, NEW j \in 1..i
        PROVE  j \in S
    <3>1. i \in 1..L /\ j \in 1..L /\ 1..j \subseteq 1..i
      BY <1>1
    <3> QED BY <1>1, <3>1
  <2> QED BY <1>1, <2>1
<1>5. FrontGroup(g, runs) = n
  BY DEF FrontGroup
<1>6. n \in 0..L /\ S = 1..n
  <2> HIDE DEF S
  <2> QED BY <1>1, <1>4, InitialSegment
<1> SUFFICES ASSUME NEW i \in (n + 1)..L
             PROVE  KeyLess(g, Key(1), Key(i))
  BY <1>5
<1>7. /\ n + 1 \in 1..L /\ n + 1 \notin S /\ i \in 1..L
      /\ (i = n + 1 \/ n + 1 < i)
  <2> HIDE DEF S, n
  <2> QED BY <1>1, <1>6
<1>8. PICK j \in 1..(n + 1) : KeysCompare(g, runs[1], runs[j]) # 0
  BY <1>1, <1>7
<1>9. j = n + 1
  <2>1. ASSUME j \in S
        PROVE  FALSE
    <3>1. j \in 1..j
      BY <1>6
    <3> QED BY <1>8, <2>1, <3>1
  <2> HIDE DEF S, n
  <2> QED BY <1>6, <1>8, <2>1
<1> HIDE DEF S, n, Key, L
<1>10. Key(n + 1) # Key(1) /\ 1 < n + 1
  <2>1. Key(n + 1) # Key(1)
    BY <1>3, <1>7, <1>8, <1>9
  <2>2. n + 1 # 1
    BY <2>1
  <2> QED BY <1>7, <2>1, <2>2
<1>11. ~KeyLess(g, Key(n + 1), Key(1)) /\ (n + 1 < i => ~KeyLess(g, Key(i), Key(n + 1)))
  BY <1>1, <1>2, <1>7, <1>10 DEF RunsSorted, Key, L
<1>12. KeyLess(g, Key(1), Key(n + 1))
  BY <1>1, <1>2, <1>7, <1>10, <1>11, KeyOrder
<1>13. CASE i = n + 1
  BY <1>12, <1>13
<1>14. CASE n + 1 < i
  BY <1>1, <1>2, <1>7, <1>11, <1>12, <1>14, KeyOrderTransitive
<1> QED BY <1>7, <1>13, <1>14

\* A sequence with one more element.
LEMMA AppendElements ==
  ASSUME NEW s, IsSequence(s), NEW r
  PROVE  /\ IsSequence(Append(s, r))
         /\ DOMAIN Append(s, r) = 1..(Len(s) + 1)
         /\ Append(s, r)[Len(s) + 1] = r
         /\ \A i \in 1..Len(s) : Append(s, r)[i] = s[i]
         /\ Range(Append(s, r)) = Range(s) \cup {r}
<1> DEFINE R == Range(s) \cup {r}
<1>1. s \in Seq(R) /\ r \in R /\ Len(s) \in Nat /\ Range(s) = {s[i] : i \in 1..Len(s)}
  BY SeqMonotonic, SequenceFacts DEF IsSequence
<1> HIDE DEF R
<1> DEFINE t == Append(s, r)
<1>2. /\ t \in Seq(R) /\ Len(t) = Len(s) + 1
      /\ t[Len(s) + 1] = r /\ \A i \in 1..Len(s) : t[i] = s[i]
  BY <1>1, AppendProperties
<1>3. DOMAIN t = 1..(Len(s) + 1) /\ t = [i \in 1..(Len(s) + 1) |-> t[i]]
  BY <1>1, <1>2, LenProperties
<1> HIDE DEF t
<1>4. IsSequence(t)
  <2>1. Len(s) + 1 \in Nat
    BY <1>1
  <2> QED BY <1>3, <2>1, MakesSequence
<1>5. Range(t) = Range(s) \cup {r}
  <2>1. \A i \in 1..(Len(s) + 1) : i \in 1..Len(s) \/ i = Len(s) + 1
    BY <1>1
  <2>2. 1..Len(s) \subseteq 1..(Len(s) + 1) /\ Len(s) + 1 \in 1..(Len(s) + 1)
    BY <1>1
  <2> QED BY <1>1, <1>2, <1>3, <2>1, <2>2 DEF Range
<1> QED BY <1>2, <1>3, <1>4, <1>5 DEF t

\* What is left of a sequence from a position on.
LEMMA RestElements ==
  ASSUME NEW s, IsSequence(s), NEW n \in 0..Len(s)
  PROVE  LET t == SubSeq(s, n + 1, Len(s)) IN
         /\ IsSequence(t) /\ Len(t) = Len(s) - n /\ DOMAIN t = 1..(Len(s) - n)
         /\ \A i \in 1..(Len(s) - n) : t[i] = s[n + i]
<1> DEFINE L == Len(s)
           t == SubSeq(s, n + 1, L)
<1>1. L \in Nat /\ s \in Seq(Range(s))
  BY SequenceFacts DEF IsSequence
<1>2. n + 1 \in 1..(L + 1) /\ L \in ((n + 1) - 1)..L /\ L - (n + 1) + 1 = L - n
  BY <1>1
<1>3. IsSequence(t) /\ Len(t) = L - (n + 1) + 1
  BY <1>2, PartSequence
<1>4. \A i \in 1..(L - (n + 1) + 1) : t[i] = s[(n + 1) + i - 1]
  BY <1>1, <1>2, SubSeqProperties
<1> HIDE DEF t, L
<1>5. \A i \in 1..(L - n) : (n + 1) + i - 1 = n + i
  BY <1>1
<1>6. DOMAIN t = 1..(L - n)
  BY <1>2, <1>3, SequenceFacts
<1>7. \A i \in 1..(L - n) : t[i] = s[n + i]
  BY <1>2, <1>4, <1>5
<1> QED BY <1>2, <1>3, <1>6, <1>7 DEF t, L

\* readSpills sends the front group, behind what was sent and before what is
\* left on disk.
LEMMA ReadSorts ==
  ASSUME NEW g, IsGroupBy(g), SortsByKey(g), NEW a, IsAggregator(g, a), a.runs # <<>>,
         Queued(g, a)
  PROVE  LET b == ReadSpill(g, a)
             K == GroupKey(g, a.runs[1]) IN
         /\ Queued(g, b)
         /\ b.maxTableKey = a.maxTableKey /\ b.maxSpillKey = a.maxSpillKey
         /\ K \in KeysIn(g, a.runs)
         /\ KeysIn(g, b.out) = KeysIn(g, a.out) \cup {K}
         /\ KeysIn(g, b.runs) \subseteq KeysIn(g, a.runs)
<1> DEFINE b == ReadSpill(g, a)
           n == FrontGroup(g, a.runs)
           L == Len(a.runs)
           rec == SpilledRecord(g, a.runs)
           rest == SubSeq(a.runs, n + 1, L)
           K == GroupKey(g, a.runs[1])
           Key(i) == GroupKey(g, a.runs[i])
<1>1. Keyed(g, a.runs) /\ Keyed(g, a.out) /\ HasFields(a) /\ IsSequence(a.runs) /\ IsSequence(a.out)
  BY DEF IsAggregator, Keyed
<1>2. /\ RunsSorted(g, a.runs) /\ OutDistinct(g, a.out)
      /\ \A X \in KeysIn(g, a.out), Y \in KeysIn(g, a.runs) : KeyLess(g, X, Y)
      /\ g.dir # 0 => OutSorted(g, a.out)
  BY DEF Queued
<1>3. /\ L \in Nat /\ DOMAIN a.runs = 1..L
      /\ \A i \in 1..L : IsKeyed(g, a.runs[i]) /\ Key(i) \in [DOMAIN g.keys -> Nat]
           /\ Key(i) \in KeysIn(g, a.runs)
  BY <1>1, KeyThere
<1>4. n \in 1..L /\ \A i \in 1..n : Key(i) = K
  BY <1>1, FrontOfRuns
<1>5. \A i \in (n + 1)..L : KeyLess(g, K, Key(i))
  BY <1>1, <1>2, BehindFront
<1>6. b = [a EXCEPT !.out = Append(@, rec), !.runs = rest]
  BY DEF ReadSpill
<1>7. K = [i \in DOMAIN g.keys |-> Eval(a.runs[1], g.keys[i].target)]
  <2>1. IsKeyed(g, a.runs[1])
    BY <1>3, <1>4
  <2> QED BY <2>1 DEF IsKeyed, GroupKey, Eval
<1>8. K \in [DOMAIN g.keys -> Nat] /\ K \in KeysIn(g, a.runs)
  <2>1. 1 \in 1..L
    BY <1>3, <1>4
  <2> QED BY <1>3, <2>1
<1> HIDE DEF K, Key, n, b
<1>9. IsKeyed(g, rec) /\ GroupKey(g, rec) = K
  <2>1. rec = RowRecord(g, K, SpilledRows(g, a.runs)[n])
    BY <1>7 DEF SpilledRecord, n
  <2> QED BY <1>8, <2>1, RowKey
<1> HIDE DEF rec
<1>10. /\ IsSequence(rest) /\ DOMAIN rest = 1..(L - n)
       /\ \A i \in 1..(L - n) : rest[i] = a.runs[n + i]
  BY <1>1, <1>3, <1>4, RestElements
<1> HIDE DEF rest
<1> DEFINE out == Append(a.out, rec)
           m == Len(a.out)
<1>11. /\ IsSequence(out) /\ DOMAIN out = 1..(m + 1) /\ out[m + 1] = rec
       /\ \A i \in 1..m : out[i] = a.out[i]
       /\ Range(out) = Range(a.out) \cup {rec}
  BY <1>1, AppendElements
<1>12. /\ m \in Nat /\ DOMAIN a.out = 1..m
       /\ \A i \in 1..m : /\ GroupKey(g, a.out[i]) \in KeysIn(g, a.out)
                          /\ GroupKey(g, a.out[i]) \in [DOMAIN g.keys -> Nat]
  BY <1>1, KeyThere
<1> HIDE DEF out, m
<1>13. b.out = out /\ b.runs = rest /\ b.maxTableKey = a.maxTableKey /\ b.maxSpillKey = a.maxSpillKey
  BY <1>1, <1>6 DEF HasFields, out
<1> HIDE DEF L
<1>14. \A i \in 1..(L - n) : n + i \in 1..L /\ n + i \in (n + 1)..L
  BY <1>3, <1>4
<1>15. KeysIn(g, rest) \subseteq KeysIn(g, a.runs) /\ \A Y \in KeysIn(g, rest) : KeyLess(g, K, Y)
  BY <1>3, <1>5, <1>10, <1>14 DEF KeysIn, Key
<1>16. RunsSorted(g, rest)
  <2> SUFFICES ASSUME NEW i \in 1..(L - n), NEW j \in 1..(L - n), i < j
               PROVE  ~KeyLess(g, GroupKey(g, rest[j]), GroupKey(g, rest[i]))
    BY <1>10 DEF RunsSorted
  <2>1. n + i < n + j /\ n + i \in 1..L /\ n + j \in 1..L
    BY <1>3, <1>4, <1>14
  <2> QED BY <1>2, <1>3, <1>10, <2>1 DEF RunsSorted
<1>17. KeysIn(g, out) = KeysIn(g, a.out) \cup {K}
  <2>1. KeysIn(g, out) = {GroupKey(g, r) : r \in Range(out)}
    BY KeyedRecords
  <2>2. KeysIn(g, a.out) = {GroupKey(g, r) : r \in Range(a.out)}
    BY KeyedRecords
  <2> QED BY <1>9, <1>11, <2>1, <2>2
<1>18. ASSUME NEW i \in 1..(m + 1), NEW j \in 1..(m + 1), i < j
       PROVE  /\ GroupKey(g, out[i]) # GroupKey(g, out[j])
              /\ g.dir # 0 => Le(g, GroupKey(g, out[i])[1], GroupKey(g, out[j])[1])
  <2>1. i \in 1..m /\ out[i] = a.out[i] /\ (j \in 1..m \/ j = m + 1)
    BY <1>11, <1>12, <1>18
  <2>2. CASE j \in 1..m
    <3>1. out[j] = a.out[j]
      BY <1>11, <2>2
    <3> QED BY <1>2, <1>12, <1>18, <2>1, <2>2, <3>1 DEF OutDistinct, OutSorted
  <2>3. CASE j = m + 1
    <3> DEFINE X == GroupKey(g, a.out[i])
    <3>1. X \in KeysIn(g, a.out) /\ X \in [DOMAIN g.keys -> Nat]
      BY <1>12, <2>1
    <3>2. GroupKey(g, out[j]) = K /\ GroupKey(g, out[i]) = X
      BY <1>9, <1>11, <2>1, <2>3
    <3> HIDE DEF X
    <3>3. KeyLess(g, X, K)
      BY <1>2, <1>8, <3>1
    <3>4. X # K /\ (1 \in DOMAIN g.keys => Le(g, X[1], K[1]))
      BY <1>8, <3>1, <3>3, KeyOrder
    <3> QED BY <3>2, <3>4 DEF SortsByKey
  <2> QED BY <2>1, <2>2, <2>3
<1>19. OutDistinct(g, out) /\ (g.dir # 0 => OutSorted(g, out))
  BY <1>11, <1>18 DEF OutDistinct, OutSorted
<1>20. \A X \in KeysIn(g, out), Y \in KeysIn(g, rest) : KeyLess(g, X, Y)
  BY <1>2, <1>15, <1>17
<1>21. Queued(g, b)
  BY <1>13, <1>16, <1>19, <1>20 DEF Queued
<1> QED BY <1>8, <1>13, <1>15, <1>17, <1>21 DEF b, K

\* What readSpills has made of an aggregator a after some of its readings.
ReadSoFar(g, a, eof, b) ==
  /\ IsAggregator(g, b) /\ Queued(g, b)
  /\ b.table = a.table /\ b.spiller = a.spiller
  /\ b.maxTableKey = a.maxTableKey /\ b.maxSpillKey = a.maxSpillKey
  /\ KeysIn(g, b.runs) \subseteq KeysIn(g, a.runs)
  /\ \A K \in KeysIn(g, b.out) :
       \/ K \in KeysIn(g, a.out)
       \/ /\ K \in KeysIn(g, a.runs)
          /\ ~eof => g.dir # 0 /\ Lt(g, K[1], a.maxSpillKey)

\* Without the end of the input a group is read that is before the last key
\* that was spilled.
Early(g, a, eof, K) == ~eof => g.dir # 0 /\ Lt(g, K[1], a.maxSpillKey)

\* One reading more.
LEMMA ReadOneMore ==
  ASSUME NEW g, IsGroupBy(g), SortsByKey(g), NEW a, NEW eof, NEW b,
         \A K \in KeysIn(g, a.runs) : Truncated(g, K), ReadSoFar(g, a, eof, b)
  PROVE  /\ ReadSoFar(g, a, eof, NextSpill(g, b, eof))
         /\ SpillReady(g, b, eof) =>
              LET K == GroupKey(g, b.runs[1]) IN
              /\ b.runs # <<>> /\ K \in KeysIn(g, b.runs) /\ K \in KeysIn(g, a.runs)
              /\ Early(g, a, eof, K)
<1>1. CASE ~SpillReady(g, b, eof)
  <2>1. NextSpill(g, b, eof) = b
    BY <1>1 DEF NextSpill
  <2> QED BY <1>1, <2>1
<1>2. CASE SpillReady(g, b, eof)
  <2> DEFINE c == ReadSpill(g, b)
             K == GroupKey(g, b.runs[1])
  <2>1. NextSpill(g, b, eof) = c /\ b.runs # <<>>
    BY <1>2 DEF NextSpill, SpillReady
  <2>2. IsAggregator(g, b) /\ Queued(g, b)
    BY DEF ReadSoFar
  <2>3. /\ Queued(g, c)
        /\ c.maxTableKey = b.maxTableKey /\ c.maxSpillKey = b.maxSpillKey
        /\ K \in KeysIn(g, b.runs)
        /\ KeysIn(g, c.out) = KeysIn(g, b.out) \cup {K}
        /\ KeysIn(g, c.runs) \subseteq KeysIn(g, b.runs)
    BY <2>1, <2>2, ReadSorts
  <2>4. IsAggregator(g, c) /\ c.table = b.table /\ c.spiller = b.spiller
    BY <2>1, <2>2, ReadMoves
  <2>5. K \in KeysIn(g, a.runs)
    BY <2>3 DEF ReadSoFar
  <2>6. ASSUME ~eof
        PROVE  g.dir # 0 /\ Lt(g, K[1], a.maxSpillKey)
    <3>1. g.dir # 0 /\ ValueCompare(g, KeyValue(g.keys[1], b.runs[1]), b.maxSpillKey) < 0
      BY <1>2, <2>6 DEF SpillReady
    <3>2. IsKeyed(g, b.runs[1])
      <4>1. Keyed(g, b.runs)
        BY <2>2 DEF IsAggregator
      <4>2. 1 \in DOMAIN b.runs
        <5>1. Len(b.runs) \in Nat /\ DOMAIN b.runs = 1..Len(b.runs)
          BY <4>1, KeyThere
        <5>2. Len(b.runs) # 0
          BY <2>1, <4>1, NoElement DEF Keyed
        <5> QED BY <5>1, <5>2
      <4> QED BY <4>1, <4>2 DEF Keyed
    <3>3. KeyValue(g.keys[1], b.runs[1]) = K[1]
      BY <2>5, <3>1, <3>2, KeyAgain
    <3>4. b.maxSpillKey = a.maxSpillKey
      BY DEF ReadSoFar
    <3> QED BY <3>1, <3>3, <3>4 DEF Lt
  <2> HIDE DEF c, K
  <2>7. ReadSoFar(g, a, eof, c)
    BY <2>3, <2>4, <2>5, <2>6 DEF ReadSoFar
  <2> QED BY <2>1, <2>3, <2>5, <2>6, <2>7 DEF K, Early
<1> QED BY <1>1, <1>2

\* All the readings.
LEMMA ReadsSort ==
  ASSUME NEW g, IsGroupBy(g), SortsByKey(g), NEW a, IsAggregator(g, a), NEW eof,
         Queued(g, a), \A K \in KeysIn(g, a.runs) : Truncated(g, K)
  PROVE  /\ Len(a.runs) \in Nat
         /\ \A n \in 0..Len(a.runs) : ReadSoFar(g, a, eof, SpillReads(g, a, eof)[n])
         /\ ReadSoFar(g, a, eof, ReadSpills(g, a, eof))
<1> DEFINE R == SpillReads(g, a, eof)
           L == Len(a.runs)
           T == {n \in 0..L : ~ReadSoFar(g, a, eof, R[n])}
<1>1. L \in Nat
  BY SequenceFacts DEF IsAggregator, Keyed
<1>2. R[0] = a /\ \A n \in 1..L : R[n] = NextSpill(g, R[n - 1], eof)
  BY <1>1, SpillReadsEquation
<1> HIDE DEF R
<1>3. ASSUME T # {}
      PROVE  FALSE
  <2>1. T \subseteq Nat
    BY <1>1
  <2> HIDE DEF T
  <2>2. PICK m \in T : \A y \in T : m <= y
    BY <1>3, <2>1, LeastNumber, Zenon
  <2> HIDE DEF L
  <2>3. m \in 0..L /\ ~ReadSoFar(g, a, eof, R[m])
    BY <2>2 DEF T
  <2>4. m # 0
    <3>1. ReadSoFar(g, a, eof, R[0])
      BY <1>2 DEF ReadSoFar
    <3> QED BY <2>3, <3>1
  <2>5. m - 1 \in 0..L /\ ~(m <= m - 1) /\ m \in 1..L
    BY <1>1, <2>3, <2>4
  <2>6. ReadSoFar(g, a, eof, R[m - 1])
    BY <2>2, <2>5 DEF T
  <2>7. ReadSoFar(g, a, eof, NextSpill(g, R[m - 1], eof))
    BY <2>6, ReadOneMore
  <2> QED BY <1>2, <2>3, <2>5, <2>7
<1>4. \A n \in 0..L : ReadSoFar(g, a, eof, R[n])
  BY <1>3
<1>5. L \in 0..L
  BY <1>1
<1> QED BY <1>1, <1>4, <1>5 DEF ReadSpills, R

-----------------------------------------------------------------------------
(***************************************************************************)
(* Sending in order.                                                       *)
(***************************************************************************)
\* Sorted records with later keys go behind those that were sent.
LEMMA OutJoins ==
  ASSUME NEW g, NEW s, NEW t, Keyed(g, s), Keyed(g, t), OutDistinct(g, s), OutDistinct(g, t),
         \A K \in KeysIn(g, s), L \in KeysIn(g, t) : K # L
  PROVE  /\ OutDistinct(g, s \o t)
         /\ /\ OutSorted(g, s) /\ OutSorted(g, t)
            /\ \A K \in KeysIn(g, s), L \in KeysIn(g, t) : Le(g, K[1], L[1])
            => OutSorted(g, s \o t)
<1> DEFINE m == Len(s)
           n == Len(t)
           u == s \o t
           KeyS(i) == GroupKey(g, s[i])
           KeyT(i) == GroupKey(g, t[i])
           R == Range(s) \cup Range(t)
<1>1. /\ m \in Nat /\ DOMAIN s = 1..m /\ \A i \in 1..m : KeyS(i) \in KeysIn(g, s)
      /\ n \in Nat /\ DOMAIN t = 1..n /\ \A i \in 1..n : KeyT(i) \in KeysIn(g, t)
  BY KeyThere
<1>2. s \in Seq(R) /\ t \in Seq(R)
  BY SeqMonotonic DEF Keyed, IsSequence
<1> HIDE DEF R
<1>3. /\ u \in Seq(R) /\ Len(u) = m + n
      /\ \A i \in 1..(m + n) : u[i] = IF i <= m THEN s[i] ELSE t[i - m]
  BY <1>2, ConcatProperties
<1>4. DOMAIN u = 1..(m + n)
  BY <1>3, LenProperties
<1> HIDE DEF m, n, u
<1>5. ASSUME NEW i \in 1..(m + n), NEW j \in 1..(m + n), i < j
      PROVE  /\ GroupKey(g, u[i]) # GroupKey(g, u[j])
             /\ /\ OutSorted(g, s) /\ OutSorted(g, t)
                /\ \A K \in KeysIn(g, s), L \in KeysIn(g, t) : Le(g, K[1], L[1])
                => Le(g, GroupKey(g, u[i])[1], GroupKey(g, u[j])[1])
  <2>1. CASE j <= m
    <3>1. u[i] = s[i] /\ u[j] = s[j] /\ i \in DOMAIN s /\ j \in DOMAIN s
      BY <1>1, <1>3, <1>5, <2>1
    <3> QED BY <1>5, <3>1 DEF OutDistinct, OutSorted
  <2>2. CASE i <= m /\ ~(j <= m)
    <3>1. u[i] = s[i] /\ u[j] = t[j - m] /\ i \in 1..m /\ j - m \in 1..n
      BY <1>1, <1>3, <1>5, <2>2
    <3>2. GroupKey(g, u[i]) \in KeysIn(g, s) /\ GroupKey(g, u[j]) \in KeysIn(g, t)
      BY <1>1, <3>1
    <3> QED BY <3>2
  <2>3. CASE ~(i <= m)
    <3>1. /\ u[i] = t[i - m] /\ u[j] = t[j - m] /\ i - m \in DOMAIN t /\ j - m \in DOMAIN t
          /\ i - m < j - m
      BY <1>1, <1>3, <1>5, <2>3
    <3> QED BY <3>1 DEF OutDistinct, OutSorted
  <2> QED BY <1>1, <1>5, <2>1, <2>2, <2>3
<1> QED BY <1>4, <1>5 DEF OutDistinct, OutSorted, u

\* The groups of an aggregator have keys, which are truncated.
LEMMA GroupsTyped ==
  ASSUME NEW g, NEW a, IsAggregator(g, a)
  PROVE  /\ DOMAIN a.table \subseteq [DOMAIN g.keys -> Nat]
         /\ KeysIn(g, a.runs) \subseteq [DOMAIN g.keys -> Nat]
         /\ KeysIn(g, a.out) \subseteq [DOMAIN g.keys -> Nat]
  BY KeyThere DEF IsAggregator

\* What a batch sends while there are no runs is later than what was sent
\* before and earlier than what stays in the table.
LEMMA CompletedSorts ==
  ASSUME NEW g, IsGroupBy(g), SortsByKey(g), g.dir # 0, NEW a, IsAggregator(g, a),
         ~a.spiller, a.err = "none", Ordered(g, a)
  PROVE  /\ Ordered(g, AfterBatch(g, a))
         /\ AfterBatch(g, a).maxTableKey = a.maxTableKey
         /\ \A L \in DOMAIN AfterBatch(g, a).table : Le(g, a.maxTableKey, L[1])
<1> DEFINE keys == Completed(g, a)
           rows == TableRecords(g, a, keys)
           recs == SortStable(rows, g.dir, TRUE, <<g.keys[1].target>>)
           b == AfterBatch(g, a)
           T == DOMAIN a.table
<1>1. b = Sent(a, keys, recs)
  BY DEF AfterBatch, Sent
<1>2. keys = {key \in T : Lt(g, key[1], a.maxTableKey)}
  BY DEF Completed, Lt
<1>3. /\ g.dir \in Int /\ 1 \in DOMAIN g.keys /\ Queued(g, a) /\ TableLater(g, a)
  BY DEF SortsByKey, Ordered
<1> HIDE DEF keys
<1>4. keys \in SUBSET [DOMAIN g.keys -> Nat] /\ IsFiniteSet(keys) /\ keys \subseteq T
  BY <1>2, FS_Subset DEF IsAggregator
<1>5. Keyed(g, rows) /\ KeysIn(g, rows) = keys
  BY <1>4, TableKeys
<1>6. OutSorted(g, recs)
  BY <1>3, <1>5, SortedByFirst
<1>7. OutDistinct(g, recs)
  <2> DEFINE dir == g.dir
             nullsMax == TRUE
             fields == <<g.keys[1].target>>
  <2> HIDE DEF dir, nullsMax, fields
  <2>1. OutDistinct(g, SortStable(rows, dir, nullsMax, fields))
    BY <1>4, TableDistinct
  <2> QED BY <2>1 DEF dir, nullsMax, fields
<1>8. Keyed(g, recs) /\ KeysIn(g, recs) = keys
  <2> DEFINE dir == g.dir
             nullsMax == TRUE
             fields == <<g.keys[1].target>>
  <2> HIDE DEF dir, nullsMax, fields, rows
  <2>1. LET s == SortStable(rows, dir, nullsMax, fields)
        IN  Keyed(g, s) /\ KeysIn(g, s) = KeysIn(g, rows)
    BY <1>5, KeyedSort
  <2> QED BY <1>5, <2>1 DEF dir, nullsMax, fields
<1> HIDE DEF recs, rows, b, T
<1>9. /\ b.table = [key \in T \ keys |-> a.table[key]]
      /\ b.out = a.out \o recs /\ b.runs = a.runs /\ b.spiller = a.spiller
      /\ b.maxTableKey = a.maxTableKey /\ b.maxSpillKey = a.maxSpillKey
  <2>1. HasFields(a)
    BY DEF IsAggregator
  <2> QED BY <1>1, <2>1 DEF Sent, WithoutKeys, HasFields, T
<1>10. Keyed(g, a.out) /\ OutDistinct(g, a.out) /\ OutSorted(g, a.out) /\ a.runs = <<>>
  BY <1>3 DEF IsAggregator, Queued
<1>11. /\ T \subseteq [DOMAIN g.keys -> Nat] /\ KeysIn(g, a.out) \subseteq [DOMAIN g.keys -> Nat]
  BY GroupsTyped DEF T
<1>12. /\ \A K \in T : K[1] \in Values /\ a.maxTableKey \in Values /\ Le(g, K[1], a.maxTableKey)
       /\ \A K \in KeysIn(g, a.out) :
            /\ K[1] \in Values /\ a.maxTableKey \in Values /\ a.maxTableKey \in Nat
            /\ Lt(g, K[1], a.maxTableKey)
            /\ \A L \in T : Lt(g, K[1], L[1])
  BY <1>3, <1>11 DEF TableLater, T, Values
<1>13. \A K \in KeysIn(g, a.out), L \in keys : K # L /\ Le(g, K[1], L[1])
  <2> SUFFICES ASSUME NEW K \in KeysIn(g, a.out), NEW L \in keys
               PROVE  K # L /\ Le(g, K[1], L[1])
    OBVIOUS
  <2>1. L \in T /\ K[1] \in Values /\ L[1] \in Values /\ Lt(g, K[1], L[1])
    BY <1>4, <1>12
  <2> QED BY <1>3, <2>1, ValueOrder
<1>14. /\ OutDistinct(g, b.out) /\ OutSorted(g, b.out)
       /\ KeysIn(g, b.out) = KeysIn(g, a.out) \cup keys
  <2>1. OutDistinct(g, a.out \o recs) /\ OutSorted(g, a.out \o recs)
    BY <1>6, <1>7, <1>8, <1>10, <1>13, OutJoins
  <2>2. KeysIn(g, a.out \o recs) = KeysIn(g, a.out) \cup keys
    BY <1>8, <1>10, KeyedJoin
  <2> QED BY <1>9, <2>1, <2>2
<1>15. ASSUME NEW L \in T \ keys
       PROVE  /\ Le(g, a.maxTableKey, L[1])
              /\ \A K \in keys : Lt(g, K[1], L[1])
  <2>1. L[1] \in Values /\ a.maxTableKey \in Values
    BY <1>12
  <2>2. ~Lt(g, L[1], a.maxTableKey)
    BY <1>2
  <2>3. Le(g, a.maxTableKey, L[1])
    BY <1>3, <2>1, <2>2, ValueOrder
  <2>4. ASSUME NEW K \in keys
        PROVE  Lt(g, K[1], L[1])
    <3>1. Lt(g, K[1], a.maxTableKey) /\ K[1] \in Values
      BY <1>2, <1>4, <1>12
    <3> QED BY <1>3, <2>1, <2>3, <3>1, ValueOrderTransitive
  <2> QED BY <2>3, <2>4
<1>16. Queued(g, b)
  <2>1. KeysIn(g, b.runs) = {} /\ RunsSorted(g, b.runs)
    BY <1>3, <1>9, <1>10, KeyedNone DEF Queued
  <2> QED BY <1>14, <2>1 DEF Queued
<1>17. TableLater(g, b)
  <2>1. DOMAIN b.table = T \ keys
    BY <1>9
  <2>2. \A K \in keys : a.maxTableKey \in Nat /\ Lt(g, K[1], a.maxTableKey)
    BY <1>2, <1>3, <1>4 DEF TableLater, T
  <2> QED BY <1>3, <1>9, <1>12, <1>14, <1>15, <2>1, <2>2 DEF TableLater, T
<1>18. Ordered(g, b)
  BY <1>9, <1>16, <1>17 DEF Ordered, SpillLater
<1>19. \A L \in DOMAIN b.table : Le(g, a.maxTableKey, L[1])
  BY <1>9, <1>15
<1> QED BY <1>9, <1>18, <1>19 DEF b

-----------------------------------------------------------------------------
(***************************************************************************)
(* A step in order.                                                        *)
(***************************************************************************)
\* Truncation makes a multiple of a value, and does not change the order.
LEMMA Truncation ==
  ASSUME NEW t \in Nat \ {0}, NEW v \in Nat
  PROVE  /\ v - (v % t) \in Nat
         /\ (v - (v % t)) % t = 0
         /\ \A w \in Nat : v <= w => v - (v % t) <= w - (w % t)
<1> DEFINE Q(x) == x \div t
<1>1. ASSUME NEW x \in Nat
      PROVE  /\ x = t * Q(x) + (x % t) /\ x % t \in 0..(t - 1) /\ Q(x) \in Nat
             /\ t * Q(x) \in Nat
             /\ x - (x % t) = t * Q(x)
  <2>1. x = t * (x \div t) + (x % t) /\ x % t \in 0..(t - 1) /\ x \div t \in Nat
    OBVIOUS
  <2>2. t * Q(x) \in Nat
    BY <2>1
  <2> DEFINE m == t * Q(x)
             r == x % t
  <2>3. x = m + r /\ m \in Nat /\ r \in Nat
    BY <2>1, <2>2
  <2> HIDE DEF m, r
  <2>4. x - r = m
    BY <2>3
  <2> QED BY <2>1, <2>2, <2>4 DEF m, r
<1> HIDE DEF Q
<1>2. (t * Q(v)) % t = 0
  <2> DEFINE q == Q(v)
  <2>1. q \in Nat
    BY <1>1
  <2> HIDE DEF q
  <2>2. (t * q) % t = 0
    BY <2>1
  <2> QED BY <2>2 DEF q
<1>3. ASSUME NEW w \in Nat, v <= w
      PROVE  t * Q(v) <= t * Q(w)
  <2> DEFINE q == Q(v)
             r == Q(w)
             a == v % t
             b == w % t
  <2>1. /\ q \in Nat /\ r \in Nat /\ a \in 0..(t - 1) /\ b \in 0..(t - 1)
        /\ v = t * q + a /\ w = t * r + b
    BY <1>1
  <2> HIDE DEF q, r, a, b
  <2>2. CASE q <= r
    <3>1. t * q <= t * r
      BY <2>1, <2>2
    <3> QED BY <3>1 DEF q, r
  <2>3. CASE ~(q <= r)
    <3>1. q >= r + 1
      BY <2>1, <2>3
    <3>2. t * q >= t * r + t
      BY <2>1, <3>1
    <3> DEFINE m == t * q
               n == t * r
    <3>3. m \in Nat /\ n \in Nat /\ m >= n + t /\ v = m + a /\ w = n + b
      BY <2>1, <3>2
    <3> HIDE DEF m, n
    <3>4. ~(v <= w)
      BY <2>1, <3>3
    <3> QED BY <1>3, <3>4
  <2> QED BY <2>2, <2>3
<1> QED BY <1>1, <1>2, <1>3

\* The first key of a record: its field, truncated.
LEMMA FirstKey ==
  ASSUME OrderSetting, NEW g \in GroupBys, g.dir # 0, NEW r \in Inputs
  PROVE  /\ KeyValue(g.keys[1], r) \in Values
         /\ IsNull(Eval(r, g.keys[1].source)) <=> IsNull(KeyValue(g.keys[1], r))
         /\ Truncated(g, KeyFor(g, r))
         /\ KeyFor(g, r)[1] = KeyValue(g.keys[1], r)
<1> DEFINE k == g.keys[1]
           v == Eval(r, k.source)
           t == k.trunc
           w == KeyValue(k, r)
<1>1. /\ 1 \in DOMAIN g.keys /\ t \in Nat /\ (v \in Nat \/ v = Absent)
      /\ ~IsNull(v) => ~IsNull(w)
  BY DEF OrderSetting, Setting, SortsByKey, IsGroupBy, Eval
<1>2. w = IF t = 0 \/ IsNull(v) THEN v ELSE v - (v % t)
  BY DEF KeyValue
<1>3. KeyFor(g, r)[1] = w
  BY <1>1 DEF KeyFor
<1> HIDE DEF v, w
<1>4. CASE t = 0 \/ IsNull(v)
  BY <1>1, <1>2, <1>3, <1>4 DEF Values, Truncated, v, w
<1>5. CASE ~(t = 0 \/ IsNull(v))
  <2>1. v \in Nat /\ t \in Nat \ {0}
    BY <1>1, <1>5 DEF IsNull
  <2> HIDE DEF t
  <2>2. v - (v % t) \in Nat /\ (v - (v % t)) % t = 0
    BY <2>1, Truncation
  <2>3. w \in Nat /\ w % t = 0
    BY <1>2, <1>5, <2>2
  <2>4. Truncated(g, KeyFor(g, r))
    BY <1>3, <2>3 DEF Truncated, t
  <2> QED BY <1>1, <1>3, <1>5, <2>3, <2>4 DEF Values, v, w
<1> QED BY <1>4, <1>5

\* Records in the order of the field are in the order of the key.
LEMMA KeyFollowsField ==
  ASSUME OrderSetting, NEW g \in GroupBys, g.dir # 0, NEW q \in Inputs, NEW r \in Inputs,
         Le(g, Eval(q, g.keys[1].source), Eval(r, g.keys[1].source))
  PROVE  Le(g, KeyValue(g.keys[1], q), KeyValue(g.keys[1], r))
<1> DEFINE k == g.keys[1]
           t == k.trunc
           a == Eval(q, k.source)
           b == Eval(r, k.source)
           x == KeyValue(k, q)
           y == KeyValue(k, r)
<1>1. /\ g.dir \in Int /\ t \in Nat
      /\ a \in Values /\ b \in Values /\ x \in Values /\ y \in Values
      /\ IsNull(a) <=> IsNull(x)
      /\ IsNull(b) <=> IsNull(y)
  <2>1. g.dir \in Int /\ t \in Nat
    BY DEF OrderSetting, Setting, SortsByKey, IsGroupBy
  <2>2. a \in Values /\ b \in Values
    BY DEF OrderSetting, Setting, Eval, Values
  <2> QED BY <2>1, <2>2, FirstKey
<1>2. /\ x = IF t = 0 \/ IsNull(a) THEN a ELSE a - (a % t)
      /\ y = IF t = 0 \/ IsNull(b) THEN b ELSE b - (b % t)
  BY DEF KeyValue
<1>3. Le(g, a, b)
  OBVIOUS
<1> HIDE DEF t, a, b, x, y
<1>4. CASE IsNull(a) \/ IsNull(b) \/ t = 0
  <2>1. x = a \/ IsNull(a) \/ IsNull(b)
    BY <1>2, <1>4
  <2>2. y = b \/ IsNull(a) \/ IsNull(b)
    BY <1>2, <1>4
  <2>3. Le(g, x, y)
    BY <1>1, <1>2, <1>3, <1>4, <2>1, <2>2 DEF Le, ValueCompare, CompareValues, Values, IsNull
  <2> QED BY <2>3 DEF x, y
<1>5. CASE ~(IsNull(a) \/ IsNull(b) \/ t = 0)
  <2>1. a \in Nat /\ b \in Nat /\ t \in Nat \ {0}
    BY <1>1, <1>5 DEF Values, IsNull
  <2>2. (a <= b => a - (a % t) <= b - (b % t)) /\ (b <= a => b - (b % t) <= a - (a % t))
    BY <2>1, Truncation
  <2>3. (a <= b => x <= y) /\ (b <= a => y <= x) /\ x \in Nat /\ y \in Nat
    <3>1. x \in Nat /\ y \in Nat
      BY <1>1, <1>5 DEF Values, IsNull
    <3> QED BY <1>2, <1>5, <2>2, <3>1
  <2>4. ~IsNull(a) /\ ~IsNull(b) /\ ~IsNull(x) /\ ~IsNull(y)
    BY <1>1, <1>5
  <2>5. g.dir < 0 => Le(g, x, y)
    BY <1>3, <2>1, <2>3, <2>4 DEF Le, ValueCompare, CompareValues
  <2>6. ~(g.dir < 0) => Le(g, x, y)
    BY <1>3, <2>1, <2>3, <2>4 DEF Le, ValueCompare, CompareValues
  <2>7. Le(g, x, y)
    BY <2>5, <2>6
  <2> QED BY <2>7 DEF x, y
<1> QED BY <1>4, <1>5

\* After a batch, with runs on disk: the groups before the greatest key that
\* was spilled are sent.
LEMMA SpilledBatchSorts ==
  ASSUME NEW g, IsGroupBy(g), SortsByKey(g), g.dir # 0, NEW a, IsAggregator(g, a),
         a.spiller, a.err = "none", Ordered(g, a),
         \A K \in KeysIn(g, a.runs) : Truncated(g, K)
  PROVE  /\ Ordered(g, AfterBatch(g, a))
         /\ AfterBatch(g, a).maxTableKey = a.maxTableKey
         /\ AfterBatch(g, a).spiller
<1> DEFINE eof == FALSE
           b == ReadSpills(g, a, eof)
<1>1. AfterBatch(g, a) = b /\ ~eof
  BY DEF AfterBatch
<1> HIDE DEF eof
<1>2. /\ g.dir \in Int /\ 1 \in DOMAIN g.keys
      /\ Queued(g, a) /\ TableLater(g, a) /\ SpillLater(g, a)
  BY DEF SortsByKey, Ordered
<1>3. ReadSoFar(g, a, eof, b)
  BY <1>2, ReadsSort
<1> HIDE DEF b
<1>4. /\ Queued(g, b) /\ b.table = a.table /\ b.spiller
      /\ b.maxTableKey = a.maxTableKey /\ b.maxSpillKey = a.maxSpillKey
  BY <1>3 DEF ReadSoFar
<1>5. /\ a.maxSpillKey \in Nat /\ a.maxTableKey \in Nat
      /\ a.maxSpillKey \in Values /\ a.maxTableKey \in Values
      /\ Le(g, a.maxSpillKey, a.maxTableKey)
      /\ \A L \in DOMAIN a.table : L[1] \in Values /\ Le(g, a.maxSpillKey, L[1])
  <2>1. \A L \in DOMAIN a.table : L[1] \in Nat
    BY <1>2, GroupsTyped
  <2> QED BY <1>2, <2>1 DEF SpillLater, Values
<1>6. ASSUME NEW K \in KeysIn(g, b.out)
      PROVE  Lt(g, K[1], a.maxSpillKey) /\ K[1] \in Values
  <2>1. K[1] \in Values
    <3>1. IsAggregator(g, b)
      BY <1>3 DEF ReadSoFar
    <3>2. K \in [DOMAIN g.keys -> Nat]
      BY <3>1, GroupsTyped
    <3> QED BY <1>2, <3>2 DEF Values
  <2>2. K \in KeysIn(g, a.out) => Lt(g, K[1], a.maxSpillKey)
    BY <1>2 DEF SpillLater
  <2> QED BY <1>1, <1>3, <2>1, <2>2 DEF ReadSoFar
<1>7. ASSUME NEW K \in KeysIn(g, b.out)
      PROVE  Lt(g, K[1], a.maxTableKey) /\ \A L \in DOMAIN a.table : Lt(g, K[1], L[1])
  BY <1>2, <1>5, <1>6, ValueOrderTransitive
<1>8. TableLater(g, b)
  BY <1>2, <1>4, <1>5, <1>7 DEF TableLater
<1>9. SpillLater(g, b)
  BY <1>4, <1>5, <1>6 DEF SpillLater
<1>10. Ordered(g, b)
  BY <1>4, <1>8, <1>9 DEF Ordered
<1> QED BY <1>1, <1>4, <1>10

\* What was sent comes before what is in the table.
LEMMA OutBeforeTable ==
  ASSUME NEW g, IsGroupBy(g), SortsByKey(g), NEW a, IsAggregator(g, a), Ordered(g, a)
  PROVE  \A K \in KeysIn(g, a.out), L \in DOMAIN a.table : KeyLess(g, K, L)
<1> SUFFICES ASSUME NEW K \in KeysIn(g, a.out), NEW L \in DOMAIN a.table
             PROVE  KeyLess(g, K, L)
  OBVIOUS
<1>1. K \in [DOMAIN g.keys -> Nat] /\ L \in [DOMAIN g.keys -> Nat]
  BY GroupsTyped
<1>2. g.dir # 0
  BY KeyedNone DEF Ordered
<1>3. Lt(g, K[1], L[1]) /\ 1 \in DOMAIN g.keys
  BY <1>2 DEF Ordered, TableLater, SortsByKey
<1> QED BY <1>1, <1>3, KeyOrder

\* At the end of the input.
LEMMA EndSorts ==
  ASSUME NEW g, IsGroupBy(g), SortsByKey(g), NEW a, IsAggregator(g, a), a.err = "none",
         Ordered(g, a),
         \A K \in Groups(g, a) : Truncated(g, K),
         g.dir # 0 /\ ~a.spiller => \A L \in DOMAIN a.table : Le(g, a.maxTableKey, L[1])
  PROVE  OutDistinct(g, AtEnd(g, a).out) /\ (g.dir # 0 => OutSorted(g, AtEnd(g, a).out))
<1>0. Queued(g, a)
  BY DEF Ordered
<1>1. CASE a.spiller
  <2> DEFINE eof == TRUE
             c == SpillTable(g, a, eof)
             d == ReadSpills(g, c, eof)
  <2>1. AtEnd(g, a) = d /\ eof
    BY <1>1 DEF AtEnd
  <2> HIDE DEF eof
  <2>2. IsAggregator(g, c)
    BY SpillMoves
  <2>3. Queued(g, c) /\ KeysIn(g, c.runs) \subseteq Groups(g, a)
    <3>1. CASE DOMAIN a.table = {}
      <4>1. c = a
        BY <3>1 DEF SpillTable
      <4> QED BY <1>0, <4>1 DEF Groups
    <3>2. CASE DOMAIN a.table # {}
      <4>1. /\ \A L \in DOMAIN a.table : Truncated(g, L)
            /\ \A K \in KeysIn(g, a.out), L \in DOMAIN a.table : KeyLess(g, K, L)
        BY OutBeforeTable DEF Groups
      <4>2. Queued(g, c) /\ KeysIn(g, c.runs) = KeysIn(g, a.runs) \cup DOMAIN a.table
        <5> HIDE DEF eof
        <5> QED BY <1>0, <3>2, <4>1, SpillSorts
      <4> QED BY <4>2 DEF Groups
    <3> QED BY <3>1, <3>2
  <2> HIDE DEF c
  <2>4. \A K \in KeysIn(g, c.runs) : Truncated(g, K)
    BY <2>3
  <2>5. ReadSoFar(g, c, eof, d)
    BY <2>2, <2>3, <2>4, ReadsSort
  <2> HIDE DEF d
  <2> QED BY <2>1, <2>5 DEF ReadSoFar, Queued
<1>2. CASE ~a.spiller
  <2> DEFINE keys == DOMAIN a.table
             recs == TableRecords(g, a, keys)
             b == AtEnd(g, a)
  <2>1. b = [WithoutKeys(a, keys) EXCEPT !.out = @ \o recs]
    BY <1>2 DEF AtEnd
  <2>2. /\ keys \in SUBSET [DOMAIN g.keys -> Nat] /\ IsFiniteSet(keys)
        /\ HasFields(a) /\ Keyed(g, a.out)
    BY DEF IsAggregator
  <2>3. Keyed(g, recs) /\ KeysIn(g, recs) = keys /\ OutDistinct(g, recs)
    BY <2>2, TableKeys, TableDistinct
  <2> HIDE DEF b, recs
  <2>4. b.out = a.out \o recs
    BY <2>1, <2>2 DEF WithoutKeys, HasFields
  <2>5. /\ OutDistinct(g, a.out) /\ (g.dir # 0 => OutSorted(g, a.out))
    BY <1>0 DEF Queued
  <2>6. \A K \in KeysIn(g, a.out), L \in keys : KeyLess(g, K, L)
    BY OutBeforeTable
  <2>7. KeysIn(g, a.out) \subseteq [DOMAIN g.keys -> Nat]
    BY GroupsTyped
  <2> HIDE DEF keys
  <2>8. \A K \in KeysIn(g, a.out), L \in keys : K # L /\ (g.dir # 0 => Le(g, K[1], L[1]))
    <3> SUFFICES ASSUME NEW K \in KeysIn(g, a.out), NEW L \in keys
                 PROVE  K # L /\ (g.dir # 0 => Le(g, K[1], L[1]))
      OBVIOUS
    <3>1. K \in [DOMAIN g.keys -> Nat] /\ L \in [DOMAIN g.keys -> Nat] /\ KeyLess(g, K, L)
      BY <2>2, <2>6, <2>7
    <3> QED BY <3>1, KeyOrder DEF SortsByKey
  <2>9. g.dir # 0 => OutSorted(g, recs)
    <3> SUFFICES ASSUME g.dir # 0, NEW i \in DOMAIN recs, NEW j \in DOMAIN recs
                 PROVE  Le(g, GroupKey(g, recs[i])[1], GroupKey(g, recs[j])[1])
      BY DEF OutSorted
    <3> DEFINE K == GroupKey(g, recs[i])
               L == GroupKey(g, recs[j])
    <3>1. K \in keys /\ L \in keys
      BY <2>3, KeyThere
    <3> HIDE DEF K, L
    <3>2. /\ a.maxTableKey \in Values /\ K[1] \in Values /\ L[1] \in Values
          /\ Le(g, K[1], a.maxTableKey) /\ Le(g, a.maxTableKey, L[1])
          /\ g.dir \in Int
      BY <1>2, <2>2, <3>1 DEF Ordered, TableLater, Values, SortsByKey, keys
    <3>3. Le(g, K[1], L[1])
      BY <3>2, ValueOrderTransitive
    <3> QED BY <3>3 DEF K, L
  <2>10. OutDistinct(g, a.out \o recs) /\ (g.dir # 0 => OutSorted(g, a.out \o recs))
    BY <2>2, <2>3, <2>5, <2>8, <2>9, OutJoins
  <2> QED BY <2>4, <2>10 DEF b
<1> QED BY <1>1, <1>2

\* The greatest key of the table moves up to that of the record.
LEMMA LaterSorts ==
  ASSUME NEW g, IsGroupBy(g), SortsByKey(g), g.dir # 0, NEW a, IsAggregator(g, a),
         Ordered(g, a), NEW v \in Nat,
         a.maxTableKey # NoKey => Le(g, a.maxTableKey, v)
  PROVE  LET b == [a EXCEPT !.maxTableKey = LaterKey(g, @, v)] IN
         /\ IsAggregator(g, b) /\ Ordered(g, b)
         /\ b.table = a.table /\ b.out = a.out /\ b.err = a.err
         /\ b.maxTableKey \in Nat
         /\ Le(g, v, b.maxTableKey) /\ Le(g, b.maxTableKey, v)
<1> DEFINE m == a.maxTableKey
           l == LaterKey(g, m, v)
           b == [a EXCEPT !.maxTableKey = LaterKey(g, @, v)]
<1>1. b = [a EXCEPT !.maxTableKey = l]
  OBVIOUS
<1>2. /\ g.dir \in Int /\ 1 \in DOMAIN g.keys
      /\ Queued(g, a) /\ TableLater(g, a) /\ SpillLater(g, a) /\ HasFields(a)
      /\ m = NoKey \/ m \in Nat
      /\ v \in Values
  BY DEF SortsByKey, Ordered, SpillLater, IsAggregator, Values
<1>3. l \in Nat /\ l \in {m, v} /\ Le(g, v, l) /\ (m # NoKey => Le(g, m, l))
  <2> HIDE DEF m
  <2> QED BY <1>2, LaterOfTwo
<1>4. m \in Nat => m # NoKey
  BY DEF NoKey
<1>5. Le(g, l, v)
  <2>1. Le(g, v, v)
    BY <1>2, ValueOrder
  <2>2. l = v \/ (l = m /\ m \in Nat)
    BY <1>3
  <2> QED BY <1>4, <2>1, <2>2
<1> HIDE DEF b, l
<1>6. /\ HasFields(b) /\ b.table = a.table /\ b.out = a.out /\ b.err = a.err /\ b.runs = a.runs
      /\ b.spiller = a.spiller /\ b.maxSpillKey = a.maxSpillKey /\ b.maxTableKey = l
  BY <1>1, <1>2 DEF HasFields
<1>7. IsAggregator(g, b) /\ Queued(g, b)
  BY <1>2, <1>6 DEF IsAggregator, Queued
<1>8. l \in Values /\ (m \in Nat => m \in Values /\ Le(g, m, l))
  BY <1>3, <1>4 DEF Values
<1>9. ASSUME NEW L \in DOMAIN a.table
      PROVE  Le(g, L[1], l)
  <2>1. L[1] \in Values
    BY <1>2, GroupsTyped DEF Values
  <2>2. m \in Nat /\ Le(g, L[1], m)
    BY <1>2 DEF TableLater
  <2> QED BY <1>2, <1>8, <2>1, <2>2, ValueOrderTransitive
<1>10. ASSUME NEW K \in KeysIn(g, a.out)
       PROVE  Lt(g, K[1], l)
  <2>1. K[1] \in Values
    BY <1>2, GroupsTyped DEF Values
  <2>2. m \in Nat /\ Lt(g, K[1], m)
    BY <1>2 DEF TableLater
  <2> QED BY <1>2, <1>8, <2>1, <2>2, ValueOrderTransitive
<1>11. TableLater(g, b)
  BY <1>2, <1>3, <1>6, <1>9, <1>10 DEF TableLater
<1>12. a.spiller => Le(g, a.maxSpillKey, l)
  <2>1. a.spiller => a.maxSpillKey \in Values /\ m \in Nat /\ Le(g, a.maxSpillKey, m)
    BY <1>2 DEF SpillLater, Values
  <2> QED BY <1>2, <1>8, <2>1, ValueOrderTransitive
<1>13. SpillLater(g, b)
  BY <1>2, <1>3, <1>6, <1>12 DEF SpillLater
<1>14. Ordered(g, b)
  BY <1>6, <1>7, <1>11, <1>13 DEF Ordered
<1> QED BY <1>3, <1>5, <1>6, <1>7, <1>14 DEF b

\* A table that is spilled before the end.
LEMMA SpillKeepsOrder ==
  ASSUME NEW g, IsGroupBy(g), SortsByKey(g), NEW a, IsAggregator(g, a), Ordered(g, a),
         \A L \in DOMAIN a.table : Truncated(g, L), NEW eof, ~eof
  PROVE  LET b == SpillTable(g, a, eof) IN
         /\ Ordered(g, b)
         /\ b.maxTableKey = a.maxTableKey /\ b.out = a.out
<1> DEFINE b == SpillTable(g, a, eof)
<1>1. CASE DOMAIN a.table = {}
  BY <1>1 DEF SpillTable
<1>2. CASE DOMAIN a.table # {}
  <2>1. Queued(g, a) /\ \A K \in KeysIn(g, a.out), L \in DOMAIN a.table : KeyLess(g, K, L)
    BY OutBeforeTable DEF Ordered
  <2>2. /\ Queued(g, b)
        /\ b.out = a.out /\ b.spiller /\ b.maxTableKey = a.maxTableKey
        /\ \E L \in DOMAIN a.table :
             b.maxSpillKey = IF ~eof /\ g.dir # 0 THEN LaterKey(g, a.maxSpillKey, L[1])
                             ELSE a.maxSpillKey
    BY <1>2, <2>1, SpillSorts
  <2>3. DOMAIN b.table = {}
    BY SpillMoves
  <2> HIDE DEF b
  <2>4. g.dir = 0 => Ordered(g, b)
    BY <2>2 DEF Ordered
  <2>5. ASSUME g.dir # 0
        PROVE  TableLater(g, b) /\ SpillLater(g, b)
    <3>1. PICK L \in DOMAIN a.table : b.maxSpillKey = LaterKey(g, a.maxSpillKey, L[1])
      BY <2>2, <2>5
    <3> DEFINE s == a.maxSpillKey
               m == a.maxTableKey
               l == LaterKey(g, s, L[1])
    <3>2. /\ g.dir \in Int /\ 1 \in DOMAIN g.keys /\ TableLater(g, a) /\ SpillLater(g, a)
      BY <2>5 DEF SortsByKey, Ordered
    <3>3. L[1] \in Nat /\ m \in Nat /\ Le(g, L[1], m)
      BY <3>2, GroupsTyped DEF TableLater
    <3>4. /\ s = NoKey \/ s \in Nat
          /\ s \in Nat => Le(g, s, m)
      <4>1. CASE a.spiller
        BY <3>2, <4>1 DEF SpillLater
      <4>2. CASE ~a.spiller
        BY <3>2, <4>2 DEF SpillLater, NoKey
      <4> QED BY <4>1, <4>2
    <3>5. l \in Nat /\ l \in {s, L[1]} /\ Le(g, L[1], l)
      <4> HIDE DEF s
      <4> QED BY <3>2, <3>3, <3>4, LaterOfTwo
    <3>6. Le(g, l, m)
      BY <3>3, <3>4, <3>5
    <3>7. ASSUME NEW K \in KeysIn(g, a.out)
          PROVE  Lt(g, K[1], l)
      <4>1. K[1] \in Values /\ L[1] \in Values /\ l \in Values
        BY <3>2, <3>3, <3>5, GroupsTyped DEF Values
      <4>2. Lt(g, K[1], L[1])
        BY <3>2 DEF TableLater
      <4> QED BY <3>2, <3>5, <4>1, <4>2, ValueOrderTransitive
    <3> HIDE DEF l
    <3>8. b.maxSpillKey = l
      BY <3>1 DEF l
    <3>9. TableLater(g, b)
      BY <2>2, <2>3, <3>2 DEF TableLater
    <3>10. SpillLater(g, b)
      BY <2>2, <2>3, <3>3, <3>5, <3>6, <3>7, <3>8 DEF SpillLater
    <3> QED BY <3>9, <3>10
  <2>6. Ordered(g, b)
    BY <2>2, <2>4, <2>5 DEF Ordered
  <2> QED BY <2>2, <2>6 DEF b
<1> QED BY <1>1, <1>2

\* A record that is consumed, no earlier than those before it.
LEMMA ConsumeSorts ==
  ASSUME NEW g, IsGroupBy(g), SortsByKey(g), NEW a, IsAggregator(g, a), a.err = "none",
         Ordered(g, a), \A L \in DOMAIN a.table : Truncated(g, L),
         NEW r, \A f \in DOMAIN r : r[f] \in Nat, ~Lacking(g, r),
         g.dir # 0 /\ a.maxTableKey # NoKey => Le(g, a.maxTableKey, KeyFor(g, r)[1])
  PROVE  LET b == Consumed(g, a, r) IN
         /\ b.out = a.out
         /\ b.err = "none" => Ordered(g, b)
         /\ g.dir # 0 => b.maxTableKey \in Nat /\ Le(g, b.maxTableKey, KeyFor(g, r)[1])
<1> DEFINE b == Consumed(g, a, r)
           key == KeyFor(g, r)
           a1 == IF g.dir = 0 THEN a
                 ELSE [a EXCEPT !.maxTableKey = LaterKey(g, @, key[1])]
           full == Full(g, a, key)
           eof == FALSE
           a2 == IF full THEN SpillTable(g, a1, eof) ELSE a1
           row == IF key \in DOMAIN a2.table THEN a2.table[key] ELSE NewRow(g)
           next == IF g.consumePart THEN RowConsumePart(g, row, r) ELSE RowConsume(g, row, r)
           stuck == full /\ \E i \in DOMAIN g.reds : ~Decomposable(g.reds[i].op)
           failed == [a1 EXCEPT !.err = "too big"]
           added == [a2 EXCEPT !.table =
                       [k \in DOMAIN @ \cup {key} |-> IF k = key THEN next ELSE @[k]]]
<1>1. b = IF \E i \in DOMAIN key : key[i] = Absent THEN a
          ELSE IF stuck THEN failed ELSE added
  BY Zenon DEF Consumed, KeyFor
<1>2. ~(\E i \in DOMAIN key : key[i] = Absent)
  BY DEF Lacking, KeyFor
<1>3. key \in [DOMAIN g.keys -> Nat]
  BY KeyOfRecord
<1> HIDE DEF b, next, key
<1>4. /\ IsAggregator(g, a1) /\ Ordered(g, a1)
      /\ a1.table = a.table /\ a1.out = a.out /\ a1.err = a.err
      /\ g.dir # 0 => /\ 1 \in DOMAIN g.keys /\ key[1] \in Nat
                      /\ a1.maxTableKey \in Nat
                      /\ Le(g, key[1], a1.maxTableKey) /\ Le(g, a1.maxTableKey, key[1])
  <2>1. CASE g.dir = 0
    BY <2>1
  <2>2. CASE g.dir # 0
    <3>1. 1 \in DOMAIN g.keys /\ key[1] \in Nat
      BY <1>3, <2>2 DEF SortsByKey
    <3>2. a.maxTableKey # NoKey => Le(g, a.maxTableKey, key[1])
      BY <2>2 DEF key
    <3> QED BY <2>2, <3>1, <3>2, LaterSorts
  <2> QED BY <2>1, <2>2
<1> HIDE DEF a1
<1>5. /\ IsAggregator(g, a2) /\ Ordered(g, a2) /\ a2.err = "none"
      /\ a2.out = a.out /\ a2.maxTableKey = a1.maxTableKey
  <2>1. CASE full
    <3> DEFINE c == SpillTable(g, a1, eof)
    <3>1. a2 = c /\ ~eof
      BY <2>1
    <3> HIDE DEF eof
    <3>2. IsAggregator(g, c) /\ c.err = a1.err
      BY <1>4, SpillMoves
    <3>3. Ordered(g, c) /\ c.maxTableKey = a1.maxTableKey /\ c.out = a1.out
      <4>1. \A L \in DOMAIN a1.table : Truncated(g, L)
        BY <1>4
      <4> QED BY <1>4, <3>1, <4>1, SpillKeepsOrder
    <3> QED BY <1>4, <3>1, <3>2, <3>3
  <2>2. CASE ~full
    BY <1>4, <2>2
  <2> QED BY <2>1, <2>2
<1> HIDE DEF a2, full
<1>6. CASE stuck
  <2>1. b = [a1 EXCEPT !.err = "too big"]
    BY <1>1, <1>2, <1>6
  <2>2. b.err = "too big" /\ b.out = a1.out /\ b.maxTableKey = a1.maxTableKey
    BY <1>4, <2>1 DEF HasFields, IsAggregator
  <2> QED BY <1>4, <2>2 DEF b, key
<1>7. CASE ~stuck
  <2>1. b = [a2 EXCEPT !.table =
               [k \in DOMAIN @ \cup {key} |-> IF k = key THEN next ELSE @[k]]]
    BY <1>1, <1>2, <1>7
  <2> DEFINE T == DOMAIN a2.table
  <2>2. /\ DOMAIN b.table = T \cup {key}
        /\ b.spiller = a2.spiller /\ b.runs = a2.runs /\ b.out = a2.out
        /\ b.maxTableKey = a2.maxTableKey /\ b.maxSpillKey = a2.maxSpillKey
    BY <1>5, <2>1 DEF HasFields, IsAggregator
  <2>3. Queued(g, b) /\ (g.dir = 0 => b.out = <<>>)
    BY <1>5, <2>2 DEF Ordered, Queued
  <2>4. ASSUME g.dir # 0
        PROVE  TableLater(g, b) /\ SpillLater(g, b)
    <3> DEFINE m == a2.maxTableKey
               v == key[1]
    <3>1. /\ g.dir \in Int /\ TableLater(g, a2) /\ SpillLater(g, a2)
          /\ v \in Values /\ m \in Values /\ m \in Nat /\ Le(g, v, m) /\ Le(g, m, v)
      BY <1>4, <1>5, <2>4 DEF SortsByKey, Ordered, Values
    <3>2. ASSUME NEW K \in KeysIn(g, a2.out)
          PROVE  Lt(g, K[1], v)
      <4>1. K[1] \in Values
        BY <1>4, <1>5, <2>4, GroupsTyped DEF Values
      <4>2. Lt(g, K[1], m)
        BY <3>1 DEF TableLater
      <4> QED BY <3>1, <4>1, <4>2, ValueOrderTransitive
    <3>3. a2.spiller => Le(g, a2.maxSpillKey, v)
      <4>1. a2.spiller => a2.maxSpillKey \in Values /\ Le(g, a2.maxSpillKey, m)
        BY <3>1 DEF SpillLater, Values
      <4> QED BY <3>1, <4>1, ValueOrderTransitive
    <3>4. TableLater(g, b)
      BY <2>2, <3>1, <3>2 DEF TableLater
    <3>5. SpillLater(g, b)
      BY <2>2, <3>1, <3>3 DEF SpillLater
    <3> QED BY <3>4, <3>5
  <2>5. Ordered(g, b)
    BY <2>3, <2>4 DEF Ordered
  <2> QED BY <1>4, <1>5, <2>2, <2>5 DEF b, key
<1> QED BY <1>6, <1>7

\* What FirstKey says of the groups of an input.
LEMMA GroupsTruncated ==
  ASSUME OrderSetting, NEW g \in GroupBys, NEW s \in Seq(Inputs)
  PROVE  \A K \in KeysOf(g, s) : Truncated(g, K)
<1> SUFFICES ASSUME g.dir # 0, NEW i \in Complete(g, s)
             PROVE  Truncated(g, KeyFor(g, s[i]))
  BY DEF KeysOf, Truncated
<1>1. s[i] \in Inputs
  BY DEF Complete
<1> QED BY <1>1, FirstKey

\* The greatest key of the table is that of the record just consumed.
LEMMA LatestKey ==
  ASSUME OrderSetting, AggInv, OrderInv, NEW r \in Inputs, ConsumeRecord(r),
         p.dir # 0, agg.maxTableKey # NoKey
  PROVE  /\ agg.maxTableKey \in Nat
         /\ Le(p, agg.maxTableKey, KeyValue(p.keys[1], r))
<1>1. /\ p \in GroupBys /\ input \in Seq(Inputs) /\ p.dir \in Int
      /\ input # <<>> /\ agg.maxTableKey \in Nat
      /\ Le(p, agg.maxTableKey, KeyValue(p.keys[1], Last(input)))
      /\ InOrder(r)
  BY DEF AggInv, OrderInv, NothingEarlier, ConsumeRecord, OrderSetting, SortsByKey
<1>2. Last(input) \in Inputs
  <2>1. Len(input) \in 1..Len(input)
    BY <1>1
  <2> QED BY <1>1, <2>1 DEF Last
<1>3. Le(p, Eval(Last(input), p.keys[1].source), Eval(r, p.keys[1].source))
  BY <1>1 DEF InOrder, Le
<1> DEFINE x == KeyValue(p.keys[1], Last(input))
           y == KeyValue(p.keys[1], r)
           m == agg.maxTableKey
<1>4. Le(p, x, y)
  BY <1>1, <1>2, <1>3, KeyFollowsField
<1>5. x \in Values /\ y \in Values /\ m \in Values
  BY <1>1, <1>2, FirstKey DEF Values
<1>6. Le(p, m, x)
  BY <1>1
<1> HIDE DEF x, y
<1>7. Le(p, m, y)
  BY <1>1, <1>4, <1>5, <1>6, ValueOrderTransitive
<1> QED BY <1>1, <1>7 DEF y

\* A record that is consumed keeps the order.
LEMMA ConsumeKeepsOrder ==
  ASSUME OrderSetting, AggInv, OrderInv, NEW r \in Inputs, ConsumeRecord(r)
  PROVE  OrderInv'
<1> DEFINE b == Consumed(p, agg, r)
<1>1. /\ p \in GroupBys /\ input \in Seq(Inputs) /\ IsGroupBy(p) /\ SortsByKey(p)
      /\ IsAggregator(p, agg) /\ agg.err = "none" /\ ~ended
      /\ Cardinality(DOMAIN agg.table) <= p.limit
      /\ \A f \in DOMAIN r : r[f] \in Nat
      /\ Groups(p, agg) = KeysSeen
  BY DEF AggInv, OrderSetting, Setting, ConsumeRecord
<1>2. /\ p' = p /\ agg' = b /\ input' = Append(input, r) /\ batch' = TRUE /\ ended' = ended
  BY DEF ConsumeRecord
<1>3. Ordered(p, agg) /\ NothingEarlier /\ OutDistinct(p, agg.out)
      /\ (p.dir # 0 => OutSorted(p, agg.out))
  BY <1>1 DEF OrderInv
<1>4. input' # <<>> /\ Last(input') = r
  BY <1>1, <1>2 DEF Last
<1> DEFINE x == KeyValue(p.keys[1], r)
<1>5. p.dir # 0 => KeyFor(p, r)[1] = x
  BY <1>1, FirstKey
<1>6. p.dir # 0 /\ agg.maxTableKey # NoKey => agg.maxTableKey \in Nat /\ Le(p, agg.maxTableKey, x)
  BY LatestKey
<1> HIDE DEF x
<1>7. \A L \in DOMAIN agg.table : Truncated(p, L)
  <2>1. \A K \in KeysSeen : Truncated(p, K)
    BY <1>1, KeysOfInput, GroupsTruncated
  <2> QED BY <1>1, <2>1 DEF Groups
<1>8. /\ b.out = agg.out
      /\ b.err = "none" => Ordered(p, b)
      /\ p.dir # 0 /\ b.maxTableKey # NoKey =>
           b.maxTableKey \in Nat /\ Le(p, b.maxTableKey, x)
  <2>1. CASE Lacking(p, r)
    <3>1. b = agg
      BY <1>1, <2>1, ConsumeAdds
    <3> HIDE DEF b
    <3> QED BY <1>3, <1>6, <3>1 DEF b
  <2>2. CASE ~Lacking(p, r)
    <3>1. p.dir # 0 /\ agg.maxTableKey # NoKey => Le(p, agg.maxTableKey, KeyFor(p, r)[1])
      BY <1>5, <1>6
    <3>2. /\ b.out = agg.out
          /\ b.err = "none" => Ordered(p, b)
          /\ p.dir # 0 => b.maxTableKey \in Nat /\ Le(p, b.maxTableKey, KeyFor(p, r)[1])
      BY <1>1, <1>3, <1>7, <2>2, <3>1, ConsumeSorts
    <3> HIDE DEF b
    <3>3. p.dir # 0 => b.maxTableKey \in Nat /\ Le(p, b.maxTableKey, x)
      BY <1>5, <3>2
    <3>4. /\ b.out = agg.out
          /\ b.err = "none" => Ordered(p, b)
          /\ p.dir # 0 /\ b.maxTableKey # NoKey =>
               b.maxTableKey \in Nat /\ Le(p, b.maxTableKey, x)
      BY <3>2, <3>3
    <3> QED BY <3>4 DEF b
  <2> QED BY <2>1, <2>2
<1> HIDE DEF b
<1>9. NothingEarlier'
  BY <1>2, <1>4, <1>8 DEF NothingEarlier, x
<1>10. OnlyLast'
  BY <1>2 DEF OnlyLast
<1> QED BY <1>2, <1>3, <1>8, <1>9, <1>10 DEF OrderInv

\* Every step keeps the order.
LEMMA OrderStep ==
  ASSUME OrderSetting, AggInv, OrderInv, [Next]_vars
  PROVE  OrderInv'
<1>1. /\ p \in GroupBys /\ IsGroupBy(p) /\ SortsByKey(p) /\ IsAggregator(p, agg)
      /\ input \in Seq(Inputs)
      /\ agg.err = "none" => Groups(p, agg) = KeysSeen
  BY DEF AggInv, OrderSetting, Setting
<1>2. agg.err = "none" => \A K \in Groups(p, agg) : Truncated(p, K)
  BY <1>1, KeysOfInput, GroupsTruncated
<1>3. ASSUME NEW r \in Inputs, ConsumeRecord(r)
      PROVE  OrderInv'
  BY <1>3, ConsumeKeepsOrder
<1>4. CASE SendCompleted
  <2> DEFINE b == AfterBatch(p, agg)
  <2>1. /\ p' = p /\ input' = input /\ agg.err = "none" /\ batch' = FALSE
        /\ ended' = FALSE /\ ~ended /\ agg' = b
    BY <1>4 DEF SendCompleted, AggInv
  <2>2. Ordered(p, agg) /\ NothingEarlier
    BY <2>1 DEF OrderInv
  <2>3. /\ Ordered(p, b) /\ b.maxTableKey = agg.maxTableKey
        /\ p.dir # 0 /\ ~b.spiller => \A L \in DOMAIN b.table : Le(p, b.maxTableKey, L[1])
    <3>1. CASE p.dir = 0
      <4>1. b = agg
        BY <3>1 DEF AfterBatch
      <4> HIDE DEF b
      <4>2. Ordered(p, b) /\ b.maxTableKey = agg.maxTableKey
        BY <2>2, <4>1
      <4> QED BY <3>1, <4>2 DEF b
    <3>2. CASE p.dir # 0 /\ agg.spiller
      <4>1. \A K \in KeysIn(p, agg.runs) : Truncated(p, K)
        BY <1>2, <2>1 DEF Groups
      <4> QED BY <1>1, <2>1, <2>2, <3>2, <4>1, SpilledBatchSorts
    <3>3. CASE p.dir # 0 /\ ~agg.spiller
      BY <1>1, <2>1, <2>2, <3>3, CompletedSorts
    <3> QED BY <3>1, <3>2, <3>3
  <2> HIDE DEF b
  <2>4. OutDistinct(p, b.out) /\ (p.dir # 0 => OutSorted(p, b.out))
    BY <2>3 DEF Ordered, Queued
  <2>5. NothingEarlier'
    BY <2>1, <2>2, <2>3 DEF NothingEarlier
  <2>6. OnlyLast'
    BY <2>1, <2>3 DEF OnlyLast
  <2> QED BY <2>1, <2>3, <2>4, <2>5, <2>6 DEF OrderInv
<1>5. CASE SendRest
  <2>1. /\ p' = p /\ agg.err = "none" /\ ~batch /\ ~ended
        /\ ended' = TRUE /\ agg' = AtEnd(p, agg)
    BY <1>5 DEF SendRest
  <2>2. Ordered(p, agg) /\ OnlyLast
    BY <2>1 DEF OrderInv
  <2>3. p.dir # 0 /\ ~agg.spiller => \A L \in DOMAIN agg.table : Le(p, agg.maxTableKey, L[1])
    BY <2>1, <2>2 DEF OnlyLast
  <2>4. OutDistinct(p, agg'.out) /\ (p.dir # 0 => OutSorted(p, agg'.out))
    BY <1>1, <1>2, <2>1, <2>2, <2>3, EndSorts
  <2> QED BY <2>1, <2>4 DEF OrderInv
<1>6. CASE UNCHANGED vars
  BY <1>6 DEF vars, OrderInv, NothingEarlier, OnlyLast
<1> QED BY <1>3, <1>4, <1>5, <1>6 DEF Next, Quit

\* A group-by that starts has sent nothing.
LEMMA OrderStarts == ASSUME OrderSetting PROVE Init => OrderInv
<1> SUFFICES ASSUME Init PROVE OrderInv
  OBVIOUS
<1>1. /\ agg.table = <<>> /\ agg.runs = <<>> /\ agg.out = <<>> /\ ~agg.spiller
      /\ agg.maxTableKey = NoKey /\ agg.maxSpillKey = NoKey
  BY DEF Init, NewAggregator
<1>2. DOMAIN agg.table = {} /\ DOMAIN agg.runs = {} /\ DOMAIN agg.out = {}
      /\ KeysIn(p, agg.out) = {} /\ KeysIn(p, agg.runs) = {}
  BY <1>1, KeyedNone
<1>3. OutDistinct(p, agg.out) /\ OutSorted(p, agg.out) /\ RunsSorted(p, agg.runs)
  BY <1>2 DEF OutDistinct, OutSorted, RunsSorted
<1>4. Ordered(p, agg)
  BY <1>1, <1>2, <1>3 DEF Ordered, Queued, TableLater, SpillLater
<1> QED BY <1>1, <1>2, <1>3, <1>4 DEF OrderInv, NothingEarlier, OnlyLast

-----------------------------------------------------------------------------
(***************************************************************************)
(* The values of the reducers.                                             *)
(***************************************************************************)
\* The reducers whose partial results compose (Avg's replace each other, and
\* Last's pass over nothing, not even an instance that saw nothing).
Composing == {"count", "sum", "max", "min", "first"}
Reductions == Composing \cup {"avg", "last", "countdistinct"}
Composes(g) == \A k \in DOMAIN g.reds : g.reds[k].op \in Composing

\* What is said of the reducers of a group-by: the columns of its results have
\* different names, it works on the input itself, and either its reducers
\* compose or it never spills.
Reduces(g) ==
  /\ ~g.consumePart
  /\ \A k \in DOMAIN g.reds : g.reds[k].op \in Reductions
  /\ \A k, l \in DOMAIN g.reds : g.reds[k].target = g.reds[l].target => k = l
  /\ \A k \in DOMAIN g.reds, i \in DOMAIN g.keys : g.reds[k].target # g.keys[i].target
  /\ Composes(g) \/ \E k \in DOMAIN g.reds : ~Decomposable(g.reds[k].op)
ReduceSetting == OrderSetting /\ \A g \in GroupBys : Reduces(g)

\* What a reducer has come to, which is its result but for a sketch.
View(op, st) == IF op = "countdistinct" THEN st.seen ELSE Result(op, st)
Shown(op, x) == IF op = "countdistinct" THEN Cardinality(x) ELSE x
Zero(op) == View(op, NewReducer)
Outcomes(op) ==
  CASE op = "count" -> Nat
    [] op \in {"sum", "max", "min"} -> {Absent} \cup (Nat \ {0})
    [] op \in {"first", "last"} -> Values
    [] op = "avg" -> Nat \X Nat
    [] op = "countdistinct" -> SUBSET Nat
IsState(op, st) ==
  /\ st \in [count : Nat, sum : Nat, val : Values, seen : SUBSET Nat]
  /\ View(op, st) \in Outcomes(op)

\* Two partial results make one, the earlier first.  One that does not compose
\* is never joined to an earlier one.
Plus(op, x, y) ==
  CASE op = "count" -> x + y
    [] op = "sum" -> IF IsNull(y) THEN x ELSE IF x = Absent THEN y ELSE x + y
    [] op = "max" -> IF IsNull(y) THEN x ELSE IF y > x THEN y ELSE x
    [] op = "min" -> IF IsNull(y) THEN x ELSE IF x = Absent \/ y < x THEN y ELSE x
    [] op = "first" -> IF x # Absent \/ y = Absent THEN x ELSE y
    [] OTHER -> y

\* One value more.
Further(op, field, x, v) ==
  CASE op = "count" -> IF field # "" /\ IsNull(v) THEN x ELSE x + 1
    [] op = "avg" -> IF IsNull(v) THEN x ELSE <<x[1] + v, x[2] + 1>>
    [] op = "last" -> IF v = Absent THEN x ELSE v
    [] op = "countdistinct" -> IF v = Absent THEN x ELSE x \cup {v}
    [] OTHER -> Plus(op, x, v)

\* What the first n of some partial results come to for a group.
Joined(g, k, K, x, r) ==
  IF GroupKey(g, r) = K THEN Plus(g.reds[k].op, x, r[g.reds[k].target]) ELSE x
Partials(g, k, s, K) ==
  LET part[n \in 0..Len(s)] ==
        IF n = 0 THEN Zero(g.reds[k].op) ELSE Joined(g, k, K, part[n - 1], s[n])
  IN  part
Partial(g, k, s, K) == Partials(g, k, s, K)[Len(s)]

\* What an Aggregator has of a group: the runs, then the table.
InTable(g, a, k, K) ==
  IF K \in DOMAIN a.table THEN View(g.reds[k].op, a.table[K][k]) ELSE Zero(g.reds[k].op)
Held(g, a, k, K) == Plus(g.reds[k].op, Partial(g, k, a.runs, K), InTable(g, a, k, K))

(***************************************************************************)
(* What the records of an input come to, said of a value rather than by    *)
(* computing it.                                                           *)
(***************************************************************************)
MembersOf(g, s, K) == {i \in DOMAIN s : KeyFor(g, s[i]) = K}
PresentOf(g, s, field, K) == {i \in MembersOf(g, s, K) : Eval(s[i], field) # Absent}
ValuedOf(g, s, field, K) == {i \in MembersOf(g, s, K) : ~IsNull(Eval(s[i], field))}
Totals(s, field, among) ==
  LET sum[n \in 0..Len(s)] ==
        IF n = 0 THEN 0
        ELSE sum[n - 1] + (IF n \in among THEN Eval(s[n], field) ELSE 0)
  IN  sum
TotalOf(s, field, among) == Totals(s, field, among)[Len(s)]

Tells(op, field, members, present, values, value(_), total, x) ==
  CASE op = "count" /\ field = "" -> x = Cardinality(members)
    [] op = "count" /\ field # "" -> x = Cardinality(values)
    [] op = "sum" -> /\ x = Absent <=> values = {}
                     /\ total = IF x = Absent THEN 0 ELSE x
    [] op = "avg" -> x = <<total, Cardinality(values)>>
    [] op = "max" -> \/ values = {} /\ x = Absent
                     \/ \E i \in values : x = value(i) /\ \A j \in values : value(j) <= x
    [] op = "min" -> \/ values = {} /\ x = Absent
                     \/ \E i \in values : x = value(i) /\ \A j \in values : x <= value(j)
    [] op = "first" -> \/ present = {} /\ x = Absent
                       \/ \E i \in present : x = value(i) /\ \A j \in present : i <= j
    [] op = "last" -> \/ present = {} /\ x = Absent
                      \/ \E i \in present : x = value(i) /\ \A j \in present : j <= i
    [] op = "countdistinct" -> x = {value(i) : i \in present}
Sums(g, s, red, K, x) ==
  LET value(i) == Eval(s[i], red.field)
      values   == ValuedOf(g, s, red.field, K)
  IN  Tells(red.op, red.field, MembersOf(g, s, K), PresentOf(g, s, red.field, K), values,
            value, TotalOf(s, red.field, values), x)

\* The rows of the table and the partial results on disk are what reducers make.
RowsTyped(g, a) ==
  \A K \in DOMAIN a.table :
    /\ DOMAIN a.table[K] = DOMAIN g.reds
    /\ \A k \in DOMAIN g.reds : IsState(g.reds[k].op, a.table[K][k])
PartsTyped(g, s) ==
  \A j \in DOMAIN s, k \in DOMAIN g.reds : s[j][g.reds[k].target] \in Outcomes(g.reds[k].op)

\* The groups that have not been sent are held entirely, those that have been
\* sent are final.
Holding(g, a, s) ==
  /\ RowsTyped(g, a)
  /\ PartsTyped(g, a.runs)
  /\ a.spiller => Composes(g)
  /\ \A K \in [DOMAIN g.keys -> Nat] \ KeysIn(g, a.out), k \in DOMAIN g.reds :
       Sums(g, s, g.reds[k], K, Held(g, a, k, K))
Final(g, out, s) ==
  \A j \in DOMAIN out, k \in DOMAIN g.reds :
    \E x : /\ Sums(g, s, g.reds[k], GroupKey(g, out[j]), x)
           /\ out[j][g.reds[k].target] = Shown(g.reds[k].op, x)

ValueInv ==
  /\ Final(p, agg.out, input)
  /\ ~ended /\ agg.err = "none" => Holding(p, agg, input)

\* A reducer that has seen nothing.
LEMMA ZeroOutcome ==
  ASSUME NEW op \in Reductions
  PROVE  /\ Zero(op) \in Outcomes(op)
         /\ IsState(op, NewReducer)
         /\ Zero(op) = CASE op = "count" -> 0 [] op = "avg" -> <<0, 0>>
                         [] op = "countdistinct" -> {} [] OTHER -> Absent
<1>1. Zero(op) = CASE op = "count" -> 0 [] op = "avg" -> <<0, 0>>
                   [] op = "countdistinct" -> {} [] OTHER -> Absent
  BY DEF Zero, View, Result, NewReducer, Reductions, Composing
<1>2. Zero(op) \in Outcomes(op)
  BY <1>1 DEF Outcomes, Reductions, Composing, Values
<1>3. NewReducer \in [count : Nat, sum : Nat, val : Values, seen : SUBSET Nat]
  BY DEF NewReducer, Values
<1> QED BY <1>1, <1>2, <1>3 DEF IsState, Zero

\* Joining partial results: what it gives, with nothing on either side, and
\* with one value more.
LEMMA PlusOutcome ==
  ASSUME NEW op \in Reductions, NEW x \in Outcomes(op), NEW y \in Outcomes(op)
  PROVE  Plus(op, x, y) \in Outcomes(op)
<1>1. CASE op = "count"
  BY <1>1 DEF Plus, Outcomes
<1>2. CASE op \in {"sum", "max", "min"}
  BY <1>2 DEF Plus, Outcomes, IsNull, Null, Absent
<1>3. CASE op = "first"
  BY <1>3 DEF Plus, Outcomes
<1>4. CASE op \in {"avg", "last", "countdistinct"}
  BY <1>4 DEF Plus
<1> QED BY <1>1, <1>2, <1>3, <1>4 DEF Reductions, Composing

LEMMA PlusNothing ==
  ASSUME NEW op \in Reductions, NEW x \in Outcomes(op)
  PROVE  /\ Plus(op, Zero(op), x) = x
         /\ op \in Composing => Plus(op, x, Zero(op)) = x
<1>1. CASE op = "count"
  BY <1>1, ZeroOutcome DEF Plus, Outcomes
<1>2. CASE op \in {"sum", "max", "min"}
  BY <1>2, ZeroOutcome DEF Plus, Outcomes, IsNull, Null, Absent
<1>3. CASE op = "first"
  BY <1>3, ZeroOutcome DEF Plus, Outcomes
<1>4. CASE op \in {"avg", "last", "countdistinct"}
  BY <1>4 DEF Plus, Composing
<1> QED BY <1>1, <1>2, <1>3, <1>4 DEF Reductions, Composing

LEMMA PlusFurther ==
  ASSUME NEW op \in Reductions, NEW x \in Outcomes(op), NEW y \in Outcomes(op),
         NEW v \in Values, NEW field
  PROVE  Plus(op, x, Further(op, field, y, v)) = Further(op, field, Plus(op, x, y), v)
<1>1. CASE op = "count"
  <2>1. x \in Nat /\ y \in Nat
    BY <1>1 DEF Outcomes
  <2>2. CASE field # "" /\ IsNull(v)
    BY <1>1, <2>2 DEF Plus, Further
  <2>3. CASE ~(field # "" /\ IsNull(v))
    <3>1. \A z : Further(op, field, z, v) = z + 1 /\ Plus(op, x, z) = x + z
      BY <1>1, <2>3 DEF Plus, Further
    <3> QED BY <2>1, <3>1
  <2> QED BY <2>2, <2>3
<1>2. CASE op = "sum"
  BY <1>2 DEF Plus, Further, Outcomes, IsNull, Null, Absent, Values
<1>3. CASE op = "max"
  BY <1>3 DEF Plus, Further, Outcomes, IsNull, Null, Absent, Values
<1>4. CASE op = "min"
  BY <1>4 DEF Plus, Further, Outcomes, IsNull, Null, Absent, Values
<1>5. CASE op = "first"
  BY <1>5 DEF Plus, Further, Outcomes, Absent, Values
<1>6. CASE op \in {"avg", "last", "countdistinct"}
  BY <1>6 DEF Plus, Further
<1> QED BY <1>1, <1>2, <1>3, <1>4, <1>5, <1>6 DEF Reductions, Composing

\* Consume is one value more.
LEMMA ConsumeFurther ==
  ASSUME NEW op \in Reductions, NEW st, IsState(op, st), NEW v \in Values, NEW field
  PROVE  /\ IsState(op, Consume(op, field, st, v))
         /\ View(op, Consume(op, field, st, v)) = Further(op, field, View(op, st), v)
<1> DEFINE States == [count : Nat, sum : Nat, val : Values, seen : SUBSET Nat]
           t == Consume(op, field, st, v)
<1>0. st \in States /\ View(op, st) \in Outcomes(op)
  BY DEF IsState
<1>1. t \in States /\ View(op, t) = Further(op, field, View(op, st), v)
      /\ View(op, t) \in Outcomes(op)
  <2>1. CASE op = "count"
    <3>1. /\ t = CountConsume(field, st, v)
          /\ \A s : View(op, s) = s.count
          /\ Outcomes(op) = Nat
      BY <2>1 DEF Consume, View, Result, Outcomes
    <3> HIDE DEF t
    <3>2. CASE field # "" /\ IsNull(v)
      <4>1. t = st /\ \A z : Further(op, field, z, v) = z
        BY <2>1, <3>1, <3>2 DEF CountConsume, Further
      <4> QED BY <1>0, <4>1
    <3>3. CASE ~(field # "" /\ IsNull(v))
      <4>1. t = [st EXCEPT !.count = @ + 1] /\ \A z : Further(op, field, z, v) = z + 1
        BY <2>1, <3>1, <3>3 DEF CountConsume, Further
      <4>2. t \in States /\ t.count = st.count + 1 /\ st.count + 1 \in Nat
        BY <1>0, <4>1
      <4> QED BY <3>1, <4>1, <4>2
    <3> QED BY <3>2, <3>3
  <2>2. CASE op = "avg"
    <3>1. /\ t = AvgConsume(st, v)
          /\ \A s : View(op, s) = <<s.sum, s.count>>
          /\ Outcomes(op) = Nat \X Nat
      BY <2>2 DEF Consume, View, Result, Outcomes
    <3> HIDE DEF t
    <3>2. CASE IsNull(v)
      <4>1. t = st /\ \A z : Further(op, field, z, v) = z
        BY <2>2, <3>1, <3>2 DEF AvgConsume, Further
      <4> QED BY <1>0, <4>1
    <3>3. CASE ~IsNull(v)
      <4>1. v \in Nat
        BY <3>3 DEF IsNull, Values
      <4>2. /\ t = [st EXCEPT !.sum = @ + v, !.count = @ + 1]
            /\ Further(op, field, View(op, st), v) = <<View(op, st)[1] + v, View(op, st)[2] + 1>>
        BY <2>2, <3>1, <3>3 DEF AvgConsume, Further
      <4> DEFINE c == st.sum
                 d == st.count
      <4>3. c \in Nat /\ d \in Nat /\ View(op, st) = <<c, d>>
        BY <1>0, <3>1
      <4>4. t = [st EXCEPT !.sum = c + v, !.count = d + 1]
        BY <4>2
      <4> HIDE DEF c, d
      <4>5. c + v \in Nat /\ d + 1 \in Nat
        BY <4>1, <4>3
      <4>6. t \in States /\ t.sum = c + v /\ t.count = d + 1
        BY <1>0, <4>4, <4>5
      <4>7. View(op, t) = <<c + v, d + 1>>
        BY <3>1, <4>6
      <4>8. View(op, st)[1] = c /\ View(op, st)[2] = d
        BY <4>3
      <4>9. View(op, t) = Further(op, field, View(op, st), v)
        BY <4>2, <4>7, <4>8
      <4> QED BY <3>1, <4>5, <4>6, <4>7, <4>9
    <3> QED BY <3>2, <3>3
  <2>3. CASE op = "first"
    BY <1>0, <2>3 DEF Consume, FirstConsume, View, Result, Further, Plus, Outcomes
  <2>4. CASE op = "last"
    BY <1>0, <2>4 DEF Consume, LastConsume, View, Result, Further, Outcomes
  <2>5. CASE op = "countdistinct"
    BY <1>0, <2>5 DEF Consume, CountDistinctConsume, View, Result, Further, Outcomes, Values
  <2>6. CASE op \in {"sum", "max", "min"}
    <3>1. t = ConsumeVal(op, st, v) /\ View(op, st) = st.val /\ View(op, t) = t.val
          /\ Further(op, field, st.val, v) = Plus(op, st.val, v)
      BY <2>6 DEF Consume, View, Result, Further
    <3>2. st.val \in {Absent} \cup (Nat \ {0})
      BY <1>0, <2>6, <3>1 DEF Outcomes
    <3>3. CASE IsNull(v)
      <4>1. t = st /\ Plus(op, st.val, v) = st.val
        BY <2>6, <3>1, <3>3 DEF ConsumeVal, Plus
      <4> QED BY <1>0, <3>1, <4>1
    <3>4. CASE ~IsNull(v)
      <4>1. v \in Nat \ {0}
        BY <3>4 DEF Values, IsNull, Null
      <4> HIDE DEF t
      <4>2. t = [st EXCEPT !.val = Plus(op, st.val, v)]
        <5>1. CASE op = "sum"
          BY <3>1, <3>4, <5>1 DEF ConsumeVal, Plus
        <5>2. CASE op = "max"
          BY <3>1, <3>4, <5>2 DEF ConsumeVal, Plus
        <5>3. CASE op = "min"
          BY <3>1, <3>4, <5>3 DEF ConsumeVal, Plus
        <5> QED BY <2>6, <5>1, <5>2, <5>3
      <4>3. Plus(op, st.val, v) \in {Absent} \cup (Nat \ {0})
        BY <2>6, <3>2, <4>1 DEF Plus, IsNull, Null, Absent
      <4> DEFINE w == Plus(op, st.val, v)
      <4> HIDE DEF w
      <4>4. t \in States /\ t.val = w
        BY <1>0, <4>2, <4>3 DEF Values, w
      <4> QED BY <2>6, <3>1, <4>3, <4>4 DEF Outcomes, w
    <3> QED BY <3>3, <3>4
  <2> QED BY <2>1, <2>2, <2>3, <2>4, <2>5, <2>6 DEF Reductions, Composing
<1> QED BY <1>1 DEF IsState

\* ConsumePart joins a partial result.
LEMMA ConsumePartPlus ==
  ASSUME NEW op \in Composing, NEW st, IsState(op, st), NEW y \in Outcomes(op)
  PROVE  /\ IsState(op, ConsumePart(op, st, y))
         /\ View(op, ConsumePart(op, st, y)) = Plus(op, View(op, st), y)
<1>1. CASE op = "count"
  BY <1>1 DEF IsState, ConsumePart, CountConsumePart, View, Result, Plus, Outcomes
<1>2. CASE op = "first"
  BY <1>2 DEF IsState, ConsumePart, FirstConsumePart, View, Result, Plus, Outcomes
<1>3. CASE op \in {"sum", "max", "min"}
  <2>1. op \in Reductions /\ y \in Values
    BY <1>3 DEF Reductions, Outcomes, Values
  <2>2. \A field : ConsumePart(op, st, y) = Consume(op, field, st, y)
                   /\ Further(op, field, View(op, st), y) = Plus(op, View(op, st), y)
    BY <1>3 DEF ConsumePart, Consume, Further
  <2> QED BY <2>1, <2>2, ConsumeFurther
<1> QED BY <1>1, <1>2, <1>3 DEF Composing

\* What is shown of a reducer is its result.
LEMMA ResultShown ==
  ASSUME NEW op, NEW st
  PROVE  /\ Result(op, st) = Shown(op, View(op, st))
         /\ op \in Composing => \A x : Shown(op, x) = x
BY DEF Shown, View, Result, Composing

-----------------------------------------------------------------------------
(***************************************************************************)
(* The partial results of a group.                                         *)
(***************************************************************************)
\* Induction up to a number, on the numbers of a set.
LEMMA UpTo ==
  ASSUME NEW n \in Nat, NEW T, 0 \in T, \A m \in 1..n : m - 1 \in T => m \in T
  PROVE  \A m \in 0..n : m \in T
<1> DEFINE U == {m \in 0..n : m \notin T}
<1>1. ASSUME U # {}
      PROVE  FALSE
  <2>1. U \subseteq Nat
    OBVIOUS
  <2> HIDE DEF U
  <2>2. PICK m \in U : \A y \in U : m <= y
    BY <1>1, <2>1, LeastNumber, Zenon
  <2>3. m \in 0..n /\ m \notin T
    BY <2>2 DEF U
  <2>4. m # 0
    BY <2>3
  <2>5. m \in 1..n /\ m - 1 \in 0..n /\ ~(m <= m - 1)
    BY <2>3, <2>4
  <2>6. m - 1 \in T
    BY <2>2, <2>5 DEF U
  <2> QED BY <2>3, <2>5, <2>6
<1> QED BY <1>1

\* The recursion of the partial results defines them.
LEMMA PartialsEquation ==
  ASSUME NEW g, NEW k, NEW s, NEW K, Len(s) \in Nat
  PROVE  /\ Partials(g, k, s, K)[0] = Zero(g.reds[k].op)
         /\ \A n \in 1..Len(s) :
              Partials(g, k, s, K)[n] = Joined(g, k, K, Partials(g, k, s, K)[n - 1], s[n])
<1> DEFINE First == Zero(g.reds[k].op)
           More(x, n) == Joined(g, k, K, x, s[n])
<1> HIDE DEF First, More
<1> DEFINE Upto(m, f) == [n \in 0..m |-> IF n = 0 THEN First ELSE More(f[n - 1], n)]
           T == {m \in 0..Len(s) : \E f : f = Upto(m, f)}
<1>1. 0 \in T
  <2> DEFINE f == [n \in 0..0 |-> First]
  <2>1. f = Upto(0, f)
    OBVIOUS
  <2>2. 0 \in 0..Len(s)
    OBVIOUS
  <2> QED BY <2>1, <2>2
<1>2. ASSUME NEW m \in 1..Len(s), m - 1 \in T
      PROVE  m \in T
  <2>1. PICK f : f = Upto(m - 1, f)
    BY <1>2
  <2>2. m \in 0..Len(s) /\ m # 0
    OBVIOUS
  <2> DEFINE h == [n \in 0..m |-> IF n = m THEN More(f[m - 1], m) ELSE f[n]]
  <2>3. ASSUME NEW n \in 0..m
        PROVE  h[n] = IF n = 0 THEN First ELSE More(h[n - 1], n)
    <3>1. CASE n = m
      BY <2>2, <3>1
    <3>2. CASE n # m /\ n = 0
      BY <2>1, <2>2, <3>2
    <3>3. CASE n # m /\ n # 0
      <4>1. n \in 0..(m - 1) /\ n - 1 \in 0..m /\ n - 1 # m
        BY <3>3
      <4>2. h[n] = f[n] /\ h[n - 1] = f[n - 1]
        BY <3>3, <4>1
      <4>3. f[n] = More(f[n - 1], n)
        <5> HIDE DEF h
        <5> QED BY <2>1, <3>3, <4>1
      <4> QED BY <3>3, <4>2, <4>3
    <3> QED BY <3>1, <3>2, <3>3
  <2>4. h = Upto(m, h)
    <3>1. h = [n \in 0..m |-> h[n]]
      OBVIOUS
    <3> HIDE DEF h
    <3> QED BY <2>3, <3>1
  <2> HIDE DEF h
  <2> QED BY <2>2, <2>4
<1> HIDE DEF T
<1>3. Len(s) \in T
  <2> DEFINE n == Len(s)
  <2>1. n \in Nat /\ \A m \in 1..n : m - 1 \in T => m \in T
    BY <1>2
  <2> HIDE DEF n
  <2>2. \A m \in 0..n : m \in T
    BY <1>1, <2>1, UpTo
  <2>3. n \in 0..n
    BY <2>1
  <2> QED BY <2>2, <2>3 DEF n
<1>4. \E f : f = [n \in 0..Len(s) |-> IF n = 0 THEN First ELSE More(f[n - 1], n)]
  BY <1>3 DEF T
<1>5. \E f : f = [n \in 0..Len(s) |->
                    IF n = 0 THEN Zero(g.reds[k].op) ELSE Joined(g, k, K, f[n - 1], s[n])]
  BY <1>4 DEF First, More
<1>6. Partials(g, k, s, K) =
        [n \in 0..Len(s) |->
           IF n = 0 THEN Zero(g.reds[k].op)
           ELSE Joined(g, k, K, Partials(g, k, s, K)[n - 1], s[n])]
  BY <1>5 DEF Partials
<1> QED BY <1>6

\* They are outcomes of the reducer.
LEMMA PartialsOutcome ==
  ASSUME NEW g, NEW k \in DOMAIN g.reds, g.reds[k].op \in Reductions,
         NEW s, IsSequence(s), PartsTyped(g, s), NEW K
  PROVE  \A n \in 0..Len(s) : Partials(g, k, s, K)[n] \in Outcomes(g.reds[k].op)
<1> DEFINE P == Partials(g, k, s, K)
           op == g.reds[k].op
           T == {n \in 0..Len(s) : P[n] \in Outcomes(op)}
<1>1. Len(s) \in Nat /\ DOMAIN s = 1..Len(s)
  BY SequenceFacts
<1>2. P[0] = Zero(op) /\ \A n \in 1..Len(s) : P[n] = Joined(g, k, K, P[n - 1], s[n])
  BY <1>1, PartialsEquation
<1> HIDE DEF P
<1>3. 0 \in T
  BY <1>1, <1>2, ZeroOutcome
<1>4. ASSUME NEW n \in 1..Len(s), n - 1 \in T
      PROVE  n \in T
  <2>1. P[n - 1] \in Outcomes(op) /\ n \in 0..Len(s)
    BY <1>1, <1>4
  <2>2. s[n][g.reds[k].target] \in Outcomes(op)
    BY <1>1 DEF PartsTyped
  <2>3. P[n] = IF GroupKey(g, s[n]) = K THEN Plus(op, P[n - 1], s[n][g.reds[k].target])
               ELSE P[n - 1]
    BY <1>2 DEF Joined
  <2>4. P[n] \in Outcomes(op)
    BY <2>1, <2>2, <2>3, PlusOutcome
  <2> QED BY <2>1, <2>4
<1> HIDE DEF T
<1>5. \A n \in 0..Len(s) : n \in T
  BY <1>1, <1>3, <1>4, UpTo
<1> QED BY <1>5 DEF T, P

\* Records of other groups are passed over.
LEMMA PartialsSkip ==
  ASSUME NEW g, NEW k, NEW K, NEW s, Len(s) \in Nat, NEW m \in 0..Len(s), NEW n \in m..Len(s),
         \A i \in (m + 1)..n : GroupKey(g, s[i]) # K
  PROVE  Partials(g, k, s, K)[n] = Partials(g, k, s, K)[m]
<1> DEFINE P == Partials(g, k, s, K)
           T == {d \in 0..(n - m) : P[m + d] = P[m]}
<1>1. \A i \in 1..Len(s) : P[i] = Joined(g, k, K, P[i - 1], s[i])
  BY PartialsEquation
<1> HIDE DEF P
<1>2. n - m \in Nat /\ 0 \in T
  OBVIOUS
<1>3. ASSUME NEW d \in 1..(n - m), d - 1 \in T
      PROVE  d \in T
  <2>1. /\ m + d \in 1..Len(s) /\ m + d \in (m + 1)..n
        /\ (m + d) - 1 = m + (d - 1) /\ d \in 0..(n - m)
    OBVIOUS
  <2>2. P[m + d] = Joined(g, k, K, P[m + (d - 1)], s[m + d])
    BY <1>1, <2>1
  <2>3. P[m + d] = P[m + (d - 1)]
    BY <2>1, <2>2 DEF Joined
  <2> QED BY <1>3, <2>1, <2>3
<1> HIDE DEF T
<1>4. \A d \in 0..(n - m) : d \in T
  BY <1>2, <1>3, UpTo
<1>5. n - m \in T
  BY <1>2, <1>4
<1>6. m + (n - m) = n
  OBVIOUS
<1> QED BY <1>5, <1>6 DEF T, P

\* The records after the i-th to the m-th of s are those after the j-th to the
\* n-th of t.
Alike(s, i, m, t, j, n) ==
  /\ Len(s) \in Nat /\ i \in Nat /\ m \in i..Len(s)
  /\ Len(t) \in Nat /\ j \in Nat /\ n \in j..Len(t)
  /\ m - i = n - j
  /\ \A d \in 1..(m - i) : s[i + d] = t[j + d]

\* Equal records, wherever they are, add the same.
LEMMA PartialsShift ==
  ASSUME NEW g, NEW k, NEW K, NEW s, NEW t, NEW i, NEW j, NEW m, NEW n,
         Alike(s, i, m, t, j, n),
         Partials(g, k, s, K)[i] = Partials(g, k, t, K)[j]
  PROVE  Partials(g, k, s, K)[m] = Partials(g, k, t, K)[n]
<1> DEFINE P == Partials(g, k, s, K)
           Q == Partials(g, k, t, K)
           d == m - i
           T == {e \in 0..d : P[i + e] = Q[j + e]}
<1>1. /\ \A e \in 1..Len(s) : P[e] = Joined(g, k, K, P[e - 1], s[e])
      /\ \A e \in 1..Len(t) : Q[e] = Joined(g, k, K, Q[e - 1], t[e])
  BY PartialsEquation DEF Alike
<1>0. P[i] = Q[j] /\ \A e \in 1..d : s[i + e] = t[j + e]
  BY DEF Alike
<1> HIDE DEF P, Q
<1>2. /\ d \in Nat /\ i + d = m /\ j + d = n /\ m \in Nat /\ n \in Nat /\ i \in Nat /\ j \in Nat
      /\ m <= Len(s) /\ n <= Len(t) /\ Len(s) \in Nat /\ Len(t) \in Nat
  BY DEF Alike
<1> HIDE DEF d
<1>3. 0 \in T
  BY <1>0, <1>2
<1>4. ASSUME NEW e \in 1..d, e - 1 \in T
      PROVE  e \in T
  <2>1. /\ i + e \in 1..Len(s) /\ j + e \in 1..Len(t) /\ e \in 0..d
        /\ (i + e) - 1 = i + (e - 1) /\ (j + e) - 1 = j + (e - 1)
    BY <1>2
  <2>2. /\ P[i + e] = Joined(g, k, K, P[i + (e - 1)], s[i + e])
        /\ Q[j + e] = Joined(g, k, K, Q[j + (e - 1)], t[j + e])
    BY <1>1, <2>1
  <2> QED BY <1>0, <1>4, <2>1, <2>2
<1> HIDE DEF T
<1>5. \A e \in 0..d : e \in T
  BY <1>2, <1>3, <1>4, UpTo
<1>6. d \in T
  BY <1>2, <1>5
<1> QED BY <1>2, <1>6 DEF T, P, Q

\* A record that goes in after the others of its group.
LEMMA InsertPartial ==
  ASSUME NEW g, NEW k, NEW K, NEW s, IsSequence(s), NEW r, NEW q \in 0..Len(s),
         \A i \in (q + 1)..Len(s) : GroupKey(g, s[i]) # GroupKey(g, r)
  PROVE  Partial(g, k, Between(s, r, q), K) = Joined(g, k, K, Partial(g, k, s, K), r)
<1> DEFINE t == Between(s, r, q)
           L == Len(s)
           P == Partials(g, k, s, K)
           Q == Partials(g, k, t, K)
<1>1. /\ L \in Nat /\ Len(t) = L + 1
      /\ \A i \in 1..(L + 1) : t[i] = IF i <= q THEN s[i] ELSE IF i = q + 1 THEN r ELSE s[i - 1]
  BY SequenceFacts, BetweenElements
<1> HIDE DEF t
<1>2. P[0] = Q[0] /\ \A n \in 1..(L + 1) : Q[n] = Joined(g, k, K, Q[n - 1], t[n])
  BY <1>1, PartialsEquation
<1> HIDE DEF P, Q, L
<1>3. q \in Nat /\ q <= L /\ q \in 0..L /\ \A i \in (q + 1)..L : GroupKey(g, s[i]) # GroupKey(g, r)
  BY <1>1 DEF L
<1>4. P[q] = Q[q]
  <2>1. Alike(s, 0, q, t, 0, q)
    BY <1>1, <1>3 DEF Alike, L
  <2> QED BY <1>2, <2>1, PartialsShift DEF P, Q
<1>5. Q[q + 1] = Joined(g, k, K, P[q], r)
  <2>1. q + 1 \in 1..(L + 1) /\ (q + 1) - 1 = q /\ t[q + 1] = r
    BY <1>1, <1>3
  <2> QED BY <1>2, <1>4, <2>1
<1>6. Q[L + 1] = Joined(g, k, K, P[L], r)
  <2>1. CASE GroupKey(g, r) # K
    <3>0. PICK i, n : i = q + 1 /\ n = L + 1
      OBVIOUS
    <3>1. Alike(s, q, L, t, i, n)
      BY <1>1, <1>3, <3>0 DEF Alike, L
    <3>2. P[q] = Q[i]
      BY <1>5, <2>1, <3>0 DEF Joined
    <3>3. P[L] = Q[n]
      BY <3>1, <3>2, PartialsShift DEF P, Q
    <3>4. P[L] = Q[L + 1]
      BY <3>0, <3>3
    <3> QED BY <2>1, <3>4 DEF Joined
  <2>2. CASE GroupKey(g, r) = K
    <3>1. \A i \in (q + 1)..L : GroupKey(g, s[i]) # K
      BY <1>3, <2>2
    <3>2. P[L] = P[q]
      <4>1. q \in 0..L /\ L \in q..L
        BY <1>1, <1>3
      <4> QED BY <1>1, <3>1, <4>1, PartialsSkip DEF P, L
    <3>3. Q[L + 1] = Q[q + 1]
      <4> DEFINE e == q + 1
                 n == L + 1
      <4>1. e \in 0..Len(t) /\ n \in e..Len(t) /\ Len(t) \in Nat
        BY <1>1, <1>3
      <4>2. \A i \in (e + 1)..n : GroupKey(g, t[i]) # K
        <5> SUFFICES ASSUME NEW i \in (e + 1)..n
                     PROVE  GroupKey(g, t[i]) # K
          OBVIOUS
        <5>1. i \in 1..(L + 1) /\ ~(i <= q) /\ i # q + 1 /\ i - 1 \in (q + 1)..L
          BY <1>1, <1>3
        <5>2. t[i] = s[i - 1]
          BY <1>1, <5>1
        <5>3. GroupKey(g, s[i - 1]) # K
          BY <3>1, <5>1
        <5> QED BY <5>2, <5>3
      <4> HIDE DEF e, n
      <4>3. Q[n] = Q[e]
        BY <4>1, <4>2, PartialsSkip DEF Q
      <4> QED BY <4>3 DEF e, n
    <3> QED BY <1>5, <3>2, <3>3
  <2> QED BY <2>1, <2>2
<1> QED BY <1>1, <1>6 DEF Partial, P, Q, L, t

\* The sort keeps the records of a group in their order.
LEMMA SortPartial ==
  ASSUME NEW g, IsGroupBy(g), SortsByKey(g), NEW s, Keyed(g, s), NEW k, NEW K
  PROVE  Partial(g, k, SortByKeys(g, s), K) = Partial(g, k, s, K)
<1> DEFINE nullsMax == TRUE
           dir == g.dir
           fields == KeyTargets(g)
           I == Insertions(s, dir, nullsMax, fields)
           P == Partials(g, k, s, K)
           T == {n \in 0..Len(s) : Partial(g, k, I[n], K) = P[n]}
<1>1. /\ \A x, y : KeysCompare(g, x, y) = Directed(dir, nullsMax, fields, x, y)
      /\ SortByKeys(g, s) = SortStable(s, dir, nullsMax, fields)
  BY DEF KeysCompare, SortByKeys
<1>2. Orders(dir, nullsMax, fields, Range(s))
  BY SortedByKeys
<1> HIDE DEF nullsMax, dir, fields
<1>3. /\ IsSequence(s) /\ Len(s) \in Nat
      /\ \A r \in Range(s) : IsKeyed(g, r)
      /\ \A i \in 1..Len(s) : s[i] \in Range(s)
  BY KeyedRecords, SequenceFacts DEF Keyed, Range
<1>4. /\ I[0] = <<>>
      /\ \A n \in 1..Len(s) : I[n] = InsertStable(I[n - 1], s[n], dir, nullsMax, fields)
  BY <1>3, InsertionsEquation
<1>5. \A n \in 0..Len(s) :
        /\ IsSequence(I[n]) /\ Len(I[n]) = n /\ Range(I[n]) \subseteq Range(s)
        /\ Sorted(dir, nullsMax, fields, I[n])
  BY <1>2, <1>3, SortSorts
<1>6. /\ P[0] = Zero(g.reds[k].op)
      /\ \A n \in 1..Len(s) : P[n] = Joined(g, k, K, P[n - 1], s[n])
  BY <1>3, PartialsEquation
<1>7. SortByKeys(g, s) = I[Len(s)]
  BY <1>1 DEF SortStable
<1> HIDE DEF I, P
<1>8. 0 \in T
  <2>1. Partials(g, k, <<>>, K)[0] = Zero(g.reds[k].op)
    BY NoElement, PartialsEquation
  <2>2. Partial(g, k, <<>>, K) = Zero(g.reds[k].op)
    BY <2>1, NoElement DEF Partial
  <2>3. Partial(g, k, I[0], K) = P[0]
    BY <1>4, <1>6, <2>2
  <2>4. 0 \in 0..Len(s)
    BY <1>3
  <2> QED BY <2>3, <2>4
<1>9. ASSUME NEW n \in 1..Len(s), n - 1 \in T
      PROVE  n \in T
  <2> DEFINE u == I[n - 1]
             x == s[n]
             q == Place(u, x, dir, nullsMax, fields)
  <2>1. n - 1 \in 0..Len(s) /\ n \in 0..Len(s)
    BY <1>3
  <2>2. /\ IsSequence(u) /\ Range(u) \subseteq Range(s) /\ Sorted(dir, nullsMax, fields, u)
        /\ x \in Range(s) /\ Partial(g, k, u, K) = P[n - 1]
        /\ I[n] = InsertStable(u, x, dir, nullsMax, fields)
        /\ P[n] = Joined(g, k, K, P[n - 1], x)
    BY <1>3, <1>4, <1>5, <1>6, <1>9, <2>1
  <2> HIDE DEF u, x
  <2>3. Orders(dir, nullsMax, fields, Range(u) \cup {x})
    BY <1>2, <2>2, OrdersPart
  <2>4. /\ InsertStable(u, x, dir, nullsMax, fields) = Between(u, x, q)
        /\ q \in 0..Len(u)
        /\ \A i \in 1..Len(u) : Directed(dir, nullsMax, fields, u[i], x) <= 0 <=> i <= q
    BY <2>2, <2>3, PlaceSplits
  <2> HIDE DEF q
  <2>5. Len(u) \in Nat /\ \A i \in 1..Len(u) : u[i] \in Range(u)
    BY <2>2, SequenceFacts DEF Range
  <2>6. \A i \in (q + 1)..Len(u) : GroupKey(g, u[i]) # GroupKey(g, x)
    <3> SUFFICES ASSUME NEW i \in (q + 1)..Len(u)
                 PROVE  GroupKey(g, u[i]) # GroupKey(g, x)
      OBVIOUS
    <3>1. i \in 1..Len(u) /\ ~(i <= q)
      BY <2>4, <2>5
    <3>2. IsKeyed(g, u[i]) /\ IsKeyed(g, x)
      BY <1>3, <2>2, <2>5, <3>1
    <3>3. ~(KeysCompare(g, u[i], x) <= 0)
      BY <1>1, <2>4, <3>1
    <3>4. KeysCompare(g, u[i], x) # 0
      BY <3>3
    <3> QED BY <3>2, <3>4, SameGroup
  <2>7. Partial(g, k, Between(u, x, q), K) = Joined(g, k, K, Partial(g, k, u, K), x)
    BY <2>2, <2>4, <2>6, InsertPartial
  <2>8. Partial(g, k, I[n], K) = P[n]
    BY <2>2, <2>4, <2>7
  <2> QED BY <2>1, <2>8
<1> HIDE DEF T
<1>10. Len(s) \in T
  <2> DEFINE n == Len(s)
  <2>1. n \in Nat /\ \A m \in 1..n : m - 1 \in T => m \in T
    BY <1>3, <1>9
  <2> HIDE DEF n
  <2>2. \A m \in 0..n : m \in T
    BY <1>8, <2>1, UpTo
  <2>3. n \in 0..n
    BY <2>1
  <2> QED BY <2>2, <2>3 DEF n
<1> QED BY <1>7, <1>10 DEF T, P, Partial

\* Records that have at most one of a group after those of a sequence.
LEMMA JoinPartial ==
  ASSUME NEW g, NEW s, NEW t, Keyed(g, s), Keyed(g, t), OutDistinct(g, t), NEW k, NEW K, NEW y,
         \A j \in DOMAIN t : GroupKey(g, t[j]) = K => t[j][g.reds[k].target] = y
  PROVE  Partial(g, k, s \o t, K) =
           IF K \in KeysIn(g, t) THEN Plus(g.reds[k].op, Partial(g, k, s, K), y)
           ELSE Partial(g, k, s, K)
<1> DEFINE u == s \o t
           L == Len(s)
           M == Len(t)
           P == Partials(g, k, s, K)
           Q == Partials(g, k, u, K)
<1>1. /\ L \in Nat /\ M \in Nat /\ DOMAIN t = 1..M /\ DOMAIN s = 1..L
      /\ IsSequence(s) /\ IsSequence(t)
  BY SequenceFacts DEF Keyed
<1>2. /\ Len(u) = L + M
      /\ \A i \in 1..L : u[i] = s[i]
      /\ \A i \in 1..M : u[L + i] = t[i]
  <2> DEFINE R == Range(s) \cup Range(t)
  <2>1. s \in Seq(R) /\ t \in Seq(R)
    BY <1>1, SeqMonotonic DEF IsSequence
  <2> HIDE DEF R
  <2>2. /\ Len(u) = L + M
        /\ \A i \in 1..(L + M) : u[i] = IF i <= L THEN s[i] ELSE t[i - L]
    BY <2>1, ConcatProperties
  <2>3. \A i \in 1..M : L + i \in 1..(L + M) /\ ~(L + i <= L) /\ (L + i) - L = i
    BY <1>1
  <2>4. \A i \in 1..L : i \in 1..(L + M) /\ i <= L
    BY <1>1
  <2> QED BY <2>2, <2>3, <2>4
<1> HIDE DEF u
<1>3. P[0] = Q[0] /\ \A n \in 1..(L + M) : Q[n] = Joined(g, k, K, Q[n - 1], u[n])
  <2>1. Len(u) \in Nat
    BY <1>1, <1>2
  <2> QED BY <1>1, <1>2, <2>1, PartialsEquation
<1> HIDE DEF P, Q, L, M
<1>4. Q[L] = P[L]
  <2>1. Alike(s, 0, L, u, 0, L)
    BY <1>1, <1>2 DEF Alike, L
  <2>2. Partials(g, k, s, K)[0] = Partials(g, k, u, K)[0]
    BY <1>3 DEF P, Q
  <2>3. Partials(g, k, s, K)[L] = Partials(g, k, u, K)[L]
    BY <2>1, <2>2, PartialsShift
  <2> QED BY <2>3 DEF P, Q
<1>5. CASE K \notin KeysIn(g, t)
  <2>1. \A i \in (L + 1)..(L + M) : GroupKey(g, u[i]) # K
    <3> SUFFICES ASSUME NEW i \in (L + 1)..(L + M)
                 PROVE  GroupKey(g, u[i]) # K
      OBVIOUS
    <3>1. i - L \in 1..M /\ L + (i - L) = i
      BY <1>1
    <3>2. u[i] = t[i - L]
      BY <1>2, <3>1
    <3> QED BY <1>1, <1>5, <3>1, <3>2 DEF KeysIn
  <2>2. L \in 0..(L + M) /\ L + M \in L..(L + M) /\ Len(u) \in Nat
    BY <1>1, <1>2
  <2>3. Q[L + M] = Q[L]
    BY <1>2, <2>1, <2>2, PartialsSkip DEF Q
  <2> QED BY <1>2, <1>4, <1>5, <2>3 DEF Partial, P, Q, L, u
<1>6. CASE K \in KeysIn(g, t)
  <2>1. PICK j \in 1..M : GroupKey(g, t[j]) = K
    BY <1>1, <1>6 DEF KeysIn
  <2>2. \A i \in 1..M : i # j => GroupKey(g, t[i]) # K
    <3> SUFFICES ASSUME NEW i \in 1..M, i # j
                 PROVE  GroupKey(g, t[i]) # GroupKey(g, t[j])
      BY <2>1
    <3>1. i < j \/ j < i
      BY <1>1
    <3> QED BY <1>1, <3>1 DEF OutDistinct
  <2>3. \A i \in (L + 1)..(L + M) : i # L + j => GroupKey(g, u[i]) # K
    <3> SUFFICES ASSUME NEW i \in (L + 1)..(L + M), i # L + j
                 PROVE  GroupKey(g, u[i]) # K
      OBVIOUS
    <3>1. i - L \in 1..M /\ L + (i - L) = i /\ i - L # j
      BY <1>1
    <3>2. u[i] = t[i - L]
      BY <1>2, <3>1
    <3> QED BY <2>2, <3>1, <3>2
  <2> DEFINE a == L + (j - 1)
             b == L + j
  <2>4. /\ L \in 0..Len(u) /\ a \in L..Len(u) /\ b \in 0..Len(u) /\ L + M \in b..Len(u)
        /\ Len(u) \in Nat /\ b - 1 = a /\ b \in 1..(L + M)
        /\ \A i \in (L + 1)..a : i \in (L + 1)..(L + M) /\ i # b
        /\ \A i \in (b + 1)..(L + M) : i \in (L + 1)..(L + M) /\ i # b
    BY <1>1, <1>2
  <2> HIDE DEF a
  <2>5. Q[a] = Q[L]
    <3>1. \A i \in (L + 1)..a : GroupKey(g, u[i]) # K
      BY <2>3, <2>4
    <3> QED BY <2>4, <3>1, PartialsSkip DEF Q
  <2>6. Q[b] = Joined(g, k, K, Q[a], t[j])
    BY <1>2, <1>3, <2>4
  <2> HIDE DEF b
  <2>7. Q[L + M] = Q[b]
    <3>1. \A i \in (b + 1)..(L + M) : GroupKey(g, u[i]) # K
      BY <2>3, <2>4 DEF b
    <3> QED BY <2>4, <3>1, PartialsSkip DEF Q
  <2>8. Q[b] = Plus(g.reds[k].op, Q[a], y)
    <3>1. t[j][g.reds[k].target] = y
      BY <1>1, <2>1
    <3> QED BY <2>1, <2>6, <3>1 DEF Joined
  <2> QED BY <1>2, <1>4, <1>6, <2>5, <2>7, <2>8 DEF Partial, P, Q, L, u
<1> QED BY <1>5, <1>6

-----------------------------------------------------------------------------
(***************************************************************************)
(* The results of a group.                                                 *)
(***************************************************************************)
\* The recursion of nextResultFromSpills defines its rows.
LEMMA SpilledRowsEquation ==
  ASSUME NEW g, NEW s, Len(s) \in Nat
  PROVE  /\ SpilledRows(g, s)[0] = NewRow(g)
         /\ \A n \in 1..Len(s) :
              SpilledRows(g, s)[n] = RowConsumePart(g, SpilledRows(g, s)[n - 1], s[n])
<1> DEFINE First == NewRow(g)
           More(x, n) == RowConsumePart(g, x, s[n])
<1> HIDE DEF First, More
<1> DEFINE Upto(m, f) == [n \in 0..m |-> IF n = 0 THEN First ELSE More(f[n - 1], n)]
           T == {m \in 0..Len(s) : \E f : f = Upto(m, f)}
<1>1. 0 \in T
  <2> DEFINE f == [n \in 0..0 |-> First]
  <2>1. f = Upto(0, f)
    OBVIOUS
  <2>2. 0 \in 0..Len(s)
    OBVIOUS
  <2> QED BY <2>1, <2>2
<1>2. ASSUME NEW m \in 1..Len(s), m - 1 \in T
      PROVE  m \in T
  <2>1. PICK f : f = Upto(m - 1, f)
    BY <1>2
  <2>2. m \in 0..Len(s) /\ m # 0
    OBVIOUS
  <2> DEFINE h == [n \in 0..m |-> IF n = m THEN More(f[m - 1], m) ELSE f[n]]
  <2>3. ASSUME NEW n \in 0..m
        PROVE  h[n] = IF n = 0 THEN First ELSE More(h[n - 1], n)
    <3>1. CASE n = m
      BY <2>2, <3>1
    <3>2. CASE n # m /\ n = 0
      BY <2>1, <2>2, <3>2
    <3>3. CASE n # m /\ n # 0
      <4>1. n \in 0..(m - 1) /\ n - 1 \in 0..m /\ n - 1 # m
        BY <3>3
      <4>2. h[n] = f[n] /\ h[n - 1] = f[n - 1]
        BY <3>3, <4>1
      <4>3. f[n] = More(f[n - 1], n)
        <5> HIDE DEF h
        <5> QED BY <2>1, <3>3, <4>1
      <4> QED BY <3>3, <4>2, <4>3
    <3> QED BY <3>1, <3>2, <3>3
  <2>4. h = Upto(m, h)
    <3>1. h = [n \in 0..m |-> h[n]]
      OBVIOUS
    <3> HIDE DEF h
    <3> QED BY <2>3, <3>1
  <2> HIDE DEF h
  <2> QED BY <2>2, <2>4
<1> HIDE DEF T
<1>3. Len(s) \in T
  <2> DEFINE n == Len(s)
  <2>1. n \in Nat /\ \A m \in 1..n : m - 1 \in T => m \in T
    BY <1>2
  <2> HIDE DEF n
  <2>2. \A m \in 0..n : m \in T
    BY <1>1, <2>1, UpTo
  <2>3. n \in 0..n
    BY <2>1
  <2> QED BY <2>2, <2>3 DEF n
<1>4. \E f : f = [n \in 0..Len(s) |-> IF n = 0 THEN First ELSE More(f[n - 1], n)]
  BY <1>3 DEF T
<1>5. \E f : f = [n \in 0..Len(s) |->
                    IF n = 0 THEN NewRow(g) ELSE RowConsumePart(g, f[n - 1], s[n])]
  BY <1>4 DEF First, More
<1>6. SpilledRows(g, s) =
        [n \in 0..Len(s) |->
           IF n = 0 THEN NewRow(g)
           ELSE RowConsumePart(g, SpilledRows(g, s)[n - 1], s[n])]
  BY <1>5 DEF SpilledRows
<1> QED BY <1>6

\* What nextResultFromSpills makes of the partial results at the front is what
\* all those of their group come to.
LEMMA FrontPartial ==
  ASSUME NEW g, IsGroupBy(g), SortsByKey(g), Composes(g), NEW runs, Keyed(g, runs), runs # <<>>,
         RunsSorted(g, runs), PartsTyped(g, runs)
  PROVE  LET row == SpilledRows(g, runs)[FrontGroup(g, runs)] IN
         /\ DOMAIN row = DOMAIN g.reds
         /\ \A k \in DOMAIN g.reds :
              /\ IsState(g.reds[k].op, row[k])
              /\ View(g.reds[k].op, row[k]) = Partial(g, k, runs, GroupKey(g, runs[1]))
<1> DEFINE n == FrontGroup(g, runs)
           L == Len(runs)
           K == GroupKey(g, runs[1])
           R == SpilledRows(g, runs)
           P(k) == Partials(g, k, runs, K)
           Op(k) == g.reds[k].op
           Target(k) == g.reds[k].target
           Good(m) == /\ DOMAIN R[m] = DOMAIN g.reds
                      /\ \A k \in DOMAIN g.reds :
                           IsState(Op(k), R[m][k]) /\ View(Op(k), R[m][k]) = P(k)[m]
           T == {m \in 0..n : Good(m)}
<1>1. L \in Nat /\ DOMAIN runs = 1..L
  BY SequenceFacts DEF Keyed
<1>2. /\ n \in 1..L /\ \A i \in 1..n : GroupKey(g, runs[i]) = K
      /\ \A i \in (n + 1)..L : GroupKey(g, runs[i]) # K
  <2>1. n \in 1..L /\ \A i \in 1..n : GroupKey(g, runs[i]) = K
    BY FrontOfRuns
  <2>2. \A i \in (n + 1)..L : KeyLess(g, K, GroupKey(g, runs[i]))
    BY BehindFront
  <2> SUFFICES ASSUME NEW i \in (n + 1)..L
               PROVE  GroupKey(g, runs[i]) # K
    BY <2>1
  <2>3. i \in DOMAIN runs /\ 1 \in DOMAIN runs
    BY <1>1, <2>1
  <2>4. K \in [DOMAIN g.keys -> Nat] /\ GroupKey(g, runs[i]) \in [DOMAIN g.keys -> Nat]
    BY <2>3, KeyThere
  <2> QED BY <2>2, <2>4, KeyOrder
<1>3. R[0] = NewRow(g) /\ \A m \in 1..L : R[m] = RowConsumePart(g, R[m - 1], runs[m])
  BY <1>1, SpilledRowsEquation
<1>4. \A k : P(k)[0] = Zero(Op(k)) /\ \A m \in 1..L : P(k)[m] = Joined(g, k, K, P(k)[m - 1], runs[m])
  BY <1>1, PartialsEquation
<1>5. \A k \in DOMAIN g.reds : Op(k) \in Composing /\ Op(k) \in Reductions
  BY DEF Composes, Reductions
<1>6. \A m \in 1..L : \A k \in DOMAIN g.reds : runs[m][Target(k)] \in Outcomes(Op(k))
  BY <1>1 DEF PartsTyped
<1>10. \A r, row : RowConsumePart(g, row, r) =
                     [k \in DOMAIN row |-> ConsumePart(Op(k), row[k], r[Target(k)])]
  BY DEF RowConsumePart
<1>11. \A k, x, r : GroupKey(g, r) = K => Joined(g, k, K, x, r) = Plus(Op(k), x, r[Target(k)])
  BY DEF Joined
<1> HIDE DEF n, L, R, P, Op, Target
<1>7. 0 \in T
  <2>1. R[0] = [k \in DOMAIN g.reds |-> NewReducer]
    BY <1>3 DEF NewRow
  <2>2. \A k \in DOMAIN g.reds : IsState(Op(k), NewReducer) /\ View(Op(k), NewReducer) = Zero(Op(k))
    BY <1>5, ZeroOutcome DEF Zero
  <2>3. Good(0)
    BY <1>4, <2>1, <2>2
  <2>4. 0 \in 0..n
    BY <1>1, <1>2
  <2> QED BY <2>3, <2>4
<1>8. ASSUME NEW m \in 1..n, m - 1 \in T
      PROVE  m \in T
  <2> DEFINE row == R[m - 1]
             r == runs[m]
  <2>1. m \in 1..L /\ m \in 0..n /\ Good(m - 1) /\ GroupKey(g, r) = K
    BY <1>1, <1>2, <1>8
  <2>2. R[m] = [k \in DOMAIN row |-> ConsumePart(Op(k), row[k], r[Target(k)])]
    BY <1>3, <1>10, <2>1
  <2>3. DOMAIN R[m] = DOMAIN g.reds
    BY <2>1, <2>2
  <2>4. ASSUME NEW k \in DOMAIN g.reds
        PROVE  IsState(Op(k), R[m][k]) /\ View(Op(k), R[m][k]) = P(k)[m]
    <3>1. R[m][k] = ConsumePart(Op(k), row[k], r[Target(k)])
      BY <2>1, <2>2
    <3>2. /\ IsState(Op(k), row[k]) /\ View(Op(k), row[k]) = P(k)[m - 1]
          /\ r[Target(k)] \in Outcomes(Op(k)) /\ Op(k) \in Composing
      BY <1>5, <1>6, <2>1
    <3>3. P(k)[m] = Plus(Op(k), P(k)[m - 1], r[Target(k)])
      BY <1>4, <1>11, <2>1
    <3> HIDE DEF row, r
    <3> QED BY <3>1, <3>2, <3>3, ConsumePartPlus
  <2> QED BY <2>1, <2>3, <2>4
<1> HIDE DEF T
<1>9. n \in T
  <2>1. n \in Nat /\ n \in 0..n
    BY <1>1, <1>2
  <2>2. \A m \in 0..n : m \in T
    BY <1>7, <1>8, <2>1, UpTo
  <2> QED BY <2>1, <2>2
<1>12. \A k : P(k)[L] = P(k)[n]
  <2>1. n \in 0..L /\ L \in n..L
    BY <1>1, <1>2
  <2> QED BY <1>1, <1>2, <2>1, PartialsSkip DEF P, L
<1> QED BY <1>9, <1>12 DEF T, P, Partial, R, n, L, Op

\* What is left when the front has been read.
LEMMA RestPartial ==
  ASSUME NEW g, IsGroupBy(g), NEW runs, Keyed(g, runs), runs # <<>>, PartsTyped(g, runs)
  PROVE  LET rest == SubSeq(runs, FrontGroup(g, runs) + 1, Len(runs)) IN
         /\ PartsTyped(g, rest)
         /\ \A k, K : K # GroupKey(g, runs[1]) => Partial(g, k, rest, K) = Partial(g, k, runs, K)
<1> DEFINE n == FrontGroup(g, runs)
           L == Len(runs)
           rest == SubSeq(runs, n + 1, L)
<1>1. L \in Nat /\ DOMAIN runs = 1..L /\ IsSequence(runs)
  BY SequenceFacts DEF Keyed
<1>2. n \in 1..L /\ \A i \in 1..n : GroupKey(g, runs[i]) = GroupKey(g, runs[1])
  BY FrontOfRuns
<1> HIDE DEF n
<1>3. /\ Len(rest) = L - n /\ DOMAIN rest = 1..(L - n)
      /\ \A i \in 1..(L - n) : rest[i] = runs[n + i]
  <2>1. n \in 0..Len(runs)
    BY <1>1, <1>2
  <2> QED BY <1>1, <2>1, RestElements
<1> HIDE DEF rest, L
<1>4. PartsTyped(g, rest)
  <2>1. \A i \in 1..(L - n) : n + i \in 1..L
    BY <1>1, <1>2
  <2> QED BY <1>1, <1>3, <2>1 DEF PartsTyped
<1>5. ASSUME NEW k, NEW K, K # GroupKey(g, runs[1])
      PROVE  Partial(g, k, rest, K) = Partial(g, k, runs, K)
  <2> DEFINE P == Partials(g, k, runs, K)
             Q == Partials(g, k, rest, K)
             d == L - n
  <2>1. Len(rest) \in Nat /\ d \in Nat
    BY <1>1, <1>2, <1>3
  <2>2. P[0] = Q[0]
    BY <1>1, <2>1, PartialsEquation DEF L
  <2>3. P[n] = P[0]
    <3>1. 0 \in 0..L /\ n \in 0..L /\ \A i \in (0 + 1)..n : GroupKey(g, runs[i]) # K
      BY <1>1, <1>2, <1>5
    <3> QED BY <1>1, <3>1, PartialsSkip DEF L
  <2>4. Alike(runs, n, L, rest, 0, d)
    <3>1. /\ n \in Nat /\ L \in n..L /\ d \in 0..Len(rest) /\ L - n = d - 0
          /\ \A i \in 1..(L - n) : 0 + i = i
      BY <1>1, <1>2, <1>3
    <3> QED BY <1>1, <1>3, <2>1, <3>1 DEF Alike, L
  <2> HIDE DEF d
  <2>5. P[L] = Q[d]
    <3>1. P[n] = Q[0]
      BY <2>2, <2>3
    <3> HIDE DEF P, Q
    <3> QED BY <2>4, <3>1, PartialsShift DEF P, Q
  <2> QED BY <1>3, <2>5 DEF Partial, L, d
<1> QED BY <1>4, <1>5 DEF rest, n, L

\* The columns of a result: under the name of a reducer is its result.
LEMMA RowValues ==
  ASSUME NEW g, Reduces(g), NEW key, NEW row, NEW k \in DOMAIN g.reds
  PROVE  RowRecord(g, key, row)[g.reds[k].target] = Result(g.reds[k].op, row[k])
<1> DEFINE f == g.reds[k].target
           F == {g.keys[i].target : i \in DOMAIN g.keys} \cup {g.reds[i].target : i \in DOMAIN g.reds}
           j == CHOOSE l \in DOMAIN g.reds : g.reds[l].target = f
<1>1. f \in F /\ ~(\E i \in DOMAIN g.keys : g.keys[i].target = f)
  BY DEF Reduces
<1>2. j = k
  BY DEF Reduces
<1> HIDE DEF F
<1>3. RowRecord(g, key, row)[f] = Result(g.reds[j].op, row[j])
  BY <1>1 DEF RowRecord, F
<1> QED BY <1>2, <1>3

-----------------------------------------------------------------------------
(***************************************************************************)
(* What the records of an input come to.                                   *)
(***************************************************************************)
\* The recursion of the total defines it.
LEMMA TotalsEquation ==
  ASSUME NEW s, NEW field, NEW among, Len(s) \in Nat
  PROVE  /\ Totals(s, field, among)[0] = 0
         /\ \A n \in 1..Len(s) :
              Totals(s, field, among)[n] = Totals(s, field, among)[n - 1] + (IF n \in among THEN Eval(s[n], field) ELSE 0)
<1> DEFINE First == 0
           More(x, n) == x + (IF n \in among THEN Eval(s[n], field) ELSE 0)
<1> HIDE DEF First, More
<1> DEFINE Upto(m, f) == [n \in 0..m |-> IF n = 0 THEN First ELSE More(f[n - 1], n)]
           T == {m \in 0..Len(s) : \E f : f = Upto(m, f)}
<1>1. 0 \in T
  <2> DEFINE f == [n \in 0..0 |-> First]
  <2>1. f = Upto(0, f)
    OBVIOUS
  <2>2. 0 \in 0..Len(s)
    OBVIOUS
  <2> QED BY <2>1, <2>2
<1>2. ASSUME NEW m \in 1..Len(s), m - 1 \in T
      PROVE  m \in T
  <2>1. PICK f : f = Upto(m - 1, f)
    BY <1>2
  <2>2. m \in 0..Len(s) /\ m # 0
    OBVIOUS
  <2> DEFINE h == [n \in 0..m |-> IF n = m THEN More(f[m - 1], m) ELSE f[n]]
  <2>3. ASSUME NEW n \in 0..m
        PROVE  h[n] = IF n = 0 THEN First ELSE More(h[n - 1], n)
    <3>1. CASE n = m
      BY <2>2, <3>1
    <3>2. CASE n # m /\ n = 0
      BY <2>1, <2>2, <3>2
    <3>3. CASE n # m /\ n # 0
      <4>1. n \in 0..(m - 1) /\ n - 1 \in 0..m /\ n - 1 # m
        BY <3>3
      <4>2. h[n] = f[n] /\ h[n - 1] = f[n - 1]
        BY <3>3, <4>1
      <4>3. f[n] = More(f[n - 1], n)
        <5> HIDE DEF h
        <5> QED BY <2>1, <3>3, <4>1
      <4> QED BY <3>3, <4>2, <4>3
    <3> QED BY <3>1, <3>2, <3>3
  <2>4. h = Upto(m, h)
    <3>1. h = [n \in 0..m |-> h[n]]
      OBVIOUS
    <3> HIDE DEF h
    <3> QED BY <2>3, <3>1
  <2> HIDE DEF h
  <2> QED BY <2>2, <2>4
<1> HIDE DEF T
<1>3. Len(s) \in T
  <2> DEFINE n == Len(s)
  <2>1. n \in Nat /\ \A m \in 1..n : m - 1 \in T => m \in T
    BY <1>2
  <2> HIDE DEF n
  <2>2. \A m \in 0..n : m \in T
    BY <1>1, <2>1, UpTo
  <2>3. n \in 0..n
    BY <2>1
  <2> QED BY <2>2, <2>3 DEF n
<1>4. \E f : f = [n \in 0..Len(s) |-> IF n = 0 THEN First ELSE More(f[n - 1], n)]
  BY <1>3 DEF T
<1>5. \E f : f = [n \in 0..Len(s) |->
                    IF n = 0 THEN 0 ELSE f[n - 1] + (IF n \in among THEN Eval(s[n], field) ELSE 0)]
  BY <1>4 DEF First, More
<1>6. Totals(s, field, among) =
        [n \in 0..Len(s) |->
           IF n = 0 THEN 0
           ELSE Totals(s, field, among)[n - 1] + (IF n \in among THEN Eval(s[n], field) ELSE 0)]
  BY <1>5 DEF Totals
<1> QED BY <1>6

\* The values of a field among some of the records of a sequence are numbers.
Summable(s, field, among) ==
  among \subseteq 1..Len(s) /\ \A i \in among : Eval(s[i], field) \in Nat

\* A total is a number.
LEMMA TotalNumber ==
  ASSUME NEW s, IsSequence(s), NEW field, NEW among, Summable(s, field, among)
  PROVE  TotalOf(s, field, among) \in Nat
<1> DEFINE L == Len(s)
           S == Totals(s, field, among)
           T == {m \in 0..L : S[m] \in Nat}
<1>1. \A i \in among : Eval(s[i], field) \in Nat
  BY DEF Summable
<1>2. L \in Nat
  BY SequenceFacts
<1>3. /\ S[0] = 0
      /\ \A m \in 1..L : S[m] = S[m - 1] + (IF m \in among THEN Eval(s[m], field) ELSE 0)
  BY <1>2, TotalsEquation
<1> HIDE DEF S
<1>4. 0 \in T
  BY <1>2, <1>3
<1>5. ASSUME NEW m \in 1..L, m - 1 \in T
      PROVE  m \in T
  <2> DEFINE w == IF m \in among THEN Eval(s[m], field) ELSE 0
  <2>1. w \in Nat
    BY <1>1
  <2>2. S[m] = S[m - 1] + w
    BY <1>3
  <2>3. S[m - 1] \in Nat /\ m \in 0..L
    BY <1>2, <1>5
  <2> HIDE DEF w
  <2> QED BY <2>1, <2>2, <2>3
<1> HIDE DEF T, L
<1>6. \A m \in 0..L : m \in T
  BY <1>2, <1>4, <1>5, UpTo
<1>7. L \in T
  BY <1>2, <1>6
<1> QED BY <1>7 DEF T, L, S, TotalOf

\* A total with one record more, which is among them or not.
LEMMA TotalMore ==
  ASSUME NEW s, IsSequence(s), NEW r, NEW field, NEW among, NEW A, A \cap (1..Len(s)) = among,
         NEW w, w = IF Len(s) + 1 \in A THEN Eval(r, field) ELSE 0
  PROVE  TotalOf(Append(s, r), field, A) = TotalOf(s, field, among) + w
<1> DEFINE t == Append(s, r)
           L == Len(s)
           n == L + 1
           S == Totals(s, field, among)
           U == Totals(t, field, A)
           T == {m \in 0..L : U[m] = S[m]}
<1>1. /\ L \in Nat /\ Len(t) = n /\ t[n] = r /\ \A i \in 1..L : t[i] = s[i]
  <2>1. IsSequence(t) /\ DOMAIN t = 1..n /\ t[n] = r /\ \A i \in 1..L : t[i] = s[i]
    BY AppendElements
  <2>2. L \in Nat
    BY SequenceFacts
  <2> HIDE DEF t
  <2>3. DOMAIN t = 1..Len(t) /\ Len(t) \in Nat
    BY <2>1, SequenceFacts
  <2>4. Len(t) = n
    BY <2>1, <2>2, <2>3
  <2> QED BY <2>1, <2>2, <2>4
<1> HIDE DEF t
<1>2. /\ S[0] = 0
      /\ \A m \in 1..L : S[m] = S[m - 1] + (IF m \in among THEN Eval(s[m], field) ELSE 0)
  BY <1>1, TotalsEquation
<1>3. /\ U[0] = 0
      /\ \A m \in 1..n : U[m] = U[m - 1] + (IF m \in A THEN Eval(t[m], field) ELSE 0)
  <2>1. Len(t) \in Nat
    BY <1>1
  <2> QED BY <1>1, <2>1, TotalsEquation
<1> HIDE DEF S, U
<1>4. 0 \in T
  BY <1>1, <1>2, <1>3
<1>5. ASSUME NEW m \in 1..L, m - 1 \in T
      PROVE  m \in T
  <2>1. /\ m \in 1..n /\ m \in 0..L /\ (m \in A <=> m \in among) /\ t[m] = s[m]
        /\ U[m - 1] = S[m - 1]
    BY <1>1, <1>5
  <2> DEFINE x == IF m \in among THEN Eval(s[m], field) ELSE 0
  <2>2. S[m] = S[m - 1] + x /\ U[m] = U[m - 1] + x
    BY <1>2, <1>3, <2>1
  <2> HIDE DEF x
  <2> QED BY <2>1, <2>2
<1> HIDE DEF T, L
<1>6. \A m \in 0..L : m \in T
  BY <1>1, <1>4, <1>5, UpTo
<1>7. L \in 0..L /\ n \in 1..n /\ n - 1 = L
  BY <1>1
<1>8. U[L] = S[L]
  BY <1>6, <1>7 DEF T
<1>9. U[n] = U[n - 1] + (IF n \in A THEN Eval(t[n], field) ELSE 0)
  BY <1>3, <1>7
<1>10. w = IF n \in A THEN Eval(r, field) ELSE 0
  BY DEF L
<1>11. U[n] = S[L] + w
  BY <1>1, <1>7, <1>8, <1>9, <1>10
<1>12. TotalOf(t, field, A) = U[n]
  BY <1>1 DEF TotalOf, U
<1>13. TotalOf(s, field, among) = S[L]
  BY DEF TotalOf, S, L
<1> QED BY <1>11, <1>12, <1>13 DEF t

\* The records of a group, with one record more.
LEMMA MembersMore ==
  ASSUME NEW g, NEW s, IsSequence(s), NEW r, NEW field, NEW K
  PROVE  LET n == Len(s) + 1
             t == Append(s, r) IN
         /\ n \in Nat
         /\ t[n] = r /\ \A i \in 1..Len(s) : t[i] = s[i]
         /\ MembersOf(g, s, K) \in SUBSET (1..Len(s))
         /\ PresentOf(g, s, field, K) \subseteq MembersOf(g, s, K)
         /\ ValuedOf(g, s, field, K) \subseteq MembersOf(g, s, K)
         /\ MembersOf(g, t, K) =
              IF KeyFor(g, r) = K THEN MembersOf(g, s, K) \cup {n} ELSE MembersOf(g, s, K)
         /\ PresentOf(g, t, field, K) =
              IF KeyFor(g, r) = K /\ Eval(r, field) # Absent
              THEN PresentOf(g, s, field, K) \cup {n} ELSE PresentOf(g, s, field, K)
         /\ ValuedOf(g, t, field, K) =
              IF KeyFor(g, r) = K /\ ~IsNull(Eval(r, field))
              THEN ValuedOf(g, s, field, K) \cup {n} ELSE ValuedOf(g, s, field, K)
<1> DEFINE t == Append(s, r)
           L == Len(s)
           n == L + 1
           M == MembersOf(g, s, K)
<1>1. L \in Nat /\ DOMAIN s = 1..L /\ DOMAIN t = 1..n /\ t[n] = r /\ \A i \in 1..L : t[i] = s[i]
  BY SequenceFacts, AppendElements
<1> HIDE DEF t
<1>2. 1..n = (1..L) \cup {n} /\ n \notin 1..L /\ n \in Nat
  BY <1>1
<1> HIDE DEF L, n
<1>3. M \in SUBSET (1..L)
  BY <1>1 DEF MembersOf
<1>4. MembersOf(g, t, K) = IF KeyFor(g, r) = K THEN M \cup {n} ELSE M
  BY <1>1, <1>2 DEF MembersOf
<1> HIDE DEF M
<1>5. \A i \in M : t[i] = s[i]
  BY <1>1, <1>3
<1>6. PresentOf(g, t, field, K) =
        IF KeyFor(g, r) = K /\ Eval(r, field) # Absent
        THEN PresentOf(g, s, field, K) \cup {n} ELSE PresentOf(g, s, field, K)
  BY <1>1, <1>4, <1>5 DEF PresentOf, M
<1>7. ValuedOf(g, t, field, K) =
        IF KeyFor(g, r) = K /\ ~IsNull(Eval(r, field))
        THEN ValuedOf(g, s, field, K) \cup {n} ELSE ValuedOf(g, s, field, K)
  BY <1>1, <1>4, <1>5 DEF ValuedOf, M
<1>8. PresentOf(g, s, field, K) \subseteq M /\ ValuedOf(g, s, field, K) \subseteq M
  BY DEF PresentOf, ValuedOf, M
<1> QED BY <1>1, <1>2, <1>3, <1>4, <1>6, <1>7, <1>8 DEF t, n, L, M

\* Nothing is what no records come to.
LEMMA SumsNothing ==
  ASSUME NEW g, NEW red, red.op \in Reductions, NEW K
  PROVE  Sums(g, <<>>, red, K, Zero(red.op))
<1> DEFINE s == <<>>
           f == red.field
<1>1. DOMAIN s = {} /\ Len(s) = 0
  BY NoElement
<1>2. MembersOf(g, s, K) = {}
  BY <1>1 DEF MembersOf
<1>3. PresentOf(g, s, f, K) = {} /\ ValuedOf(g, s, f, K) = {}
  BY <1>2 DEF PresentOf, ValuedOf
<1>4. TotalOf(s, f, {}) = 0
  <2>1. Len(s) \in Nat
    BY <1>1
  <2> HIDE DEF s
  <2> QED BY <1>1, <2>1, TotalsEquation DEF TotalOf
<1>5. Cardinality({}) = 0
  BY FS_EmptySet
<1> HIDE DEF s
<1> QED BY <1>2, <1>3, <1>4, <1>5, ZeroOutcome DEF Sums, Tells, Reductions, Composing, Absent, s

\* What they come to with one record more of the group.
LEMMA SumsFurther ==
  ASSUME NEW g, NEW s, IsSequence(s), NEW r, NEW red, red.op \in Reductions,
         \A i \in DOMAIN s : Eval(s[i], red.field) \in Values, Eval(r, red.field) \in Values,
         NEW x \in Outcomes(red.op), Sums(g, s, red, KeyFor(g, r), x)
  PROVE  Sums(g, Append(s, r), red, KeyFor(g, r), Further(red.op, red.field, x, Eval(r, red.field)))
<1> DEFINE op == red.op
           f == red.field
           K == KeyFor(g, r)
           t == Append(s, r)
           n == Len(s) + 1
           v == Eval(r, f)
           E(i) == Eval(s[i], f)
           F(i) == Eval(t[i], f)
           M == MembersOf(g, s, K)
           P == PresentOf(g, s, f, K)
           V == ValuedOf(g, s, f, K)
           M2 == MembersOf(g, t, K)
           P2 == PresentOf(g, t, f, K)
           V2 == ValuedOf(g, t, f, K)
           W == TotalOf(s, f, V)
           W2 == TotalOf(t, f, V2)
           y == Further(op, f, x, v)
<1>1. Len(s) \in Nat /\ DOMAIN s = 1..Len(s)
  BY SequenceFacts
<1>2. /\ n \in Nat /\ t[n] = r /\ \A i \in 1..Len(s) : t[i] = s[i]
      /\ M \in SUBSET (1..Len(s)) /\ P \subseteq M /\ V \subseteq M
      /\ M2 = M \cup {n}
      /\ P2 = (IF v # Absent THEN P \cup {n} ELSE P)
      /\ V2 = (IF ~IsNull(v) THEN V \cup {n} ELSE V)
  <2> HIDE DEF f, K, n, t, v, M, P, V, M2, P2, V2
  <2>1. KeyFor(g, r) = K /\ t = Append(s, r) /\ n = Len(s) + 1 /\ v = Eval(r, f)
    BY DEF K, t, n, v
  <2>2. /\ n \in Nat /\ t[n] = r /\ \A i \in 1..Len(s) : t[i] = s[i]
        /\ MembersOf(g, s, K) \in SUBSET (1..Len(s))
        /\ PresentOf(g, s, f, K) \subseteq MembersOf(g, s, K)
        /\ ValuedOf(g, s, f, K) \subseteq MembersOf(g, s, K)
    BY <2>1, MembersMore
  <2>3. /\ MembersOf(g, t, K) = MembersOf(g, s, K) \cup {n}
        /\ PresentOf(g, t, f, K) =
             IF v # Absent THEN PresentOf(g, s, f, K) \cup {n} ELSE PresentOf(g, s, f, K)
        /\ ValuedOf(g, t, f, K) =
             IF ~IsNull(v) THEN ValuedOf(g, s, f, K) \cup {n} ELSE ValuedOf(g, s, f, K)
    BY <2>1, MembersMore
  <2> QED BY <2>2, <2>3 DEF M, P, V, M2, P2, V2
<1>3. /\ \A i \in M : E(i) \in Values /\ F(i) = E(i)
      /\ F(n) = v
  BY <1>1, <1>2
<1>4. /\ \A i \in V : ~IsNull(E(i))
      /\ \A i \in P : E(i) # Absent
  BY DEF ValuedOf, PresentOf
<1>5. \A i \in V : E(i) \in Nat \ {0}
  BY <1>2, <1>3, <1>4 DEF Values, IsNull, Null
<1>6. /\ W \in Nat
      /\ W2 = W + (IF ~IsNull(v) THEN v ELSE 0)
  <2>1. V \in SUBSET (1..Len(s)) /\ \A i \in V : Eval(s[i], f) \in Nat
    BY <1>2, <1>5
  <2> HIDE DEF V, f
  <2>2. Summable(s, f, V)
    BY <2>1 DEF Summable
  <2>3. TotalOf(s, f, V) \in Nat
    BY <2>2, TotalNumber
  <2> DEFINE A == IF ~IsNull(v) THEN V \cup {n} ELSE V
             w == IF Len(s) + 1 \in A THEN Eval(r, f) ELSE 0
  <2>4. A \cap (1..Len(s)) = V /\ (n \in A <=> ~IsNull(v))
    <3>1. n \notin 1..Len(s)
      BY <1>1
    <3> HIDE DEF n, v
    <3>2. CASE IsNull(v)
      BY <2>1, <3>1, <3>2
    <3>3. CASE ~IsNull(v)
      BY <2>1, <3>1, <3>3
    <3> QED BY <3>2, <3>3
  <2> HIDE DEF A
  <2>5. TotalOf(Append(s, r), f, A) = TotalOf(s, f, V) + w
    <3>1. w = IF Len(s) + 1 \in A THEN Eval(r, f) ELSE 0
      OBVIOUS
    <3> HIDE DEF w
    <3> QED BY <2>4, <3>1, TotalMore
  <2>6. V2 = A
    BY <1>2 DEF A
  <2>7. w = IF ~IsNull(v) THEN v ELSE 0
    BY <2>4
  <2> HIDE DEF V2, w, v
  <2> QED BY <2>3, <2>5, <2>6, <2>7
<1>7. /\ \A i \in M : i \in Nat /\ i < n /\ i # n
      /\ IsFiniteSet(M) /\ IsFiniteSet(V)
  <2>1. \A i \in M : i \in Nat /\ i < n /\ i # n
    BY <1>1, <1>2
  <2>2. IsFiniteSet(1..Len(s))
    BY <1>1, FS_Interval
  <2> QED BY <1>2, <2>1, <2>2, FS_Subset
<1>8. v \in Values /\ x \in Outcomes(op) /\ op \in Reductions /\ (~IsNull(v) => v \in Nat \ {0})
  BY DEF Values, IsNull, Null
<1> DEFINE Came(A, B, C, D(_), T, z) == Tells(op, f, A, B, C, D, T, z)
<1>9. /\ Sums(g, s, red, K, x) <=> Came(M, P, V, E, W, x)
      /\ Sums(g, t, red, K, y) <=> Came(M2, P2, V2, F, W2, y)
  BY DEF Sums, Tells
<1>10. Came(M, P, V, E, W, x)
  BY <1>9
<1> HIDE DEF M, P, V, M2, P2, V2, W, W2, t, v, n, E, F
<1>11. y = Further(op, f, x, v)
  OBVIOUS
<1> HIDE DEF y, K, op, f
<1>12. Came(M2, P2, V2, F, W2, y)
  <2>1. CASE op = "count"
    <3>1. Cardinality(M2) = Cardinality(M) + 1 /\ Cardinality(V \cup {n}) = Cardinality(V) + 1
      <4>1. n \notin M /\ n \notin V
        BY <1>2, <1>7
      <4> QED BY <1>2, <1>7, <4>1, FS_AddElement
    <3>2. y = IF f # "" /\ IsNull(v) THEN x ELSE x + 1
      BY <1>11, <2>1 DEF Further
    <3> QED BY <1>2, <1>10, <2>1, <3>1, <3>2 DEF Tells
  <2>2. CASE op = "sum"
    <3>1. x \in {Absent} \cup (Nat \ {0})
      BY <1>8, <2>2 DEF Outcomes
    <3>2. y = IF IsNull(v) THEN x ELSE IF x = Absent THEN v ELSE x + v
      BY <1>11, <2>2 DEF Further, Plus
    <3>3. (x = Absent <=> V = {}) /\ W = IF x = Absent THEN 0 ELSE x
      BY <1>10, <2>2 DEF Tells
    <3>4. (y = Absent <=> V2 = {}) /\ W2 = IF y = Absent THEN 0 ELSE y
      <4>1. CASE IsNull(v)
        BY <1>2, <1>6, <3>2, <3>3, <4>1
      <4>2. CASE ~IsNull(v)
        <5>1. v \in Nat \ {0} /\ V2 # {} /\ W2 = W + v
          BY <1>2, <1>6, <1>8, <4>2
        <5>2. y = IF x = Absent THEN v ELSE x + v
          BY <3>2, <4>2
        <5> QED BY <3>1, <3>3, <5>1, <5>2 DEF Absent
      <4> QED BY <4>1, <4>2
    <3> QED BY <2>2, <3>4 DEF Tells
  <2>3. CASE op = "avg"
    <3>1. y = IF IsNull(v) THEN x ELSE <<x[1] + v, x[2] + 1>>
      BY <1>11, <2>3 DEF Further
    <3>2. x = <<W, Cardinality(V)>>
      BY <1>10, <2>3 DEF Tells
    <3>3. y = <<W2, Cardinality(V2)>>
      <4>1. CASE IsNull(v)
        <5>1. W2 = W /\ V2 = V
          BY <1>2, <1>6, <4>1
        <5> QED BY <3>1, <3>2, <4>1, <5>1
      <4>2. CASE ~IsNull(v)
        <5>1. V2 = V \cup {n} /\ W2 = W + v
          BY <1>2, <1>6, <4>2
        <5>2. Cardinality(V \cup {n}) = Cardinality(V) + 1
          <6>1. n \notin V
            BY <1>2, <1>7
          <6> QED BY <1>7, <6>1, FS_AddElement
        <5>3. y = <<x[1] + v, x[2] + 1>> /\ x[1] = W /\ x[2] = Cardinality(V)
          BY <3>1, <3>2, <4>2
        <5> QED BY <5>1, <5>2, <5>3
      <4> QED BY <4>1, <4>2
    <3> QED BY <2>3, <3>3 DEF Tells
  <2>4. CASE op = "max"
    <3>1. x \in {Absent} \cup (Nat \ {0})
      BY <1>8, <2>4 DEF Outcomes
    <3>2. y = IF IsNull(v) THEN x ELSE IF v > x THEN v ELSE x
      BY <1>11, <2>4 DEF Further, Plus
    <3>3. \/ V = {} /\ x = Absent
          \/ \E i \in V : x = E(i) /\ \A j \in V : E(j) <= x
      BY <1>10, <2>4 DEF Tells
    <3>4. \A i \in V : F(i) = E(i) /\ E(i) \in Nat \ {0}
      BY <1>2, <1>3, <1>5
    <3>5. \/ V2 = {} /\ y = Absent
          \/ \E i \in V2 : y = F(i) /\ \A j \in V2 : F(j) <= y
      <4>1. CASE IsNull(v)
        BY <1>2, <3>2, <3>3, <3>4, <4>1
      <4>2. CASE ~IsNull(v)
        <5>1. v \in Nat \ {0} /\ V2 = V \cup {n} /\ F(n) = v
          BY <1>2, <1>3, <1>8, <4>2
        <5>2. y = IF v > x THEN v ELSE x
          BY <3>2, <4>2
        <5>3. CASE V = {} /\ x = Absent
          <6>1. y = v
            BY <5>1, <5>2, <5>3 DEF Absent
          <6> QED BY <5>1, <5>3, <6>1
        <5>4. CASE \E i \in V : x = E(i) /\ \A j \in V : E(j) <= x
          <6>1. PICK i \in V : x = E(i) /\ \A j \in V : E(j) <= x
            BY <5>4
          <6>2. CASE v > x
            <7>1. y = F(n) /\ \A j \in V2 : F(j) <= y
              BY <3>4, <5>1, <5>2, <6>1, <6>2
            <7> QED BY <5>1, <7>1
          <6>3. CASE ~(v > x)
            <7>1. y = F(i) /\ \A j \in V2 : F(j) <= y
              BY <3>4, <5>1, <5>2, <6>1, <6>3
            <7> QED BY <5>1, <7>1
          <6> QED BY <6>2, <6>3
        <5> QED BY <3>3, <5>3, <5>4
      <4> QED BY <4>1, <4>2
    <3> QED BY <2>4, <3>5 DEF Tells
  <2>5. CASE op = "min"
    <3>1. x \in {Absent} \cup (Nat \ {0})
      BY <1>8, <2>5 DEF Outcomes
    <3>2. y = IF IsNull(v) THEN x ELSE IF x = Absent \/ v < x THEN v ELSE x
      BY <1>11, <2>5 DEF Further, Plus
    <3>3. \/ V = {} /\ x = Absent
          \/ \E i \in V : x = E(i) /\ \A j \in V : x <= E(j)
      BY <1>10, <2>5 DEF Tells
    <3>4. \A i \in V : F(i) = E(i) /\ E(i) \in Nat \ {0}
      BY <1>2, <1>3, <1>5
    <3>5. \/ V2 = {} /\ y = Absent
          \/ \E i \in V2 : y = F(i) /\ \A j \in V2 : y <= F(j)
      <4>1. CASE IsNull(v)
        BY <1>2, <3>2, <3>3, <3>4, <4>1
      <4>2. CASE ~IsNull(v)
        <5>1. v \in Nat \ {0} /\ V2 = V \cup {n} /\ F(n) = v
          BY <1>2, <1>3, <1>8, <4>2
        <5>2. y = IF x = Absent \/ v < x THEN v ELSE x
          BY <3>2, <4>2
        <5>3. CASE V = {} /\ x = Absent
          <6>1. y = v
            BY <5>1, <5>2, <5>3 DEF Absent
          <6> QED BY <5>1, <5>3, <6>1
        <5>4. CASE \E i \in V : x = E(i) /\ \A j \in V : x <= E(j)
          <6>1. PICK i \in V : x = E(i) /\ \A j \in V : x <= E(j)
            BY <5>4
          <6>0. x \in Nat \ {0} /\ x # Absent
            BY <3>4, <6>1 DEF Absent
          <6>2. CASE v < x
            <7>1. y = F(n) /\ \A j \in V2 : y <= F(j)
              BY <3>4, <5>1, <5>2, <6>0, <6>1, <6>2
            <7> QED BY <5>1, <7>1
          <6>3. CASE ~(v < x)
            <7>1. y = F(i) /\ \A j \in V2 : y <= F(j)
              BY <3>4, <5>1, <5>2, <6>0, <6>1, <6>3
            <7> QED BY <5>1, <7>1
          <6> QED BY <6>2, <6>3
        <5> QED BY <3>3, <5>3, <5>4
      <4> QED BY <4>1, <4>2
    <3> QED BY <2>5, <3>5 DEF Tells
  <2>6. CASE op = "first"
    <3>1. y = IF x # Absent \/ v = Absent THEN x ELSE v
      BY <1>11, <2>6 DEF Further, Plus
    <3>2. \/ P = {} /\ x = Absent
          \/ \E i \in P : x = E(i) /\ \A j \in P : i <= j
      BY <1>10, <2>6 DEF Tells
    <3>3. \A i \in P : F(i) = E(i) /\ E(i) # Absent /\ i \in Nat /\ i <= n
      BY <1>2, <1>3, <1>4, <1>7
    <3>4. \/ P2 = {} /\ y = Absent
          \/ \E i \in P2 : y = F(i) /\ \A j \in P2 : i <= j
      <4>1. CASE P = {} /\ x = Absent
        BY <1>2, <1>3, <3>1, <4>1
      <4>2. CASE \E i \in P : x = E(i) /\ \A j \in P : i <= j
        <5>1. PICK i \in P : x = E(i) /\ \A j \in P : i <= j
          BY <4>2
        <5>2. y = F(i) /\ i \in P2 /\ \A j \in P2 : i <= j
          BY <1>2, <3>1, <3>3, <5>1
        <5> QED BY <5>2
      <4> QED BY <3>2, <4>1, <4>2
    <3> QED BY <2>6, <3>4 DEF Tells
  <2>7. CASE op = "last"
    <3>1. y = IF v = Absent THEN x ELSE v
      BY <1>11, <2>7 DEF Further
    <3>2. \/ P = {} /\ x = Absent
          \/ \E i \in P : x = E(i) /\ \A j \in P : j <= i
      BY <1>10, <2>7 DEF Tells
    <3>3. \A i \in P : F(i) = E(i) /\ i \in Nat /\ i <= n
      BY <1>2, <1>3, <1>7
    <3>4. \/ P2 = {} /\ y = Absent
          \/ \E i \in P2 : y = F(i) /\ \A j \in P2 : j <= i
      <4>1. CASE v = Absent
        BY <1>2, <3>1, <3>2, <3>3, <4>1
      <4>2. CASE v # Absent
        <5>1. n \in P2 /\ y = F(n) /\ \A j \in P2 : j <= n
          BY <1>2, <1>3, <3>1, <3>3, <4>2
        <5> QED BY <5>1
      <4> QED BY <4>1, <4>2
    <3> QED BY <2>7, <3>4 DEF Tells
  <2>8. CASE op = "countdistinct"
    <3>1. y = IF v = Absent THEN x ELSE x \cup {v}
      BY <1>11, <2>8 DEF Further
    <3>2. x = {E(i) : i \in P}
      BY <1>10, <2>8 DEF Tells
    <3>3. \A i \in P : F(i) = E(i)
      BY <1>2, <1>3
    <3>4. y = {F(i) : i \in P2}
      <4>1. {F(i) : i \in P} = {E(i) : i \in P}
        BY <3>3
      <4>2. {F(i) : i \in P \cup {n}} = {F(i) : i \in P} \cup {v}
        BY <1>3
      <4> QED BY <1>2, <3>1, <3>2, <4>1, <4>2
    <3> QED BY <2>8, <3>4 DEF Tells
  <2> QED BY <1>8, <2>1, <2>2, <2>3, <2>4, <2>5, <2>6, <2>7, <2>8 DEF Reductions, Composing
<1> QED BY <1>9, <1>12 DEF t, y, K, v, op, f

\* A record of another group does not count.
LEMMA SumsSame ==
  ASSUME NEW g, NEW s, IsSequence(s), NEW r, NEW red, red.op \in Reductions,
         NEW K, KeyFor(g, r) # K,
         \A i \in DOMAIN s : Eval(s[i], red.field) \in Values,
         NEW x, Sums(g, s, red, K, x)
  PROVE  Sums(g, Append(s, r), red, K, x)
<1> DEFINE op == red.op
           f == red.field
           t == Append(s, r)
           E(i) == Eval(s[i], f)
           F(i) == Eval(t[i], f)
           M == MembersOf(g, s, K)
           P == PresentOf(g, s, f, K)
           V == ValuedOf(g, s, f, K)
           W == TotalOf(s, f, V)
           W2 == TotalOf(t, f, V)
<1>1. Len(s) \in Nat /\ DOMAIN s = 1..Len(s)
  BY SequenceFacts
<1>2. /\ \A i \in 1..Len(s) : t[i] = s[i]
      /\ M \in SUBSET (1..Len(s)) /\ P \subseteq M /\ V \subseteq M
      /\ MembersOf(g, t, K) = M /\ PresentOf(g, t, f, K) = P /\ ValuedOf(g, t, f, K) = V
  <2> HIDE DEF f
  <2>1. /\ \A i \in 1..Len(s) : t[i] = s[i]
        /\ M \in SUBSET (1..Len(s)) /\ P \subseteq M /\ V \subseteq M
    BY MembersMore
  <2>2. MembersOf(g, t, K) = M /\ PresentOf(g, t, f, K) = P /\ ValuedOf(g, t, f, K) = V
    BY MembersMore
  <2> QED BY <2>1, <2>2
<1>3. \A i \in M : F(i) = E(i)
  BY <1>2
<1>4. W2 = W
  <2>1. Summable(s, f, V)
    <3>1. \A i \in V : E(i) \in Values /\ ~IsNull(E(i))
      BY <1>1, <1>2 DEF ValuedOf
    <3>2. \A i \in V : E(i) \in Nat
      BY <3>1 DEF Values, IsNull
    <3> QED BY <1>2, <3>2 DEF Summable
  <2> HIDE DEF V, f
  <2>2. W \in Nat
    BY <2>1, TotalNumber
  <2>3. V \cap (1..Len(s)) = V /\ Len(s) + 1 \notin V
    BY <1>1, <1>2
  <2>4. 0 = IF Len(s) + 1 \in V THEN Eval(r, f) ELSE 0
    BY <2>3
  <2>5. W2 = W + 0
    BY <2>3, <2>4, TotalMore
  <2> HIDE DEF W, W2
  <2> QED BY <2>2, <2>5
<1> DEFINE Came(A, B, C, D(_), T, z) == Tells(op, f, A, B, C, D, T, z)
<1>5. /\ Sums(g, s, red, K, x) <=> Came(M, P, V, E, W, x)
      /\ Sums(g, t, red, K, x) <=>
           Came(MembersOf(g, t, K), PresentOf(g, t, f, K), ValuedOf(g, t, f, K), F,
                TotalOf(t, f, ValuedOf(g, t, f, K)), x)
  BY DEF Sums, Tells
<1>6. Sums(g, t, red, K, x) <=> Came(M, P, V, F, W2, x)
  BY <1>2, <1>5 DEF Tells
<1>7. Came(M, P, V, E, W, x)
  BY <1>5
<1>8. op \in Reductions
  OBVIOUS
<1> HIDE DEF M, P, V, W, W2, t, E, F, f, op
<1>9. \A i \in P \cup V : F(i) = E(i)
  BY <1>2, <1>3
<1>10. Came(M, P, V, F, W2, x)
  <2>1. CASE op \in {"count", "sum", "avg"}
    BY <1>4, <1>7, <2>1 DEF Tells
  <2>2. CASE op = "max"
    BY <1>7, <1>9, <2>2 DEF Tells
  <2>3. CASE op = "min"
    BY <1>7, <1>9, <2>3 DEF Tells
  <2>4. CASE op = "first"
    BY <1>7, <1>9, <2>4 DEF Tells
  <2>5. CASE op = "last"
    BY <1>7, <1>9, <2>5 DEF Tells
  <2>6. CASE op = "countdistinct"
    <3>1. {F(i) : i \in P} = {E(i) : i \in P}
      BY <1>9
    <3> QED BY <1>7, <2>6, <3>1 DEF Tells
  <2> QED BY <1>8, <2>1, <2>2, <2>3, <2>4, <2>5, <2>6 DEF Reductions, Composing
<1> QED BY <1>6, <1>10 DEF t

\* What the records of a group come to is what the aggregation should be.
LEMMA SumsExpected ==
  ASSUME NEW red, red.op \in Reductions, NEW K, IsSequence(input),
         \A i \in DOMAIN input : Eval(input[i], red.field) \in Values,
         NEW x, Sums(p, input, red, K, x)
  PROVE  Expected(red, K) = Shown(red.op, x)
<1> DEFINE op == red.op
           f == red.field
           E(i) == Eval(input[i], f)
           M == MembersOf(p, input, K)
           P == PresentOf(p, input, f, K)
           V == ValuedOf(p, input, f, K)
           W == TotalOf(input, f, V)
<1>1. /\ Members(K) = M
      /\ {i \in Members(K) : Eval(input[i], f) # Absent} = P
      /\ {i \in Members(K) : ~IsNull(Eval(input[i], f))} = V
      /\ \A A : Total(f, A) = TotalOf(input, f, A)
  BY DEF Members, MembersOf, PresentOf, ValuedOf, KeyOf, KeyFor, Total, TotalOf, Totals
<1>2. Expected(red, K) =
        CASE op = "count" /\ f = "" -> Cardinality(M)
          [] op = "count" /\ f # "" -> Cardinality(V)
          [] op = "sum" -> IF V = {} THEN Absent ELSE W
          [] op = "avg" -> <<W, Cardinality(V)>>
          [] op = "max" -> IF V = {} THEN Absent ELSE Max({E(i) : i \in V})
          [] op = "min" -> IF V = {} THEN Absent ELSE Min({E(i) : i \in V})
          [] op = "first" -> IF P = {} THEN Absent ELSE E(Min(P))
          [] op = "last" -> IF P = {} THEN Absent ELSE E(Max(P))
          [] op = "countdistinct" -> Cardinality({E(i) : i \in P})
  <2> DEFINE P1 == {i \in Members(K) : Eval(input[i], f) # Absent}
             V1 == {i \in Members(K) : ~IsNull(Eval(input[i], f))}
  <2>1. Expected(red, K) =
          CASE op = "count" /\ f = "" -> Cardinality(Members(K))
            [] op = "count" /\ f # "" -> Cardinality(V1)
            [] op = "sum" -> IF V1 = {} THEN Absent ELSE Total(f, V1)
            [] op = "avg" -> <<Total(f, V1), Cardinality(V1)>>
            [] op = "max" -> IF V1 = {} THEN Absent ELSE Max({E(i) : i \in V1})
            [] op = "min" -> IF V1 = {} THEN Absent ELSE Min({E(i) : i \in V1})
            [] op = "first" -> IF P1 = {} THEN Absent ELSE E(Min(P1))
            [] op = "last" -> IF P1 = {} THEN Absent ELSE E(Max(P1))
            [] op = "countdistinct" -> Cardinality({E(i) : i \in P1})
    BY DEF Expected
  <2>2. Members(K) = M /\ P1 = P /\ V1 = V /\ Total(f, V1) = W
    BY <1>1
  <2> HIDE DEF M, P, V, P1, V1, W, E, f, op
  <2> QED BY <2>1, <2>2
<1>3. Tells(op, f, M, P, V, E, W, x)
  BY DEF Sums, Tells
<1>4. /\ \A i \in V : E(i) \in Nat
      /\ \A i \in P : i \in Nat
  <2>1. Len(input) \in Nat /\ DOMAIN input = 1..Len(input)
    BY SequenceFacts
  <2>2. M \subseteq 1..Len(input) /\ V \subseteq M /\ P \subseteq M
    BY <2>1 DEF MembersOf, ValuedOf, PresentOf
  <2>3. \A i \in V : E(i) \in Values /\ ~IsNull(E(i))
    BY <2>1, <2>2 DEF ValuedOf
  <2>4. \A i \in V : E(i) \in Nat
    BY <2>3 DEF Values, IsNull
  <2> QED BY <2>1, <2>2, <2>4
<1>5. op \in Reductions
  OBVIOUS
<1>6. \A i \in V : E(i) \in {E(j) : j \in V} /\ V # {}
  OBVIOUS
<1>7. \A y \in {E(j) : j \in V} : \E i \in V : y = E(i)
  OBVIOUS
<1> DEFINE S == {E(i) : i \in V}
<1> HIDE DEF M, P, V, W, E, f, op, S
<1>8. Expected(red, K) = Shown(op, x)
  <2>1. CASE op \in {"count", "sum", "avg", "countdistinct"}
    <3>1. CASE op = "count" /\ f = ""
      BY <1>2, <1>3, <3>1 DEF Shown, Tells
    <3>2. CASE op = "count" /\ f # ""
      BY <1>2, <1>3, <3>2 DEF Shown, Tells
    <3>3. CASE op = "sum"
      <4>1. Expected(red, K) = IF V = {} THEN Absent ELSE W
        BY <1>2, <3>3
      <4>2. (x = Absent <=> V = {}) /\ W = IF x = Absent THEN 0 ELSE x
        BY <1>3, <3>3 DEF Tells
      <4> QED BY <3>3, <4>1, <4>2 DEF Shown
    <3>4. CASE op = "avg"
      BY <1>2, <1>3, <3>4 DEF Shown, Tells
    <3>5. CASE op = "countdistinct"
      <4>1. Expected(red, K) = Cardinality({E(i) : i \in P})
        BY <1>2, <3>5
      <4>2. x = {E(i) : i \in P}
        BY <1>3, <3>5 DEF Tells
      <4> QED BY <3>5, <4>1, <4>2 DEF Shown
    <3> QED BY <2>1, <3>1, <3>2, <3>3, <3>4, <3>5
  <2>2. CASE op = "max"
    <3>1. Expected(red, K) = IF V = {} THEN Absent ELSE Max(S)
      BY <1>2, <2>2 DEF S
    <3>2. \/ V = {} /\ x = Absent
          \/ \E i \in V : x = E(i) /\ \A j \in V : E(j) <= x
      BY <1>3, <2>2 DEF Tells
    <3>3. ASSUME NEW i \in V, x = E(i), \A j \in V : E(j) <= x
          PROVE  Max(S) = x /\ V # {}
      <4>1. x \in S /\ x \in Nat /\ \A y \in S : y \in Nat /\ y <= x
        BY <1>4, <1>6, <1>7, <3>3 DEF S
      <4>2. \A y, z : y \in S /\ z \in S /\ y >= z /\ z >= y => y = z
        BY <4>1
      <4>3. \A y \in S : x >= y
        BY <4>1
      <4>4. Max(S) \in S /\ \A y \in S : Max(S) >= y
        BY <4>1, <4>3 DEF Max
      <4> QED BY <4>1, <4>2, <4>3, <4>4
    <3> QED BY <2>2, <3>1, <3>2, <3>3 DEF Shown
  <2>3. CASE op = "min"
    <3>1. Expected(red, K) = IF V = {} THEN Absent ELSE Min(S)
      BY <1>2, <2>3 DEF S
    <3>2. \/ V = {} /\ x = Absent
          \/ \E i \in V : x = E(i) /\ \A j \in V : x <= E(j)
      BY <1>3, <2>3 DEF Tells
    <3>3. ASSUME NEW i \in V, x = E(i), \A j \in V : x <= E(j)
          PROVE  Min(S) = x /\ V # {}
      <4>1. x \in S /\ x \in Nat /\ \A y \in S : y \in Nat /\ x <= y
        BY <1>4, <1>6, <1>7, <3>3 DEF S
      <4>2. \A y, z : y \in S /\ z \in S /\ y <= z /\ z <= y => y = z
        BY <4>1
      <4>4. Min(S) \in S /\ \A y \in S : Min(S) <= y
        BY <4>1 DEF Min
      <4> QED BY <4>1, <4>2, <4>4
    <3> QED BY <2>3, <3>1, <3>2, <3>3 DEF Shown
  <2>4. CASE op = "first"
    <3>1. Expected(red, K) = IF P = {} THEN Absent ELSE E(Min(P))
      BY <1>2, <2>4
    <3>2. \/ P = {} /\ x = Absent
          \/ \E i \in P : x = E(i) /\ \A j \in P : i <= j
      BY <1>3, <2>4 DEF Tells
    <3>3. ASSUME NEW i \in P, x = E(i), \A j \in P : i <= j
          PROVE  E(Min(P)) = x /\ P # {}
      <4>1. Min(P) \in P /\ \A j \in P : Min(P) <= j
        BY <3>3 DEF Min
      <4>2. Min(P) = i
        BY <1>4, <3>3, <4>1
      <4> QED BY <3>3, <4>2
    <3> QED BY <2>4, <3>1, <3>2, <3>3 DEF Shown
  <2>5. CASE op = "last"
    <3>1. Expected(red, K) = IF P = {} THEN Absent ELSE E(Max(P))
      BY <1>2, <2>5
    <3>2. \/ P = {} /\ x = Absent
          \/ \E i \in P : x = E(i) /\ \A j \in P : j <= i
      BY <1>3, <2>5 DEF Tells
    <3>3. ASSUME NEW i \in P, x = E(i), \A j \in P : j <= i
          PROVE  E(Max(P)) = x /\ P # {}
      <4>0. \A j \in P : i >= j
        BY <1>4, <3>3
      <4>1. Max(P) \in P /\ \A j \in P : Max(P) >= j
        BY <3>3, <4>0 DEF Max
      <4>2. Max(P) = i
        BY <1>4, <3>3, <4>1
      <4> QED BY <3>3, <4>2
    <3> QED BY <2>5, <3>1, <3>2, <3>3 DEF Shown
  <2> QED BY <1>5, <2>1, <2>2, <2>3, <2>4, <2>5 DEF Reductions, Composing
<1> QED BY <1>8 DEF op

-----------------------------------------------------------------------------
(***************************************************************************)
(* What an Aggregator holds.                                               *)
(***************************************************************************)
\* The values are outcomes of the reducers.
LEMMA HeldOutcome ==
  ASSUME NEW g, Reduces(g), NEW a, IsAggregator(g, a), RowsTyped(g, a), PartsTyped(g, a.runs),
         NEW k \in DOMAIN g.reds, NEW K
  PROVE  /\ Partial(g, k, a.runs, K) \in Outcomes(g.reds[k].op)
         /\ InTable(g, a, k, K) \in Outcomes(g.reds[k].op)
         /\ Held(g, a, k, K) \in Outcomes(g.reds[k].op)
<1>1. g.reds[k].op \in Reductions
  BY DEF Reduces
<1>2. Partial(g, k, a.runs, K) \in Outcomes(g.reds[k].op)
  <2>1. IsSequence(a.runs) /\ Len(a.runs) \in Nat
    BY SequenceFacts DEF IsAggregator, Keyed
  <2>2. Len(a.runs) \in 0..Len(a.runs)
    BY <2>1
  <2> QED BY <1>1, <2>1, <2>2, PartialsOutcome DEF Partial
<1>3. InTable(g, a, k, K) \in Outcomes(g.reds[k].op)
  <2>1. CASE K \in DOMAIN a.table
    BY <2>1 DEF InTable, RowsTyped, IsState
  <2>2. CASE K \notin DOMAIN a.table
    BY <1>1, <2>2, ZeroOutcome DEF InTable
  <2> QED BY <2>1, <2>2
<1> QED BY <1>1, <1>2, <1>3, PlusOutcome DEF Held

\* The records that are read from the table show its rows, in any order.
LEMMA TableValues ==
  ASSUME NEW g, IsGroupBy(g), Reduces(g), NEW a,
         NEW keys \in SUBSET [DOMAIN g.keys -> Nat], IsFiniteSet(keys),
         NEW t, Range(t) = Range(TableRecords(g, a, keys))
  PROVE  \A j \in DOMAIN t, k \in DOMAIN g.reds :
           /\ GroupKey(g, t[j]) \in keys
           /\ t[j][g.reds[k].target] = Result(g.reds[k].op, a.table[GroupKey(g, t[j])][k])
<1> DEFINE Row(key) == RowRecord(g, key, a.table[key])
           S == {Row(key) : key \in keys}
           q == TableRecords(g, a, keys)
<1>1. \A key \in keys : GroupKey(g, Row(key)) = key
  BY RowKey
<1>2. \A key \in keys, k \in DOMAIN g.reds :
        Row(key)[g.reds[k].target] = Result(g.reds[k].op, a.table[key][k])
  BY RowValues
<1>3. q = SetToSeq(S)
  BY DEF TableRecords
<1>4. IsFiniteSet(S)
  <2> HIDE DEF Row
  <2> DEFINE f == [key \in keys |-> Row(key)]
  <2>1. f \in Surjection(keys, S)
    BY DEF Surjection
  <2> HIDE DEF f, S
  <2> QED BY <2>1, FS_Surjection
<1> HIDE DEF Row
<1>5. Range(t) = S
  <2> HIDE DEF S, q
  <2>1. Range(q) = S
    BY <1>3, <1>4, SetToSeqKeeps
  <2> QED BY <2>1 DEF q
<1> SUFFICES ASSUME NEW j \in DOMAIN t, NEW k \in DOMAIN g.reds
             PROVE  /\ GroupKey(g, t[j]) \in keys
                    /\ t[j][g.reds[k].target] = Result(g.reds[k].op, a.table[GroupKey(g, t[j])][k])
  OBVIOUS
<1>6. PICK key \in keys : t[j] = Row(key)
  BY <1>5 DEF Range
<1> QED BY <1>1, <1>2, <1>6

\* Nothing changes for a group when the table goes to disk.
LEMMA SpillHolds ==
  ASSUME NEW g, IsGroupBy(g), SortsByKey(g), Reduces(g), Composes(g), NEW a, IsAggregator(g, a),
         NEW eof, RowsTyped(g, a), PartsTyped(g, a.runs)
  PROVE  LET b == SpillTable(g, a, eof) IN
         /\ RowsTyped(g, b) /\ PartsTyped(g, b.runs)
         /\ b.out = a.out /\ b.err = a.err
         /\ \A k \in DOMAIN g.reds : \A K : Held(g, b, k, K) = Held(g, a, k, K)
<1> DEFINE b == SpillTable(g, a, eof)
           keys == DOMAIN a.table
           rows == TableRecords(g, a, keys)
           recs == SortByKeys(g, rows)
           joined == a.runs \o recs
           runs == SortByKeys(g, joined)
           Op(k) == g.reds[k].op
           Target(k) == g.reds[k].target
<1>1. CASE keys = {}
  <2>1. b = a
    BY <1>1 DEF SpillTable
  <2> HIDE DEF b
  <2>2. /\ RowsTyped(g, b) /\ PartsTyped(g, b.runs) /\ b.out = a.out /\ b.err = a.err
        /\ \A k \in DOMAIN g.reds : \A K : Held(g, b, k, K) = Held(g, a, k, K)
    BY <2>1
  <2> QED BY <2>2 DEF b
<1>2. CASE keys # {}
  <2>1. Keyed(g, rows) /\ Keyed(g, recs) /\ KeysIn(g, recs) = keys /\ Keyed(g, a.runs)
    BY TableKeys, KeyedSortByKeys DEF IsAggregator
  <2>2. OutDistinct(g, recs)
    BY TableDistinct DEF IsAggregator, SortByKeys
  <2>3. \A j \in DOMAIN recs, k \in DOMAIN g.reds :
          /\ GroupKey(g, recs[j]) \in keys
          /\ recs[j][Target(k)] = Result(Op(k), a.table[GroupKey(g, recs[j])][k])
    <3>1. Range(recs) = Range(rows)
      <4> HIDE DEF rows
      <4> QED BY <2>1, SortKeeps DEF SortByKeys, Keyed
    <3>2. keys \in SUBSET [DOMAIN g.keys -> Nat] /\ IsFiniteSet(keys)
      BY DEF IsAggregator
    <3> HIDE DEF recs, keys
    <3> QED BY <3>1, <3>2, TableValues DEF rows
  <2>4. \A k \in DOMAIN g.reds : Op(k) \in Composing /\ Op(k) \in Reductions
    BY DEF Composes, Reductions
  <2>5. \A j \in DOMAIN recs, k \in DOMAIN g.reds :
          /\ recs[j][Target(k)] = InTable(g, a, k, GroupKey(g, recs[j]))
          /\ recs[j][Target(k)] \in Outcomes(Op(k))
    <3> SUFFICES ASSUME NEW j \in DOMAIN recs, NEW k \in DOMAIN g.reds
                 PROVE  /\ recs[j][Target(k)] = InTable(g, a, k, GroupKey(g, recs[j]))
                        /\ recs[j][Target(k)] \in Outcomes(Op(k))
      OBVIOUS
    <3> DEFINE K == GroupKey(g, recs[j])
               st == a.table[K][k]
    <3>1. K \in keys /\ recs[j][Target(k)] = Result(Op(k), st)
      BY <2>3
    <3> HIDE DEF recs
    <3>2. InTable(g, a, k, K) = View(Op(k), st)
      BY <3>1 DEF InTable
    <3>3. Result(Op(k), st) = View(Op(k), st)
      BY <2>4, ResultShown
    <3>4. InTable(g, a, k, K) \in Outcomes(Op(k))
      BY HeldOutcome
    <3> HIDE DEF K, st, Op, Target
    <3>5. recs[j][Target(k)] = InTable(g, a, k, K) /\ recs[j][Target(k)] \in Outcomes(Op(k))
      BY <3>1, <3>2, <3>3, <3>4
    <3> QED BY <3>5 DEF K
  <2>6. /\ b.table = [K \in {} |-> a.table[K]] /\ b.runs = runs /\ b.out = a.out /\ b.err = a.err
    <3> DEFINE w == WithoutKeys(a, keys)
    <3>0. HasFields(a)
      BY DEF IsAggregator
    <3>1. /\ HasFields(w) /\ w.table = [K \in keys \ keys |-> a.table[K]] /\ w.runs = a.runs
          /\ w.out = a.out /\ w.err = a.err
      BY <3>0 DEF HasFields, WithoutKeys
    <3> HIDE DEF w
    <3>2. PICK m : b = [w EXCEPT !.spiller = TRUE, !.runs = SortByKeys(g, a.runs \o recs),
                          !.maxSpillKey = m]
      <4> DEFINE last == KeyValue(g.keys[1], Last(recs))
      <4>1. b = [w EXCEPT !.spiller = TRUE, !.runs = SortByKeys(g, a.runs \o recs),
                   !.maxSpillKey = IF ~eof /\ g.dir # 0 THEN LaterKey(g, @, last) ELSE @]
        BY <1>2 DEF SpillTable, w
      <4> HIDE DEF b, recs, last
      <4>2. b = [w EXCEPT !.spiller = TRUE, !.runs = SortByKeys(g, a.runs \o recs),
                   !.maxSpillKey = IF ~eof /\ g.dir # 0 THEN LaterKey(g, w.maxSpillKey, last)
                                   ELSE w.maxSpillKey]
        BY <4>1
      <4> QED BY <4>2
    <3> HIDE DEF b, recs
    <3>3. b.table = w.table /\ b.runs = runs /\ b.out = w.out /\ b.err = w.err
      BY <3>1, <3>2 DEF HasFields
    <3>4. keys \ keys = {}
      OBVIOUS
    <3> QED BY <3>1, <3>3, <3>4
  <2> HIDE DEF b, recs
  <2>7. Keyed(g, joined) /\ Keyed(g, runs)
    BY <2>1, KeyedJoin, KeyedSortByKeys
  <2>8. DOMAIN b.table = {}
    BY <2>6
  <2>9. RowsTyped(g, b)
    BY <2>8 DEF RowsTyped
  <2>10. PartsTyped(g, b.runs)
    <3>1. /\ Range(runs) = Range(joined)
          /\ Range(joined) = Range(a.runs) \cup Range(recs)
      <4>1. Range(joined) = Range(a.runs) \cup Range(recs) /\ IsSequence(joined)
        BY <2>1, <2>7, JoinSequences DEF Keyed
      <4> HIDE DEF joined
      <4>2. Range(runs) = Range(joined)
        BY <4>1, SortKeeps DEF SortByKeys
      <4> QED BY <4>1, <4>2
    <3>2. \A x \in Range(a.runs) \cup Range(recs) : \A k \in DOMAIN g.reds :
            x[Target(k)] \in Outcomes(Op(k))
      BY <2>5 DEF PartsTyped, Range
    <3> HIDE DEF runs, joined
    <3>3. \A j \in DOMAIN runs : runs[j] \in Range(a.runs) \cup Range(recs)
      BY <3>1 DEF Range
    <3>4. PartsTyped(g, runs)
      BY <3>2, <3>3 DEF PartsTyped
    <3> QED BY <2>6, <3>4
  <2>11. ASSUME NEW k \in DOMAIN g.reds, NEW K
         PROVE  Held(g, b, k, K) = Held(g, a, k, K)
    <3> DEFINE x == Partial(g, k, a.runs, K)
               y == InTable(g, a, k, K)
               z == Partial(g, k, joined, K)
    <3>1. x \in Outcomes(Op(k)) /\ y \in Outcomes(Op(k))
      BY HeldOutcome
    <3>2. Partial(g, k, b.runs, K) = z
      <4> HIDE DEF joined
      <4> QED BY <2>6, <2>7, SortPartial
    <3>3. InTable(g, b, k, K) = Zero(Op(k))
      BY <2>8 DEF InTable
    <3>4. Op(k) \in Composing /\ Op(k) \in Reductions
      BY <2>4
    <3>5. z = IF K \in keys THEN Plus(Op(k), x, y) ELSE x
      <4>1. \A j \in DOMAIN recs : GroupKey(g, recs[j]) = K => recs[j][g.reds[k].target] = y
        BY <2>5
      <4> HIDE DEF y
      <4> QED BY <2>1, <2>2, <4>1, JoinPartial
    <3>6. K \notin keys => y = Zero(Op(k))
      BY DEF InTable
    <3>7. Held(g, a, k, K) = Plus(Op(k), x, y)
      BY DEF Held
    <3>8. Held(g, b, k, K) = Plus(Op(k), z, Zero(Op(k)))
      BY <3>2, <3>3 DEF Held
    <3> HIDE DEF x, y, z, Op, keys
    <3>9. Plus(Op(k), x, y) \in Outcomes(Op(k))
      BY <3>1, <3>4, PlusOutcome
    <3>10. \A u \in Outcomes(Op(k)) : Plus(Op(k), u, Zero(Op(k))) = u
      BY <3>4, PlusNothing
    <3>11. z = Plus(Op(k), x, y)
      BY <3>1, <3>5, <3>6, <3>10
    <3> QED BY <3>7, <3>8, <3>9, <3>10, <3>11
  <2> QED BY <2>6, <2>9, <2>10, <2>11 DEF b
<1> QED BY <1>1, <1>2

\* A group that is read from the runs is final, and the others are still held.
LEMMA ReadHolds ==
  ASSUME NEW g, IsGroupBy(g), SortsByKey(g), Reduces(g), NEW a, IsAggregator(g, a), a.runs # <<>>,
         a.spiller, Queued(g, a), GroupKey(g, a.runs[1]) \notin DOMAIN a.table,
         NEW s, Holding(g, a, s), Final(g, a.out, s)
  PROVE  Holding(g, ReadSpill(g, a), s) /\ Final(g, ReadSpill(g, a).out, s)
<1> DEFINE b == ReadSpill(g, a)
           runs == a.runs
           n == FrontGroup(g, runs)
           L == Len(runs)
           K == GroupKey(g, runs[1])
           row == SpilledRows(g, runs)[n]
           rec == SpilledRecord(g, runs)
           rest == SubSeq(runs, n + 1, L)
           Op(k) == g.reds[k].op
           Target(k) == g.reds[k].target
<1>1. /\ Keyed(g, runs) /\ Keyed(g, a.out) /\ HasFields(a) /\ IsSequence(a.out)
      /\ RunsSorted(g, runs) /\ Composes(g) /\ RowsTyped(g, a) /\ PartsTyped(g, runs)
  BY DEF IsAggregator, Keyed, Queued, Holding
<1>2. 1 \in DOMAIN runs /\ IsKeyed(g, runs[1])
      /\ K \in [DOMAIN g.keys -> Nat] /\ K \in KeysIn(g, runs)
  <2>1. L \in Nat /\ DOMAIN runs = 1..L /\ L # 0
    BY <1>1, KeyThere, NoElement DEF Keyed
  <2>2. 1 \in DOMAIN runs
    BY <2>1
  <2> HIDE DEF runs
  <2> QED BY <1>1, <2>2, KeyThere
<1>3. rec = RowRecord(g, K, row)
  <2>1. K = [i \in DOMAIN g.keys |-> Eval(runs[1], g.keys[i].target)]
    BY <1>2 DEF IsKeyed, GroupKey, Eval
  <2> QED BY <2>1 DEF SpilledRecord
<1>4. \A k \in DOMAIN g.reds : View(Op(k), row[k]) = Partial(g, k, runs, K)
  BY <1>1, FrontPartial
<1>5. /\ PartsTyped(g, rest)
      /\ \A k, X : X # K => Partial(g, k, rest, X) = Partial(g, k, runs, X)
  BY <1>1, RestPartial
<1> HIDE DEF row
<1>6. GroupKey(g, rec) = K /\ \A k \in DOMAIN g.reds : rec[Target(k)] = Result(Op(k), row[k])
  BY <1>2, <1>3, RowKey, RowValues
<1>7. b.out = Append(a.out, rec) /\ b.runs = rest /\ b.table = a.table /\ b.spiller = a.spiller
  <2>1. b = [a EXCEPT !.out = Append(@, rec), !.runs = rest]
    BY DEF ReadSpill
  <2> HIDE DEF rec, rest, b
  <2> QED BY <1>1, <2>1 DEF HasFields
<1>8. KeysIn(g, b.out) = KeysIn(g, a.out) \cup {K} /\ K \notin KeysIn(g, a.out)
  <2>1. KeysIn(g, b.out) = KeysIn(g, a.out) \cup {K}
    BY ReadSorts
  <2>2. \A X \in KeysIn(g, a.out) : KeyLess(g, X, K) /\ X \in [DOMAIN g.keys -> Nat]
    BY <1>1, <1>2, KeyThere DEF Queued
  <2>3. \A X \in KeysIn(g, a.out) : X # K
    BY <1>2, <2>2, KeyOrder
  <2> QED BY <2>1, <2>3
<1> HIDE DEF K, rec, rest, b, runs
<1>9. \A k \in DOMAIN g.reds : Op(k) \in Composing /\ Op(k) \in Reductions
  BY <1>1 DEF Composes, Reductions
<1>10. ASSUME NEW k \in DOMAIN g.reds
       PROVE  /\ Held(g, a, k, K) = Partial(g, k, runs, K)
              /\ rec[Target(k)] = Shown(Op(k), Held(g, a, k, K))
  <2>1. InTable(g, a, k, K) = Zero(Op(k))
    BY DEF InTable, K, runs
  <2>2. Partial(g, k, runs, K) \in Outcomes(Op(k))
    BY <1>1, HeldOutcome DEF runs
  <2>3. Held(g, a, k, K) = Plus(Op(k), Partial(g, k, runs, K), Zero(Op(k)))
    BY <2>1 DEF Held, runs
  <2> HIDE DEF Op, Target
  <2>4. Held(g, a, k, K) = Partial(g, k, runs, K)
    BY <1>9, <2>2, <2>3, PlusNothing
  <2>5. Result(Op(k), row[k]) = Shown(Op(k), View(Op(k), row[k]))
    BY ResultShown
  <2> QED BY <1>4, <1>6, <2>4, <2>5
<1>11. \A k \in DOMAIN g.reds : Sums(g, s, g.reds[k], K, Held(g, a, k, K))
  BY <1>2, <1>8 DEF Holding
<1>12. Final(g, b.out, s)
  <2> DEFINE m == Len(a.out)
             out == Append(a.out, rec)
  <2>1. /\ DOMAIN out = 1..(m + 1) /\ out[m + 1] = rec /\ \A j \in 1..m : out[j] = a.out[j]
        /\ DOMAIN a.out = 1..m /\ m \in Nat
    BY <1>1, AppendElements, SequenceFacts
  <2> HIDE DEF out, m
  <2> SUFFICES ASSUME NEW j \in 1..(m + 1), NEW k \in DOMAIN g.reds
               PROVE  \E x : /\ Sums(g, s, g.reds[k], GroupKey(g, out[j]), x)
                             /\ out[j][g.reds[k].target] = Shown(g.reds[k].op, x)
    BY <1>7, <2>1 DEF Final, out
  <2>2. CASE j = m + 1
    BY <1>6, <1>10, <1>11, <2>1, <2>2
  <2>3. CASE j # m + 1
    <3>1. j \in DOMAIN a.out /\ out[j] = a.out[j]
      BY <2>1, <2>3
    <3> QED BY <3>1 DEF Final
  <2> QED BY <2>2, <2>3
<1>13. Holding(g, b, s)
  <2>1. RowsTyped(g, b) /\ PartsTyped(g, b.runs) /\ Composes(g)
    BY <1>1, <1>5, <1>7 DEF RowsTyped
  <2>2. ASSUME NEW X \in [DOMAIN g.keys -> Nat] \ KeysIn(g, b.out), NEW k \in DOMAIN g.reds
        PROVE  Sums(g, s, g.reds[k], X, Held(g, b, k, X))
    <3>1. X # K /\ X \in [DOMAIN g.keys -> Nat] \ KeysIn(g, a.out)
      BY <1>8, <2>2
    <3>2. Held(g, b, k, X) = Held(g, a, k, X)
      BY <1>5, <1>7, <3>1 DEF Held, InTable, runs
    <3> QED BY <3>1, <3>2 DEF Holding
  <2> QED BY <2>1, <2>2 DEF Holding
<1> QED BY <1>12, <1>13 DEF b

\* So it is with all the readings, when no group that is read is in the table.
LEMMA ReadsHold ==
  ASSUME NEW g, IsGroupBy(g), SortsByKey(g), Reduces(g), NEW a, IsAggregator(g, a), NEW eof,
         a.spiller, Queued(g, a), \A K \in KeysIn(g, a.runs) : Truncated(g, K),
         \A K \in KeysIn(g, a.runs) :
           (~eof => Lt(g, K[1], a.maxSpillKey)) => K \notin DOMAIN a.table,
         NEW s, Holding(g, a, s), Final(g, a.out, s)
  PROVE  Holding(g, ReadSpills(g, a, eof), s) /\ Final(g, ReadSpills(g, a, eof).out, s)
<1> DEFINE R == SpillReads(g, a, eof)
           L == Len(a.runs)
           Good(b) == Holding(g, b, s) /\ Final(g, b.out, s)
           T == {n \in 0..L : Good(R[n])}
<1>1. /\ L \in Nat
      /\ \A n \in 0..L : ReadSoFar(g, a, eof, R[n])
  BY ReadsSort
<1>2. R[0] = a /\ \A n \in 1..L : R[n] = NextSpill(g, R[n - 1], eof)
  BY <1>1, SpillReadsEquation
<1> HIDE DEF R
<1>3. 0 \in T
  BY <1>1, <1>2
<1>4. ASSUME NEW n \in 1..L, n - 1 \in T
      PROVE  n \in T
  <2> DEFINE b == R[n - 1]
             K == GroupKey(g, b.runs[1])
  <2>1. n - 1 \in 0..L /\ n \in 0..L /\ Good(b) /\ ReadSoFar(g, a, eof, b)
        /\ R[n] = NextSpill(g, b, eof)
    BY <1>1, <1>2, <1>4
  <2> HIDE DEF b
  <2>2. CASE ~SpillReady(g, b, eof)
    BY <2>1, <2>2 DEF NextSpill
  <2>3. CASE SpillReady(g, b, eof)
    <3>0. ReadSoFar(g, a, eof, b)
      BY <2>1
    <3>1. /\ b.runs # <<>> /\ K \in KeysIn(g, a.runs)
          /\ ~eof => Lt(g, K[1], a.maxSpillKey)
      <4>1. /\ b.runs # <<>> /\ GroupKey(g, b.runs[1]) \in KeysIn(g, a.runs)
            /\ Early(g, a, eof, GroupKey(g, b.runs[1]))
        BY <2>3, <3>0, ReadOneMore
      <4> QED BY <4>1 DEF Early
    <3>2. K \notin DOMAIN a.table
      <4> HIDE DEF K
      <4> QED BY <3>1
    <3>3. IsAggregator(g, b) /\ Queued(g, b) /\ b.table = a.table /\ b.spiller
      BY <2>1 DEF ReadSoFar
    <3>4. Good(ReadSpill(g, b))
      BY <2>1, <3>1, <3>2, <3>3, ReadHolds
    <3>5. R[n] = ReadSpill(g, b)
      BY <2>1, <2>3 DEF NextSpill
    <3> QED BY <2>1, <3>4, <3>5
  <2> QED BY <2>2, <2>3
<1> HIDE DEF T, L
<1>5. \A n \in 0..L : n \in T
  BY <1>1, <1>3, <1>4, UpTo
<1>6. L \in T
  BY <1>1, <1>5
<1> QED BY <1>6 DEF T, L, R, ReadSpills

\* Groups that are sent from the table are final while there are no runs.
LEMMA SentHolds ==
  ASSUME NEW g, IsGroupBy(g), Reduces(g), NEW a, IsAggregator(g, a), ~a.spiller,
         NEW keys \in SUBSET DOMAIN a.table,
         \A K \in keys : K \notin KeysIn(g, a.out),
         NEW recs, Keyed(g, recs), KeysIn(g, recs) = keys,
         Range(recs) = Range(TableRecords(g, a, keys)),
         NEW s, Holding(g, a, s), Final(g, a.out, s)
  PROVE  Holding(g, Sent(a, keys, recs), s) /\ Final(g, Sent(a, keys, recs).out, s)
<1> DEFINE b == Sent(a, keys, recs)
           out == a.out \o recs
           Op(k) == g.reds[k].op
           Target(k) == g.reds[k].target
<1>1. /\ HasFields(a) /\ Keyed(g, a.out) /\ a.runs = <<>>
      /\ keys \in SUBSET [DOMAIN g.keys -> Nat] /\ IsFiniteSet(keys)
      /\ RowsTyped(g, a) /\ PartsTyped(g, a.runs)
  BY FS_Subset DEF IsAggregator, Holding
<1>2. /\ b.table = [K \in DOMAIN a.table \ keys |-> a.table[K]]
      /\ b.runs = a.runs /\ b.spiller = a.spiller /\ b.out = out
  BY <1>1 DEF Sent, WithoutKeys, HasFields
<1>3. KeysIn(g, out) = KeysIn(g, a.out) \cup keys
  BY <1>1, KeyedJoin
<1>4. \A k \in DOMAIN g.reds : Op(k) \in Reductions
  BY DEF Reduces
<1>5. \A X : \A k \in DOMAIN g.reds : Held(g, a, k, X) = InTable(g, a, k, X)
  <2> SUFFICES ASSUME NEW X, NEW k \in DOMAIN g.reds
               PROVE  Held(g, a, k, X) = InTable(g, a, k, X)
    OBVIOUS
  <2>1. Partial(g, k, a.runs, X) = Zero(Op(k))
    <3>1. Len(<<>>) = 0
      BY NoElement
    <3>2. Partials(g, k, <<>>, X)[0] = Zero(Op(k))
      BY <3>1, PartialsEquation
    <3> QED BY <1>1, <3>1, <3>2 DEF Partial
  <2>2. InTable(g, a, k, X) \in Outcomes(Op(k))
    BY <1>1, HeldOutcome
  <2>3. Held(g, a, k, X) = Plus(Op(k), Zero(Op(k)), InTable(g, a, k, X))
    BY <2>1 DEF Held
  <2> HIDE DEF Op
  <2> QED BY <1>4, <2>2, <2>3, PlusNothing
<1>6. \A j \in DOMAIN recs, k \in DOMAIN g.reds :
        /\ GroupKey(g, recs[j]) \in keys
        /\ recs[j][Target(k)] = Result(Op(k), a.table[GroupKey(g, recs[j])][k])
  BY <1>1, TableValues
<1> HIDE DEF b
<1>7. Final(g, b.out, s)
  <2>1. ASSUME NEW j \in DOMAIN recs, NEW k \in DOMAIN g.reds
        PROVE  \E x : /\ Sums(g, s, g.reds[k], GroupKey(g, recs[j]), x)
                      /\ recs[j][g.reds[k].target] = Shown(g.reds[k].op, x)
    <3> DEFINE K == GroupKey(g, recs[j])
               x == Held(g, a, k, K)
    <3>1. K \in keys /\ recs[j][Target(k)] = Result(Op(k), a.table[K][k])
      BY <1>6
    <3> HIDE DEF K
    <3>2. Sums(g, s, g.reds[k], K, x)
      BY <1>1, <3>1 DEF Holding
    <3>3. x = View(Op(k), a.table[K][k])
      <4>1. x = InTable(g, a, k, K)
        BY <1>5
      <4>2. K \in DOMAIN a.table
        BY <3>1
      <4> QED BY <4>1, <4>2 DEF InTable
    <3>4. Result(Op(k), a.table[K][k]) = Shown(Op(k), View(Op(k), a.table[K][k]))
      BY ResultShown
    <3>5. recs[j][Target(k)] = Shown(Op(k), x)
      BY <3>1, <3>3, <3>4
    <3> HIDE DEF x
    <3> QED BY <3>2, <3>5 DEF K
  <2> DEFINE L == Len(a.out)
             M == Len(recs)
  <2>2. /\ L \in Nat /\ M \in Nat /\ DOMAIN a.out = 1..L /\ DOMAIN recs = 1..M
        /\ IsSequence(a.out) /\ IsSequence(recs)
    BY <1>1, SequenceFacts DEF Keyed
  <2>3. /\ DOMAIN out = 1..(L + M)
        /\ \A j \in 1..(L + M) : out[j] = IF j <= L THEN a.out[j] ELSE recs[j - L]
    <3> DEFINE R == Range(a.out) \cup Range(recs)
    <3>1. a.out \in Seq(R) /\ recs \in Seq(R)
      BY <2>2, SeqMonotonic DEF IsSequence
    <3> HIDE DEF R
    <3>2. /\ out \in Seq(R) /\ Len(out) = L + M
          /\ \A j \in 1..(L + M) : out[j] = IF j <= L THEN a.out[j] ELSE recs[j - L]
      BY <3>1, ConcatProperties
    <3> HIDE DEF out
    <3>3. DOMAIN out = 1..Len(out)
      BY <3>2
    <3> QED BY <3>2, <3>3
  <2> HIDE DEF out
  <2> SUFFICES ASSUME NEW j \in 1..(L + M), NEW k \in DOMAIN g.reds
               PROVE  \E x : /\ Sums(g, s, g.reds[k], GroupKey(g, out[j]), x)
                             /\ out[j][g.reds[k].target] = Shown(g.reds[k].op, x)
    BY <1>2, <2>3 DEF Final
  <2>4. CASE j <= L
    <3>1. j \in DOMAIN a.out /\ out[j] = a.out[j]
      BY <2>2, <2>3, <2>4
    <3> QED BY <3>1 DEF Final
  <2>5. CASE ~(j <= L)
    <3>1. j - L \in DOMAIN recs /\ out[j] = recs[j - L]
      BY <2>2, <2>3, <2>5
    <3> QED BY <2>1, <3>1
  <2> QED BY <2>4, <2>5
<1>8. Holding(g, b, s)
  <2>1. RowsTyped(g, b) /\ PartsTyped(g, b.runs)
    BY <1>1, <1>2 DEF RowsTyped
  <2>2. ASSUME NEW X \in [DOMAIN g.keys -> Nat] \ KeysIn(g, b.out), NEW k \in DOMAIN g.reds
        PROVE  Sums(g, s, g.reds[k], X, Held(g, b, k, X))
    <3>1. X \notin keys /\ X \in [DOMAIN g.keys -> Nat] \ KeysIn(g, a.out)
      BY <1>2, <1>3, <2>2
    <3>2. InTable(g, b, k, X) = InTable(g, a, k, X)
      BY <1>2, <3>1 DEF InTable
    <3>3. Held(g, b, k, X) = Held(g, a, k, X)
      BY <1>2, <3>2 DEF Held
    <3> QED BY <3>1, <3>3 DEF Holding
  <2> QED BY <1>2, <2>1, <2>2 DEF Holding
<1> QED BY <1>7, <1>8 DEF b

\* The values of the records of an input.
Evaluates(s) == IsSequence(s) /\ \A i \in DOMAIN s : \A f : Eval(s[i], f) \in Values

\* A record of a group that has not been sent changes none that has been.
LEMMA FinalMore ==
  ASSUME NEW g, Reduces(g), NEW out, NEW s, Evaluates(s), NEW r,
         KeyFor(g, r) \notin KeysIn(g, out), Final(g, out, s)
  PROVE  Final(g, out, Append(s, r))
<1> SUFFICES ASSUME NEW j \in DOMAIN out, NEW k \in DOMAIN g.reds
             PROVE  \E x : /\ Sums(g, Append(s, r), g.reds[k], GroupKey(g, out[j]), x)
                           /\ out[j][g.reds[k].target] = Shown(g.reds[k].op, x)
  BY DEF Final
<1> DEFINE red == g.reds[k]
           K == GroupKey(g, out[j])
<1>1. PICK x : Sums(g, s, red, K, x) /\ out[j][red.target] = Shown(red.op, x)
  BY DEF Final
<1>2. KeyFor(g, r) # K
  BY DEF KeysIn
<1>3. red.op \in Reductions
  BY DEF Reduces
<1>4. IsSequence(s) /\ \A i \in DOMAIN s : Eval(s[i], red.field) \in Values
  BY DEF Evaluates
<1> HIDE DEF red, K
<1>5. Sums(g, Append(s, r), red, K, x)
  BY <1>1, <1>2, <1>3, <1>4, SumsSame
<1> QED BY <1>1, <1>5 DEF red, K

\* Row.Consume has every reducer take its value of the record.
LEMMA RowFurther ==
  ASSUME NEW g, Reduces(g), NEW row, DOMAIN row = DOMAIN g.reds,
         \A k \in DOMAIN g.reds : IsState(g.reds[k].op, row[k]),
         NEW r, \A f : Eval(r, f) \in Values
  PROVE  /\ DOMAIN RowConsume(g, row, r) = DOMAIN g.reds
         /\ \A k \in DOMAIN g.reds : LET red == g.reds[k] IN
              /\ IsState(red.op, RowConsume(g, row, r)[k])
              /\ View(red.op, RowConsume(g, row, r)[k]) =
                   Further(red.op, red.field, View(red.op, row[k]), Eval(r, red.field))
<1>1. RowConsume(g, row, r) =
        [k \in DOMAIN g.reds |->
           Consume(g.reds[k].op, g.reds[k].field, row[k], Eval(r, g.reds[k].field))]
  BY DEF RowConsume
<1> SUFFICES ASSUME NEW k \in DOMAIN g.reds
             PROVE  LET red == g.reds[k] IN
                    /\ IsState(red.op, RowConsume(g, row, r)[k])
                    /\ View(red.op, RowConsume(g, row, r)[k]) =
                         Further(red.op, red.field, View(red.op, row[k]), Eval(r, red.field))
  BY <1>1
<1> DEFINE op == g.reds[k].op
           field == g.reds[k].field
           v == Eval(r, field)
           st == row[k]
<1>2. op \in Reductions /\ IsState(op, st) /\ v \in Values
  BY DEF Reduces
<1>3. RowConsume(g, row, r)[k] = Consume(op, field, st, v)
  BY <1>1
<1> HIDE DEF op, field, v, st
<1>4. /\ IsState(op, Consume(op, field, st, v))
      /\ View(op, Consume(op, field, st, v)) = Further(op, field, View(op, st), v)
  BY <1>2, ConsumeFurther
<1> QED BY <1>3, <1>4 DEF op, field, v, st

\* A record that goes into the table, which has its group or room for it.
LEMMA TakeHolds ==
  ASSUME NEW g, IsGroupBy(g), Reduces(g), NEW a, IsAggregator(g, a), NEW s, Evaluates(s),
         NEW r, \A f : Eval(r, f) \in Values,
         KeyFor(g, r) \notin KeysIn(g, a.out), Holding(g, a, s),
         NEW b, b.out = a.out, b.runs = a.runs, b.spiller = a.spiller,
         NEW row, row = (IF KeyFor(g, r) \in DOMAIN a.table THEN a.table[KeyFor(g, r)] ELSE NewRow(g)),
         b.table = [K \in DOMAIN a.table \cup {KeyFor(g, r)} |->
                      IF K = KeyFor(g, r) THEN RowConsume(g, row, r) ELSE a.table[K]]
  PROVE  Holding(g, b, Append(s, r))
<1> DEFINE key == KeyFor(g, r)
           next == RowConsume(g, row, r)
<1>1. /\ RowsTyped(g, a) /\ PartsTyped(g, a.runs) /\ (a.spiller => Composes(g))
      /\ \A K \in [DOMAIN g.keys -> Nat] \ KeysIn(g, a.out) : \A k \in DOMAIN g.reds :
           Sums(g, s, g.reds[k], K, Held(g, a, k, K))
  BY DEF Holding
<1>2. \A k \in DOMAIN g.reds : g.reds[k].op \in Reductions
  BY DEF Reduces
<1>3. /\ DOMAIN row = DOMAIN g.reds
      /\ \A k \in DOMAIN g.reds : /\ IsState(g.reds[k].op, row[k])
                                  /\ View(g.reds[k].op, row[k]) = InTable(g, a, k, key)
  <2>1. CASE key \in DOMAIN a.table
    <3>1. row = a.table[key]
      BY <2>1
    <3> QED BY <1>1, <2>1, <3>1 DEF RowsTyped, InTable
  <2>2. CASE key \notin DOMAIN a.table
    <3>1. row = [k \in DOMAIN g.reds |-> NewReducer]
      BY <2>2 DEF NewRow
    <3>2. \A k \in DOMAIN g.reds : /\ IsState(g.reds[k].op, NewReducer)
                                   /\ View(g.reds[k].op, NewReducer) = Zero(g.reds[k].op)
      BY <1>2, ZeroOutcome DEF Zero
    <3>3. \A k : InTable(g, a, k, key) = Zero(g.reds[k].op)
      BY <2>2 DEF InTable
    <3> HIDE DEF key
    <3> QED BY <3>1, <3>2, <3>3
  <2> QED BY <2>1, <2>2
<1>4. /\ DOMAIN next = DOMAIN g.reds
      /\ \A k \in DOMAIN g.reds : LET red == g.reds[k] IN
           /\ IsState(red.op, next[k])
           /\ View(red.op, next[k]) =
                Further(red.op, red.field, InTable(g, a, k, key), Eval(r, red.field))
  <2>1. \A k \in DOMAIN g.reds : IsState(g.reds[k].op, row[k])
    BY <1>3
  <2>2. /\ DOMAIN next = DOMAIN g.reds
        /\ \A k \in DOMAIN g.reds : LET red == g.reds[k] IN
             /\ IsState(red.op, next[k])
             /\ View(red.op, next[k]) =
                  Further(red.op, red.field, View(red.op, row[k]), Eval(r, red.field))
    BY <1>3, <2>1, RowFurther
  <2> HIDE DEF next, key
  <2> QED BY <1>3, <2>2
<1> HIDE DEF next
<1>5. b.table = [K \in DOMAIN a.table \cup {key} |-> IF K = key THEN next ELSE a.table[K]]
  BY DEF next
<1> HIDE DEF key
<1>6. RowsTyped(g, b)
  BY <1>1, <1>4, <1>5 DEF RowsTyped
<1>7. ASSUME NEW K \in [DOMAIN g.keys -> Nat] \ KeysIn(g, b.out), NEW k \in DOMAIN g.reds
      PROVE  Sums(g, Append(s, r), g.reds[k], K, Held(g, b, k, K))
  <2> DEFINE red == g.reds[k]
             x == Held(g, a, k, K)
  <2>1. Sums(g, s, red, K, x)
    BY <1>1, <1>7
  <2>2. red.op \in Reductions /\ x \in Outcomes(red.op)
    BY <1>1, <1>2, HeldOutcome
  <2>3. /\ IsSequence(s) /\ Eval(r, red.field) \in Values
        /\ \A i \in DOMAIN s : Eval(s[i], red.field) \in Values
    BY DEF Evaluates
  <2>4. CASE K = key
    <3> DEFINE v == Eval(r, red.field)
               part == Partial(g, k, a.runs, K)
               y == InTable(g, a, k, K)
    <3>1. InTable(g, b, k, K) = Further(red.op, red.field, y, v)
      BY <1>4, <1>5, <2>4 DEF InTable
    <3>2. part \in Outcomes(red.op) /\ y \in Outcomes(red.op)
      BY <1>1, HeldOutcome
    <3>3. x = Plus(red.op, part, y)
      BY DEF Held
    <3>4. Held(g, b, k, K) = Plus(red.op, part, Further(red.op, red.field, y, v))
      BY <3>1 DEF Held
    <3> HIDE DEF part, y, x, v, red
    <3>5. Held(g, b, k, K) = Further(red.op, red.field, x, v)
      <4>1. v \in Values
        BY <2>3 DEF v
      <4> QED BY <2>2, <3>2, <3>3, <3>4, <4>1, PlusFurther
    <3>6. Sums(g, Append(s, r), red, K, Further(red.op, red.field, x, v))
      <4>1. K = KeyFor(g, r)
        BY <2>4 DEF key
      <4> QED BY <2>1, <2>2, <2>3, <4>1, SumsFurther DEF v
    <3> QED BY <3>5, <3>6 DEF red
  <2>5. CASE K # key
    <3>1. Held(g, b, k, K) = x
      BY <1>5, <2>5 DEF Held, InTable
    <3>2. KeyFor(g, r) # K
      BY <2>5 DEF key
    <3> HIDE DEF x, red
    <3>3. Sums(g, Append(s, r), red, K, x)
      BY <2>1, <2>2, <2>3, <3>2, SumsSame
    <3> QED BY <3>1, <3>3 DEF red
  <2> QED BY <2>4, <2>5
<1>8. PartsTyped(g, b.runs) /\ (b.spiller => Composes(g))
  BY <1>1
<1> QED BY <1>6, <1>7, <1>8 DEF Holding

\* A record that is consumed.
LEMMA ConsumeHolds ==
  ASSUME NEW g, IsGroupBy(g), SortsByKey(g), Reduces(g), NEW a, IsAggregator(g, a),
         a.err = "none", NEW s, Evaluates(s),
         NEW r, \A f \in DOMAIN r : r[f] \in Nat,
         ~Lacking(g, r) => KeyFor(g, r) \notin KeysIn(g, a.out),
         Holding(g, a, s), Final(g, a.out, s)
  PROVE  LET b == Consumed(g, a, r) IN
         /\ Final(g, b.out, Append(s, r))
         /\ b.err = "none" => Holding(g, b, Append(s, r))
<1> DEFINE b == Consumed(g, a, r)
           key == KeyFor(g, r)
           a1 == IF g.dir = 0 THEN a
                 ELSE [a EXCEPT !.maxTableKey = LaterKey(g, @, key[1])]
           full == Full(g, a, key)
           eof == FALSE
           a2 == IF full THEN SpillTable(g, a1, eof) ELSE a1
           row == IF key \in DOMAIN a2.table THEN a2.table[key] ELSE NewRow(g)
           next == IF g.consumePart THEN RowConsumePart(g, row, r) ELSE RowConsume(g, row, r)
           stuck == full /\ \E i \in DOMAIN g.reds : ~Decomposable(g.reds[i].op)
           failed == [a1 EXCEPT !.err = "too big"]
           added == [a2 EXCEPT !.table =
                       [k \in DOMAIN @ \cup {key} |-> IF k = key THEN next ELSE @[k]]]
<1>1. b = IF \E i \in DOMAIN key : key[i] = Absent THEN a
          ELSE IF stuck THEN failed ELSE added
  BY Zenon DEF Consumed, KeyFor
<1>2. (\E i \in DOMAIN key : key[i] = Absent) <=> Lacking(g, r)
  BY DEF Lacking, KeyFor
<1>3. \A f : Eval(r, f) \in Values
  BY DEF Eval, Values
<1>4. key \notin KeysIn(g, a.out)
  <2>1. CASE Lacking(g, r)
    <3>1. PICK i \in DOMAIN g.keys : key[i] = Absent
      BY <2>1 DEF Lacking
    <3>2. \A K \in KeysIn(g, a.out) : K \in [DOMAIN g.keys -> Nat]
      BY KeyThere DEF IsAggregator
    <3> HIDE DEF key
    <3> QED BY <3>1, <3>2 DEF Absent
  <2>2. CASE ~Lacking(g, r)
    BY <2>2
  <2> QED BY <2>1, <2>2
<1>5. Final(g, a.out, Append(s, r))
  BY <1>4, FinalMore
<1> HIDE DEF b, next
<1>6. CASE Lacking(g, r)
  <2>1. PICK i \in DOMAIN g.keys : key[i] = Absent
    BY <1>6 DEF Lacking
  <2> HIDE DEF failed, added, stuck, key
  <2>2. b = a
    BY <1>1, <1>2, <1>6
  <2>3. ASSUME NEW K \in [DOMAIN g.keys -> Nat] \ KeysIn(g, a.out), NEW k \in DOMAIN g.reds
        PROVE  Sums(g, Append(s, r), g.reds[k], K, Held(g, a, k, K))
    <3> DEFINE red == g.reds[k]
               x == Held(g, a, k, K)
    <3>1. Sums(g, s, red, K, x)
      BY <2>3 DEF Holding
    <3>2. KeyFor(g, r) # K
      <4>1. K[i] \in Nat
        BY <2>1
      <4> QED BY <2>1, <4>1 DEF Absent, key
    <3>3. /\ red.op \in Reductions /\ IsSequence(s)
          /\ \A j \in DOMAIN s : Eval(s[j], red.field) \in Values
      BY DEF Evaluates, Reduces
    <3> HIDE DEF x, red
    <3>4. Sums(g, Append(s, r), red, K, x)
      BY <3>1, <3>2, <3>3, SumsSame
    <3> QED BY <3>4 DEF red, x
  <2>4. Holding(g, a, Append(s, r))
    BY <2>3 DEF Holding
  <2> QED BY <1>5, <2>2, <2>4 DEF b
<1>7. CASE ~Lacking(g, r)
  <2>1. key \in [DOMAIN g.keys -> Nat]
    BY <1>7, KeyOfRecord
  <2> HIDE DEF key
  <2>2. /\ IsAggregator(g, a1) /\ a1.table = a.table /\ a1.runs = a.runs /\ a1.out = a.out
        /\ a1.spiller = a.spiller
    <3>1. CASE g.dir = 0
      BY <3>1
    <3>2. CASE g.dir # 0
      <4>1. PICK m : a1 = [a EXCEPT !.maxTableKey = m]
        BY <3>2
      <4> HIDE DEF a1
      <4>2. /\ HasFields(a1) /\ a1.table = a.table /\ a1.err = a.err
            /\ a1.spiller = a.spiller /\ a1.runs = a.runs /\ a1.out = a.out
        BY <4>1 DEF HasFields, IsAggregator
      <4> QED BY <4>2 DEF IsAggregator
    <3> QED BY <3>1, <3>2
  <2> HIDE DEF a1
  <2>3. \A k : \A K : Held(g, a1, k, K) = Held(g, a, k, K)
    BY <2>2 DEF Held, InTable
  <2>4. RowsTyped(g, a1) /\ PartsTyped(g, a1.runs)
    BY <2>2 DEF Holding, RowsTyped
  <2>5. CASE stuck
    <3>1. b = [a1 EXCEPT !.err = "too big"]
      BY <1>1, <1>2, <1>7, <2>5
    <3>2. b.err = "too big" /\ b.out = a.out
      BY <2>2, <3>1 DEF HasFields, IsAggregator
    <3> QED BY <1>5, <3>2 DEF b
  <2>6. CASE ~stuck
    <3>1. b = [a2 EXCEPT !.table =
                 [k \in DOMAIN @ \cup {key} |-> IF k = key THEN next ELSE @[k]]]
      BY <1>1, <1>2, <1>7, <2>6
    <3>2. full => Composes(g)
      BY <2>6 DEF Reduces
    <3>3. /\ IsAggregator(g, a2) /\ RowsTyped(g, a2) /\ PartsTyped(g, a2.runs) /\ a2.out = a.out
          /\ a2.spiller => Composes(g)
          /\ \A k \in DOMAIN g.reds : \A K : Held(g, a2, k, K) = Held(g, a, k, K)
      <4>1. CASE full
        <5>1. a2 = SpillTable(g, a1, eof) /\ Composes(g)
          BY <3>2, <4>1
        <5> HIDE DEF a2, eof
        <5>2. LET c == SpillTable(g, a1, eof) IN
              /\ IsAggregator(g, c) /\ RowsTyped(g, c) /\ PartsTyped(g, c.runs) /\ c.out = a1.out
              /\ \A k \in DOMAIN g.reds : \A K : Held(g, c, k, K) = Held(g, a1, k, K)
          BY <2>2, <2>4, <5>1, SpillMoves, SpillHolds
        <5> QED BY <2>2, <2>3, <5>1, <5>2
      <4>2. CASE ~full
        <5>1. a2 = a1
          BY <4>2
        <5> HIDE DEF a2
        <5>2. a.spiller => Composes(g)
          BY DEF Holding
        <5> QED BY <2>2, <2>3, <2>4, <5>1, <5>2
      <4> QED BY <4>1, <4>2
    <3> HIDE DEF a2
    <3>4. /\ b.table = [k \in DOMAIN a2.table \cup {key} |-> IF k = key THEN next ELSE a2.table[k]]
          /\ b.runs = a2.runs /\ b.out = a2.out /\ b.spiller = a2.spiller
      BY <3>1, <3>3 DEF HasFields, IsAggregator
    <3>5. next = RowConsume(g, row, r)
      BY DEF next, Reduces
    <3>6. Holding(g, a2, s)
      BY <3>3 DEF Holding
    <3>7. Holding(g, b, Append(s, r))
      <4>1. key = KeyFor(g, r)
        BY DEF key
      <4>2. row = IF key \in DOMAIN a2.table THEN a2.table[key] ELSE NewRow(g)
        OBVIOUS
      <4>3. b.table = [K \in DOMAIN a2.table \cup {key} |->
                         IF K = key THEN RowConsume(g, row, r) ELSE a2.table[K]]
        BY <3>4, <3>5
      <4>4. key \notin KeysIn(g, a2.out)
        BY <1>4, <3>3
      <4> HIDE DEF row
      <4> QED BY <1>3, <3>3, <3>4, <3>6, <4>1, <4>2, <4>3, <4>4, TakeHolds
    <3> QED BY <1>5, <3>3, <3>4, <3>7 DEF b
  <2> QED BY <2>5, <2>6
<1> QED BY <1>6, <1>7

-----------------------------------------------------------------------------
(***************************************************************************)
(* What is sent is final.                                                  *)
(***************************************************************************)
\* After a batch the groups that are sent are final.
LEMMA BatchHolds ==
  ASSUME NEW g, IsGroupBy(g), SortsByKey(g), Reduces(g), NEW a, IsAggregator(g, a),
         a.err = "none", Ordered(g, a), \A K \in KeysIn(g, a.runs) : Truncated(g, K),
         NEW s, Holding(g, a, s), Final(g, a.out, s)
  PROVE  Holding(g, AfterBatch(g, a), s) /\ Final(g, AfterBatch(g, a).out, s)
<1> DEFINE b == AfterBatch(g, a)
<1>1. CASE g.dir = 0
  <2>1. b = a
    BY <1>1 DEF AfterBatch
  <2> QED BY <2>1
<1>2. CASE g.dir # 0 /\ a.spiller
  <2> DEFINE eof == FALSE
             c == ReadSpills(g, a, eof)
  <2>1. b = c /\ ~eof
    BY <1>2 DEF AfterBatch
  <2> HIDE DEF eof, b
  <2>2. /\ g.dir \in Int /\ 1 \in DOMAIN g.keys /\ Queued(g, a) /\ SpillLater(g, a)
        /\ a.maxSpillKey \in Values
        /\ \A L \in DOMAIN a.table : Le(g, a.maxSpillKey, L[1])
    BY <1>2 DEF SortsByKey, Ordered, SpillLater, Values
  <2>3. ASSUME NEW K \in DOMAIN a.table
        PROVE  ~Lt(g, K[1], a.maxSpillKey)
    <3>1. K[1] \in Values
      BY <2>2, GroupsTyped DEF Values
    <3> QED BY <2>2, <3>1, ValueOrder
  <2>4. \A K \in KeysIn(g, a.runs) : (~eof => Lt(g, K[1], a.maxSpillKey)) => K \notin DOMAIN a.table
    BY <2>1, <2>3
  <2>5. Holding(g, c, s) /\ Final(g, c.out, s)
    BY <1>2, <2>2, <2>4, ReadsHold
  <2> QED BY <2>1, <2>5 DEF b
<1>3. CASE g.dir # 0 /\ ~a.spiller
  <2> DEFINE keys == Completed(g, a)
             rows == TableRecords(g, a, keys)
             recs == SortStable(rows, g.dir, TRUE, <<g.keys[1].target>>)
             c == Sent(a, keys, recs)
  <2>1. b = c
    BY <1>3 DEF AfterBatch, Sent
  <2>2. keys \subseteq DOMAIN a.table
    BY DEF Completed
  <2> HIDE DEF keys, b
  <2>3. /\ keys \in SUBSET [DOMAIN g.keys -> Nat] /\ IsFiniteSet(keys)
        /\ keys \in SUBSET DOMAIN a.table
    BY <2>2, FS_Subset DEF IsAggregator
  <2>4. Keyed(g, rows) /\ KeysIn(g, rows) = keys
    BY <2>3, TableKeys
  <2>5. Keyed(g, recs) /\ KeysIn(g, recs) = keys /\ Range(recs) = Range(rows)
    <3> DEFINE dir == g.dir
               nullsMax == TRUE
               fields == <<g.keys[1].target>>
    <3> HIDE DEF dir, nullsMax, fields, rows
    <3>1. LET t == SortStable(rows, dir, nullsMax, fields)
          IN  Keyed(g, t) /\ KeysIn(g, t) = KeysIn(g, rows) /\ Range(t) = Range(rows)
      BY <2>4, KeyedSort, SortKeeps DEF Keyed
    <3> QED BY <2>4, <3>1 DEF dir, nullsMax, fields
  <2>6. \A K \in keys : K \notin KeysIn(g, a.out)
    <3> SUFFICES ASSUME NEW K \in keys, K \in KeysIn(g, a.out)
                 PROVE  FALSE
      OBVIOUS
    <3>1. KeyLess(g, K, K)
      BY <2>3, OutBeforeTable
    <3>2. K \in [DOMAIN g.keys -> Nat]
      BY <2>3
    <3> QED BY <3>1, <3>2, KeyOrder
  <2> HIDE DEF recs
  <2>7. Holding(g, c, s) /\ Final(g, c.out, s)
    BY <1>3, <2>3, <2>5, <2>6, SentHolds
  <2> HIDE DEF c
  <2> QED BY <2>1, <2>7 DEF b
<1> QED BY <1>1, <1>2, <1>3

\* At the end of the input everything that is sent is final.
LEMMA EndHolds ==
  ASSUME NEW g, IsGroupBy(g), SortsByKey(g), Reduces(g), NEW a, IsAggregator(g, a),
         a.err = "none", Ordered(g, a), \A K \in Groups(g, a) : Truncated(g, K),
         NEW s, Holding(g, a, s), Final(g, a.out, s)
  PROVE  Final(g, AtEnd(g, a).out, s)
<1>1. CASE a.spiller
  <2> DEFINE eof == TRUE
             c == SpillTable(g, a, eof)
             d == ReadSpills(g, c, eof)
  <2>1. AtEnd(g, a) = d
    BY <1>1 DEF AtEnd
  <2> HIDE DEF eof
  <2>2. IsAggregator(g, c) /\ DOMAIN c.table = {} /\ Groups(g, c) = Groups(g, a)
    BY SpillMoves
  <2>3. Queued(g, c) /\ c.spiller
    <3>1. CASE DOMAIN a.table = {}
      <4>1. c = a
        BY <3>1 DEF SpillTable
      <4> HIDE DEF c
      <4> QED BY <1>1, <4>1 DEF Ordered
    <3>2. CASE DOMAIN a.table # {}
      <4>1. /\ Queued(g, a) /\ \A L \in DOMAIN a.table : Truncated(g, L)
            /\ \A K \in KeysIn(g, a.out), L \in DOMAIN a.table : KeyLess(g, K, L)
        BY OutBeforeTable DEF Groups, Ordered
      <4> QED BY <3>2, <4>1, SpillSorts
    <3> QED BY <3>1, <3>2
  <2>4. Composes(g) /\ RowsTyped(g, a) /\ PartsTyped(g, a.runs)
    BY <1>1 DEF Holding
  <2>5. /\ RowsTyped(g, c) /\ PartsTyped(g, c.runs) /\ c.out = a.out
        /\ \A k \in DOMAIN g.reds : \A K : Held(g, c, k, K) = Held(g, a, k, K)
    BY <2>4, SpillHolds
  <2> HIDE DEF c
  <2>6. Holding(g, c, s) /\ Final(g, c.out, s)
    BY <2>4, <2>5 DEF Holding
  <2>7. /\ \A K \in KeysIn(g, c.runs) : Truncated(g, K)
        /\ \A K \in KeysIn(g, c.runs) :
             (~eof => Lt(g, K[1], c.maxSpillKey)) => K \notin DOMAIN c.table
    BY <2>2 DEF Groups
  <2>8. Final(g, d.out, s)
    BY <2>2, <2>3, <2>6, <2>7, ReadsHold
  <2> HIDE DEF d
  <2> QED BY <2>1, <2>8
<1>2. CASE ~a.spiller
  <2> DEFINE keys == DOMAIN a.table
             recs == TableRecords(g, a, keys)
             c == Sent(a, keys, recs)
  <2>1. AtEnd(g, a) = c
    BY <1>2 DEF AtEnd, Sent
  <2>2. /\ keys \in SUBSET [DOMAIN g.keys -> Nat] /\ IsFiniteSet(keys)
        /\ keys \in SUBSET DOMAIN a.table
    BY DEF IsAggregator
  <2> HIDE DEF keys
  <2>3. Keyed(g, recs) /\ KeysIn(g, recs) = keys
    BY <2>2, TableKeys
  <2>4. \A K \in keys : K \notin KeysIn(g, a.out)
    <3> SUFFICES ASSUME NEW K \in keys, K \in KeysIn(g, a.out)
                 PROVE  FALSE
      OBVIOUS
    <3>1. KeyLess(g, K, K)
      BY <2>2, OutBeforeTable
    <3>2. K \in [DOMAIN g.keys -> Nat]
      BY <2>2
    <3> QED BY <3>1, <3>2, KeyOrder
  <2>5. Final(g, c.out, s)
    BY <1>2, <2>2, <2>3, <2>4, SentHolds
  <2> HIDE DEF c
  <2> QED BY <2>1, <2>5
<1> QED BY <1>1, <1>2

\* The records of an input evaluate to values.
LEMMA InputEvaluates ==
  ASSUME Setting, NEW s \in Seq(Inputs)
  PROVE  Evaluates(s)
<1>1. IsSequence(s) /\ \A i \in DOMAIN s : s[i] \in Inputs
  <2>1. DOMAIN s = 1..Len(s) /\ s \in [1..Len(s) -> Inputs] /\ Len(s) \in Nat
    BY LenProperties
  <2>2. s \in Seq(Range(s))
    BY <2>1, IsASeq DEF Range
  <2> QED BY <2>1, <2>2 DEF IsSequence
<1>2. \A r \in Inputs : \A f : Eval(r, f) \in Values
  BY DEF Setting, Eval, Values
<1> QED BY <1>1, <1>2 DEF Evaluates

\* A group of the record that is consumed has not been sent.
LEMMA NotYetSent ==
  ASSUME OrderSetting, AggInv, OrderInv, NEW r \in Inputs, ConsumeRecord(r), ~Lacking(p, r)
  PROVE  KeyFor(p, r) \notin KeysIn(p, agg.out)
<1>1. /\ p \in GroupBys /\ SortsByKey(p) /\ IsAggregator(p, agg) /\ Ordered(p, agg)
  BY DEF AggInv, OrderInv, OrderSetting, ConsumeRecord
<1> SUFFICES ASSUME NEW K \in KeysIn(p, agg.out), KeyFor(p, r) = K
             PROVE  FALSE
  OBVIOUS
<1>2. p.dir # 0
  BY <1>1, KeyedNone DEF Ordered
<1>3. /\ p.dir \in Int /\ 1 \in DOMAIN p.keys
      /\ agg.maxTableKey \in Nat /\ Lt(p, K[1], agg.maxTableKey)
  BY <1>1, <1>2 DEF Ordered, TableLater, SortsByKey
<1>4. K[1] = KeyValue(p.keys[1], r)
  BY <1>1, <1>2, FirstKey
<1>5. Le(p, agg.maxTableKey, K[1])
  BY <1>2, <1>3, <1>4, LatestKey DEF NoKey
<1>6. K[1] \in Values /\ agg.maxTableKey \in Values
  BY <1>1, <1>3, GroupsTyped DEF Values
<1> QED BY <1>3, <1>5, <1>6, ValueOrder

\* A group-by that starts holds nothing, which is what nothing comes to.
LEMMA ValueStarts == ASSUME ReduceSetting PROVE Init => ValueInv
<1> SUFFICES ASSUME Init PROVE ValueInv
  OBVIOUS
<1>1. /\ agg.table = <<>> /\ agg.runs = <<>> /\ agg.out = <<>> /\ ~agg.spiller
      /\ input = <<>> /\ Reduces(p)
  BY DEF Init, NewAggregator, ReduceSetting
<1>2. DOMAIN agg.table = {} /\ DOMAIN agg.runs = {} /\ DOMAIN agg.out = {}
  BY <1>1
<1>3. RowsTyped(p, agg) /\ PartsTyped(p, agg.runs) /\ Final(p, agg.out, input)
  BY <1>2 DEF RowsTyped, PartsTyped, Final
<1>4. ASSUME NEW K, NEW k \in DOMAIN p.reds
      PROVE  Sums(p, input, p.reds[k], K, Held(p, agg, k, K))
  <2> DEFINE red == p.reds[k]
  <2>1. red.op \in Reductions
    BY <1>1 DEF Reduces
  <2>2. Partial(p, k, agg.runs, K) = Zero(red.op)
    <3>1. Len(<<>>) = 0
      BY NoElement
    <3>2. Partials(p, k, <<>>, K)[0] = Zero(red.op)
      BY <3>1, PartialsEquation
    <3> QED BY <1>1, <3>1, <3>2 DEF Partial
  <2>3. InTable(p, agg, k, K) = Zero(red.op)
    BY <1>2 DEF InTable
  <2>4. Held(p, agg, k, K) = Plus(red.op, Zero(red.op), Zero(red.op))
    BY <2>2, <2>3 DEF Held
  <2> HIDE DEF red
  <2>5. Held(p, agg, k, K) = Zero(red.op)
    BY <2>1, <2>4, ZeroOutcome, PlusNothing
  <2>6. Sums(p, <<>>, red, K, Zero(red.op))
    BY <2>1, SumsNothing
  <2> QED BY <1>1, <2>5, <2>6 DEF red
<1>5. Holding(p, agg, input)
  BY <1>1, <1>3, <1>4 DEF Holding
<1> QED BY <1>3, <1>5 DEF ValueInv

\* Every step keeps what is held and what is final.
LEMMA ValueStep ==
  ASSUME ReduceSetting, AggInv, OrderInv, ValueInv, [Next]_vars
  PROVE  ValueInv'
<1>0. OrderSetting /\ Setting
  BY DEF ReduceSetting, OrderSetting
<1>1. /\ p \in GroupBys /\ IsGroupBy(p) /\ SortsByKey(p) /\ Reduces(p)
      /\ IsAggregator(p, agg) /\ input \in Seq(Inputs)
      /\ agg.err = "none" => Groups(p, agg) = KeysSeen
  BY <1>0 DEF AggInv, OrderSetting, Setting, ReduceSetting
<1>2. agg.err = "none" => \A K \in Groups(p, agg) : Truncated(p, K)
  BY <1>0, <1>1, KeysOfInput, GroupsTruncated
<1>3. Final(p, agg.out, input)
  BY DEF ValueInv
<1>4. ASSUME NEW r \in Inputs, ConsumeRecord(r)
      PROVE  ValueInv'
  <2> DEFINE b == Consumed(p, agg, r)
             s == Append(input, r)
  <2>1. /\ p' = p /\ input' = s /\ agg' = b /\ agg.err = "none" /\ Holding(p, agg, input)
        /\ \A f \in DOMAIN r : r[f] \in Nat
    BY <1>0, <1>4 DEF ConsumeRecord, ValueInv, Setting
  <2>2. Evaluates(input)
    BY <1>0, <1>1, InputEvaluates
  <2>3. ~Lacking(p, r) => KeyFor(p, r) \notin KeysIn(p, agg.out)
    BY <1>0, <1>4, NotYetSent
  <2>4. Final(p, b.out, s) /\ (b.err = "none" => Holding(p, b, s))
    BY <1>1, <1>3, <2>1, <2>2, <2>3, ConsumeHolds
  <2> HIDE DEF b, s
  <2> QED BY <2>1, <2>4 DEF ValueInv
<1>5. CASE SendCompleted
  <2> DEFINE b == AfterBatch(p, agg)
  <2>1. /\ p' = p /\ input' = input /\ agg' = b /\ agg.err = "none" /\ Holding(p, agg, input)
        /\ Ordered(p, agg) /\ \A K \in KeysIn(p, agg.runs) : Truncated(p, K)
    BY <1>2, <1>5 DEF SendCompleted, ValueInv, OrderInv, Groups
  <2>2. Holding(p, b, input) /\ Final(p, b.out, input)
    BY <1>1, <1>3, <2>1, BatchHolds
  <2> HIDE DEF b
  <2> QED BY <2>1, <2>2 DEF ValueInv
<1>6. CASE SendRest
  <2> DEFINE b == AtEnd(p, agg)
  <2>1. /\ p' = p /\ input' = input /\ agg' = b /\ ended' = TRUE
        /\ agg.err = "none" /\ Holding(p, agg, input)
        /\ Ordered(p, agg) /\ \A K \in Groups(p, agg) : Truncated(p, K)
    BY <1>2, <1>6 DEF SendRest, ValueInv, OrderInv
  <2>2. Final(p, b.out, input)
    BY <1>1, <1>3, <2>1, EndHolds
  <2> HIDE DEF b
  <2> QED BY <2>1, <2>2 DEF ValueInv
<1>7. CASE UNCHANGED vars
  BY <1>7 DEF vars, ValueInv
<1> QED BY <1>4, <1>5, <1>6, <1>7 DEF Next, Quit

-----------------------------------------------------------------------------
(***************************************************************************)
(* The theorems on what is sent.                                           *)
(***************************************************************************)
\* However the records come in batches and however often the table is spilled,
\* a group-by of sorted input sends its groups in order and each one once, and
\* while records are still to come, what is in the table and on disk comes
\* after what was sent (completedKeys, spillTable, readSpills and
\* updateMaxTableKey of proc/groupby/groupby.go).
THEOREM GroupsInOrder == OrderSetting => (Spec => [](OrderInv /\ OutputInOrder))
<1> SUFFICES ASSUME OrderSetting PROVE Spec => [](OrderInv /\ OutputInOrder)
  OBVIOUS
<1>1. Setting
  BY DEF OrderSetting
<1>2. Init => OrderInv
  BY OrderStarts
<1>3. AggInv /\ OrderInv /\ [Next]_vars => OrderInv'
  BY OrderStep
<1>4. OrderInv => OutputInOrder
  <2>1. \A i \in DOMAIN agg.out : OutKey(agg.out[i]) = GroupKey(p, agg.out[i])
    BY DEF OutKey, GroupKey
  <2> QED BY <2>1 DEF OrderInv, OutSorted, OutputInOrder, Le
<1>5. Spec => []AggInv
  BY <1>1, AggregatorInvariant
<1> QED BY <1>2, <1>3, <1>4, <1>5, PTL DEF Spec

\* Every group that is sent, before the end of the input, from disk or at the
\* end, has the reducers' results over all the records of the group consumed so
\* far, it is sent once and in order, and the table stays within its limit
\* (Aggregator.Consume, spillTable, nextResultFromSpills and Results of
\* proc/groupby/groupby.go).
THEOREM GroupsSentRight == ReduceSetting => (Spec => []SentRight)
<1> SUFFICES ASSUME ReduceSetting PROVE Spec => []SentRight
  OBVIOUS
<1>1. OrderSetting /\ Setting
  BY DEF ReduceSetting, OrderSetting
<1>2. Init => ValueInv
  BY ValueStarts
<1>3. AggInv /\ OrderInv /\ ValueInv /\ [Next]_vars => ValueInv'
  BY ValueStep
<1>4. AggInv /\ OrderInv /\ ValueInv => SentIsFinal
  <2> SUFFICES ASSUME AggInv, OrderInv, ValueInv PROVE SentIsFinal
    OBVIOUS
  <2>1. \A i \in DOMAIN agg.out : OutKey(agg.out[i]) = GroupKey(p, agg.out[i])
    BY DEF OutKey, GroupKey
  <2>2. ASSUME NEW i \in DOMAIN agg.out, NEW j \in DOMAIN agg.out,
               OutKey(agg.out[i]) = OutKey(agg.out[j])
        PROVE  i = j
    <3>0. Keyed(p, agg.out)
      BY DEF AggInv, IsAggregator
    <3>1. i \in Nat /\ j \in Nat
      <4> DEFINE out == agg.out
      <4>1. i \in DOMAIN out /\ j \in DOMAIN out /\ Keyed(p, out)
        BY <3>0
      <4> HIDE DEF out
      <4>2. Len(out) \in Nat /\ DOMAIN out = 1..Len(out)
        BY <4>1, KeyThere
      <4> QED BY <4>1, <4>2
    <3>2. ~(i < j) /\ ~(j < i)
      BY <2>1, <2>2 DEF OrderInv, OutDistinct
    <3> QED BY <3>1, <3>2
  <2>3. ASSUME NEW i \in DOMAIN agg.out, NEW k \in DOMAIN p.reds
        PROVE  agg.out[i][p.reds[k].target] = Expected(p.reds[k], OutKey(agg.out[i]))
    <3> DEFINE red == p.reds[k]
               K == GroupKey(p, agg.out[i])
    <3>1. PICK x : Sums(p, input, red, K, x) /\ agg.out[i][red.target] = Shown(red.op, x)
      BY DEF ValueInv, Final
    <3>2. red.op \in Reductions
      BY DEF AggInv, ReduceSetting, Reduces
    <3>3. Evaluates(input)
      BY <1>1, InputEvaluates DEF AggInv
    <3>4. OutKey(agg.out[i]) = K
      BY <2>1
    <3> HIDE DEF red, K
    <3>5. Expected(red, K) = Shown(red.op, x)
      BY <3>1, <3>2, <3>3, SumsExpected DEF Evaluates
    <3> QED BY <3>1, <3>4, <3>5 DEF red
  <2> QED BY <2>2, <2>3 DEF SentIsFinal
<1>5. Spec => []AggInv
  BY <1>1, AggregatorInvariant
<1>6. Spec => []TypeOK
  BY <1>1, GroupByTypeCorrect
<1>7. Spec => [](OrderInv /\ OutputInOrder)
  BY <1>1, GroupsInOrder
<1>8. TypeOK /\ SentIsFinal /\ OutputInOrder => SentRight
  BY DEF SentRight
<1> QED BY <1>2, <1>3, <1>4, <1>5, <1>6, <1>7, <1>8, PTL DEF Spec

=============================================================================
