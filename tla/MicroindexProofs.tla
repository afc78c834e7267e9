--------------------------- MODULE MicroindexProofs ---------------------------
(***************************************************************************)
(* What holds of microindexes for any chunks, thresholds and levels: a     *)
(* descent through the layers of an index ends where a scan of its base    *)
(* would find the key, and a search over the chunks has the rows of every  *)
(* index that it read whole, whatever the indexer does meanwhile.          *)
(***************************************************************************)
EXTENDS Microindex, TLAPS, FiniteSetTheorems, SequenceTheorems, WellFoundedInduction

\* Keys of W columns, and the records of a layer.
KeysOf(W) == [1..W -> Nat]
Rec(W) == [key : KeysOf(W), child : Nat]
IsQuery(q, m) == q \in [1..m -> Nat \ {Null}]
Agrees(key, q) == \A i \in DOMAIN q : key[i] = q[i]

\* A column that the sort puts before another one.
ColumnBefore(x, y) == x # Null /\ (y = Null \/ x < y)

-----------------------------------------------------------------------------
(***************************************************************************)
(* The order of keys                                                       *)
(***************************************************************************)
\* Two columns compare as the sort puts them, unset last.
LEMMA ColumnsCompared ==
  ASSUME NEW x \in Nat, NEW y \in Nat
  PROVE  /\ CompareColumn(x, y) = 0 <=> x = y
         /\ CompareColumn(x, y) < 0 <=> ColumnBefore(x, y) /\ x # y
  BY DEF CompareColumn, ColumnBefore, Null

\* Keys of one column sort as the column does ...
LEMMA SortsOne ==
  ASSUME NEW a \in KeysOf(1), NEW b \in KeysOf(1)
  PROVE  SortsBefore(a, b) <=> ColumnBefore(a[1], b[1]) /\ a[1] # b[1]
<1>1. DOMAIN a = {1} /\ a[1] \in Nat /\ b[1] \in Nat
  BY DEF KeysOf
<1>2. 1..(1-1) = {}
  OBVIOUS
<1>3. FirstDiff(a, b) = {i \in {1} : CompareColumn(a[1], b[1]) # 0}
  BY <1>1, <1>2 DEF FirstDiff
<1>4. SortsBefore(a, b) <=> CompareColumn(a[1], b[1]) # 0 /\ CompareColumn(a[1], b[1]) < 0
  BY <1>3 DEF SortsBefore
<1> QED BY <1>1, <1>4, ColumnsCompared

\* ... and keys of two by the first that differs.
LEMMA SortsTwo ==
  ASSUME NEW a \in KeysOf(2), NEW b \in KeysOf(2)
  PROVE  SortsBefore(a, b) <=>
           \/ ColumnBefore(a[1], b[1]) /\ a[1] # b[1]
           \/ a[1] = b[1] /\ ColumnBefore(a[2], b[2]) /\ a[2] # b[2]
<1> DEFINE c1 == CompareColumn(a[1], b[1])
           c2 == CompareColumn(a[2], b[2])
<1>1. DOMAIN a = {1, 2} /\ a[1] \in Nat /\ b[1] \in Nat /\ a[2] \in Nat /\ b[2] \in Nat
  BY DEF KeysOf
<1>2. 1..(1-1) = {} /\ 1..(2-1) = {1}
  OBVIOUS
<1>3. FirstDiff(a, b) \subseteq {1, 2}
  BY <1>1 DEF FirstDiff
<1>4. 1 \in FirstDiff(a, b) <=> c1 # 0
  BY <1>1, <1>2 DEF FirstDiff
<1>5. 2 \in FirstDiff(a, b) <=> c2 # 0 /\ c1 = 0
  BY <1>1, <1>2 DEF FirstDiff
<1>6. SortsBefore(a, b) <=> (c1 # 0 /\ c1 < 0) \/ (c2 # 0 /\ c1 = 0 /\ c2 < 0)
  <2>1. SortsBefore(a, b) <=>
          (1 \in FirstDiff(a, b) /\ c1 < 0) \/ (2 \in FirstDiff(a, b) /\ c2 < 0)
    <3>1. ASSUME NEW i \in FirstDiff(a, b), CompareColumn(a[i], b[i]) < 0
          PROVE  (1 \in FirstDiff(a, b) /\ c1 < 0) \/ (2 \in FirstDiff(a, b) /\ c2 < 0)
      <4>1. i = 1 \/ i = 2
        BY <1>3
      <4> QED BY <3>1, <4>1
    <3> QED BY <3>1 DEF SortsBefore
  <2> HIDE DEF c1, c2
  <2> QED BY <2>1, <1>4, <1>5
<1>7. /\ c1 = 0 <=> a[1] = b[1]
      /\ c1 < 0 <=> ColumnBefore(a[1], b[1]) /\ a[1] # b[1]
  BY <1>1, ColumnsCompared, Zenon
<1>8. /\ c2 = 0 <=> a[2] = b[2]
      /\ c2 < 0 <=> ColumnBefore(a[2], b[2]) /\ a[2] # b[2]
  BY <1>1, ColumnsCompared, Zenon
<1> HIDE DEF c1, c2
<1>9. SortsBefore(a, b) <=> (c1 < 0 /\ ~(c1 = 0)) \/ (c2 < 0 /\ ~(c2 = 0) /\ c1 = 0)
  BY <1>6, Zenon
<1> QED BY <1>7, <1>8, <1>9, Zenon

\* Two keys that agree in every column are the same key.
LEMMA SameKey ==
  ASSUME NEW W \in {1, 2}, NEW a \in KeysOf(W), NEW b \in KeysOf(W)
  PROVE  a = b <=> a[1] = b[1] /\ (W = 2 => a[2] = b[2])
<1>1. (\A i \in 1..W : a[i] = b[i]) => a = b
  <2>1. a \in [1..W -> Nat] /\ b \in [1..W -> Nat]
    BY DEF KeysOf
  <2>2. a = [i \in 1..W |-> a[i]] /\ b = [i \in 1..W |-> b[i]]
    BY <2>1
  <2> QED BY <2>2
<1>2. \A i \in 1..W : i = 1 \/ (i = 2 /\ W = 2)
  <2>1. CASE W = 1
    BY <2>1
  <2>2. CASE W = 2
    BY <2>2
  <2> QED BY <2>1, <2>2
<1>3. 1 \in 1..W /\ (W = 2 => 2 \in 1..W)
  OBVIOUS
<1> QED BY <1>1, <1>2, <1>3

\* The sort's order is a strict total order of the keys.
LEMMA SortIsTotal ==
  ASSUME NEW W \in {1, 2}, NEW a \in KeysOf(W), NEW b \in KeysOf(W), NEW c \in KeysOf(W)
  PROVE  /\ ~SortsBefore(a, a)
         /\ ~(SortsBefore(a, b) /\ SortsBefore(b, a))
         /\ SortsBefore(a, b) /\ SortsBefore(b, c) => SortsBefore(a, c)
         /\ a = b \/ SortsBefore(a, b) \/ SortsBefore(b, a)
<1>1. CASE W = 1
  <2>1. a \in KeysOf(1) /\ b \in KeysOf(1) /\ c \in KeysOf(1)
    BY <1>1
  <2>2. a[1] \in Nat /\ b[1] \in Nat /\ c[1] \in Nat
    BY <2>1 DEF KeysOf
  <2>3. /\ SortsBefore(a, a) <=> ColumnBefore(a[1], a[1]) /\ a[1] # a[1]
        /\ SortsBefore(a, b) <=> ColumnBefore(a[1], b[1]) /\ a[1] # b[1]
        /\ SortsBefore(b, a) <=> ColumnBefore(b[1], a[1]) /\ b[1] # a[1]
        /\ SortsBefore(b, c) <=> ColumnBefore(b[1], c[1]) /\ b[1] # c[1]
        /\ SortsBefore(a, c) <=> ColumnBefore(a[1], c[1]) /\ a[1] # c[1]
    BY <2>1, SortsOne
  <2>4. a = b <=> a[1] = b[1]
    BY <1>1, SameKey
  <2> QED BY <2>2, <2>3, <2>4 DEF ColumnBefore, Null
<1>2. CASE W = 2
  <2>1. a \in KeysOf(2) /\ b \in KeysOf(2) /\ c \in KeysOf(2)
    BY <1>2
  <2>2. /\ a[1] \in Nat /\ b[1] \in Nat /\ c[1] \in Nat
        /\ a[2] \in Nat /\ b[2] \in Nat /\ c[2] \in Nat
    <3>1. 1 \in 1..2 /\ 2 \in 1..2
      OBVIOUS
    <3> QED BY <2>1, <3>1 DEF KeysOf
  <2> DEFINE Two(x, y) == \/ ColumnBefore(x[1], y[1]) /\ x[1] # y[1]
                          \/ x[1] = y[1] /\ ColumnBefore(x[2], y[2]) /\ x[2] # y[2]
  <2>3. /\ (SortsBefore(a, a) <=> Two(a, a)) /\ (SortsBefore(a, b) <=> Two(a, b))
        /\ (SortsBefore(b, a) <=> Two(b, a)) /\ (SortsBefore(b, c) <=> Two(b, c))
        /\ SortsBefore(a, c) <=> Two(a, c)
    <3>1. (SortsBefore(a, a) <=> Two(a, a)) /\ (SortsBefore(a, b) <=> Two(a, b))
      BY <2>1, SortsTwo
    <3>2. (SortsBefore(b, a) <=> Two(b, a)) /\ (SortsBefore(b, c) <=> Two(b, c))
      BY <2>1, SortsTwo
    <3>3. SortsBefore(a, c) <=> Two(a, c)
      BY <2>1, SortsTwo
    <3> HIDE DEF Two
    <3> QED BY <3>1, <3>2, <3>3
  <2>4. a = b <=> a[1] = b[1] /\ a[2] = b[2]
    BY <1>2, SameKey
  <2>5. ~Two(a, a) /\ ~(Two(a, b) /\ Two(b, a))
    BY <2>2 DEF ColumnBefore, Null
  <2>6. Two(a, b) /\ Two(b, c) => Two(a, c)
    BY <2>2 DEF ColumnBefore, Null
  <2>7. a = b \/ Two(a, b) \/ Two(b, a)
    BY <2>2, <2>4 DEF ColumnBefore, Null
  <2> HIDE DEF Two
  <2> QED BY <2>3, <2>5, <2>6, <2>7
<1> QED BY <1>1, <1>2

\* A record against a query of one column ...
LEMMA ComparedOne ==
  ASSUME NEW rec, NEW q, IsQuery(q, 1)
  PROVE  KeyCompare(rec, q) =
           IF rec.key[1] = q[1] THEN 0
           ELSE IF rec.key[1] # Null /\ rec.key[1] > q[1] THEN 1 ELSE -1
<1>1. DOMAIN q = {1}
  BY DEF IsQuery
<1>2. CASE rec.key[1] = q[1]
  BY <1>1, <1>2 DEF KeyCompare
<1>3. CASE rec.key[1] # q[1]
  <2> DEFINE First(n) == rec.key[n] # q[n] /\ \A j \in 1..(n-1) : ~(rec.key[j] # q[j])
  <2>1. First(1)
    BY <1>3
  <2>2. (CHOOSE n \in {1} : First(n)) = 1
    BY <2>1
  <2>3. ~(\A i \in DOMAIN q : ~(rec.key[i] # q[i]))
    BY <1>1, <1>3
  <2> QED BY <1>1, <1>3, <2>2, <2>3 DEF KeyCompare
<1> QED BY <1>2, <1>3

\* ... and of two, of which the first that differs decides.
LEMMA ComparedTwo ==
  ASSUME NEW rec, NEW q, IsQuery(q, 2)
  PROVE  KeyCompare(rec, q) =
           IF rec.key[1] # q[1]
             THEN IF rec.key[1] # Null /\ rec.key[1] > q[1] THEN 1 ELSE -1
           ELSE IF rec.key[2] = q[2] THEN 0
           ELSE IF rec.key[2] # Null /\ rec.key[2] > q[2] THEN 1 ELSE -1
<1>1. DOMAIN q = {1, 2}
  BY DEF IsQuery
<1> DEFINE First(n) == rec.key[n] # q[n] /\ \A j \in 1..(n-1) : ~(rec.key[j] # q[j])
<1>2. CASE rec.key[1] = q[1] /\ rec.key[2] = q[2]
  BY <1>1, <1>2 DEF KeyCompare
<1>3. CASE rec.key[1] # q[1]
  <2>1. First(1) /\ ~First(2)
    BY <1>3
  <2>2. (CHOOSE n \in {1, 2} : First(n)) = 1
    BY <2>1
  <2>3. ~(\A i \in DOMAIN q : ~(rec.key[i] # q[i]))
    BY <1>1, <1>3
  <2> QED BY <1>1, <1>3, <2>2, <2>3 DEF KeyCompare
<1>4. CASE rec.key[1] = q[1] /\ rec.key[2] # q[2]
  <2>1. ~First(1) /\ First(2)
    BY <1>4
  <2>2. (CHOOSE n \in {1, 2} : First(n)) = 2
    BY <2>1
  <2>3. ~(\A i \in DOMAIN q : ~(rec.key[i] # q[i]))
    BY <1>1, <1>4
  <2> QED BY <1>1, <1>4, <2>2, <2>3 DEF KeyCompare
<1> QED BY <1>2, <1>3, <1>4

\* What a comparison with a query says of the keys that match the query: they
\* come before a record that is above it, and after one that is below it unless
\* the record has an unset column.
LEMMA Compared ==
  ASSUME NEW W \in {1, 2}, NEW m \in {1, 2}, m <= W, NEW rec \in Rec(W),
         NEW q, IsQuery(q, m)
  PROVE  /\ KeyCompare(rec, q) \in {-1, 0, 1}
         /\ KeyCompare(rec, q) = 0 <=> Agrees(rec.key, q)
         /\ \A k \in KeysOf(W) : Agrees(k, q) =>
              /\ KeyCompare(rec, q) = 1 => SortsBefore(k, rec.key)
              /\ KeyCompare(rec, q) = -1 /\ ~Unset(rec.key) => SortsBefore(rec.key, k)
<1>0. rec.key \in KeysOf(W)
  BY DEF Rec
<1>1. CASE W = 1 /\ m = 1
  <2>1. DOMAIN q = {1} /\ q[1] \in Nat \ {Null} /\ IsQuery(q, 1)
    BY <1>1 DEF IsQuery
  <2>2. \A k : Agrees(k, q) <=> k[1] = q[1]
    BY <2>1 DEF Agrees
  <2>3. rec.key \in KeysOf(1) /\ rec.key[1] \in Nat /\ DOMAIN rec.key = {1}
    BY <1>0, <1>1 DEF KeysOf
  <2>4. Unset(rec.key) <=> rec.key[1] = Null
    BY <2>3 DEF Unset
  <2>5. KeyCompare(rec, q) = IF rec.key[1] = q[1] THEN 0
                             ELSE IF rec.key[1] # Null /\ rec.key[1] > q[1] THEN 1 ELSE -1
    BY <2>1, ComparedOne
  <2>6. ASSUME NEW k \in KeysOf(W), Agrees(k, q)
        PROVE  /\ KeyCompare(rec, q) = 1 => SortsBefore(k, rec.key)
               /\ KeyCompare(rec, q) = -1 /\ ~Unset(rec.key) => SortsBefore(rec.key, k)
    <3>1. k \in KeysOf(1) /\ k[1] = q[1]
      BY <1>1, <2>2, <2>6
    <3>2. /\ SortsBefore(k, rec.key) <=> ColumnBefore(k[1], rec.key[1]) /\ k[1] # rec.key[1]
          /\ SortsBefore(rec.key, k) <=> ColumnBefore(rec.key[1], k[1]) /\ k[1] # rec.key[1]
      BY <2>3, <3>1, SortsOne
    <3> QED BY <2>1, <2>3, <2>4, <2>5, <3>1, <3>2 DEF ColumnBefore, Null
  <2> QED BY <2>2, <2>5, <2>6
<1>2. CASE W = 2 /\ m = 1
  <2>1. DOMAIN q = {1} /\ q[1] \in Nat \ {Null} /\ IsQuery(q, 1)
    BY <1>2 DEF IsQuery
  <2>2. \A k : Agrees(k, q) <=> k[1] = q[1]
    BY <2>1 DEF Agrees
  <2>3. rec.key \in KeysOf(2) /\ rec.key[1] \in Nat /\ DOMAIN rec.key = {1, 2}
    <3>1. rec.key \in [1..2 -> Nat] /\ 1 \in 1..2 /\ 1..2 = {1, 2}
      BY <1>0, <1>2 DEF KeysOf
    <3> QED BY <3>1 DEF KeysOf
  <2>4. ~Unset(rec.key) => rec.key[1] # Null
    BY <2>3 DEF Unset
  <2>5. KeyCompare(rec, q) = IF rec.key[1] = q[1] THEN 0
                             ELSE IF rec.key[1] # Null /\ rec.key[1] > q[1] THEN 1 ELSE -1
    BY <2>1, ComparedOne
  <2>6. ASSUME NEW k \in KeysOf(W), Agrees(k, q)
        PROVE  /\ KeyCompare(rec, q) = 1 => SortsBefore(k, rec.key)
               /\ KeyCompare(rec, q) = -1 /\ ~Unset(rec.key) => SortsBefore(rec.key, k)
    <3>1. k \in KeysOf(2) /\ k[1] = q[1]
      BY <1>2, <2>2, <2>6
    <3>2. /\ ColumnBefore(k[1], rec.key[1]) /\ k[1] # rec.key[1] => SortsBefore(k, rec.key)
          /\ ColumnBefore(rec.key[1], k[1]) /\ k[1] # rec.key[1] => SortsBefore(rec.key, k)
      BY <2>3, <3>1, SortsTwo
    <3> QED BY <2>1, <2>3, <2>4, <2>5, <3>1, <3>2 DEF ColumnBefore, Null
  <2> QED BY <2>2, <2>5, <2>6
<1>3. CASE W = 2 /\ m = 2
  <2>1. /\ DOMAIN q = {1, 2} /\ IsQuery(q, 2)
        /\ q[1] \in Nat \ {Null} /\ q[2] \in Nat \ {Null}
    <3>1. q \in [1..2 -> Nat \ {Null}] /\ 1 \in 1..2 /\ 2 \in 1..2 /\ 1..2 = {1, 2}
      BY <1>3 DEF IsQuery
    <3> QED BY <3>1 DEF IsQuery
  <2>2. \A k : Agrees(k, q) <=> k[1] = q[1] /\ k[2] = q[2]
    BY <2>1 DEF Agrees
  <2>3. /\ rec.key \in KeysOf(2) /\ DOMAIN rec.key = {1, 2}
        /\ rec.key[1] \in Nat /\ rec.key[2] \in Nat
    <3>1. rec.key \in [1..2 -> Nat] /\ 1 \in 1..2 /\ 2 \in 1..2 /\ 1..2 = {1, 2}
      BY <1>0, <1>3 DEF KeysOf
    <3> QED BY <3>1 DEF KeysOf
  <2>4. ~Unset(rec.key) => rec.key[1] # Null /\ rec.key[2] # Null
    BY <2>3 DEF Unset
  <2>5. KeyCompare(rec, q) =
          IF rec.key[1] # q[1]
            THEN IF rec.key[1] # Null /\ rec.key[1] > q[1] THEN 1 ELSE -1
          ELSE IF rec.key[2] = q[2] THEN 0
          ELSE IF rec.key[2] # Null /\ rec.key[2] > q[2] THEN 1 ELSE -1
    BY <2>1, ComparedTwo
  <2>6. ASSUME NEW k \in KeysOf(W), Agrees(k, q)
        PROVE  /\ KeyCompare(rec, q) = 1 => SortsBefore(k, rec.key)
               /\ KeyCompare(rec, q) = -1 /\ ~Unset(rec.key) => SortsBefore(rec.key, k)
    <3>1. k \in KeysOf(2) /\ k[1] = q[1] /\ k[2] = q[2]
      BY <1>3, <2>2, <2>6
    <3>2. SortsBefore(k, rec.key) <=>
            \/ ColumnBefore(k[1], rec.key[1]) /\ k[1] # rec.key[1]
            \/ k[1] = rec.key[1] /\ ColumnBefore(k[2], rec.key[2]) /\ k[2] # rec.key[2]
      BY <2>3, <3>1, SortsTwo
    <3>3. SortsBefore(rec.key, k) <=>
            \/ ColumnBefore(rec.key[1], k[1]) /\ rec.key[1] # k[1]
            \/ rec.key[1] = k[1] /\ ColumnBefore(rec.key[2], k[2]) /\ rec.key[2] # k[2]
      BY <2>3, <3>1, SortsTwo
    <3> QED BY <2>1, <2>3, <2>4, <2>5, <3>1, <3>2, <3>3 DEF ColumnBefore, Null
  <2> QED BY <2>2, <2>5, <2>6
<1> QED BY <1>1, <1>2, <1>3

\* Only the key of a record is compared.
LEMMA ComparedByKey ==
  ASSUME NEW r, NEW s, NEW q, r.key = s.key
  PROVE  KeyCompare(r, q) = KeyCompare(s, q)
  BY DEF KeyCompare

\* A query of every column is a key, the only one that matches it.
LEMMA WholeQuery ==
  ASSUME NEW W \in {1, 2}, NEW q, IsQuery(q, W)
  PROVE  /\ q \in KeysOf(W) /\ Agrees(q, q) /\ ~Unset(q)
         /\ \A k \in KeysOf(W) : Agrees(k, q) => k = q
<1>1. q \in [1..W -> Nat \ {Null}]
  BY DEF IsQuery
<1>2. q \in KeysOf(W) /\ DOMAIN q = 1..W /\ \A i \in 1..W : q[i] # Null
  BY <1>1 DEF KeysOf
<1>3. ASSUME NEW k \in KeysOf(W), Agrees(k, q)
      PROVE  k = q
  <2>1. k = [i \in 1..W |-> k[i]] /\ q = [i \in 1..W |-> q[i]]
    BY <1>1 DEF KeysOf
  <2>2. \A i \in 1..W : k[i] = q[i]
    BY <1>2, <1>3 DEF Agrees
  <2> QED BY <2>1, <2>2
<1> QED BY <1>2, <1>3 DEF Agrees, Unset

-----------------------------------------------------------------------------
(***************************************************************************)
(* What the rule gives to the index writer                                 *)
(***************************************************************************)
\* How many keys of K come before k.
Rank(K, k) == Cardinality({x \in K : SortsBefore(x, k)})

\* The keys of K, each once and in order.
Sorted(K, ks) ==
  /\ \A i \in DOMAIN ks : ks[i] \in K
  /\ \A k \in K : \E i \in DOMAIN ks : ks[i] = k
  /\ \A i, j \in DOMAIN ks : i < j => SortsBefore(ks[i], ks[j])

\* Keys are ranked by the sort's order, from 0 on and without a gap.
LEMMA Ranks ==
  ASSUME NEW W \in {1, 2}, NEW K, K \subseteq KeysOf(W), IsFiniteSet(K)
  PROVE  /\ Cardinality(K) \in Nat
         /\ \A k \in K : Rank(K, k) \in 0..(Cardinality(K) - 1)
         /\ \A a, b \in K : SortsBefore(a, b) => Rank(K, a) < Rank(K, b)
         /\ \A i \in 1..Cardinality(K) : \E k \in K : Rank(K, k) = i - 1
<1> DEFINE n == Cardinality(K)
           B(k) == {x \in K : SortsBefore(x, k)}
<1>1. n \in Nat
  BY FS_CardinalityType
<1>2. ASSUME NEW k \in K
      PROVE  IsFiniteSet(B(k)) /\ Rank(K, k) = Cardinality(B(k)) /\ Rank(K, k) \in Nat
  <2>1. B(k) \in SUBSET K
    OBVIOUS
  <2>2. IsFiniteSet(B(k)) /\ Cardinality(B(k)) \in Nat
    BY <2>1, FS_Subset, FS_CardinalityType, Zenon
  <2> QED BY <2>2 DEF Rank
<1>3. ASSUME NEW k \in K
      PROVE  Rank(K, k) < n
  <2>1. B(k) \in SUBSET K /\ k \notin B(k)
    BY SortIsTotal
  <2>2. B(k) # K
    BY <2>1
  <2>3. Cardinality(B(k)) <= n /\ Cardinality(B(k)) # n
    BY <2>1, <2>2, FS_Subset, Zenon
  <2> HIDE DEF n, B
  <2> QED BY <1>1, <1>2, <2>3
<1>4. ASSUME NEW a \in K, NEW b \in K, SortsBefore(a, b)
      PROVE  Rank(K, a) < Rank(K, b)
  <2>1. B(a) \in SUBSET B(b) /\ a \in B(b) /\ a \notin B(a)
    <3>1. a \in KeysOf(W) /\ b \in KeysOf(W)
      OBVIOUS
    <3>2. \A x \in K : SortsBefore(x, a) => SortsBefore(x, b)
      BY <1>4, <3>1, SortIsTotal
    <3> QED BY <1>4, <3>1, <3>2, SortIsTotal
  <2>2. B(a) # B(b)
    BY <2>1
  <2>3. Cardinality(B(a)) <= Cardinality(B(b)) /\ Cardinality(B(a)) # Cardinality(B(b))
    BY <1>2, <2>1, <2>2, FS_Subset, Zenon
  <2> HIDE DEF B
  <2> QED BY <1>2, <2>3
<1>5. ASSUME NEW i \in 1..n
      PROVE  \E k \in K : Rank(K, k) = i - 1
  <2> DEFINE f == [k \in K |-> Rank(K, k) + 1]
  <2>1. f \in [K -> 1..n]
    <3>1. ASSUME NEW k \in K PROVE Rank(K, k) + 1 \in 1..n
      <4>1. Rank(K, k) \in Nat /\ Rank(K, k) < n
        BY <1>2, <1>3, Zenon
      <4> HIDE DEF n
      <4> QED BY <1>1, <4>1
    <3> QED BY <3>1
  <2>2. ASSUME NEW a \in K, NEW b \in K, f[a] = f[b]
        PROVE  a = b
    <3>1. Rank(K, a) = Rank(K, b) /\ Rank(K, a) \in Nat
      <4>1. Rank(K, a) + 1 = Rank(K, b) + 1
        BY <2>2
      <4>2. Rank(K, a) \in Nat /\ Rank(K, b) \in Nat
        BY <1>2, Zenon
      <4> QED BY <4>1, <4>2
    <3>2. ~SortsBefore(a, b) /\ ~SortsBefore(b, a)
      BY <1>4, <3>1
    <3> QED BY <3>2, SortIsTotal
  <2>3. f \in Injection(K, 1..n)
    <3> HIDE DEF f, n
    <3> QED BY <2>1, <2>2, Zenon DEF Injection, IsInjective
  <2>4. IsFiniteSet(1..n) /\ Cardinality(1..n) = n
    <3>1. 1 \in Int /\ n \in Int /\ (IF 1 > n THEN 0 ELSE n - 1 + 1) = n
      <4> HIDE DEF n
      <4> QED BY <1>1
    <3> QED BY <3>1, FS_Interval, Zenon
  <2>5. f \in Surjection(K, 1..n)
    <3> HIDE DEF f
    <3> QED BY <2>3, <2>4, FS_Injection
  <2>6. PICK k \in K : f[k] = i
    <3> HIDE DEF f, n
    <3> QED BY <2>5, Zenon DEF Surjection
  <2>7. Rank(K, k) + 1 = i
    BY <2>6
  <2>8. Rank(K, k) \in Nat /\ i \in Int
    <3>1. Rank(K, k) \in Nat
      BY <1>2, Zenon
    <3>2. i \in Int
      <4> HIDE DEF n
      <4> QED BY <1>1
    <3> QED BY <3>1, <3>2
  <2> QED BY <2>7, <2>8
<1>6. ASSUME NEW k \in K
      PROVE  Rank(K, k) \in 0..(n - 1)
  <2>1. Rank(K, k) \in Nat /\ Rank(K, k) < n
    BY <1>2, <1>3, Zenon
  <2> HIDE DEF n
  <2> QED BY <1>1, <2>1
<1> QED BY <1>1, <1>4, <1>5, <1>6

\* The sequence that picks a key for each rank has the keys in order.
LEMMA RankedIsSorted ==
  ASSUME NEW W \in {1, 2}, NEW K, K \subseteq KeysOf(W), IsFiniteSet(K)
  PROVE  Sorted(K, [i \in 1..Cardinality(K) |-> CHOOSE k \in K : Rank(K, k) = i - 1])
<1> DEFINE n == Cardinality(K)
           ks == [i \in 1..n |-> CHOOSE k \in K : Rank(K, k) = i - 1]
<1>1. /\ n \in Nat
      /\ \A k \in K : Rank(K, k) \in 0..(n - 1)
      /\ \A a, b \in K : SortsBefore(a, b) => Rank(K, a) < Rank(K, b)
      /\ \A i \in 1..n : \E k \in K : Rank(K, k) = i - 1
  BY Ranks
<1>2. ASSUME NEW i \in 1..n
      PROVE  ks[i] \in K /\ Rank(K, ks[i]) = i - 1
  <2>1. \E k \in K : Rank(K, k) = i - 1
    BY <1>1
  <2> QED BY <2>1
<1>3. DOMAIN ks = 1..n
  OBVIOUS
<1> HIDE DEF ks, n
<1>4. ASSUME NEW a \in K, NEW b \in K, Rank(K, a) = Rank(K, b)
      PROVE  a = b
  <2>1. ~SortsBefore(a, b) /\ ~SortsBefore(b, a)
    BY <1>1, <1>4
  <2> QED BY <2>1, SortIsTotal
<1>5. ASSUME NEW k \in K
      PROVE  \E i \in 1..n : ks[i] = k
  <2>1. Rank(K, k) + 1 \in 1..n /\ (Rank(K, k) + 1) - 1 = Rank(K, k)
    BY <1>1
  <2>2. ks[Rank(K, k) + 1] = k
    BY <1>2, <1>4, <2>1
  <2> QED BY <2>1, <2>2
<1>6. ASSUME NEW i \in 1..n, NEW j \in 1..n, i < j
      PROVE  SortsBefore(ks[i], ks[j])
  <2>1. Rank(K, ks[i]) = i - 1 /\ Rank(K, ks[j]) = j - 1 /\ ks[i] \in K /\ ks[j] \in K
    BY <1>2
  <2>2. Rank(K, ks[i]) < Rank(K, ks[j])
    BY <1>1, <1>6, <2>1
  <2>3. ks[i] # ks[j] /\ ~SortsBefore(ks[j], ks[i])
    BY <1>1, <2>1, <2>2
  <2> QED BY <2>1, <2>3, SortIsTotal
<1>7. Sorted(K, ks)
  BY <1>2, <1>3, <1>5, <1>6 DEF Sorted
<1> QED BY <1>7 DEF ks, n

\* The contents and the rule as they are from the start.
Setting == content \in Contents /\ rule \in {"field", "zql"}

\* The rule yields keys of its own width, finitely many of them.
LEMMA RuleKeyTypes ==
  ASSUME Setting, NEW c \in Chunks
  PROVE  /\ Width \in {1, 2}
         /\ RuleKeys(c) \subseteq KeysOf(Width)
         /\ IsFiniteSet(RuleKeys(c))
<1>1. content[c] \subseteq Nat \X Nat /\ IsFiniteSet(content[c])
  BY MicroindexAssumption DEF Setting
<1>2. CASE rule = "field"
  <2> DEFINE D == {x \in content[c] : x[1] # Null}
             f == [k \in D |-> <<k[1]>>]
  <2>1. RuleKeys(c) = {<<k[1]>> : k \in D} /\ Width = 1
    BY <1>2 DEF RuleKeys, Width
  <2>2. \A k \in D : <<k[1]>> \in KeysOf(1)
    BY <1>1 DEF KeysOf
  <2>3. D \in SUBSET content[c]
    OBVIOUS
  <2>4. IsFiniteSet(D)
    <3> HIDE DEF D
    <3> QED BY <1>1, <2>3, FS_Subset
  <2>5. f \in Surjection(D, RuleKeys(c))
    <3> HIDE DEF D
    <3> QED BY <2>1 DEF Surjection
  <2>6. IsFiniteSet(RuleKeys(c))
    <3> HIDE DEF D, f
    <3> QED BY <2>4, <2>5, FS_Surjection
  <2>7. RuleKeys(c) \subseteq KeysOf(1)
    <3> HIDE DEF D
    <3> QED BY <2>1, <2>2
  <2> QED BY <2>1, <2>6, <2>7
<1>3. CASE rule = "zql"
  <2>1. RuleKeys(c) = content[c] /\ Width = 2
    BY <1>3 DEF RuleKeys, Width
  <2>2. Nat \X Nat \subseteq KeysOf(2)
    BY DEF KeysOf
  <2> QED BY <1>1, <2>1, <2>2
<1> QED BY <1>2, <1>3 DEF Setting

\* The index writer is given every key of the chunk once, in the sort's order.
LEMMA IndexKeysSorted ==
  ASSUME Setting, NEW c \in Chunks
  PROVE  /\ Sorted(RuleKeys(c), IndexKeys(c))
         /\ IndexKeys(c) \in Seq(KeysOf(Width))
<1> DEFINE K == RuleKeys(c)
           n == Cardinality(K)
           ks == [i \in 1..n |-> CHOOSE k \in K : Rank(K, k) = i - 1]
<1>1. Width \in {1, 2} /\ K \subseteq KeysOf(Width) /\ IsFiniteSet(K)
  BY RuleKeyTypes
<1>2. IndexKeys(c) = ks
  BY DEF IndexKeys, Rank
<1>3. n \in Nat
  BY <1>1, FS_CardinalityType
<1>4. Sorted(K, ks)
  <2> HIDE DEF K
  <2> QED BY <1>1, RankedIsSorted
<1>5. \A i \in 1..n : ks[i] \in KeysOf(Width)
  <2>1. DOMAIN ks = 1..n
    OBVIOUS
  <2> HIDE DEF K, ks, n
  <2> QED BY <1>1, <1>4, <2>1 DEF Sorted
<1>6. ks \in Seq(KeysOf(Width))
  <2>1. ks = [i \in 1..n |-> ks[i]]
    OBVIOUS
  <2> HIDE DEF K, ks, n
  <2>2. [i \in 1..n |-> ks[i]] \in [1..n -> KeysOf(Width)]
    BY <1>5
  <2>3. ks \in [1..n -> KeysOf(Width)]
    BY <2>1, <2>2
  <2> QED BY <1>3, <2>3, SeqDef, Zenon
<1> HIDE DEF ks
<1> QED BY <1>2, <1>4, <1>6

\* What a search asks for: as many columns as the rule has, or only the first.
LEMMA QueryTypes ==
  ASSUME Setting, NEW q \in Queries
  PROVE  /\ Len(q) \in {1, 2} /\ Len(q) <= Width /\ IsQuery(q, Len(q))
         /\ q \in FullQueries <=> Len(q) = Width
<1>1. Columns \subseteq Nat \ {Null}
  BY MicroindexAssumption
<1>2. ASSUME NEW a \in Columns, q = <<a>>
      PROVE  Len(q) = 1 /\ IsQuery(q, 1)
  BY <1>1, <1>2 DEF IsQuery
<1>3. ASSUME NEW a \in Columns, NEW b \in Columns, q = <<a, b>>
      PROVE  Len(q) = 2 /\ IsQuery(q, 2)
  BY <1>1, <1>3 DEF IsQuery
<1>4. \/ \E a \in Columns : q = <<a>>
      \/ rule = "zql" /\ \E a \in Columns, b \in Columns : q = <<a, b>>
  BY DEF Queries, Setting
<1>5. q \in FullQueries <=> Len(q) = Width
  BY DEF FullQueries
<1>6. (rule = "field" => Width = 1) /\ (rule = "zql" => Width = 2)
  BY DEF Width
<1>7. CASE \E a \in Columns : q = <<a>>
  <2>1. Len(q) = 1 /\ IsQuery(q, 1)
    BY <1>2, <1>7
  <2> QED BY <1>5, <1>6, <2>1 DEF Setting
<1>8. CASE rule = "zql" /\ \E a \in Columns, b \in Columns : q = <<a, b>>
  <2>1. Len(q) = 2 /\ IsQuery(q, 2)
    BY <1>3, <1>8
  <2> QED BY <1>5, <1>6, <1>8, <2>1
<1> QED BY <1>4, <1>7, <1>8

-----------------------------------------------------------------------------
(***************************************************************************)
(* The layers of the writer                                                *)
(***************************************************************************)
Layer(W) == [recs : Seq(Rec(W)), frameStart : Nat, frameEnd : Nat, frameKey : KeysOf(W)]

\* A frame of a layer begins at a record, whose key it remembers.
Framed(l) ==
  /\ l.frameStart < Len(l.recs)
  /\ l.frameKey = l.recs[l.frameStart + 1].key

\* A record of an upper layer points to one of the same key in the layer below.
Points(r, below) == r.child < Len(below) /\ below[r.child + 1].key = r.key

\* The layers of a writer: linked as above, all of the same first key, and the
\* top one still within its first frame.
LayersInv(W, ls) ==
  /\ ls \in Seq(Layer(W))
  /\ \A k \in 1..Len(ls) : Framed(ls[k])
  /\ \A k \in 1..(Len(ls) - 1) : \A i \in 1..Len(ls[k + 1].recs) :
       Points(ls[k + 1].recs[i], ls[k].recs)
  /\ \A k \in 1..Len(ls) : ls[k].recs[1].key = ls[1].recs[1].key
  /\ Len(ls) > 0 => ls[Len(ls)].frameStart = 0

\* A record is never without a key.
LEMMA KeyIsSomething ==
  ASSUME NEW W \in {1, 2}, NEW k \in KeysOf(W)
  PROVE  k # NoFrameKey
<1>1. DOMAIN k = 1..W /\ 1 \in 1..W
  BY DEF KeysOf
<1>2. DOMAIN <<>> = {}
  OBVIOUS
<1> QED BY <1>1, <1>2 DEF NoFrameKey

\* What is appended to a sequence comes last, and the rest stays.
LEMMA Appended ==
  ASSUME NEW S, NEW s \in Seq(S), NEW x \in S
  PROVE  /\ Append(s, x) \in Seq(S)
         /\ Len(Append(s, x)) = Len(s) + 1 /\ Len(s) \in Nat
         /\ Append(s, x)[Len(s) + 1] = x
         /\ \A i \in 1..Len(s) : Append(s, x)[i] = s[i]
  OBVIOUS

\* What indexWriter.write makes of a layer whose frame it has ended or not.
LEMMA LayerWritten ==
  ASSUME NEW layer, NEW rec, NEW rs, NEW fs, NEW fe, NEW fk,
         EndFrame(layer) = [recs |-> rs, frameStart |-> fs, frameEnd |-> fe, frameKey |-> fk]
  PROVE  WriteLayer(layer, rec) =
           [recs |-> Append(rs, rec), frameStart |-> fs, frameEnd |-> fe,
            frameKey |-> IF fk = NoFrameKey THEN rec.key ELSE fk]
<1> DEFINE l == EndFrame(layer)
<1>1. WriteLayer(layer, rec) =
        [l EXCEPT !.recs = Append(l.recs, rec),
                  !.frameKey = IF l.frameKey = NoFrameKey THEN rec.key ELSE l.frameKey]
  BY DEF WriteLayer
<1>2. l.recs = rs /\ l.frameKey = fk
  OBVIOUS
<1>3. WriteLayer(layer, rec) =
        [l EXCEPT !.recs = Append(rs, rec),
                  !.frameKey = IF fk = NoFrameKey THEN rec.key ELSE fk]
  <2> HIDE DEF l
  <2> QED BY <1>1, <1>2
<1>4. l = [recs |-> rs, frameStart |-> fs, frameEnd |-> fe, frameKey |-> fk]
  OBVIOUS
<1> HIDE DEF l
<1> QED BY <1>3, <1>4

\* The first record of a layer begins its first frame.
LEMMA WriteNew ==
  ASSUME thresh \in Nat, NEW W \in {1, 2}, NEW rec \in Rec(W)
  PROVE  /\ WriteLayer(NewLayer, rec) \in Layer(W)
         /\ Framed(WriteLayer(NewLayer, rec))
         /\ WriteLayer(NewLayer, rec).recs = <<rec>>
         /\ WriteLayer(NewLayer, rec).frameStart = 0
<1> DEFINE r == [recs |-> <<rec>>, frameStart |-> 0, frameEnd |-> thresh, frameKey |-> rec.key]
<1>1. EndFrame(NewLayer) = NewLayer
  BY DEF EndFrame, FrameFull, NewLayer
<1>2. WriteLayer(NewLayer, rec) = r
  <2> DEFINE none == <<>>
  <2>1. EndFrame(NewLayer) = [recs |-> none, frameStart |-> 0, frameEnd |-> thresh,
                              frameKey |-> NoFrameKey]
    BY <1>1 DEF NewLayer
  <2>2. Append(none, rec) = <<rec>>
    OBVIOUS
  <2> HIDE DEF none
  <2>3. WriteLayer(NewLayer, rec) =
          [recs |-> Append(none, rec), frameStart |-> 0, frameEnd |-> thresh,
           frameKey |-> IF NoFrameKey = NoFrameKey THEN rec.key ELSE NoFrameKey]
    BY <2>1, LayerWritten
  <2> QED BY <2>2, <2>3
<1>3. <<rec>> \in Seq(Rec(W)) /\ rec.key \in KeysOf(W) /\ 0 \in Nat
  BY DEF Rec
<1>4. r \in Layer(W)
  BY <1>3 DEF Layer
<1>5. Framed(r)
  BY DEF Framed
<1>6. r.recs = <<rec>> /\ r.frameStart = 0
  OBVIOUS
<1> HIDE DEF r
<1> QED BY <1>2, <1>4, <1>5, <1>6

\* A later record goes on with the frame or, when it is full, begins the next.
LEMMA WriteMore ==
  ASSUME thresh \in Nat, NEW W \in {1, 2}, NEW rec \in Rec(W),
         NEW l \in Layer(W), Framed(l)
  PROVE  /\ WriteLayer(l, rec) \in Layer(W)
         /\ Framed(WriteLayer(l, rec))
         /\ WriteLayer(l, rec).recs = Append(l.recs, rec)
         /\ ~FrameFull(l) => WriteLayer(l, rec).frameStart = l.frameStart
<1> DEFINE n == Len(l.recs)
           full == [recs |-> Append(l.recs, rec), frameStart |-> n, frameEnd |-> n + thresh,
                    frameKey |-> rec.key]
           more == [recs |-> Append(l.recs, rec), frameStart |-> l.frameStart,
                    frameEnd |-> l.frameEnd, frameKey |-> l.frameKey]
<1>1. /\ l = [recs |-> l.recs, frameStart |-> l.frameStart, frameEnd |-> l.frameEnd,
              frameKey |-> l.frameKey]
      /\ l.recs \in Seq(Rec(W)) /\ l.frameStart \in Nat /\ l.frameEnd \in Nat
      /\ l.frameKey \in KeysOf(W)
  BY DEF Layer
<1>2. /\ Append(l.recs, rec) \in Seq(Rec(W)) /\ n \in Nat
      /\ Len(Append(l.recs, rec)) = n + 1
      /\ Append(l.recs, rec)[n + 1] = rec
      /\ \A i \in 1..n : Append(l.recs, rec)[i] = l.recs[i]
  BY <1>1, Appended
<1>3. rec.key \in KeysOf(W) /\ l.frameKey # NoFrameKey
  BY <1>1, KeyIsSomething DEF Rec
<1>4. CASE FrameFull(l)
  <2>1. EndFrame(l) = [recs |-> l.recs, frameStart |-> n, frameEnd |-> n + thresh,
                       frameKey |-> NoFrameKey]
    <3>1. EndFrame(l) = [[l EXCEPT !.frameStart = n, !.frameKey = NoFrameKey]
                           EXCEPT !.frameEnd = n + thresh]
      BY <1>4 DEF EndFrame, CloseFrame, Position
    <3> HIDE DEF n
    <3> QED BY <1>1, <3>1
  <2>2. WriteLayer(l, rec) = full
    <3> HIDE DEF n
    <3>1. WriteLayer(l, rec) =
            [recs |-> Append(l.recs, rec), frameStart |-> n, frameEnd |-> n + thresh,
             frameKey |-> IF NoFrameKey = NoFrameKey THEN rec.key ELSE NoFrameKey]
      BY <2>1, LayerWritten
    <3> QED BY <3>1
  <2>3. full \in Layer(W)
    <3>1. n + thresh \in Nat
      <4> HIDE DEF n
      <4> QED BY <1>2
    <3> HIDE DEF n
    <3> QED BY <1>2, <1>3, <3>1 DEF Layer
  <2>4. Framed(full)
    <3> HIDE DEF n
    <3> QED BY <1>2 DEF Framed
  <2>5. full.recs = Append(l.recs, rec)
    OBVIOUS
  <2> HIDE DEF full, n
  <2> QED BY <1>4, <2>2, <2>3, <2>4, <2>5
<1>5. CASE ~FrameFull(l)
  <2>1. EndFrame(l) = l
    BY <1>5 DEF EndFrame
  <2>2. WriteLayer(l, rec) = more
    <3>1. EndFrame(l) = [recs |-> l.recs, frameStart |-> l.frameStart,
                         frameEnd |-> l.frameEnd, frameKey |-> l.frameKey]
      BY <1>1, <2>1
    <3>2. WriteLayer(l, rec) =
            [recs |-> Append(l.recs, rec), frameStart |-> l.frameStart, frameEnd |-> l.frameEnd,
             frameKey |-> IF l.frameKey = NoFrameKey THEN rec.key ELSE l.frameKey]
      BY <3>1, LayerWritten
    <3> QED BY <1>3, <3>2
  <2>3. more \in Layer(W)
    BY <1>1, <1>2 DEF Layer
  <2>4. Framed(more)
    <3>1. l.frameStart < n /\ l.frameKey = l.recs[l.frameStart + 1].key
      BY DEF Framed
    <3>2. l.frameStart + 1 \in 1..n /\ l.frameStart < n + 1
      <4> HIDE DEF n
      <4> QED BY <1>1, <1>2, <3>1
    <3>3. Append(l.recs, rec)[l.frameStart + 1] = l.recs[l.frameStart + 1]
      BY <1>2, <3>2
    <3> HIDE DEF n
    <3> QED BY <1>2, <3>1, <3>2, <3>3 DEF Framed
  <2>5. more.recs = Append(l.recs, rec) /\ more.frameStart = l.frameStart
    OBVIOUS
  <2> HIDE DEF more
  <2> QED BY <2>2, <2>3, <2>4, <2>5
<1> QED BY <1>4, <1>5

\* The records of the base, in the order of their keys.
BaseOf(ls) == IF Len(ls) = 0 THEN <<>> ELSE ls[1].recs

\* The layers that a write reaches are the ones below the first that has room,
\* and that one.
LEMMA WhatIsReached ==
  ASSUME NEW ls, Len(ls) \in Nat
  PROVE  /\ Reached(ls) \subseteq 1..(Len(ls) + 1) /\ 1 \in Reached(ls)
         /\ \A k \in 1..Len(ls) : k + 1 \in Reached(ls) <=> k \in Reached(ls) /\ FrameFull(ls[k])
<1> DEFINE n == Len(ls)
<1>1. Reached(ls) = {k \in 1..(n + 1) : \A j \in 1..(k-1) : FrameFull(ls[j])}
  BY DEF Reached
<1> HIDE DEF n
<1>2. n \in Nat
  BY DEF n
<1>3. 1 \in Reached(ls)
  BY <1>1, <1>2
<1>4. ASSUME NEW k \in 1..n
      PROVE  k + 1 \in Reached(ls) <=> k \in Reached(ls) /\ FrameFull(ls[k])
  <2>1. k \in 1..(n + 1) /\ k + 1 \in 1..(n + 1) /\ (k + 1) - 1 = k /\ k \in 1..k
    BY <1>2
  <2>2. \A j : j \in 1..k <=> j \in 1..(k - 1) \/ j = k
    BY <1>2
  <2>3. k \in Reached(ls) <=> \A j \in 1..(k-1) : FrameFull(ls[j])
    BY <1>1, <2>1, Zenon
  <2>4. k + 1 \in Reached(ls) <=> \A j \in 1..((k + 1) - 1) : FrameFull(ls[j])
    BY <1>1, <2>1, Zenon
  <2>5. k + 1 \in Reached(ls) <=> \A j \in 1..k : FrameFull(ls[j])
    BY <2>1, <2>4
  <2> QED BY <2>2, <2>3, <2>5, Zenon
<1>5. Reached(ls) \subseteq 1..(n + 1)
  BY <1>1
<1> QED BY <1>3, <1>4, <1>5 DEF n

\* One record written to the base (Writer.Write) keeps the layers linked,
\* through whatever frames it ends above.
LEMMA WriteKeeps ==
  ASSUME thresh \in Nat, NEW W \in {1, 2}, NEW ls, LayersInv(W, ls), NEW key \in KeysOf(W)
  PROVE  /\ LayersInv(W, Write(ls, key))
         /\ Len(Write(ls, key)) > 0
         /\ \/ Len(Write(ls, key)) = Len(ls)
            \/ Len(Write(ls, key)) = Len(ls) + 1 /\ Len(ls) + 1 \in Reached(ls)
         /\ BaseOf(Write(ls, key)) = Append(BaseOf(ls), [key |-> key, child |-> 0])
<1> DEFINE n == Len(ls)
           R == Reached(ls)
           m == IF n + 1 \in R THEN n + 1 ELSE n
           rec(k) == IF k = 1 THEN [key |-> key, child |-> 0] ELSE IndexRecord(ls[k-1])
           at(k) == IF k \in R THEN WriteLayer(IF k > n THEN NewLayer ELSE ls[k], rec(k))
                    ELSE ls[k]
           new == [k \in 1..m |-> at(k)]
<1>1. /\ n \in Nat /\ ls \in Seq(Layer(W))
      /\ \A k \in 1..n : ls[k] \in Layer(W) /\ Framed(ls[k])
  BY DEF LayersInv
<1>2. /\ R \subseteq 1..(n + 1) /\ 1 \in R
      /\ \A k \in 1..n : k + 1 \in R <=> k \in R /\ FrameFull(ls[k])
  BY <1>1, WhatIsReached
<1>3. (1..n) \cup R = 1..m /\ m \in Nat /\ m >= 1
  <2> HIDE DEF n, R
  <2>1. CASE n + 1 \in R
    <3>1. m = n + 1
      BY <2>1
    <3>2. (1..n) \cup R = 1..(n + 1)
      <4>1. \A k \in 1..(n + 1) : k \in 1..n \/ k = n + 1
        BY <1>1
      <4>2. \A k \in 1..n : k \in 1..(n + 1)
        BY <1>1
      <4> QED BY <1>2, <2>1, <4>1, <4>2, Zenon
    <3> HIDE DEF m
    <3> QED BY <1>1, <3>1, <3>2
  <2>2. CASE n + 1 \notin R
    <3>1. m = n
      BY <2>2
    <3>2. \A k \in R : k \in 1..n
      BY <1>1, <1>2, <2>2
    <3>3. n >= 1
      BY <1>1, <1>2, <3>2
    <3>4. (1..n) \cup R = 1..n
      BY <3>2
    <3> HIDE DEF m
    <3> QED BY <1>1, <3>1, <3>3, <3>4
  <2> QED BY <2>1, <2>2
<1>4. Write(ls, key) = new
  <2>1. Write(ls, key) = [k \in (1..n) \cup R |-> at(k)]
    BY DEF Write
  <2> HIDE DEF n, R, m, at
  <2> QED BY <1>3, <2>1
<1>5. Len(new) = m /\ DOMAIN new = 1..m /\ \A k \in 1..m : new[k] = at(k)
  <2> HIDE DEF n, R, m, at
  <2> QED BY <1>3
<1>6. ASSUME NEW k \in 1..n
      PROVE  /\ ls[k].recs \in Seq(Rec(W)) /\ Len(ls[k].recs) \in Nat /\ Len(ls[k].recs) > 0
             /\ ls[k].frameStart \in Nat /\ ls[k].frameKey \in KeysOf(W)
             /\ ls[k].frameStart < Len(ls[k].recs)
             /\ ls[k].frameKey = ls[k].recs[ls[k].frameStart + 1].key
  <2>1. ls[k] \in Layer(W) /\ Framed(ls[k])
    BY <1>1
  <2>2. /\ ls[k].recs \in Seq(Rec(W)) /\ ls[k].frameStart \in Nat
        /\ ls[k].frameKey \in KeysOf(W)
    BY <2>1 DEF Layer
  <2>3. Len(ls[k].recs) \in Nat
    BY <2>2
  <2> QED BY <2>1, <2>2, <2>3 DEF Framed
<1> HIDE DEF n
<1>7. ASSUME NEW k \in R, k # 1
      PROVE  k - 1 \in 1..n /\ (k - 1) + 1 = k
  BY <1>1, <1>2, <1>7
<1>8. ASSUME NEW k \in R
      PROVE  /\ rec(k) \in Rec(W)
             /\ k # 1 => Points(rec(k), ls[k-1].recs)
  <2>1. CASE k = 1
    <3>1. rec(k) = [key |-> key, child |-> 0]
      BY <2>1
    <3> QED BY <2>1, <3>1 DEF Rec
  <2>2. CASE k # 1
    <3>1. k - 1 \in 1..n
      BY <1>7, <2>2
    <3>2. rec(k) = [key |-> ls[k-1].frameKey, child |-> ls[k-1].frameStart]
      BY <2>2 DEF IndexRecord
    <3> HIDE DEF rec
    <3> QED BY <1>6, <3>1, <3>2 DEF Rec, Points
  <2> QED BY <2>1, <2>2
<1> HIDE DEF rec, R
<1>9. ASSUME NEW k \in 1..n
      PROVE  /\ at(k) \in Layer(W) /\ Framed(at(k))
             /\ \/ k \notin R /\ at(k) = ls[k]
                \/ k \in R /\ at(k).recs = Append(ls[k].recs, rec(k))
             /\ at(k).frameStart = ls[k].frameStart \/ (k \in R /\ FrameFull(ls[k]))
  <2>1. CASE k \in R
    <3>1. at(k) = WriteLayer(ls[k], rec(k))
      BY <1>1, <2>1
    <3>2. rec(k) \in Rec(W) /\ ls[k] \in Layer(W) /\ Framed(ls[k])
      BY <1>1, <1>8, <2>1
    <3>3. /\ WriteLayer(ls[k], rec(k)) \in Layer(W)
          /\ Framed(WriteLayer(ls[k], rec(k)))
          /\ WriteLayer(ls[k], rec(k)).recs = Append(ls[k].recs, rec(k))
          /\ ~FrameFull(ls[k]) => WriteLayer(ls[k], rec(k)).frameStart = ls[k].frameStart
      BY <3>2, WriteMore
    <3> HIDE DEF at
    <3> QED BY <2>1, <3>1, <3>3
  <2>2. CASE k \notin R
    <3>1. at(k) = ls[k]
      BY <2>2
    <3> HIDE DEF at
    <3> QED BY <1>1, <2>2, <3>1
  <2> QED BY <2>1, <2>2
<1>10. ASSUME n + 1 \in R
       PROVE  /\ at(n + 1) \in Layer(W) /\ Framed(at(n + 1))
              /\ at(n + 1).recs = <<rec(n + 1)>> /\ at(n + 1).frameStart = 0
  <2>1. at(n + 1) = WriteLayer(NewLayer, rec(n + 1))
    BY <1>1, <1>10
  <2>2. rec(n + 1) \in Rec(W)
    BY <1>8, <1>10
  <2> HIDE DEF at
  <2> QED BY <2>1, <2>2, WriteNew
<1> HIDE DEF at
<1>11. \A k \in 1..m : k \in 1..n \/ (k = n + 1 /\ n + 1 \in R)
  BY <1>1
<1>12. \A k \in 1..n : k \in 1..m
  BY <1>1
<1>13. ASSUME NEW k \in 1..n
       PROVE  /\ Len(at(k).recs) >= Len(ls[k].recs) /\ Len(at(k).recs) \in Nat
              /\ \A i \in 1..Len(ls[k].recs) : at(k).recs[i] = ls[k].recs[i]
  <2>1. CASE at(k) = ls[k]
    BY <1>6, <2>1
  <2>2. CASE k \in R /\ at(k).recs = Append(ls[k].recs, rec(k))
    <3>1. rec(k) \in Rec(W)
      BY <1>8, <2>2
    <3>2. /\ Len(Append(ls[k].recs, rec(k))) = Len(ls[k].recs) + 1
          /\ \A i \in 1..Len(ls[k].recs) : Append(ls[k].recs, rec(k))[i] = ls[k].recs[i]
      BY <1>6, <3>1, Appended
    <3> QED BY <1>6, <2>2, <3>2
  <2> QED BY <1>9, <2>1, <2>2
<1>14. ASSUME NEW k \in 1..n, NEW r, r.child \in Nat, Points(r, ls[k].recs)
       PROVE  Points(r, at(k).recs)
  <2>1. r.child < Len(ls[k].recs) /\ ls[k].recs[r.child + 1].key = r.key
    BY <1>14 DEF Points
  <2>2. r.child + 1 \in 1..Len(ls[k].recs) /\ r.child < Len(at(k).recs)
    BY <1>6, <1>13, <1>14, <2>1
  <2> QED BY <1>13, <2>1, <2>2 DEF Points
<1>15. new \in Seq(Layer(W))
  <2>1. \A k \in 1..m : at(k) \in Layer(W)
    BY <1>9, <1>10, <1>11
  <2> HIDE DEF m
  <2> QED BY <1>3, <2>1
<1>16. \A k \in 1..m : Framed(new[k])
  <2>1. \A k \in 1..m : Framed(at(k))
    BY <1>9, <1>10, <1>11
  <2> HIDE DEF m, new
  <2> QED BY <1>5, <2>1
<1>17. ASSUME NEW k \in 1..(m - 1), NEW i \in 1..Len(at(k + 1).recs)
       PROVE  Points(at(k + 1).recs[i], at(k).recs)
  <2>1. k \in 1..n /\ k + 1 # 1 /\ (k + 1) - 1 = k /\ k + 1 \in 1..m
    BY <1>1
  <2>2. ASSUME k + 1 \in R PROVE Points(rec(k + 1), at(k).recs)
    <3>1. Points(rec(k + 1), ls[k].recs) /\ rec(k + 1) \in Rec(W)
      <4>1. Points(rec(k + 1), ls[(k + 1) - 1].recs)
        BY <1>8, <2>1, <2>2
      <4> QED BY <1>8, <2>1, <2>2, <4>1
    <3>2. rec(k + 1).child \in Nat
      BY <3>1 DEF Rec
    <3> QED BY <1>14, <2>1, <3>1, <3>2
  <2>3. CASE k + 1 = n + 1 /\ n + 1 \in R
    <3>1. at(k + 1).recs = <<rec(k + 1)>> /\ k + 1 \in R
      BY <1>10, <2>3
    <3>2. i = 1
      <4>1. Len(at(k + 1).recs) = 1
        <5>1. Len(<<rec(k + 1)>>) = 1
          OBVIOUS
        <5> QED BY <3>1, <5>1, Zenon
      <4>2. i \in 1..1
        BY <4>1
      <4> QED BY <4>2
    <3> QED BY <2>2, <3>1, <3>2
  <2>4. CASE k + 1 \in 1..n
    <3>1. /\ ls[k + 1].recs \in Seq(Rec(W)) /\ Len(ls[k + 1].recs) \in Nat
      BY <1>6, <2>4
    <3>2. ASSUME NEW j \in 1..Len(ls[k + 1].recs)
          PROVE  Points(ls[k + 1].recs[j], at(k).recs)
      <4>1. Points(ls[k + 1].recs[j], ls[k].recs)
        <5>1. k \in 1..(Len(ls) - 1)
          BY <1>1, <2>1, <2>4 DEF n
        <5> QED BY <5>1, <3>2, Zenon DEF LayersInv
      <4>2. ls[k + 1].recs[j] \in Rec(W)
        BY <3>1
      <4>3. ls[k + 1].recs[j].child \in Nat
        BY <4>2 DEF Rec
      <4> QED BY <1>14, <2>1, <4>1, <4>3
    <3>3. CASE at(k + 1) = ls[k + 1]
      BY <3>2, <3>3
    <3>4. CASE k + 1 \in R /\ at(k + 1).recs = Append(ls[k + 1].recs, rec(k + 1))
      <4>1. /\ Len(Append(ls[k+1].recs, rec(k+1))) = Len(ls[k+1].recs) + 1
            /\ Append(ls[k+1].recs, rec(k+1))[Len(ls[k+1].recs) + 1] = rec(k+1)
            /\ \A j \in 1..Len(ls[k+1].recs) :
                 Append(ls[k+1].recs, rec(k+1))[j] = ls[k+1].recs[j]
        <5>1. rec(k + 1) \in Rec(W)
          BY <1>8, <3>4
        <5> QED BY <3>1, <5>1, Appended
      <4>2. CASE i \in 1..Len(ls[k + 1].recs)
        BY <3>2, <3>4, <4>1, <4>2
      <4>3. CASE i = Len(ls[k + 1].recs) + 1
        BY <2>2, <3>4, <4>1, <4>3
      <4>4. i \in 1..(Len(ls[k + 1].recs) + 1)
        BY <3>4, <4>1
      <4> QED BY <3>1, <4>2, <4>3, <4>4
    <3> QED BY <1>9, <2>4, <3>3, <3>4
  <2> QED BY <1>11, <2>1, <2>3, <2>4
<1>18. ASSUME NEW k \in 1..m
       PROVE  at(k).recs[1].key = at(1).recs[1].key
  <2>1. ASSUME NEW j \in 1..n
        PROVE  at(j).recs[1].key = ls[1].recs[1].key
    <3>1. ls[j].recs[1].key = ls[1].recs[1].key
      BY DEF LayersInv, n
    <3>2. at(j).recs[1] = ls[j].recs[1]
      <4>1. 1 \in 1..Len(ls[j].recs)
        BY <1>6
      <4> QED BY <1>13, <4>1
    <3> QED BY <3>1, <3>2
  <2>2. CASE k \in 1..n
    <3>1. 1 \in 1..n
      BY <1>1, <2>2
    <3> QED BY <2>1, <2>2, <3>1
  <2>3. CASE k = n + 1 /\ n + 1 \in R /\ n > 0
    <3>1. at(k).recs = <<rec(n + 1)>>
      BY <1>10, <2>3
    <3>2. n \in 1..n /\ 1 \in 1..n /\ (n + 1) - 1 = n /\ n + 1 # 1
      BY <1>1, <2>3
    <3>3. rec(n + 1) = IndexRecord(ls[(n + 1) - 1])
      BY <3>2 DEF rec
    <3>4. rec(n + 1).key = ls[n].frameKey
      BY <3>2, <3>3 DEF IndexRecord
    <3>5. ls[n].frameStart = 0
      BY <2>3 DEF LayersInv, n
    <3>6. ls[n].frameKey = ls[n].recs[1].key
      BY <1>6, <3>2, <3>5
    <3>7. ls[n].recs[1].key = ls[1].recs[1].key
      BY <3>2 DEF LayersInv, n
    <3>8. at(1).recs[1].key = ls[1].recs[1].key
      BY <2>1, <3>2
    <3> QED BY <3>1, <3>4, <3>6, <3>7, <3>8
  <2>4. CASE k = n + 1 /\ n = 0
    BY <2>4
  <2> QED BY <1>1, <1>11, <2>2, <2>3, <2>4
<1>19. at(m).frameStart = 0
  <2>1. CASE n + 1 \in R
    BY <1>10, <2>1
  <2>2. CASE n + 1 \notin R
    <3>1. m = n /\ n \in 1..n
      BY <1>3, <2>2
    <3>2. ~(n \in R /\ FrameFull(ls[n]))
      BY <1>2, <2>2, <3>1
    <3>3. at(n).frameStart = ls[n].frameStart
      BY <1>9, <3>1, <3>2
    <3>4. ls[n].frameStart = 0
      BY <1>1, <3>1 DEF LayersInv, n
    <3> QED BY <3>1, <3>3, <3>4
  <2> QED BY <2>1, <2>2
<1>20. at(1).recs = Append(BaseOf(ls), [key |-> key, child |-> 0])
  <2>1. rec(1) = [key |-> key, child |-> 0] /\ 1 \in R
    BY <1>2 DEF rec
  <2>2. CASE n = 0
    <3>1. at(1).recs = <<rec(1)>> /\ BaseOf(ls) = <<>>
      <4>1. n + 1 = 1
        BY <2>2
      <4> QED BY <1>10, <2>1, <2>2, <4>1 DEF BaseOf, n
    <3> QED BY <2>1, <3>1
  <2>3. CASE n # 0
    <3>1. 1 \in 1..n
      BY <1>1, <2>3
    <3>2. at(1).recs = Append(ls[1].recs, rec(1))
      BY <1>9, <2>1, <3>1
    <3>3. BaseOf(ls) = ls[1].recs
      BY <2>3 DEF BaseOf, n
    <3> QED BY <2>1, <3>2, <3>3
  <2> QED BY <2>2, <2>3
<1>21. m = n \/ (m = n + 1 /\ n + 1 \in R)
  OBVIOUS
<1>22. /\ Len(new) = m /\ new[m] = at(m) /\ new[1] = at(1)
       /\ \A k \in 1..m : new[k] = at(k)
  <2>1. 1 \in 1..m /\ m \in 1..m
    <3> HIDE DEF m
    <3> QED BY <1>3
  <2> HIDE DEF new, m
  <2> QED BY <1>5, <2>1
<1> HIDE DEF new, m
<1>23. \A k \in 1..(m - 1) : k \in 1..m /\ k + 1 \in 1..m
  BY <1>3
<1>24. \A k \in 1..(m - 1) : \A i \in 1..Len(new[k + 1].recs) :
         Points(new[k + 1].recs[i], new[k].recs)
  BY <1>17, <1>22, <1>23
<1>25. \A k \in 1..m : new[k].recs[1].key = new[1].recs[1].key
  BY <1>18, <1>22
<1>26. LayersInv(W, new)
  BY <1>15, <1>16, <1>19, <1>22, <1>24, <1>25 DEF LayersInv
<1>27. BaseOf(new) = new[1].recs
  BY <1>3, <1>22 DEF BaseOf
<1>28. Len(new) > 0
  BY <1>3, <1>22
<1> QED BY <1>4, <1>20, <1>21, <1>22, <1>26, <1>27, <1>28 DEF n, R

-----------------------------------------------------------------------------
(***************************************************************************)
(* The sections of a finished index                                        *)
(***************************************************************************)
\* The base has the keys of K, each once and in order.
HasKeys(K, recs) ==
  /\ \A i \in 1..Len(recs) : recs[i].key \in K
  /\ \A k \in K : \E i \in 1..Len(recs) : recs[i].key = k
  /\ \A i, j \in 1..Len(recs) : i < j => SortsBefore(recs[i].key, recs[j].key)

\* The section that a search reads after the k-th: the last one leads to the base.
Below(k, n) == IF k = n THEN 1 ELSE k + 1

\* An index of the keys of K: the base has them in order, and the records of each
\* other section lead to their keys in the section below.
IsIndex(W, sections, K) ==
  /\ sections \in Seq(Seq(Rec(W)))
  /\ Len(sections) = 0 => K = {}
  /\ Len(sections) > 0 => HasKeys(K, sections[1])
  /\ \A k \in 1..Len(sections) : Len(sections[k]) > 0 /\ sections[k][1].key = sections[1][1].key
  /\ \A k \in 2..Len(sections) : \A i \in 1..Len(sections[k]) :
       Points(sections[k][i], sections[Below(k, Len(sections))])

\* When the writer is given all of the keys in order, what it leaves is an index
\* of them.
LEMMA FinalIsIndex ==
  ASSUME NEW W \in {1, 2}, NEW ls, LayersInv(W, ls), NEW K, NEW ks, Sorted(K, ks),
         ks \in Seq(KeysOf(W)), Len(BaseOf(ls)) = Len(ks),
         \A i \in 1..Len(ks) : BaseOf(ls)[i].key = ks[i]
  PROVE  IsIndex(W, FinalSections(ls), K)
<1> DEFINE n == Len(ls)
           layer(k) == IF k = 1 THEN 1 ELSE n + 2 - k
           s == FinalSections(ls)
<1>1. n \in Nat /\ \A k \in 1..n : ls[k] \in Layer(W) /\ Framed(ls[k])
  BY DEF LayersInv
<1>2. DOMAIN ks = 1..Len(ks) /\ Len(ks) \in Nat
  OBVIOUS
<1>3. HasKeys(K, BaseOf(ls))
  BY <1>2 DEF Sorted, HasKeys
<1>4. s = [k \in 1..n |-> ls[layer(k)].recs]
  BY DEF FinalSections
<1> HIDE DEF s
<1>5. Len(s) = n /\ \A k \in 1..n : s[k] = ls[layer(k)].recs
  <2> HIDE DEF n, layer
  <2> QED BY <1>1, <1>4
<1>6. \A k \in 1..n : layer(k) \in 1..n
  <2> HIDE DEF n
  <2> QED BY <1>1
<1>7. ASSUME NEW k \in 1..n
      PROVE  /\ ls[k].recs \in Seq(Rec(W)) /\ Len(ls[k].recs) \in Nat
             /\ Len(ls[k].recs) > 0
  <2>1. ls[k] \in Layer(W) /\ Framed(ls[k])
    BY <1>1
  <2>2. ls[k].recs \in Seq(Rec(W)) /\ ls[k].frameStart \in Nat
    BY <2>1 DEF Layer
  <2>3. Len(ls[k].recs) \in Nat
    BY <2>2
  <2> QED BY <2>1, <2>2, <2>3 DEF Framed
<1>8. s \in Seq(Seq(Rec(W)))
  <2>1. \A k \in 1..n : ls[layer(k)].recs \in Seq(Rec(W))
    BY <1>6, <1>7
  <2> HIDE DEF n, layer
  <2> QED BY <1>1, <1>4, <2>1
<1>9. Len(s) = 0 => K = {}
  <2>1. n = 0 => BaseOf(ls) = <<>>
    BY DEF BaseOf
  <2>2. Len(<<>>) = 0 /\ 1..0 = {}
    OBVIOUS
  <2>3. n = 0 => 1..Len(BaseOf(ls)) = {}
    BY <2>1, <2>2
  <2> HIDE DEF n
  <2> QED BY <1>3, <1>5, <2>3 DEF HasKeys
<1>10. ASSUME n > 0
       PROVE  s[1] = BaseOf(ls) /\ s[1] = ls[1].recs
  <2>1. 1 \in 1..n /\ layer(1) = 1
    <3> HIDE DEF n
    <3> QED BY <1>1, <1>10
  <2>2. s[1] = ls[1].recs
    <3> HIDE DEF layer, n
    <3> QED BY <1>5, <2>1
  <2> QED BY <1>10, <2>2 DEF BaseOf
<1>11. ASSUME NEW k \in 1..n
       PROVE  Len(s[k]) > 0 /\ s[k][1].key = s[1][1].key
  <2>1. s[k] = ls[layer(k)].recs /\ layer(k) \in 1..n
    <3> HIDE DEF layer, n
    <3> QED BY <1>5, <1>6
  <2>2. ls[layer(k)].recs[1].key = ls[1].recs[1].key
    <3> HIDE DEF layer
    <3> QED BY <2>1 DEF LayersInv
  <2>3. n > 0
    <3> HIDE DEF n
    <3> QED BY <1>1
  <2> HIDE DEF layer, n
  <2> QED BY <1>7, <1>10, <2>1, <2>2, <2>3
<1>12. ASSUME NEW k \in 2..n, NEW i \in 1..Len(s[k])
       PROVE  Points(s[k][i], s[Below(k, n)])
  <2> DEFINE j == n + 1 - k
  <2>1. /\ k \in 1..n /\ j \in 1..(n - 1) /\ j \in 1..n /\ j + 1 \in 1..n /\ layer(k) = j + 1
        /\ Below(k, n) \in 1..n /\ layer(Below(k, n)) = j
    <3> HIDE DEF n
    <3>1. k \in 1..n /\ j \in 1..(n - 1) /\ j \in 1..n /\ j + 1 \in 1..n
      BY <1>1
    <3>2. layer(k) = j + 1
      BY <1>1
    <3>3. CASE k = n
      BY <1>1, <3>1, <3>2, <3>3 DEF Below
    <3>4. CASE k # n
      <4>1. Below(k, n) = k + 1 /\ k + 1 # 1 /\ k + 1 \in 1..n
        BY <1>1, <3>4 DEF Below
      <4> QED BY <1>1, <3>1, <3>2, <4>1
    <3> QED BY <3>3, <3>4
  <2>2. s[k] = ls[j + 1].recs /\ s[Below(k, n)] = ls[j].recs
    <3> HIDE DEF n, layer, j
    <3> QED BY <1>5, <2>1
  <2>3. Points(ls[j + 1].recs[i], ls[j].recs)
    <3>1. j \in 1..(Len(ls) - 1) /\ i \in 1..Len(ls[j + 1].recs)
      <4> HIDE DEF layer, j
      <4> QED BY <2>1, <2>2
    <3> HIDE DEF j
    <3> QED BY <3>1 DEF LayersInv
  <2> QED BY <2>2, <2>3
<1>13. Len(s) > 0 => HasKeys(K, s[1])
  <2> HIDE DEF n
  <2> QED BY <1>3, <1>5, <1>10
<1>14. /\ \A k \in 1..Len(s) : Len(s[k]) > 0 /\ s[k][1].key = s[1][1].key
       /\ \A k \in 2..Len(s) : \A i \in 1..Len(s[k]) : Points(s[k][i], s[Below(k, Len(s))])
  <2> HIDE DEF n
  <2> QED BY <1>5, <1>11, <1>12
<1>15. IsIndex(W, s, K)
  BY <1>8, <1>9, <1>13, <1>14 DEF IsIndex
<1> QED BY <1>15 DEF s

-----------------------------------------------------------------------------
(***************************************************************************)
(* Lookups in one section                                                  *)
(***************************************************************************)
\* A set of numbers that is not empty has a least one.
LEMMA LeastNumber ==
  ASSUME NEW T, T \subseteq Nat, T # {}
  PROVE  \E x \in T : \A y \in T : x <= y
<1> DEFINE R == OpToRel(<, Nat)
<1>1. IsWellFoundedOn(R, Nat)
  BY NatLessThanWellFounded
<1> HIDE DEF R
<1>2. PICK x \in T : \A y \in T : ~(<<y, x>> \in R)
  BY <1>1, WFMin, Zenon
<1>3. ASSUME NEW y \in T
      PROVE  x <= y
  <2>1. x \in Nat /\ y \in Nat
    OBVIOUS
  <2>2. y < x => <<y, x>> \in R
    BY <2>1 DEF R, OpToRel
  <2> QED BY <1>2, <2>1, <2>2
<1> QED BY <1>3

\* The records at which a lookup stops, and the first of them.
Stops(recs, q) == {i \in DOMAIN recs : KeyCompare(recs[i], q) >= 0}
First(recs, q) == CHOOSE i \in Stops(recs, q) : \A j \in Stops(recs, q) : i <= j

\* A lookup stops at the first record that is not below the query.
LEMMA FirstStop ==
  ASSUME NEW W \in {1, 2}, NEW m \in {1, 2}, m <= W, NEW q, IsQuery(q, m),
         NEW recs \in Seq(Rec(W))
  PROVE  /\ \A i \in 1..Len(recs) :
              KeyCompare(recs[i], q) \in {-1, 0, 1} /\ (i \notin Stops(recs, q) => KeyCompare(recs[i], q) = -1)
         /\ Stops(recs, q) # {} =>
              /\ First(recs, q) \in 1..Len(recs)
              /\ KeyCompare(recs[First(recs, q)], q) \in {0, 1}
              /\ \A j \in 1..(First(recs, q) - 1) : KeyCompare(recs[j], q) = -1
<1>1. DOMAIN recs = 1..Len(recs) /\ Len(recs) \in Nat /\ \A i \in 1..Len(recs) : recs[i] \in Rec(W)
  OBVIOUS
<1>2. \A i \in 1..Len(recs) : KeyCompare(recs[i], q) \in {-1, 0, 1}
  BY <1>1, Compared
<1>3. \A i \in 1..Len(recs) : i \notin Stops(recs, q) => KeyCompare(recs[i], q) = -1
  BY <1>1, <1>2 DEF Stops
<1>4. ASSUME Stops(recs, q) # {}
      PROVE  /\ First(recs, q) \in 1..Len(recs)
             /\ KeyCompare(recs[First(recs, q)], q) \in {0, 1}
             /\ \A j \in 1..(First(recs, q) - 1) : KeyCompare(recs[j], q) = -1
  <2>1. Stops(recs, q) \subseteq 1..Len(recs) /\ Stops(recs, q) \subseteq Nat
    BY <1>1 DEF Stops
  <2>2. \E i \in Stops(recs, q) : \A j \in Stops(recs, q) : i <= j
    BY <1>4, <2>1, LeastNumber
  <2>3. /\ First(recs, q) \in Stops(recs, q)
        /\ \A j \in Stops(recs, q) : First(recs, q) <= j
    BY <2>2, Zenon DEF First
  <2>4. First(recs, q) \in 1..Len(recs)
    BY <2>1, <2>3
  <2>5. KeyCompare(recs[First(recs, q)], q) \in {0, 1}
    BY <1>2, <2>3, <2>4 DEF Stops
  <2>6. ASSUME NEW j \in 1..(First(recs, q) - 1)
        PROVE  KeyCompare(recs[j], q) = -1
    <3>1. j \in 1..Len(recs) /\ ~(First(recs, q) <= j)
      BY <1>1, <2>4
    <3> QED BY <1>3, <2>3, <3>1
  <2> QED BY <2>4, <2>5, <2>6
<1> QED BY <1>2, <1>3, <1>4

\* The largest record that is not above the query (LookupClosest, and every step
\* of a descent): none when the first one is above.
LEMMA ClosestLookup ==
  ASSUME NEW W \in {1, 2}, NEW m \in {1, 2}, m <= W, NEW q, IsQuery(q, m),
         NEW recs \in Seq(Rec(W)), Len(recs) > 0
  PROVE  LET i == Lookup1(recs, q, FALSE) IN
           /\ i \in 0..Len(recs)
           /\ i = 0 => KeyCompare(recs[1], q) = 1
           /\ i # 0 => KeyCompare(recs[i], q) \in {-1, 0}
           /\ i # 0 => \/ i = Len(recs) \/ KeyCompare(recs[i], q) = 0
                       \/ KeyCompare(recs[i + 1], q) = 1
<1> DEFINE i == Lookup1(recs, q, FALSE)
           f == First(recs, q)
           Result(x) ==
             /\ x \in 0..Len(recs)
             /\ x = 0 => KeyCompare(recs[1], q) = 1
             /\ x # 0 => KeyCompare(recs[x], q) \in {-1, 0}
             /\ x # 0 => \/ x = Len(recs) \/ KeyCompare(recs[x], q) = 0
                         \/ KeyCompare(recs[x + 1], q) = 1
<1>1. Len(recs) \in Nat
  OBVIOUS
<1>2. i = IF Stops(recs, q) = {} THEN Len(recs)
          ELSE IF KeyCompare(recs[f], q) = 0 THEN f ELSE f - 1
  BY DEF Lookup1, Stops, First
<1> HIDE DEF i
<1>3. ASSUME Stops(recs, q) = {} PROVE Result(i)
  <2>1. i = Len(recs)
    BY <1>2, <1>3
  <2>2. Len(recs) \in 1..Len(recs)
    BY <1>1
  <2>3. KeyCompare(recs[Len(recs)], q) = -1
    BY <1>3, <2>2, FirstStop
  <2> QED BY <1>1, <2>1, <2>3
<1>4. ASSUME Stops(recs, q) # {} PROVE Result(i)
  <2>1. /\ f \in 1..Len(recs) /\ KeyCompare(recs[f], q) \in {0, 1}
        /\ \A j \in 1..(f - 1) : KeyCompare(recs[j], q) = -1
    BY <1>4, FirstStop
  <2> HIDE DEF f
  <2>2. CASE KeyCompare(recs[f], q) = 0
    <3>1. i = f
      BY <1>2, <1>4, <2>2
    <3> QED BY <1>1, <2>1, <2>2, <3>1
  <2>3. CASE KeyCompare(recs[f], q) = 1
    <3>1. i = f - 1
      BY <1>2, <1>4, <2>3
    <3>2. i \in 0..Len(recs) /\ i + 1 = f /\ (i # 0 => i \in 1..(f - 1))
      BY <1>1, <2>1, <3>1
    <3>3. i = 0 => f = 1
      BY <3>2
    <3> QED BY <2>1, <2>3, <3>2, <3>3
  <2> HIDE DEF Result
  <2> QED BY <2>1, <2>2, <2>3
<1>5. Result(i)
  BY <1>3, <1>4
<1> QED BY <1>5 DEF i

\* The first record that is not below the query, if it matches (Finder.Lookup).
LEMMA ExactLookup ==
  ASSUME NEW W \in {1, 2}, NEW m \in {1, 2}, m <= W, NEW q, IsQuery(q, m),
         NEW recs \in Seq(Rec(W))
  PROVE  LET i == Lookup1(recs, q, TRUE) IN
           /\ i \in 0..Len(recs)
           /\ i # 0 => KeyCompare(recs[i], q) = 0
           /\ \A p \in 1..Len(recs) :
                KeyCompare(recs[p], q) = 0 /\ (\A j \in 1..(p - 1) : KeyCompare(recs[j], q) = -1) => i = p
<1> DEFINE i == Lookup1(recs, q, TRUE)
           f == First(recs, q)
           Result(x) ==
             /\ x \in 0..Len(recs)
             /\ x # 0 => KeyCompare(recs[x], q) = 0
             /\ \A p \in 1..Len(recs) :
                  KeyCompare(recs[p], q) = 0 /\ (\A j \in 1..(p - 1) : KeyCompare(recs[j], q) = -1) => x = p
<1>1. Len(recs) \in Nat /\ DOMAIN recs = 1..Len(recs)
  OBVIOUS
<1>2. i = IF Stops(recs, q) = {} THEN 0
          ELSE IF KeyCompare(recs[f], q) = 0 THEN f ELSE 0
  BY DEF Lookup1, Stops, First
<1> HIDE DEF i
<1>3. ASSUME Stops(recs, q) = {} PROVE Result(i)
  <2>1. i = 0
    BY <1>2, <1>3
  <2>2. \A p \in 1..Len(recs) : KeyCompare(recs[p], q) # 0
    BY <1>3, FirstStop
  <2> QED BY <1>1, <2>1, <2>2
<1>4. ASSUME Stops(recs, q) # {} PROVE Result(i)
  <2>1. /\ f \in 1..Len(recs) /\ KeyCompare(recs[f], q) \in {0, 1}
        /\ \A j \in 1..(f - 1) : KeyCompare(recs[j], q) = -1
    BY <1>4, FirstStop
  <2> HIDE DEF f
  <2>2. ASSUME NEW p \in 1..Len(recs), KeyCompare(recs[p], q) = 0,
               \A j \in 1..(p - 1) : KeyCompare(recs[j], q) = -1
        PROVE  p = f
    <3>1. ~(p \in 1..(f - 1))
      BY <2>1, <2>2
    <3>2. ~(f \in 1..(p - 1))
      BY <2>1, <2>2
    <3> QED BY <1>1, <2>1, <3>1, <3>2
  <2>3. CASE KeyCompare(recs[f], q) = 0
    <3>1. i = f
      BY <1>2, <1>4, <2>3
    <3> QED BY <1>1, <2>1, <2>2, <2>3, <3>1
  <2>4. CASE KeyCompare(recs[f], q) = 1
    <3>1. i = 0
      BY <1>2, <1>4, <2>4
    <3> QED BY <1>1, <2>2, <2>4, <3>1
  <2> HIDE DEF Result
  <2> QED BY <2>1, <2>3, <2>4
<1>5. Result(i)
  BY <1>3, <1>4
<1> QED BY <1>5 DEF i

\* What is read of a section from a position on.
LEMMA ReadFrom ==
  ASSUME NEW W \in {1, 2}, NEW s \in Seq(Rec(W)), NEW at \in Nat, at < Len(s)
  PROVE  /\ SectionFrom(s, at) \in Seq(Rec(W))
         /\ Len(SectionFrom(s, at)) = Len(s) - at
         /\ \A i \in 1..(Len(s) - at) : SectionFrom(s, at)[i] = s[at + i] /\ at + i \in 1..Len(s)
<1>1. Len(s) \in Nat /\ \A i \in 1..Len(s) : s[i] \in Rec(W)
  OBVIOUS
<1>2. at + 1 \in 1..Len(s) + 1 /\ Len(s) \in Int
  BY <1>1
<1>3. /\ SectionFrom(s, at) \in Seq(Rec(W))
      /\ Len(SectionFrom(s, at)) = IF at + 1 <= Len(s) THEN Len(s) - (at + 1) + 1 ELSE 0
      /\ \A i \in 1..(Len(s) - (at + 1) + 1) : SectionFrom(s, at)[i] = s[(at + 1) + i - 1]
  BY <1>1, <1>2, SubSeqProperties DEF SectionFrom
<1>4. Len(s) - (at + 1) + 1 = Len(s) - at /\ at + 1 <= Len(s)
  BY <1>1
<1>5. \A i \in 1..(Len(s) - at) : (at + 1) + i - 1 = at + i /\ at + i \in 1..Len(s)
  BY <1>1
<1> QED BY <1>3, <1>4, <1>5

-----------------------------------------------------------------------------
(***************************************************************************)
(* The descent (Finder.search)                                             *)
(***************************************************************************)
\* The positions that the descent goes through, one for each section it has read.
Descent(sections, q, off) ==
  off = [k \in 1..Len(sections) |->
           IF k = 1 THEN 0 ELSE Descend(sections[k], off[k-1], q)]

\* There are such positions.
LEMMA DescentExists ==
  ASSUME NEW sections, Len(sections) \in Nat, NEW q
  PROVE  \E off : Descent(sections, q, off)
<1> DEFINE n == Len(sections)
           Next1(at, k) == Descend(sections[k], at, q)
           Upto(m, f) == [k \in 1..m |-> IF k = 1 THEN 0 ELSE Next1(f[k-1], k)]
           T == {m \in 0..n : ~(\E f : f = Upto(m, f))}
<1>1. n \in Nat
  OBVIOUS
<1> HIDE DEF n, Next1
<1>2. CASE T # {}
  <2>1. T \subseteq Nat
    BY <1>1
  <2>2. PICK m \in T : \A k \in T : m <= k
    <3> HIDE DEF T
    <3> QED BY <1>2, <2>1, LeastNumber
  <2>3. m \in 0..n /\ ~(\E f : f = Upto(m, f))
    BY <2>2 DEF T
  <2>4. m # 0
    <3> DEFINE f == [k \in 1..0 |-> 0]
    <3>1. f = Upto(0, f)
      OBVIOUS
    <3> QED BY <2>3, <3>1
  <2>5. m - 1 \in 0..n /\ ~(m <= m - 1) /\ m \in Nat
    BY <1>1, <2>3, <2>4
  <2>6. m - 1 \notin T
    BY <2>2, <2>5
  <2>7. PICK f : f = Upto(m - 1, f)
    BY <2>5, <2>6 DEF T
  <2> DEFINE h == [k \in 1..m |-> IF k = m THEN IF m = 1 THEN 0 ELSE Next1(f[m - 1], m) ELSE f[k]]
  <2>8. ASSUME NEW k \in 1..m
        PROVE  h[k] = IF k = 1 THEN 0 ELSE Next1(h[k-1], k)
    <3>1. CASE k = m /\ k = 1
      BY <3>1
    <3>2. CASE k = m /\ k # 1
      <4>1. m - 1 \in 1..m /\ m - 1 # m
        BY <2>5, <3>2
      <4>2. h[m - 1] = f[m - 1]
        BY <4>1
      <4> QED BY <3>2, <4>2
    <3>3. CASE k # m
      <4>1. k \in 1..(m - 1) /\ (k # 1 => k - 1 \in 1..m /\ k - 1 # m)
        BY <2>5, <3>3
      <4>2. h[k] = f[k] /\ (k # 1 => h[k - 1] = f[k - 1])
        BY <3>3, <4>1
      <4>3. f[k] = IF k = 1 THEN 0 ELSE Next1(f[k-1], k)
        <5> HIDE DEF h
        <5> QED BY <2>7, <4>1
      <4> HIDE DEF h
      <4> QED BY <4>2, <4>3
    <3> QED BY <3>1, <3>2, <3>3
  <2>9. h = [k \in 1..m |-> h[k]]
    OBVIOUS
  <2> HIDE DEF h
  <2>10. h = Upto(m, h)
    BY <2>8, <2>9
  <2> QED BY <2>3, <2>10
<1>3. CASE T = {}
  <2>1. n \in 0..n
    BY <1>1
  <2>2. \E f : f = Upto(n, f)
    BY <1>3, <2>1
  <2> QED BY <2>2 DEF n, Next1, Descent
<1> QED BY <1>2, <1>3

\* A search ends at the last of them.
LEMMA SearchEnds ==
  ASSUME NEW sections, Len(sections) \in Nat, NEW q
  PROVE  \E off : Descent(sections, q, off) /\ Search(sections, q) = off[Len(sections)]
<1>0. \E f : Descent(sections, q, f)
  BY DescentExists
<1>1. PICK f : f = [k \in 1..Len(sections) |->
                      IF k = 1 THEN 0 ELSE Descend(sections[k], f[k-1], q)]
  BY <1>0 DEF Descent
<1>2. \E g : /\ g = [k \in 1..Len(sections) |->
                       IF k = 1 THEN 0 ELSE Descend(sections[k], g[k-1], q)]
             /\ Search(sections, q) = g[Len(sections)]
  BY <1>1 DEF Search
<1> QED BY <1>2 DEF Descent

\* Where a descent may be when it has read k sections: it found the query to be
\* below every key, or it is at a record of the next section that is not above the
\* query and, but for the first section, whose key is also in a section above.
GoodAt(sections, q, k, at) ==
  \/ at = NotFound /\ KeyCompare(sections[1][1], q) = 1
  \/ /\ at \in Nat /\ at < Len(sections[Below(k, Len(sections))])
     /\ k = 1 => at = 0
     /\ k # 1 => /\ KeyCompare(sections[Below(k, Len(sections))][at + 1], q) \in {-1, 0}
                 /\ \E r \in Parents(sections) :
                      r.key = sections[Below(k, Len(sections))][at + 1].key

\* Reading one more section leads from one such place to another.
LEMMA DescendKeeps ==
  ASSUME NEW W \in {1, 2}, NEW m \in {1, 2}, m <= W, NEW q, IsQuery(q, m),
         NEW K, NEW sections, IsIndex(W, sections, K), NEW k \in 2..Len(sections), NEW at,
         GoodAt(sections, q, k - 1, at)
  PROVE  GoodAt(sections, q, k, Descend(sections[k], at, q))
<1> DEFINE n == Len(sections)
           s == sections[k]
           recs == SectionFrom(s, at)
           i == Lookup1(recs, q, FALSE)
           below == sections[Below(k, n)]
<1>0. /\ sections \in Seq(Seq(Rec(W))) /\ n \in Nat /\ k \in 1..n /\ k # 1 /\ k - 1 # n
      /\ s \in Seq(Rec(W)) /\ Len(s) \in Nat /\ Len(s) > 0
  <2>1. sections \in Seq(Seq(Rec(W)))
    BY DEF IsIndex
  <2>2. n \in Nat /\ k \in 1..n /\ k # 1 /\ k - 1 # n
    BY <2>1
  <2>3. s \in Seq(Rec(W))
    BY <2>1, <2>2
  <2>4. Len(s) \in Nat /\ Len(s) > 0
    BY <2>2, <2>3 DEF IsIndex
  <2> QED BY <2>1, <2>2, <2>3, <2>4
<1>1. Below(k - 1, n) = k
  <2> HIDE DEF n
  <2> QED BY <1>0 DEF Below
<1>2. CASE at = NotFound /\ KeyCompare(sections[1][1], q) = 1
  <2>1. Descend(sections[k], at, q) = NotFound
    BY <1>2 DEF Descend
  <2> QED BY <1>2, <2>1 DEF GoodAt
<1>3. CASE at \in Nat /\ at < Len(s) /\ (k - 1 = 1 => at = 0)
           /\ (k - 1 # 1 => KeyCompare(s[at + 1], q) \in {-1, 0})
  <2>1. /\ recs \in Seq(Rec(W)) /\ Len(recs) = Len(s) - at
        /\ \A j \in 1..(Len(s) - at) : recs[j] = s[at + j] /\ at + j \in 1..Len(s)
    <3> HIDE DEF s
    <3> QED BY <1>0, <1>3, ReadFrom
  <2> HIDE DEF recs
  <2>2. /\ i \in 0..Len(recs)
        /\ i = 0 => KeyCompare(recs[1], q) = 1
        /\ i # 0 => KeyCompare(recs[i], q) \in {-1, 0}
    <3>1. Len(recs) > 0
      <4> HIDE DEF s
      <4> QED BY <1>0, <1>3, <2>1
    <3> QED BY <2>1, <3>1, ClosestLookup
  <2>3. Descend(s, at, q) = IF i = 0 THEN NotFound ELSE recs[i].child
    <3>1. at # NotFound
      BY <1>3 DEF NotFound
    <3> QED BY <3>1 DEF Descend, recs
  <2> HIDE DEF i
  <2>4. CASE i = 0
    <3>1. KeyCompare(recs[1], q) = 1 /\ recs[1] = s[at + 1]
      <4> HIDE DEF s
      <4>1. 1 \in 1..(Len(s) - at)
        BY <1>0, <1>3
      <4> QED BY <2>1, <2>2, <2>4, <4>1
    <3>2. at = 0
      <4> HIDE DEF s
      <4>1. KeyCompare(s[at + 1], q) = 1
        BY <3>1
      <4>2. 1 \notin {-1, 0}
        OBVIOUS
      <4> QED BY <1>3, <4>1, <4>2
    <3>3. s[1].key = sections[1][1].key
      BY <1>0 DEF IsIndex
    <3>4. KeyCompare(sections[1][1], q) = 1
      <4>1. KeyCompare(s[1], q) = 1
        <5> HIDE DEF s
        <5> QED BY <3>1, <3>2
      <4>2. KeyCompare(s[1], q) = KeyCompare(sections[1][1], q)
        BY <3>3, ComparedByKey
      <4> QED BY <4>1, <4>2
    <3> QED BY <2>3, <2>4, <3>4 DEF GoodAt
  <2>5. CASE i # 0
    <3> DEFINE r == s[at + i]
    <3>1. /\ at + i \in 1..Len(s) /\ recs[i] = r
          /\ KeyCompare(r, q) \in {-1, 0}
      <4> HIDE DEF s
      <4>1. i \in 1..(Len(s) - at)
        BY <1>0, <1>3, <2>1, <2>2, <2>5
      <4> QED BY <2>1, <2>2, <2>5, <4>1
    <3>2. r \in Rec(W) /\ r.child \in Nat
      <4>1. r \in Rec(W)
        <5> HIDE DEF s
        <5> QED BY <1>0, <3>1
      <4> HIDE DEF r
      <4> QED BY <4>1 DEF Rec
    <3>3. Points(r, below)
      BY <3>1 DEF IsIndex
    <3>4. r \in Parents(sections)
      <4>1. DOMAIN s = 1..Len(s)
        <5> HIDE DEF s
        <5> QED BY <1>0
      <4>2. r \in {sections[k][j] : j \in DOMAIN sections[k]}
        BY <3>1, <4>1
      <4> HIDE DEF r, s
      <4> QED BY <4>2 DEF Parents
    <3>5. Descend(s, at, q) = r.child
      <4> HIDE DEF s, r
      <4> QED BY <2>3, <2>5, <3>1
    <3> HIDE DEF r
    <3>6. r.child < Len(below) /\ below[r.child + 1].key = r.key
      BY <3>3 DEF Points
    <3>7. KeyCompare(below[r.child + 1], q) \in {-1, 0}
      <4>1. KeyCompare(below[r.child + 1], q) = KeyCompare(r, q)
        BY <3>6, ComparedByKey
      <4> QED BY <3>1, <4>1
    <3>8. \E x \in Parents(sections) : x.key = below[r.child + 1].key
      BY <3>4, <3>6
    <3>9. GoodAt(sections, q, k, r.child)
      BY <1>0, <3>2, <3>6, <3>7, <3>8 DEF GoodAt
    <3> QED BY <3>5, <3>9
  <2> QED BY <2>4, <2>5
<1>4. \/ at = NotFound /\ KeyCompare(sections[1][1], q) = 1
      \/ /\ at \in Nat /\ at < Len(sections[Below(k - 1, n)])
         /\ k - 1 = 1 => at = 0
         /\ k - 1 # 1 => KeyCompare(sections[Below(k - 1, n)][at + 1], q) \in {-1, 0}
  BY DEF GoodAt
<1> QED BY <1>1, <1>2, <1>3, <1>4

\* So a search ends at such a place in the base.
LEMMA SearchIsGood ==
  ASSUME NEW W \in {1, 2}, NEW m \in {1, 2}, m <= W, NEW q, IsQuery(q, m),
         NEW K, NEW sections, IsIndex(W, sections, K), Len(sections) > 0
  PROVE  GoodAt(sections, q, Len(sections), Search(sections, q))
<1> DEFINE n == Len(sections)
<1>1. n \in Nat /\ n > 0
  BY DEF IsIndex
<1>2. PICK off : Descent(sections, q, off) /\ Search(sections, q) = off[n]
  BY <1>1, SearchEnds
<1> DEFINE T == {k \in 1..n : ~GoodAt(sections, q, k, off[k])}
<1> HIDE DEF n
<1>3. off[1] = 0 /\ \A k \in 2..n : off[k] = Descend(sections[k], off[k-1], q)
  BY <1>1, <1>2 DEF Descent, n
<1>4. GoodAt(sections, q, 1, 0)
  <2>1. Below(1, n) \in 1..n
    BY <1>1 DEF Below
  <2>2. Len(sections[Below(1, n)]) > 0
    BY <2>1 DEF IsIndex, n
  <2> QED BY <2>2 DEF GoodAt, n
<1>5. T = {}
  <2>1. SUFFICES ASSUME T # {} PROVE FALSE
    OBVIOUS
  <2>2. T \subseteq Nat
    BY <1>1
  <2>3. PICK k \in T : \A j \in T : k <= j
    <3> HIDE DEF T
    <3> QED BY <2>1, <2>2, LeastNumber
  <2>4. k \in 1..n /\ ~GoodAt(sections, q, k, off[k])
    BY <2>3 DEF T
  <2>5. k # 1
    BY <1>3, <1>4, <2>4
  <2>6. k \in 2..n /\ k - 1 \in 1..n /\ ~(k <= k - 1)
    BY <1>1, <2>4, <2>5
  <2>7. GoodAt(sections, q, k - 1, off[k - 1])
    BY <2>3, <2>6 DEF T
  <2>8. GoodAt(sections, q, k, Descend(sections[k], off[k-1], q))
    BY <2>6, <2>7, DescendKeeps DEF n
  <2> QED BY <1>3, <2>4, <2>6, <2>8
<1>6. GoodAt(sections, q, n, off[n])
  <2>1. n \in 1..n
    BY <1>1
  <2> QED BY <1>5, <2>1
<1> QED BY <1>2, <1>6 DEF n

-----------------------------------------------------------------------------
(***************************************************************************)
(* What is found from there                                                *)
(***************************************************************************)
\* Of the keys of K, those that match a query.
Matching(K, q) == {k \in K : Agrees(k, q)}

\* In a base, the records that match a query come before any that is above it, and
\* after any that is below it and has no unset column.
LEMMA MatchesInPlace ==
  ASSUME NEW W \in {1, 2}, NEW m \in {1, 2}, m <= W, NEW q, IsQuery(q, m),
         NEW K, NEW recs \in Seq(Rec(W)), HasKeys(K, recs),
         NEW i \in 1..Len(recs), NEW p \in 1..Len(recs), KeyCompare(recs[p], q) = 0
  PROVE  /\ KeyCompare(recs[i], q) = 1 => p < i
         /\ KeyCompare(recs[i], q) = -1 /\ ~Unset(recs[i].key) => i < p
<1>1. recs[i] \in Rec(W) /\ recs[p] \in Rec(W)
  OBVIOUS
<1>2. recs[i].key \in KeysOf(W) /\ recs[p].key \in KeysOf(W)
  BY <1>1 DEF Rec
<1>3. Agrees(recs[p].key, q)
  BY <1>1, Compared
<1>4. /\ KeyCompare(recs[i], q) = 1 => SortsBefore(recs[p].key, recs[i].key)
      /\ KeyCompare(recs[i], q) = -1 /\ ~Unset(recs[i].key) => SortsBefore(recs[i].key, recs[p].key)
  BY <1>1, <1>2, <1>3, Compared
<1>5. /\ i < p => SortsBefore(recs[i].key, recs[p].key)
      /\ p < i => SortsBefore(recs[p].key, recs[i].key)
  BY DEF HasKeys
<1>6. /\ ~SortsBefore(recs[i].key, recs[i].key)
      /\ ~(SortsBefore(recs[i].key, recs[p].key) /\ SortsBefore(recs[p].key, recs[i].key))
  BY <1>2, SortIsTotal
<1>7. i < p \/ p < i \/ i = p
  OBVIOUS
<1> HIDE DEF Unset
<1> QED BY <1>4, <1>5, <1>6, <1>7

\* What a lookup returns matches (Finder.LookupAll, also when it reads less than
\* the whole of the base).
LEMMA HitsMatch ==
  ASSUME NEW W \in {1, 2}, NEW m \in {1, 2}, m <= W, NEW q, IsQuery(q, m),
         NEW K, NEW recs \in Seq(Rec(W)), \A i \in 1..Len(recs) : recs[i].key \in K
  PROVE  HitsIn(recs, q) \subseteq Matching(K, q)
<1>1. SUFFICES ASSUME NEW h \in HitsIn(recs, q)
               PROVE  h \in Matching(K, q)
  OBVIOUS
<1>2. PICK n \in DOMAIN recs : KeyCompare(recs[n], q) = 0 /\ h = recs[n].key
  BY <1>1 DEF HitsIn
<1>3. n \in 1..Len(recs) /\ recs[n] \in Rec(W)
  OBVIOUS
<1>4. Agrees(recs[n].key, q)
  BY <1>2, <1>3, Compared
<1> QED BY <1>2, <1>3, <1>4 DEF Matching

\* It returns every record that matches, from where it reads on, as none of the
\* records before one that matches is above the query.
LEMMA HitsAreAll ==
  ASSUME NEW W \in {1, 2}, NEW m \in {1, 2}, m <= W, NEW q, IsQuery(q, m),
         NEW K, NEW base \in Seq(Rec(W)), HasKeys(K, base),
         NEW at \in Nat, at < Len(base), NEW p \in (at + 1)..Len(base), KeyCompare(base[p], q) = 0
  PROVE  base[p].key \in HitsIn(SectionFrom(base, at), q)
<1> DEFINE recs == SectionFrom(base, at)
<1>1. /\ recs \in Seq(Rec(W)) /\ Len(recs) = Len(base) - at
      /\ \A i \in 1..(Len(base) - at) : recs[i] = base[at + i] /\ at + i \in 1..Len(base)
  BY ReadFrom
<1> HIDE DEF recs
<1>2. /\ Len(base) \in Nat /\ p - at \in 1..(Len(base) - at) /\ at + (p - at) = p
      /\ p \in 1..Len(base) /\ DOMAIN recs = 1..(Len(base) - at)
  BY <1>1
<1>3. recs[p - at] = base[p]
  BY <1>1, <1>2
<1>4. ASSUME NEW j \in 1..(p - at)
      PROVE  KeyCompare(recs[j], q) <= 0
  <2>1. /\ j \in 1..(Len(base) - at) /\ ~(p < at + j)
    BY <1>2
  <2>2. recs[j] = base[at + j] /\ at + j \in 1..Len(base)
    BY <1>1, <2>1
  <2>3. KeyCompare(base[at + j], q) # 1
    BY <1>2, <2>1, <2>2, MatchesInPlace
  <2>4. base[at + j] \in Rec(W)
    BY <2>2
  <2>5. KeyCompare(base[at + j], q) \in {-1, 0, 1}
    BY <2>4, Compared
  <2> QED BY <2>2, <2>3, <2>5
<1>5. base[p].key \in HitsIn(recs, q)
  <2>1. p - at \in DOMAIN recs /\ KeyCompare(recs[p - at], q) = 0 /\ recs[p - at].key = base[p].key
    BY <1>2, <1>3
  <2> QED BY <1>4, <2>1 DEF HitsIn
<1> QED BY <1>5 DEF recs

\* Where a search of an index begins to read the base, and what that says of the
\* records before: none matches, unless the place itself does and so does a record
\* above the base.
LEMMA WhereToRead ==
  ASSUME NEW W \in {1, 2}, NEW m \in {1, 2}, m <= W, NEW q, IsQuery(q, m),
         NEW K, K \subseteq KeysOf(W), NEW sections, IsIndex(W, sections, K), Len(sections) > 0
  PROVE  LET s == Search(sections, q)
             base == sections[1]
         IN  \/ s = NotFound /\ \A p \in 1..Len(base) : KeyCompare(base[p], q) # 0
             \/ /\ s # NotFound /\ s \in Nat /\ s < Len(base)
                /\ ~UnsetAbove(sections) =>
                     \/ \A p \in 1..Len(base) : KeyCompare(base[p], q) = 0 => p \in (s + 1)..Len(base)
                     \/ /\ KeyCompare(base[s + 1], q) = 0
                        /\ \E r \in Parents(sections) : KeyCompare(r, q) = 0
<1> DEFINE n == Len(sections)
           s == Search(sections, q)
           base == sections[1]
<1>1. /\ n \in Nat /\ n > 0 /\ base \in Seq(Rec(W)) /\ HasKeys(K, base) /\ Len(base) \in Nat
      /\ Len(base) > 0
  <2>1. sections \in Seq(Seq(Rec(W))) /\ n \in Nat /\ n > 0
    BY DEF IsIndex
  <2>2. 1 \in 1..n
    BY <2>1
  <2>3. base \in Seq(Rec(W)) /\ Len(base) > 0
    BY <2>1, <2>2 DEF IsIndex
  <2> QED BY <2>1, <2>3 DEF IsIndex
<1>2. Below(n, n) = 1
  BY DEF Below
<1>3. GoodAt(sections, q, n, s)
  BY SearchIsGood
<1> HIDE DEF s, base, n
<1>4. CASE s = NotFound /\ KeyCompare(base[1], q) = 1
  <2>1. ASSUME NEW p \in 1..Len(base), KeyCompare(base[p], q) = 0
        PROVE  FALSE
    <3>1. 1 \in 1..Len(base) /\ ~(p < 1)
      BY <1>1
    <3> QED BY <1>1, <1>4, <2>1, <3>1, MatchesInPlace
  <2> QED BY <1>4, <2>1 DEF s, base
<1>5. CASE /\ s \in Nat /\ s < Len(base)
           /\ n = 1 => s = 0
           /\ n # 1 => /\ KeyCompare(base[s + 1], q) \in {-1, 0}
                       /\ \E r \in Parents(sections) : r.key = base[s + 1].key
  <2>1. s # NotFound /\ s + 1 \in 1..Len(base)
    BY <1>1, <1>5 DEF NotFound
  <2>2. ASSUME ~UnsetAbove(sections)
        PROVE  \/ \A p \in 1..Len(base) : KeyCompare(base[p], q) = 0 => p \in (s + 1)..Len(base)
               \/ /\ KeyCompare(base[s + 1], q) = 0
                  /\ \E r \in Parents(sections) : KeyCompare(r, q) = 0
    <3>1. CASE s = 0
      <4>1. \A p \in 1..Len(base) : p \in (s + 1)..Len(base)
        BY <3>1
      <4> QED BY <4>1
    <3>2. CASE s # 0
      <4>1. PICK r \in Parents(sections) : r.key = base[s + 1].key
        BY <1>5, <3>2
      <4>2. KeyCompare(r, q) = KeyCompare(base[s + 1], q)
        BY <4>1, ComparedByKey
      <4>3. ~Unset(base[s + 1].key)
        <5>1. ~Unset(r.key)
          BY <2>2 DEF UnsetAbove
        <5> QED BY <4>1, <5>1
      <4>4. KeyCompare(base[s + 1], q) \in {-1, 0}
        BY <1>5, <3>2
      <4>5. CASE KeyCompare(base[s + 1], q) = -1
        <5>1. ASSUME NEW p \in 1..Len(base), KeyCompare(base[p], q) = 0
              PROVE  s + 1 < p
          BY <1>1, <2>1, <4>3, <4>5, <5>1, MatchesInPlace
        <5>2. \A p \in 1..Len(base) : s + 1 < p => p \in (s + 1)..Len(base)
          BY <1>1, <1>5
        <5> QED BY <5>1, <5>2
      <4>6. CASE KeyCompare(base[s + 1], q) = 0
        BY <4>2, <4>6
      <4> QED BY <4>4, <4>5, <4>6
    <3> QED BY <3>1, <3>2
  <2> QED BY <1>5, <2>1, <2>2 DEF s, base
<1>6. \/ s = NotFound /\ KeyCompare(base[1], q) = 1
      \/ /\ s \in Nat /\ s < Len(base)
         /\ n = 1 => s = 0
         /\ n # 1 => /\ KeyCompare(base[s + 1], q) \in {-1, 0}
                     /\ \E r \in Parents(sections) : r.key = base[s + 1].key
  BY <1>2, <1>3 DEF GoodAt, base, n
<1> QED BY <1>4, <1>5, <1>6

\* The keys of K are those of the records of the base.
LEMMA KeysOfBase ==
  ASSUME NEW W \in {1, 2}, NEW m \in {1, 2}, m <= W, NEW q, IsQuery(q, m),
         NEW K, NEW base \in Seq(Rec(W)), HasKeys(K, base), NEW k \in Matching(K, q)
  PROVE  \E p \in 1..Len(base) : base[p].key = k /\ KeyCompare(base[p], q) = 0
<1>1. k \in K /\ Agrees(k, q)
  BY DEF Matching
<1>2. PICK p \in 1..Len(base) : base[p].key = k
  BY <1>1 DEF HasKeys
<1>3. base[p] \in Rec(W)
  OBVIOUS
<1>4. KeyCompare(base[p], q) = 0
  BY <1>1, <1>2, <1>3, Compared
<1> QED BY <1>2, <1>4

\* Without unset columns above the base, a search for all that matches returns
\* something when there is something, and everything unless a frame begins there.
LEMMA AllLookup ==
  ASSUME NEW W \in {1, 2}, NEW m \in {1, 2}, m <= W, NEW q, IsQuery(q, m),
         NEW K, K \subseteq KeysOf(W), NEW sections, IsIndex(W, sections, K)
  PROVE  /\ LookupAll(sections, q).hits \subseteq Matching(K, q)
         /\ ~UnsetAbove(sections) =>
              /\ LookupAll(sections, q).hits = {} => Matching(K, q) = {}
              /\ (\A r \in Parents(sections) : KeyCompare(r, q) # 0) =>
                    LookupAll(sections, q).hits = Matching(K, q)
         /\ LookupAll(sections, q).err => sections # <<>>
<1> DEFINE s == Search(sections, q)
           base == sections[1]
           M == Matching(K, q)
           R == LookupAll(sections, q)
<1>1. CASE sections = <<>>
  <2>1. Len(sections) = 0
    BY <1>1
  <2>2. K = {}
    BY <2>1 DEF IsIndex
  <2>3. R = [err |-> FALSE, hits |-> {}]
    BY <1>1 DEF LookupAll
  <2>4. R.hits = {} /\ ~R.err /\ M = {}
    BY <2>2, <2>3 DEF Matching
  <2> HIDE DEF R, M
  <2>5. /\ R.hits \subseteq M
        /\ ~UnsetAbove(sections) =>
              /\ R.hits = {} => M = {}
              /\ (\A r \in Parents(sections) : KeyCompare(r, q) # 0) => R.hits = M
        /\ R.err => sections # <<>>
    BY <2>4
  <2> QED BY <2>5 DEF R, M
<1>2. CASE sections # <<>>
  <2>1. /\ Len(sections) \in Nat /\ Len(sections) > 0
        /\ base \in Seq(Rec(W)) /\ HasKeys(K, base) /\ Len(base) \in Nat
    <3>1. sections \in Seq(Seq(Rec(W)))
      BY DEF IsIndex
    <3>2. Len(sections) \in Nat /\ Len(sections) > 0
      BY <1>2, <3>1, EmptySeq
    <3>3. base \in Seq(Rec(W))
      BY <3>1, <3>2
    <3> QED BY <3>2, <3>3 DEF IsIndex
  <2>2. \/ s = NotFound /\ \A p \in 1..Len(base) : KeyCompare(base[p], q) # 0
        \/ /\ s # NotFound /\ s \in Nat /\ s < Len(base)
           /\ ~UnsetAbove(sections) =>
                \/ \A p \in 1..Len(base) : KeyCompare(base[p], q) = 0 => p \in (s + 1)..Len(base)
                \/ /\ KeyCompare(base[s + 1], q) = 0
                   /\ \E r \in Parents(sections) : KeyCompare(r, q) = 0
    BY <2>1, WhereToRead
  <2> HIDE DEF base
  <2>3. CASE s = NotFound /\ \A p \in 1..Len(base) : KeyCompare(base[p], q) # 0
    <3>1. R = [err |-> TRUE, hits |-> {}]
      BY <1>2, <2>3 DEF LookupAll
    <3>2. M = {}
      <4>1. \A k \in M : \E p \in 1..Len(base) : base[p].key = k /\ KeyCompare(base[p], q) = 0
        BY <2>1, KeysOfBase
      <4> HIDE DEF M
      <4> QED BY <2>3, <4>1
    <3>3. R.hits = {}
      BY <3>1
    <3> HIDE DEF R, M
    <3>4. /\ R.hits \subseteq M
          /\ ~UnsetAbove(sections) =>
              /\ R.hits = {} => M = {}
              /\ (\A r \in Parents(sections) : KeyCompare(r, q) # 0) => R.hits = M
      BY <3>2, <3>3
    <3> QED BY <1>2, <3>4 DEF R, M
  <2>4. CASE /\ s # NotFound /\ s \in Nat /\ s < Len(base)
             /\ ~UnsetAbove(sections) =>
                  \/ \A p \in 1..Len(base) : KeyCompare(base[p], q) = 0 => p \in (s + 1)..Len(base)
                  \/ /\ KeyCompare(base[s + 1], q) = 0
                     /\ \E r \in Parents(sections) : KeyCompare(r, q) = 0
    <3> DEFINE recs == SectionFrom(base, s)
               H == HitsIn(recs, q)
    <3>1. R = [err |-> FALSE, hits |-> H]
      BY <1>2, <2>4 DEF LookupAll, base
    <3>2. R.hits = H /\ ~R.err
      BY <3>1
    <3> HIDE DEF s
    <3>3. H \subseteq M
      <4>1. /\ recs \in Seq(Rec(W)) /\ Len(recs) = Len(base) - s
            /\ \A i \in 1..(Len(base) - s) : recs[i] = base[s + i] /\ s + i \in 1..Len(base)
        BY <2>1, <2>4, ReadFrom
      <4> HIDE DEF recs
      <4>2. \A i \in 1..Len(recs) : recs[i].key \in K
        <5>1. ASSUME NEW i \in 1..Len(recs)
              PROVE  recs[i].key \in K
          <6>1. recs[i] = base[s + i] /\ s + i \in 1..Len(base)
            BY <4>1
          <6> QED BY <2>1, <6>1 DEF HasKeys
        <5> QED BY <5>1
      <4> QED BY <4>1, <4>2, HitsMatch
    <3>4. ASSUME NEW p \in (s + 1)..Len(base), KeyCompare(base[p], q) = 0
          PROVE  base[p].key \in H
      BY <2>1, <2>4, <3>4, HitsAreAll
    <3> HIDE DEF R, H, recs
    <3>5. ASSUME \A p \in 1..Len(base) : KeyCompare(base[p], q) = 0 => p \in (s + 1)..Len(base)
          PROVE  H = M
      <4>1. ASSUME NEW k \in M
            PROVE  k \in H
        <5>1. PICK p \in 1..Len(base) : base[p].key = k /\ KeyCompare(base[p], q) = 0
          BY <2>1, KeysOfBase
        <5> QED BY <3>4, <3>5, <5>1
      <4> HIDE DEF M
      <4> QED BY <3>3, <4>1
    <3>6. ASSUME KeyCompare(base[s + 1], q) = 0
          PROVE  H # {}
      <4>1. s + 1 \in (s + 1)..Len(base)
        BY <2>1, <2>4
      <4> QED BY <3>4, <3>6, <4>1
    <3> HIDE DEF M
    <3>7. ~UnsetAbove(sections) =>
              /\ R.hits = {} => M = {}
              /\ (\A r \in Parents(sections) : KeyCompare(r, q) # 0) => R.hits = M
      BY <2>4, <3>2, <3>5, <3>6
    <3> QED BY <3>2, <3>3, <3>7 DEF R, M
  <2> QED BY <2>2, <2>3, <2>4
<1> QED BY <1>1, <1>2

\* A key is found when it is there and only then (Finder.Lookup).
LEMMA KeyLookup ==
  ASSUME NEW W \in {1, 2}, NEW q, IsQuery(q, W),
         NEW K, K \subseteq KeysOf(W), NEW sections, IsIndex(W, sections, K),
         ~UnsetAbove(sections)
  PROVE  LookupIn(sections, q, TRUE) = Matching(K, q)
<1> DEFINE s == Search(sections, q)
           base == sections[1]
           M == Matching(K, q)
           R == LookupIn(sections, q, TRUE)
<1>0. ASSUME NEW k \in M
      PROVE  M = {k}
  <2>1. \A x \in M : x \in KeysOf(W) /\ Agrees(x, q)
    BY DEF Matching
  <2>2. \A x \in M : x = q
    BY <2>1, WholeQuery
  <2> HIDE DEF M
  <2> QED BY <1>0, <2>2
<1>1. CASE sections = <<>>
  <2>1. Len(sections) = 0
    BY <1>1
  <2>2. K = {}
    BY <2>1 DEF IsIndex
  <2> QED BY <1>1, <2>2 DEF LookupIn, Matching
<1>2. CASE sections # <<>>
  <2>1. /\ Len(sections) \in Nat /\ Len(sections) > 0
        /\ base \in Seq(Rec(W)) /\ HasKeys(K, base) /\ Len(base) \in Nat
    <3>1. sections \in Seq(Seq(Rec(W)))
      BY DEF IsIndex
    <3>2. Len(sections) \in Nat /\ Len(sections) > 0
      BY <1>2, <3>1, EmptySeq
    <3>3. base \in Seq(Rec(W))
      BY <3>1, <3>2
    <3> QED BY <3>2, <3>3 DEF IsIndex
  <2>2. \/ s = NotFound /\ \A p \in 1..Len(base) : KeyCompare(base[p], q) # 0
        \/ /\ s # NotFound /\ s \in Nat /\ s < Len(base)
           /\ \/ \A p \in 1..Len(base) : KeyCompare(base[p], q) = 0 => p \in (s + 1)..Len(base)
              \/ KeyCompare(base[s + 1], q) = 0
    <3>1. W <= W
      OBVIOUS
    <3>2. \/ s = NotFound /\ \A p \in 1..Len(base) : KeyCompare(base[p], q) # 0
          \/ /\ s # NotFound /\ s \in Nat /\ s < Len(base)
             /\ ~UnsetAbove(sections) =>
                  \/ \A p \in 1..Len(base) : KeyCompare(base[p], q) = 0 => p \in (s + 1)..Len(base)
                  \/ /\ KeyCompare(base[s + 1], q) = 0
                     /\ \E r \in Parents(sections) : KeyCompare(r, q) = 0
      BY <2>1, <3>1, WhereToRead
    <3> QED BY <3>2
  <2>3. CASE s = NotFound /\ \A p \in 1..Len(base) : KeyCompare(base[p], q) # 0
    <3>1. R = {}
      BY <1>2, <2>3 DEF LookupIn
    <3>2. \A k \in M : \E p \in 1..Len(base) : base[p].key = k /\ KeyCompare(base[p], q) = 0
      <4>1. W <= W
        OBVIOUS
      <4> HIDE DEF base
      <4> QED BY <2>1, <4>1, KeysOfBase
    <3>3. M = {}
      <4> HIDE DEF M, base
      <4> QED BY <2>3, <3>2
    <3> QED BY <3>1, <3>3
  <2>4. CASE /\ s # NotFound /\ s \in Nat /\ s < Len(base)
             /\ \/ \A p \in 1..Len(base) : KeyCompare(base[p], q) = 0 => p \in (s + 1)..Len(base)
                \/ KeyCompare(base[s + 1], q) = 0
    <3> DEFINE recs == SectionFrom(base, s)
               i == Lookup1(recs, q, TRUE)
    <3>1. R = IF i = 0 THEN {} ELSE {recs[i].key}
      BY <1>2, <2>4 DEF LookupIn, Found
    <3> HIDE DEF s, base, R
    <3>2. /\ recs \in Seq(Rec(W)) /\ Len(recs) = Len(base) - s
          /\ \A j \in 1..(Len(base) - s) : recs[j] = base[s + j] /\ s + j \in 1..Len(base)
      BY <2>1, <2>4, ReadFrom
    <3> HIDE DEF recs
    <3>3. /\ i \in 0..Len(recs)
          /\ i # 0 => KeyCompare(recs[i], q) = 0
          /\ \A p \in 1..Len(recs) :
               KeyCompare(recs[p], q) = 0 /\ (\A j \in 1..(p - 1) : KeyCompare(recs[j], q) = -1) => i = p
      <4>1. W <= W
        OBVIOUS
      <4> QED BY <3>2, <4>1, ExactLookup
    <3> HIDE DEF i
    <3>4. ASSUME i # 0
          PROVE  recs[i].key \in M
      <4>1. i \in 1..(Len(base) - s)
        BY <2>1, <2>4, <3>2, <3>3, <3>4
      <4>2. recs[i] = base[s + i] /\ s + i \in 1..Len(base) /\ KeyCompare(recs[i], q) = 0
        BY <3>2, <3>3, <3>4, <4>1
      <4>3. recs[i].key \in K
        BY <2>1, <4>2 DEF HasKeys
      <4>4. recs[i] \in Rec(W)
        BY <2>1, <4>2
      <4>5. Agrees(recs[i].key, q)
        <5>1. W <= W
          OBVIOUS
        <5> QED BY <4>2, <4>4, <5>1, Compared
      <4> QED BY <4>3, <4>5 DEF Matching
    <3>5. ASSUME i = 0
          PROVE  M = {}
      <4>1. SUFFICES ASSUME NEW k \in M PROVE FALSE
        OBVIOUS
      <4>2. PICK p \in 1..Len(base) : base[p].key = k /\ KeyCompare(base[p], q) = 0
        <5>1. W <= W
          OBVIOUS
        <5> QED BY <2>1, <5>1, KeysOfBase
      <4>3. \E x \in 1..(Len(base) - s) : KeyCompare(base[s + x], q) = 0
        <5>1. CASE KeyCompare(base[s + 1], q) = 0
          <6>1. 1 \in 1..(Len(base) - s)
            BY <2>1, <2>4
          <6> QED BY <5>1, <6>1
        <5>2. CASE p \in (s + 1)..Len(base)
          <6>1. p - s \in 1..(Len(base) - s) /\ s + (p - s) = p
            BY <2>1, <2>4, <5>2
          <6> QED BY <4>2, <6>1
        <5> QED BY <2>4, <4>2, <5>1, <5>2
      <4>4. PICK x \in 1..(Len(base) - s) : KeyCompare(base[s + x], q) = 0
        BY <4>3
      <4>5. KeyCompare(recs[x], q) = 0 /\ x \in 1..Len(recs) /\ s + x \in 1..Len(base)
            /\ base[s + x] \in Rec(W) /\ x # 0
        BY <2>1, <3>2, <4>4
      <4>6. ASSUME NEW j \in 1..(x - 1)
            PROVE  KeyCompare(recs[j], q) = -1
        <5>1. /\ j \in 1..(Len(base) - s) /\ s + j < s + x /\ s + j \in 1..Len(base)
          BY <2>1, <2>4
        <5>2. recs[j] = base[s + j] /\ base[s + j] \in Rec(W)
          BY <2>1, <3>2, <5>1
        <5>3. KeyCompare(base[s + j], q) # 1
          <6>1. W <= W /\ ~(s + x < s + j)
            BY <2>4, <5>1
          <6> QED BY <2>1, <4>4, <4>5, <5>1, <6>1, MatchesInPlace
        <5>4. KeyCompare(base[s + j], q) # 0
          <6>1. SUFFICES ASSUME KeyCompare(base[s + j], q) = 0 PROVE FALSE
            OBVIOUS
          <6>2. W <= W
            OBVIOUS
          <6>3. base[s + j].key \in KeysOf(W) /\ base[s + x].key \in KeysOf(W)
            BY <4>5, <5>2 DEF Rec
          <6>4. Agrees(base[s + j].key, q) /\ Agrees(base[s + x].key, q)
            BY <4>4, <4>5, <5>2, <6>1, <6>2, Compared
          <6>5. base[s + j].key = q /\ base[s + x].key = q
            BY <6>3, <6>4, WholeQuery
          <6>6. SortsBefore(base[s + j].key, base[s + x].key)
            BY <2>1, <4>5, <5>1 DEF HasKeys
          <6> QED BY <6>3, <6>5, <6>6, SortIsTotal
        <5>5. KeyCompare(base[s + j], q) \in {-1, 0, 1}
          <6>1. W <= W
            OBVIOUS
          <6> QED BY <5>2, <6>1, Compared
        <5> QED BY <5>2, <5>3, <5>4, <5>5
      <4> QED BY <3>3, <3>5, <4>5, <4>6
    <3>6. R = M
      <4> HIDE DEF M
      <4> QED BY <1>0, <3>1, <3>4, <3>5
    <3> QED BY <3>6 DEF R
  <2> QED BY <2>2, <2>3, <2>4
<1> QED BY <1>1, <1>2

\* The keys of K that are not above the query, and the largest of them.
NotAbove(K, q) == {k \in K : k = q \/ SortsBefore(k, q)}
Largest(B) == {k \in B : \A j \in B : j = k \/ SortsBefore(j, k)}

\* The p-th record is the last of those with a key in B.
LastIn(base, B, p) ==
  /\ p \in 1..Len(base) /\ base[p].key \in B
  /\ \A x \in 1..Len(base) : base[x].key \in B => x <= p

\* A record without unset columns is on the side of a whole query that the sort
\* puts it on.
LEMMA SideOfQuery ==
  ASSUME NEW W \in {1, 2}, NEW q, IsQuery(q, W), NEW r \in Rec(W), ~Unset(r.key)
  PROVE  /\ KeyCompare(r, q) \in {-1, 0, 1}
         /\ KeyCompare(r, q) \in {-1, 0} <=> r.key = q \/ SortsBefore(r.key, q)
<1>1. W <= W
  OBVIOUS
<1>2. q \in KeysOf(W) /\ Agrees(q, q) /\ r.key \in KeysOf(W) /\ (Agrees(r.key, q) => r.key = q)
  BY WholeQuery DEF Rec
<1>3. /\ KeyCompare(r, q) \in {-1, 0, 1}
      /\ KeyCompare(r, q) = 0 <=> Agrees(r.key, q)
      /\ KeyCompare(r, q) = 1 => SortsBefore(q, r.key)
      /\ KeyCompare(r, q) = -1 => SortsBefore(r.key, q)
  BY <1>1, <1>2, Compared
<1>4. ~SortsBefore(q, q) /\ ~(SortsBefore(r.key, q) /\ SortsBefore(q, r.key))
  BY <1>2, SortIsTotal
<1>5. KeyCompare(r, q) = 1 => ~(KeyCompare(r, q) \in {-1, 0})
  OBVIOUS
<1> HIDE DEF Unset, Agrees
<1> QED BY <1>2, <1>3, <1>4, <1>5

\* The last record of a base that is not above the query has the largest such key.
LEMMA LastIsLargest ==
  ASSUME NEW W \in {1, 2}, NEW K, K \subseteq KeysOf(W), NEW base \in Seq(Rec(W)), HasKeys(K, base),
         NEW B, B \subseteq K, NEW p, LastIn(base, B, p)
  PROVE  Largest(B) = {base[p].key}
<1> DEFINE b == base[p].key
<1>0. p \in 1..Len(base) /\ b \in B /\ \A x \in 1..Len(base) : base[x].key \in B => x <= p
  BY DEF LastIn
<1>1. ASSUME NEW j \in B
      PROVE  j = b \/ SortsBefore(j, b)
  <2>1. PICK x \in 1..Len(base) : base[x].key = j
    BY DEF HasKeys
  <2>2. x <= p
    BY <1>0, <2>1
  <2>3. x = p \/ x < p
    BY <1>0, <2>2
  <2>4. x < p => SortsBefore(base[x].key, base[p].key)
    BY <1>0 DEF HasKeys
  <2> QED BY <2>1, <2>3, <2>4
<1>2. ASSUME NEW k \in Largest(B)
      PROVE  k = b
  <2>1. k \in B /\ (b = k \/ SortsBefore(b, k))
    BY <1>0, <1>2 DEF Largest
  <2>2. k = b \/ SortsBefore(k, b)
    BY <1>1, <2>1
  <2>3. k \in KeysOf(W) /\ b \in KeysOf(W)
    BY <1>0, <2>1
  <2>4. ~(SortsBefore(b, k) /\ SortsBefore(k, b))
    BY <2>3, SortIsTotal
  <2> QED BY <2>1, <2>2, <2>4
<1>3. b \in Largest(B)
  BY <1>0, <1>1 DEF Largest
<1> HIDE DEF b
<1>4. Largest(B) = {b}
  BY <1>2, <1>3
<1> QED BY <1>4 DEF b

\* The largest key that is not above the query is found (Finder.LookupClosest).
LEMMA ClosestKeyLookup ==
  ASSUME NEW W \in {1, 2}, NEW q, IsQuery(q, W),
         NEW K, K \subseteq KeysOf(W), NEW sections, IsIndex(W, sections, K),
         \A k \in K : ~Unset(k)
  PROVE  LookupIn(sections, q, FALSE) = Largest(NotAbove(K, q))
<1> DEFINE s == Search(sections, q)
           base == sections[1]
           B == NotAbove(K, q)
           R == LookupIn(sections, q, FALSE)
           n == Len(sections)
<1>0. W <= W /\ B \subseteq K
  BY DEF NotAbove
<1>1. CASE sections = <<>>
  <2>1. Len(sections) = 0
    BY <1>1
  <2>2. K = {}
    BY <2>1 DEF IsIndex
  <2> QED BY <1>1, <2>2 DEF LookupIn, NotAbove, Largest
<1>2. CASE sections # <<>>
  <2>1. /\ n \in Nat /\ n > 0
        /\ base \in Seq(Rec(W)) /\ HasKeys(K, base) /\ Len(base) \in Nat /\ Len(base) > 0
    <3>1. sections \in Seq(Seq(Rec(W)))
      BY DEF IsIndex
    <3>2. n \in Nat /\ n > 0
      BY <1>2, <3>1, EmptySeq
    <3>3. 1 \in 1..n
      BY <3>2
    <3>4. base \in Seq(Rec(W)) /\ Len(base) > 0
      BY <3>1, <3>3 DEF IsIndex
    <3> QED BY <3>2, <3>4 DEF IsIndex
  <2>2. \/ s = NotFound /\ KeyCompare(base[1], q) = 1
        \/ /\ s \in Nat /\ s < Len(base)
           /\ s = 0 \/ KeyCompare(base[s + 1], q) \in {-1, 0}
    <3>1. GoodAt(sections, q, n, s)
      BY <1>0, <2>1, SearchIsGood
    <3>2. Below(n, n) = 1
      BY DEF Below
    <3> QED BY <3>1, <3>2 DEF GoodAt
  <2>3. ASSUME NEW x \in 1..Len(base)
        PROVE  /\ base[x] \in Rec(W) /\ base[x].key \in KeysOf(W)
               /\ KeyCompare(base[x], q) \in {-1, 0, 1}
               /\ KeyCompare(base[x], q) \in {-1, 0} <=> base[x].key \in B
    <3> HIDE DEF base
    <3>1. base[x] \in Rec(W) /\ base[x].key \in K
      BY <2>1 DEF HasKeys
    <3>2. ~Unset(base[x].key) /\ base[x].key \in KeysOf(W)
      BY <3>1
    <3>3. /\ KeyCompare(base[x], q) \in {-1, 0, 1}
          /\ KeyCompare(base[x], q) \in {-1, 0} <=> base[x].key = q \/ SortsBefore(base[x].key, q)
      BY <3>1, <3>2, SideOfQuery
    <3>4. base[x].key \in B <=> base[x].key = q \/ SortsBefore(base[x].key, q)
      BY <3>1 DEF NotAbove
    <3> QED BY <3>1, <3>2, <3>3, <3>4
  <2> HIDE DEF B
  <2>4. ASSUME NEW x \in 1..Len(base), KeyCompare(base[x], q) \in {0, 1},
               NEW y \in 1..Len(base), x < y
        PROVE  base[y].key \notin B
    <3> HIDE DEF base
    <3>1. base[x] \in Rec(W) /\ base[x].key \in KeysOf(W) /\ base[y].key \in KeysOf(W)
      BY <2>3
    <3>2. SortsBefore(base[x].key, base[y].key)
      BY <2>1, <2>4 DEF HasKeys
    <3>3. q \in KeysOf(W) /\ Agrees(q, q) /\ (Agrees(base[x].key, q) => base[x].key = q)
      BY <3>1, WholeQuery
    <3>4. /\ KeyCompare(base[x], q) = 0 <=> Agrees(base[x].key, q)
          /\ KeyCompare(base[x], q) = 1 => SortsBefore(q, base[x].key)
      BY <1>0, <3>1, <3>3, Compared
    <3>5. SortsBefore(q, base[y].key)
      <4>1. q = base[x].key \/ SortsBefore(q, base[x].key)
        BY <2>4, <3>3, <3>4
      <4>2. SortsBefore(q, base[x].key) /\ SortsBefore(base[x].key, base[y].key)
              => SortsBefore(q, base[y].key)
        BY <3>1, <3>3, SortIsTotal
      <4> QED BY <3>2, <4>1, <4>2
    <3>6. ~SortsBefore(q, q) /\ ~(SortsBefore(base[y].key, q) /\ SortsBefore(q, base[y].key))
      BY <3>1, <3>3, SortIsTotal
    <3> QED BY <3>5, <3>6 DEF NotAbove, B
  <2>5. ASSUME KeyCompare(base[1], q) = 1
        PROVE  B = {}
    <3> HIDE DEF base
    <3>1. SUFFICES ASSUME NEW k \in B PROVE FALSE
      OBVIOUS
    <3>2. PICK y \in 1..Len(base) : base[y].key = k
      BY <1>0, <2>1, <3>1 DEF HasKeys
    <3>3. 1 \in 1..Len(base) /\ 1 \notin {-1, 0} /\ (y = 1 \/ 1 < y)
      BY <2>1
    <3>4. y = 1 => base[y].key \notin B
      BY <2>3, <2>5, <3>3
    <3>5. 1 < y => base[y].key \notin B
      BY <2>4, <2>5, <3>3
    <3> QED BY <3>1, <3>2, <3>3, <3>4, <3>5
  <2>6. CASE s = NotFound /\ KeyCompare(base[1], q) = 1
    <3>1. R = {}
      BY <1>2, <2>6 DEF LookupIn
    <3>2. B = {}
      BY <2>5, <2>6
    <3>3. Largest(B) = {}
      BY <3>2 DEF Largest
    <3> QED BY <3>1, <3>3 DEF B
  <2>7. CASE /\ s \in Nat /\ s < Len(base)
             /\ s = 0 \/ KeyCompare(base[s + 1], q) \in {-1, 0}
    <3> DEFINE recs == SectionFrom(base, s)
               i == Lookup1(recs, q, FALSE)
               p == s + i
    <3>1. R = IF i = 0 THEN {} ELSE {recs[i].key}
      <4>1. s # NotFound
        BY <2>7 DEF NotFound
      <4> QED BY <1>2, <4>1 DEF LookupIn, Found
    <3> HIDE DEF s, base, R
    <3>2. /\ recs \in Seq(Rec(W)) /\ Len(recs) = Len(base) - s
          /\ \A j \in 1..(Len(base) - s) : recs[j] = base[s + j] /\ s + j \in 1..Len(base)
      BY <2>1, <2>7, ReadFrom
    <3> HIDE DEF recs
    <3>3. /\ i \in 0..Len(recs)
          /\ i = 0 => KeyCompare(recs[1], q) = 1
          /\ i # 0 => KeyCompare(recs[i], q) \in {-1, 0}
          /\ i # 0 => \/ i = Len(recs) \/ KeyCompare(recs[i], q) = 0
                      \/ KeyCompare(recs[i + 1], q) = 1
      <4>1. Len(recs) > 0
        BY <2>1, <2>7, <3>2
      <4> QED BY <1>0, <3>2, <4>1, ClosestLookup
    <3> HIDE DEF i
    <3>4. CASE i = 0
      <4>1. 1 \in 1..(Len(base) - s) /\ 1 \notin {-1, 0}
        BY <2>1, <2>7
      <4>2. KeyCompare(base[s + 1], q) = 1
        BY <3>2, <3>3, <3>4, <4>1
      <4>3. s = 0
        BY <2>7, <4>1, <4>2
      <4>4. KeyCompare(base[1], q) = 1
        BY <4>2, <4>3
      <4>5. Largest(B) = {}
        BY <2>5, <4>4 DEF Largest
      <4>6. R = Largest(B)
        BY <3>1, <3>4, <4>5
      <4> QED BY <4>6 DEF R, B
    <3>5. CASE i # 0
      <4>1. i \in 1..(Len(base) - s)
        BY <2>1, <2>7, <3>2, <3>3, <3>5
      <4>2. recs[i] = base[p] /\ p \in 1..Len(base)
        BY <3>2, <4>1
      <4>3. base[p].key \in B
        <5> HIDE DEF p
        <5> QED BY <2>3, <3>3, <3>5, <4>2
      <4>4. ASSUME NEW x \in 1..Len(base), base[x].key \in B
            PROVE  x <= p
        <5>1. SUFFICES ASSUME p < x PROVE FALSE
          BY <4>2
        <5>2. i # Len(recs)
          BY <2>1, <2>7, <3>2, <5>1
        <5>3. KeyCompare(base[p], q) # 0
          <6>1. SUFFICES ASSUME KeyCompare(base[p], q) = 0 PROVE FALSE
            OBVIOUS
          <6> HIDE DEF p
          <6> QED BY <2>4, <4>2, <4>4, <5>1, <6>1
        <5>4. KeyCompare(recs[i + 1], q) = 1
          BY <3>3, <3>5, <4>2, <5>2, <5>3
        <5>5. /\ i + 1 \in 1..(Len(base) - s) /\ s + (i + 1) = p + 1
              /\ p + 1 \in 1..Len(base) /\ (x = p + 1 \/ p + 1 < x)
          BY <2>1, <2>7, <3>2, <4>1, <4>2, <5>1, <5>2
        <5>6. KeyCompare(base[p + 1], q) = 1
          <6>1. recs[i + 1] = base[s + (i + 1)]
            BY <3>2, <5>5
          <6> QED BY <5>4, <5>5, <6>1
        <5>7. x # p + 1
          <6>1. 1 \notin {-1, 0}
            OBVIOUS
          <6>2. base[p + 1].key \notin B
            <7> DEFINE z == p + 1
            <7>1. z \in 1..Len(base) /\ KeyCompare(base[z], q) = 1
              BY <5>5, <5>6
            <7> HIDE DEF z
            <7>2. base[z].key \notin B
              BY <2>3, <6>1, <7>1
            <7> QED BY <7>2 DEF z
          <6> QED BY <4>4, <6>2
        <5>8. ~(p + 1 < x)
          <6> DEFINE z == p + 1
          <6>1. z \in 1..Len(base) /\ KeyCompare(base[z], q) = 1
            BY <5>5, <5>6
          <6> HIDE DEF z
          <6>2. ~(z < x)
            BY <2>4, <4>4, <6>1
          <6> QED BY <6>2 DEF z
        <5> QED BY <5>5, <5>7, <5>8
      <4>5. Largest(B) = {base[p].key}
        <5> HIDE DEF p, B
        <5>1. B \subseteq K /\ LastIn(base, B, p)
          BY <1>0, <4>2, <4>3, <4>4 DEF LastIn
        <5>2. base \in Seq(Rec(W)) /\ HasKeys(K, base)
          BY <2>1
        <5> QED BY <5>1, <5>2, LastIsLargest
      <4>6. R = Largest(B)
        <5> HIDE DEF p
        <5> QED BY <3>1, <3>5, <4>2, <4>5
      <4> QED BY <4>6 DEF R, B
    <3> QED BY <3>4, <3>5
  <2> QED BY <2>2, <2>6, <2>7
<1> QED BY <1>1, <1>2

\* A record above the base has a key of the base.
LEMMA ParentsAreKeys ==
  ASSUME NEW W \in {1, 2}, NEW K, NEW sections, IsIndex(W, sections, K),
         NEW r \in Parents(sections)
  PROVE  r.key \in K
<1> DEFINE n == Len(sections)
           T == {d \in Nat : d < n /\ \E k \in 2..n : /\ n - k = d
                               /\ \E i \in 1..Len(sections[k]) : sections[k][i].key \notin K}
<1>1. n \in Nat /\ sections \in Seq(Seq(Rec(W)))
  BY DEF IsIndex
<1>2. ASSUME NEW k \in 1..n
      PROVE  /\ sections[k] \in Seq(Rec(W)) /\ Len(sections[k]) \in Nat
             /\ DOMAIN sections[k] = 1..Len(sections[k])
  BY <1>1
<1>3. ASSUME NEW k \in 2..n, NEW i \in 1..Len(sections[k])
      PROVE  /\ sections[k][i] \in Rec(W) /\ Below(k, n) \in 1..n
             /\ \E j \in 1..Len(sections[Below(k, n)]) :
                  sections[Below(k, n)][j].key = sections[k][i].key
  <2> HIDE DEF n
  <2>1. k \in 1..n /\ Below(k, n) \in 1..n
    BY <1>1 DEF Below
  <2>2. sections[k][i] \in Rec(W)
    BY <1>2, <2>1
  <2>3. Points(sections[k][i], sections[Below(k, n)])
    BY <1>3 DEF IsIndex, n
  <2> DEFINE c == sections[k][i].child
  <2>4. c \in Nat
    BY <2>2 DEF Rec
  <2>5. c < Len(sections[Below(k, n)]) /\ sections[Below(k, n)][c + 1].key = sections[k][i].key
    BY <2>3 DEF Points
  <2>6. Len(sections[Below(k, n)]) \in Nat
    BY <1>2, <2>1
  <2>7. c + 1 \in 1..Len(sections[Below(k, n)])
    <3> HIDE DEF c
    <3> QED BY <2>4, <2>5, <2>6
  <2> QED BY <2>1, <2>2, <2>5, <2>7
<1> HIDE DEF n
<1>4. ASSUME NEW k \in 2..n, NEW i \in 1..Len(sections[k]), sections[k][i].key \notin K
      PROVE  k # n /\ k + 1 \in 2..n
             /\ \E j \in 1..Len(sections[k + 1]) : sections[k + 1][j].key \notin K
  <2>1. PICK j \in 1..Len(sections[Below(k, n)]) :
          sections[Below(k, n)][j].key = sections[k][i].key
    BY <1>3
  <2>2. k # n
    <3>1. SUFFICES ASSUME k = n PROVE FALSE
      OBVIOUS
    <3>2. Below(k, n) = 1 /\ n > 0
      BY <1>1, <3>1 DEF Below
    <3>3. HasKeys(K, sections[1])
      BY <3>2 DEF IsIndex, n
    <3> QED BY <1>4, <2>1, <3>2, <3>3 DEF HasKeys
  <2>3. Below(k, n) = k + 1 /\ k + 1 \in 2..n
    BY <1>1, <2>2 DEF Below
  <2> QED BY <1>4, <2>1, <2>2, <2>3
<1>5. T = {}
  <2>1. SUFFICES ASSUME T # {} PROVE FALSE
    OBVIOUS
  <2>2. PICK d \in T : \A e \in T : d <= e
    <3>1. T \subseteq Nat
      OBVIOUS
    <3> HIDE DEF T
    <3> QED BY <2>1, <3>1, LeastNumber
  <2>3. PICK k \in 2..n : /\ n - k = d
                          /\ \E i \in 1..Len(sections[k]) : sections[k][i].key \notin K
    BY <2>2
  <2>4. k # n /\ k + 1 \in 2..n /\ \E j \in 1..Len(sections[k + 1]) : sections[k + 1][j].key \notin K
    BY <1>4, <2>3
  <2>5. n - (k + 1) \in Nat /\ n - (k + 1) < n /\ ~(d <= n - (k + 1))
    BY <1>1, <2>3, <2>4
  <2>6. n - (k + 1) \in T
    BY <2>4, <2>5
  <2> HIDE DEF T
  <2> QED BY <2>2, <2>5, <2>6
<1>6. PICK k \in 2..n : r \in {sections[k][i] : i \in DOMAIN sections[k]}
  BY DEF Parents, n
<1>7. k \in 1..n /\ n - k \in Nat /\ n - k < n
  BY <1>1
<1>8. PICK i \in 1..Len(sections[k]) : r = sections[k][i]
  BY <1>2, <1>6, <1>7
<1>9. n - k \notin T
  BY <1>5
<1> QED BY <1>7, <1>8, <1>9

-----------------------------------------------------------------------------
(***************************************************************************)
(* The invariant of the indexer and the search                             *)
(***************************************************************************)
\* An index of a chunk: of the keys that the rule yields, each once.
IndexOf(c, sections) ==
  /\ IsIndex(Width, sections, RuleKeys(c))
  /\ sections # <<>> => Len(sections[1]) = Len(IndexKeys(c))

States == {"none", "building", "built"}
Results == {"none", "running", "ok", "missing", "unreadable", "notfound"}
FileType == [state : States, sections : Seq(Seq(Rec(Width))), written : Nat]
IndexerType ==
  [chunk : 0..NChunks, open : BOOLEAN, todo : Seq(KeysOf(Width)), layers : Seq(Layer(Width))]
FindType ==
  [query : Queries \cup {<<>>}, skip : BOOLEAN, chunk : 0..NChunks, opened : BOOLEAN,
   sections : Seq(Seq(Rec(Width))), at : Nat, hits : SUBSET (Chunks \X KeysOf(Width)),
   searched : SUBSET Chunks, result : Results]
Types ==
  /\ Setting /\ thresh \in Thresholds
  /\ files \in [Chunks -> FileType]
  /\ indexer \in IndexerType
  /\ find \in FindType

\* A file with a trailer is an index of its chunk, and only the indexer's own file
\* is being written.
FilesInv ==
  \A c \in Chunks :
    /\ files[c].state = "built" => IndexOf(c, files[c].sections)
    /\ files[c].state = "building" => indexer.open /\ indexer.chunk = c
    /\ files[c].state # "none" => files[c].written >= 1

\* What was written to the base and what is left to write are the keys of the chunk.
Given(c, layers, todo) ==
  LET base == BaseOf(layers)
  IN  /\ Len(base) + Len(todo) = Len(IndexKeys(c))
      /\ \A i \in 1..Len(base) : base[i].key = IndexKeys(c)[i]
      /\ \A i \in 1..Len(todo) : todo[i] = IndexKeys(c)[Len(base) + i]
IndexerInv ==
  /\ indexer.chunk = 0 => indexer = Idle
  /\ ~indexer.open => indexer.layers = <<>>
  /\ indexer.open => /\ indexer.chunk # 0 /\ files[indexer.chunk].state = "building"
                     /\ LayersInv(Width, indexer.layers)
                     /\ Given(indexer.chunk, indexer.layers, indexer.todo)
  /\ Len(indexer.layers) < MaxLevels

\* What the search opened was an index of the chunk, and the file is still the one
\* it opened unless it was written again.
OpenInv(f) ==
  f.result = "running" => 
    /\ f.query \in Queries /\ f.chunk # 0
    /\ f.opened => /\ IndexOf(f.chunk, f.sections)
                   /\ f.at \in 1..files[f.chunk].written
                   /\ f.at = files[f.chunk].written => files[f.chunk].state = "built"

\* What it has found so far: rows that match, of chunks that it is done with, and all
\* of them where it looked at the index as it was written.
Passed(f, c) == f.result = "ok" \/ (f.result = "running" /\ c < f.chunk)
RowsOf(f, c) == {h \in f.hits : h[1] = c}
FoundInv(f) ==
  /\ \A h \in f.hits : h[2] \in Matches(h[1], f.query)
  /\ f.result = "running" => /\ \A h \in f.hits : h[1] < f.chunk
                             /\ \A c \in f.searched : c < f.chunk
  /\ \A c \in Chunks : Passed(f, c) => f.skip \/ c \in f.searched \/ files[c].written > 1
  /\ f.query \in FullQueries =>
       \A c \in f.searched : (\A k \in RuleKeys(c) : ~Unset(k)) =>
         RowsOf(f, c) = {<<c, k>> : k \in Matches(c, f.query)}

Inv == Types /\ FilesInv /\ IndexerInv /\ OpenInv(find) /\ FoundInv(find)

-----------------------------------------------------------------------------
(***************************************************************************)
(* Steps                                                                   *)
(***************************************************************************)
\* The contents and the rule stay, and with them what an index should be.
LEMMA SettingKept ==
  ASSUME UNCHANGED <<content, rule>>
  PROVE  /\ Width' = Width /\ Queries' = Queries /\ FullQueries' = FullQueries
         /\ \A c : RuleKeys(c)' = RuleKeys(c)
         /\ \A c : IndexKeys(c)' = IndexKeys(c)
         /\ \A c, q : Matches(c, q)' = Matches(c, q)
         /\ \A c, s : IndexOf(c, s)' <=> IndexOf(c, s)
         /\ FileType' = FileType /\ IndexerType' = IndexerType /\ FindType' = FindType
         /\ Setting => Setting'
<1>1. Width' = Width /\ Queries' = Queries
  BY DEF Width, Queries
<1>2. FullQueries' = FullQueries
  BY <1>1 DEF FullQueries
<1>3. ASSUME NEW c
      PROVE  RuleKeys(c)' = RuleKeys(c)
  BY DEF RuleKeys
<1>4. ASSUME NEW c
      PROVE  IndexKeys(c)' = IndexKeys(c)
  <2> DEFINE ranked(K) == [i \in 1..Cardinality(K) |-> CHOOSE k \in K : Rank(K, k) = i - 1]
  <2>1. IndexKeys(c) = ranked(RuleKeys(c))
    BY DEF IndexKeys, Rank
  <2>2. IndexKeys(c)' = ranked(RuleKeys(c)')
    BY DEF IndexKeys, Rank
  <2> HIDE DEF ranked
  <2> QED BY <1>3, <2>1, <2>2
<1>5. ASSUME NEW c, NEW q
      PROVE  Matches(c, q)' = Matches(c, q)
  BY <1>3 DEF Matches
<1>6. ASSUME NEW c, NEW s
      PROVE  IndexOf(c, s)' <=> IndexOf(c, s)
  BY <1>1, <1>3, <1>4 DEF IndexOf
<1>7. Setting => Setting'
  BY DEF Setting
<1>8. FileType' = FileType /\ IndexerType' = IndexerType /\ FindType' = FindType
  BY <1>1 DEF FileType, IndexerType, FindType
<1> QED BY <1>1, <1>2, <1>3, <1>4, <1>5, <1>6, <1>7, <1>8

\* What a step of the indexer does to files: they are only written again, and one
\* that was not is left alone once it is built.
FilesMove ==
  \A c \in Chunks :
    /\ files'[c].written >= files[c].written
    /\ files[c].state = "built" /\ files'[c].written = files[c].written => files'[c].state = "built"

\* Such a step leaves a search what it knows.
LEMMA SearchKept ==
  ASSUME Inv, UNCHANGED <<content, rule, find>>, FilesMove, Types'
  PROVE  OpenInv(find)' /\ FoundInv(find)'
<1>1. /\ FullQueries' = FullQueries /\ Queries' = Queries /\ \A c : RuleKeys(c)' = RuleKeys(c)
      /\ \A c, q : Matches(c, q)' = Matches(c, q)
      /\ \A c, s : IndexOf(c, s)' <=> IndexOf(c, s)
  BY SettingKept
<1>2. find' = find
  OBVIOUS
<1>3. OpenInv(find)'
  <2>1. OpenInv(find)
    BY DEF Inv
  <2>2. \A c \in Chunks : files[c].written \in Nat /\ files'[c].written \in Nat
    BY DEF Inv, Types, FileType
  <2>3. find.chunk # 0 => find.chunk \in Chunks
    BY MicroindexAssumption DEF Inv, Types, FindType, Chunks
  <2> QED BY <1>1, <1>2, <2>1, <2>2, <2>3 DEF OpenInv, FilesMove
<1>4. FoundInv(find)'
  <2>1. FoundInv(find)
    BY DEF Inv
  <2>2. \A c \in Chunks : files[c].written \in Nat /\ files'[c].written \in Nat
    BY DEF Inv, Types, FileType
  <2>3. (\A h \in find.hits : h[2] \in Matches(h[1], find.query))'
    BY <1>1, <1>2, <2>1 DEF FoundInv
  <2>4. (find.result = "running" => /\ \A h \in find.hits : h[1] < find.chunk
                                    /\ \A c \in find.searched : c < find.chunk)'
    BY <1>2, <2>1 DEF FoundInv
  <2>5. (\A c \in Chunks : Passed(find, c) => find.skip \/ c \in find.searched \/ files[c].written > 1)'
    BY <1>2, <2>1, <2>2 DEF FoundInv, FilesMove, Passed
  <2>6. (find.query \in FullQueries =>
           \A c \in find.searched : (\A k \in RuleKeys(c) : ~Unset(k)) =>
             RowsOf(find, c) = {<<c, k>> : k \in Matches(c, find.query)})'
    BY <1>1, <1>2, <2>1 DEF FoundInv
  <2> QED BY <2>3, <2>4, <2>5, <2>6 DEF FoundInv
<1> QED BY <1>3, <1>4

\* A step of the search alone.
LEMMA RestKept ==
  ASSUME Inv, UNCHANGED <<content, rule, thresh, files, indexer>>,
         find' \in FindType, OpenInv(find'), FoundInv(find')
  PROVE  Inv'
<1>1. /\ Width' = Width /\ FullQueries' = FullQueries /\ Queries' = Queries
      /\ \A c : RuleKeys(c)' = RuleKeys(c)
      /\ \A c : IndexKeys(c)' = IndexKeys(c)
      /\ \A c, q : Matches(c, q)' = Matches(c, q)
      /\ \A c, s : IndexOf(c, s)' <=> IndexOf(c, s)
      /\ FileType' = FileType /\ IndexerType' = IndexerType /\ FindType' = FindType
      /\ Setting'
  BY SettingKept DEF Inv, Types
<1>2. files' = files /\ indexer' = indexer /\ thresh' = thresh
  OBVIOUS
<1>3. Types'
  BY <1>1, <1>2 DEF Inv, Types
<1>4. FilesInv'
  BY <1>1, <1>2 DEF Inv, FilesInv
<1>5. IndexerInv'
  <2>1. Given(indexer.chunk, indexer.layers, indexer.todo)' <=> Given(indexer.chunk, indexer.layers, indexer.todo)
    BY <1>1, <1>2 DEF Given
  <2> QED BY <1>1, <1>2, <2>1 DEF Inv, IndexerInv
<1>6. OpenInv(find)'
  BY <1>1, <1>2 DEF OpenInv
<1>7. FoundInv(find)'
  <2>1. (\A h \in find.hits : h[2] \in Matches(h[1], find.query))'
    BY <1>1, <1>2 DEF FoundInv
  <2>2. (find.result = "running" => /\ \A h \in find.hits : h[1] < find.chunk
                                    /\ \A c \in find.searched : c < find.chunk)'
    BY DEF FoundInv
  <2>3. (\A c \in Chunks : Passed(find, c) => find.skip \/ c \in find.searched \/ files[c].written > 1)'
    BY <1>2 DEF FoundInv, Passed
  <2>4. (find.query \in FullQueries =>
           \A c \in find.searched : (\A k \in RuleKeys(c) : ~Unset(k)) =>
             RowsOf(find, c) = {<<c, k>> : k \in Matches(c, find.query)})'
    BY <1>1, <1>2 DEF FoundInv, RowsOf
  <2> QED BY <2>1, <2>2, <2>3, <2>4 DEF FoundInv
<1> QED BY <1>3, <1>4, <1>5, <1>6, <1>7 DEF Inv

\* What a search has found when it is done with its chunk (f is the search as it
\* goes on to the next one).
DoneWith(f) ==
  /\ \A h \in f.hits : h[2] \in Matches(h[1], f.query) /\ h[1] <= f.chunk
  /\ \A c \in f.searched : c <= f.chunk
  /\ \A c \in Chunks : c <= f.chunk => f.skip \/ c \in f.searched \/ files[c].written > 1
  /\ f.query \in FullQueries =>
       \A c \in f.searched : (\A k \in RuleKeys(c) : ~Unset(k)) =>
         RowsOf(f, c) = {<<c, k>> : k \in Matches(c, f.query)}

LEMMA GoesOn ==
  ASSUME Inv, NEW f \in FindType, f.result = "running", f.query \in Queries, f.chunk \in Chunks,
         DoneWith(f)
  PROVE  /\ NextChunk(f) \in FindType
         /\ OpenInv(NextChunk(f)) /\ FoundInv(NextChunk(f))
<1> DEFINE g == NextChunk(f)
<1>1. NChunks \in Nat /\ Chunks = 1..NChunks
  BY MicroindexAssumption DEF Chunks
<1>2. /\ f \in FindType /\ f.chunk \in 1..NChunks
      /\ \A c \in Chunks : c \in Nat /\ c <= NChunks
  BY <1>1
<1>3. /\ g \in FindType /\ ~g.opened
      /\ g.query = f.query /\ g.skip = f.skip /\ g.hits = f.hits /\ g.searched = f.searched
      /\ \/ f.chunk = NChunks /\ g.chunk = f.chunk /\ g.result = "ok"
         \/ f.chunk < NChunks /\ g.chunk = f.chunk + 1 /\ g.result = "running"
  <2>1. CASE f.chunk = NChunks
    <3>1. g = [f EXCEPT !.result = "ok", !.opened = FALSE]
      BY <2>1 DEF NextChunk
    <3> HIDE DEF g
    <3> QED BY <2>1, <3>1 DEF FindType, Results
  <2>2. CASE f.chunk # NChunks
    <3>1. g = [f EXCEPT !.chunk = f.chunk + 1, !.opened = FALSE]
      BY <2>2 DEF NextChunk, FindType
    <3>2. f.chunk + 1 \in 0..NChunks /\ f.chunk < NChunks
      BY <1>1, <1>2, <2>2
    <3> HIDE DEF g
    <3> QED BY <2>2, <3>1, <3>2 DEF FindType, Results
  <2> QED BY <2>1, <2>2
<1> HIDE DEF g
<1>4. OpenInv(g)
  <2>1. g.chunk # 0
    BY <1>2, <1>3
  <2> QED BY <1>3, <2>1 DEF OpenInv
<1>5. \A c : RowsOf(g, c) = RowsOf(f, c)
  BY <1>3 DEF RowsOf
<1>6. f.hits \subseteq Chunks \X KeysOf(Width) /\ f.searched \subseteq Chunks
  BY DEF FindType
<1>7. FoundInv(g)
  <2>1. \A h \in g.hits : h[2] \in Matches(h[1], g.query)
    BY <1>3 DEF DoneWith
  <2>2. g.result = "running" => /\ \A h \in g.hits : h[1] < g.chunk
                                /\ \A c \in g.searched : c < g.chunk
    <3>1. ASSUME g.result = "running"
          PROVE  g.chunk = f.chunk + 1
      BY <1>3, <3>1
    <3>2. ASSUME g.result = "running", NEW h \in g.hits
          PROVE  h[1] < g.chunk
      <4>1. h[1] \in Chunks /\ h[1] <= f.chunk
        BY <1>3, <1>6, <3>2 DEF DoneWith
      <4> QED BY <1>2, <3>1, <3>2, <4>1
    <3>3. ASSUME g.result = "running", NEW c \in g.searched
          PROVE  c < g.chunk
      <4>1. c \in Chunks /\ c <= f.chunk
        BY <1>3, <1>6, <3>3 DEF DoneWith
      <4> QED BY <1>2, <3>1, <3>3, <4>1
    <3> QED BY <3>2, <3>3
  <2>3. ASSUME NEW c \in Chunks, Passed(g, c)
        PROVE  g.skip \/ c \in g.searched \/ files[c].written > 1
    <3>1. c <= f.chunk
      BY <1>1, <1>2, <1>3, <2>3 DEF Passed
    <3> QED BY <1>3, <3>1 DEF DoneWith
  <2>4. g.query \in FullQueries =>
          \A c \in g.searched : (\A k \in RuleKeys(c) : ~Unset(k)) =>
            RowsOf(g, c) = {<<c, k>> : k \in Matches(c, g.query)}
    BY <1>3, <1>5 DEF DoneWith
  <2> QED BY <2>1, <2>2, <2>3, <2>4 DEF FoundInv
<1> QED BY <1>3, <1>4, <1>7 DEF g

\* What is found in a chunk adds to what was found before, and leaves the search
\* done with the chunk.
LEMMA AnswerKeeps ==
  ASSUME Inv, find.result = "running", find.opened, NEW r \in [err : BOOLEAN, hits : SUBSET KeysOf(Width)],
         NEW whole \in BOOLEAN, r.hits \subseteq Matches(find.chunk, find.query),
         whole /\ find.query \in FullQueries /\ (\A k \in RuleKeys(find.chunk) : ~Unset(k)) =>
           r.hits = Matches(find.chunk, find.query),
         whole \/ files[find.chunk].written > 1
  PROVE  /\ Answer(r, whole) \in FindType
         /\ OpenInv(Answer(r, whole)) /\ FoundInv(Answer(r, whole))
<1> DEFINE n == find.chunk
           new == {<<n, k>> : k \in r.hits}
           hits == find.hits \cup new
           searched == IF whole THEN find.searched \cup {n} ELSE find.searched
           f == [find EXCEPT !.hits = hits, !.searched = searched]
           a == Answer(r, whole)
<1>1. NChunks \in Nat /\ Chunks = 1..NChunks
  BY MicroindexAssumption DEF Chunks
<1>2. find \in FindType /\ FoundInv(find) /\ OpenInv(find)
  BY DEF Inv, Types
<1>3. find.query \in Queries /\ n \in Chunks /\ find.searched \subseteq Chunks
      /\ find.hits \subseteq Chunks \X KeysOf(Width)
  BY <1>1, <1>2 DEF FindType, OpenInv
<1>4. new \subseteq Chunks \X KeysOf(Width)
  BY <1>3
<1>5. a = IF r.err THEN [f EXCEPT !.result = "notfound"] ELSE NextChunk(f)
  <2>1. find.hits \cup Hits(r.hits) = hits
    BY DEF Hits
  <2>2. [find EXCEPT !.hits = @ \cup Hits(r.hits),
                     !.searched = IF whole THEN @ \cup {find.chunk} ELSE @] = f
    BY <1>2, <2>1 DEF FindType
  <2> HIDE DEF f
  <2> QED BY <2>2 DEF Answer
<1>6. /\ hits \in SUBSET (Chunks \X KeysOf(Width)) /\ searched \in SUBSET Chunks
  BY <1>3, <1>4
<1>7. \A h \in new : h[1] = n /\ h[2] \in r.hits
  OBVIOUS
<1> HIDE DEF hits, searched
<1>8. /\ f \in FindType /\ f.result = "running" /\ f.query = find.query /\ f.chunk = n
      /\ f.skip = find.skip /\ f.hits = hits /\ f.searched = searched /\ f.opened = find.opened
      /\ f.sections = find.sections /\ f.at = find.at
  BY <1>2, <1>6 DEF FindType
<1> HIDE DEF f, a, new
<1>9. /\ \A h \in find.hits : h[1] \in Chunks /\ h[1] < n /\ h[2] \in Matches(h[1], find.query)
      /\ \A c \in find.searched : c \in Chunks /\ c < n
  BY <1>2, <1>3 DEF FoundInv
<1>10. DoneWith(f)
  <2>1. ASSUME NEW h \in f.hits
        PROVE  h[2] \in Matches(h[1], f.query) /\ h[1] <= f.chunk
    <3>1. CASE h \in find.hits
      BY <1>1, <1>3, <1>8, <1>9, <3>1
    <3>2. CASE h \in new
      BY <1>1, <1>3, <1>7, <1>8, <3>2
    <3> QED BY <1>8, <2>1, <3>1, <3>2 DEF hits
  <2>2. ASSUME NEW c \in f.searched
        PROVE  c <= f.chunk
    <3>1. c \in find.searched \/ c = n
      BY <1>8, <2>2 DEF searched
    <3> QED BY <1>1, <1>3, <1>8, <1>9, <3>1
  <2>3. ASSUME NEW c \in Chunks, c <= f.chunk
        PROVE  f.skip \/ c \in f.searched \/ files[c].written > 1
    <3>1. c < n \/ c = n
      BY <1>1, <1>3, <1>8, <2>3
    <3>2. CASE c < n
      <4>1. Passed(find, c)
        BY <3>2 DEF Passed
      <4>2. find.skip \/ c \in find.searched \/ files[c].written > 1
        BY <1>2, <4>1 DEF FoundInv
      <4> QED BY <1>8, <4>2 DEF searched
    <3>3. CASE c = n
      BY <1>8, <3>3 DEF searched
    <3> QED BY <3>1, <3>2, <3>3
  <2>4. ASSUME f.query \in FullQueries, NEW c \in f.searched, \A k \in RuleKeys(c) : ~Unset(k)
        PROVE  RowsOf(f, c) = {<<c, k>> : k \in Matches(c, f.query)}
    <3>1. CASE c = n /\ whole
      <4>1. r.hits = Matches(n, find.query)
        BY <1>8, <2>4, <3>1
      <4>2. \A h \in find.hits : h[1] # n
        BY <1>1, <1>3, <1>9
      <4>3. RowsOf(f, c) = new
        BY <1>7, <1>8, <3>1, <4>2 DEF RowsOf, hits
      <4> QED BY <1>8, <3>1, <4>1, <4>3 DEF new
    <3>2. CASE c \in find.searched
      <4>1. c # n
        BY <1>1, <1>3, <1>9, <3>2
      <4>2. RowsOf(f, c) = RowsOf(find, c)
        BY <1>7, <1>8, <4>1 DEF RowsOf, hits
      <4>3. find.query \in FullQueries
        BY <1>8, <2>4
      <4>4. RowsOf(find, c) = {<<c, k>> : k \in Matches(c, find.query)}
        BY <1>2, <2>4, <3>2, <4>3 DEF FoundInv
      <4> QED BY <1>8, <4>2, <4>4
    <3> QED BY <1>8, <2>4, <3>1, <3>2 DEF searched
  <2> QED BY <2>1, <2>2, <2>3, <2>4 DEF DoneWith
<1>11. CASE ~r.err
  <2>1. a = NextChunk(f)
    BY <1>5, <1>11
  <2>2. NextChunk(f) \in FindType /\ OpenInv(NextChunk(f)) /\ FoundInv(NextChunk(f))
    BY <1>3, <1>8, <1>10, GoesOn
  <2> QED BY <2>1, <2>2 DEF a
<1>12. CASE r.err
  <2>1. a = [f EXCEPT !.result = "notfound"]
    BY <1>5, <1>12
  <2>2. /\ a \in FindType /\ a.result = "notfound" /\ a.query = f.query
        /\ a.hits = f.hits /\ a.searched = f.searched
    BY <1>8, <2>1 DEF FindType, Results
  <2>3. OpenInv(a)
    BY <2>2 DEF OpenInv
  <2>4. \A c : RowsOf(a, c) = RowsOf(f, c)
    BY <2>2 DEF RowsOf
  <2>5. FoundInv(a)
    BY <1>10, <2>2, <2>4 DEF DoneWith, FoundInv, Passed
  <2> QED BY <2>2, <2>3, <2>5 DEF a
<1> QED BY <1>11, <1>12

\* What an index of a chunk answers to a query of the search.
LEMMA IndexAnswers ==
  ASSUME Setting, NEW c \in Chunks, NEW q \in Queries, NEW sections, IsIndex(Width, sections, RuleKeys(c))
  PROVE  /\ LookupAll(sections, q).hits \subseteq Matches(c, q)
         /\ ~UnsetAbove(sections) =>
              /\ LookupAll(sections, q).hits = {} => Matches(c, q) = {}
              /\ (\A r \in Parents(sections) : KeyCompare(r, q) # 0) =>
                    LookupAll(sections, q).hits = Matches(c, q)
              /\ q \in FullQueries => LookupIn(sections, q, TRUE) = Matches(c, q)
         /\ q \in FullQueries /\ (\A k \in RuleKeys(c) : ~Unset(k)) =>
              /\ LookupAll(sections, q).hits = Matches(c, q)
              /\ LookupIn(sections, q, FALSE) = Largest(NotAbove(RuleKeys(c), q))
<1> DEFINE W == Width
           K == RuleKeys(c)
           m == Len(q)
<1>1. W \in {1, 2} /\ K \subseteq KeysOf(W)
  BY RuleKeyTypes
<1>2. m \in {1, 2} /\ m <= W /\ IsQuery(q, m) /\ (q \in FullQueries <=> m = W)
  BY QueryTypes
<1>3. Matches(c, q) = Matching(K, q)
  BY DEF Matches, Matching, Agrees
<1> HIDE DEF W, K, m
<1>4. IsIndex(W, sections, K)
  BY DEF W, K
<1>5. /\ LookupAll(sections, q).hits \subseteq Matching(K, q)
      /\ ~UnsetAbove(sections) =>
           /\ LookupAll(sections, q).hits = {} => Matching(K, q) = {}
           /\ (\A r \in Parents(sections) : KeyCompare(r, q) # 0) =>
                 LookupAll(sections, q).hits = Matching(K, q)
  BY <1>1, <1>2, <1>4, AllLookup
<1>6. ASSUME ~UnsetAbove(sections), q \in FullQueries
      PROVE  LookupIn(sections, q, TRUE) = Matching(K, q)
  <2>1. IsQuery(q, W)
    BY <1>2, <1>6
  <2> QED BY <1>1, <1>4, <1>6, <2>1, KeyLookup
<1>7. ASSUME q \in FullQueries, \A k \in K : ~Unset(k)
      PROVE  /\ LookupAll(sections, q).hits = Matching(K, q)
             /\ LookupIn(sections, q, FALSE) = Largest(NotAbove(K, q))
  <2>1. IsQuery(q, W)
    BY <1>2, <1>7
  <2>2. ~UnsetAbove(sections)
    <3>1. \A r \in Parents(sections) : r.key \in K
      BY <1>1, <1>4, ParentsAreKeys
    <3> QED BY <1>7, <3>1 DEF UnsetAbove
  <2>3. \A x \in Matching(K, q) : x = q
    <3>1. \A x \in Matching(K, q) : x \in KeysOf(W) /\ Agrees(x, q)
      BY <1>1 DEF Matching
    <3> QED BY <1>1, <2>1, <3>1, WholeQuery
  <2>4. LookupAll(sections, q).hits = Matching(K, q)
    <3>1. /\ LookupAll(sections, q).hits \subseteq Matching(K, q)
          /\ LookupAll(sections, q).hits = {} => Matching(K, q) = {}
      BY <1>5, <2>2
    <3> QED BY <2>3, <3>1
  <2>5. LookupIn(sections, q, FALSE) = Largest(NotAbove(K, q))
    BY <1>1, <1>4, <1>7, <2>1, ClosestKeyLookup
  <2> QED BY <2>4, <2>5
<1> QED BY <1>3, <1>5, <1>6, <1>7 DEF K

\* No search has found anything.
LEMMA NoFindType ==
  /\ NoFind \in FindType /\ NoFind.hits = {} /\ NoFind.searched = {} /\ ~NoFind.opened
  /\ NoFind.result = "none"
<1> DEFINE e == <<>>
<1>1. e \in Seq(Seq(Rec(Width))) /\ NChunks \in Nat
  BY MicroindexAssumption
<1>2. NoFind = [query |-> e, skip |-> FALSE, chunk |-> 0, opened |-> FALSE, sections |-> e, at |-> 0,
                hits |-> {}, searched |-> {}, result |-> "none"]
  BY DEF NoFind
<1>3. e \in Queries \cup {<<>>}
  OBVIOUS
<1> HIDE DEF e
<1> QED BY <1>1, <1>2, <1>3 DEF FindType, Results

\* A search begins.
LEMMA StartFindKeeps ==
  ASSUME Inv, NEW query \in Queries, NEW skip \in BOOLEAN, StartFind(query, skip)
  PROVE  Inv'
<1> DEFINE f == [NoFind EXCEPT !.query = query, !.skip = skip, !.chunk = 1, !.result = "running"]
<1>1. find' = f /\ UNCHANGED <<content, rule, thresh, files, indexer>>
  BY DEF StartFind
<1>2. NChunks \in Nat /\ NChunks >= 1 /\ Chunks = 1..NChunks
  BY MicroindexAssumption DEF Chunks
<1>3. /\ NoFind \in FindType /\ NoFind.hits = {} /\ NoFind.searched = {} /\ ~NoFind.opened
      /\ NoFind.result = "none"
  BY NoFindType
<1>4. /\ f \in FindType
      /\ f.query = query /\ f.skip = skip /\ f.chunk = 1 /\ f.opened = FALSE
      /\ f.hits = {} /\ f.searched = {} /\ f.result = "running"
  <2>1. 1 \in 0..NChunks
    BY <1>2
  <2> QED BY <1>3, <2>1 DEF FindType, Results
<1> HIDE DEF f
<1>5. OpenInv(f)
  BY <1>4 DEF OpenInv
<1>6. FoundInv(f)
  <2>1. ASSUME NEW c \in Chunks
        PROVE  ~Passed(f, c)
    BY <1>2, <1>4 DEF Passed
  <2> QED BY <1>4, <2>1 DEF FoundInv
<1> QED BY <1>1, <1>4, <1>5, <1>6, RestKept

\* It ends without an answer.
LEMMA FailsKeeps ==
  ASSUME Inv, UNCHANGED <<content, rule, thresh, files, indexer>>,
         NEW result \in {"unreadable", "missing"}, find' = [find EXCEPT !.result = result]
  PROVE  Inv'
<1> DEFINE f == [find EXCEPT !.result = result]
<1>1. find \in FindType /\ FoundInv(find)
  BY DEF Inv, Types
<1>2. /\ f \in FindType /\ f.result = result /\ f.query = find.query
      /\ f.hits = find.hits /\ f.searched = find.searched
  BY <1>1 DEF FindType, Results
<1>3. find' = f
  OBVIOUS
<1> HIDE DEF f
<1>4. OpenInv(f)
  BY <1>2 DEF OpenInv
<1>5. FoundInv(f)
  <2>1. \A c : RowsOf(f, c) = RowsOf(find, c) /\ ~Passed(f, c)
    BY <1>2 DEF RowsOf, Passed
  <2> QED BY <1>1, <1>2, <2>1 DEF FoundInv
<1> QED BY <1>2, <1>3, <1>4, <1>5, RestKept

\* It opens an index, finds none or one that it cannot read.
LEMMA OpenFinderKeeps ==
  ASSUME Inv, OpenFinder
  PROVE  Inv'
<1> DEFINE n == find.chunk
           file == files[n]
<1>1. find.result = "running" /\ ~find.opened /\ UNCHANGED <<content, rule, thresh, files, indexer>>
  BY DEF OpenFinder
<1>2. NChunks \in Nat /\ Chunks = 1..NChunks
  BY MicroindexAssumption DEF Chunks
<1>3. find \in FindType /\ FoundInv(find) /\ OpenInv(find)
  BY DEF Inv, Types
<1>4. find.query \in Queries /\ n \in Chunks
  BY <1>1, <1>2, <1>3 DEF FindType, OpenInv
<1>5. file \in FileType
  BY <1>4 DEF Inv, Types
<1>6. ASSUME file.state = "built",
             find' = [find EXCEPT !.opened = TRUE, !.at = file.written, !.sections = file.sections]
      PROVE  Inv'
  <2> DEFINE f == [find EXCEPT !.opened = TRUE, !.at = file.written, !.sections = file.sections]
  <2>1. file.sections \in Seq(Seq(Rec(Width))) /\ file.written \in Nat
    BY <1>5 DEF FileType
  <2>2. IndexOf(n, file.sections) /\ file.written >= 1
    BY <1>4, <1>6 DEF Inv, FilesInv
  <2>3. /\ f \in FindType /\ f.result = "running" /\ f.query = find.query /\ f.chunk = n
        /\ f.skip = find.skip /\ f.hits = find.hits /\ f.searched = find.searched
        /\ f.sections = file.sections /\ f.at = file.written
    BY <1>1, <1>3, <2>1 DEF FindType
  <2> HIDE DEF f, file
  <2>4. OpenInv(f)
    <3>1. f.at \in 1..files[f.chunk].written
      BY <2>1, <2>2, <2>3 DEF file
    <3>2. files[f.chunk].state = "built"
      BY <1>6, <2>3 DEF file
    <3>3. IndexOf(f.chunk, f.sections) /\ f.query \in Queries /\ f.chunk # 0
      BY <1>2, <1>4, <2>2, <2>3
    <3> QED BY <3>1, <3>2, <3>3 DEF OpenInv
  <2>5. FoundInv(f)
    <3>1. \A c : (RowsOf(f, c) = RowsOf(find, c)) /\ (Passed(f, c) <=> Passed(find, c))
      BY <1>1, <2>3 DEF RowsOf, Passed
    <3> QED BY <1>1, <1>3, <2>3, <3>1 DEF FoundInv
  <2>6. find' = f
    BY <1>6 DEF f
  <2> QED BY <1>1, <2>3, <2>4, <2>5, <2>6, RestKept
<1>7. ASSUME NEW result \in {"unreadable", "missing"},
             find' = [find EXCEPT !.result = result]
      PROVE  Inv'
  BY <1>1, <1>7, FailsKeeps
<1>8. ASSUME find.skip, find' = NextChunk(find)
      PROVE  Inv'
  <2>1. DoneWith(find)
    <3>1. \A h \in find.hits : h[1] \in Chunks
      BY <1>3 DEF FindType
    <3>2. \A c \in find.searched : c \in Chunks
      BY <1>3 DEF FindType
    <3>3. \A h \in find.hits : h[2] \in Matches(h[1], find.query) /\ h[1] <= n
      <4>1. \A h \in find.hits : h[2] \in Matches(h[1], find.query) /\ h[1] < n
        BY <1>1, <1>3 DEF FoundInv
      <4> QED BY <1>2, <1>4, <3>1, <4>1
    <3>4. \A c \in find.searched : c <= n
      <4>1. \A c \in find.searched : c < n
        BY <1>1, <1>3 DEF FoundInv
      <4> QED BY <1>2, <1>4, <3>2, <4>1
    <3> QED BY <1>3, <1>8, <3>3, <3>4 DEF FoundInv, DoneWith
  <2>2. NextChunk(find) \in FindType /\ OpenInv(NextChunk(find)) /\ FoundInv(NextChunk(find))
    BY <1>1, <1>3, <1>4, <2>1, GoesOn
  <2> QED BY <1>1, <1>8, <2>2, RestKept
<1>9. find' = CASE file.state = "built" -> [find EXCEPT !.opened = TRUE, !.at = file.written, !.sections = file.sections]
                [] file.state = "building" -> [find EXCEPT !.result = "unreadable"]
                [] file.state = "none" /\ find.skip -> NextChunk(find)
                [] OTHER -> [find EXCEPT !.result = "missing"]
  BY DEF OpenFinder
<1>10. file.state \in States
  BY <1>5 DEF FileType
<1> HIDE DEF file
<1>11. CASE file.state = "built"
  BY <1>6, <1>9, <1>11
<1>12. CASE file.state = "building"
  <2>1. find' = [find EXCEPT !.result = "unreadable"]
    BY <1>9, <1>12
  <2> QED BY <1>7, <2>1
<1>13. CASE file.state = "none" /\ find.skip
  <2>1. find' = NextChunk(find)
    BY <1>9, <1>13
  <2> QED BY <1>8, <1>13, <2>1
<1>14. CASE file.state = "none" /\ ~find.skip
  <2>1. find' = [find EXCEPT !.result = "missing"]
    BY <1>9, <1>14
  <2> QED BY <1>7, <2>1
<1> QED BY <1>10, <1>11, <1>12, <1>13, <1>14 DEF States

\* As many records of the base as can be read of a file that is being written again
\* are records that were there when it was opened.
LEMMA ReadableIsThere ==
  ASSUME Inv, find.result = "running", find.opened, NEW m \in Readable(find.chunk),
         find.sections # <<>>
  PROVE  m \in 0..Len(find.sections[1])
<1> DEFINE c == find.chunk
           ls == indexer.layers
<1>1. NChunks \in Nat /\ Chunks = 1..NChunks
  BY MicroindexAssumption DEF Chunks
<1>2. c \in Chunks /\ Len(find.sections[1]) = Len(IndexKeys(c))
  <2>1. c # 0 /\ IndexOf(c, find.sections)
    BY DEF Inv, OpenInv
  <2>2. c \in 0..NChunks
    BY DEF Inv, Types, FindType
  <2> QED BY <1>1, <2>1, <2>2 DEF IndexOf
<1>3. CASE Building(files[c])
  <2>1. files[c].state = "building"
    BY <1>3 DEF Building
  <2>2. indexer.open /\ indexer.chunk = c
    BY <1>2, <2>1 DEF Inv, FilesInv
  <2>3. Given(c, ls, indexer.todo) /\ LayersInv(Width, ls)
    BY <2>2 DEF Inv, IndexerInv
  <2>4. indexer.todo \in Seq(KeysOf(Width)) /\ ls \in Seq(Layer(Width))
    BY DEF Inv, Types, IndexerType
  <2>5. Len(indexer.todo) \in Nat /\ Len(ls) \in Nat /\ (ls = <<>> <=> Len(ls) = 0)
    BY <2>4, EmptySeq
  <2>6. Len(BaseOf(ls)) \in Nat
    <3>1. CASE Len(ls) = 0
      BY <3>1 DEF BaseOf
    <3>2. CASE Len(ls) # 0
      <4>1. ls[1] \in Layer(Width)
        BY <2>4, <2>5, <3>2
      <4>2. ls[1].recs \in Seq(Rec(Width))
        BY <4>1 DEF Layer
      <4> QED BY <3>2, <4>2 DEF BaseOf
    <3> QED BY <3>1, <3>2
  <2>7. Len(BaseOf(ls)) + Len(indexer.todo) = Len(IndexKeys(c))
    BY <2>3 DEF Given
  <2>8. m \in 0..Len(BaseOf(ls))
    <3>1. m \in 0..(IF ls = <<>> THEN 0 ELSE Len(ls[1].recs))
      BY <1>3 DEF Readable
    <3>2. ls = <<>> => Len(BaseOf(ls)) = 0
      BY <2>5 DEF BaseOf
    <3>3. ls # <<>> => BaseOf(ls) = ls[1].recs
      BY <2>5 DEF BaseOf
    <3> HIDE DEF ls
    <3> QED BY <3>1, <3>2, <3>3
  <2> HIDE DEF ls, c
  <2> QED BY <1>2, <2>5, <2>6, <2>7, <2>8
<1>4. CASE ~Building(files[c])
  BY <1>4 DEF Readable
<1> QED BY <1>3, <1>4

\* A search looks its query up.
LEMMA LookupFinderKeeps ==
  ASSUME Inv, LookupFinder
  PROVE  Inv'
<1> DEFINE c == find.chunk
           q == find.query
           s == find.sections
           n == Len(s)
           same == files[c].state = "built"
<1>1. /\ find.result = "running" /\ find.opened
      /\ UNCHANGED <<content, rule, thresh, files, indexer>>
  BY DEF LookupFinder
<1>2. NChunks \in Nat /\ Chunks = 1..NChunks
  BY MicroindexAssumption DEF Chunks
<1>3. find \in FindType /\ OpenInv(find) /\ Setting
  BY DEF Inv, Types
<1>4. /\ q \in Queries /\ c \in Chunks /\ IndexOf(c, s) /\ s \in Seq(Seq(Rec(Width)))
      /\ find.at \in 1..files[c].written /\ (find.at = files[c].written => same)
  BY <1>1, <1>2, <1>3 DEF FindType, OpenInv
<1>5. IsIndex(Width, s, RuleKeys(c))
  BY <1>4 DEF IndexOf
<1>6. Width \in {1, 2} /\ RuleKeys(c) \subseteq KeysOf(Width)
  BY <1>3, <1>4, RuleKeyTypes
<1>7. Matches(c, q) \subseteq KeysOf(Width) /\ Matches(c, q) = Matching(RuleKeys(c), q)
  BY <1>6 DEF Matches, Matching, Agrees
<1>8. files[c].written \in Nat /\ (find.at # files[c].written => files[c].written > 1)
  <2>1. files[c].written \in Nat
    BY <1>4 DEF Inv, Types, FileType
  <2> QED BY <1>4, <2>1
<1>9. ASSUME find' = Answer(LookupAll(s, q), find.at = files[c].written)
      PROVE  Inv'
  <2> DEFINE r == LookupAll(s, q)
             whole == find.at = files[c].written
  <2>1. /\ r.hits \subseteq Matches(c, q)
        /\ q \in FullQueries /\ (\A k \in RuleKeys(c) : ~Unset(k)) => r.hits = Matches(c, q)
    <3> HIDE DEF c, q, s
    <3>1. c \in Chunks /\ q \in Queries
      BY <1>4
    <3> QED BY <1>3, <1>5, <3>1, IndexAnswers
  <2>2. r \in [err : BOOLEAN, hits : SUBSET KeysOf(Width)]
    <3>1. \E e \in BOOLEAN : \E h : r = [err |-> e, hits |-> h]
      BY DEF LookupAll
    <3>2. r.hits \in SUBSET KeysOf(Width)
      BY <1>7, <2>1
    <3> HIDE DEF r
    <3> QED BY <3>1, <3>2
  <2>3. whole \in BOOLEAN /\ (whole \/ files[c].written > 1)
    BY <1>8
  <2> HIDE DEF r, whole
  <2>4. /\ Answer(r, whole) \in FindType
        /\ OpenInv(Answer(r, whole)) /\ FoundInv(Answer(r, whole))
    BY <1>1, <2>1, <2>2, <2>3, AnswerKeeps
  <2>5. find' = Answer(r, whole)
    BY <1>9 DEF r, whole
  <2> QED BY <1>1, <2>4, <2>5, RestKept
<1>10. ASSUME NEW e \in BOOLEAN, NEW h \in SUBSET Matches(c, q), ~same,
              find' = Answer([err |-> e, hits |-> h], FALSE)
       PROVE  Inv'
  <2> DEFINE r == [err |-> e, hits |-> h]
  <2>1. /\ r.hits \subseteq Matches(c, q)
        /\ r \in [err : BOOLEAN, hits : SUBSET KeysOf(Width)]
    BY <1>7
  <2>2. files[c].written > 1
    BY <1>4, <1>8, <1>10
  <2>3. find' = Answer(r, FALSE) /\ FALSE \in BOOLEAN
    BY <1>10
  <2> HIDE DEF r
  <2>4. /\ Answer(r, FALSE) \in FindType
        /\ OpenInv(Answer(r, FALSE)) /\ FoundInv(Answer(r, FALSE))
    BY <1>1, <2>1, <2>2, <2>3, AnswerKeeps
  <2> QED BY <1>1, <2>3, <2>4, RestKept
<1>11. ASSUME n = 1, NEW m \in Readable(c)
       PROVE  HitsIn(SubSeq(s[1], 1, m), q) \subseteq Matches(c, q)
  <2> DEFINE recs == SubSeq(s[1], 1, m)
             W == Width
             K == RuleKeys(c)
  <2>1. n > 0 /\ 1 \in 1..n
    BY <1>11
  <2>2. s # <<>>
    <3>1. Len(<<>>) = 0
      OBVIOUS
    <3> QED BY <1>11, <3>1
  <2>3. s[1] \in Seq(Rec(W)) /\ Len(s[1]) \in Nat
    BY <1>4, <2>1
  <2>4. HasKeys(K, s[1])
    BY <1>5, <2>1 DEF IsIndex
  <2>5. m \in 0..Len(s[1])
    BY <1>1, <1>11, <2>2, ReadableIsThere
  <2>6. Len(q) \in {1, 2} /\ Len(q) <= W /\ IsQuery(q, Len(q))
    BY <1>3, <1>4, QueryTypes
  <2> HIDE DEF s, K, W
  <2>7. \A i \in 1..m : s[1][i] \in Rec(W) /\ i \in 1..Len(s[1])
    BY <2>3, <2>5
  <2>8. recs \in Seq(Rec(W)) /\ Len(recs) = m /\ \A i \in 1..m : recs[i] = s[1][i]
    <3>1. 1 \in 1..Len(s[1]) + 1 /\ m \in 0..Len(s[1])
      BY <2>3, <2>5
    <3>2. m - 1 + 1 = m /\ \A i \in 1..m : 1 + i - 1 = i
      BY <2>5
    <3>3. /\ recs \in Seq(Rec(W))
          /\ Len(recs) = IF 1 <= m THEN m - 1 + 1 ELSE 0
          /\ \A i \in 1..(m - 1 + 1) : recs[i] = s[1][1 + i - 1]
      BY <2>3, <3>1, SubSeqProperties
    <3> HIDE DEF recs
    <3> QED BY <2>5, <3>2, <3>3
  <2> HIDE DEF recs
  <2>9. \A i \in 1..Len(recs) : recs[i].key \in K
    BY <2>4, <2>7, <2>8 DEF HasKeys
  <2>10. HitsIn(recs, q) \subseteq Matching(K, q)
    <3>1. W \in {1, 2}
      BY <1>6 DEF W
    <3> QED BY <2>6, <2>8, <2>9, <3>1, HitsMatch
  <2> QED BY <1>7, <2>10 DEF recs, K, s
<1>12. \/ find' = Answer(LookupAll(s, q), find.at = files[c].written)
       \/ ~same /\ find' = Answer([err |-> TRUE, hits |-> {}], FALSE)
       \/ /\ ~same /\ n = 1
          /\ \E m \in Readable(c) :
               find' = Answer([err |-> FALSE, hits |-> HitsIn(SubSeq(s[1], 1, m), q)], FALSE)
       \/ find' = [find EXCEPT !.result = "unreadable"]
  BY DEF LookupFinder
<1> HIDE DEF same, n, s, q, c
<1>13. CASE find' = Answer(LookupAll(s, q), find.at = files[c].written)
  BY <1>9, <1>13
<1>14. CASE ~same /\ find' = Answer([err |-> TRUE, hits |-> {}], FALSE)
  <2>1. PICK h \in SUBSET Matches(c, q), e \in BOOLEAN : h = {} /\ e = TRUE
    OBVIOUS
  <2>2. find' = Answer([err |-> e, hits |-> h], FALSE)
    BY <1>14, <2>1
  <2> QED BY <1>10, <1>14, <2>2
<1>15. CASE /\ ~same /\ n = 1
            /\ \E m \in Readable(c) :
                 find' = Answer([err |-> FALSE, hits |-> HitsIn(SubSeq(s[1], 1, m), q)], FALSE)
  <2>1. PICK m \in Readable(c) :
          find' = Answer([err |-> FALSE, hits |-> HitsIn(SubSeq(s[1], 1, m), q)], FALSE)
    BY <1>15
  <2> DEFINE h == HitsIn(SubSeq(s[1], 1, m), q)
  <2>2. h \in SUBSET Matches(c, q)
    BY <1>11, <1>15
  <2>3. find' = Answer([err |-> FALSE, hits |-> h], FALSE)
    BY <2>1
  <2> HIDE DEF h
  <2> QED BY <1>10, <1>15, <2>2, <2>3
<1>16. CASE find' = [find EXCEPT !.result = "unreadable"]
  BY <1>1, <1>16, FailsKeeps
<1> QED BY <1>12, <1>13, <1>14, <1>15, <1>16

\* A step of the indexer alone.
LEMMA SearchWaits ==
  ASSUME Inv, UNCHANGED <<content, rule, thresh, find>>,
         files' \in [Chunks -> FileType], indexer' \in IndexerType, FilesMove,
         \A c \in Chunks :
           /\ files'[c].state = "built" => IndexOf(c, files'[c].sections)
           /\ files'[c].state = "building" => indexer'.open /\ indexer'.chunk = c
           /\ files'[c].state # "none" => files'[c].written >= 1,
         indexer'.chunk = 0 => indexer' = Idle,
         ~indexer'.open => indexer'.layers = <<>>,
         indexer'.open => /\ indexer'.chunk # 0 /\ files'[indexer'.chunk].state = "building"
                          /\ LayersInv(Width, indexer'.layers)
                          /\ Given(indexer'.chunk, indexer'.layers, indexer'.todo),
         Len(indexer'.layers) < MaxLevels
  PROVE  Inv'
<1>1. /\ Width' = Width /\ \A c : IndexKeys(c)' = IndexKeys(c)
      /\ \A c, s : IndexOf(c, s)' <=> IndexOf(c, s)
      /\ FileType' = FileType /\ IndexerType' = IndexerType /\ FindType' = FindType
      /\ Setting'
  BY SettingKept DEF Inv, Types
<1>2. Types'
  BY <1>1 DEF Inv, Types
<1>3. FilesInv'
  BY <1>1 DEF FilesInv
<1>4. \A c, layers, todo : Given(c, layers, todo)' <=> Given(c, layers, todo)
  BY <1>1 DEF Given
<1>5. IndexerInv'
  BY <1>1, <1>4 DEF IndexerInv
<1>6. OpenInv(find)' /\ FoundInv(find)'
  BY <1>2, SearchKept
<1> QED BY <1>2, <1>3, <1>5, <1>6 DEF Inv

\* Nothing is left open between two chunks.
LEMMA IdleType ==
  /\ Idle \in IndexerType /\ Idle.chunk = 0 /\ ~Idle.open /\ Idle.layers = <<>> /\ Idle.todo = <<>>
  /\ \A c \in 0..NChunks : LET i == [Idle EXCEPT !.chunk = c] IN
       i \in IndexerType /\ i.chunk = c /\ ~i.open /\ i.layers = <<>>
  /\ Len(<<>>) < MaxLevels
<1> DEFINE e == <<>>
<1>1. /\ e \in Seq(KeysOf(Width)) /\ e \in Seq(Layer(Width)) /\ NChunks \in Nat /\ Len(e) = 0
      /\ MaxLevels \in Nat \ {0} /\ 0 \in 0..NChunks
  BY MicroindexAssumption
<1>2. Idle = [chunk |-> 0, open |-> FALSE, todo |-> e, layers |-> e]
  BY DEF Idle
<1>3. e = <<>>
  OBVIOUS
<1> HIDE DEF e
<1>4. Idle \in IndexerType /\ Idle.chunk = 0 /\ ~Idle.open /\ Idle.layers = e /\ Idle.todo = e
  BY <1>1, <1>2 DEF IndexerType
<1>5. ASSUME NEW c \in 0..NChunks
      PROVE  LET i == [Idle EXCEPT !.chunk = c] IN
               i \in IndexerType /\ i.chunk = c /\ ~i.open /\ i.layers = e
  BY <1>4 DEF IndexerType
<1>6. Len(e) < MaxLevels
  BY <1>1
<1> QED BY <1>3, <1>4, <1>5, <1>6

\* A run of the indexer begins.
LEMMA StartRunKeeps ==
  ASSUME Inv, StartRun
  PROVE  Inv'
<1>1. /\ indexer = Idle /\ indexer' = [Idle EXCEPT !.chunk = 1]
      /\ UNCHANGED <<content, rule, thresh, files, find>>
  BY DEF StartRun
<1>2. 1 \in 0..NChunks
  BY MicroindexAssumption
<1>3. /\ indexer' \in IndexerType /\ indexer'.chunk = 1 /\ ~indexer'.open /\ indexer'.layers = <<>>
      /\ ~indexer.open /\ Len(<<>>) < MaxLevels
  BY <1>1, <1>2, IdleType
<1>4. FilesInv /\ files \in [Chunks -> FileType]
  BY DEF Inv, Types
<1>5. FilesMove
  <2>1. \A c \in Chunks : files[c].written \in Nat
    BY <1>4 DEF FileType
  <2> QED BY <1>1, <2>1 DEF FilesMove
<1>6. \A c \in Chunks :
        /\ files'[c].state = "built" => IndexOf(c, files'[c].sections)
        /\ files'[c].state = "building" => indexer'.open /\ indexer'.chunk = c
        /\ files'[c].state # "none" => files'[c].written >= 1
  BY <1>1, <1>3, <1>4 DEF FilesInv
<1> QED BY <1>1, <1>3, <1>4, <1>5, <1>6, SearchWaits

\* The writer of the next chunk is opened, and its file truncated.
LEMMA OpenWriterKeeps ==
  ASSUME Inv, OpenWriter
  PROVE  Inv'
<1> DEFINE c == indexer.chunk
           new == [state |-> "building", sections |-> <<>>, written |-> files[c].written + 1]
<1>1. /\ indexer # Idle /\ ~indexer.open /\ UNCHANGED <<content, rule, thresh, find>>
      /\ indexer' = [indexer EXCEPT !.open = TRUE, !.todo = IndexKeys(c)]
  BY DEF OpenWriter
<1>2. FilesInv /\ files \in [Chunks -> FileType] /\ indexer \in IndexerType /\ IndexerInv /\ Setting
  BY DEF Inv, Types
<1>3. c \in Chunks /\ c # 0
  <2>1. NChunks \in Nat /\ Chunks = 1..NChunks
    BY MicroindexAssumption DEF Chunks
  <2> QED BY <1>1, <1>2, <2>1 DEF IndexerInv, IndexerType
<1>4. files' = [files EXCEPT ![c] = new]
  BY DEF OpenWriter
<1>5. new \in FileType /\ new.state = "building" /\ new.written = files[c].written + 1
  <2>1. files[c].written + 1 \in Nat
    BY <1>2, <1>3 DEF FileType
  <2> DEFINE e == <<>>
  <2>2. e \in Seq(Seq(Rec(Width)))
    OBVIOUS
  <2>3. new = [state |-> "building", sections |-> e, written |-> files[c].written + 1]
    OBVIOUS
  <2> HIDE DEF e, new
  <2> QED BY <2>1, <2>2, <2>3 DEF FileType, States
<1> HIDE DEF new
<1>6. /\ files' \in [Chunks -> FileType] /\ files'[c] = new
      /\ \A d \in Chunks : d # c => files'[d] = files[d]
  BY <1>2, <1>3, <1>4, <1>5
<1>7. IndexKeys(c) \in Seq(KeysOf(Width))
  BY <1>2, <1>3, IndexKeysSorted
<1>8. /\ indexer' \in IndexerType /\ indexer'.open /\ indexer'.chunk = c
      /\ indexer'.todo = IndexKeys(c) /\ indexer'.layers = indexer.layers
  <2> DEFINE ks == IndexKeys(c)
  <2>1. ks \in Seq(KeysOf(Width)) /\ indexer' = [indexer EXCEPT !.open = TRUE, !.todo = ks]
    BY <1>1, <1>7
  <2> HIDE DEF ks
  <2>2. /\ indexer' \in IndexerType /\ indexer'.open /\ indexer'.chunk = indexer.chunk
        /\ indexer'.todo = ks /\ indexer'.layers = indexer.layers
    BY <1>2, <2>1 DEF IndexerType
  <2> QED BY <2>2 DEF ks
<1>9. indexer.layers = <<>> /\ Len(<<>>) < MaxLevels
  BY <1>1, <1>2, IdleType DEF IndexerInv
<1>10. FilesMove
  <2>1. \A d \in Chunks : files[d].written \in Nat
    BY <1>2 DEF FileType
  <2> QED BY <1>3, <1>5, <1>6, <2>1 DEF FilesMove
<1>11. \A d \in Chunks :
         /\ files'[d].state = "built" => IndexOf(d, files'[d].sections)
         /\ files'[d].state = "building" => indexer'.open /\ indexer'.chunk = d
         /\ files'[d].state # "none" => files'[d].written >= 1
  <2>1. "building" # "built"
    OBVIOUS
  <2>2. files[c].written \in Nat
    BY <1>2, <1>3 DEF FileType
  <2> HIDE DEF c
  <2> QED BY <1>1, <1>2, <1>5, <1>6, <1>8, <2>1, <2>2 DEF FilesInv
<1>12. LayersInv(Width, <<>>) /\ Given(c, <<>>, IndexKeys(c))
  <2> DEFINE e == <<>>
  <2>1. e \in Seq(Layer(Width)) /\ Len(e) = 0 /\ 1..0 = {} /\ 1..(0 - 1) = {}
    OBVIOUS
  <2>2. BaseOf(e) = <<>>
    BY <2>1 DEF BaseOf
  <2>3. Len(BaseOf(e)) = 0
    BY <2>2
  <2>4. Len(IndexKeys(c)) \in Nat
    BY <1>7
  <2>5. e = <<>>
    OBVIOUS
  <2> HIDE DEF e, c
  <2>6. LayersInv(Width, e)
    BY <2>1 DEF LayersInv
  <2>7. Given(c, e, IndexKeys(c))
    BY <2>1, <2>3, <2>4 DEF Given
  <2> QED BY <2>5, <2>6, <2>7
<1> HIDE DEF c
<1> QED BY <1>1, <1>3, <1>5, <1>6, <1>8, <1>9, <1>10, <1>11, <1>12, SearchWaits

\* An index that fails is removed, and the run ends.
LEMMA AbortKeeps ==
  ASSUME Inv, indexer.open, AbortIndex, UNCHANGED <<content, rule, thresh, find>>
  PROVE  Inv'
<1> DEFINE c == indexer.chunk
<1>1. files' = [files EXCEPT ![c].state = "none"] /\ indexer' = Idle
  BY DEF AbortIndex
<1>2. FilesInv /\ files \in [Chunks -> FileType] /\ indexer \in IndexerType /\ IndexerInv
  BY DEF Inv, Types
<1>3. c \in Chunks /\ c # 0 /\ files[c].state = "building"
  <2>1. NChunks \in Nat /\ Chunks = 1..NChunks
    BY MicroindexAssumption DEF Chunks
  <2> QED BY <1>2, <2>1 DEF IndexerInv, IndexerType
<1>4. /\ files' \in [Chunks -> FileType] /\ files'[c].state = "none" /\ files'[c].written = files[c].written
      /\ \A d \in Chunks : d # c => files'[d] = files[d]
  <2> DEFINE new == [files[c] EXCEPT !.state = "none"]
  <2>1. new \in FileType /\ new.state = "none" /\ new.written = files[c].written
    BY <1>2, <1>3 DEF FileType, States
  <2>2. files' = [files EXCEPT ![c] = new]
    BY <1>1, <1>2, <1>3
  <2> HIDE DEF new, c
  <2> QED BY <1>2, <1>3, <2>1, <2>2
<1>5. /\ indexer' \in IndexerType /\ indexer'.chunk = 0 /\ ~indexer'.open /\ indexer'.layers = <<>>
      /\ Len(<<>>) < MaxLevels
  BY <1>1, IdleType
<1>6. FilesMove
  <2>1. \A d \in Chunks : files[d].written \in Nat
    BY <1>2 DEF FileType
  <2>2. "building" # "built"
    OBVIOUS
  <2> HIDE DEF c
  <2> QED BY <1>3, <1>4, <2>1, <2>2 DEF FilesMove
<1>7. \A d \in Chunks :
        /\ files'[d].state = "built" => IndexOf(d, files'[d].sections)
        /\ files'[d].state = "building" => indexer'.open /\ indexer'.chunk = d
        /\ files'[d].state # "none" => files'[d].written >= 1
  <2>1. "none" # "built" /\ "none" # "building"
    OBVIOUS
  <2> QED BY <1>2, <1>4, <2>1 DEF FilesInv
<1> QED BY <1>1, <1>4, <1>5, <1>6, <1>7, SearchWaits

\* The next key is written, through the layers above it.
LEMMA WriteRecordKeeps ==
  ASSUME Inv, WriteRecord
  PROVE  Inv'
<1> DEFINE c == indexer.chunk
           ls == indexer.layers
           todo == indexer.todo
           W == Width
           new == Write(ls, Head(todo))
<1>1. /\ indexer.open /\ todo # <<>> /\ UNCHANGED <<content, rule, thresh, find>>
      /\ IF TooManyLevels(ls) THEN AbortIndex
         ELSE indexer' = [indexer EXCEPT !.todo = Tail(@), !.layers = Write(@, Head(todo))] /\ UNCHANGED files
  BY DEF WriteRecord
<1>2. CASE TooManyLevels(ls)
  <2>1. AbortIndex
    BY <1>1, <1>2
  <2> QED BY <1>1, <2>1, AbortKeeps
<1>3. CASE ~TooManyLevels(ls)
  <2>1. FilesInv /\ files \in [Chunks -> FileType] /\ indexer \in IndexerType /\ IndexerInv /\ Setting
        /\ thresh \in Thresholds
    BY DEF Inv, Types
  <2>2. /\ c \in Chunks /\ c # 0 /\ files[c].state = "building"
        /\ LayersInv(W, ls) /\ Given(c, ls, todo)
    <3>1. NChunks \in Nat /\ Chunks = 1..NChunks
      BY MicroindexAssumption DEF Chunks
    <3> QED BY <1>1, <2>1, <3>1 DEF IndexerInv, IndexerType
  <2>3. todo \in Seq(KeysOf(W)) /\ ls \in Seq(Layer(W)) /\ W \in {1, 2} /\ thresh \in Nat
    <3>1. thresh \in Nat
      BY <2>1, MicroindexAssumption
    <3>2. W \in {1, 2}
      BY <2>1, <2>2, RuleKeyTypes
    <3> QED BY <2>1, <3>1, <3>2 DEF IndexerType
  <2>4. /\ indexer' = [indexer EXCEPT !.todo = Tail(todo), !.layers = new] /\ files' = files
    BY <1>1, <1>3, <2>1 DEF IndexerType
  <2>5. /\ Head(todo) \in KeysOf(W) /\ Tail(todo) \in Seq(KeysOf(W))
        /\ Len(todo) \in Nat /\ Len(todo) >= 1 /\ Len(Tail(todo)) = Len(todo) - 1
        /\ Head(todo) = todo[1] /\ \A i \in 1..Len(Tail(todo)) : Tail(todo)[i] = todo[i + 1]
    <3> HIDE DEF todo, W
    <3>1. Len(todo) \in Nat /\ Len(todo) >= 1
      BY <1>1, <2>3, EmptySeq
    <3> QED BY <1>1, <2>3, <3>1, HeadTailProperties
  <2> HIDE DEF W
  <2>6. /\ LayersInv(W, new)
        /\ \/ Len(new) = Len(ls)
           \/ Len(new) = Len(ls) + 1 /\ Len(ls) + 1 \in Reached(ls)
        /\ BaseOf(new) = Append(BaseOf(ls), [key |-> Head(todo), child |-> 0])
    BY <2>2, <2>3, <2>5, WriteKeeps
  <2> HIDE DEF new
  <2>7. new \in Seq(Layer(W)) /\ Len(new) < MaxLevels
    <3>1. new \in Seq(Layer(W)) /\ ls \in Seq(Layer(W))
      BY <2>2, <2>6 DEF LayersInv
    <3>2. MaxLevels \in Nat /\ Len(ls) < MaxLevels /\ Len(ls) \in Nat
      BY <2>1, <3>1, MicroindexAssumption DEF IndexerInv
    <3>3. ~(Len(ls) + 1 \in Reached(ls) /\ Len(ls) + 1 >= MaxLevels)
      BY <1>3 DEF TooManyLevels
    <3> QED BY <2>6, <3>1, <3>2, <3>3
  <2>8. /\ indexer' \in IndexerType /\ indexer'.open /\ indexer'.chunk = c
        /\ indexer'.todo = Tail(todo) /\ indexer'.layers = new
    BY <1>1, <2>1, <2>4, <2>5, <2>7 DEF IndexerType, W
  <2>9. Given(c, new, Tail(todo))
    <3> DEFINE r == [key |-> Head(todo), child |-> 0]
               base == BaseOf(ls)
               n == Len(base)
               ks == IndexKeys(c)
    <3>1. base \in Seq(Rec(W))
      <4>1. CASE Len(ls) = 0
        BY <4>1 DEF BaseOf
      <4>2. CASE Len(ls) # 0
        <5> HIDE DEF ls
        <5>1. ls[1] \in Layer(W)
          BY <2>3, <4>2
        <5>2. ls[1].recs \in Seq(Rec(W))
          BY <5>1 DEF Layer
        <5> QED BY <4>2, <5>2 DEF BaseOf
      <4> QED BY <4>1, <4>2
    <3>2. r \in Rec(W) /\ r.key = Head(todo)
      BY <2>5 DEF Rec
    <3> HIDE DEF r, base
    <3>3. /\ Len(BaseOf(new)) = n + 1 /\ n \in Nat /\ BaseOf(new)[n + 1] = r
          /\ \A i \in 1..n : BaseOf(new)[i] = base[i]
      BY <2>6, <3>1, <3>2, Appended DEF r, base
    <3>4. /\ n + Len(todo) = Len(ks)
          /\ \A i \in 1..n : base[i].key = ks[i]
          /\ \A i \in 1..Len(todo) : todo[i] = ks[n + i]
      BY <2>2 DEF Given, base
    <3> HIDE DEF todo, ks, n
    <3>5. Len(BaseOf(new)) + Len(Tail(todo)) = Len(ks)
      BY <2>5, <3>3, <3>4
    <3>6. ASSUME NEW i \in 1..Len(BaseOf(new))
          PROVE  BaseOf(new)[i].key = ks[i]
      <4>1. CASE i = n + 1
        <5>1. 1 \in 1..Len(todo)
          BY <2>5
        <5> QED BY <2>5, <3>2, <3>3, <3>4, <4>1, <5>1
      <4>2. CASE i # n + 1
        <5>1. i \in 1..n
          BY <3>3, <4>2
        <5> QED BY <3>3, <3>4, <5>1
      <4> QED BY <4>1, <4>2
    <3>7. ASSUME NEW i \in 1..Len(Tail(todo))
          PROVE  Tail(todo)[i] = ks[Len(BaseOf(new)) + i]
      <4>1. i + 1 \in 1..Len(todo) /\ Len(BaseOf(new)) + i = n + (i + 1)
        BY <2>5, <3>3
      <4> QED BY <2>5, <3>4, <4>1
    <3> QED BY <3>5, <3>6, <3>7 DEF Given, ks
  <2>10. FilesMove
    <3>1. \A d \in Chunks : files[d].written \in Nat
      BY <2>1 DEF FileType
    <3> QED BY <2>4, <3>1 DEF FilesMove
  <2>11. \A d \in Chunks :
           /\ files'[d].state = "built" => IndexOf(d, files'[d].sections)
           /\ files'[d].state = "building" => indexer'.open /\ indexer'.chunk = d
           /\ files'[d].state # "none" => files'[d].written >= 1
    BY <2>1, <2>4, <2>8 DEF FilesInv
  <2> HIDE DEF c, todo
  <2>12. /\ indexer'.chunk # 0 /\ files'[indexer'.chunk].state = "building"
         /\ LayersInv(Width, indexer'.layers)
         /\ Given(indexer'.chunk, indexer'.layers, indexer'.todo)
    BY <2>2, <2>4, <2>6, <2>8, <2>9 DEF W
  <2>13. files' \in [Chunks -> FileType] /\ Len(indexer'.layers) < MaxLevels
    BY <2>1, <2>4, <2>7, <2>8
  <2>14. indexer'.chunk # 0 /\ indexer'.open
    BY <2>2, <2>8
  <2> QED BY <1>1, <2>8, <2>10, <2>11, <2>12, <2>13, <2>14, SearchWaits
<1> QED BY <1>2, <1>3

\* The last key is written: the index is finished with its trailer.
LEMMA CloseWriterKeeps ==
  ASSUME Inv, CloseWriter
  PROVE  Inv'
<1> DEFINE c == indexer.chunk
           ls == indexer.layers
           s == FinalSections(ls)
<1>1. /\ indexer.open /\ indexer.todo = <<>> /\ UNCHANGED <<content, rule, thresh, find>>
      /\ files' = [files EXCEPT ![c].state = "built", ![c].sections = s]
      /\ indexer' = IF c = NChunks THEN Idle ELSE [Idle EXCEPT !.chunk = c + 1]
  BY DEF CloseWriter
<1>2. FilesInv /\ files \in [Chunks -> FileType] /\ indexer \in IndexerType /\ IndexerInv /\ Setting
  BY DEF Inv, Types
<1>3. NChunks \in Nat /\ Chunks = 1..NChunks
  BY MicroindexAssumption DEF Chunks
<1>4. /\ c \in Chunks /\ c # 0 /\ files[c].state = "building"
      /\ LayersInv(Width, ls) /\ Given(c, ls, indexer.todo) /\ ls \in Seq(Layer(Width))
  BY <1>1, <1>2, <1>3 DEF IndexerInv, IndexerType
<1>5. IndexOf(c, s)
  <2> DEFINE W == Width
             K == RuleKeys(c)
             ks == IndexKeys(c)
             base == BaseOf(ls)
  <2>1. W \in {1, 2} /\ Sorted(K, ks) /\ ks \in Seq(KeysOf(W))
    BY <1>2, <1>4, RuleKeyTypes, IndexKeysSorted
  <2>2. Len(base) = Len(ks) /\ \A i \in 1..Len(base) : base[i].key = ks[i]
    <3>1. /\ Len(base) + Len(indexer.todo) = Len(ks)
          /\ \A i \in 1..Len(base) : base[i].key = ks[i]
      BY <1>4 DEF Given
    <3>2. Len(indexer.todo) = 0
      BY <1>1
    <3>3. Len(base) \in Nat
      <4>1. CASE Len(ls) = 0
        BY <4>1 DEF BaseOf
      <4>2. CASE Len(ls) # 0
        <5>1. ls[1] \in Layer(W)
          BY <1>4, <4>2
        <5>2. ls[1].recs \in Seq(Rec(W))
          BY <5>1 DEF Layer
        <5> QED BY <4>2, <5>2 DEF BaseOf
      <4> QED BY <4>1, <4>2
    <3> HIDE DEF base, ks
    <3> QED BY <3>1, <3>2, <3>3
  <2>3. IsIndex(W, s, K)
    <3>1. LayersInv(W, ls)
      BY <1>4
    <3>2. \A i \in 1..Len(ks) : BaseOf(ls)[i].key = ks[i]
      BY <2>2
    <3> HIDE DEF W, K, ks, ls
    <3> QED BY <2>1, <2>2, <3>1, <3>2, FinalIsIndex
  <2>4. s # <<>> => s[1] = base
    <3>1. Len(ls) \in Nat /\ s = [k \in 1..Len(ls) |-> ls[IF k = 1 THEN 1 ELSE Len(ls) + 2 - k].recs]
      BY <1>4 DEF FinalSections
    <3>2. CASE Len(ls) = 0
      <4>1. s \in Seq(Seq(Rec(W)))
        BY <2>3 DEF IsIndex
      <4>2. Len(s) = 0
        <5> HIDE DEF s, ls
        <5> QED BY <3>1, <3>2
      <4> HIDE DEF s
      <4> QED BY <4>1, <4>2, EmptySeq
    <3>3. CASE Len(ls) # 0
      <4>1. 1 \in 1..Len(ls)
        BY <3>1, <3>3
      <4> HIDE DEF s, ls
      <4>2. s[1] = ls[1].recs
        BY <3>1, <4>1
      <4> QED BY <3>3, <4>2 DEF BaseOf
    <3> QED BY <3>2, <3>3
  <2> QED BY <2>2, <2>3, <2>4 DEF IndexOf
<1>6. /\ files' \in [Chunks -> FileType] /\ files'[c].state = "built" /\ files'[c].sections = s
      /\ files'[c].written = files[c].written
      /\ \A d \in Chunks : d # c => files'[d] = files[d]
  <2> DEFINE new == [files[c] EXCEPT !.state = "built", !.sections = s]
  <2>1. s \in Seq(Seq(Rec(Width)))
    BY <1>5 DEF IndexOf, IsIndex
  <2> HIDE DEF s
  <2>2. files[c] \in FileType
    BY <1>2, <1>4
  <2>3. new \in FileType /\ new.state = "built" /\ new.sections = s /\ new.written = files[c].written
    BY <2>1, <2>2 DEF FileType, States
  <2>4. files' = [files EXCEPT ![c] = new]
    BY <1>1, <1>2, <1>4
  <2> HIDE DEF new, c
  <2> QED BY <1>2, <1>4, <2>3, <2>4
<1>7. /\ indexer' \in IndexerType /\ ~indexer'.open /\ indexer'.layers = <<>>
      /\ Len(<<>>) < MaxLevels /\ (indexer'.chunk = 0 => indexer' = Idle)
  <2>1. CASE c = NChunks
    BY <1>1, <2>1, IdleType
  <2>2. CASE c # NChunks
    <3>1. c + 1 \in 0..NChunks /\ c + 1 # 0
      BY <1>3, <1>4, <2>2
    <3>2. indexer' = [Idle EXCEPT !.chunk = c + 1]
      BY <1>1, <2>2
    <3>3. indexer' \in IndexerType /\ indexer'.chunk = c + 1 /\ ~indexer'.open /\ indexer'.layers = <<>>
      <4> HIDE DEF c
      <4> QED BY <3>1, <3>2, IdleType
    <3> QED BY <3>1, <3>3, IdleType
  <2> QED BY <2>1, <2>2
<1>8. files[c].written >= 1
  BY <1>2, <1>4 DEF FilesInv
<1> HIDE DEF c, s
<1>9. FilesMove
  <2>1. \A d \in Chunks : files[d].written \in Nat
    BY <1>2 DEF FileType
  <2> QED BY <1>4, <1>6, <2>1 DEF FilesMove
<1>10. \A d \in Chunks :
         /\ files'[d].state = "built" => IndexOf(d, files'[d].sections)
         /\ files'[d].state = "building" => indexer'.open /\ indexer'.chunk = d
         /\ files'[d].state # "none" => files'[d].written >= 1
  <2>1. \A d \in Chunks : files[d].state = "building" => d = c
    BY <1>2 DEF FilesInv, c
  <2>2. "building" # "built"
    OBVIOUS
  <2> QED BY <1>2, <1>5, <1>6, <1>8, <2>1, <2>2 DEF FilesInv
<1> QED BY <1>1, <1>6, <1>7, <1>9, <1>10, SearchWaits

\* Every step keeps the invariant.
LEMMA StepKeeps ==
  ASSUME Inv, [Next]_vars
  PROVE  Inv'
<1>1. CASE StartRun
  BY <1>1, StartRunKeeps
<1>2. CASE OpenWriter
  BY <1>2, OpenWriterKeeps
<1>3. CASE WriteRecord
  BY <1>3, WriteRecordKeeps
<1>4. CASE WriteFails
  <2>1. indexer.open /\ AbortIndex /\ UNCHANGED <<content, rule, thresh, find>>
    BY <1>4 DEF WriteFails
  <2> QED BY <2>1, AbortKeeps
<1>5. CASE CloseWriter
  BY <1>5, CloseWriterKeeps
<1>6. CASE \E query \in Queries, skip \in BOOLEAN : StartFind(query, skip)
  <2>1. PICK query \in Queries, skip \in BOOLEAN : StartFind(query, skip)
    BY <1>6
  <2> QED BY <2>1, StartFindKeeps
<1>7. CASE OpenFinder
  BY <1>7, OpenFinderKeeps
<1>8. CASE LookupFinder
  BY <1>8, LookupFinderKeeps
<1>9. CASE UNCHANGED vars
  <2>1. UNCHANGED <<content, rule, thresh, files, indexer, find>>
    BY <1>9 DEF vars
  <2>2. find' \in FindType /\ OpenInv(find') /\ FoundInv(find')
    BY <2>1 DEF Inv, Types
  <2> QED BY <2>1, <2>2, RestKept
<1> QED BY <1>1, <1>2, <1>3, <1>4, <1>5, <1>6, <1>7, <1>8, <1>9 DEF Next

\* It holds when nothing is indexed yet.
LEMMA StartsRight == Init => Inv
<1> SUFFICES ASSUME Init PROVE Inv
  OBVIOUS
<1>1. /\ content \in Contents /\ rule \in {"field", "zql"} /\ thresh \in Thresholds
      /\ files = [c \in Chunks |-> NoFile] /\ indexer = Idle /\ find = NoFind
  BY DEF Init
<1>2. NoFile \in FileType /\ NoFile.state = "none"
  <2> DEFINE e == <<>>
  <2>1. e \in Seq(Seq(Rec(Width)))
    OBVIOUS
  <2>2. NoFile = [state |-> "none", sections |-> e, written |-> 0]
    BY DEF NoFile
  <2> HIDE DEF e
  <2> QED BY <2>1, <2>2 DEF FileType, States
<1>3. Types
  BY <1>1, <1>2, IdleType, NoFindType DEF Types, Setting
<1>4. FilesInv
  <2>1. \A c \in Chunks : files[c].state = "none"
    BY <1>1, <1>2
  <2> QED BY <2>1 DEF FilesInv
<1>5. IndexerInv
  BY <1>1, IdleType DEF IndexerInv
<1>6. OpenInv(find)
  BY <1>1, NoFindType DEF OpenInv
<1>7. FoundInv(find)
  BY <1>1, NoFindType DEF FoundInv, Passed
<1> QED BY <1>3, <1>4, <1>5, <1>6, <1>7 DEF Inv

LEMMA AlwaysInv == Spec => []Inv
<1>1. Init => Inv
  BY StartsRight
<1>2. Inv /\ [Next]_vars => Inv'
  BY StepKeeps
<1> QED BY <1>1, <1>2, PTL DEF Spec

-----------------------------------------------------------------------------
(***************************************************************************)
(* The theorems                                                            *)
(***************************************************************************)
\* A finished index answers as a scan of its chunk would, for every frame threshold
\* and any number of layers: Lookup, LookupClosest and LookupAll (finder.go) over
\* what Writer.Write and Writer.Close (writer.go) left, but for the cases where a
\* key with an unset column is above the base.
THEOREM LookupsAreExact == Spec => []LookupsExact
<1>1. Inv => LookupsExact
  <2> SUFFICES ASSUME Inv PROVE LookupsExact
    OBVIOUS
  <2>1. Setting /\ FilesInv
    BY DEF Inv, Types
  <2>2. TypeOK
    <3>1. /\ content \in Contents /\ thresh \in Thresholds /\ files \in [Chunks -> FileType]
          /\ indexer \in IndexerType /\ find \in FindType /\ IndexerInv
      BY DEF Inv, Types, Setting
    <3>2. \A c \in Chunks : files[c].state \in {"none", "building", "built"}
      BY <3>1 DEF FileType, States
    <3>3. indexer.chunk \in 0..NChunks /\ Len(indexer.layers) < MaxLevels
      BY <3>1 DEF IndexerType, IndexerInv
    <3>4. find.result \in {"none", "running", "ok", "missing", "unreadable", "notfound"}
      BY <3>1 DEF FindType, Results
    <3> QED BY <3>1, <3>2, <3>3, <3>4 DEF TypeOK
  <2>3. ASSUME NEW c \in Chunks, NEW q \in Queries, Built(c)
        PROVE  LET s == files[c].sections
                   hits == LookupAll(s, q).hits
               IN  /\ hits \subseteq Matches(c, q)
                   /\ ~UnsetAbove(s) =>
                        /\ hits = {} => Matches(c, q) = {}
                        /\ (\A r \in Parents(s) : KeyCompare(r, q) # 0) => hits = Matches(c, q)
                        /\ q \in FullQueries => LookupIn(s, q, TRUE) = Matches(c, q)
                   /\ q \in FullQueries /\ (\A k \in RuleKeys(c) : ~Unset(k)) =>
                        LookupIn(s, q, FALSE) = Largest(NotAbove(RuleKeys(c), q))
    <3> DEFINE s == files[c].sections
    <3>1. IsIndex(Width, s, RuleKeys(c))
      BY <2>1, <2>3 DEF FilesInv, Built, IndexOf
    <3> HIDE DEF s
    <3>2. /\ LookupAll(s, q).hits \subseteq Matches(c, q)
          /\ ~UnsetAbove(s) =>
               /\ LookupAll(s, q).hits = {} => Matches(c, q) = {}
               /\ (\A r \in Parents(s) : KeyCompare(r, q) # 0) => LookupAll(s, q).hits = Matches(c, q)
               /\ q \in FullQueries => LookupIn(s, q, TRUE) = Matches(c, q)
          /\ q \in FullQueries /\ (\A k \in RuleKeys(c) : ~Unset(k)) =>
               LookupIn(s, q, FALSE) = Largest(NotAbove(RuleKeys(c), q))
      BY <2>1, <3>1, IndexAnswers
    <3> QED BY <3>2 DEF s
  <2>4. LookupExact
    BY <2>3 DEF LookupExact
  <2>5. ClosestExact
    <3>1. ASSUME NEW c \in Chunks, NEW q \in Queries, Built(c), q \in FullQueries,
                 \A k \in RuleKeys(c) : ~Unset(k)
          PROVE  LET below == {k \in RuleKeys(c) : k = q \/ SortsBefore(k, q)}
                 IN  LookupIn(files[c].sections, q, FALSE) = {k \in below : \A j \in below : j = k \/ SortsBefore(j, k)}
      BY <2>3, <3>1 DEF Largest, NotAbove
    <3> QED BY <3>1 DEF ClosestExact
  <2>6. PartialLookup
    BY <2>3 DEF PartialLookup
  <2> QED BY <2>2, <2>4, <2>5, <2>6 DEF LookupsExact
<1> QED BY <1>1, AlwaysInv, PTL

\* Whatever the indexer rewrites, removes or leaves half-written meanwhile, a search
\* (Find, archive/finder.go) returns only rows of the key that it was asked for, and
\* one that succeeds has every row of a whole key in each chunk that it read unrewritten.
THEOREM FindsAreExact == Spec => []FindExact
<1>1. Inv => FindExact
  <2> SUFFICES ASSUME Inv PROVE FindExact
    OBVIOUS
  <2>1. FoundInv(find)
    BY DEF Inv
  <2>2. find.result = "ok" => find.skip \/ \A c \in Chunks : c \in find.searched \/ files[c].written > 1
    BY <2>1 DEF FoundInv, Passed
  <2>3. \A c : RowsFound(c) <=> RowsOf(find, c) = {<<c, k>> : k \in Matches(c, find.query)}
    BY DEF RowsFound, RowsOf
  <2> QED BY <2>1, <2>2, <2>3 DEF FoundInv, FindExact
<1> QED BY <1>1, AlwaysInv, PTL
=============================================================================
