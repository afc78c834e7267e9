----------------------------- MODULE Aggregator -----------------------------
(***************************************************************************)
(* One group-by that reads its input batch by batch, holds at most limit   *)
(* groups in memory, spills the rest to disk and, when its input is sorted *)
(* on the first key, sends the groups that are complete (Proc.run of       *)
(* proc/groupby/groupby.go).  The functions are those of GroupBy; the      *)
(* machine adds what they are called on: any input, in batches of any      *)
(* length.                                                                 *)
(*                                                                         *)
(* An input that InputSortDir declares sorted is sorted: that is what      *)
(* setGroupByProcInputSortDir takes from the order of the source.          *)
(***************************************************************************)
EXTENDS GroupBy

CONSTANTS
  GroupBys,    \* the group-bys that are tried
  Inputs,      \* the records an input is made of
  MaxInput     \* how many records an input has at most

ASSUME MaxInputAssumption == MaxInput \in Nat

VARIABLES
  p,           \* the group-by
  input,       \* the records that have been consumed
  agg,         \* its Aggregator
  batch,       \* records of the current batch were consumed
  ended        \* its results have all been sent

vars == <<p, input, agg, batch, ended>>

Init ==
  /\ p \in GroupBys
  /\ input = <<>>
  /\ agg = NewAggregator
  /\ batch = FALSE
  /\ ended = FALSE

InOrder(r) ==
  p.dir # 0 /\ input # <<>> =>
    ValueCompare(p, Eval(Last(input), p.keys[1].source), Eval(r, p.keys[1].source)) <= 0

\* batch.Index(k) is consumed.
ConsumeRecord(r) ==
  /\ ~ended /\ agg.err = "none"
  /\ Len(input) < MaxInput
  /\ InOrder(r)
  /\ input' = Append(input, r)
  /\ agg' = Consumed(p, agg, r)
  /\ batch' = TRUE
  /\ UNCHANGED <<p, ended>>

\* The batch is done and the completed groups are sent.
SendCompleted ==
  /\ ~ended /\ agg.err = "none"
  /\ batch
  /\ agg' = AfterBatch(p, agg)
  /\ batch' = FALSE
  /\ UNCHANGED <<p, input, ended>>

\* Pull returned nil: everything is sent.
SendRest ==
  /\ ~ended /\ agg.err = "none"
  /\ ~batch
  /\ agg' = AtEnd(p, agg)
  /\ ended' = TRUE
  /\ UNCHANGED <<p, input, batch>>

\* shutdown, after an error or the last result.
Quit ==
  /\ ended \/ agg.err # "none"
  /\ UNCHANGED vars

Next == (\E r \in Inputs : ConsumeRecord(r)) \/ SendCompleted \/ SendRest \/ Quit

Spec == Init /\ [][Next]_vars

-----------------------------------------------------------------------------
(***************************************************************************)
(* What the aggregation should be, straight from the input.                *)
(***************************************************************************)
KeyOf(r) == [i \in DOMAIN p.keys |-> KeyValue(p.keys[i], r)]
Members(key) == {i \in DOMAIN input : KeyOf(input[i]) = key}
KeysSeen == {KeyOf(input[i]) : i \in {j \in DOMAIN input :
                                       \A k \in DOMAIN p.keys : KeyOf(input[j])[k] # Absent}}

\* What the values of a field among some of the records add up to.
Total(field, among) ==
  LET sum[n \in 0..Len(input)] ==
        IF n = 0 THEN 0
        ELSE sum[n - 1] + (IF n \in among THEN Eval(input[n], field) ELSE 0)
  IN  sum[Len(input)]

Expected(red, key) ==
  LET value(i) == Eval(input[i], red.field)
      present  == {i \in Members(key) : value(i) # Absent}
      values   == {i \in Members(key) : ~IsNull(value(i))}
      total    == Total(red.field, values)
  IN  CASE red.op = "count" /\ red.field = "" -> Cardinality(Members(key))
        [] red.op = "count" /\ red.field # "" -> Cardinality(values)
        [] red.op = "sum" -> IF values = {} THEN Absent ELSE total
        [] red.op = "avg" -> <<total, Cardinality(values)>>
        [] red.op = "max" -> IF values = {} THEN Absent ELSE Max({value(i) : i \in values})
        [] red.op = "min" -> IF values = {} THEN Absent ELSE Min({value(i) : i \in values})
        [] red.op = "first" -> IF present = {} THEN Absent ELSE value(Min(present))
        [] red.op = "last" -> IF present = {} THEN Absent ELSE value(Max(present))
        [] red.op = "countdistinct" -> Cardinality({value(i) : i \in present})

OutKey(r) == [i \in DOMAIN p.keys |-> r[p.keys[i].target]]

\* The groups in memory stay within the limit
\* and every key in memory or on disk is one of the input.
TypeOK ==
  /\ p \in GroupBys
  /\ input \in Seq(Inputs) /\ Len(input) <= MaxInput
  /\ Cardinality(DOMAIN agg.table) <= p.limit
  /\ DOMAIN agg.table \subseteq KeysSeen
  /\ \A i \in DOMAIN agg.runs : OutKey(agg.runs[i]) \in KeysSeen
  /\ ~agg.spiller => agg.runs = <<>>
  /\ agg.err \in {"none", "too big"}
  /\ batch \in BOOLEAN /\ ended \in BOOLEAN

(***************************************************************************)
(* A group is sent once, and when it is sent, be it from memory before the *)
(* end of the input, from the runs on disk or at the end, no record of it  *)
(* is still to come: what was sent is the aggregation of everything        *)
(* consumed so far (Results and its completed keys).                       *)
(***************************************************************************)
SentIsFinal ==
  /\ \A i, j \in DOMAIN agg.out : OutKey(agg.out[i]) = OutKey(agg.out[j]) => i = j
  /\ \A i \in DOMAIN agg.out, k \in DOMAIN p.reds :
       agg.out[i][p.reds[k].target] = Expected(p.reds[k], OutKey(agg.out[i]))

\* At the end of the input every group has been sent, however often the table
\* was spilled, and nothing is left in memory or on disk.
NothingLost ==
  ended => /\ {OutKey(agg.out[i]) : i \in DOMAIN agg.out} = KeysSeen
           /\ DOMAIN agg.table = {} /\ agg.runs = <<>>

\* A group-by of sorted input sends its groups in the same order, which is
\* what makes setGroupByProcInputSortDir carry the order to the next proc.
OutputInOrder ==
  p.dir # 0 =>
    \A i, j \in DOMAIN agg.out : i < j =>
      ValueCompare(p, OutKey(agg.out[i])[1], OutKey(agg.out[j])[1]) <= 0

\* Groups are sent when they are final and in order, and the table in memory
\* stays within its limit meanwhile.
SentRight == TypeOK /\ SentIsFinal /\ OutputInOrder

\* A group-by fails only when one of its reducers cannot be decomposed and
\* the groups of the input do not fit in memory (errTooBig).
FailsOnlyTooBig ==
  agg.err # "none" => /\ \E i \in DOMAIN p.reds : ~Decomposable(p.reds[i].op)
                      /\ Cardinality(KeysSeen) > p.limit

=============================================================================
