------------------------------ MODULE GroupBy -------------------------------
(***************************************************************************)
(* The aggregation of the group-by proc (proc/groupby/groupby.go), as      *)
(* functions on the state of an Aggregator.  A group-by p of a query has   *)
(*   keys      a sequence of [target, source, trunc]: the name a key gets, *)
(*             the field it comes from, and for "every" the duration its   *)
(*             value is truncated to (0: not)                              *)
(*   reds      a sequence of [target, op, field]                           *)
(*   every     the duration of "every", 0 without                          *)
(*   dir       InputSortDir: the order of the input on the first key, or 0 *)
(*   limit     how many groups fit in memory                               *)
(*   emitPart, consumePart   whether it sends or receives partial results  *)
(*                                                                         *)
(* The runs that are spilled to disk are merged with spill.MergeSort.  It  *)
(* is modelled by the sequence it reads: all the runs in the order of      *)
(* keysCompare, of equal records that of the earlier run first.            *)
(***************************************************************************)
EXTENDS Procs

NoKey == -2

NewAggregator ==
  [table |-> <<>>, maxTableKey |-> NoKey, maxSpillKey |-> NoKey,
   spiller |-> FALSE, runs |-> <<>>, out |-> <<>>, err |-> "none"]

\* Time.trunc keeps nulls.
KeyValue(k, r) ==
  LET v == Eval(r, k.source)
  IN  IF k.trunc = 0 \/ IsNull(v) THEN v ELSE v - (v % k.trunc)

KeyTargets(p) == [i \in DOMAIN p.keys |-> p.keys[i].target]
KeysCompare(p, ra, rb) == Directed(p.dir, TRUE, KeyTargets(p), ra, rb)
SortByKeys(p, recs) == SortStable(recs, p.dir, TRUE, KeyTargets(p))
ValueCompare(p, a, b) == IF p.dir < 0 THEN CompareValues(TRUE, b, a)
                                      ELSE CompareValues(TRUE, a, b)

\* updateMaxTableKey and updateMaxSpillKey.
LaterKey(p, max, v) == IF max = NoKey \/ ValueCompare(p, v, max) > 0 THEN v ELSE max

\* The record of a group: its keys and what its reducers have to say.
RowRecord(p, key, row) ==
  [f \in {p.keys[i].target : i \in DOMAIN p.keys} \cup {p.reds[i].target : i \in DOMAIN p.reds} |->
     IF \E i \in DOMAIN p.keys : p.keys[i].target = f
       THEN key[CHOOSE i \in DOMAIN p.keys : p.keys[i].target = f]
       ELSE LET i == CHOOSE j \in DOMAIN p.reds : p.reds[j].target = f
            IN  Result(p.reds[i].op, row[i])]

NewRow(p) == [i \in DOMAIN p.reds |-> NewReducer]

\* Row.Consume and Row.ConsumePart.
RowConsume(p, row, r) ==
  [i \in DOMAIN row |->
     Consume(p.reds[i].op, p.reds[i].field, row[i], Eval(r, p.reds[i].field))]
RowConsumePart(p, row, r) ==
  [i \in DOMAIN row |-> ConsumePart(p.reds[i].op, row[i], r[p.reds[i].target])]

(***************************************************************************)
(* readTable: the groups in memory, all of them, or those that are         *)
(* complete because the sorted input has passed their first key.  They are *)
(* read in the order of a Go map; the model picks one order.               *)
(***************************************************************************)
\* A mistake: the groups of the current first key count as complete.
CompletedUpTo(p, a) == {key \in DOMAIN a.table : ValueCompare(p, key[1], a.maxTableKey) <= 0}
Completed(p, a) == {key \in DOMAIN a.table : ValueCompare(p, key[1], a.maxTableKey) < 0}
TableRecords(p, a, keys) == SetToSeq({RowRecord(p, key, a.table[key]) : key \in keys})
WithoutKeys(a, keys) ==
  [a EXCEPT !.table = [key \in DOMAIN a.table \ keys |-> a.table[key]]]

\* spillTable: the table becomes a run of the spiller, which is created with
\* the first one.
SpillTable(p, a, eof) ==
  IF DOMAIN a.table = {} THEN a
  ELSE LET recs == SortByKeys(p, TableRecords(p, a, DOMAIN a.table))
           last == KeyValue(p.keys[1], Last(recs))
       IN  [WithoutKeys(a, DOMAIN a.table) EXCEPT
              !.spiller = TRUE,
              !.runs = SortByKeys(p, a.runs \o recs),
              !.maxSpillKey = IF ~eof /\ p.dir # 0 THEN LaterKey(p, @, last) ELSE @]

\* A new group finds no room.  The mistake: no room for a record of a group
\* that is there.
FullForAll(p, a, key) == Cardinality(DOMAIN a.table) >= p.limit
Full(p, a, key) == key \notin DOMAIN a.table /\ Cardinality(DOMAIN a.table) >= p.limit

\* Consume: a record that lacks a key is passed over; a new group that finds
\* the table full has it spilled, or fails the query.
Consumed(p, a, r) ==
  LET key  == [i \in DOMAIN p.keys |-> KeyValue(p.keys[i], r)]
      a1   == IF p.dir = 0 THEN a
              ELSE [a EXCEPT !.maxTableKey = LaterKey(p, @, key[1])]
      full == Full(p, a, key)
      a2   == IF full THEN SpillTable(p, a1, FALSE) ELSE a1
      row  == IF key \in DOMAIN a2.table THEN a2.table[key] ELSE NewRow(p)
      next == IF p.consumePart THEN RowConsumePart(p, row, r) ELSE RowConsume(p, row, r)
  IN  IF \E i \in DOMAIN key : key[i] = Absent THEN a
      ELSE IF full /\ \E i \in DOMAIN p.reds : ~Decomposable(p.reds[i].op)
           THEN [a1 EXCEPT !.err = "too big"]
           ELSE [a2 EXCEPT !.table =
                   [k \in DOMAIN @ \cup {key} |-> IF k = key THEN next ELSE @[k]]]

(***************************************************************************)
(* nextResultFromSpills: the partial results at the front with the same    *)
(* keys become one.                                                        *)
(***************************************************************************)
FrontGroup(p, runs) ==
  Cardinality({i \in DOMAIN runs : \A j \in 1..i : KeysCompare(p, runs[1], runs[j]) = 0})
SpilledRows(p, runs) ==
  LET row[n \in 0..Len(runs)] ==
        IF n = 0 THEN NewRow(p) ELSE RowConsumePart(p, row[n - 1], runs[n])
  IN  row
SpilledRecord(p, runs) ==
  RowRecord(p, [i \in DOMAIN p.keys |-> Eval(runs[1], p.keys[i].target)],
            SpilledRows(p, runs)[FrontGroup(p, runs)])

\* readSpills has a result: the end of the input, or a group before the last
\* key that was spilled.
SpillReady(p, a, eof) ==
  /\ a.runs # <<>>
  /\ eof \/ (p.dir # 0 /\ ValueCompare(p, KeyValue(p.keys[1], a.runs[1]), a.maxSpillKey) < 0)
ReadSpill(p, a) ==
  [a EXCEPT !.out = Append(@, SpilledRecord(p, a.runs)),
            !.runs = SubSeq(@, FrontGroup(p, a.runs) + 1, Len(@))]
NextSpill(p, a, eof) == IF SpillReady(p, a, eof) THEN ReadSpill(p, a) ELSE a
SpillReads(p, a, eof) ==
  LET read[n \in 0..Len(a.runs)] == IF n = 0 THEN a ELSE NextSpill(p, read[n - 1], eof)
  IN  read
ReadSpills(p, a, eof) == SpillReads(p, a, eof)[Len(a.runs)]

\* Proc.run after a batch: the completed groups go out, sorted by the first key.
AfterBatch(p, a) ==
  IF p.dir = 0 \/ a.err # "none" THEN a
  ELSE IF a.spiller THEN ReadSpills(p, a, FALSE)
  ELSE [WithoutKeys(a, Completed(p, a)) EXCEPT
          !.out = @ \o SortStable(TableRecords(p, a, Completed(p, a)), p.dir, TRUE,
                                  <<p.keys[1].target>>)]

\* Proc.run at the end of its input: everything goes out.
\* The mistake: what is still in memory is not spilled first.
AtEndUnspilled(p, a) ==
  IF a.spiller THEN ReadSpills(p, a, TRUE)
  ELSE [WithoutKeys(a, DOMAIN a.table) EXCEPT
          !.out = @ \o TableRecords(p, a, DOMAIN a.table)]
AtEnd(p, a) ==
  IF a.spiller THEN ReadSpills(p, SpillTable(p, a, TRUE), TRUE)
  ELSE [WithoutKeys(a, DOMAIN a.table) EXCEPT
          !.out = @ \o TableRecords(p, a, DOMAIN a.table)]

\* The group-by on a whole stream, of batches of one record.
GroupByProc(p, s) ==
  AtEnd(p, FoldLeft(LAMBDA a, r : AfterBatch(p, Consumed(p, a, r)), NewAggregator, s)).out
=============================================================================
