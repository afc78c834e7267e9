------------------------------- MODULE Procs --------------------------------
(***************************************************************************)
(* What the procs of a flowgraph make of a stream of records (proc/).      *)
(*                                                                         *)
(* A record is a function from the names of its fields to values, a stream *)
(* a sequence of records, and a proc of the query a record whose op names  *)
(* its kind (ast.Proc).  The streams are those between two procs from      *)
(* start to end of stream; of the batches only those matter that group-by  *)
(* looks at, and they have one record each (BatchLen).                     *)
(***************************************************************************)
EXTENDS Reducers, Sequences, SequencesExt

\* FieldExpr.Eval: the value of a field, Absent when the record has none.
Eval(r, f) == IF f \in DOMAIN r THEN r[f] ELSE Absent

\* compareValues: nulls are equal to each other, and largest or smallest.
CompareValues(nullsMax, a, b) ==
  CASE IsNull(a) /\ IsNull(b) -> 0
    [] IsNull(a) /\ ~IsNull(b) -> IF nullsMax THEN 1 ELSE -1
    [] ~IsNull(a) /\ IsNull(b) -> IF nullsMax THEN -1 ELSE 1
    [] OTHER -> IF a < b THEN -1 ELSE IF a > b THEN 1 ELSE 0

\* NewCompareFn: the first of the fields on which two records differ decides.
Compare(nullsMax, fields, ra, rb) ==
  LET differ == {k \in DOMAIN fields :
                   CompareValues(nullsMax, Eval(ra, fields[k]), Eval(rb, fields[k])) # 0}
  IN  IF differ = {} THEN 0
      ELSE LET f == fields[Min(differ)]
           IN  CompareValues(nullsMax, Eval(ra, f), Eval(rb, f))

\* A comparison with its arguments swapped when dir is negative.
Directed(dir, nullsMax, fields, ra, rb) ==
  IF dir < 0 THEN Compare(nullsMax, fields, rb, ra)
             ELSE Compare(nullsMax, fields, ra, rb)

\* SortStable, by insertion: Insertions(s, ...)[n] is what the first n records of s
\* come to.
InsertStable(s, r, dir, nullsMax, fields) ==
  LET k == Cardinality({i \in DOMAIN s : Directed(dir, nullsMax, fields, s[i], r) <= 0})
  IN  SubSeq(s, 1, k) \o <<r>> \o SubSeq(s, k + 1, Len(s))
Insertions(s, dir, nullsMax, fields) ==
  LET sorted[n \in 0..Len(s)] ==
        IF n = 0 THEN <<>> ELSE InsertStable(sorted[n - 1], s[n], dir, nullsMax, fields)
  IN  sorted
SortStable(s, dir, nullsMax, fields) == Insertions(s, dir, nullsMax, fields)[Len(s)]

-----------------------------------------------------------------------------
\* A filter on the value of one field; a null never matches.
FilterProc(p, s) == SelectSeq(s, LAMBDA r : Eval(r, p.field) >= p.min /\ ~IsNull(Eval(r, p.field)))

(***************************************************************************)
(* Cutter.Cut: the fields that are there, under their new names, or all    *)
(* but the named ones.  A record that would be empty is dropped.           *)
(***************************************************************************)
CutRecord(p, r) ==
  IF p.complement
    THEN [f \in DOMAIN r \ {p.fields[k].source : k \in DOMAIN p.fields} |-> r[f]]
    ELSE LET kept == {k \in DOMAIN p.fields : p.fields[k].source \in DOMAIN r}
         IN  [f \in {p.fields[k].target : k \in kept} |->
                r[p.fields[CHOOSE k \in kept : p.fields[k].target = f].source]]
CutProc(p, s) ==
  SelectSeq([i \in DOMAIN s |-> CutRecord(p, s[i])], LAMBDA r : DOMAIN r # {})

\* put: the value of another field.  A record on which it cannot be evaluated
\* goes through as it is.
PutRecord(p, r) ==
  IF p.source \notin DOMAIN r THEN r
  ELSE [f \in DOMAIN r \cup {p.target} |-> IF f = p.target THEN r[p.source] ELSE r[f]]
PutProc(p, s) == [i \in DOMAIN s |-> PutRecord(p, s[i])]

\* rename: to a name the record does not have yet.
RenameRecord(p, r) ==
  IF p.source \notin DOMAIN r THEN r
  ELSE [f \in (DOMAIN r \ {p.source}) \cup {p.target} |->
          IF f = p.target THEN r[p.source] ELSE r[f]]
RenameProc(p, s) == [i \in DOMAIN s |-> RenameRecord(p, s[i])]

HeadProc(p, s) == SubSeq(s, 1, IF p.count < Len(s) THEN p.count ELSE Len(s))
TailProc(p, s) == SubSeq(s, IF p.count < Len(s) THEN Len(s) - p.count + 1 ELSE 1, Len(s))

\* uniq: the first of each run of equal records, all of one type (appendUniq
\* compares the bytes of their values).
UniqProc(s) ==
  FoldLeft(LAMBDA out, r : IF out # <<>> /\ Last(out) = r THEN out ELSE Append(out, r),
           <<>>, s)

\* fuse: every record gets all the fields, unset where it had none.
FuseProc(s) ==
  LET uber == UNION {DOMAIN s[i] : i \in DOMAIN s}
  IN  [i \in DOMAIN s |-> [f \in uber |-> IF f \in DOMAIN s[i] THEN s[i][f] ELSE Null]]

\* setCompareFn: nulls last unless asked otherwise, in both directions.
SortNullsMax(p) == IF p.dir < 0 THEN p.nullsFirst ELSE ~p.nullsFirst
SortCompare(p, ra, rb) == Directed(p.dir, SortNullsMax(p), p.fields, ra, rb)
SortProc(p, s) == SortStable(s, p.dir, SortNullsMax(p), p.fields)

\* top: the largest first, nulls last.
TopProc(p, s) == HeadProc(p, SortStable(s, -1, FALSE, p.fields))
=============================================================================
