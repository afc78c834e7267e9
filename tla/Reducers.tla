------------------------------ MODULE Reducers ------------------------------
(***************************************************************************)
(* The aggregate functions of a group-by (reducer/, reducer/field/): the   *)
(* state of one reducer of one group, what it consumes, the partial result *)
(* it can hand on and what another instance makes of that.                 *)
(*                                                                         *)
(* A value is a positive number, Null (unset: a type without bytes) or     *)
(* Absent (no such field, or the value of type null a reducer returns that *)
(* has seen nothing).  A sum or a maximum of nothing but nulls is Absent   *)
(* too: the type of a null result is left out.  The quotient of Avg is     *)
(* left as the pair of its terms.                                          *)
(***************************************************************************)
EXTENDS Integers, FiniteSets

Null == 0
Absent == -1
IsNull(v) == v \in {Null, Absent}

\* One record holds the state of any of the reducers; each uses its own part.
NewReducer == [count |-> 0, sum |-> 0, val |-> Absent, seen |-> {}]

\* The fields Decomposable asks for: ConsumePart and ResultPart.
Decomposable(op) == op # "countdistinct"

(***************************************************************************)
(* Consume: v is what the field of the reducer evaluates to on the record. *)
(***************************************************************************)
\* Count without a field has no resolver and counts every record.
CountConsume(field, s, v) ==
  IF field # "" /\ IsNull(v) THEN s ELSE [s EXCEPT !.count = @ + 1]
AvgConsume(s, v) ==
  IF IsNull(v) THEN s ELSE [s EXCEPT !.sum = @ + v, !.count = @ + 1]
FirstConsume(s, v) ==
  IF s.val # Absent \/ v = Absent THEN s ELSE [s EXCEPT !.val = v]
LastConsume(s, v) ==
  IF v = Absent THEN s ELSE [s EXCEPT !.val = v]
\* The sketch is exact on the few values of a model.
CountDistinctConsume(s, v) ==
  IF v = Absent THEN s ELSE [s EXCEPT !.seen = @ \cup {v}]
\* consumeVal passes over nulls; the typed functions add, or keep
\* the larger or the smaller value.
ConsumeVal(op, s, v) ==
  CASE IsNull(v) -> s
    [] ~IsNull(v) /\ op = "sum" -> [s EXCEPT !.val = IF @ = Absent THEN v ELSE @ + v]
    [] ~IsNull(v) /\ op = "max" -> [s EXCEPT !.val = IF v > @ THEN v ELSE @]
    [] ~IsNull(v) /\ op = "min" -> [s EXCEPT !.val = IF @ = Absent \/ v < @ THEN v ELSE @]

Consume(op, field, s, v) ==
  CASE op = "count"         -> CountConsume(field, s, v)
    [] op = "avg"           -> AvgConsume(s, v)
    [] op = "first"         -> FirstConsume(s, v)
    [] op = "last"          -> LastConsume(s, v)
    [] op = "countdistinct" -> CountDistinctConsume(s, v)
    [] OTHER                -> ConsumeVal(op, s, v)

(***************************************************************************)
(* ConsumePart: v is the partial result of another instance.               *)
(***************************************************************************)
CountConsumePart(s, v) == [s EXCEPT !.count = @ + v]
\* Avg replaces its state.
AvgConsumePart(s, v) == [s EXCEPT !.sum = v[1], !.count = v[2]]
\* First passes over an instance that saw nothing, Last does not.
FirstConsumePart(s, v) == IF s.val # Absent \/ v = Absent THEN s ELSE [s EXCEPT !.val = v]
LastConsumePart(s, v) == [s EXCEPT !.val = v]

ConsumePart(op, s, v) ==
  CASE op = "count" -> CountConsumePart(s, v)
    [] op = "avg"   -> AvgConsumePart(s, v)
    [] op = "first" -> FirstConsumePart(s, v)
    [] op = "last"  -> LastConsumePart(s, v)
    [] OTHER        -> ConsumeVal(op, s, v)

\* Result and ResultPart, which agree for every decomposable reducer but Avg,
\* whose Result is the quotient of its ResultPart.
Result(op, s) ==
  CASE op = "count"         -> s.count
    [] op = "avg"           -> <<s.sum, s.count>>
    [] op = "countdistinct" -> Cardinality(s.seen)
    [] OTHER                -> s.val
=============================================================================
