---------------------------- MODULE Parallelize -----------------------------
(***************************************************************************)
(* How a query over many sources is compiled and answered                  *)
(* (driver/compile.go, proc/compiler, proc/orderedmerge, proc/merge): the  *)
(* flowgraph is cut in two, the first part runs in every branch on the     *)
(* sources that branch happens to take, the branches are merged, and the   *)
(* rest runs on the merged stream.  The answer should be that of the same  *)
(* query in one sequence.                                                  *)
(*                                                                         *)
(* The scheduling of the branches is that of ParallelGroup: a branch that  *)
(* is ready takes the next source.  Streams are whole sequences, so of a   *)
(* merge without an order the model has every interleaving.                *)
(***************************************************************************)
EXTENDS GroupBy

CONSTANTS
  Queries,     \* the programs, sequences of procs, each with the order its
               \* sources report: "none", "forward" or "reverse"
  Records,     \* the records of each source, in time order
  N            \* the number of branches

ASSUME N \in Nat \ {0}

Branches == 1..N

\* What one proc makes of a stream.
RunProc(q, s) ==
  CASE q.op = "pass"    -> s
    [] q.op = "filter"  -> FilterProc(q, s)
    [] q.op = "cut"     -> CutProc(q, s)
    [] q.op = "put"     -> PutProc(q, s)
    [] q.op = "rename"  -> RenameProc(q, s)
    [] q.op = "head"    -> HeadProc(q, s)
    [] q.op = "tail"    -> TailProc(q, s)
    [] q.op = "uniq"    -> UniqProc(s)
    [] q.op = "fuse"    -> FuseProc(s)
    [] q.op = "sort"    -> SortProc(q, s)
    [] q.op = "top"     -> TopProc(q, s)
    [] q.op = "groupby" -> GroupByProc(q, s)

RunProcs(procs, s) == FoldLeft(LAMBDA t, q : RunProc(q, t), s, procs)

-----------------------------------------------------------------------------
(***************************************************************************)
(* The passes over the program.                                            *)
(***************************************************************************)
\* ReplaceGroupByProcDurationWithKey.
WithDurationKey(q) ==
  IF q.op # "groupby" THEN q
  ELSE IF q.every = 0 THEN q
  ELSE [q EXCEPT !.keys = <<[target |-> "ts", source |-> "ts", trunc |-> q.every]>> \o @]

SortedOnKey(q, field) ==
  /\ q.op = "groupby" /\ q.keys # <<>>
  /\ q.keys[1].target = field /\ q.keys[1].source = field

\* The result of setGroupByProcInputSortDir for one proc: its output is still
\* in the order of its input.
StaysSorted(q, field) ==
  CASE q.op = "cut" -> (\E k \in DOMAIN q.fields : q.fields[k].source = field) # q.complement
    [] q.op = "groupby" -> SortedOnKey(q, field)
    [] q.op = "put" -> q.target # field
    [] OTHER -> q.op \in {"filter", "head", "pass", "uniq", "tail", "fuse"}

\* setGroupByProcInputSortDir: the group-bys that see the order of the input.
WithSortDir(procs, field, dir) ==
  [i \in DOMAIN procs |->
     IF SortedOnKey(procs[i], field) /\ \A j \in 1..(i - 1) : StaysSorted(procs[j], field)
       THEN [procs[i] EXCEPT !.dir = dir]
       ELSE procs[i]]

\* liftFilter: a filter at the head is run by the scanners; a query that is
\* nothing else becomes a pass.
StartsWithFilter(procs) == procs # <<>> /\ procs[1].op = "filter"
Lifted(procs) ==
  IF ~StartsWithFilter(procs) THEN procs
  ELSE IF Len(procs) = 1 THEN <<[op |-> "pass"]>> ELSE Tail(procs)
SourceFilter(procs, s) == IF StartsWithFilter(procs) THEN FilterProc(procs[1], s) ELSE s

(***************************************************************************)
(* parallelizeFlowgraph.  A plan has the procs of a branch, those after    *)
(* the merge, the field the merge goes by ("" for any order) and whether   *)
(* it is split at all.                                                     *)
(***************************************************************************)
Plan(parallel, branch, tail, field, reverse) ==
  [parallel |-> parallel, branch |-> branch, tail |-> tail, field |-> field,
   reverse |-> reverse, err |-> "none"]
Unsplit(seq) == Plan(FALSE, seq, <<>>, "", FALSE)

\* Compile: a sequential proc without procs is an error.
Split(branch, tail, field, reverse) ==
  [Plan(TRUE, branch, tail, field, reverse) EXCEPT
     !.err = IF branch = <<>> THEN "sequential proc without procs" ELSE "none"]

\* A cut, put or rename leaves the sort field as it is.
KeepsField(q, field) ==
  CASE q.op = "cut" /\ q.complement ->
         \A k \in DOMAIN q.fields : q.fields[k].source # field
    [] q.op = "cut" /\ ~q.complement ->
         /\ \A k \in DOMAIN q.fields : q.fields[k].source # field => q.fields[k].target # field
         /\ \E k \in DOMAIN q.fields : q.fields[k].source = field /\ q.fields[k].target = field
    [] OTHER -> q.target # field

OrderSensitiveTail(seq) == \A i \in DOMAIN seq : seq[i].op \notin {"sort", "groupby"}

\* The procs that a branch may run without a decision.
Continues(seq, q, field) ==
  \/ q.op \in {"filter", "pass"}
  \/ /\ q.op \in {"cut", "put", "rename"}
     /\ field = "" \/ ~OrderSensitiveTail(seq) \/ KeepsField(q, field)

DecomposableReds(q) == \A i \in DOMAIN q.reds : Decomposable(q.reds[i].op)

\* A decomposable group-by: each branch emits partial results, a second one
\* composes them.
Composed(seq, i) ==
  Split(Append(SubSeq(seq, 1, i - 1), [seq[i] EXCEPT !.emitPart = TRUE]),
        <<[seq[i] EXCEPT !.consumePart = TRUE]>> \o SubSeq(seq, i + 1, Len(seq)),
        IF seq[i].every # 0 THEN "ts" ELSE "", FALSE)

\* One head or tail on each branch and one after the merge.  The mistake: only
\* on the branches.
HeadOnBranches(seq, i, field, reverse) ==
  Split(SubSeq(seq, 1, i), SubSeq(seq, i + 1, Len(seq)), field, reverse)
HeadOnBoth(seq, i, field, reverse) ==
  Split(SubSeq(seq, 1, i), SubSeq(seq, i, Len(seq)), field, reverse)

Parallelized(seq, field, reverse) ==
  LET stops  == {i \in DOMAIN seq : ~Continues(seq, seq[i], field)}
      i      == Min(stops)
      q      == seq[i]
      before == Split(SubSeq(seq, 1, i - 1), SubSeq(seq, i, Len(seq)), field, reverse)
  IN  CASE stops = {} ->
             IF field = "" THEN Unsplit(seq) ELSE Split(seq, <<>>, field, reverse)
        [] stops # {} /\ q.op \in {"cut", "put", "rename"} -> before
        [] stops # {} /\ q.op = "groupby" ->
             IF DecomposableReds(q) THEN Composed(seq, i) ELSE before
        [] stops # {} /\ q.op = "sort" ->
             IF Len(q.fields) = 1
               THEN Split(SubSeq(seq, 1, i), SubSeq(seq, i + 1, Len(seq)), q.fields[1], q.dir < 0)
               ELSE [before EXCEPT !.field = "", !.reverse = q.dir < 0]
        [] stops # {} /\ q.op \in {"head", "tail"} ->
             IF field = "" THEN Unsplit(seq) ELSE HeadOnBoth(seq, i, field, reverse)
        [] stops # {} /\ q.op \in {"uniq", "fuse"} ->
             IF field = "" THEN Unsplit(seq) ELSE before
        [] stops # {} /\ q.op = "top" ->
             [Unsplit(seq) EXCEPT !.err = "panic: proc type not handled"]

\* OrderInfo of the archive: its records are ordered by ts, or it is read
\* through other paths and has no order.
OrderField(order) == IF order = "none" THEN "" ELSE "ts"
OrderDir(order) == IF order = "reverse" THEN -1 ELSE 1

Prepared(prog, order) ==
  LET keyed == [i \in DOMAIN prog |-> WithDurationKey(prog[i])]
  IN  IF order = "none" THEN keyed ELSE WithSortDir(keyed, "ts", OrderDir(order))

\* compile.
Compiled(prog, order) ==
  Parallelized(Lifted(Prepared(prog, order)), OrderField(order), order = "reverse")

-----------------------------------------------------------------------------
VARIABLES
  prog, order, \* the query and the order of its sources
  plan,        \* what it was compiled to
  next,        \* the next source
  fed,         \* fed[b]: the records branch b has taken
  outs,        \* outs[b]: what the branch has still to hand to the merge
  merged,      \* the merged stream
  result,      \* the answer
  pc           \* compile, feed, merge, done or failed

vars == <<prog, order, plan, next, fed, outs, merged, result, pc>>

\* The sources in the order they are sent, and the records of each.
Source(k) ==
  IF order = "reverse" THEN Reverse(Records[Len(Records) + 1 - k]) ELSE Records[k]

Init ==
  /\ \E q \in Queries : prog = q.prog /\ order = q.order
  /\ plan = Unsplit(<<>>)
  /\ next = 1
  /\ fed = [b \in Branches |-> <<>>]
  /\ outs = [b \in Branches |-> <<>>]
  /\ merged = <<>> /\ result = <<>>
  /\ pc = "compile"

Compile ==
  /\ pc = "compile"
  /\ plan' = Compiled(prog, order)
  /\ pc' = IF plan'.err = "none" THEN "feed" ELSE "failed"
  /\ UNCHANGED <<prog, order, next, fed, outs, merged, result>>

\* A branch takes the next source.
FollowingSource(n) == n + 1
NextSource(b) ==
  /\ pc = "feed" /\ next <= Len(Records)
  /\ b = 1 \/ plan.parallel
  /\ fed' = [fed EXCEPT ![b] = @ \o SourceFilter(Prepared(prog, order), Source(next))]
  /\ next' = FollowingSource(next)
  /\ UNCHANGED <<prog, order, plan, outs, merged, result, pc>>

\* The sources are exhausted and every branch comes to its end.
RunBranches ==
  /\ pc = "feed" /\ next > Len(Records)
  /\ outs' = [b \in Branches |->
                IF b = 1 \/ plan.parallel THEN RunProcs(plan.branch, fed[b]) ELSE <<>>]
  /\ pc' = "merge"
  /\ UNCHANGED <<prog, order, plan, next, fed, merged, result>>

Pending == {b \in Branches : outs[b] # <<>>}

\* orderedmerge.Read: the smallest record, of equal ones that of the first
\* branch.  The mistake: the first branch with a record.
FirstPending(field, reverse) == Min(Pending)
Smallest(field, reverse) ==
  Min({b \in Pending : \A c \in Pending :
         Directed(IF reverse THEN -1 ELSE 1, TRUE, <<field>>, outs[b][1], outs[c][1]) <= 0})

TakeFrom(b) ==
  /\ pc = "merge"
  /\ merged' = Append(merged, outs[b][1])
  /\ outs' = [outs EXCEPT ![b] = Tail(@)]
  /\ UNCHANGED <<prog, order, plan, next, fed, result, pc>>

MergeOrdered ==
  /\ plan.field # "" /\ Pending # {}
  /\ TakeFrom(Smallest(plan.field, plan.reverse))

MergeAny(b) ==
  /\ plan.field = "" /\ b \in Pending
  /\ TakeFrom(b)

\* The rest of the flowgraph, which ends with the merge.
RunTail ==
  /\ pc = "merge" /\ Pending = {}
  /\ result' = RunProcs(plan.tail, merged)
  /\ pc' = "done"
  /\ UNCHANGED <<prog, order, plan, next, fed, outs, merged>>

Quit == pc \in {"done", "failed"} /\ UNCHANGED vars

Next ==
  \/ Compile
  \/ \E b \in Branches : NextSource(b)
  \/ RunBranches
  \/ MergeOrdered
  \/ \E b \in Branches : MergeAny(b)
  \/ RunTail
  \/ Quit

Spec == Init /\ [][Next]_vars

-----------------------------------------------------------------------------
AllRecords == FlattenSeq([k \in DOMAIN Records |-> Source(k)])

\* The answer of the query in one sequence (Parallelism 1).
Sequential == RunProcs(Prepared(prog, order), AllRecords)

\* The order of the answer is that of the sources, or that of a sort at the
\* end; groups, and records that a sort holds equal, come in any order.
Reorders == \E i \in DOMAIN prog : prog[i].op \in {"sort", "groupby"}
InSortOrder(s) ==
  Last(prog).op = "sort" =>
    \A i, j \in DOMAIN s : i < j => SortCompare(Last(prog), s[i], s[j]) <= 0

Times(s, r) == Cardinality({i \in DOMAIN s : s[i] = r})
SameRecords(s, t) == Len(s) = Len(t) /\ \A i \in DOMAIN s : Times(s, s[i]) = Times(t, s[i])

\* The branches take every source once, and no more than there is.
TypeOK ==
  /\ [prog |-> prog, order |-> order] \in Queries
  /\ next \in 1..(Len(Records) + 1)
  /\ \A b \in Branches : Len(fed[b]) <= Len(AllRecords)
  /\ pc \in {"compile", "feed", "merge", "done", "failed"}

\* However the sources fall to the branches, and however their results come
\* together, the split query answers what it answers in one sequence:
\* parallelizeFlowgraph chose the place to split, the procs that are repeated
\* after the merge and the order of the merge so that it does.
SameAnswer ==
  pc = "done" =>
    IF Reorders THEN SameRecords(result, Sequential) /\ InSortOrder(result)
                ELSE result = Sequential

\* What the branches hand to orderedmerge is in the order it merges by, so that
\* the merged stream has the order the rest of the query relies on.  Only a
\* group-by without InputSortDir relies on none.
MergedInOrder ==
  plan.field # "" /\ (plan.tail = <<>> \/ plan.tail[1].op # "groupby" \/ plan.tail[1].dir # 0) =>
    \A i, j \in DOMAIN merged : i < j =>
      Directed(IF plan.reverse THEN -1 ELSE 1, TRUE, <<plan.field>>, merged[i], merged[j]) <= 0

\* Every source goes to one branch, once, and comes out in its place.
MergeExact == TypeOK /\ MergedInOrder
=============================================================================
