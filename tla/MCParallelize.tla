--------------------------- MODULE MCParallelize ----------------------------
EXTENDS Parallelize

Key(target, source) == [target |-> target, source |-> source, trunc |-> 0]
Red(target, op, field) == [target |-> target, op |-> op, field |-> field]
Field(target, source) == [target |-> target, source |-> source]

All == [op |-> "filter", field |-> "ts", min |-> 0]
Later == [op |-> "filter", field |-> "ts", min |-> 3]
Cut(fields) == [op |-> "cut", complement |-> FALSE, fields |-> fields]
CutC(fields) == [op |-> "cut", complement |-> TRUE, fields |-> fields]
Put(target, source) == [op |-> "put", target |-> target, source |-> source]
Rename(target, source) == [op |-> "rename", target |-> target, source |-> source]
Head1 == [op |-> "head", count |-> 1]
Tail2 == [op |-> "tail", count |-> 2]
Uniq == [op |-> "uniq"]
Fuse == [op |-> "fuse"]
Sort(dir, fields) == [op |-> "sort", dir |-> dir, nullsFirst |-> FALSE, fields |-> fields]
Top1 == [op |-> "top", count |-> 1, fields |-> <<"x">>]
By(keys, reds, every) ==
  [op |-> "groupby", keys |-> keys, reds |-> reds, every |-> every, dir |-> 0, limit |-> 9,
   emitPart |-> FALSE, consumePart |-> FALSE]

Counts == <<Red("n", "count", ""), Red("s", "sum", "x"), Red("m", "max", "x")>>
ByY == By(<<Key("y", "y")>>, Counts, 0)
Every2 == By(<<Key("y", "y")>>, Counts, 2)
Distinct == By(<<Key("y", "y")>>, <<Red("d", "countdistinct", "x")>>, 0)

Stateless ==
  {Later, Cut(<<Field("ts", "ts"), Field("x", "x")>>), Cut(<<Field("x", "x"), Field("y", "y")>>),
   Cut(<<Field("y", "y")>>), Cut(<<Field("ts", "x"), Field("y", "y")>>),
   CutC(<<Field("ts", "ts")>>), CutC(<<Field("x", "x")>>),
   Put("y", "ts"), Put("ts", "x"), Rename("z", "y")}
Stateful == {Head1, Tail2, Uniq, Fuse, Sort(1, <<"x">>), Sort(1, <<"y", "x">>), Top1}

\* One or two procs, or an aggregation and what may follow it.
Chains ==
  {<<a>> : a \in Stateless \cup Stateful}
  \cup {<<a, b>> : a \in Stateless, b \in Stateful \cup {ByY, Distinct}}
  \cup {<<a, b>> : a \in Stateful, b \in Stateless \cup Stateful}
  \cup {<<>>, <<ByY>>, <<ByY, Sort(1, <<"s">>)>>, <<ByY, Put("z", "n")>>, <<Distinct>>}

\* The parser starts every program with a filter.
Starts == {<<All>>, <<All, Later>>}

\* The programs on which the two answers are known to differ are not among
\* them: an average (MCAverage), a reverse sort of missing values, a group-by
\* with every over a reversed archive, a renamed key or sort field, and first,
\* last and the order-dependent reducers over a merge without an order.
MCQueries ==
  {[prog |-> start \o chain, order |-> o] :
     start \in Starts, chain \in Chains, o \in {"none", "forward", "reverse"}}
  \cup {[prog |-> start \o <<Every2>>, order |-> o] :
          start \in Starts, o \in {"none", "forward"}}

\* An average, of sources without an order.
MCAverage ==
  {[prog |-> <<All, By(<<Key("y", "y")>>, <<Red("a", "avg", "x")>>, 0)>>, order |-> "none"]}

R(ts, x, y) == [ts |-> ts, x |-> x, y |-> y]
MCRecords == <<<<R(2, 7, 1)>>, <<R(3, Null, 2), R(4, 5, 1)>>, <<R(5, 6, 1)>>>>
=============================================================================
