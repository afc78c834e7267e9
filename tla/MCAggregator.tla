---------------------------- MODULE MCAggregator ----------------------------
EXTENDS Aggregator

Key(target, source, trunc) == [target |-> target, source |-> source, trunc |-> trunc]
Red(target, op, field) == [target |-> target, op |-> op, field |-> field]
By(keys, reds, dir, limit) ==
  [op |-> "groupby", keys |-> keys, reds |-> reds, every |-> 0, dir |-> dir, limit |-> limit,
   emitPart |-> FALSE, consumePart |-> FALSE]

KJ == <<Key("k", "k", 0), Key("j", "j", 0)>>
Spillable == <<Red("n", "count", ""), Red("c", "count", "x"), Red("s", "sum", "x"),
               Red("m", "max", "x"), Red("i", "min", "x"), Red("f", "first", "x")>>

\* avg and last compose partial results wrongly (reducer/avg.go:69, and
\* Last.ConsumePart takes an empty one), so they stay in memory here.
InMemory == <<Red("a", "avg", "x"), Red("l", "last", "x"), Red("d", "countdistinct", "x")>>

MCGroupBys ==
  {By(KJ, Spillable, dir, limit) : dir \in {-1, 0, 1}, limit \in {1, 3}}
  \cup {By(<<Key("k", "k", 2), Key("j", "j", 0)>>, Spillable, dir, 1) : dir \in {-1, 1}}
  \cup {By(<<Key("t", "k", 0)>>, InMemory, 0, 2)}

MCInputs ==
  {[k |-> k, j |-> 1, x |-> x] : k \in {Null, 2, 3}, x \in {Null, 1}}
  \cup {[k |-> 4, j |-> 1, x |-> 1], [k |-> 2, j |-> Null, x |-> 2], [k |-> 3, j |-> 1], [k |-> 2, x |-> 1]}
=============================================================================
