------------------------------- MODULE Query -------------------------------
(***************************************************************************)
(* What a query text means: syntax trees are grown one node at a time,     *)
(* written out, with parentheses only where they are needed, and parsed by *)
(* the model of the parser (module Zql).  Searches are written by the rule *)
(* the documentation states, from left to right, expressions by the levels *)
(* of precedence that the names of the grammar's rules state.              *)
(***************************************************************************)
EXTENDS Zql, Ast

CONSTANTS
  SearchLeaves,  \* searches of one term
  ExprLeaves,    \* expressions of one operand
  ProcSamples,   \* procs that a chain is made of
  Globs,         \* words with wildcards and the regular expressions they stand for: pairs of texts
  BinaryOps,     \* operators of expressions: pairs of text and level of precedence
  MaxNodes       \* bound on the nodes of a tree

VARIABLES
  kind,     \* what grows: a search, an expression or a chain of procs
  tree,     \* the syntax tree
  nodes,    \* its size
  text      \* the tree written out

queryVars == <<kind, tree, nodes, text>>

Join(ss, sep) ==
  LET f[n \in 0..Len(ss)] == IF n = 0 THEN <<>> ELSE IF n = 1 THEN ss[1] ELSE f[n - 1] \o sep \o ss[n] IN f[Len(ss)]
Parens(s) == <<"(">> \o s \o <<")">>
Map(Op(_), s) == [k \in DOMAIN s |-> Op(s[k])]

(***************************************************************************)
(* Expressions.  Levels of precedence: 0 conditional, 1 or, 2 and,         *)
(* 3 equality, 4 relation, 5 sum, 6 product, 7 not, 8 cast, 9 the rest.    *)
(***************************************************************************)
Level(e) ==
  IF e[1] = "ConditionalExpr" THEN 0
  ELSE IF e[1] = "BinaryExpr" /\ e[2] \in {<<".">>, <<"[">>} THEN 9
  ELSE IF e[1] = "BinaryExpr" THEN (CHOOSE o \in BinaryOps : o[1] = e[2])[2]
  ELSE IF e[1] = "UnaryExpr" THEN 7
  ELSE IF e[1] = "CastExpr" THEN 8
  ELSE 9
PrintLiteral(l) ==
  CASE l[2] = "string" -> <<"'">> \o l[3] \o <<"'">>
    [] l[2] = "regexp" -> <<"/">> \o l[3] \o <<"/">>
    [] OTHER -> l[3]
RECURSIVE PrintExpr(_, _)
PrintExpr(e, level) ==
  LET bare ==
        CASE e[1] = "ConditionalExpr" ->
               PrintExpr(e[2], 1) \o <<" ", "?", " ">> \o PrintExpr(e[3], 0) \o <<" ", ":", " ">> \o PrintExpr(e[4], 0)
          [] e[1] = "BinaryExpr" /\ e[2] = <<".">> -> PrintExpr(e[3], 9) \o <<".">> \o PrintExpr(e[4], 9)
          [] e[1] = "BinaryExpr" /\ e[2] = <<"[">> -> PrintExpr(e[3], 9) \o <<"[">> \o PrintExpr(e[4], 0) \o <<"]">>
          [] e[1] = "BinaryExpr" /\ e[2] \notin {<<".">>, <<"[">>} ->
               PrintExpr(e[3], Level(e)) \o <<" ">> \o e[2] \o <<" ">> \o PrintExpr(e[4], Level(e) + 1)
          [] e[1] = "UnaryExpr" -> <<"!">> \o PrintExpr(e[2], 7)
          [] e[1] = "CastExpr" -> PrintExpr(e[2], 9) \o <<":">> \o e[3]
          [] e[1] = "FunctionCall" -> e[2] \o Parens(Join(Map(LAMBDA x : PrintExpr(x, 0), e[3]), <<",">>))
          [] e[1] = "Field" -> e[2]
          [] e[1] = "Literal" -> PrintLiteral(e)
  IN IF Level(e) < level THEN Parens(bare) ELSE bare

(***************************************************************************)
(* Searches, by the documented rule: evaluated from left to right, but for *)
(* parentheses, and a not inverts all that comes after it                  *)
(* (search-syntax/README.md:522, 562).  The right operand of an and or an  *)
(* or has parentheses when it is made of others, the left one when it is a *)
(* not; "all" puts them around every operand that is made of others.       *)
(***************************************************************************)
Compound(e) == e[1] \in {"LogicalAnd", "LogicalOr", "LogicalNot"}
RECURSIVE PrintSearch(_, _)
PrintSearch(e, all) ==
  LET Operand(x, parens) == IF parens THEN Parens(PrintSearch(x, all)) ELSE PrintSearch(x, all)
      Left == Operand(e[2], Compound(e[2]) /\ (all \/ e[2][1] = "LogicalNot"))
      Right == Operand(e[3], Compound(e[3]))
  IN CASE e[1] = "LogicalOr" -> Left \o <<" ", "or", " ">> \o Right
       [] e[1] = "LogicalAnd" -> Left \o <<" ">> \o Right
       [] e[1] = "LogicalNot" -> <<"not", " ">> \o Operand(e[2], all /\ Compound(e[2]))
       [] e[1] = "MatchAll" -> <<"*">>
       [] e[1] = "Search" /\ e[2][2] = "string" -> e[2][3]
       [] e[1] = "Search" /\ e[2][2] = "regexp" -> (CHOOSE g \in Globs : g[2] = e[2][3])[1]
       [] e[1] = "Search" -> PrintLiteral(e[2])
       [] e[1] = "CompareField" /\ e[2] = <<"in">> -> PrintLiteral(e[4]) \o <<" ", "in", " ">> \o PrintExpr(e[3], 9)
       [] e[1] = "CompareField" -> PrintExpr(e[3], 9) \o e[2] \o PrintLiteral(e[4])
       [] e[1] = "CompareAny" /\ e[2] = <<"in">> -> PrintLiteral(e[4]) \o <<" ", "in", " ", "*">>
       [] e[1] = "CompareAny" -> (IF e[3] THEN <<"*", "*">> ELSE <<"*">>) \o e[2] \o PrintLiteral(e[4])
       [] e[1] = "BinaryExpression" -> PrintExpr(e[3], 9) \o e[2] \o PrintLiteral(e[4])

\* What the documentation and the grammar read differently: an or without
\* parentheses and an and after it, as in "a or b c".  From left to right that
\* is both of a or b, and c; to the grammar an and binds tighter than an or
\* (searchExpr and searchTerm).
RECURSIVE OrBeforeAnd(_)
OrBeforeAnd(e) ==
  \/ e[1] = "LogicalAnd" /\ e[2][1] = "LogicalOr"
  \/ Compound(e) /\ \E k \in 2..Len(e) : OrBeforeAnd(e[k])

(***************************************************************************)
(* Procs.                                                                  *)
(***************************************************************************)
Opt1(s, prefix) == IF Len(s) = 0 THEN <<>> ELSE prefix \o s
PrintField(e) == PrintExpr(e, 9)
PrintFields(fs) == Opt1(Join(Map(PrintField, fs), <<",">>), <<" ">>)
PrintAssign(a) == (IF Len(a[2]) = 0 THEN <<>> ELSE a[2] \o <<"=">>) \o PrintExpr(a[3], 0)
PrintAssigns(as) == <<" ">> \o Join(Map(PrintAssign, as), <<",">>)
UnitText(n) == CASE n = 1 -> <<"s">> [] n = 60 -> <<"m">> [] n = 3600 -> <<"h">> [] n = 86400 -> <<"d">> [] n = 604800 -> <<"w">>
PrintReducer(r) == r[3] \o <<"=">> \o r[2] \o Parens(IF Len(r[4]) = 0 THEN <<>> ELSE PrintField(r[4]))
RECURSIVE PrintProc(_)
PrintProc(p) ==
  CASE p[1] = "FilterProc" -> <<"filter", " ">> \o PrintSearch(p[2], FALSE)
    [] p[1] = "SortProc" -> <<"sort">> \o (IF p[3] THEN <<" ", "-r">> ELSE <<>>)
                              \o (IF p[4] THEN <<" ", "-nulls", " ", "first">> ELSE <<>>) \o PrintFields(p[2])
    [] p[1] = "TopProc" -> <<"top">> \o Opt1(p[2], <<" ">>) \o (IF p[3] THEN <<" ", "-flush">> ELSE <<>>) \o PrintFields(p[4])
    [] p[1] = "CutProc" -> <<"cut">> \o (IF p[2] THEN <<" ", "-c">> ELSE <<>>) \o PrintAssigns(p[3])
    [] p[1] = "HeadProc" -> <<"head", " ">> \o p[2]
    [] p[1] = "TailProc" -> <<"tail", " ">> \o p[2]
    [] p[1] = "UniqProc" -> IF p[2] THEN <<"uniq", " ", "-c">> ELSE <<"uniq">>
    [] p[1] = "PutProc" -> <<"put">> \o PrintAssigns(p[2])
    [] p[1] = "RenameProc" -> <<"rename">> \o PrintAssigns(p[2])
    [] p[1] = "FuseProc" -> <<"fuse">>
    [] p[1] = "GroupByProc" ->
         (IF Len(p[2]) = 0 THEN <<>> ELSE <<"every", " ">> \o p[2][2] \o UnitText(p[2][3]) \o <<" ">>)
           \o Join(Map(PrintReducer, p[5]), <<",">>)
           \o (IF Len(p[4]) = 0 THEN <<>> ELSE <<" ", "by">> \o PrintAssigns(p[4]))
           \o Opt1(p[3], <<" ", "-limit", " ">>)
    [] p[1] = "SequentialProc" -> Join(Map(PrintProc, p[2]), <<" ", "|", " ">>)
    [] p[1] = "ParallelProc" -> Parens(Join(Map(PrintProc, p[2]), <<" ", ";", " ">>))
PrintQuery(p) ==
  IF p[1] = "FilterProc" THEN PrintSearch(p[2], FALSE)
  ELSE PrintSearch(p[2][1][2], FALSE) \o <<" ", "|", " ">> \o PrintProc(<<"SequentialProc", Tail(p[2])>>)

(***************************************************************************)
(* The trees.                                                              *)
(***************************************************************************)
Everything == <<"FilterProc", <<"MatchAll">>>>
PutOf(e) == <<"SequentialProc", <<Everything, <<"PutProc", <<<<"ExpressionAssignment", <<"x">>, e>>>>>>>>>>
QueryTree(k, t) ==
  CASE k = "search" -> <<"FilterProc", t>>
    [] k = "expr" -> PutOf(t)
    [] k = "procs" -> <<"SequentialProc", <<Everything>> \o t>>

QueryInit ==
  /\ nodes = 1
  /\ \/ kind = "search" /\ tree \in SearchLeaves
     \/ kind = "expr" /\ tree \in ExprLeaves
     \/ kind = "procs" /\ \E p \in ProcSamples : tree = <<p>>
  /\ text = PrintQuery(QueryTree(kind, tree))

Grow(k) ==
  /\ kind = k /\ nodes < MaxNodes
  /\ nodes' = nodes + 1 /\ kind' = kind
  /\ text' = PrintQuery(QueryTree(kind, tree'))

GrowSearch ==
  /\ \/ tree' = <<"LogicalNot", tree>>
     \/ \E op \in {"LogicalAnd", "LogicalOr"}, l \in SearchLeaves : tree' = <<op, tree, l>> \/ tree' = <<op, l, tree>>
  /\ Grow("search")

GrowExpr ==
  /\ \/ tree' = <<"UnaryExpr", tree>>
     \/ tree' = <<"CastExpr", tree, <<"ip">>>>
     \/ tree' = <<"FunctionCall", <<"b">>, <<tree>>>>
     \/ \E l \in ExprLeaves :
          \/ \E o \in BinaryOps : tree' = <<"BinaryExpr", o[1], tree, l>> \/ tree' = <<"BinaryExpr", o[1], l, tree>>
          \/ tree' = <<"ConditionalExpr", tree, l, l>>
          \/ tree' = <<"ConditionalExpr", l, tree, l>>
          \/ tree' = <<"BinaryExpr", <<"[">>, l, tree>>
  /\ Grow("expr")

GrowProcs ==
  /\ \/ \E p \in ProcSamples : tree' = Append(tree, p)
     \/ \E p \in ProcSamples : tree' = <<<<"ParallelProc", <<<<"SequentialProc", tree>>, <<"SequentialProc", <<p>>>>>>>>>>
     \/ tree' = <<<<"ParallelProc", <<<<"SequentialProc", tree>>>>>>>>
  /\ Grow("procs")

QueryNext == GrowSearch \/ GrowExpr \/ GrowProcs
QuerySpec == QueryInit /\ [][QueryNext]_queryVars

(* The parser gives a written query back: searches are read from left to
   right and a not reaches to the end, as the documentation says, the
   operators of expressions bind as the levels of the grammar say, chains are
   left associative, and no earlier alternative of a choice takes a text that
   belongs to a later one (zql.go's rules, read by the ordered choice of
   parseChoiceExpr).  The exception is OrBeforeAnd, where documentation and
   grammar differ; with parentheses around every operand that search is read
   as it was meant, too. *)
Reads(t) == LET r == Parse(t) IN r.ok /\ r.ast = QueryTree(kind, tree)
ReadsBack ==
  /\ Reads(text) \/ (kind = "search" /\ OrBeforeAnd(tree))
  /\ kind = "search" => Reads(PrintSearch(tree, TRUE))

(* Every tree that the parser builds - ReadsBack shows it to be the tree that
   was written, or another one of the searches grown here - is one that ast.UnpackMap takes: no callback writes an
   op, or puts a node where one is expected, that the unpacker has no case
   for. *)
Unpackable == \A root \in {QueryTree(kind, tree)} : unpackProc(root)
=============================================================================
