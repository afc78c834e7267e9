-------------------------------- MODULE Ast --------------------------------
(***************************************************************************)
(* ast.UnpackMap: the nodes that the unpacker of the syntax tree accepts   *)
(* (src/ast/unpack.go).  A node is a tuple of its op and its fields; an op *)
(* that the unpacker has no case for is an error.                          *)
(***************************************************************************)
EXTENDS Naturals, Sequences

RECURSIVE UnpackExpression(_)
unpackExprs(nodes) == \A k \in DOMAIN nodes : UnpackExpression(nodes[k])
unpackBinaryExpr(n) == UnpackExpression(n[3]) /\ UnpackExpression(n[4])
UnpackExpression(n) ==
  CASE n[1] = "UnaryExpr" -> UnpackExpression(n[2])
    [] n[1] = "BinaryExpr" -> unpackBinaryExpr(n)
    [] n[1] = "ConditionalExpr" -> UnpackExpression(n[2]) /\ UnpackExpression(n[3]) /\ UnpackExpression(n[4])
    [] n[1] = "FunctionCall" -> unpackExprs(n[3])
    [] n[1] = "CastExpr" -> UnpackExpression(n[2])
    [] n[1] \in {"Literal", "Field"} -> TRUE
    [] OTHER -> FALSE

RECURSIVE unpackBooleanExpr(_)
\* without the case of a function compared with a value
NoBinaryExpression(n) ==
  CASE n[1] \in {"Search", "MatchAll", "CompareAny"} -> TRUE
    [] n[1] \in {"LogicalAnd", "LogicalOr"} -> unpackBooleanExpr(n[2]) /\ unpackBooleanExpr(n[3])
    [] n[1] = "LogicalNot" -> unpackBooleanExpr(n[2])
    [] n[1] = "CompareField" -> UnpackExpression(n[3])
    [] OTHER -> FALSE
unpackBooleanExpr(n) ==
  CASE n[1] \in {"Search", "MatchAll", "CompareAny"} -> TRUE
    [] n[1] \in {"LogicalAnd", "LogicalOr"} -> unpackBooleanExpr(n[2]) /\ unpackBooleanExpr(n[3])
    [] n[1] = "LogicalNot" -> unpackBooleanExpr(n[2])
    [] n[1] = "BinaryExpression" -> unpackBinaryExpr(n)
    [] n[1] = "CompareField" -> UnpackExpression(n[3])
    [] OTHER -> FALSE

\* unpackExpressionAssignments and unpackFieldAssignments: the expression or the source of each
unpackAssignments(nodes) == \A k \in DOMAIN nodes : UnpackExpression(nodes[k][3])
\* unpackReducers: a reducer without a field is left as it is
unpackReducers(nodes) == \A k \in DOMAIN nodes : Len(nodes[k][4]) = 0 \/ UnpackExpression(nodes[k][4])

RECURSIVE unpackProc(_)
unpackProc(n) ==
  CASE n[1] \in {"SequentialProc", "ParallelProc"} -> \A k \in DOMAIN n[2] : unpackProc(n[2][k])
    [] n[1] = "SortProc" -> unpackExprs(n[2])
    [] n[1] = "TopProc" -> unpackExprs(n[4])
    [] n[1] = "CutProc" -> unpackAssignments(n[3])
    [] n[1] \in {"PutProc", "RenameProc"} -> unpackAssignments(n[2])
    [] n[1] = "FilterProc" -> unpackBooleanExpr(n[2])
    [] n[1] = "GroupByProc" -> unpackAssignments(n[4]) /\ unpackReducers(n[5])
    [] n[1] \in {"HeadProc", "TailProc", "FuseProc", "UniqProc", "PassProc"} -> TRUE
    [] OTHER -> FALSE
=============================================================================
