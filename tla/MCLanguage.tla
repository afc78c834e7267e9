----------------------------- MODULE MCLanguage -----------------------------
(* The query language on small trees over a vocabulary of a few words. *)
EXTENDS Query

MCWords == {"a", "b", "x", "n", "ip", "in", "and", "or", "not", "sort", "head", "tail", "filter", "uniq", "put", "rename",
            "fuse", "count", "sum", "by", "every", "cut", "top", "first", "s", "m", "h", "d", "w"}
MCDigits == {"1", "2"}
MCHex == MCDigits \cup {"a", "b", "d"}

MCField(w) == <<"Field", <<w>>>>
MCInt(w) == <<"Literal", "int64", <<w>>>>
MCString(w) == <<"Literal", "string", <<w>>>>

MCGlobs == {<<<<"a", "*", "*", "/", "b">>, <<"^", "a", ".", "*", "\\", "/", "b", "$">>>>}

MCSearchLeaves == {
  <<"Search", <<"Literal", "regexp", <<"^", "a", ".", "*", "\\", "/", "b", "$">>>>>>,
  <<"CompareField", <<"=">>, MCField("a"), MCInt("1")>>,
  <<"CompareField", <<"=", "~">>, MCField("a"), <<"Literal", "regexp", <<"b">>>>>>,
  <<"CompareField", <<"in">>, MCField("b"), MCInt("1")>>,
  <<"CompareAny", <<"!", "=">>, TRUE, MCString("a")>>,
  <<"BinaryExpression", <<"<", "=">>, <<"FunctionCall", <<"n">>, <<MCField("a")>>>>, MCInt("2")>>}

MCExprLeaves == {MCField("a")}

MCBinaryOps == {<<<<"or">>, 1>>, <<<<"and">>, 2>>, <<<<"=", "~">>, 3>>, <<<<"<", "=">>, 4>>, <<<<"-">>, 5>>,
                <<<<"*">>, 6>>}

MCAssign(w, e) == <<"ExpressionAssignment", <<w>>, e>>
MCProcSamples == {
  <<"SortProc", <<MCField("a"), MCField("b")>>, TRUE, TRUE>>,
  <<"TopProc", <<"1">>, TRUE, <<MCField("a")>>>>,
  <<"CutProc", TRUE, <<<<"FieldAssignment", <<"x">>, MCField("b")>>>>>>,
  <<"UniqProc", FALSE>>,
  <<"FilterProc", <<"LogicalNot", <<"CompareField", <<"=">>, MCField("a"), MCInt("1")>>>>>>,
  <<"FuseProc">>,
  <<"GroupByProc", <<"Duration", <<"1">>, 3600>>, <<"2">>, <<MCAssign("x", MCField("a"))>>,
    <<<<"Reducer", <<"count">>, <<"n">>, Null>>, <<"Reducer", <<"sum">>, <<"x">>, MCField("b")>>>>>>}
=============================================================================
