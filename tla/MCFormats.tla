------------------------------ MODULE MCFormats ------------------------------
EXTENDS Zst

Name(c) == <<c>>
A == 97
B == 98

\* Types of the records, made in a context of their own: kind, names, and parts
\* by identifier
MCTypeList == <<
  <<"alias", <<Name(112)>>, <<IdInt64>>>>,
  <<"array", <<>>, <<IdString>>>>,
  <<"record", <<Name(A), Name(B)>>, <<IdString, 23>>>>,
  <<"union", <<>>, <<24, IdInt64, 25>>>>,
  <<"map", <<>>, <<IdString, 23>>>>,
  <<"enum", <<Name(A), Name(B)>>, <<IdInt64>>>>,
  <<"record", <<TsName, Name(B)>>, <<IdTime, IdString>>>>,
  <<"record", <<TsName, Name(A), <<B, A>>>>, <<IdTime, 25, 24>>>>,
  <<"record", <<TsName, Name(A), Name(B), Name(112)>>, <<IdTime, 26, 28, 23>>>>>>
MCContext ==
  FoldLeft(LAMBDA ctx, d : Intern(ctx, d[1], d[2], [i \in DOMAIN d[3] |-> LookupType(ctx, d[3][i])])[1],
           NewContext(3), MCTypeList)
Str(s) == PrimitiveValue(s)
Rec(id, elems) == [type |-> LookupType(MCContext, id), value |-> Container(elems)]
T(n) == PrimitiveValue(<<n>>)
MCRecords ==
  {Rec(29, <<T(1), Str(<<A, B>>)>>),
   Rec(29, <<T(3), Str(<<65, B, A, A>>)>>),
   Rec(30, <<T(2), Unset, Container(<<Str(<<A>>), Str(<<B, A, B>>)>>)>>),
   Rec(30, <<T(3), Container(<<Str(<<B>>), PrimitiveValue(<<4>>)>>), Container(<<>>)>>),
   Rec(31, <<T(2), Container(<<PrimitiveValue(<<>>), Container(<<Unset>>)>>), PrimitiveValue(<<1>>), PrimitiveValue(<<6>>)>>),
   Rec(31, <<T(1), Container(<<PrimitiveValue(<<2>>), Container(<<Str(<<A, B>>), Unset>>)>>), Unset, PrimitiveValue(<<8>>)>>)}

MCOptions == {[streamMax |-> 0, blockSize |-> 0], [streamMax |-> 2, blockSize |-> 14], [streamMax |-> 0, blockSize |-> 30]}

Lit(type, bytes) == [type |-> type, bytes |-> bytes, text |-> bytes]
Expr(kind, op, lit) == [kind |-> kind, op |-> op, lit |-> lit, recursive |-> FALSE, path |-> <<>>, left |-> 0, right |-> 0]
Search(lit) == Expr("search", "", lit)
Field(path, op, lit) == [Expr("field", op, lit) EXCEPT !.path = path]
Join(kind, left, right) == [kind |-> kind, left |-> left, right |-> right]
LitAB == Lit("string", <<A, B>>)
MCFilters ==
  {Search(LitAB),                                                      \* ab
   Join("and", Search(Lit("string", <<B, 65>>)), Expr("all", "", LitAB)),  \* bA and *
   Join("or", Search(Lit("string", <<B, A, B>>)),
        Join("or", Field(<<Name(A), Name(B)>>, "=", Lit("int64", <<4>>)),
             [Expr("any", "in", Lit("string", <<B, A, B>>)) EXCEPT !.recursive = TRUE])),
   Join("and", Field(<<TsName>>, "!=", Lit("null", <<>>)), Join("not", Search(LitAB), 0))}

MCThresholds == {[skew |-> 1, segment |-> 100], [skew |-> 12, segment |-> 3]}
MCCuts == {<<Name(B)>>, <<Name(A), Name(B)>>}
=============================================================================
