-------------------------------- MODULE Zql --------------------------------
(***************************************************************************)
(* The zql parser (src/zql/zql.go, generated from zql.peg): the grammar as *)
(* data, one definition per rule, the callbacks that build the syntax      *)
(* tree, and the interpreter of parsing expressions that runs them.        *)
(*                                                                         *)
(* A text is a sequence of terminals: the characters of operators, and     *)
(* pieces of words.  No terminal of a text is a prefix of another one, so  *)
(* a keyword matches inside a longer word exactly when the code's          *)
(* characters do: "index" is <<"in", "a">>.  Letter case, the spelling of  *)
(* escapes and the text of error messages are left out.                    *)
(***************************************************************************)
EXTENDS Naturals, Sequences, FiniteSets

CONSTANTS
  Words,     \* terminals made of letters, the keywords in use among them
  Digits,    \* terminals that are decimal digits
  Hex        \* terminals that are hexadecimal digits (Digits among them)

Null == <<>>

(***************************************************************************)
(* Parsing expressions (the types ruleRefExpr ... litMatcher).             *)
(***************************************************************************)
Ref(n) == <<"ref", n>>
Lit(s) == <<"lit", s>>
Cls(S) == <<"cls", S>>
AnyOne == <<"any">>
Cat(s) == <<"seq", s>>
Alt(s) == <<"choice", s>>
Star(e) == <<"star", e>>
Plus(e) == <<"plus", e>>
Opt(e) == <<"opt", e>>
Not(e) == <<"not", e>>
Act(f, e) == <<"act", e, f>>
Ch(c) == Lit(<<c>>)
Sp == Ref("oneOrMoreWs")
Spo == Opt(Ref("oneOrMoreWs"))
Sps == Ref("anyWs")
\* first rest:(sep x)* , the rest reduced to its x by the callback "third"
ListOf(e, sep, f) == Act(f, Cat(<<e, Star(Act("fourth", Cat(<<sep, Ch(","), sep, e>>)))>>))

(***************************************************************************)
(* Queries and searches.                                                   *)
(***************************************************************************)
start == Act("second", Cat(<<Spo, Ref("query"), Spo, Ref("EOF")>>))
query == Alt(<<Act("query2", Ref("procChain")),
               Act("query5", Cat(<<Ref("search"), Spo, Star(Ref("chainedProc"))>>)),
               Act("query14", Ref("search"))>>)
procChain == Act("prepend", Cat(<<Ref("proc"), Star(Ref("chainedProc"))>>))
chainedProc == Act("fourth", Cat(<<Spo, Ch("|"), Spo, Ref("proc")>>))
search == Act("search", Ref("searchExpr"))
searchExpr == Act("orChain", Cat(<<Ref("searchTerm"), Star(Ref("oredSearchTerm"))>>))
oredSearchTerm == Act("fourth", Cat(<<Sp, Ref("orToken"), Sp, Ref("searchTerm")>>))
searchTerm == Act("andChain", Cat(<<Ref("searchFactor"), Star(Ref("andedSearchTerm"))>>))
andedSearchTerm == Act("third", Cat(<<Sp, Opt(Cat(<<Ref("andToken"), Sp>>)), Ref("searchFactor")>>))
searchFactor == Alt(<<
  Act("not", Cat(<<Alt(<<Cat(<<Ref("notToken"), Sp>>), Cat(<<Ch("!"), Spo>>)>>), Ref("searchExpr")>>)),
  Act("second", Cat(<<Not(Ch("-")), Ref("searchPred")>>)),
  Act("third", Cat(<<Ch("("), Spo, Ref("searchExpr"), Spo, Ch(")")>>))>>)
searchPred == Alt(<<
  Act("anyCmp", Cat(<<Ch("*"), Spo, Ref("equalityToken"), Spo, Ref("searchValue")>>)),
  Act("anyCmpRecursive", Cat(<<Lit(<<"*", "*">>), Spo, Ref("equalityToken"), Spo, Ref("searchValue")>>)),
  Act("fieldCmp", Cat(<<Ref("fieldExpr"), Spo, Ref("equalityToken"), Spo, Ref("searchValue")>>)),
  Act("funcCmp", Cat(<<Ref("FunctionExpr"), Spo, Ref("equalityToken"), Spo, Ref("searchValue")>>)),
  Act("inAny", Cat(<<Ref("searchValue"), Spo, Ref("inToken"), Spo, Ch("*")>>)),
  Act("inField", Cat(<<Ref("searchValue"), Spo, Ref("inToken"), Spo, Ref("fieldExpr")>>)),
  Act("searchLiteral", Ref("searchLiteral")),
  Act("searchWord", Cat(<<Not(Cat(<<Ref("searchKeywords"), Sp>>)), Ref("searchWord")>>))>>)
searchLiteral == Alt(<<
  Ref("StringLiteral"), Ref("RegexpLiteral"), Ref("SubnetLiteral"), Ref("AddressLiteral"), Ref("FloatLiteral"),
  Act("first", Cat(<<Ref("IntegerLiteral"), Not(Ref("searchWord"))>>)),
  Act("second", Cat(<<Not(Cat(<<Ref("searchKeywords"), Sp>>)), Ref("BooleanLiteral")>>)),
  Act("second", Cat(<<Not(Cat(<<Ref("searchKeywords"), Sp>>)), Ref("NullLiteral")>>))>>)
searchValue == Alt(<<
  Ref("searchLiteral"),
  Act("wordValue", Cat(<<Not(Cat(<<Ref("searchKeywords"), Sp>>)), Ref("searchWord")>>))>>)
StringLiteral == Act("string", Ref("quotedString"))
RegexpLiteral == Act("regexp", Ref("reString"))
SubnetLiteral == Alt(<<Act("net", Cat(<<Ref("ip6subnet"), Not(Ref("fieldNameRest"))>>)), Act("net", Cat(<<Ref("subnet")>>))>>)
AddressLiteral == Alt(<<Act("ip", Cat(<<Ref("ip6addr"), Not(Ref("fieldNameRest"))>>)), Act("ip", Cat(<<Ref("addr")>>))>>)
FloatLiteral == Act("float64", Ref("sdouble"))
IntegerLiteral == Act("int64", Ref("sinteger"))
BooleanLiteral == Alt(<<Act("bool", Ch("true")), Act("bool", Ch("false"))>>)
NullLiteral == Act("null", Ch("null"))
searchKeywords == Alt(<<Ref("andToken"), Ref("orToken"), Ref("inToken")>>)

(***************************************************************************)
(* Procs.                                                                  *)
(***************************************************************************)
procList == Act("parallel", Cat(<<Ref("procChain"), Star(Ref("parallelChain"))>>))
parallelChain == Act("sequential", Cat(<<Spo, Ch(";"), Spo, Ref("procChain")>>))
proc == Alt(<<Ref("simpleProc"), Ref("groupByProc"),
              Act("third", Cat(<<Ch("("), Spo, Ref("procList"), Spo, Ch(")")>>))>>)
groupByKeys == Act("third", Cat(<<Ch("by"), Sp, ListOf(Ref("groupByKey"), Sps, "prepend")>>))
groupByKey == Alt(<<Ref("ExpressionAssignment"), Act("fieldKey", Ref("fieldExpr"))>>)
everyDur == Act("third", Cat(<<Ch("every"), Sp, Ref("duration")>>))
equalityToken == Alt(<<Ref("EqualityOperator"), Ref("RelativeOperator")>>)
andToken == Act("text", Ch("and"))
orToken == Act("text", Ch("or"))
inToken == Act("text", Ch("in"))
notToken == Act("text", Ch("not"))
fieldName == Act("text", Cat(<<Ref("fieldNameStart"), Star(Ref("fieldNameRest"))>>))
fieldNameStart == Cls(Words)
fieldNameRest == Alt(<<Ref("fieldNameStart"), Cls(Digits)>>)
Field == Act("Field", Ref("fieldName"))
fieldExpr == Act("binary", Cat(<<Ref("Field"), Star(Ref("Deref"))>>))
DotExpr == Act("binary", Cat(<<Ref("Field"), Star(Ref("DotField"))>>))
DotExprText == Act("text", Ref("DotExpr"))
FunctionExpr == Act("call", Cat(<<Ref("FunctionName"), Sps, Ch("("), Ref("ArgumentList"), Ch(")")>>))
fieldExprList == ListOf(Ref("fieldExpr"), Spo, "prepend")
countOp == Act("text", Ch("count"))
fieldReducerOp == Alt([k \in 1..11 |-> Act("text", <<
  Ch("sum"), Ch("avg"), Ch("stdev"), Ch("sd"), Ch("var"), Ch("entropy"), Ch("min"), Ch("max"), Ch("first"),
  Ch("last"), Lit(<<"count", "distinct">>)>>[k])])
paddedFieldExpr == Act("second", Cat(<<Spo, Ref("fieldExpr"), Spo>>))
countReducer == Act("countReducer", Cat(<<Ref("countOp"), Spo, Ch("("), Opt(Ref("paddedFieldExpr")), Spo, Ch(")")>>))
fieldReducer == Act("fieldReducer", Cat(<<Ref("fieldReducerOp"), Spo, Ch("("), Spo, Ref("fieldExpr"), Spo, Ch(")")>>))
groupByProc == Act("groupBy", Cat(<<Opt(Cat(<<Ref("everyDur"), Sp>>)), Ref("reducerList"),
                                    Opt(Cat(<<Sp, Ref("groupByKeys")>>)), Opt(Ref("procLimitArg"))>>))
reducerExpr == Alt(<<Act("named", Cat(<<Ref("fieldName"), Spo, Ch("="), Spo, Ref("reducer")>>)), Ref("reducer")>>)
reducer == Alt(<<Ref("countReducer"), Ref("fieldReducer")>>)
reducerList == ListOf(Ref("reducerExpr"), Spo, "prepend")
simpleProc == Alt(<<Ref("sort"), Ref("top"), Ref("cut"), Ref("head"), Ref("tail"), Ref("filter"), Ref("uniq"),
                    Ref("put"), Ref("rename"), Ref("fuse")>>)
sort == Act("sort", Cat(<<Ch("sort"), Ref("sortArgs"), Opt(Act("second", Cat(<<Sp, Ref("fieldExprList")>>)))>>))
sortArgs == Act("argMap", Star(Act("second", Cat(<<Sp, Ref("sortArg")>>))))
sortArg == Alt(<<Act("argR", Ch("-r")),
                 Act("argNulls", Cat(<<Ch("-nulls"), Sp, Act("text", Alt(<<Ch("first"), Ch("last")>>))>>))>>)
top == Act("top", Cat(<<Ch("top"), Opt(Act("second", Cat(<<Sp, Ref("unsignedInteger")>>))),
                        Opt(Cat(<<Sp, Ch("-flush")>>)), Opt(Act("second", Cat(<<Sp, Ref("fieldExprList")>>)))>>))
procLimitArg == Act("fourth", Cat(<<Sp, Ch("-limit"), Sp, Ref("unsignedInteger")>>))
cutArgs == Act("argMap", Star(Act("argC", Cat(<<Sp, Ch("-c")>>))))
cutAssignment == Alt(<<Ref("FieldAssignment"), Act("cutField", Ref("DotExpr"))>>)
cut == Act("cut", Cat(<<Ch("cut"), Ref("cutArgs"), Sp, ListOf(Ref("cutAssignment"), Sps, "prepend")>>))
head == Alt(<<Act("headN", Cat(<<Ch("head"), Sp, Ref("unsignedInteger")>>)), Act("head1", Ch("head"))>>)
tail == Alt(<<Act("tailN", Cat(<<Ch("tail"), Sp, Ref("unsignedInteger")>>)), Act("tail1", Ch("tail"))>>)
filter == Act("filter", Cat(<<Ch("filter"), Sp, Ref("searchExpr")>>))
uniq == Alt(<<Act("uniqC", Cat(<<Ch("uniq"), Sp, Ch("-c")>>)), Act("uniq", Ch("uniq"))>>)
put == Act("put", Cat(<<Ch("put"), Sp, ListOf(Ref("ExpressionAssignment"), Sps, "prepend")>>))
rename == Act("rename", Cat(<<Ch("rename"), Sp, ListOf(Ref("FieldAssignment"), Sps, "prepend")>>))
fuse == Act("fuse", Ch("fuse"))
ExpressionAssignment == Act("assign", Cat(<<Ref("fieldName"), Sps, Ch("="), Sps, Ref("Expression")>>))
FieldAssignment == Act("assignField", Cat(<<Ref("DotExprText"), Sps, Ch("="), Sps, Ref("DotExpr")>>))

(***************************************************************************)
(* Expressions: one rule per level of precedence.                          *)
(***************************************************************************)
OpChain(e, op) == Act("binary", Cat(<<Ref(e), Star(Act("opExpr", Cat(<<Sps, Ref(op), Sps, Ref(e)>>)))>>))
PrimaryExpression == Alt(<<Ref("StringLiteral"), Ref("RegexpLiteral"), Ref("SubnetLiteral"), Ref("AddressLiteral"),
  Ref("FloatLiteral"), Ref("IntegerLiteral"), Ref("BooleanLiteral"), Ref("NullLiteral"), Ref("Field"),
  Act("third", Cat(<<Ch("("), Sps, Ref("Expression"), Sps, Ch(")")>>))>>)
Expression == Ref("ConditionalExpression")
ConditionalExpression == Alt(<<
  Act("conditional", Cat(<<Ref("LogicalORExpression"), Sps, Ch("?"), Sps, Ref("Expression"), Sps, Ch(":"), Sps, Ref("Expression")>>)),
  Ref("LogicalORExpression")>>)
LogicalORExpression == OpChain("LogicalANDExpression", "orToken")
LogicalANDExpression == OpChain("EqualityCompareExpression", "andToken")
EqualityCompareExpression == OpChain("RelativeExpression", "EqualityComparator")
EqualityOperator == Act("text", Alt(<<Lit(<<"=", "~">>), Lit(<<"!", "~">>), Ch("="), Lit(<<"!", "=">>)>>))
EqualityComparator == Alt(<<Ref("EqualityOperator"), Act("text", Ch("in"))>>)
RelativeExpression == OpChain("AdditiveExpression", "RelativeOperator")
RelativeOperator == Act("text", Alt(<<Lit(<<"<", "=">>), Ch("<"), Lit(<<">", "=">>), Ch(">")>>))
AdditiveExpression == OpChain("MultiplicativeExpression", "AdditiveOperator")
AdditiveOperator == Act("text", Alt(<<Ch("+"), Ch("-")>>))
MultiplicativeExpression == OpChain("NotExpression", "MultiplicativeOperator")
MultiplicativeOperator == Act("text", Alt(<<Ch("*"), Ch("/")>>))
NotExpression == Alt(<<Act("unary", Cat(<<Ch("!"), Sps, Ref("NotExpression")>>)), Ref("CastExpression")>>)
CastExpression == Alt(<<Act("cast", Cat(<<Ref("CallExpression"), Ch(":"), Ref("PrimitiveType")>>)), Ref("CallExpression")>>)
PrimitiveType == Act("text", Cls({"bytes", "uint8", "uint16", "uint32", "uint64", "int8", "int16", "int32", "int64",
  "duration", "time", "float64", "bool", "string", "bstring", "ip", "net", "type", "error", "null"}))
CallExpression == Alt(<<Act("call", Cat(<<Ref("FunctionName"), Sps, Ch("("), Ref("ArgumentList"), Ch(")")>>)),
                        Ref("DereferenceExpression")>>)
FunctionName == Act("text", Cat(<<Ref("FunctionNameStart"), Star(Ref("FunctionNameRest"))>>))
FunctionNameStart == Cls(Words)
FunctionNameRest == Alt(<<Ref("FunctionNameStart"), Cls(Digits \cup {"."})>>)
ArgumentList == Alt(<<ListOf(Ref("Expression"), Sps, "prepend"), Act("noArgs", Sps)>>)
DereferenceExpression == Act("binary", Cat(<<Ref("PrimaryExpression"), Star(Ref("Deref"))>>))
Deref == Alt(<<Act("index", Cat(<<Sps, Ch("["), Sps, Ref("Expression"), Sps, Ch("]")>>)),
               Act("second", Cat(<<Sps, Ref("DotField")>>))>>)
DotField == Act("dot", Cat(<<Ch("."), Sps, Ref("Field")>>))

(***************************************************************************)
(* Durations, numbers, addresses, words and strings.                       *)
(***************************************************************************)
duration == Alt(<<Ref("seconds"), Ref("minutes"), Ref("hours"),
  Cat(<<Ref("hours"), Sp, Ch("and"), Sp, Ref("minutes")>>), Ref("days"), Ref("weeks")>>)
sec_abbrev == Alt(<<Lit(<<"s", "ec", "ond", "s">>), Lit(<<"s", "ec", "ond">>), Lit(<<"s", "ec", "s">>), Lit(<<"s", "ec">>), Ch("s")>>)
min_abbrev == Alt(<<Lit(<<"m", "in", "ute", "s">>), Lit(<<"m", "in", "ute">>), Lit(<<"m", "in", "s">>), Lit(<<"m", "in">>), Ch("m")>>)
hour_abbrev == Alt(<<Lit(<<"h", "our", "s">>), Lit(<<"h", "r", "s">>), Lit(<<"h", "r">>), Ch("h"), Lit(<<"h", "our">>)>>)
day_abbrev == Alt(<<Lit(<<"d", "ay", "s">>), Lit(<<"d", "ay">>), Ch("d")>>)
week_abbrev == Alt(<<Lit(<<"w", "eek", "s">>), Lit(<<"w", "eek">>), Lit(<<"w", "k", "s">>), Lit(<<"w", "k">>), Ch("w")>>)
Unit(word, abbrev, one, many) == Alt(<<Act(one, Lit(word)), Act(many, Cat(<<Ref("number"), Spo, Ref(abbrev)>>))>>)
seconds == Unit(<<"s", "ec", "ond">>, "sec_abbrev", "dur1s", "durS")
minutes == Unit(<<"m", "in", "ute">>, "min_abbrev", "dur1m", "durM")
hours == Unit(<<"h", "our">>, "hour_abbrev", "dur1h", "durH")
days == Unit(<<"d", "ay">>, "day_abbrev", "dur1d", "durD")
weeks == Unit(<<"w", "eek">>, "week_abbrev", "dur1w", "durW")
number == Ref("unsignedInteger")
addr == Act("text", Cat(<<Ref("unsignedInteger"), Ch("."), Ref("unsignedInteger"), Ch("."), Ref("unsignedInteger"), Ch("."),
  Ref("unsignedInteger")>>))
ip6addr == Act("text", Alt(<<
  Cat(<<Plus(Ref("h_prepend")), Ref("ip6tail")>>),
  Cat(<<Ref("h16"), Star(Ref("h_append")), Lit(<<":", ":">>), Star(Ref("h_prepend")), Ref("ip6tail")>>),
  Cat(<<Lit(<<":", ":">>), Star(Ref("h_prepend")), Ref("ip6tail")>>),
  Cat(<<Ref("h16"), Star(Ref("h_append")), Lit(<<":", ":">>)>>),
  Lit(<<":", ":">>)>>))
ip6tail == Alt(<<Ref("addr"), Ref("h16")>>)
h_append == Act("text", Cat(<<Ch(":"), Ref("h16")>>))
h_prepend == Act("text", Cat(<<Ref("h16"), Ch(":")>>))
subnet == Act("text", Cat(<<Ref("addr"), Ch("/"), Ref("unsignedInteger")>>))
ip6subnet == Act("panic", Cat(<<Ref("ip6addr"), Ch("/"), Ref("unsignedInteger")>>))
unsignedInteger == Act("text", Ref("suint"))
suint == Act("text", Plus(Cls(Digits)))
sinteger == Act("text", Cat(<<Opt(Cls({"+", "-"})), Ref("suint")>>))
sdouble == Alt(<<
  Act("text", Cat(<<Opt(Ch("-")), Plus(Ref("doubleInteger")), Ch("."), Plus(Ref("doubleDigit")), Opt(Ref("exponentPart"))>>)),
  Act("text", Cat(<<Opt(Ch("-")), Ch("."), Plus(Ref("doubleDigit")), Opt(Ref("exponentPart"))>>))>>)
doubleInteger == Alt(<<Ch("0"), Cat(<<Cls(Digits \ {"0"}), Star(Cls(Digits))>>)>>)
doubleDigit == Cls(Digits)
exponentPart == Cat(<<Ch("e"), Ref("sinteger")>>)
h16 == Act("text", Plus(Ref("hexdigit")))
hexdigit == Cls(Hex)
searchWord == Act("joinChars", Plus(Ref("searchWordPart")))
searchWordPart == Alt(<<
  Act("second", Cat(<<Ch("\\"), Alt(<<Ref("escapeSequence"), Ref("searchEscape")>>)>>)),
  Act("text", Cat(<<Not(Alt(<<Cls({"\\", "(", ")", ",", "!", ">", "<", "=", "\"", "|", "'", ";", ":"}), Ref("ws")>>)), AnyOne>>))>>)
quotedString == Alt(<<Act("second", Cat(<<Ch("\""), Act("joinChars", Star(Ref("doubleQuotedChar"))), Ch("\"")>>)),
                      Act("second", Cat(<<Ch("'"), Act("joinChars", Star(Ref("singleQuotedChar"))), Ch("'")>>))>>)
doubleQuotedChar == Alt(<<Act("text", Cat(<<Not(Alt(<<Ch("\""), Ref("escapedChar")>>)), AnyOne>>)),
                          Act("second", Cat(<<Ch("\\"), Ref("escapeSequence")>>))>>)
singleQuotedChar == Alt(<<Act("text", Cat(<<Not(Alt(<<Ch("'"), Ref("escapedChar")>>)), AnyOne>>)),
                          Act("second", Cat(<<Ch("\\"), Ref("escapeSequence")>>))>>)
escapeSequence == Alt(<<Act("backslash", Cat(<<Ch("x"), Ref("hexdigit"), Ref("hexdigit")>>)), Ref("singleCharEscape"), Ref("unicodeEscape")>>)
singleCharEscape == Cls({"'", "\"", "\\", "b", "f", "n", "r", "t", "v"})
searchEscape == Alt(<<Act("text", Ch("=")), Act("backslash", Ch("*"))>>)
unicodeEscape == Alt(<<
  Act("text", Cat(<<Ch("u"), Ref("hexdigit"), Ref("hexdigit"), Ref("hexdigit"), Ref("hexdigit")>>)),
  Act("text", Cat(<<Ch("u"), Ch("{"), Cat(<<Ref("hexdigit"), Opt(Ref("hexdigit")), Opt(Ref("hexdigit")), Opt(Ref("hexdigit")),
                                           Opt(Ref("hexdigit")), Opt(Ref("hexdigit"))>>), Ch("}")>>))>>)
reString == Act("second", Cat(<<Ch("/"), Ref("reBody"), Ch("/")>>))
reBody == Act("text", Plus(Alt(<<Cat(<<Not(Cls({"/", "\\"})), AnyOne>>), Lit(<<"\\", "/">>)>>)))
escapedChar == Ch("\\")
ws == Ch(" ")
oneOrMoreWs == Plus(Ref("ws"))
anyWs == Star(Ref("ws"))
EOF == Not(AnyOne)

\* buildRulesTable
rules == [
  start |-> start, query |-> query, procChain |-> procChain, chainedProc |-> chainedProc, search |-> search,
  searchExpr |-> searchExpr, oredSearchTerm |-> oredSearchTerm, searchTerm |-> searchTerm,
  andedSearchTerm |-> andedSearchTerm, searchFactor |-> searchFactor, searchPred |-> searchPred,
  searchLiteral |-> searchLiteral, searchValue |-> searchValue, StringLiteral |-> StringLiteral,
  RegexpLiteral |-> RegexpLiteral, SubnetLiteral |-> SubnetLiteral, AddressLiteral |-> AddressLiteral,
  FloatLiteral |-> FloatLiteral, IntegerLiteral |-> IntegerLiteral, BooleanLiteral |-> BooleanLiteral,
  NullLiteral |-> NullLiteral, searchKeywords |-> searchKeywords, procList |-> procList,
  parallelChain |-> parallelChain, proc |-> proc, groupByKeys |-> groupByKeys, groupByKey |-> groupByKey,
  everyDur |-> everyDur, equalityToken |-> equalityToken, andToken |-> andToken, orToken |-> orToken,
  inToken |-> inToken, notToken |-> notToken, fieldName |-> fieldName, fieldNameStart |-> fieldNameStart,
  fieldNameRest |-> fieldNameRest, Field |-> Field, fieldExpr |-> fieldExpr, DotExpr |-> DotExpr,
  DotExprText |-> DotExprText, FunctionExpr |-> FunctionExpr, fieldExprList |-> fieldExprList, countOp |-> countOp,
  fieldReducerOp |-> fieldReducerOp, paddedFieldExpr |-> paddedFieldExpr, countReducer |-> countReducer,
  fieldReducer |-> fieldReducer, groupByProc |-> groupByProc, reducerExpr |-> reducerExpr, reducer |-> reducer,
  reducerList |-> reducerList, simpleProc |-> simpleProc, sort |-> sort, sortArgs |-> sortArgs, sortArg |-> sortArg,
  top |-> top, procLimitArg |-> procLimitArg, cutArgs |-> cutArgs, cutAssignment |-> cutAssignment, cut |-> cut,
  head |-> head, tail |-> tail, filter |-> filter, uniq |-> uniq, put |-> put, rename |-> rename, fuse |-> fuse,
  ExpressionAssignment |-> ExpressionAssignment, FieldAssignment |-> FieldAssignment,
  PrimaryExpression |-> PrimaryExpression, Expression |-> Expression,
  ConditionalExpression |-> ConditionalExpression, LogicalORExpression |-> LogicalORExpression,
  LogicalANDExpression |-> LogicalANDExpression, EqualityCompareExpression |-> EqualityCompareExpression,
  EqualityOperator |-> EqualityOperator, EqualityComparator |-> EqualityComparator,
  RelativeExpression |-> RelativeExpression, RelativeOperator |-> RelativeOperator,
  AdditiveExpression |-> AdditiveExpression, AdditiveOperator |-> AdditiveOperator,
  MultiplicativeExpression |-> MultiplicativeExpression, MultiplicativeOperator |-> MultiplicativeOperator,
  NotExpression |-> NotExpression, CastExpression |-> CastExpression, PrimitiveType |-> PrimitiveType,
  CallExpression |-> CallExpression, FunctionName |-> FunctionName, FunctionNameStart |-> FunctionNameStart,
  FunctionNameRest |-> FunctionNameRest, ArgumentList |-> ArgumentList,
  DereferenceExpression |-> DereferenceExpression, Deref |-> Deref, DotField |-> DotField, duration |-> duration,
  sec_abbrev |-> sec_abbrev, min_abbrev |-> min_abbrev, hour_abbrev |-> hour_abbrev, day_abbrev |-> day_abbrev,
  week_abbrev |-> week_abbrev, seconds |-> seconds, minutes |-> minutes, hours |-> hours, days |-> days,
  weeks |-> weeks, number |-> number, addr |-> addr, ip6addr |-> ip6addr, ip6tail |-> ip6tail, h_append |-> h_append,
  h_prepend |-> h_prepend, subnet |-> subnet, ip6subnet |-> ip6subnet, unsignedInteger |-> unsignedInteger,
  suint |-> suint, sinteger |-> sinteger, sdouble |-> sdouble, doubleInteger |-> doubleInteger,
  doubleDigit |-> doubleDigit, exponentPart |-> exponentPart, h16 |-> h16, hexdigit |-> hexdigit, searchWord |-> searchWord,
  searchWordPart |-> searchWordPart, quotedString |-> quotedString, doubleQuotedChar |-> doubleQuotedChar,
  singleQuotedChar |-> singleQuotedChar, escapeSequence |-> escapeSequence,
  singleCharEscape |-> singleCharEscape, searchEscape |-> searchEscape, unicodeEscape |-> unicodeEscape, escapedChar |-> escapedChar,
  reString |-> reString, reBody |-> reBody, ws |-> ws, oneOrMoreWs |-> oneOrMoreWs, anyWs |-> anyWs, EOF |-> EOF]

(***************************************************************************)
(* The callbacks.  v is what the expression matched: the values of a       *)
(* sequence in order, Null for an option that is absent.  txt is the text. *)
(***************************************************************************)
\* makeChain and makeBinaryExprChain: left associative
RightChain(op, xs) ==
  LET f[n \in 1..Len(xs)] == IF n = Len(xs) THEN xs[n] ELSE <<op, xs[n], f[n + 1]>> IN f[1]
makeChain(op, xs) == LET f[n \in 1..Len(xs)] == IF n = 1 THEN xs[1] ELSE <<op, f[n - 1], xs[n]>> IN f[Len(xs)]
makeBinaryExprChain(x, rest) ==
  LET f[n \in 0..Len(rest)] == IF n = 0 THEN x ELSE <<"BinaryExpr", rest[n][1], f[n - 1], rest[n][2]>> IN f[Len(rest)]
Prepend(v) == <<v[1]>> \o v[2]
joinChars(vs) == LET f[n \in 0..Len(vs)] == IF n = 0 THEN <<>> ELSE f[n - 1] \o vs[n] IN f[Len(vs)]
\* makeArgMap keeps one entry per name and refuses a second one
ArgNames(args) == {args[k][1] : k \in DOMAIN args}
makeArgMapFails(args) == Cardinality(ArgNames(args)) # Len(args)

onquery(f, v) ==
  CASE f = "query2" -> <<"SequentialProc", <<<<"FilterProc", <<"MatchAll">>>>>> \o v>>
    [] f = "query5" -> IF Len(v[3]) = 0 THEN v[1] ELSE <<"SequentialProc", <<v[1]>> \o v[3]>>
    [] f = "query14" -> <<"SequentialProc", <<v>>>>
    [] f = "search" -> <<"FilterProc", v>>
    [] f = "orChain" -> makeChain("LogicalOr", Prepend(v))
    [] f = "andChain" -> makeChain("LogicalAnd", Prepend(v))
    [] f = "not" -> <<"LogicalNot", v[2]>>

\* reglob.IsGlobby
IsGlobby(word) == \E k \in DOMAIN word : word[k] \in {"*", "?"}
\* reglob.Reglob: the glob as an anchored regular expression; a run of "*" is one ".*", an escaped one stays
ReglobChar(word, n) ==
  LET c == word[n]
      before(d) == n > 1 /\ word[n - 1] = d
      after(d) == n < Len(word) /\ word[n + 1] = d
  IN IF c = "*" /\ before("\\") THEN <<"\\", "*">>
     ELSE IF c = "*" THEN IF after("*") THEN <<>> ELSE <<".", "*">>
     ELSE IF c = "\\" /\ after("*") THEN <<>>
     ELSE IF c \in {"/", "$", "^", "+", ".", "(", ")", "=", "!", "|", ","} THEN <<"\\", c>>
     ELSE IF c \in {"?", "[", "]", "{", "}"} THEN <<>>
     ELSE <<c>>
Reglob(word) ==
  LET f[n \in 0..Len(word)] == IF n = 0 THEN <<>> ELSE f[n - 1] \o ReglobChar(word, n) IN <<"^">> \o f[Len(word)] \o <<"$">>
onsearchPred(f, v) ==
  CASE f = "anyCmp" -> <<"CompareAny", v[3], FALSE, v[5]>>
    [] f = "anyCmpRecursive" -> <<"CompareAny", v[3], TRUE, v[5]>>
    [] f = "fieldCmp" -> <<"CompareField", v[3], v[1], v[5]>>
    [] f = "funcCmp" -> <<"BinaryExpression", v[3], v[1], v[5]>>
    [] f = "inAny" -> <<"CompareAny", <<"in">>, FALSE, v[1]>>
    [] f = "inField" -> <<"CompareField", <<"in">>, v[5], v[1]>>
    [] f = "searchLiteral" -> <<"Search", v>>
    [] f = "searchWord" -> IF v[2] = <<"*">> THEN <<"MatchAll">>
                           ELSE IF IsGlobby(v[2]) THEN <<"Search", <<"Literal", "regexp", Reglob(v[2])>>>>
                           ELSE <<"Search", <<"Literal", "string", v[2]>>>>
    [] f = "wordValue" -> <<"Literal", "string", v[2]>>

onLiteral(f, v, txt) ==
  CASE f \in {"net", "ip"} -> <<"Literal", f, v[1]>>
    [] f \in {"bool", "null"} -> <<"Literal", f, txt>>
    [] OTHER -> <<"Literal", f, v>>

onproc(f, v) ==
  CASE f = "parallel" -> <<"ParallelProc", <<<<"SequentialProc", v[1]>>>> \o v[2]>>
    [] f = "sequential" -> <<"SequentialProc", v[4]>>
    [] f = "filter" -> <<"FilterProc", v[3]>>
    [] f = "headN" -> <<"HeadProc", v[3]>>
    [] f = "head1" -> <<"HeadProc", <<"1">>>>
    [] f = "tailN" -> <<"TailProc", v[3]>>
    [] f = "tail1" -> <<"TailProc", <<"1">>>>
    [] f = "uniqC" -> <<"UniqProc", TRUE>>
    [] f = "uniq" -> <<"UniqProc", FALSE>>
    [] f = "put" -> <<"PutProc", v[3]>>
    [] f = "rename" -> <<"RenameProc", v[3]>>
    [] f = "fuse" -> <<"FuseProc">>
    [] f = "cut" -> <<"CutProc", "c" \in ArgNames(v[2]), v[4]>>
    [] f = "cutField" -> <<"FieldAssignment", Null, v>>
    [] f = "argC" -> <<"c", Null>>

onsort(f, v) ==
  CASE f = "sort" -> <<"SortProc", v[3], "r" \in ArgNames(v[2]), <<"nulls", <<"first">>>> \in {v[2][k] : k \in DOMAIN v[2]}>>
    [] f = "argR" -> <<"r", Null>>
    [] f = "argNulls" -> <<"nulls", v[3]>>
    [] f = "argMap" -> v
    [] f = "top" -> <<"TopProc", v[2], Len(v[3]) # 0, v[4]>>

ongroupBy(f, v, txt) ==
  CASE f = "countReducer" -> <<"Reducer", v[1], <<"count">>, v[4]>>
    [] f = "fieldReducer" -> <<"Reducer", v[1], v[1], v[5]>>
    [] f = "named" -> <<"Reducer", v[5][2], v[1], v[5][4]>>
    [] f = "fieldKey" -> <<"ExpressionAssignment", txt, v>>
    [] f = "groupBy" ->
         IF Len(v[1]) = 0 /\ Len(v[3]) = 0 THEN <<"GroupByProc", Null, Null, <<>>, v[2]>>
         ELSE <<"GroupByProc", IF Len(v[1]) = 0 THEN Null ELSE v[1][1], v[4], IF Len(v[3]) = 0 THEN <<>> ELSE v[3][2], v[2]>>

onAssignment(f, v) ==
  CASE f = "assign" -> <<"ExpressionAssignment", v[1], v[5]>>
    [] f = "assignField" -> <<"FieldAssignment", v[1], v[5]>>
onOperator(f, v) ==
  CASE f = "conditional" -> <<"ConditionalExpr", v[1], v[5], v[9]>>
    [] f = "binary" -> makeBinaryExprChain(v[1], v[2])
    [] f = "opExpr" -> <<v[2], v[4]>>
onPostfix(f, v) ==
  CASE f = "unary" -> <<"UnaryExpr", v[3]>>
    [] f = "cast" -> <<"CastExpr", v[1], v[3]>>
    [] f = "call" -> <<"FunctionCall", v[1], v[4]>>
    [] f = "noArgs" -> <<>>
    [] f = "index" -> <<<<"[">>, v[4]>>
    [] f = "dot" -> <<<<".">>, v[3]>>
    [] f = "Field" -> <<"Field", v>>

\* seconds per unit; a duration is the number with its unit
UnitSeconds(u) == CASE u = "S" -> 1 [] u = "M" -> 60 [] u = "H" -> 3600 [] u = "D" -> 86400 [] u = "W" -> 604800
ondurations(f, v) ==
  LET one == [dur1s |-> "S", dur1m |-> "M", dur1h |-> "H", dur1d |-> "D", dur1w |-> "W"]
      num == [durS |-> "S", durM |-> "M", durH |-> "H", durD |-> "D", durW |-> "W"]
  IN IF f \in DOMAIN one THEN <<"Duration", <<"1">>, UnitSeconds(one[f])>> ELSE <<"Duration", v[1], UnitSeconds(num[f])>>

run(f, v, txt) ==
  CASE f = "text" -> txt
    [] f = "joinChars" -> joinChars(v)
    [] f = "backslash" -> <<"\\">> \o txt
    [] f = "first" -> v[1]
    [] f = "second" -> v[2]
    [] f = "third" -> v[3]
    [] f = "fourth" -> v[4]
    [] f = "prepend" -> Prepend(v)
    [] f \in {"query2", "query5", "query14", "search", "orChain", "andChain", "not"} -> onquery(f, v)
    [] f \in {"anyCmp", "anyCmpRecursive", "fieldCmp", "funcCmp", "inAny", "inField", "searchLiteral", "searchWord",
              "wordValue"} -> onsearchPred(f, v)
    [] f \in {"string", "regexp", "net", "ip", "float64", "int64", "bool", "null"} -> onLiteral(f, v, txt)
    [] f \in {"sort", "argR", "argNulls", "argMap", "top"} -> onsort(f, v)
    [] f \in {"countReducer", "fieldReducer", "named", "fieldKey", "groupBy"} -> ongroupBy(f, v, txt)
    [] f \in {"assign", "assignField"} -> onAssignment(f, v)
    [] f \in {"conditional", "binary", "opExpr"} -> onOperator(f, v)
    [] f \in {"unary", "cast", "call", "noArgs", "index", "dot", "Field"} -> onPostfix(f, v)
    [] f \in {"dur1s", "dur1m", "dur1h", "dur1d", "dur1w", "durS", "durM", "durH", "durD", "durW"} -> ondurations(f, v)
    [] f = "panic" -> txt
    [] OTHER -> onproc(f, v)

\* a callback that returns an error, or panics, which the parser recovers as an error
runFails(f, v) == f = "panic" \/ (f = "argMap" /\ makeArgMapFails(v))

(***************************************************************************)
(* The interpreter.  A result says whether the expression matched, where   *)
(* the input stands, the value and whether a callback has reported an      *)
(* error: the errors of an alternative stay when the parser backtracks.    *)
(***************************************************************************)
Match(at, val, err) == [ok |-> TRUE, at |-> at, val |-> val, err |-> err]
NoMatch(at, err) == [ok |-> FALSE, at |-> at, val |-> Null, err |-> err]

parseLitMatcher(lit, in, i) ==
  LET end == i + Len(lit) IN
  IF end - 1 <= Len(in) /\ SubSeq(in, i, end - 1) = lit THEN Match(end, lit, FALSE) ELSE NoMatch(i, FALSE)
parseCharClassMatcher(S, in, i) ==
  IF i <= Len(in) /\ in[i] \in S THEN Match(i + 1, <<in[i]>>, FALSE) ELSE NoMatch(i, FALSE)
parseAnyMatcher(in, i) == IF i <= Len(in) THEN Match(i + 1, <<in[i]>>, FALSE) ELSE NoMatch(i, FALSE)

RECURSIVE parseExpr(_, _, _)
parseSeqExpr(s, in, i) ==
  LET RECURSIVE From(_, _, _, _)
      From(k, at, vals, err) ==
        IF k > Len(s) THEN Match(at, vals, err)
        ELSE LET r == parseExpr(s[k], in, at) IN
             IF r.ok THEN From(k + 1, r.at, Append(vals, r.val), err \/ r.err) ELSE NoMatch(i, err \/ r.err)
  IN From(1, i, <<>>, FALSE)
parseChoiceExpr(alternatives, in, i) ==
  LET RECURSIVE Try(_, _)
      Try(k, err) ==
        IF k > Len(alternatives) THEN NoMatch(i, err)
        ELSE LET r == parseExpr(alternatives[k], in, i) IN
             IF r.ok THEN [r EXCEPT !.err = @ \/ err] ELSE Try(k + 1, err \/ r.err)
  IN Try(1, FALSE)
parseZeroOrMoreExpr(e, in, i) ==
  LET RECURSIVE More(_, _, _)
      More(at, vals, err) ==
        LET r == parseExpr(e, in, at) IN
        IF r.ok THEN More(r.at, Append(vals, r.val), err \/ r.err) ELSE Match(at, vals, err \/ r.err)
  IN More(i, <<>>, FALSE)
parseOneOrMoreExpr(e, in, i) ==
  LET r == parseZeroOrMoreExpr(e, in, i) IN IF Len(r.val) = 0 THEN NoMatch(i, r.err) ELSE r
parseZeroOrOneExpr(e, in, i) ==
  LET r == parseExpr(e, in, i) IN IF r.ok THEN r ELSE Match(i, Null, r.err)
parseNotExpr(e, in, i) ==
  LET r == parseExpr(e, in, i) IN IF r.ok THEN NoMatch(i, r.err) ELSE Match(i, Null, r.err)
parseActionExpr(e, f, in, i) ==
  LET r == parseExpr(e, in, i) IN
  IF r.ok THEN Match(r.at, run(f, r.val, SubSeq(in, i, r.at - 1)), r.err \/ runFails(f, r.val)) ELSE r
parseRuleRefExpr(n, in, i) == parseExpr(rules[n], in, i)

parseExpr(e, in, i) ==
  CASE e[1] = "ref" -> parseRuleRefExpr(e[2], in, i)
    [] e[1] = "lit" -> parseLitMatcher(e[2], in, i)
    [] e[1] = "cls" -> parseCharClassMatcher(e[2], in, i)
    [] e[1] = "any" -> parseAnyMatcher(in, i)
    [] e[1] = "seq" -> parseSeqExpr(e[2], in, i)
    [] e[1] = "choice" -> parseChoiceExpr(e[2], in, i)
    [] e[1] = "star" -> parseZeroOrMoreExpr(e[2], in, i)
    [] e[1] = "plus" -> parseOneOrMoreExpr(e[2], in, i)
    [] e[1] = "opt" -> parseZeroOrOneExpr(e[2], in, i)
    [] e[1] = "not" -> parseNotExpr(e[2], in, i)
    [] e[1] = "act" -> parseActionExpr(e[2], e[3], in, i)

\* parse: the entry point's match, or an error
Parse(in) == LET r == parseExpr(rules["start"], in, 1) IN [ok |-> r.ok /\ ~r.err, ast |-> IF r.ok /\ ~r.err THEN r.val ELSE Null]
=============================================================================
