------------------------------- MODULE Filter -------------------------------
(***************************************************************************)
(* Filters (src/filter): the predicate over records that a search is       *)
(* compiled to, and the filter over whole buffers that is derived from it, *)
(* with which a zng scanner skips compressed blocks without decoding them. *)
(*                                                                         *)
(* An expression is a record with the fields its kind needs.  A literal    *)
(* has its type, the bytes of its value and the text it was written as.    *)
(* Regular expressions and globs are not modelled: no buffer filter is     *)
(* made for them.                                                          *)
(***************************************************************************)
EXTENDS TypeContext

IdBool == 14
IdBstring == 17
SignedIds == 4..7
UnsignedIds == 0..3
StringIds == {IdString, IdBstring}
NanosPerSecond == 1000000000

-----------------------------------------------------------------------------
(* String search, by Boyer and Moore.  Positions count from 0, as in the code. *)

At(s, i) == s[i + 1]
Slice(s, from, to) == SubSeq(s, from + 1, to)
tolower(b) == IF b \in 65..90 THEN b + 32 ELSE b
ToLower(s) == [i \in DOMAIN s |-> tolower(s[i])]

badCharSkip(pattern, b) ==
  LET last == Len(pattern) - 1
      places == {i \in 0..(last - 1) : At(pattern, i) = b}
  IN  IF places = {} THEN Len(pattern) ELSE last - Max(places)

longestCommonSuffix(a, b) ==
  Max({n \in 0..Min({Len(a), Len(b)}) : \A k \in 0..(n - 1) : At(a, Len(a) - 1 - k) = At(b, Len(b) - 1 - k)})

\* The second pass of the table overwrites the first; of its entries for one suffix the last one stays
goodSuffixSkip(pattern, i) ==
  LET last == Len(pattern) - 1
      prefixes == {k \in i..last : IsPrefix(Slice(pattern, k + 1, last + 1), pattern)}
      suffix(k) == longestCommonSuffix(pattern, Slice(pattern, 1, k + 1))
      repeats == {k \in 0..(last - 1) : /\ At(pattern, k - suffix(k)) # At(pattern, last - suffix(k))
                                        /\ last - suffix(k) = i}
  IN  IF repeats # {} THEN suffix(Max(repeats)) + last - Max(repeats)
      ELSE Min(prefixes) + 1 + last - i

\* next, from the place i of the text where the last byte of the pattern is held against it
RECURSIVE NextFrom(_, _, _)
NextFrom(pattern, text, i) ==
  LET last == Len(pattern) - 1
      matched == Max({n \in 0..Len(pattern) : \A k \in 0..(n - 1) : At(text, i - k) = At(pattern, last - k)})
      at == i - matched
      skip == Max({badCharSkip(pattern, At(text, at)), goodSuffixSkip(pattern, last - matched)})
  IN  IF i >= Len(text) THEN -1
      ELSE IF matched = Len(pattern) THEN at + 1
      ELSE NextFrom(pattern, text, at + skip)
next(pattern, text) == NextFrom(pattern, text, Len(pattern) - 1)

\* stringCaseFinder
nextCase(pattern, text) == next(ToLower(pattern), ToLower(text))

\* stringSearch
stringSearch(text, term) ==
  \E i \in 0..(Len(text) - Len(term)) : ToLower(Slice(text, i, i + Len(term))) = ToLower(term)

-----------------------------------------------------------------------------
(* Comparison of a value with a literal *)

\* The tables of comparisons, for values in the order c, which is negative, zero or positive
Ordered(op, c) == CASE op = "=" -> c = 0 [] op = "!=" -> c # 0 [] op = "<" -> c < 0 [] op = "<=" -> c <= 0
                    [] op = ">" -> c > 0 [] op = ">=" -> c >= 0 [] OTHER -> FALSE

\* compareBool differs: no boolean is less than or equal to another
OrderedBool(op, c) == IF op = "<=" THEN c = 0 ELSE Ordered(op, c)

BytesCompare(a, b) ==
  LET diffs == {i \in 1..Min({Len(a), Len(b)}) : a[i] # b[i]}
  IN  IF diffs = {} THEN Len(a) - Len(b) ELSE a[Min(diffs)] - b[Min(diffs)]

\* A network is its address and its mask, of one byte each.  compareSubnet looks at the address only,
\* and takes != for =.
NetIP(bytes) == <<bytes[1]>>
CompareSubnet(op, bytes, pattern) == Ordered(IF op = "!=" THEN "=" ELSE op, BytesCompare(NetIP(bytes), NetIP(pattern)))

\* matchSubnet: a mask of one byte keeps the multiples of it
MatchSubnet(op, ip, pattern) ==
  LET masked == <<(ip[1] \div pattern[2]) * pattern[2]>>
      c == BytesCompare(masked, NetIP(pattern))
  IN  CASE op = "=~" -> c = 0 [] op = "!~" -> c # 0 [] op \in {"=", "!="} -> FALSE [] OTHER -> Ordered(op, c)

\* CompareInt64; an integer of the model is its one byte
CompareInt64(op, id, bytes, pattern) ==
  CASE id \in SignedIds \cup UnsignedIds -> Ordered(op, bytes[1] - pattern[1])
    [] id = IdTime -> Ordered(op, bytes[1] - pattern[1] * NanosPerSecond)
    [] OTHER -> FALSE

\* Comparison: a value whose type the literal does not compare with, or an unset one, does not match
Comparison(op, lit, t, v) ==
  IF lit.type = "null" THEN IF op = "=" THEN v.tag = "null" ELSE op = "!=" /\ v.tag # "null"
  ELSE IF lit.type = "string" THEN ID(t) \in StringIds /\ Ordered(op, BytesCompare(v.bytes, lit.bytes))
  ELSE IF v.tag # "prim" THEN FALSE
  ELSE IF lit.type = "bool" THEN ID(t) = IdBool /\ OrderedBool(op, v.bytes[1] - lit.bytes[1])
  ELSE IF lit.type = "ip" THEN ID(t) = IdIP /\ Ordered(op, BytesCompare(v.bytes, lit.bytes))
  ELSE IF lit.type = "net" THEN \/ ID(t) = IdIP /\ MatchSubnet(op, v.bytes, lit.bytes)
                                \/ ID(t) = IdNet /\ CompareSubnet(op, v.bytes, lit.bytes)
  ELSE CompareInt64(op, ID(t), v.bytes, lit.bytes)

\* Contains: the elements of a set or an array; an alias of one is not looked into
Contained(t, v) ==
  IF t.kind \in {"set", "array"} THEN {[type |-> t.types[1], value |-> v.elems[i]] : i \in DOMAIN v.elems} ELSE {}

-----------------------------------------------------------------------------
(* The filter of records *)

\* EvalAny: the columns of a record, and those of the records inside when the search is recursive
RECURSIVE AnyFields(_, _, _)
AnyFields(recursive, t, v) ==
  UNION {IF recursive /\ t.types[i].kind = "record" THEN AnyFields(TRUE, t.types[i], v.elems[i])
         ELSE {[type |-> t.types[i], value |-> v.elems[i]]} : i \in DOMAIN v.elems}

\* searchRecordString and searchRecordOther; a search for a network matches addresses in it
SearchRecord(lit, r) ==
  LET fields == Leaves(r.type, r.value, <<>>).leaves
      compare(t, v) == IF lit.type = "string" \/ ID(t) \in StringIds
                       THEN ID(t) \in StringIds /\ stringSearch(v.bytes, lit.text)
                       ELSE Comparison("=", lit, t, v)
      inNet(t, v) == Comparison("=~", lit, t, v)
  IN  IF lit.type = "net"
      THEN \E f \in AnyFields(TRUE, r.type, r.value) : \E c \in {f} \cup Contained(f.type, f.value) : inNet(c.type, c.value)
      ELSE \E f \in Range(fields) : \/ lit.type = "string" /\ stringSearch(f.name, lit.text)
                                    \/ \E c \in {f} \cup Contained(f.type, f.value) : compare(c.type, c.value)

\* The field that an expression names, by a path of column names, when the record has it
RECURSIVE FieldAt(_, _, _)
FieldAt(path, t, v) ==
  UNION {IF Len(path) = 1 THEN {[type |-> t.types[i], value |-> v.elems[i]]}
         ELSE FieldAt(Tail(path), t.types[i], v.elems[i]) :
           i \in {k \in DOMAIN v.elems : t.kind = "record" /\ t.names[k] = Head(path)}}

RECURSIVE Matches(_, _)
Matches(e, r) ==
  LET equal(t, v) == Comparison("=", e.lit, t, v)
      pred(t, v) == IF e.op = "in" THEN \E c \in Contained(t, v) : equal(c.type, c.value) ELSE Comparison(e.op, e.lit, t, v)
  IN  CASE e.kind = "and" -> Matches(e.left, r) /\ Matches(e.right, r)
        [] e.kind = "or"  -> Matches(e.left, r) \/ Matches(e.right, r)
        [] e.kind = "not" -> ~Matches(e.left, r)
        [] e.kind = "all" -> TRUE
        [] e.kind = "search" -> SearchRecord(e.lit, r)
        [] e.kind = "any" -> \E f \in AnyFields(e.recursive, r.type, r.value) : pred(f.type, f.value)
        [] OTHER -> \E f \in FieldAt(e.path, r.type, r.value) : pred(f.type, f.value)

-----------------------------------------------------------------------------
(* The filter of buffers.  NoFilter stands for the nil filter, which lets every buffer pass. *)

NoFilter == [op |-> "none"]
Both(op, left, right) == [op |-> op, left |-> left, right |-> right]

newBufferFilterForString(pattern) == IF Len(pattern) < 2 THEN NoFilter ELSE [op |-> "find", pattern |-> pattern]
newBufferFilterForStringCase(pattern) ==
  IF Len(pattern) < 2 \/ \E b \in Range(pattern) : b >= 128 THEN NoFilter ELSE [op |-> "findcase", pattern |-> pattern]

\* Numbers compare across types, so that no one pattern stands for them
newBufferFilterForLiteral(lit) ==
  IF lit.type \in {"bool", "int64", "null"} THEN NoFilter
  ELSE newBufferFilterForString(Encode(PrimitiveValue(lit.bytes)))

RECURSIVE NewBufferFilter(_)

\* Mutant: a disjunction with one side that no buffer filter can stand for is filtered by the other side
NewBufferFilterOneSided(e) ==
  LET left == NewBufferFilter(e.left)
      right == NewBufferFilter(e.right)
      text == newBufferFilterForStringCase(e.lit.text)
  IN  CASE e.kind = "or" -> IF left = NoFilter THEN right ELSE IF right = NoFilter THEN left ELSE Both("or", left, right)
        [] e.kind = "search" /\ e.lit.type = "string" /\ text # NoFilter -> Both("or", text, [op |-> "names", pattern |-> e.lit.text])
        [] OTHER -> NoFilter

NewBufferFilter(e) ==
  LET left == NewBufferFilter(e.left)
      right == NewBufferFilter(e.right)
      text == newBufferFilterForStringCase(e.lit.text)
      literal == newBufferFilterForLiteral(e.lit)
  IN  CASE e.kind \in {"any", "field"} -> IF e.op \in {"=", "in"} THEN literal ELSE NoFilter
        [] e.kind = "and" -> IF left = NoFilter THEN right ELSE IF right = NoFilter THEN left ELSE Both("and", left, right)
        [] e.kind = "or"  -> IF NoFilter \in {left, right} THEN NoFilter ELSE Both("or", left, right)
        [] e.kind = "search" /\ e.lit.type = "string" ->
             IF text = NoFilter THEN NoFilter ELSE Both("or", text, [op |-> "names", pattern |-> e.lit.text])
        [] e.kind = "search" /\ e.lit.type # "net" ->
             IF NoFilter \in {text, literal} THEN NoFilter ELSE Both("or", text, literal)
        [] OTHER -> NoFilter

\* fieldNameIter: the dotted names of the leaves of a type
RECURSIVE FieldNames(_, _)
FieldNames(t, prefix) ==
  UNION {LET c == AliasedType(t.types[i])
             name == prefix \o t.names[i]
         IN  IF c.kind = "record" THEN FieldNames(c, Append(name, Dot)) ELSE {name} : i \in DOMAIN t.types}

\* fieldNameFinder.find over the identifiers of the values in a buffer
FindFieldName(pattern, ctx, ids) ==
  \E id \in ids : LET t == AliasedType(LookupType(ctx, id))
                  IN  t.kind # "record" \/ \E name \in FieldNames(t, <<>>) : nextCase(pattern, name) # -1

\* BufferFilter.Eval over the bytes of a buffer and the identifiers of its values
RECURSIVE EvalBuffer(_, _, _, _)
EvalBuffer(f, ctx, ids, bytes) ==
  CASE f.op = "none" -> TRUE
    [] f.op = "and"  -> EvalBuffer(f.left, ctx, ids, bytes) /\ EvalBuffer(f.right, ctx, ids, bytes)
    [] f.op = "or"   -> EvalBuffer(f.left, ctx, ids, bytes) \/ EvalBuffer(f.right, ctx, ids, bytes)
    [] f.op = "find" -> next(f.pattern, bytes) # -1
    [] f.op = "findcase" -> nextCase(f.pattern, bytes) # -1
    [] OTHER -> FindFieldName(f.pattern, ctx, ids)
=============================================================================
