----------------------------- MODULE TypeContext -----------------------------
(***************************************************************************)
(* zng types, values and the contexts that intern types (src/zng,          *)
(* src/zng/resolver).                                                      *)
(*                                                                         *)
(* A type is an object of the context that made it: owner stands for the   *)
(* identity of that context since its last reset, so that equality of two  *)
(* types is the equality of pointers that SameType tests.  A context maps  *)
(* the keys of its lookup table to the types it has made, in the order of  *)
(* their identifiers.  A value is unset, a primitive with its bytes, or a  *)
(* container with its elements.                                            *)
(***************************************************************************)
EXTENDS Integers, Sequences, SequencesExt, FiniteSets, TLC

IdInt64 == 7
IdTime == 9
IdString == 16
IdIP == 18
IdNet == 19
IdNull == 22
IdTypeDef == 23

Primitive(id) == [kind |-> "prim", id |-> id, owner |-> 0, names |-> <<>>, types |-> <<>>]
NoType == Primitive(-1)

RECURSIVE AliasedType(_)
AliasedType(t) == IF t.kind = "alias" THEN AliasedType(t.types[1]) ELSE t

ID(t) == AliasedType(t).id
AliasOrID(t) == t.id
IsContainerType(t) == AliasedType(t).kind \in {"record", "set", "array", "union", "map"}

\* What a type says, whichever context it lives in
RECURSIVE Structure(_)
Structure(t) == <<t.kind, IF t.kind = "prim" THEN t.id ELSE 0, t.names, [i \in DOMAIN t.types |-> Structure(t.types[i])]>>

-----------------------------------------------------------------------------
(* Values and their encoding *)

Unset == [tag |-> "null", bytes |-> <<>>, elems |-> <<>>]
PrimitiveValue(bytes) == [tag |-> "prim", bytes |-> bytes, elems |-> <<>>]
Container(elems) == [tag |-> "cont", bytes |-> <<>>, elems |-> elems]

\* AppendContainer and AppendPrimitive: the tag holds the length and the sort of the value
RECURSIVE Encode(_)
Encode(v) ==
  LET body == IF v.tag = "cont" THEN FlattenSeq([i \in DOMAIN v.elems |-> Encode(v.elems[i])]) ELSE v.bytes
  IN  CASE v.tag = "null" -> <<0>>
        [] v.tag = "cont" -> <<2 * Len(body) + 1>> \o body
        [] OTHER          -> <<2 * (Len(body) + 1)>> \o body

\* FieldIter: the leaves of a record with their dotted names, up to a record that is unset or empty,
\* where the iterator fails
Dot == 46
RECURSIVE Leaves(_, _, _)
Leaves(t, v, prefix) ==
  FoldLeft(LAMBDA acc, i :
             LET name == prefix \o t.names[i]
                 c == AliasedType(t.types[i])
                 inner == Leaves(c, v.elems[i], Append(name, Dot))
             IN  IF ~acc.ok THEN acc
                 ELSE IF c.kind # "record" THEN
                        [acc EXCEPT !.leaves = Append(@, [name |-> name, type |-> t.types[i], value |-> v.elems[i]])]
                 ELSE IF v.elems[i].tag # "cont" \/ c.types = <<>> THEN [acc EXCEPT !.ok = FALSE]
                 ELSE [leaves |-> acc.leaves \o inner.leaves, ok |-> inner.ok],
           [leaves |-> <<>>, ok |-> TRUE], [i \in DOMAIN t.types |-> i])

-----------------------------------------------------------------------------
(* Contexts.  The operations return the context and the type asked for. *)

NewContext(owner) == [owner |-> owner, defs |-> <<>>]

LookupType(ctx, id) ==
  CASE id \in 0..(IdTypeDef - 1) -> Primitive(id)
    [] id - IdTypeDef + 1 \in DOMAIN ctx.defs -> ctx.defs[id - IdTypeDef + 1].type
    [] OTHER -> NoType

\* Lookup: only records
LookupRecord(ctx, id) == IF LookupType(ctx, id).kind = "record" THEN LookupType(ctx, id) ELSE NoType

\* setKey, arrayKey, mapKey, unionKey and enumKey name the parts by ID, which forgets their aliases
PartKey(t) == <<<<>>, <<>>, ID(t)>>
recordKey(names, types) ==
  <<"record", [i \in DOMAIN types |->
      <<names[i], IF types[i].kind = "alias" THEN types[i].names[1] ELSE <<>>, ID(types[i])>>]>>
enumKey(names, type) == <<"enum", <<PartKey(type)>> \o [i \in DOMAIN names |-> <<names[i], <<>>, 0>>]>>
typeKey(kind, names, types) ==
  CASE kind = "record" -> recordKey(names, types)
    [] kind = "alias"  -> <<"alias", <<<<names[1], <<>>, 0>>>>>>
    [] kind = "enum"   -> enumKey(names, types[1])
    [] OTHER           -> <<kind, [i \in DOMAIN types |-> PartKey(types[i])]>>

addTypeWithLock(ctx, key, kind, names, types) ==
  LET t == [kind |-> kind, id |-> IdTypeDef + Len(ctx.defs), owner |-> ctx.owner, names |-> names, types |-> types]
  IN  <<[ctx EXCEPT !.defs = Append(@, [key |-> key, type |-> t])], t>>

\* The table is a map from the key to the type.  The names of fields and aliases are taken to be
\* none of the keys of complex types.
Known(ctx, key) == {i \in DOMAIN ctx.defs : ctx.defs[i].key = key}

\* LookupTypeRecord refuses two columns of one name, LookupTypeAlias a second target for a name
Refused(ctx, kind, names, types) ==
  \/ kind = "record" /\ ~IsInjective(names)
  \/ kind = "alias" /\ \E i \in Known(ctx, typeKey(kind, names, types)) : ctx.defs[i].type.types[1] # types[1]

InternKey(ctx, key, kind, names, types) ==
  IF Refused(ctx, kind, names, types) THEN <<ctx, NoType>>
  ELSE IF Known(ctx, key) # {} THEN <<ctx, ctx.defs[CHOOSE i \in Known(ctx, key) : TRUE].type>>
  ELSE addTypeWithLock(ctx, key, kind, names, types)
Intern(ctx, kind, names, types) == InternKey(ctx, typeKey(kind, names, types), kind, names, types)

\* TranslateType: the type of this context that says what a type of another one says.  An alias of a
\* primitive is taken over as it is, one of a complex type with its foreign target.
RECURSIVE TranslateType(_, _)
Translated(ctx, ext, parts) ==
  IF ID(ext) < IdTypeDef THEN <<ctx, ext>>
  ELSE IF ext.kind = "alias" THEN Intern(ctx, "alias", ext.names, ext.types)
  ELSE IF NoType \in Range(parts[2]) THEN <<parts[1], NoType>>
  ELSE Intern(parts[1], ext.kind, ext.names, parts[2])
TranslatePart(acc, made) == <<made[1], Append(acc[2], made[2])>>
TranslateType(ctx, ext) ==
  Translated(ctx, ext, FoldLeft(LAMBDA acc, t : TranslatePart(acc, TranslateType(acc[1], t)), <<ctx, <<>>>>, ext.types))

-----------------------------------------------------------------------------
(* The encoder of a zng stream: its own context, the types it was given by their identifiers, and the
   identifiers whose typedefs it has sent. *)

NewEncoder(owner) == [ctx |-> NewContext(owner), table |-> <<>>, encoded |-> {}]

\* Lookup: table is a slice indexed by the identifier of the type outside
LookupEncoded(enc, ext) == IF \E e \in Range(enc.table) : e.id = ID(ext)
                           THEN (CHOOSE e \in Range(enc.table) : e.id = ID(ext)).type ELSE NoType

\* The serialize functions: a record, an enum and an alias refer to an alias by its own identifier, the
\* other types to what it stands for
Typedef(kind, names, types) ==
  [op |-> "typedef", kind |-> kind, names |-> names,
   refs |-> [i \in DOMAIN types |-> IF kind \in {"record", "enum", "alias"} THEN AliasOrID(types[i]) ELSE ID(types[i])]]

\* An encoding: the encoder's context and identifiers sent, the typedefs to send, and the types made
RECURSIVE encodeType(_, _)
EncodeMade(acc, ext, parts, made) ==
  LET result(a) == [a EXCEPT !.ctx = made[1], !.types = Append(acc.types, made[2])]
  IN  IF made[2].id \in parts.encoded THEN result(parts)
      ELSE result([parts EXCEPT !.encoded = @ \cup {made[2].id},
                                !.defs = Append(@, Typedef(ext.kind, ext.names, parts.types))])
EncodeParts(acc, ext, parts) == EncodeMade(acc, ext, parts, Intern(parts.ctx, ext.kind, ext.names, parts.types))
encodeType(acc, ext) ==
  IF ext.kind = "prim" THEN [acc EXCEPT !.types = Append(@, ext)]
  ELSE EncodeParts(acc, ext, FoldLeft(LAMBDA a, t : encodeType(a, t), [acc EXCEPT !.types = <<>>], ext.types))

EnterType(enc, ext, done) ==
  [enc |-> [ctx |-> done.ctx, encoded |-> done.encoded,
            table |-> Append(enc.table, [id |-> ID(ext), type |-> done.types[1]])],
   defs |-> done.defs]
EncodeTypedefs(enc, ext) ==
  EnterType(enc, ext, encodeType([ctx |-> enc.ctx, encoded |-> enc.encoded, defs |-> <<>>, types |-> <<>>], ext))

\* Serialize, for a type file: the typedefs of the whole table
Serialize(ctx) == [i \in DOMAIN ctx.defs |-> LET t == ctx.defs[i].type IN Typedef(t.kind, t.names, t.types)]

-----------------------------------------------------------------------------
(* Names of types: the string of a type as a sequence of words and signs, and the parser that LookupByName
   runs over it.  A word is a sign with its spelling. *)

Sign(c) == <<c, <<>>>>
Joined(strings) == FlattenSeq([i \in DOMAIN strings |-> IF i = 1 THEN strings[i] ELSE <<Sign(",")>> \o strings[i]])

RECURSIVE TypeString(_)
TypeString(t) ==
  LET parts == [i \in DOMAIN t.types |-> TypeString(t.types[i])]
      named(i) == <<<<"word", t.names[i]>>, Sign(":")>>
      body == CASE t.kind = "record" -> Joined([i \in DOMAIN parts |-> named(i) \o parts[i]])
                [] t.kind = "enum"   -> Joined(parts \o [i \in DOMAIN t.names |-> named(i) \o <<Sign("["), Sign("]")>>])
                [] OTHER             -> Joined(parts)
  IN  CASE t.kind = "prim"  -> <<<<"prim", <<t.id>>>>>>
        [] t.kind = "alias" -> <<<<"word", t.names[1]>>>>
        [] OTHER            -> <<Sign(t.kind), Sign("[")>> \o body \o <<Sign("]")>>

\* A parse: what is left of the string, the context, the names and types read, whether it succeeded
Parse(rest, ctx) == [rest |-> rest, ctx |-> ctx, names |-> <<>>, types |-> <<>>, ok |-> TRUE]
Failed(p) == [p EXCEPT !.ok = FALSE]
Starts(p, c) == p.ok /\ p.rest # <<>> /\ Head(p.rest)[1] = c
match(p, c) == IF Starts(p, c) THEN [p EXCEPT !.rest = Tail(@)] ELSE Failed(p)

parseName(p) == IF Starts(p, "word") THEN match([p EXCEPT !.names = Append(@, Head(p.rest)[2]), !.rest = Tail(@)], ":")
                ELSE Failed(p)

RECURSIVE parseType(_), parseTypeList(_), parseColumns(_), parseElements(_)

\* Mutant: a list ends at its first type
parseTypeListShort(p) == match(parseType(p), "]")

parseTypeList(p) ==
  LET q == parseType(p)
  IN  IF Starts(q, ",") THEN parseTypeList(match(q, ",")) ELSE match(q, "]")

parseColumns(p) ==
  LET q == parseType(parseName(p))
  IN  IF Starts(q, ",") THEN parseColumns(match(q, ",")) ELSE match(q, "]")

parseElements(p) ==
  LET q == match(match(parseName(p), "["), "]")
  IN  IF Starts(q, ",") THEN parseElements(match(q, ",")) ELSE match(q, "]")

parseBody(kind, p) ==
  CASE kind = "record" -> IF Starts(p, "]") THEN match(p, "]") ELSE parseColumns(p)
    [] kind = "array"  -> match(parseType(p), "]")
    [] kind = "enum"   -> parseElements(match(parseType(p), ","))
    [] OTHER           -> IF Starts(p, "]") THEN Failed(p) ELSE parseTypeList(p)

\* set and map check how many types they were given
Arity(kind, n) == CASE kind = "set" -> n = 1 [] kind = "map" -> n = 2 [] OTHER -> TRUE

ParsedBody(p, kind, body, made) ==
  IF ~body.ok \/ ~Arity(kind, Len(body.types)) \/ made[2] = NoType THEN Failed(p)
  ELSE [p EXCEPT !.rest = body.rest, !.ctx = made[1], !.types = Append(@, made[2])]
ParsedType(p, kind, body) == ParsedBody(p, kind, body, Intern(body.ctx, kind, body.names, body.types))
parseType(p) ==
  LET kind == Head(p.rest)[1]
      alias == typeKey("alias", <<Head(p.rest)[2]>>, <<>>)
  IN  IF ~p.ok \/ p.rest = <<>> THEN Failed(p)
      ELSE IF kind = "prim" THEN [p EXCEPT !.rest = Tail(@), !.types = Append(@, Primitive(Head(p.rest)[2][1]))]
      ELSE IF kind = "word" THEN IF Known(p.ctx, alias) = {} THEN Failed(p)
                            ELSE [p EXCEPT !.rest = Tail(@),
                                           !.types = Append(@, p.ctx.defs[CHOOSE i \in Known(p.ctx, alias) : TRUE].type)]
      ELSE IF kind \in {"record", "set", "array", "union", "enum", "map"} THEN
             ParsedType(p, kind, parseBody(kind, match(Parse(Tail(p.rest), p.ctx), "[")))
      ELSE Failed(p)

LookupByName(ctx, string) ==
  LET p == parseType(Parse(string, ctx))
  IN  IF p.ok /\ p.rest = <<>> THEN <<p.ctx, p.types[1]>> ELSE <<ctx, NoType>>
=============================================================================
