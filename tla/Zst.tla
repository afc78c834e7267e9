--------------------------------- MODULE Zst ---------------------------------
(***************************************************************************)
(* The columnar format zst (src/zst): a writer takes records apart into    *)
(* columns, spills the columns in segments to one file, and describes them *)
(* in an assembly of segment maps; an assembler puts the records together  *)
(* again, a cutter only one field of them.                                 *)
(*                                                                         *)
(* The file is the sequence of the values in it, and a segment its offset  *)
(* and length counted in values; the thresholds count bytes.  The records  *)
(* are those written by the machine of Zngio, taken when it is closed.     *)
(* The assembly is a zng stream, which Zngio is about: here it keeps what  *)
(* it is given.                                                            *)
(***************************************************************************)
EXTENDS Zngio

CONSTANTS
  Thresholds,   \* skew and segment thresholds of the writer
  Cuts          \* paths of column names that a cutter may be asked for

ASSUME ZstAssumption == \A th \in Thresholds : th.skew \in Nat \ {0} /\ th.segment \in Nat \ {0}

-----------------------------------------------------------------------------
(* Columns.  One record serves for the writer of a column and for its reader: a column of values holds
   the values not yet spilled, or those read ahead, and its segments; the others have columns inside, a
   field its column and its presence, an array its values and their lengths, a union its values and
   their selector. *)

Column(kind, kids) ==
  [kind |-> kind, buf |-> <<>>, segs |-> <<>>, kids |-> kids, run |-> 0, unset |-> FALSE, vcnt |-> 0, ucnt |-> 0]
PrimitiveColumn == Column("prim", <<>>)

RECURSIVE NewColumn(_)
NewColumn(type) ==
  LET t == AliasedType(type)
      kids == [i \in DOMAIN t.types |-> NewColumn(t.types[i])]
  IN  CASE t.kind = "record" -> Column("record", [i \in DOMAIN kids |-> Column("field", <<kids[i], PrimitiveColumn>>)])
        [] t.kind \in {"array", "set"} -> Column("array", Append(kids, PrimitiveColumn))
        [] t.kind = "union" -> Column("union", Append(kids, PrimitiveColumn))
        [] OTHER -> PrimitiveColumn

\* A column at work with the file, the value last read, and whether all went well
Working(file, col) == [file |-> file, col |-> col, value |-> Unset, ok |-> TRUE]

\* A step of the column inside at place i: into it, and with the result out again
Inside(st, i) == [st EXCEPT !.col = st.col.kids[i]]
Outside(st, i, done) == [done EXCEPT !.col = [st.col EXCEPT !.kids[i] = done.col]]
Within(st, i, Step(_)) == Outside(st, i, Step(Inside(st, i)))

EncodeInt(n) == PrimitiveValue(IF n = 0 THEN <<>> ELSE <<n>>)
DecodeInt(v) == IF v.bytes = <<>> THEN 0 ELSE v.bytes[1]

-----------------------------------------------------------------------------
(* Writing columns *)

\* PrimitiveWriter.Flush and Spiller.Write
FlushPrimitive(st) ==
  IF st.col.buf = <<>> THEN st
  ELSE [st EXCEPT !.file = @ \o st.col.buf, !.col.buf = <<>>,
                  !.col.segs = Append(@, [off |-> Len(st.file), len |-> Len(st.col.buf)])]

SpillFull(segment, held) ==
  LET size == Len(FlattenSeq([i \in DOMAIN held.col.buf |-> Encode(held.col.buf[i])]))
  IN  IF size >= segment THEN FlushPrimitive(held) ELSE held

WritePrimitive(segment, st, v) == SpillFull(segment, [st EXCEPT !.col.buf = Append(@, v)])

\* TouchValue and TouchUnset: the presence column holds the lengths of the runs, the first of values
Touch(segment, st, unset) ==
  IF st.col.unset = unset THEN [st EXCEPT !.col.run = @ + 1]
  ELSE [WritePrimitive(segment, st, EncodeInt(st.col.run)) EXCEPT !.col.run = 1, !.col.unset = unset]

\* A value of a type that has no column writer of its own, a map say, goes in as the bytes of its body
Body(v) == IF v.tag = "cont" THEN PrimitiveValue(Tail(Encode(v))) ELSE v

RECURSIVE WriteColumn(_, _, _)
WriteInto(segment, st, i, v) == Within(st, i, LAMBDA k : WriteColumn(segment, k, v))

CountField(st, unset) == IF unset THEN [st EXCEPT !.col.ucnt = @ + 1] ELSE [st EXCEPT !.col.vcnt = @ + 1]
WriteTouched(segment, touched, v) == IF v.tag = "null" THEN touched ELSE WriteInto(segment, touched, 1, v)

WriteField(segment, st, v) ==
  WriteTouched(segment, Within(CountField(st, v.tag = "null"), 2, LAMBDA k : Touch(segment, k, v.tag = "null")), v)

WriteRecordColumn(segment, st, v) ==
  IF Len(v.elems) # Len(st.col.kids) THEN [st EXCEPT !.ok = FALSE]
  ELSE FoldLeft(LAMBDA w, i : WriteInto(segment, w, i, v.elems[i]), st, [i \in DOMAIN v.elems |-> i])

WriteArray(segment, st, v) ==
  LET values == FoldLeft(LAMBDA w, x : WriteInto(segment, w, 1, x), st, v.elems)
  IN  WriteInto(segment, values, 2, EncodeInt(Len(v.elems)))

WriteUnion(segment, st, v) ==
  LET last == Len(st.col.kids)
      selector == DecodeInt(v.elems[1])
  IN  IF Len(v.elems) # 2 \/ selector \notin 0..(last - 2) THEN [st EXCEPT !.ok = FALSE]
      ELSE WriteInto(segment, WriteInto(segment, st, last, EncodeInt(selector)), selector + 1, v.elems[2])

WriteColumn(segment, st, v) ==
  IF ~st.ok THEN st
  ELSE IF st.col.kind = "prim" THEN WritePrimitive(segment, st, Body(v))
  ELSE IF st.col.kind = "field" THEN WriteField(segment, st, v)
  ELSE IF st.col.kind = "record" THEN WriteRecordColumn(segment, st, v)
  ELSE IF st.col.kind = "array" THEN WriteArray(segment, st, v)
  ELSE WriteUnion(segment, st, v)

RECURSIVE FlushColumn(_, _, _)
FlushInside(segment, eof, st, i) == Within(st, i, LAMBDA k : FlushColumn(segment, eof, k))

\* Mutant: the last run of a presence column is not written
FinishPresenceEarly(segment, st) ==
  IF st.col.vcnt # 0 /\ st.col.ucnt # 0 THEN Within(st, 2, FlushPrimitive) ELSE st

\* At the end the last run of a presence column is written; if it has both sorts of runs it goes to the
\* file as well
FinishPresence(segment, st) ==
  Within(st, 2, LAMBDA k : IF st.col.vcnt # 0 /\ st.col.ucnt # 0
                           THEN FlushPrimitive(WritePrimitive(segment, k, EncodeInt(k.col.run)))
                           ELSE WritePrimitive(segment, k, EncodeInt(k.col.run)))
FlushFinished(segment, eof, flushed) == IF eof THEN FinishPresence(segment, flushed) ELSE flushed

FlushField(segment, eof, st) == FlushFinished(segment, eof, FlushInside(segment, eof, st, 1))

FlushColumn(segment, eof, st) ==
  LET last == Len(st.col.kids)
      flush(w, i) == FlushInside(segment, eof, w, i)
  IN  CASE st.col.kind = "prim"   -> FlushPrimitive(st)
        [] st.col.kind = "field"  -> FlushField(segment, eof, st)
        [] st.col.kind = "record" -> FoldLeft(flush, st, [i \in 1..last |-> i])
        [] OTHER -> FoldLeft(flush, flush(st, last), [i \in 1..(last - 1) |-> i])

-----------------------------------------------------------------------------
(* The writer of records: the schemas by the identifiers of the types given, and the root column that
   says of which schema each record is *)

NewZstWriter ==
  [file |-> <<>>, ctx |-> NewContext(SharedContext), ids |-> <<>>, types |-> <<>>, schemas |-> <<>>,
   root |-> PrimitiveColumn, footprint |-> 0, ok |-> TRUE]

\* The writer with its root column, or the column of schema k, as left by a step
StoreRoot(z, st) == [z EXCEPT !.file = st.file, !.root = st.col]
StoreColumn(z, k, st) == [z EXCEPT !.file = st.file, !.schemas[k] = st.col, !.ok = st.ok]

FlushRoot(z) == StoreRoot(z, FlushPrimitive(Working(z.file, z.root)))
FlushAll(th, z, eof) ==
  FlushRoot(FoldLeft(LAMBDA w, k : StoreColumn(w, k, FlushColumn(th.segment, eof, Working(w.file, w.schemas[k]))),
                     z, [k \in DOMAIN z.schemas |-> k]))

AddSchema(z, r, made) ==
  IF made[2] = NoType THEN [z EXCEPT !.ok = FALSE]
  ELSE [z EXCEPT !.ctx = made[1], !.ids = Append(@, ID(r.type)), !.types = Append(@, made[2]),
                 !.schemas = Append(@, NewColumn(made[2]))]
WithSchema(z, r) == IF ID(r.type) \in Range(z.ids) THEN z ELSE AddSchema(z, r, TranslateType(z.ctx, r.type))

WriteRow(th, z, k, r) ==
  StoreColumn(z, k, WriteColumn(th.segment, Working(z.file, z.schemas[k]), r.value))
WriteRoot(th, z, k) ==
  StoreRoot(z, WritePrimitive(th.segment, Working(z.file, z.root), EncodeInt(k - 1)))

\* At the skew threshold all columns are spilled, so that they stay close to each other in the file
CountFootprint(th, z, r) ==
  LET footprint == z.footprint + Len(Tail(Encode(r.value)))
  IN  IF z.ok /\ footprint >= th.skew THEN FlushAll(th, [z EXCEPT !.footprint = 0], FALSE)
      ELSE [z EXCEPT !.footprint = footprint]

WriteKnown(th, z, r) ==
  LET k == CHOOSE i \in DOMAIN z.ids : z.ids[i] = ID(r.type)
  IN  IF z.ok THEN CountFootprint(th, WriteRow(th, WriteRoot(th, z, k), k, r), r) ELSE z

ZstWrite(th, z, r) == WriteKnown(th, WithSchema(z, r), r)

\* What the writer was given and made of it, when it is closed
ZstClose(th, z) == IF z.ok THEN FlushAll(th, z, TRUE) ELSE z
ZstFile(th, recs) == ZstClose(th, FoldLeft(LAMBDA w, r : ZstWrite(th, w, r), NewZstWriter, recs))

-----------------------------------------------------------------------------
(* The assembly *)

NoColumn == Column("none", <<>>)

\* MarshalZNG: a column is described by its segments; a field that only had unset values has no column
RECURSIVE MarshalColumn(_)
MarshalField(col) == <<IF col.vcnt = 0 THEN NoColumn ELSE MarshalColumn(col.kids[1]), MarshalColumn(col.kids[2])>>
MarshalColumn(col) ==
  [Column(col.kind, IF col.kind = "field" THEN MarshalField(col) ELSE [i \in DOMAIN col.kids |-> MarshalColumn(col.kids[i])])
     EXCEPT !.segs = col.segs]

\* finalize: a record without values for every schema, the record of the root column, and a record for
\* the columns of every schema
ReassemblySection(z) ==
  [k \in DOMAIN z.types |-> [set |-> FALSE, type |-> z.types[k], col |-> NoColumn]]
  \o <<[set |-> TRUE, type |-> NoType, col |-> MarshalColumn(z.root)]>>
  \o [k \in DOMAIN z.types |-> [set |-> TRUE, type |-> NoType, col |-> MarshalColumn(z.schemas[k])]]

\* UnmarshalZNG: a presence column without segments is none
RECURSIVE UnmarshalColumn(_)
UnmarshalField(col) ==
  [col EXCEPT !.kids = <<UnmarshalColumn(col.kids[1]),
                         IF col.kids[2].segs = <<>> THEN NoColumn ELSE [col.kids[2] EXCEPT !.unset = TRUE]>>]
UnmarshalColumn(col) ==
  IF col.kind = "field" THEN UnmarshalField(col)
  ELSE [col EXCEPT !.kids = [i \in DOMAIN col.kids |-> UnmarshalColumn(col.kids[i])]]

\* readAssembly: the first record whose first value is set is the root
AssemblyOf(file, section, n) ==
  [file |-> file, types |-> [k \in 1..n |-> section[k].type],
   root |-> Working(file, UnmarshalColumn(section[n + 1].col)),
   columns |-> [k \in 1..n |-> UnmarshalColumn(section[n + 1 + k].col)], ok |-> Len(section) = 2 * n + 1]
RootAt(section) == Min({i \in DOMAIN section : section[i].set})
AssemblyIn(file, section) == AssemblyOf(file, section, RootAt(section) - 1)

readAssembly(z) == AssemblyIn(z.file, ReassemblySection(z))

-----------------------------------------------------------------------------
(* Reading columns *)

\* Primitive.read
LoadSegment(st, seg) == [st EXCEPT !.col.segs = Tail(@), !.col.buf = SubSeq(st.file, seg.off + 1, seg.off + seg.len)]
TakeValue(st) == [st EXCEPT !.col.buf = Tail(@), !.value = Head(st.col.buf)]
ReadPrimitive(st) ==
  CASE st.col.buf # <<>>  -> TakeValue(st)
    [] st.col.buf = <<>> /\ st.col.segs # <<>> -> TakeValue(LoadSegment(st, Head(st.col.segs)))
    [] OTHER -> [st EXCEPT !.ok = FALSE]

\* Presence.Read: the value says whether there is one
NextRun(st) == [st EXCEPT !.col.unset = ~@, !.col.run = DecodeInt(st.value)]
RECURSIVE ReadPresence(_)
ReadPresence(st) ==
  CASE ~st.ok -> st
    [] st.ok /\ st.col.run > 0 -> [st EXCEPT !.col.run = @ - 1, !.value = EncodeInt(IF st.col.unset THEN 0 ELSE 1)]
    [] OTHER -> ReadPresence(NextRun(ReadPrimitive(st)))

RECURSIVE ReadColumn(_)
ReadFromInside(st, i) == Within(st, i, ReadColumn)

\* A container of the values read from the columns inside, in the order of the places given
AddElement(elems, st) == <<st, Append(elems, st.value)>>
AsContainer(a) == [a[1] EXCEPT !.value = Container(a[2])]
ReadElements(st, places) ==
  AsContainer(FoldLeft(LAMBDA a, i : AddElement(a[2], ReadFromInside(a[1], i)), <<st, <<>>>>, places))

ReadIfPresent(st) ==
  IF st.ok /\ DecodeInt(st.value) = 1 /\ st.col.kids[1].kind # "none" THEN ReadFromInside(st, 1)
  ELSE [st EXCEPT !.value = Unset]
ReadField(st) ==
  ReadIfPresent(IF st.col.kids[2].kind = "none" THEN [st EXCEPT !.value = EncodeInt(1)] ELSE Within(st, 2, ReadPresence))

ReadRecordColumn(st) == ReadElements(st, [i \in DOMAIN st.col.kids |-> i])

ReadLength(st) == IF st.ok THEN ReadElements(st, [i \in 1..DecodeInt(st.value) |-> 1]) ELSE st
ReadArray(st) == ReadLength(ReadFromInside(st, 2))

ReadSelected(st, selector) ==
  CASE ~st.ok -> st
    [] st.ok /\ DecodeInt(selector) \notin 0..(Len(st.col.kids) - 2) -> [st EXCEPT !.ok = FALSE]
    [] OTHER -> [ReadFromInside(st, DecodeInt(selector) + 1) EXCEPT !.value = Container(<<selector, @>>)]
ReadSelector(st) == ReadSelected(st, st.value)
ReadUnion(st) == ReadSelector(ReadFromInside(st, Len(st.col.kids)))

ReadColumn(st) ==
  IF ~st.ok THEN st
  ELSE IF st.col.kind = "prim" THEN ReadPrimitive(st)
  ELSE IF st.col.kind = "field" THEN ReadField(st)
  ELSE IF st.col.kind = "record" THEN ReadRecordColumn(st)
  ELSE IF st.col.kind = "array" THEN ReadArray(st)
  ELSE ReadUnion(st)

\* Assembler.Read and CutAssembler.Read, over and over: each value comes from the next place of its
\* schema's column; a schema that a cutter has no column for is passed over.
Ended(recs, ok) == [recs |-> recs, ok |-> ok]
RECURSIVE AssembleFrom(_, _)
NextRecord(a, recs) == AssembleFrom([a EXCEPT !.root = ReadPrimitive(@)], recs)
KeepRow(a, k, st, recs) ==
  IF st.ok THEN NextRecord([a EXCEPT !.columns[k] = st.col], Append(recs, [type |-> a.types[k], value |-> st.value]))
  ELSE Ended(recs, FALSE)
ReadRow(a, k, recs) ==
  CASE k \notin DOMAIN a.columns -> Ended(recs, FALSE)
    [] k \in DOMAIN a.columns /\ a.columns[k].kind = "none" -> NextRecord(a, recs)
    [] OTHER -> KeepRow(a, k, ReadColumn(Working(a.file, a.columns[k])), recs)
AssembleFrom(a, recs) ==
  IF a.root.ok THEN ReadRow(a, DecodeInt(a.root.value) + 1, recs) ELSE Ended(recs, TRUE)
Assemble(a) == IF a.ok THEN NextRecord(a, <<>>) ELSE Ended(<<>>, FALSE)

ZstRead(z) == Assemble(readAssembly(z))

-----------------------------------------------------------------------------
(* The cutter *)

\* Record.Lookup, of the fields of a record column: the field that the path names.  A path through a
\* column that never had a value fails.
Place(t, name) == CHOOSE i \in DOMAIN t.names : t.names[i] = name
RECURSIVE LookupField(_, _, _)

LookupField(path, t, col) ==
  LET i == Place(t, Head(path))
  IN  IF Head(path) \notin Range(t.names) THEN <<TRUE, NoColumn>>
      ELSE IF Len(path) = 1 THEN <<TRUE, col.kids[i]>>
      ELSE IF t.types[i].kind # "record" THEN <<TRUE, NoColumn>>
      ELSE IF col.kids[i].kids[1].kind = "none" THEN <<FALSE, NoColumn>>
      ELSE LookupField(Tail(path), t.types[i], col.kids[i].kids[1])

\* cutType, and the containers that CutAssembler.Read wraps the value in
RECURSIVE CutType(_, _)
CutType(path, t) ==
  LET i == Place(t, Head(path))
      column == IF Len(path) = 1 THEN t.types[i] ELSE CutType(Tail(path), t.types[i])
  IN  [kind |-> "record", id |-> 0, owner |-> 0, names |-> <<Head(path)>>, types |-> <<column>>]
RECURSIVE Wrap(_, _)
Wrap(n, v) == IF n = 0 THEN v ELSE Container(<<Wrap(n - 1, v)>>)

WrapRecord(path, type, v) == [type |-> CutType(path, type), value |-> Wrap(Len(path), v)]
\* A field that no schema has is an error (ErrNoSuchField)
CutColumns(path, a, found) ==
  IF (\E k \in DOMAIN found : ~found[k][1]) \/ \A k \in DOMAIN found : found[k] = <<TRUE, NoColumn>>
  THEN Ended(<<>>, FALSE)
  ELSE [Assemble([a EXCEPT !.columns = [k \in DOMAIN found |-> found[k][2]]])
                   EXCEPT !.recs = [i \in DOMAIN @ |-> WrapRecord(path, @[i].type, @[i].value)]]
CutAssembly(path, a) == CutColumns(path, a, [k \in DOMAIN a.types |-> LookupField(path, a.types[k], a.columns[k])])
ZstCut(z, path) == CutAssembly(path, readAssembly(z))

-----------------------------------------------------------------------------
(* Properties *)

\* A value that zst can hold: no map, and no unset container in an array, a set or a union
RECURSIVE Columnar(_, _)
Columnar(type, v) ==
  LET t == AliasedType(type)
  IN  /\ t.kind # "map" \/ v.tag = "null"
      /\ t.kind = "record" => \A i \in DOMAIN v.elems : Columnar(t.types[i], v.elems[i])
      /\ t.kind \in {"array", "set"} =>
           \A i \in DOMAIN v.elems : /\ IsContainerType(t.types[1]) => v.elems[i].tag # "null"
                                     /\ Columnar(t.types[1], v.elems[i])
      /\ t.kind = "union" /\ v.tag # "null" =>
           LET inner == t.types[DecodeInt(v.elems[1]) + 1]
           IN  (IsContainerType(inner) => v.elems[2].tag # "null") /\ Columnar(inner, v.elems[2])

GivenRecords == RecordsOf(written)
ColumnarRecords == SelectSeq(GivenRecords, LAMBDA r : Columnar(r.type, r.value))

\* The records that an assembler reads from a zst object are those written, in order, however the skew
\* and segment thresholds cut the columns into segments that lie among those of other columns, and
\* whichever columns had no value, no unset one, or both (Writer.Write, Assembler.Read).
Recovered(recs, read) == read.ok /\ SameRecords(read.recs, recs)
WholeFrom(recs, z) == z.ok /\ Recovered(recs, ZstRead(z))
ZstRoundTrip ==
  closed => \A recs \in {ColumnarRecords}, th \in Thresholds : WholeFrom(recs, ZstFile(th, recs))

\* A cutter returns, in order, the field of every record that has it, without reading the other columns,
\* when no record on the path to the field is unset; it fails exactly when no record has the field
\* (NewCutAssembler, CutAssembler.Read).
Through(path, r) == \A n \in 1..(Len(path) - 1) : \A f \in FieldAt(SubSeq(path, 1, n), r.type, r.value) : f.value.tag # "null"
Having(path, recs) == SelectSeq(recs, LAMBDA r : FieldAt(path, r.type, r.value) # {})
CutOf(path, having) ==
  [i \in DOMAIN having |->
     WrapRecord(path, having[i].type, (CHOOSE f \in FieldAt(path, having[i].type, having[i].value) : TRUE).value)]
CutRight(path, having, read) == IF having = <<>> THEN ~read.ok ELSE Recovered(CutOf(path, having), read)
CutExact ==
  closed => \A recs \in {ColumnarRecords}, th \in Thresholds, path \in Cuts :
    (\A r \in Range(recs) : Through(path, r)) =>
      CutRight(path, Having(path, recs), ZstCut(ZstFile(th, recs), path))

\* What was shredded comes back, whole or one column of it.
ColumnsRoundTrip == ZstRoundTrip /\ CutExact
=============================================================================
