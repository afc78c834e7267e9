-------------------------------- MODULE Zngio --------------------------------
(***************************************************************************)
(* The zng format (src/zio/zngio): a writer turns records into a sequence  *)
(* of messages, typedefs and values, in streams that each stand alone;     *)
(* readers, scanners and time indexes read them back.                      *)
(*                                                                         *)
(* A message is a typedef, a value, a control message of the application,  *)
(* an end of stream, or a compressed block of values.  A position in the   *)
(* file counts messages, a block being one of them.  Whether a block       *)
(* compresses well enough to be written as one is left open.               *)
(***************************************************************************)
EXTENDS Filter

CONSTANTS
  Records,          \* records that may be written: their type, of one context, and their value
  Controls,         \* messages of the application
  Options,          \* StreamRecordsMax and LZ4BlockSize of the writer
  Filters,          \* filters that a scan may use
  CtrlValueEscape,  \* type identifiers from here on take more than the code of the message
  MaxPayloads       \* bound on the records and messages written

ASSUME ZngioAssumption ==
  /\ \A o \in Options : o.streamMax \in Nat /\ o.blockSize \in Nat
  /\ CtrlValueEscape \in Nat /\ MaxPayloads \in Nat

VARIABLES
  opts,       \* options of the writer
  enc, out, ubuf, streamRecords,   \* the writer: its encoder, what it wrote, what its compressor holds
  written,    \* records and application messages given to the writer so far
  closed

writerVars == <<enc, out, ubuf, streamRecords>>
vars == <<opts, enc, out, ubuf, streamRecords, written, closed>>

EncoderContext == 1
SharedContext == 2

-----------------------------------------------------------------------------
(* Writer *)

Writer == [enc |-> enc, out |-> out, ubuf |-> ubuf, streamRecords |-> streamRecords]
Wrote(w) == enc' = w.enc /\ out' = w.out /\ ubuf' = w.ubuf /\ streamRecords' = w.streamRecords

EOS == [op |-> "eos"]
ValueMessage(id, value) ==
  [op |-> "value", escaped |-> id >= CtrlValueEscape,
   code |-> IF id < CtrlValueEscape THEN id ELSE id - CtrlValueEscape, value |-> value]
MessageBytes(m) == LET raw == Tail(Encode(m.value)) IN <<m.code, Len(raw)>> \o raw
BufferBytes(msgs) == FlattenSeq([i \in DOMAIN msgs |-> MessageBytes(msgs[i])])

\* compressionWriter.Flush
FlushCompressor(w, compresses) ==
  IF w.ubuf = <<>> THEN w
  ELSE [w EXCEPT !.ubuf = <<>>, !.out = IF compresses THEN Append(@, [op |-> "block", msgs |-> w.ubuf]) ELSE @ \o w.ubuf]

\* Writer.write, through the compressor when there is one
WriteMessage(w, m, compresses) ==
  LET full == Len(BufferBytes(Append(w.ubuf, m))) > opts.blockSize
      flushed == IF full THEN FlushCompressor(w, compresses) ELSE w
  IN  IF opts.blockSize = 0 THEN [w EXCEPT !.out = Append(@, m)] ELSE [flushed EXCEPT !.ubuf = Append(@, m)]

\* Mutant: the types sent in the stream that ends are taken to be known in the next
EndOfStreamKeepsTypes(w, compresses) ==
  [FlushCompressor(w, compresses) EXCEPT !.streamRecords = 0, !.out = Append(@, EOS)]

EndOfStream(w, compresses) ==
  LET flushed == FlushCompressor(w, compresses)
  IN  [flushed EXCEPT !.enc = NewEncoder(EncoderContext), !.streamRecords = 0, !.out = Append(@, EOS)]

\* Typedefs go ahead of the block that is being built
Defined(w, e) == [w EXCEPT !.enc = e.enc, !.out = @ \o e.defs]
SendTypedefs(w, type) ==
  IF LookupEncoded(w.enc, type) # NoType THEN w
  ELSE Defined(w, EncodeTypedefs(w.enc, type))

SentRecord(w, compresses) ==
  IF opts.streamMax > 0 /\ w.streamRecords >= opts.streamMax THEN EndOfStream(w, compresses) ELSE w
SendRecord(w, r, compresses) ==
  WriteMessage(w, ValueMessage(ID(LookupEncoded(w.enc, r.type)), r.value), compresses)
WriteRecord(w, r, compresses) ==
  SentRecord([SendRecord(SendTypedefs(w, r.type), r, compresses[1]) EXCEPT !.streamRecords = @ + 1], compresses[2])

WriteApp(w, a, compresses) == [FlushCompressor(w, compresses) EXCEPT !.out = Append(@, [op |-> "app", app |-> a])]

\* flush, when the writer is closed
FinalFlush(w, compresses) ==
  IF w.streamRecords > 0 THEN EndOfStream(w, compresses) ELSE FlushCompressor(w, compresses)

Init ==
  /\ opts \in Options
  /\ enc = NewEncoder(EncoderContext) /\ out = <<>> /\ ubuf = <<>> /\ streamRecords = 0
  /\ written = <<>> /\ closed = FALSE

Write(r) ==
  /\ ~closed /\ Len(written) < MaxPayloads
  /\ \E c \in BOOLEAN \X BOOLEAN : Wrote(WriteRecord(Writer, r, c))
  /\ written' = Append(written, [what |-> "rec", rec |-> r])
  /\ UNCHANGED <<opts, closed>>

WriteControl(a) ==
  /\ ~closed /\ Len(written) < MaxPayloads
  /\ \E c \in BOOLEAN : Wrote(WriteApp(Writer, a, c))
  /\ written' = Append(written, [what |-> "app", app |-> a])
  /\ UNCHANGED <<opts, closed>>

\* Called by those who write streams of their own, at most once between two records
EndStream ==
  /\ ~closed /\ streamRecords > 0
  /\ \E c \in BOOLEAN : Wrote(EndOfStream(Writer, c))
  /\ UNCHANGED <<opts, written, closed>>

Close ==
  /\ ~closed /\ closed' = TRUE
  /\ \E c \in BOOLEAN : Wrote(FinalFlush(Writer, c))
  /\ UNCHANGED <<opts, written>>

Next ==
  \/ \E r \in Records : Write(r)
  \/ \E a \in Controls : WriteControl(a)
  \/ EndStream
  \/ Close

Spec == Init /\ [][Next]_vars

-----------------------------------------------------------------------------
(* Reader: the context implied by the stream, the shared context and the map between them, the position
   after the message being read, the start of the stream, and the payloads read so far *)

NewReader(sctx) == [zctx |-> NewContext(100), sctx |-> sctx, mapper |-> <<>>, pos |-> 0, sos |-> 0,
                    payloads |-> <<>>, ok |-> TRUE]

\* readTypeRecord and its like: a typedef whose parts are unknown ends the reading
readTypedef(rd, m) ==
  LET types == [i \in DOMAIN m.refs |-> LookupType(rd.zctx, m.refs[i])]
      made == Intern(rd.zctx, m.kind, m.names, types)
  IN  IF NoType \in Range(types) \/ (m.kind = "alias" /\ made[2] = NoType) THEN [rd EXCEPT !.ok = FALSE]
      ELSE [rd EXCEPT !.zctx = made[1]]

\* readValue does not add the escape to an escaped identifier
ValueID(m) == m.code

parseValue(rd, m) ==
  LET id == ValueID(m)
      typ == LookupRecord(rd.zctx, id)
      seen == {e \in Range(rd.mapper) : e.id = id}
      made == IF seen = {} THEN TranslateType(rd.sctx, typ) ELSE <<rd.sctx, (CHOOSE e \in seen : TRUE).type>>
  IN  IF typ = NoType \/ made[2] = NoType THEN [rd EXCEPT !.ok = FALSE]
      ELSE [rd EXCEPT !.sctx = made[1],
                      !.mapper = IF seen = {} THEN Append(@, [id |-> id, type |-> made[2]]) ELSE @,
                      !.payloads = Append(@, [what |-> "rec", rec |-> [type |-> made[2], value |-> m.value], sos |-> rd.sos])]

resetReader(rd) == [rd EXCEPT !.zctx = NewContext(100 + rd.pos), !.mapper = <<>>, !.sos = rd.pos]

\* Blocks hold values only, so that a block is the values in it
RECURSIVE readMessages(_, _)
readMessage(rd, m) ==
  IF ~rd.ok THEN rd
  ELSE IF m.op = "typedef" THEN readTypedef(rd, m)
  ELSE IF m.op = "value" THEN parseValue(rd, m)
  ELSE IF m.op = "eos" THEN resetReader(rd)
  ELSE IF m.op = "block" THEN readMessages(rd, m.msgs)
  ELSE [rd EXCEPT !.payloads = Append(@, [what |-> "app", app |-> m.app])]
readMessages(rd, msgs) == FoldLeft(readMessage, rd, msgs)
At1(rd) == [rd EXCEPT !.pos = @ + 1]

ReadFrom(from, sctx) ==
  FoldLeft(LAMBDA rd, m : readMessage(At1(rd), m), [NewReader(sctx) EXCEPT !.pos = from, !.sos = from],
           SubSeq(out, from + 1, Len(out)))
ReadAll == ReadFrom(0, NewContext(SharedContext))

RecordsOf(payloads) == LET recs == SelectSeq(payloads, LAMBDA p : p.what = "rec") IN [i \in DOMAIN recs |-> recs[i].rec]

\* zngScanner: a block that the buffer filter rejects is dropped unread
ScanMessage(e, filter, rd, m) ==
  LET ids == {ValueID(m.msgs[i]) : i \in DOMAIN m.msgs}
      keep(r) == [r EXCEPT !.payloads = SelectSeq(@, LAMBDA p : p.what = "rec" /\ Matches(e, p.rec))]
  IN  IF m.op = "block" /\ ~EvalBuffer(filter, rd.zctx, ids, BufferBytes(m.msgs)) THEN rd
      ELSE keep(readMessage(rd, m))
Scan(e) ==
  LET filter == NewBufferFilter(e)
  IN  FoldLeft(LAMBDA rd, m : ScanMessage(e, filter, At1(rd), m), NewReader(NewContext(SharedContext)), out)

-----------------------------------------------------------------------------
(* Time index of a file: the first reader of the file builds it, the readers after it start at the stream
   where their time span may begin.  A span is its first and its last timestamp. *)

\* Record.Ts: the column ts, 0 for a record without one
TsName == <<116, 115>>
Ts(r) == LET f == FieldAt(<<TsName>>, r.type, r.value) IN IF f = {} THEN 0 ELSE (CHOOSE x \in f : TRUE).value.bytes[1]

NoIndex == [order |-> "unknown", marks |-> <<>>, lastSOS |-> 0, lastTs |-> 0, lastIndexedTs |-> 0]

NextOrder(order, last, ts) ==
  IF last = 0 \/ ts = last THEN order
  ELSE IF order = "unknown" THEN IF ts > last THEN "ascending" ELSE "descending"
  ELSE IF order = "ascending" /\ ts < last THEN "unsorted"
  ELSE IF order = "descending" /\ ts > last THEN "unsorted"
  ELSE order

\* indexReader.readOne
IndexRecord(ix, p) ==
  LET ts == Ts(p.rec)
      starts == p.sos # ix.lastSOS
      marked == starts /\ ts # ix.lastIndexedTs
  IN  [order |-> NextOrder(ix.order, ix.lastTs, ts),
       marks |-> IF marked THEN Append(ix.marks, [ts |-> ts, pos |-> p.sos]) ELSE ix.marks,
       lastSOS |-> p.sos, lastTs |-> ts,
       lastIndexedTs |-> IF marked THEN ts ELSE ix.lastIndexedTs]

TimeIndex(recs) == FoldLeft(IndexRecord, NoIndex, recs)

\* indexReader.Read: what the first reader returns while it builds the index
IndexedRead(recs, span) == SelectSeq(recs, LAMBDA r : span[1] <= Ts(r) /\ Ts(r) <= span[2])

\* Mutant: the first mark beyond where the span begins
RangeStartBeyond(ix, span) ==
  LET beyond == {i \in DOMAIN ix.marks : IF ix.order = "ascending" THEN ix.marks[i].ts > span[1] ELSE ix.marks[i].ts < span[2]}
  IN  IF ix.order \in {"ascending", "descending"} /\ beyond # {} THEN ix.marks[Min(beyond)].pos ELSE 0

\* newRangeReader: the last mark before the first that lies beyond where the span begins
RangeStart(ix, span) ==
  LET beyond(m) == IF ix.order = "ascending" THEN m.ts > span[1] ELSE m.ts < span[2]
      usable == {i \in DOMAIN ix.marks : \A k \in 1..i : ~beyond(ix.marks[k])}
  IN  IF ix.order \in {"ascending", "descending"} /\ usable # {} THEN ix.marks[Max(usable)].pos ELSE 0

\* rangeReader.Read: up to the first record past the span, without the records before it
Before(order, r, span) == IF order = "ascending" THEN Ts(r) < span[1] ELSE Ts(r) > span[2]
After(order, r, span) == IF order = "ascending" THEN Ts(r) > span[2] ELSE Ts(r) < span[1]
RangeRead(ix, span) ==
  LET recs == RecordsOf(ReadFrom(RangeStart(ix, span), NewContext(SharedContext)).payloads)
      sorted == ix.order \in {"ascending", "descending"}
      past == {i \in DOMAIN recs : sorted /\ After(ix.order, recs[i], span)}
      upto == IF past = {} THEN recs ELSE SubSeq(recs, 1, Min(past) - 1)
  IN  SelectSeq(upto, LAMBDA r : ~(sorted /\ Before(ix.order, r, span)))

-----------------------------------------------------------------------------
(* Properties *)

\* What a stream keeps of a type: the aliases of columns, of an enum's values and of aliases, but not
\* those of the elements of other types
RECURSIVE Kept(_)
Kept(t) == LET part(i) == IF t.kind \in {"record", "enum", "alias"} THEN t.types[i] ELSE AliasedType(t.types[i])
           IN  <<t.kind, IF t.kind = "prim" THEN t.id ELSE 0, t.names, [i \in DOMAIN t.types |-> Kept(part(i))]>>

SameRecord(r, s) == r.value = s.value /\ Kept(r.type) = Kept(s.type)
SamePayload(p, q) == p.what = q.what /\ IF p.what = "rec" THEN SameRecord(p.rec, q.rec) ELSE p.app = q.app
SameRecords(s, t) == Len(s) = Len(t) /\ \A i \in DOMAIN s : SameRecord(s[i], t[i])

TypeOK ==
  /\ opts \in Options
  /\ \A i \in DOMAIN out : out[i].op \in {"typedef", "value", "app", "eos", "block"}
  /\ \A i \in DOMAIN ubuf : ubuf[i].op = "value"
  /\ streamRecords \in 0..MaxPayloads
  /\ opts.streamMax > 0 => streamRecords < opts.streamMax
  /\ Len(written) <= MaxPayloads
  /\ closed \in BOOLEAN

\* The records and application messages that can be read from the file at any moment are those given to
\* the writer, in order, less at most what its compressor holds: types that were sent ahead of a block,
\* a reset of both sides at the end of a stream and identifiers that only one side assigns included
\* (Writer.Write, Reader.readPayload).
ReadBack ==
  LET rd == ReadAll
  IN  /\ rd.ok
      /\ Len(rd.payloads) = Len(written) - Len(ubuf)
      /\ \A i \in DOMAIN rd.payloads : SamePayload(rd.payloads[i], written[i])

\* A reader that starts at the end of any stream reads what a reader of the whole file reads from there:
\* a stream needs no typedef of the ones before it, which seek indexes, microindexes and time indexes
\* rely on (Writer.EndStream).
StreamsStandAlone ==
  closed =>
    LET all == SelectSeq(ReadAll.payloads, LAMBDA p : p.what = "rec")
    IN  \A pos \in {i \in DOMAIN out : out[i] = EOS} :
          LET rest == ReadFrom(pos, NewContext(SharedContext))
          IN  rest.ok /\ SameRecords(RecordsOf(rest.payloads), RecordsOf(SelectSeq(all, LAMBDA p : p.sos >= pos)))

\* A file can be read from its start and from the end of any of its streams.
StreamReadable == TypeOK /\ ReadBack /\ StreamsStandAlone

\* A scan with any of the filters returns exactly the matching records, whichever blocks its buffer
\* filter let it skip: a skipped block holds no match, and nothing else that a reader needs
\* (zngScanner.scanBatch, NewBufferFilter).
ScanExact ==
  closed =>
    LET all == RecordsOf(ReadAll.payloads)
    IN  \A e \in Filters :
          LET rd == Scan(e)
          IN  rd.ok /\ SameRecords(RecordsOf(rd.payloads), SelectSeq(all, LAMBDA r : Matches(e, r)))

\* The finder that the buffer filter looks for patterns with returns the first place of the pattern in
\* the bytes of the block, however far its tables let it skip (stringFinder.next).
FinderExact ==
  ubuf # <<>> =>
    LET bytes == BufferBytes(ubuf)
        parts == UNION {{Slice(bytes, i, i + n) : i \in 0..(Len(bytes) - n)} : n \in 2..4}
    IN  \A pattern \in parts \cup {<<97, 98>>, <<98, 97, 98, 97>>} :
          LET places == {i \in 0..(Len(bytes) - Len(pattern)) : Slice(bytes, i, i + Len(pattern)) = pattern}
          IN  next(pattern, bytes) = IF places = {} THEN -1 ELSE Min(places)

\* Skipping blocks and skipping bytes loses no match.
SkipsExact == ScanExact /\ FinderExact

\* A second reader of a span of a file in time order, which starts at the stream that the index names,
\* returns what the first one returned, unless a stream begins at the very timestamp that the one before
\* it ended with (TimeIndex.NewReader).
TimeIndexExact ==
  closed =>
    LET recs == SelectSeq(ReadAll.payloads, LAMBDA p : p.what = "rec")
        ix == TimeIndex(recs)
        tie == \E i \in 1..(Len(recs) - 1) : recs[i].sos # recs[i+1].sos /\ Ts(recs[i].rec) = Ts(recs[i+1].rec)
    IN  ~tie /\ ix.order \in {"ascending", "descending"} =>
          \A span \in (1..3) \X (1..3) : SameRecords(RangeRead(ix, span), IndexedRead(RecordsOf(recs), span))

\* The name of a type, parsed in a context that knows its aliases, is that type again, as the readers of
\* text formats need (LookupByName, TypeRecord.String).
RECURSIVE AliasesOf(_)
AliasesOf(t) == UNION {AliasesOf(t.types[i]) : i \in DOMAIN t.types} \cup (IF t.kind = "alias" THEN {t} ELSE {})
NamesRoundTrip ==
  closed => \A i \in DOMAIN written : written[i].what = "rec" =>
    LET t == written[i].rec.type
        aliases == SetToSeq(AliasesOf(t))
        ctx == FoldLeft(LAMBDA c, a : Intern(c, "alias", a.names, a.types)[1], NewContext(SharedContext), aliases)
    IN  Structure(LookupByName(ctx, TypeString(t))[2]) = Structure(t)

\* A type file that is loaded again gives every identifier the type it stood for, when the types of the
\* context were all made in it (Context.Serialize, ReadTypeContext).
TypeFileReloads ==
  LET saved == enc.ctx
      loaded == readMessages(NewReader(saved), Serialize(saved))
  IN  loaded.ok /\ Len(loaded.zctx.defs) = Len(saved.defs)
      /\ \A i \in DOMAIN saved.defs : Kept(loaded.zctx.defs[i].type) = Kept(saved.defs[i].type)

\* Types survive their two external forms, the name and the type file.
TypesRoundTrip == NamesRoundTrip /\ TypeFileReloads
=============================================================================
