-------------------------------- MODULE Pcap --------------------------------
(***************************************************************************)
(* pcap, pcap/pcapio, pkg/ranger, pkg/slicer, pkg/peeker and the searches  *)
(* of zqd/pcapstorage: a capture is indexed by time into byte ranges, and  *)
(* a search reads the ranges its span needs and filters the packets.       *)
(*                                                                         *)
(* A capture is a sequence of blocks.  Its bytes are the pairs <<i, k>>,   *)
(* byte k of block i, so that a range cut at the wrong place shows.  A     *)
(* search reads the file as it goes, while the capture grows and is        *)
(* indexed again; a block that the reader refuses ends either of them.     *)
(***************************************************************************)
EXTENDS Integers, Sequences, SequencesExt, FiniteSetsExt

CONSTANTS
  Blocks,       \* the blocks a capture can have
  Requests,     \* the searches a client can ask for
  MaxBlocks,    \* the length of a capture
  MaxAhead,     \* by how many blocks it grows past a search's index while that reads
  Limits,       \* how many blocks of a set it has at most
  Bins,         \* the bins of an index (10000 in Store.Update)
  OffsetThresh, \* offsetThresh, the packets collected before they are condensed
  BufferSize,   \* the size a peeker's buffer begins with (32 KB)
  BufferLimit,  \* the size up to which it grows for a block (1 MB)
  Second,       \* nanoseconds in a second
  Word,         \* 2^32
  Fudge,        \* what NewSearch adds to the end of a span (2000)
  MaxOffset     \* math.MaxUint64, past the end of every capture

ASSUME SizesAssumption ==
  /\ \A b \in Blocks : b.len \in Nat \ {0}
  /\ BufferSize \in Nat \ {0} /\ BufferLimit \in Nat /\ BufferSize <= BufferLimit
  /\ {Bins, OffsetThresh, Second, Word} \subseteq Nat \ {0}

VARIABLES
  file,     \* the capture, as it is on disk
  store,    \* pcapstorage.Store.meta and, as n, how many blocks were indexed
  failed,   \* how long the capture was that the last Update failed on, or 0
  search    \* the search under way

vars == <<file, store, failed, search>>

-----------------------------------------------------------------------------
(***************************************************************************)
(* The bytes of a capture, and pkg/slicer's Reader: a slice that reaches   *)
(* the end of the file ends the stream.                                    *)
(***************************************************************************)
Bytes(f, is) == FlattenSeq([j \in DOMAIN is |-> [k \in 1..f[is[j]].len |-> <<is[j], k>>]])
AllOf(f) == [i \in DOMAIN f |-> i]
Slice(offset, length) == [offset |-> offset, length |-> length]

RECURSIVE Sliced(_, _)
Sliced(bytes, slices) ==
  IF slices = <<>> THEN <<>>
  ELSE LET s == Head(slices)
           end == s.offset + s.length IN
       IF end > Len(bytes) THEN SubSeq(bytes, s.offset + 1, Len(bytes))
       ELSE SubSeq(bytes, s.offset + 1, end) \o Sliced(bytes, Tail(slices))

(***************************************************************************)
(* pkg/peeker over a stream of bytes: Peek fills the buffer when it has    *)
(* to, grown to what is asked for but not past the limit, and knows of the *)
(* end only once a read came back empty.                                   *)
(***************************************************************************)
NewPeeker(bytes) == [bytes |-> bytes, pos |-> 0, filled |-> 0, size |-> BufferSize, eof |-> FALSE]

Short(p, min) == min > p.filled - p.pos /\ ~p.eof
Fill(p, min) ==
  LET size == Max({p.size, min}) IN
  [p EXCEPT !.size = size,
            !.filled = Min({Len(p.bytes), p.pos + size}),
            !.eof = Len(p.bytes) - p.pos < size]

Peek(p, min) ==
  LET q == IF Short(p, min) THEN Fill(p, min) ELSE p IN
  IF p.pos = p.filled /\ p.eof THEN [p |-> p, err |-> "EOF"]
  ELSE IF Short(p, min) /\ min > BufferLimit THEN [p |-> p, err |-> "overflow"]
  ELSE IF min > q.filled - q.pos THEN [p |-> q, err |-> "truncated"]
  ELSE [p |-> q, err |-> "none"]

-----------------------------------------------------------------------------
(***************************************************************************)
(* pcapio: Read returns the index of the next block (0 at the end) and the *)
(* reader after it.  A reader of legacy files has a file header instead of *)
(* sections and no interfaces.                                             *)
(***************************************************************************)
End(r) == [block |-> 0, err |-> "none", r |-> r]
Fail(r) == [block |-> 0, err |-> "invalid", r |-> r]
Took(i, r) == [block |-> i, err |-> "none", r |-> r]

\* Where the stream stands a block begins and is whole; bytes that are not a
\* block have no length that its trailer repeats.
Begins(p) == p.bytes[p.pos + 1][2] = 1
Whole(p, i, len) == \A k \in 1..len : p.bytes[p.pos + k] = <<i, k>>

\* readBlock.  At the end Peek knows of it or finds no byte ("truncated"), which
\* Read passes over to meet the end.  A section header drops the interfaces.
Body(f, r, i, body) ==
  IF body.err # "none" \/ ~Whole(body.p, i, f[i].len) THEN Fail(r)
  ELSE Took(i, [r EXCEPT !.p = [body.p EXCEPT !.pos = @ + f[i].len],
                         !.ifaces = IF f[i].type = "section" THEN <<>> ELSE @])
BlockAt(f, r, peek) ==
  IF peek.err # "none" THEN End([r EXCEPT !.p = peek.p])
  ELSE IF ~Begins(peek.p) THEN Fail(r)
  ELSE LET i == peek.p.bytes[peek.p.pos + 1][1] IN Body(f, r, i, Peek(peek.p, f[i].len))
readBlock(f, r) == BlockAt(f, r, Peek(r.p, 1))

Advance(f, t) == [t EXCEPT !.r.offset = @ + f[t.block].len]

\* NgReader.Read: statistics are passed over, though the offset moves.
RECURSIVE NgRead(_, _)
NgBlock(f, r, t) ==
  IF r.first # 0 THEN Advance(f, Took(r.first, [r EXCEPT !.first = 0]))
  ELSE IF t.block = 0 THEN t
  ELSE LET b == f[t.block]
           u == Advance(f, t) IN
       CASE b.type = "section" -> u
         [] b.type = "interface" -> [u EXCEPT !.r.ifaces = Append(@, b)]
         [] b.type = "packet" -> IF b.ifno < Len(t.r.ifaces) THEN u ELSE Fail(r)
         [] b.type = "statistics" -> NgRead(f, u.r)
         [] OTHER -> Fail(r)
NgRead(f, r) == NgBlock(f, r, readBlock(f, r))

\* PcapReader.Read: only an end that Peek knows of is one, and a packet whose
\* header claims more than the snap length (0 for none) is refused unread.
OverSnaplen(header, b) == header.snaplen # 0 /\ b.type = "packet" /\ b.caplen > header.snaplen
PcapBlock(f, r, t) ==
  LET peek == Peek(r.p, 1) IN
  IF r.first # 0 THEN Advance(f, Took(r.first, [r EXCEPT !.first = 0]))
  ELSE IF peek.err = "truncated" THEN Fail(r)
  ELSE IF peek.err = "none" /\ OverSnaplen(f[r.header], f[peek.p.bytes[peek.p.pos + 1][1]]) THEN Fail(r)
  ELSE IF t.block = 0 THEN t
  ELSE Advance(f, t)
PcapRead(f, r) == PcapBlock(f, r, readBlock(f, r))

Read(f, r) == IF r.legacy THEN PcapRead(f, r) ELSE NgRead(f, r)

\* NewReader: a file header makes it a legacy capture, a section header a
\* pcap-ng one; nothing else is a capture, no bytes at all neither.
Opened(f, r, t) ==
  IF t.block = 0 \/ f[Max({t.block, 1})].type \notin {"header", "section"} THEN Fail(r)
  ELSE [t EXCEPT !.r.first = t.block, !.r.header = t.block, !.r.legacy = f[t.block].type = "header"]
NewReader(f, bytes) ==
  LET r == [p |-> NewPeeker(bytes), ifaces |-> <<>>, first |-> 0, offset |-> 0, legacy |-> FALSE, header |-> 0]
  IN  Opened(f, r, readBlock(f, r))

\* Packet: a legacy reader refuses a packet without bytes that it has read.
Refuses(r, b) == r.legacy /\ b.type = "packet" /\ b.caplen = 0

\* The time of a packet: a legacy file header scales fractions of a second, an
\* interface has ticks to the second and an offset (convertTime).
TsFromHeader(f, r, b) == b.time[1] * Second + b.time[2] * f[r.header].factor
convertTime(iface, ts) ==
  LET scaleUp == IF iface.mask < Second THEN Second \div iface.mask ELSE 1
      scaleDown == IF iface.mask < Second THEN 1 ELSE iface.mask \div Second IN
  (ts \div iface.mask + iface.offset) * Second + (ts % iface.mask * scaleUp) \div scaleDown
PacketTs(f, r, b) ==
  IF r.legacy THEN TsFromHeader(f, r, b)
  ELSE convertTime(r.ifaces[b.ifno + 1], b.time[1] * Word + b.time[2])

-----------------------------------------------------------------------------
(***************************************************************************)
(* pkg/ranger: an Envelope is a sequence of bins, each with the offset X   *)
(* where it starts and the range of the times of its packets.              *)
(***************************************************************************)
Bin(x, y0, y1) == [X |-> x, Y0 |-> y0, Y1 |-> y1]
Overlaps(a0, a1, b0, b1) == IF a0 <= b0 THEN a1 >= b0 ELSE b1 >= a0

RECURSIVE strideSize(_, _)
strideSize(n, nbin) == IF n > nbin THEN 2 * strideSize(n \div 2, nbin) ELSE 1

\* Groups of a stride of bins, each squashed into one (rangeOf, rangeOfBins).
SquashLast(bins) == [Last(bins) EXCEPT !.X = bins[1].X]
Squash(bins) == Bin(bins[1].X, Min({b.Y0 : b \in ToSet(bins)}), Max({b.Y1 : b \in ToSet(bins)}))
Strides(bins, nbin) ==
  LET n == Len(bins)
      stride == strideSize(n, nbin) IN
  [k \in 1..((n + stride - 1) \div stride) |-> Squash(SubSeq(bins, (k - 1) * stride + 1, Min({k * stride, n})))]

NewEnvelope(points) == Strides([j \in DOMAIN points |-> Bin(points[j].X, points[j].Y, points[j].Y)], Bins)

\* combiner.next, until both envelopes are empty.
RECURSIVE Combine(_, _)
Combine(e, u) ==
  IF e = <<>> \/ u = <<>> THEN e \o u
  ELSE IF u[1].X < e[1].X THEN <<u[1]>> \o Combine(e, Tail(u))
  ELSE <<e[1]>> \o Combine(Tail(e), u)

Merge(e, u) == Strides(Combine(e, u), Max({Len(e), Len(u)}))

\* From the first bin that overlaps to the bin after the last one that does.
FirstDomain(e, y0, y1) ==
  LET Step(d, bin) ==
        IF d.x1 = 0 /\ Overlaps(y0, y1, bin.Y0, bin.Y1)
          THEN [d EXCEPT !.x0 = IF d.first THEN bin.X ELSE @, !.first = FALSE, !.next = TRUE]
        ELSE IF d.next THEN [d EXCEPT !.x1 = bin.X, !.next = FALSE]
        ELSE d
      d == FoldLeft(Step, [x0 |-> 0, x1 |-> 0, first |-> TRUE, next |-> FALSE], e)
  IN  <<d.x0, IF d.next THEN MaxOffset ELSE d.x1>>
FindSmallestDomain(e, y0, y1) ==
  LET Step(d, bin) ==
        IF Overlaps(y0, y1, bin.Y0, bin.Y1)
          THEN [d EXCEPT !.x0 = IF d.first THEN bin.X ELSE @, !.first = FALSE, !.next = TRUE]
        ELSE IF d.next THEN [d EXCEPT !.x1 = bin.X, !.next = FALSE]
        ELSE d
      d == FoldLeft(Step, [x0 |-> 0, x1 |-> 0, first |-> TRUE, next |-> FALSE], e)
  IN  <<d.x0, IF d.next THEN MaxOffset ELSE d.x1>>

-----------------------------------------------------------------------------
(***************************************************************************)
(* pcap.CreateIndexWithWarnings.                                           *)
(***************************************************************************)
NoSection == [blocks |-> <<>>, env |-> <<>>]
Condense(c) == [c EXCEPT !.section.env = Merge(NewEnvelope(c.offsets), @), !.offsets = <<>>]

\* The section read so far joins the index; any says whether offsets is nil.
EndSection(c) ==
  LET d == IF c.any THEN Condense(c) ELSE c IN
  [d EXCEPT !.index = IF d.section = NoSection THEN @ ELSE Append(@, d.section)]

IndexPacket(f, c, off, t) ==
  LET d == [c EXCEPT !.offsets = Append(@, [X |-> off, Y |-> PacketTs(f, t.r, f[t.block])]), !.any = TRUE] IN
  IF Len(d.offsets) > OffsetThresh THEN Condense(d) ELSE d

IndexBlock(f, c, off, t) ==
  LET slice == Slice(off, f[t.block].len) IN
  CASE f[t.block].type = "packet" -> IndexPacket(f, c, off, t)
    [] f[t.block].type = "interface" -> [c EXCEPT !.section.blocks = Append(@, slice)]
    [] OTHER -> [EndSection(c) EXCEPT !.section = [NoSection EXCEPT !.blocks = <<slice>>], !.offsets = <<>>]

RECURSIVE IndexFrom(_, _, _)
IndexNext(f, r, c, t) ==
  IF t.err # "none" THEN [index |-> <<>>, err |-> t.err]
  ELSE IF t.block # 0 /\ Refuses(t.r, f[t.block]) THEN [index |-> <<>>, err |-> "invalid"]
  ELSE IF t.block # 0 THEN IndexFrom(f, t.r, IndexBlock(f, c, r.offset, t))
  ELSE LET d == IF c.any THEN EndSection(c) ELSE c IN
       [index |-> d.index, err |-> IF d.index = <<>> THEN "notfound" ELSE "none"]
IndexFrom(f, r, c) == IndexNext(f, r, c, Read(f, r))

IndexWith(f, t) ==
  IF t.err # "none" THEN [index |-> <<>>, err |-> t.err]
  ELSE IndexFrom(f, t.r, [section |-> NoSection, offsets |-> <<>>, any |-> FALSE, index |-> <<>>])
CreateIndex(f) == IndexWith(f, NewReader(f, Bytes(f, AllOf(f))))

\* Index.Span: the union of the bins' spans, a span that starts at zero being
\* taken for none.
IndexSpan(index) ==
  LET Step(span, bin) ==
        IF span[1] = 0 THEN <<bin.Y0, bin.Y1>>
        ELSE <<Min({span[1], bin.Y0}), Max({span[2], bin.Y1})>>
  IN  FoldLeft(Step, <<0, 0>>, FlattenSeq([j \in DOMAIN index |-> index[j].env]))

-----------------------------------------------------------------------------
(***************************************************************************)
(* pcap.GenerateSlices and pcap.Search.                                    *)
(***************************************************************************)
SectionSlices(section, span) ==
  LET d == FindSmallestDomain(section.env, span[1], span[2]) IN
  IF d[1] = d[2] THEN <<>> ELSE section.blocks \o <<Slice(d[1], d[2] - d[1])>>
GenerateSlices(index, span) == FlattenSeq([j \in DOMAIN index |-> SectionSlices(index[j], span)])

ContainsClosed(span, ts) == span[1] <= ts /\ ts <= span[2]

\* The filters of tcp and udp compare sockets, that of icmp addresses; a flow
\* goes both ways.
Ends(flow) == IF flow.proto = "icmp" THEN <<flow.src[1], flow.dst[1]>> ELSE <<flow.src, flow.dst>>
OneWay(b, req) == b.proto = req.proto /\ Ends(b) = Ends(req)
MatchFlow(b, req) == b.proto = req.proto /\ Ends(b) \in {Ends(req), Reverse(Ends(req))}

\* SearchReader.fill: read on until a packet matches.  A section header drops
\* what was kept of the section before, the blocks kept go out with the packet.
RECURSIVE fill(_, _, _, _)
FillNext(f, t, buf, req) ==
  IF t.block = 0 THEN [out |-> <<>>, err |-> t.err, r |-> t.r]
  ELSE IF Refuses(t.r, f[t.block]) THEN [out |-> <<>>, err |-> "invalid", r |-> t.r]
  ELSE LET b == f[t.block] IN
       CASE b.type \in {"section", "header"} -> fill(f, t.r, <<t.block>>, req)
         [] b.type = "interface" -> fill(f, t.r, Append(buf, t.block), req)
         [] OTHER -> IF ContainsClosed(req.span, PacketTs(f, t.r, b)) /\ MatchFlow(b, req)
                       THEN [out |-> Append(buf, t.block), err |-> "none", r |-> t.r]
                       ELSE fill(f, t.r, buf, req)
fill(f, r, buf, req) == FillNext(f, Read(f, r), buf, req)

\* Packets a capture has for a request, with their times, read from its start
\* up to one the reader refuses.
RECURSIVE Packets(_, _)
Packets(f, t) ==
  IF t.block = 0 \/ Refuses(t.r, f[Max({t.block, 1})]) THEN <<>>
  ELSE (IF f[t.block].type = "packet" THEN <<[id |-> t.block, ts |-> PacketTs(f, t.r, f[t.block])]>> ELSE <<>>)
       \o Packets(f, Read(f, t.r))
PacketsFrom(f, t) == IF t.err # "none" THEN <<>> ELSE Packets(f, Read(f, t.r))
PacketsIn(f, is) == PacketsFrom(f, NewReader(f, Bytes(f, is)))
Wanted(f, n, req) ==
  SelectSeq(PacketsIn(f, [i \in 1..n |-> i]),
            LAMBDA pkt : ContainsClosed(req.span, pkt.ts) /\ MatchFlow(f[pkt.id], req))

-----------------------------------------------------------------------------
NoMeta == [n |-> 0, index |-> <<>>, span |-> <<0, 0>>]
NoSearch == [status |-> "none"]

Init ==
  /\ file = <<>>
  /\ store = NoMeta
  /\ failed = 0
  /\ search = NoSearch

\* A capture tool writes a block it may write, whoever indexes or searches the
\* file: a legacy file has a header and packets, a pcap-ng file sections whose
\* packets name an interface described before them.
\* What is written between the end of a search and its Close is written after it
\* here: that search reads no more.
Interfaces(f) ==
  LET start == Max({0} \cup {i \in DOMAIN f : f[i].type = "section"}) IN
  Cardinality({i \in DOMAIN f : i > start /\ f[i].type = "interface"})
MayFollow(f, b) ==
  IF f = <<>> THEN b.type \in {"header", "section"}
  ELSE IF f[1].type = "header" THEN b.type = "packet"
  ELSE /\ b.type # "header"
       /\ b.type = "packet" => b.ifno < Interfaces(f)
       /\ b.type = "statistics" => Interfaces(f) > 0

Capture(b) ==
  /\ Len(file) < MaxBlocks
  /\ search = NoSearch \/ (search.status = "reading" /\ Len(file) < search.n + MaxAhead)
  /\ MayFollow(file, b)
  /\ \A l \in Limits : b \in l.blocks => Cardinality({i \in DOMAIN file : file[i] \in l.blocks}) < l.most
  /\ file' = Append(file, b)
  /\ UNCHANGED <<store, failed, search>>

\* Store.Update: the index and the span replace the old ones, or an error
\* leaves them.
SetMeta(c) ==
  /\ failed' = IF c.err # "none" THEN Len(file) ELSE 0
  /\ store' = IF c.err # "none" THEN store
              ELSE [n |-> Len(file), index |-> c.index, span |-> IndexSpan(c.index)]
Update ==
  /\ file # <<>> /\ store.n # Len(file)
  /\ SetMeta(CreateIndex(file))
  /\ UNCHANGED <<file, search>>

\* A fill, and what the reader has given the client with it.
Given(w, s) ==
  [s EXCEPT !.status = IF w.err # "none" THEN "failed" ELSE IF w.out # <<>> THEN "reading"
                       ELSE IF s.out = <<>> THEN "notfound" ELSE "done",
            !.out = @ \o w.out,
            !.r = w.r]
Filled(f, s) == Given(fill(f, s.r, <<>>, s.req), s)

\* Store.NewSearch: the slices of the span, a reader over them and its first
\* fill, which finds a packet or reports that there is none.
Cut(f, slices) == Sliced(Bytes(f, AllOf(f)), slices)
Started(t, req, slices) ==
  LET s == [status |-> "failed", out |-> <<>>, req |-> req, n |-> store.n, slices |-> slices, r |-> t.r] IN
  IF t.err # "none" THEN s ELSE Filled(file, s)
NewSearch(asked) ==
  LET req == [asked EXCEPT !.span = <<@[1], @[2] + Fudge>>]
      slices == GenerateSlices(store.index, req.span) IN
  /\ store # NoMeta
  /\ search = NoSearch
  /\ search' = Started(NewReader(file, Cut(file, slices)), req, slices)
  /\ UNCHANGED <<file, store, failed>>

\* SearchReader.Read once the window is empty: the slices are read from the file
\* as it is now.
SearchRead ==
  /\ search.status = "reading"
  /\ search' = Filled(file, [search EXCEPT !.r.p.bytes = Cut(file, search.slices)])
  /\ UNCHANGED <<file, store, failed>>

\* Search.Close, at the end or before it.
CloseSearch ==
  /\ search # NoSearch
  /\ search' = NoSearch
  /\ UNCHANGED <<file, store, failed>>

Next ==
  \/ \E b \in Blocks : Capture(b)
  \/ Update
  \/ \E req \in Requests : NewSearch(req)
  \/ SearchRead \/ CloseSearch

Spec == Init /\ [][Next]_vars

-----------------------------------------------------------------------------
\* The type invariant of a store and its search.
TypeOK ==
  /\ file \in Seq(Blocks) /\ Len(file) <= MaxBlocks
  /\ store.n \in 0..Len(file)
  /\ \A section \in ToSet(store.index) :
       /\ section.blocks # <<>>
       /\ \A bin \in ToSet(section.env) : bin.X \in Nat /\ bin.Y0 <= bin.Y1
  /\ failed \in 0..Len(file)
  /\ search.status \in {"none", "reading", "done", "notfound", "failed"}

\* A header or an interface that directly follows statistics: CreateIndex notes
\* the offset of the statistics for it.
BehindStatistics(f) ==
  \E i \in DOMAIN f : i > 1 /\ f[i - 1].type = "statistics" /\ f[i].type \in {"section", "interface"}

Offset(f, i) == Len(Bytes(f, [j \in 1..i - 1 |-> j]))
\* A legacy capture that can end where a reader's buffer does: PcapReader.Read
\* takes an end it has not been told of for a truncated packet.
MayFillBuffer(f) == f[1].type = "header" /\ Offset(f, Len(f) + 1) >= BufferSize

\* The bin a packet belongs to: the last that starts at or before it, in the
\* section that began last before it.
Owner(f, pkt) ==
  LET at == Offset(f, pkt.id)
      begun == {j \in DOMAIN store.index : store.index[j].blocks[1].offset <= at}
      env == store.index[Max(begun)].env
  IN  env[Max({k \in DOMAIN env : env[k].X <= at})]

\* However often the offsets were condensed and the envelopes merged, every
\* packet of the capture has its time in the range of the bin it belongs to,
\* and the store's span covers it ("performs correctly for any data order",
\* envelope.go:10).
IndexCovers ==
  \A pkt \in ToSet(PacketsIn(file, [i \in 1..store.n |-> i])) :
    /\ ContainsClosed(store.span, pkt.ts)
    /\ LET bin == Owner(file, pkt) IN bin.Y0 <= pkt.ts /\ pkt.ts <= bin.Y1

\* A block the reader refuses: a legacy packet without bytes or longer than the
\* snap length, and any block that does not fit the largest buffer.
Refused(f, i) ==
  \/ f[i].len > BufferLimit
  \/ f[1].type = "header" /\ f[i].type = "packet" /\ (f[i].caplen = 0 \/ OverSnaplen(f[1], f[i]))

\* What a search has given its client at its end is a capture that reads back to
\* the packets asked for, in order, once and with the times they had: all of
\* those that were indexed ("all packets that fall within the time range will be
\* produced", slicer.go:22) and none that does not match, though the sections,
\* interfaces and their clocks are copied from several slices and the capture
\* has grown since, or grows while they are read.  A search that reports no
\* packets had none; one that fails had none either, or gave all of them and then
\* met a block the reader refuses, written after the capture was indexed.
IsStrictlyOrdered(found) == \A i, j \in DOMAIN found : i < j => found[i].id < found[j].id
Exact(s) ==
  LET found == PacketsIn(file, s.out)
      indexed == ToSet(Wanted(file, s.n, s.req)) IN
  s.status # "reading" =>
    /\ indexed \subseteq ToSet(found)
    /\ IsStrictlyOrdered(found)
    /\ ToSet(found) \subseteq ToSet(Wanted(file, Len(file), s.req))
    /\ s.status = "failed" => found = <<>> \/ \E i \in s.n + 1..Len(file) : Refused(file, i)
SearchExact ==
  search = NoSearch \/ BehindStatistics(SubSeq(file, 1, search.n)) \/ MayFillBuffer(file) \/ Exact(search)

\* The same without the exceptions.
SearchAlwaysExact == search = NoSearch \/ Exact(search)

\* A capture with packets can be indexed, one in which statistics, empty sections
\* and interfaces come in any order and one that ends with the reader's buffer
\* included, except a legacy one in that case and one with a block the reader
\* refuses.
IndexSucceeds ==
  failed # 0 =>
    \/ MayFillBuffer(SubSeq(file, 1, failed))
    \/ \E i \in 1..failed : Refused(file, i)
    \/ \A i \in 1..failed : file[i].type # "packet"

\* Every capture with packets gets an index, and it covers each of them.
IndexSound == TypeOK /\ IndexCovers /\ IndexSucceeds
=============================================================================
