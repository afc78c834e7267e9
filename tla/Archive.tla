------------------------------ MODULE Archive ------------------------------
(***************************************************************************)
(* The archive (src/archive): an import sorts records into the chunks of   *)
(* one directory per day, spilling to temporary files when it holds too    *)
(* many, and a scan reads the chunks that a directory listing shows.       *)
(*                                                                         *)
(* A chunk is two files, its data and its time seek index, and readers see *)
(* it from the moment when both names exist.  Sizes are counted in         *)
(* records.  Every IO of an import may fail and the process may crash      *)
(* between two of them; a later import starts from what is on disk.        *)
(***************************************************************************)
EXTENDS Integers, Sequences, FiniteSets

CONSTANTS
  Records,           \* what there is to import: pairs of a timestamp and a name
  DayLength,         \* timestamps per day
  ImportBufSize,     \* records an import buffers before it spills
  LogSizeThreshold,  \* records of a day that make a chunk
  Filters,           \* spans that are scanned: pairs of the first and the last timestamp
  MaxImports,        \* bound on the imports
  MaxFailures        \* bound on the failing operations

ASSUME ArchiveAssumption ==
  /\ Records \subseteq Nat \X Nat /\ IsFiniteSet(Records)
  /\ DayLength \in Nat \ {0}
  /\ {ImportBufSize, LogSizeThreshold, MaxImports, MaxFailures} \subseteq Nat
  /\ Filters \subseteq Nat \X Nat

VARIABLES
  forward,      \* DataSortDirection: whether data is kept by ascending time
  todo,         \* records not imported yet
  given,        \* records that the current import was given
  base,         \* records that were visible when it began
  imports,      \* imports started
  failures,     \* operations that have failed
  phase,        \* of the import: copy, close, and its result ok, err or crashed
  failed,       \* whether it has met an error
  writers,      \* tsDirWriters: day -> buffered records and the runs they spilled
  memBuffered,  \* importWriter.memBuffered
  task,         \* the flush under way, or NoTask
  data,         \* data files: chunk -> day, records, and whether it is closed
  seekIndex     \* seek index files: chunk -> day, first, last and count of its name

importVars == <<todo, given, base, imports, failures, phase, failed, writers, memBuffered, task>>
vars == <<forward, importVars, data, seekIndex>>

Ts(r) == r[1]
Day(ts) == ts \div DayLength
SeqSet(s) == {s[k] : k \in DOMAIN s}

\* importCompareFn
Before(a, b) == IF forward THEN Ts(a) < Ts(b) ELSE Ts(b) < Ts(a)
\* sort.SliceStable: a record goes behind those before it, and behind its equals that came first
InFront(s, i) == {j \in DOMAIN s : Before(s[j], s[i]) \/ (~Before(s[i], s[j]) /\ j < i)}
SortStable(s) == [k \in DOMAIN s |-> s[CHOOSE i \in DOMAIN s : Cardinality(InFront(s, i)) = k - 1]]

\* spill.MergeSort.Read: the first of the heads, of equal ones that of the oldest run
Heads(runs) == {k \in DOMAIN runs : Len(runs[k]) > 0}
FirstRun(runs) ==
  CHOOSE k \in Heads(runs) : \A j \in Heads(runs) \ {k} : Before(runs[k][1], runs[j][1]) \/ (~Before(runs[j][1], runs[k][1]) /\ k < j)
Merging == [runs : Seq(Seq(Records)), out : Seq(Records)]
ReadNext[m \in Merging] ==
  LET k == FirstRun(m.runs)
  IN  [runs |-> [m.runs EXCEPT ![k] = Tail(@)], out |-> Append(m.out, m.runs[k][1])]
Places(runs) == UNION {{k} \X DOMAIN runs[k] : k \in DOMAIN runs}
Reads(runs) ==
  LET read[n \in 0..Cardinality(Places(runs))] ==
        IF n = 0 THEN [runs |-> runs, out |-> <<>>] ELSE ReadNext[read[n - 1]]
  IN  read
MergeRuns(runs) == Reads(runs)[Cardinality(Places(runs))].out

(***************************************************************************)
(* What a reader sees.                                                     *)
(***************************************************************************)
\* tsDirEntriesToChunks: the chunks of a listing
VisibleChunks == {[id |-> c, day |-> seekIndex[c].day, first |-> seekIndex[c].first, last |-> seekIndex[c].last,
                   count |-> seekIndex[c].count] : c \in DOMAIN data \cap DOMAIN seekIndex}
VisibleRecords == UNION {SeqSet(data[c.id].records) : c \in VisibleChunks}

LowTs(x, y) == IF x < y THEN x ELSE y
HighTs(x, y) == IF x < y THEN y ELSE x
\* firstLastToSpan: a span from first to last, in whatever order they are
FirstLastToSpan(x, y) == <<LowTs(x, y), HighTs(x, y)>>
Overlaps(s, t) == s[1] <= t[2] /\ t[1] <= s[2]
Intersect(s, t) == <<HighTs(s[1], t[1]), LowTs(s[2], t[2])>>
ChunkSpan(c) == FirstLastToSpan(c.first, c.last)
SameTs(ts) == ts
NextTs(ts) == IF forward THEN ts + 1 ELSE ts - 1
PrevTs(ts) == IF forward THEN ts - 1 ELSE ts + 1

\* boundaries: the first and last timestamps of the chunks, in the order of the archive
Ahead(S, x) == {y \in S : IF forward THEN y < x ELSE x < y}
InOrder(S) == [k \in 1..Cardinality(S) |-> CHOOSE x \in S : Cardinality(Ahead(S, x)) = k - 1]
Boundaries(cs) == InOrder({c.first : c \in cs} \cup {c.last : c \in cs})

\* mergeChunksToSpans: one step of it per boundary
SpanInfoFor(filter, span, cs) == IF Overlaps(filter, span) THEN <<[span |-> Intersect(filter, span), chunks |-> cs]>> ELSE <<>>
AtBoundary(acc, cs, ts, filter) ==
  LET starting == {c \in cs : c.first = ts}
      ending == {c \in cs : c.last = ts}
      before == IF starting # {} /\ acc.open # {} THEN SpanInfoFor(filter, FirstLastToSpan(acc.first, PrevTs(ts)), acc.open) ELSE <<>>
      open == acc.open \cup starting
      first == IF starting # {} THEN ts ELSE acc.first
      upTo == IF ending # {} THEN SpanInfoFor(filter, FirstLastToSpan(first, ts), open) ELSE <<>>
  IN [open |-> IF ending # {} THEN open \ ending ELSE open,
      first |-> IF ending # {} THEN NextTs(ts) ELSE first,
      infos |-> acc.infos \o before \o upTo]
NothingOpen == [open |-> {}, first |-> 0, infos |-> <<>>]
MergeChunksToSpans(cs, filter) ==
  LET bs == Boundaries(cs)
      acc[n \in 0..Len(bs)] == IF n = 0 THEN NothingOpen ELSE AtBoundary(acc[n - 1], cs, bs[n], filter)
  IN acc[Len(bs)].infos

\* combiner.Read: the reader whose head of line is taken; CmpTimeReverse holds both ways between equal timestamps
RecordCompare(a, b) == IF forward THEN Ts(a) < Ts(b) ELSE ~(Ts(a) < Ts(b))
Idx(runs) ==
  LET idx[k \in 0..Len(runs)] ==
        IF k = 0 THEN 0
        ELSE IF runs[k] # <<>> /\ (idx[k - 1] = 0 \/ RecordCompare(runs[k][1], runs[idx[k - 1]][1])) THEN k ELSE idx[k - 1]
  IN idx[Len(runs)]
CombineNext[m \in Merging] ==
  LET k == Idx(m.runs)
  IN  [runs |-> [m.runs EXCEPT ![k] = Tail(@)], out |-> Append(m.out, m.runs[k][1])]
Combined(runs) ==
  LET read[n \in 0..Cardinality(Places(runs))] ==
        IF n = 0 THEN [runs |-> runs, out |-> <<>>] ELSE CombineNext[read[n - 1]]
  IN  read
Combine(runs) == Combined(runs)[Cardinality(Places(runs))].out

\* what several readers give that are read one after the other
Concat(ss) ==
  LET acc[n \in 0..Len(ss)] == IF n = 0 THEN <<>> ELSE acc[n - 1] \o ss[n]
  IN  acc[Len(ss)]

\* newSpanScanner: the records of the span in one chunk, or in several combined
InSpan(span, s) == Concat([k \in DOMAIN s |-> IF span[1] <= Ts(s[k]) /\ Ts(s[k]) <= span[2] THEN <<s[k]>> ELSE <<>>])
SpanScan(info) ==
  LET files == {c.id : c \in info.chunks}
      order == CHOOSE s \in [1..Cardinality(files) -> files] : SeqSet(s) = files
  IN Combine([k \in DOMAIN order |-> InSpan(info.span, data[order[k]].records)])

\* tsDirVisit and spanWalk: the days of the span in the order of the archive
DaysOf(cs) == InOrder({c.day : c \in cs})
SpanWalk(filter) ==
  LET seen == {c \in VisibleChunks : Overlaps(filter, ChunkSpan(c))}
      days == DaysOf(seen)
  IN Concat([n \in DOMAIN days |-> MergeChunksToSpans({c \in seen : c.day = days[n]}, filter)])
Scan(filter) == LET infos == SpanWalk(filter) IN Concat([n \in DOMAIN infos |-> SpanScan(infos[n])])

(***************************************************************************)
(* The import.                                                             *)
(***************************************************************************)
NoTask == [stage |-> "none"]
NoWriters == [d \in {} |-> <<>>]
NewWriter == [records |-> <<>>, runs |-> <<>>]
Without(f, x) == [y \in DOMAIN f \ {x} |-> f[y]]
With(f, x, v) == [y \in DOMAIN f \cup {x} |-> IF y = x THEN v ELSE f[y]]
WriterOf(d) == IF d \in DOMAIN writers THEN writers[d] ELSE NewWriter
SpillSize(w) == Cardinality(Places(w.runs))
TotalRecordBytes(w) == Len(w.records) + SpillSize(w)
Nothing(w) == 0
BufSize(w) == Len(w.records)
MayFail == failures < MaxFailures

Init ==
  /\ forward \in BOOLEAN
  /\ todo = Records /\ given = {} /\ base = {}
  /\ imports = 0 /\ failures = 0
  /\ phase = "ok" /\ failed = FALSE
  /\ writers = NoWriters /\ memBuffered = 0 /\ task = NoTask
  /\ data = [c \in {} |-> <<>>] /\ seekIndex = [c \in {} |-> <<>>]

\* Import: a new importWriter over the archive as it is
Import ==
  /\ phase \in {"ok", "err", "crashed"} /\ imports < MaxImports /\ todo # {}
  /\ imports' = imports + 1
  /\ given' = {} /\ base' = VisibleRecords
  /\ phase' = "copy" /\ failed' = FALSE /\ memBuffered' = 0
  /\ UNCHANGED <<todo, failures, writers, task, data, seekIndex>>

\* importWriter.Write and tsDirWriter.writeOne; a full day is flushed
Write(r) ==
  LET d == Day(Ts(r))
      w == [WriterOf(d) EXCEPT !.records = Append(@, r)]
  IN /\ phase = "copy" /\ task = NoTask /\ memBuffered <= ImportBufSize
     /\ r \in todo
     /\ todo' = todo \ {r} /\ given' = given \cup {r}
     /\ writers' = With(writers, d, w)
     /\ memBuffered' = memBuffered + 1
     /\ task' = IF TotalRecordBytes(w) > LogSizeThreshold THEN [stage |-> "flush", day |-> d] ELSE NoTask
     /\ UNCHANGED <<base, imports, failures, phase, failed, data, seekIndex>>

\* tsDirWriter.spill: the records become a sorted run
SpilledAndKept(w) == [w EXCEPT !.runs = Append(w.runs, SortStable(w.records))]
Spilled(w) == IF Len(w.records) = 0 THEN w ELSE [records |-> <<>>, runs |-> Append(w.runs, SortStable(w.records))]

\* spillLargestBuffer, as long as there is too much in memory
SpillLargest(d) ==
  /\ phase = "copy" /\ task = NoTask /\ memBuffered > ImportBufSize
  /\ d \in DOMAIN writers /\ \A e \in DOMAIN writers : Len(writers[e].records) <= Len(writers[d].records)
  /\ writers' = [writers EXCEPT ![d] = Spilled(@)]
  /\ memBuffered' = memBuffered - BufSize(writers[d])
  /\ UNCHANGED <<todo, given, base, imports, failures, phase, failed, task, data, seekIndex>>

\* the error of a spill ends the copy, the records stay with the writer
SpillFails ==
  /\ phase = "copy" /\ task = NoTask /\ memBuffered > ImportBufSize /\ MayFail
  /\ failures' = failures + 1 /\ failed' = TRUE /\ phase' = "close"
  /\ UNCHANGED <<todo, given, base, imports, writers, memBuffered, task, data, seekIndex>>

\* the end of the input, or an error of its reader, of a new day's directory or of the context
EndOfInput ==
  /\ phase = "copy" /\ task = NoTask /\ memBuffered <= ImportBufSize
  /\ phase' = "close"
  /\ UNCHANGED <<todo, given, base, imports, failures, failed, writers, memBuffered, task, data, seekIndex>>
ReadFails ==
  /\ phase = "copy" /\ task = NoTask /\ memBuffered <= ImportBufSize /\ MayFail
  /\ phase' = "close" /\ failed' = TRUE /\ failures' = failures + 1
  /\ UNCHANGED <<todo, given, base, imports, writers, memBuffered, task, data, seekIndex>>

\* importWriter.close: each writer is flushed, whatever became of the others
CloseWriter(d) ==
  /\ phase = "close" /\ task = NoTask /\ d \in DOMAIN writers
  /\ task' = [stage |-> "flush", day |-> d]
  /\ UNCHANGED <<todo, given, base, imports, failures, phase, failed, writers, memBuffered, data, seekIndex>>
CloseDone ==
  /\ phase = "close" /\ task = NoTask /\ DOMAIN writers = {}
  /\ phase' = IF failed THEN "err" ELSE "ok"
  /\ UNCHANGED <<todo, given, base, imports, failures, failed, writers, memBuffered, task, data, seekIndex>>

(***************************************************************************)
(* tsDirWriter.flush and the chunkWriter.                                  *)
(***************************************************************************)
NewChunk == Cardinality(DOMAIN data) + 1

\* what is left of the writer when its flush is over: close deletes it
AfterFlush(w) == IF phase = "close" THEN Without(writers, task.day) ELSE [writers EXCEPT ![task.day] = w]
EndFlush(w, ok) ==
  /\ writers' = AfterFlush(w)
  /\ memBuffered' = memBuffered - BufSize(writers[task.day])
  /\ task' = NoTask
  /\ failed' = (failed \/ ~ok)
  /\ phase' = IF ok THEN phase ELSE "close"
  /\ failures' = IF ok THEN failures ELSE failures + 1
  /\ UNCHANGED <<todo, given, base, imports>>

\* the reader of a flush: the runs merged, after a last spill, or the sorted buffer
Unmerged(w) == IF w.runs = <<>> THEN SortStable(w.records) ELSE LET s == Spilled(w).runs IN s[1] \o MergeRuns(Tail(s))
Sorted(w) == IF w.runs = <<>> THEN SortStable(w.records) ELSE MergeRuns(Spilled(w).runs)

FlushNothing ==
  /\ task.stage = "flush" /\ TotalRecordBytes(writers[task.day]) = 0
  /\ EndFlush(NewWriter, TRUE)
  /\ UNCHANGED <<data, seekIndex>>

\* the last spill fails: the writer keeps what it has, or close drops it
LastSpillFails ==
  LET w == writers[task.day] IN
  /\ task.stage = "flush" /\ w.runs # <<>> /\ w.records # <<>> /\ MayFail
  /\ writers' = AfterFlush(w)
  /\ task' = NoTask /\ failed' = TRUE /\ phase' = "close" /\ failures' = failures + 1
  /\ UNCHANGED <<todo, given, base, imports, memBuffered, data, seekIndex>>

\* newChunkWriter: the data file is created; a spiller now belongs to the flush
FlushStart ==
  LET w == writers[task.day] IN
  /\ task.stage = "flush" /\ TotalRecordBytes(w) > 0
  /\ task' = [stage |-> "data", day |-> task.day, chunk |-> NewChunk, records |-> Sorted(w)]
  /\ data' = With(data, NewChunk, [day |-> task.day, records |-> <<>>, closed |-> FALSE])
  /\ IF w.runs = <<>> THEN UNCHANGED <<writers, memBuffered>>
     ELSE writers' = [writers EXCEPT ![task.day] = NewWriter] /\ memBuffered' = memBuffered - BufSize(w)
  /\ UNCHANGED <<todo, given, base, imports, failures, phase, failed, seekIndex>>

\* the data file cannot be created
FlushFails ==
  /\ task.stage = "flush" /\ TotalRecordBytes(writers[task.day]) > 0 /\ MayFail
  /\ EndFlush(NewWriter, FALSE)
  /\ UNCHANGED <<data, seekIndex>>

\* zbuf.CopyWithContext and chunkWriter.close up to the seek index: its name tells what the file holds
\* (firstTs is 0 as long as it is not set: a first timestamp 0 is taken for none)
FirstTs(s) ==
  LET set == {k \in DOMAIN s : Ts(s[k]) # 0}
  IN  IF set = {} THEN 0 ELSE Ts(s[CHOOSE k \in set : \A j \in set : k <= j])
NameOf(d, s) == [day |-> d, first |-> FirstTs(s), last |-> Ts(s[Len(s)]), count |-> Len(s)]
CopyChunk ==
  /\ task.stage = "data"
  /\ data' = [data EXCEPT ![task.chunk] = [@ EXCEPT !.records = task.records, !.closed = TRUE]]
  /\ task' = [task EXCEPT !.stage = "index"]
  /\ UNCHANGED <<todo, given, base, imports, failures, phase, failed, writers, memBuffered, seekIndex>>

\* chunkWriter.abort, or a close that fails: what was written of the data file stays
CopyFails ==
  /\ task.stage = "data" /\ MayFail
  /\ \E n \in 0..Len(task.records) : data' = [data EXCEPT ![task.chunk].records = SubSeq(task.records, 1, n)]
  /\ EndFlush(NewWriter, FALSE)
  /\ UNCHANGED seekIndex

\* microindex.NewWriter creates the seek index: from here on readers see the chunk
CreateIndex ==
  /\ task.stage = "index"
  /\ seekIndex' = With(seekIndex, task.chunk, NameOf(task.day, task.records))
  /\ task' = [task EXCEPT !.stage = "entries"]
  /\ UNCHANGED <<todo, given, base, imports, failures, phase, failed, writers, memBuffered, data>>
IndexFails ==
  /\ task.stage = "index" /\ MayFail
  /\ EndFlush(NewWriter, FALSE)
  /\ UNCHANGED <<data, seekIndex>>

FinishIndex ==
  /\ task.stage = "entries"
  /\ EndFlush(NewWriter, TRUE)
  /\ UNCHANGED <<data, seekIndex>>
\* Abort removes the seek index, so that the chunk disappears; a Close that fails leaves it
AbortIndex ==
  /\ task.stage = "entries" /\ MayFail
  /\ EndFlush(NewWriter, FALSE)
  /\ seekIndex' \in {seekIndex, Without(seekIndex, task.chunk)}
  /\ UNCHANGED data

Crash ==
  /\ phase \in {"copy", "close"} /\ MayFail
  /\ failures' = failures + 1
  /\ phase' = "crashed" /\ failed' = TRUE
  /\ writers' = NoWriters /\ memBuffered' = 0 /\ task' = NoTask
  /\ UNCHANGED <<todo, given, base, imports, data, seekIndex>>

Step ==
  \/ \E r \in Records : Write(r)
  \/ \E d \in DOMAIN writers : SpillLargest(d) \/ CloseWriter(d)
  \/ EndOfInput \/ CloseDone
  \/ FlushNothing \/ FlushStart \/ CopyChunk \/ CreateIndex \/ FinishIndex
Fault == SpillFails \/ ReadFails \/ LastSpillFails \/ FlushFails \/ CopyFails \/ IndexFails \/ AbortIndex \/ Crash
Next == (Import \/ Step \/ Fault) /\ UNCHANGED forward

\* An import that has begun runs on: nothing in it waits for anybody else.
Spec == Init /\ [][Next]_vars /\ WF_vars(Step /\ UNCHANGED forward)

-----------------------------------------------------------------------------
Stages == {"none", "flush", "data", "index", "entries"}

(* The types of the variables. *)
TypeOK ==
  /\ todo \subseteq Records /\ given \subseteq Records /\ base \subseteq Records
  /\ imports \in 0..MaxImports /\ failures \in 0..MaxFailures
  /\ phase \in {"copy", "close", "ok", "err", "crashed"} /\ failed \in BOOLEAN
  /\ \A d \in DOMAIN writers : SeqSet(writers[d].records) \subseteq Records /\ \A k \in DOMAIN writers[d].runs : SeqSet(writers[d].runs[k]) \subseteq Records
  /\ memBuffered \in 0..Cardinality(Records)
  /\ task.stage \in Stages
  /\ \A c \in DOMAIN data : SeqSet(data[c].records) \subseteq Records
  /\ DOMAIN seekIndex \subseteq DOMAIN data

(* importWriter.memBuffered is what the writers hold, so that the loop that
   spills ends, and it exceeds ImportBufSize by the last record at most. *)
MemoryAccounted ==
  LET held == UNION {{<<d, k>> : k \in DOMAIN writers[d].records} : d \in DOMAIN writers} IN
  phase = "copy" => memBuffered = Cardinality(held) /\ memBuffered <= ImportBufSize + 1

(* A chunk that readers see has all of its data, in the order of the
   archive and in the directory of its day, and its name tells the truth,
   whichever step of a flush failed and wherever the process crashed (but
   for a first timestamp of 0, which chunkWriter.Write takes for none). *)
VisibleIsWhole ==
  TypeOK /\ \A c \in VisibleChunks :
    LET s == data[c.id].records IN
    /\ data[c.id].closed /\ Len(s) = c.count /\ Len(s) > 0
    /\ \A k \in 1..Len(s) - 1 : ~Before(s[k + 1], s[k])
    /\ Ts(s[Len(s)]) = c.last
    /\ Ts(s[1]) = c.first \/ (forward /\ Ts(s[1]) = 0)
    /\ \A k \in DOMAIN s : Day(Ts(s[k])) = c.day

(* No record is visible twice, and an import that succeeds made everything
   visible that it was given, its memory within the limit all the while. *)
ImportedOnce ==
  /\ MemoryAccounted
  /\ \A c, e \in VisibleChunks : c # e => SeqSet(data[c.id].records) \cap SeqSet(data[e.id].records) = {}
  /\ \A c \in VisibleChunks : Cardinality(SeqSet(data[c.id].records)) = Len(data[c.id].records)
  /\ phase = "ok" => VisibleRecords = base \cup given

Asked(filter) == {r \in VisibleRecords : filter[1] <= Ts(r) /\ Ts(r) <= filter[2]}
Exact(s, filter) ==
  /\ SeqSet(s) = Asked(filter) /\ Len(s) = Cardinality(Asked(filter))
  /\ \A k \in 1..Len(s) - 1 : ~Before(s[k + 1], s[k])

\* a chunk that begins right where another one ended, while a third goes on
Abutting == \E a, b, c \in VisibleChunks :
  /\ b.first = a.last + (IF forward THEN 1 ELSE -1) /\ a.day = b.day /\ b.day = c.day
  /\ Overlaps(ChunkSpan(c), <<a.last, a.last>>) /\ Overlaps(ChunkSpan(c), <<b.first, b.first>>)

\* a chunk whose name begins too late: its first timestamp was 0
EpochMissed == \E c \in VisibleChunks : c.first # Ts(data[c.id].records[1])

(* A scan at any moment, during an import or after a failed one, gives
   every visible record of its span once, in the order of the archive,
   however the chunks overlap.  Where one chunk begins right behind another
   inside of a third, mergeChunksToSpans goes wrong (ScanAlwaysExact), and
   a record of timestamp 0 is missed that chunkWriter.Write did not count. *)
ScanExact == Abutting \/ EpochMissed \/ \A f \in Filters : Exact(Scan(f), f)

(* The same without exception, as the comments on mergeChunksToSpans and on
   SpanInfo have it. *)
ScanAlwaysExact == \A f \in Filters : Exact(Scan(f), f)

(* What readers have seen stays as it is; a chunk disappears only when its
   own seek index cannot be finished. *)
VisibleStays ==
  [][\A c \in DOMAIN seekIndex :
       \/ c \in DOMAIN seekIndex' /\ seekIndex'[c] = seekIndex[c] /\ data'[c] = data[c]
       \/ task # NoTask /\ task.stage = "entries" /\ task.chunk = c /\ failures' > failures]_vars

(* An import ends: the loop that spills makes room, and every writer is
   flushed and gone.  Nothing that readers saw before is lost on the way. *)
ImportEnds ==
  /\ VisibleStays
  /\ (phase = "copy") ~> (phase \in {"ok", "err", "crashed"})
=============================================================================
