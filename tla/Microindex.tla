----------------------------- MODULE Microindex -----------------------------
(***************************************************************************)
(* Indexes of an archive (src/microindex, src/archive/indexer.go and       *)
(* finder.go): a run of the indexer writes one microindex per chunk, a     *)
(* constant B-tree over the sorted keys of the chunk, while a search walks *)
(* the chunks and looks its key up in each.                                *)
(*                                                                         *)
(* A layer of the tree is a sequence of records.  A position in it counts  *)
(* records, where the code counts bytes; the end-of-stream marks between   *)
(* frames take no room.  A key is a tuple of column values, Null the unset *)
(* one.  An index file is rewritten in place: it is truncated when its     *)
(* writer opens it and can be read again when its trailer is there.        *)
(***************************************************************************)
EXTENDS Integers, Sequences, FiniteSets, TLC

CONSTANTS
  NChunks,       \* chunks of the archive, walked in the order 1..NChunks
  Contents,      \* what the chunks may hold: functions from 1..NChunks to sets of pairs
  Columns,       \* values a search may ask for
  Thresholds,    \* frame thresholds of rules
  MaxLevels,     \* layers that an index may not reach
  MaxRuns,       \* bound on the runs of the indexer
  MaxFailures    \* bound on the records that cannot be indexed

Null == 0
Chunks == 1..NChunks

ASSUME MicroindexAssumption ==
  /\ Contents \subseteq [Chunks -> SUBSET (Nat \X Nat)]
  /\ \A f \in Contents, c \in Chunks : IsFiniteSet(f[c])
  /\ Columns \subseteq Nat \ {Null}
  /\ Thresholds \subseteq Nat \ {0}
  /\ {NChunks, MaxLevels} \subseteq Nat \ {0}
  /\ {MaxRuns, MaxFailures} \subseteq Nat

VARIABLES
  content,     \* the keys of the records of a chunk
  rule,        \* the rule that is indexed: "field", or "zql" with two key columns
  thresh,      \* its framesize
  files,       \* index file of a chunk: state, the sections its trailer names, writes so far
  indexer,     \* chunk that the run is at, the keys it has left and the layers of its writer
  runs, failures,
  find         \* the search: query, SkipMissing, the chunk it is at and the file opened there, hits,
               \* chunks that it searched without their index being rewritten, and its result

vars == <<content, rule, thresh, files, indexer, runs, failures, find>>

NoFrameKey == <<>>
NoFile == [state |-> "none", sections |-> <<>>, written |-> 0]
Idle == [chunk |-> 0, open |-> FALSE, todo |-> <<>>, layers |-> <<>>]
NoFind == [query |-> <<>>, skip |-> FALSE, chunk |-> 0, opened |-> FALSE, sections |-> <<>>, at |-> 0,
           hits |-> {}, searched |-> {}, result |-> "none"]
Building(f) == f.state = "building"

-----------------------------------------------------------------------------
(* Order of keys *)

\* NewCompareFn with nullsMax, as the rule's sort uses it
CompareColumn(a, b) == IF a = b THEN 0 ELSE IF a = Null \/ (b # Null /\ a > b) THEN 1 ELSE -1
FirstDiff(a, b) == {i \in DOMAIN a : CompareColumn(a[i], b[i]) # 0 /\ \A j \in 1..(i-1) : CompareColumn(a[j], b[j]) = 0}
SortsBefore(a, b) == \E i \in FirstDiff(a, b) : CompareColumn(a[i], b[i]) < 0

\* NewKeyCompareFn: a record against a query, whose missing columns do not matter
KeyCompare(rec, query) ==
  LET differs(i) == rec.key[i] # query[i]
  IN  IF \A i \in DOMAIN query : ~differs(i) THEN 0
      ELSE LET i == CHOOSE n \in DOMAIN query : differs(n) /\ \A j \in 1..(n-1) : ~differs(j)
           IN  IF rec.key[i] # Null /\ rec.key[i] > query[i] THEN 1 ELSE -1

\* what the rule's proc gives to the index writer: fieldCutter drops unset values,
\* the group-by makes keys unique and the sort orders them
RuleKeys(c) == IF rule = "field" THEN {<<k[1]>> : k \in {x \in content[c] : x[1] # Null}} ELSE content[c]
IndexKeys(c) ==
  LET keys == RuleKeys(c)
      rank(k) == Cardinality({x \in keys : SortsBefore(x, k)})
  IN  [i \in 1..Cardinality(keys) |-> CHOOSE k \in keys : rank(k) = i - 1]

-----------------------------------------------------------------------------
(* Writer *)

NewLayer == [recs |-> <<>>, frameStart |-> 0, frameEnd |-> thresh, frameKey |-> NoFrameKey]
Position(layer) == Len(layer.recs)

\* whether a record written to the layer finds the frame full
FrameFull(layer) == Position(layer) >= layer.frameEnd /\ layer.frameKey # NoFrameKey

\* the layers that writing one record to the base writes to: a full frame
\* puts its key into the parent, which may fill the parent's frame in turn
Reached(layers) == {k \in 1..(Len(layers) + 1) : \A j \in 1..(k-1) : FrameFull(layers[j])}
TooManyLevels(layers) == Len(layers) + 1 \in Reached(layers) /\ Len(layers) + 1 >= MaxLevels

\* the record of the parent for a frame
IndexRecord_NextFrame(layer) == [key |-> layer.frameKey, child |-> Position(layer)]
IndexRecord(layer) == [key |-> layer.frameKey, child |-> layer.frameStart]

CloseFrame(layer) == [layer EXCEPT !.frameStart = Position(layer), !.frameKey = NoFrameKey]
EndFrame(layer) == IF FrameFull(layer) THEN [CloseFrame(layer) EXCEPT !.frameEnd = Position(layer) + thresh] ELSE layer

WriteLayer(layer, rec) ==
  LET l == EndFrame(layer)
  IN  [l EXCEPT !.recs = Append(@, rec), !.frameKey = IF @ = NoFrameKey THEN rec.key ELSE @]

Write(layers, key) ==
  [k \in 1..Len(layers) \cup Reached(layers) |->
     LET rec == IF k = 1 THEN [key |-> key, child |-> 0] ELSE IndexRecord(layers[k-1])
     IN  IF k \in Reached(layers) THEN WriteLayer(IF k > Len(layers) THEN NewLayer ELSE layers[k], rec)
         ELSE layers[k]]

\* sections of the file, the base first and then the layers from the root down
FinalSections(layers) ==
  [k \in 1..Len(layers) |-> layers[IF k = 1 THEN 1 ELSE Len(layers) + 2 - k].recs]

-----------------------------------------------------------------------------
(* Finder *)

NotFound == -1

\* lookup: the position of the record found, 0 for none
Lookup1(recs, query, exact) ==
  LET stops == {i \in DOMAIN recs : KeyCompare(recs[i], query) >= 0}
      first == CHOOSE i \in stops : \A j \in stops : i <= j
  IN  IF stops = {} THEN (IF exact THEN 0 ELSE Len(recs))
      ELSE IF KeyCompare(recs[first], query) = 0 THEN first
      ELSE IF exact THEN 0 ELSE first - 1

SectionFrom(section, off) == SubSeq(section, off + 1, Len(section))

\* where a lookup that starts at the position at of a section goes on below it
Descend(section, at, query) ==
  LET recs == SectionFrom(section, at)
      i == Lookup1(recs, query, FALSE)
  IN  IF at = NotFound \/ i = 0 THEN NotFound ELSE recs[i].child

\* Finder.search: where to read the base from, NotFound for ErrNotFound
Search(sections, query) ==
  LET off[k \in 1..Len(sections)] ==
        IF k = 1 THEN 0 ELSE Descend(sections[k], off[k-1], query)
  IN  off[Len(sections)]

\* Finder.Lookup and LookupClosest: the record found, as a set
Found(recs, i) == IF i = 0 THEN {} ELSE {recs[i].key}
LookupIn(sections, query, exact) ==
  IF sections = <<>> \/ Search(sections, query) = NotFound THEN {}
  ELSE LET recs == SectionFrom(sections[1], Search(sections, query))
       IN  Found(recs, Lookup1(recs, query, exact))

\* Finder.LookupAll over the records that can be read from the base
HitsIn(recs, query) ==
  {recs[i].key : i \in {n \in DOMAIN recs :
      KeyCompare(recs[n], query) = 0 /\ \A j \in 1..n : KeyCompare(recs[j], query) <= 0}}
LookupAll(sections, query) ==
  IF sections = <<>> THEN [err |-> FALSE, hits |-> {}]
  ELSE IF Search(sections, query) = NotFound THEN [err |-> TRUE, hits |-> {}]
  ELSE [err |-> FALSE, hits |-> HitsIn(SectionFrom(sections[1], Search(sections, query)), query)]

-----------------------------------------------------------------------------
(* Indexer: IndexDirTree runs the rule over chunk after chunk *)

Init ==
  /\ content \in Contents
  /\ rule \in {"field", "zql"}
  /\ thresh \in Thresholds
  /\ files = [c \in Chunks |-> NoFile]
  /\ indexer = Idle /\ runs = 0 /\ failures = 0
  /\ find = NoFind

StartRun ==
  /\ indexer = Idle /\ runs < MaxRuns
  /\ runs' = runs + 1
  /\ indexer' = [Idle EXCEPT !.chunk = 1]
  /\ UNCHANGED <<content, rule, thresh, files, failures, find>>

\* NewFlowgraphIndexer: opening the index for writing truncates it
OpenWriter ==
  LET c == indexer.chunk
  IN  /\ indexer # Idle /\ ~indexer.open
      /\ indexer' = [indexer EXCEPT !.open = TRUE, !.todo = IndexKeys(c)]
      /\ files' = [files EXCEPT ![c] = [state |-> "building", sections |-> <<>>, written |-> @.written + 1]]
      /\ UNCHANGED <<content, rule, thresh, runs, failures, find>>

\* Writer.Abort removes the file, and the error ends the run
AbortIndex ==
  /\ files' = [files EXCEPT ![indexer.chunk].state = "none"]
  /\ indexer' = Idle

WriteRecord ==
  /\ indexer.open /\ indexer.todo # <<>>
  /\ IF TooManyLevels(indexer.layers) THEN AbortIndex
     ELSE /\ indexer' = [indexer EXCEPT !.todo = Tail(@), !.layers = Write(@, Head(indexer.todo))]
          /\ UNCHANGED files
  /\ UNCHANGED <<content, rule, thresh, runs, failures, find>>

\* the type of the key changes, or the run is cancelled
WriteFails ==
  /\ indexer.open /\ failures < MaxFailures
  /\ failures' = failures + 1
  /\ AbortIndex
  /\ UNCHANGED <<content, rule, thresh, runs, find>>

CloseWriter ==
  LET c == indexer.chunk
  IN  /\ indexer.open /\ indexer.todo = <<>>
      /\ files' = [files EXCEPT ![c].state = "built", ![c].sections = FinalSections(indexer.layers)]
      /\ indexer' = IF c = NChunks THEN Idle ELSE [Idle EXCEPT !.chunk = c + 1]
      /\ UNCHANGED <<content, rule, thresh, runs, failures, find>>

-----------------------------------------------------------------------------
(* Find: chunk after chunk, a finder is opened and looks the query up *)

Queries == IF rule = "field" THEN {<<a>> : a \in Columns} ELSE {<<a>> : a \in Columns} \cup (Columns \X Columns)

StartFind(query, skip) ==
  /\ find = NoFind
  /\ find' = [NoFind EXCEPT !.query = query, !.skip = skip, !.chunk = 1, !.result = "running"]
  /\ UNCHANGED <<content, rule, thresh, files, indexer, runs, failures>>

\* the walk goes on to the next chunk, or ends
NextChunk(f) == IF f.chunk = NChunks THEN [f EXCEPT !.result = "ok", !.opened = FALSE]
                ELSE [f EXCEPT !.chunk = @ + 1, !.opened = FALSE]

OpenFinder_UnfinishedIsEmpty ==
  LET file == files[find.chunk]
  IN  /\ find.result = "running" /\ ~find.opened
      /\ find' = IF file.state = "none" THEN [find EXCEPT !.result = "missing"]
                 ELSE [find EXCEPT !.opened = TRUE, !.at = file.written, !.sections = file.sections]
      /\ UNCHANGED <<content, rule, thresh, files, indexer, runs, failures>>

\* NewFinder reads the trailer; a file that is being written has none
OpenFinder ==
  LET file == files[find.chunk]
  IN  /\ find.result = "running" /\ ~find.opened
      /\ find' = CASE file.state = "built" -> [find EXCEPT !.opened = TRUE, !.at = file.written, !.sections = file.sections]
                   [] file.state = "building" -> [find EXCEPT !.result = "unreadable"]
                   [] file.state = "none" /\ find.skip -> NextChunk(find)
                   [] OTHER -> [find EXCEPT !.result = "missing"]
      /\ UNCHANGED <<content, rule, thresh, files, indexer, runs, failures>>

Hits(keys) == {<<find.chunk, k>> : k \in keys}
Answer(r, whole) ==
  LET f == [find EXCEPT !.hits = @ \cup Hits(r.hits),
                        !.searched = IF whole THEN @ \cup {find.chunk} ELSE @]
  IN  IF r.err THEN [f EXCEPT !.result = "notfound"] ELSE NextChunk(f)

\* how much of the base can be read of a file that was truncated after it was opened
Readable(c) ==
  IF Building(files[c]) THEN 0..(IF indexer.layers = <<>> THEN 0 ELSE Len(indexer.layers[1].recs))
  ELSE 0..Len(find.sections[1])

LookupFinder ==
  LET c == find.chunk
      n == Len(find.sections)
      same == files[c].state = "built"
  IN  /\ find.result = "running" /\ find.opened
      /\ \/ /\ same \/ n = 0
            /\ find' = Answer(LookupAll(find.sections, find.query), find.at = files[c].written)
         \/ /\ ~same /\ n > 1   \* its index sections are past the end
            /\ find' = Answer([err |-> TRUE, hits |-> {}], FALSE)
         \/ /\ ~same /\ n = 1
            /\ \E m \in Readable(c) :
                 find' = Answer([err |-> FALSE, hits |-> HitsIn(SubSeq(find.sections[1], 1, m), find.query)], FALSE)
         \/ /\ ~same /\ n = 1   \* what is read ends within a record
            /\ find' = [find EXCEPT !.result = "unreadable"]
      /\ UNCHANGED <<content, rule, thresh, files, indexer, runs, failures>>

Next ==
  \/ StartRun \/ OpenWriter \/ WriteRecord \/ WriteFails \/ CloseWriter
  \/ \E query \in Queries, skip \in BOOLEAN : StartFind(query, skip)
  \/ OpenFinder \/ LookupFinder

Spec == Init /\ [][Next]_vars

-----------------------------------------------------------------------------
(* Properties *)

TypeOK ==
  /\ content \in Contents /\ thresh \in Thresholds
  /\ \A c \in Chunks : files[c].state \in {"none", "building", "built"}
  /\ indexer.chunk \in 0..NChunks /\ Len(indexer.layers) < MaxLevels
  /\ find.result \in {"none", "running", "ok", "missing", "unreadable", "notfound"}

Width == IF rule = "field" THEN 1 ELSE 2
FullQueries == {q \in Queries : Len(q) = Width}
Matches(c, query) == {k \in RuleKeys(c) : \A i \in DOMAIN query : k[i] = query[i]}
Built(c) == files[c].state = "built"

\* The records of the layers above the base.  The sort puts a key with an unset column
\* last, a comparison with a query puts it first: above the base it misleads the descent
Parents(sections) == UNION {{sections[n][i] : i \in DOMAIN sections[n]} : n \in 2..Len(sections)}
Unset(key) == \E i \in DOMAIN key : key[i] = Null
UnsetAbove(sections) == \E r \in Parents(sections) : Unset(r.key)

\* Finder.Lookup finds a key exactly when it was indexed, through however many
\* layers and although the last frame of a layer is never entered in its parent
LookupExact ==
  \A c \in Chunks, q \in Queries :
    Built(c) /\ q \in FullQueries /\ ~UnsetAbove(files[c].sections) =>
      LookupIn(files[c].sections, q, TRUE) = Matches(c, q)

\* Finder.LookupClosest finds the largest key that is not above the query, as long
\* as no key has an unset column
ClosestExact ==
  \A c \in Chunks, q \in Queries :
    Built(c) /\ q \in FullQueries /\ (\A k \in RuleKeys(c) : ~Unset(k)) =>
      LET below == {k \in RuleKeys(c) : k = q \/ SortsBefore(k, q)}
      IN  LookupIn(files[c].sections, q, FALSE) = {k \in below : \A j \in below : j = k \/ SortsBefore(j, k)}

\* LookupAll with leading columns only: what it finds matches, it finds something when
\* something matches, and everything unless a frame begins within the matching records
PartialLookup ==
  \A c \in Chunks, q \in Queries : Built(c) =>
    LET hits == LookupAll(files[c].sections, q).hits
    IN  /\ hits \subseteq Matches(c, q)
        /\ ~UnsetAbove(files[c].sections) =>
             /\ hits = {} => Matches(c, q) = {}
             /\ (\A r \in Parents(files[c].sections) : KeyCompare(r, q) # 0) => hits = Matches(c, q)

\* Whatever is asked of a built index, it answers what a scan of the chunk would
\* (Finder.Lookup, LookupClosest, LookupAll)
LookupsExact == TypeOK /\ LookupExact /\ ClosestExact /\ PartialLookup

\* A search only returns rows of the key it was asked for, and one that succeeds has
\* every row of a whole key, of each chunk with an index and not reindexed meanwhile, as
\* long as no key of the chunk has an unset column
RowsFound(c) == {h \in find.hits : h[1] = c} = {<<c, k>> : k \in Matches(c, find.query)}
FindExact ==
  /\ \A h \in find.hits : h[2] \in Matches(h[1], find.query)
  /\ find.result = "ok" => find.skip \/ \A c \in Chunks : c \in find.searched \/ files[c].written > 1
  /\ find.query \in FullQueries =>
       \A c \in find.searched : (\A k \in RuleKeys(c) : ~Unset(k)) => RowsFound(c)

\* "If the pattern matches, a zng.Record of that row in the index is streamed to the hits
\* channel" (archive/finder.go): a search that looked at the whole index of a chunk has
\* the row of a whole key, unset columns or not
RowsStreamed == find.query \in FullQueries => \A c \in find.searched : RowsFound(c)

\* A search only fails when an index is missing or cannot be read: "If the pattern matches,
\* a zng.Record of that row in the index is streamed to the hits channel"
FindGoesOn == find.result = "notfound" => \E c \in Chunks : files[c].written > 1

=============================================================================
