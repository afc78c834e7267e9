# zq and zqd in TLA+

This directory holds TLA+ specifications of zq: the spaces of the `zqd` daemon and
the posts that fill them, the flow graph that answers a query, its parallel
sources, the aggregation and the transformation that splits a query over
branches, the query language, the archive and its indexes, the zng and zst
formats, and the packet capture index. TLC checks them on small instances; TLAPS
proves, for every value of the constants, the safety of the space manager, the
posts, the split and merge of a query under its driver, the parallel sources,
the aggregation, the import and scan of an archive and its indexes. `PROJECT.json` maps every definition to the lines of source it stands for, and
lists runs, mutants, findings, hazards and theorems.

    tlc -workers 2 -config MCSplitMerge.cfg MCSplitMerge # one run
    tlapm SpaceManagerProofs.tla                         # the proofs of one component

## 1. The system

### Components, state, operations

| Component | State | Operations | Hard because |
|---|---|---|---|
| Space manager (`zqd/space`) | the id and name indexes, each space's config in memory and on disk, a guard of registered operations | create, create subspace, rename, delete, list, info, and any operation that registers with a guard | three kinds of lock; a delete waits for operations; every change is several steps on disk; restart at any point |
| Handlers (`zqd/handlers.go`) | per request | look up a space, register, run, answer | one goroutine per request; panics are recovered; clients leave |
| Ingest (`zqd/ingest`) | one goroutine per post, a warning channel, the analyzers' end, snapshots | log post, pcap post | outlives its request, is cancelled by a delete, fails half way |
| File store, pcap store (`zqd/storage/filestore`, `zqd/pcapstorage`) | `all.zng`, `info.json`, `pcap.json`, a write semaphore, the span in memory | Write, Clear, Load, Update, Delete | two files that should agree; replaced one after the other |
| Driver (`driver/driver.go`, `mux.go`) | a mux goroutine per tail, a result channel, warnings, the context | MultiRun | errors, cancellation and a failing writer must all end every goroutine |
| Parallel sources (`driver/parallel.go`) | a channel of sources, an open scanner per head, statistics | Pull, Done, Stats, close on cancellation | heads race for sources; the query may stop while one is being opened |
| Compilation (`driver/compile.go`, `proc/compiler`) | the program | lift the filter, find group-bys on sorted input, split the program | each proc crosses the merge or not; ordered input, reversed input, changed sort field |
| split, merge, orderedmerge, head (`proc/...`) | request channels, batch references, counts | Pull, Done | early stops against a peer that waits |
| Group-by and reducers (`proc/groupby`, `reducer`) | a table of groups, spilled runs, the largest key seen and spilled | Consume, Results | table limit, early results, partial results composed twice |
| Record-at-a-time procs (`proc/{filter,cut,put,rename,head,tail,uniq,fuse,sort,top}`) | little | Pull | order and missing values |
| Query language (`zql`, `ast`) | none | Parse, the callbacks, UnpackJSON | ordered choice: the first alternative that matches wins, so the order of the rules is the language |
| Archive (`archive`) | day directories of chunk files with seek index and mask, an importer's writers and their memory | import, flush, scan by span, delete of a failed chunk | a chunk is several files; failure or crash between them; chunks that overlap in time |
| Microindex (`microindex`, `archive/{indexer,finder}.go`) | a file of frames per level | write, look up, look up closest, partial look up, find over chunks | off-by-one frames at every level; rebuilt while searched |
| Type context (`zng/resolver`) | types by id and by key, aliases | look up or make a type, translate, encode, decode, names, type files | two sides number types independently and must agree |
| zng format (`zio/zngio`, `filter`, `expr`) | a stream of typedefs, values, control messages and blocks | write, end stream, read, scan with a buffer filter, time index, seek | types are sent ahead of the block that needs them; blocks are skipped unread |
| zst format (`zst`) | columns, segments, presence runs | write, read, cut | columns cut independently must line up again |
| pcap (`pcap`, `pkg/{ranger,peeker,slicer}`) | an index of sections with an envelope of bins | read, index, search | bounded bins over packets in any order; blocks at the edge of a buffer |

### Interaction

A request reaches a handler, which looks its space up in the manager and
registers with the space's guard; the operation then uses the store of the space.
A post copies readers into the store with `driver.Copy`. A search compiles a
program over the store's sources: heads of a `parallelGroup` feed branches, a
merge joins them, further procs follow, and the mux hands the tails' results to
`runMux`, which calls the driver's callbacks. A delete sets the guard, cancels the
registered operations through their contexts and waits for them.

The stores of archive spaces are an archive: an import fills its chunks, an index
rule a microindex for each, a search walks the chunks of its span and hands
each group of overlapping ones to the parallel sources. All files are zng; chunk
readers start at the ends of streams that the seek index names. A search of a
space with a capture uses the pcap index to read only the slices that matter.

### What makes each part correct

- Space manager: the name index is exact; what is on disk is what is served; a
  delete never pulls a space from under a registered operation; a removed space
  does not come back; every request returns.
- Ingest and store: one writer at a time; what the client is told is what is
  stored; the span covers the data, also after a crash; an aborted post leaves
  nothing that could be removed; every post ends and frees the store.
- Flow graph: a run that succeeds has delivered everything (or what head asked
  for, no record more); it always returns.
- Split: all branches see the same stream; no batch is recycled while held.
- Parallel sources: each source is read once, in order; its statistics are
  counted once; what is open when the query stops is closed.
- Group-by: a group is sent once and only when complete; none is lost.
- Parallelization: the split program answers what the program answers.
- Language: what is written by the documentation's rules, the grammar reads back.
- Archive: a chunk that can be seen is whole; an import loses and doubles nothing;
  a scan is exact and ordered.
- Microindex: a lookup answers what a scan of the chunk would.
- Formats: what was written is read, from the start or any stream, whole, filtered
  or by time, by record or by column.
- pcap: every packet is in its bin; a search finds exactly what was asked for.

## 2. Modules

| Module | Models | Composed of |
|---|---|---|
| `SpaceManager` | `zqd/space/{manager,space,filespace,archivespace,archivesubspace,config}.go`, the space handlers | |
| `SpaceCatalog` | what the manager promises: a catalog of distinct names | `SpaceManager` instantiates it as its refinement target |
| `SpaceManagerProofs` | theorems of the manager, and that it implements the catalog | extends `SpaceManager` |
| `Ingest` | log and pcap posts, file store, pcap store, abort, delete, crash | |
| `IngestProofs` | theorems of the posts | extends `Ingest` |
| `Splitter` | `proc/split` with batch references | |
| `Flowgraph` | `proc/merge`, `proc/head`, `driver/{mux,driver}.go` | |
| `SplitMerge` | a split whose branches a merge joins under the driver | instantiates `Splitter` and `Flowgraph` on shared state, and implements both |
| `FlowgraphProofs` | theorems of the flow graph, for any parents, batches, limits | extends `Flowgraph` |
| `SplitMergeProofs` | theorems of the splitter alone, that the composition implements both parts, and what follows for it | extends `SplitMerge`, instantiates `FlowgraphProofs` |
| `ParallelGroup` | `driver/parallel.go` | |
| `ParallelGroupProofs` | theorems of the parallel sources | extends `ParallelGroup` |
| `Reducers` | `reducer/...`: Consume, ConsumePart, Result | |
| `Procs` | `expr/sort.go`, the procs as functions on streams | extends `Reducers` |
| `GroupBy` | `proc/groupby`, `spill.MergeSort` as it is read, as functions on an Aggregator | extends `Procs` |
| `Aggregator` | `Proc.run` of group-by on any input in any batches | extends `GroupBy` |
| `AggregatorProofs` | theorems of the aggregation, lemmas on sequences and sorting | extends `Aggregator` |
| `Parallelize` | `driver/compile.go`, `orderedmerge`, and the run of the split query | extends `GroupBy` |
| `Zql` | `zql/zql.go`: the grammar with ordered choice, and the callbacks' trees | |
| `Ast` | `ast/unpack.go` | |
| `Query` | trees grown node by node, their text, and the round trip through parser and unpacker | extends `Zql`, `Ast` |
| `Archive` | `archive/{import,walk,overlap,multisource}.go`, `zbuf/combiner.go` | |
| `ArchiveProofs` | theorems of the import and of scans | extends `Archive` |
| `Microindex` | `microindex/...`, `archive/{indexer,finder,rule}.go` | |
| `MicroindexProofs` | theorems of an index and of a search over indexes | extends `Microindex` |
| `TypeContext` | `zng/resolver`: contexts, aliases, encoder, decoder, names, type files | |
| `Filter` | `filter`: boolean filters, buffer filters, Boyer-Moore, field names | extends `TypeContext` |
| `Zngio` | `zio/zngio`: writer, reader, scanner, time index | extends `Filter` |
| `Zst` | `zst`, `zst/column` | extends `Zngio`: its records are those the zng writer was given |
| `Pcap` | `pcap`, `pkg/ranger`, `pkg/peeker`, `pkg/slicer`, the search of `pcapstorage` | |

The `MC*` modules give the constants of the runs.

**SpaceManager.** A request is a process with a program counter: `idle`, then for
a guarded operation `get` (look up) `start` (`StartOp`), `run`/`info`/`finish`;
for a create `create`, `load`; for a delete `lock`, `wait`, `rmpath`, `rmdata`. `mu` is
`spacesMu` and is held over several steps exactly where the code holds it across
a blocking call; `confMu` likewise; `guard.mu` is never held across one, so
`StartOp` and `acquireForDelete` are atomic. `conf` and `disk` are the config in memory
and in `config.json`; writing and removing may fail (`IOFaults`), loading a space may
fail (`LoadFaults`), and `CrashRestart` forgets everything but `disk` and `data` at any
moment (`Crashes`). The three kinds of space differ as their Go types do:
a subspace's config is an entry of its parent's. A create that fails to load what it wrote leaves
a config the manager does not know; `orphans` remembers such ids, and the index
and disk invariants speak of the states without one.

**Ingest.** A post is a handler and the goroutine of its operation. A log post raises
warnings that travel over a bounded channel; a pcap post writes snapshots while
the analyzers run, a last one after them, and aborts on failure. `Write` takes the
semaphore (or a conflict), copies, installs `all.zng`, extends the span, installs
`info.json`, with a failure, a crash, a cancellation possible between any two. The
capture a store refers to is in memory (`meta`) and on disk (`pcapJson`): a delete
clears the first and may fail to remove the second, which a restart loads. `kept`
remembers what aborts failed to remove. The
data are abstracted to two records per post, a time span to the set of records it
was extended over.

**Splitter, Flowgraph, ParallelGroup.** One process per goroutine. A send on an
unbuffered channel and its receive are one step; a select is a disjunction. In
`Flowgraph` a batch is the number of its records; two heads stand for any chain of
procs that stop early. In `ParallelGroup` a scanner is its source.

**Reducers, Procs, GroupBy.** Pure functions. Values are integers, `Null` (unset) and
`Absent` (no such field); record types, coercion and formatting are left out.
HyperLogLog is exact. A Go map is read in one fixed order: no property depends
on the order of groups with the same first key. The merge of spilled runs is the
sequence it reads.

**Parallelize.** A query goes through the passes of `compile`, its plan is run:
branches take the sources in any distribution, run the first part, and their
results are merged by `orderedmerge`'s rule or, for `merge`, in every interleaving.

**SplitMerge.** The variables of `Splitter` and `Flowgraph` with the joints made real: a
runner's pull is the branch's request, its Done the null request, a batch the
merge forwards is the one the Splitter sent, and a branch may be satisfied early.

**Zql, Ast, Query.** A rule of the grammar is a function from a place in the text to
the first alternative that matches, with its tree and end; numbers, times and
addresses are tokens. `Query` grows a tree, writes it and asks the parser for it. A
search is written by the documented left-to-right rule (a `not` reaches to the end,
parentheses where a tree is not read that way, search-syntax/README.md:522, 541, 562)
and again with parentheses everywhere. An `or` with an `and` behind it is read
differently by the grammar (section 5): `OrBeforeAnd` names it as the exception.

**Archive.** An import is the loop of `importWriter`, one writer per day with records
in memory and runs on disk; a flush goes through its steps (data file, seek index,
entries, rename, metadata), each of which may fail or be the last before a crash. A
record is its time and an identity; the scan is a function of what is visible.

**Microindex.** The writer's levels grow record by record; the file is its
sections, keys are tuples. The indexer builds one chunk after the other while a
find walks them, each step of either being able to fail. A key may have an unset
column. The sort of a rule puts it last and a comparison with a query first, so that
above the base it misleads a descent (section 5): the properties say what a lookup
answers as long as no such key is above the base (`UnsetAbove`) or, for
`LookupClosest`, whose answer depends on every key, in the index.

**TypeContext, Filter, Zngio, Zst.** A type is a tree and an identifier of a context, a
value a tree of byte sequences. The state machine is the zng writer: it is given records
and control messages, chooses whether a block is worth compressing, ends streams.
Readers, scanners, indexes and the zst form are functions of the file it wrote.

**Pcap.** A capture grows block by block, also while a search reads it, and is indexed
at any moment; offsets, the peeker's buffer and the bins of the envelope are counted in
small units. The buffer grows for a longer block up to its limit, past which a block is
refused, like a legacy packet without bytes or over the snap length. A search
reads the slices the index gives from the file as it is at each read, rebuilds a capture
and is judged by reading that. Two steps are coarser than the code: a block is written
whole, and one fill of the search's buffer sees one state of the file. What is written
between the end of a search and its `Close` is taken to be written after it.

## 3. Runs

A run's instance is a configuration of the same name and, where constants need definitions, an
`MC` module. Each property of a passing run has a mutant, a plausible mistake at a mapped
definition that breaks it. A property that conjoins named parts lists them.

| Run | Instance | Shows |
|---|---|---|
| `space` | 2 requests, 3 ids, 2 names, all operations; failing writes, removals and loads; crashes; symmetric in requests, ids, names | `IndexExact`, `DiskMatchesMemory`, `NothingRemovedUnderOp`, `NoResurrection`, `SomebodyGoesOn` (no lock stays taken but in the deadlock of section 5) and `ImplementsCatalog` |
| `space_delete_deadlock` | a rename against a delete | *violated*: `DeleteGetsPastOps` |
| `ingest` | one log and one pcap post, warnings past the channel's capacity, a client that leaves, a delete, IO failures, crashes | `OneWriter`, `ReportIsTrue`, `SpanCoversData`, `NothingLeftBehind` (after an abort but for what could not be removed, after a delete, after a restart), `PostsEnd` (posts, their operations, deletes and the semaphore come to rest but for what a stuck log holds up) |
| `flow` | a split into 2 branches of 2 batches of 1 or 2 records, one that may be satisfied early, 2 heads, 1 warning, errors, cancellation, a failing writer | `RefsExact`, `SameStream`, `SuccessIsComplete`, `PartsImplemented`, `RunEnds` (the driver returns; mux, runners and splitter end but for a stranded mux or an abandoned branch) |
| `parallel` | 2 heads, 3 sources, all failures | `SourcesShared` (in order, once, all at the end), `StatsExact`, `OpenAtStopIsClosed` |
| `parallelize` | 2 branches, 3 sources of 4 records, 1360 queries: programs of up to 2 procs after 1 or 2 filters, 3 orders | `SameAnswer`, `MergeExact` |
| `aggregate` | 9 group-bys, every input of up to 4 of 10 records, every batching | `SentRight` (final, once, in order), `NothingLost`, `FailsOnlyTooBig` |
| `language` | trees of up to 3 nodes over 6 searches, 7 procs and 6 operators, in several spellings | `ReadsBack`, `Unpackable` |
| `archive` | 2 imports of 5 records on 2 days in any order, forward and reverse, 1 failure, crashes | `VisibleIsWhole`, `ImportedOnce` (and the memory limit), `ScanExact` (but for two exceptions of section 5), `ImportEnds` (and what is visible stays) |
| `microindex` | 2 chunks of up to 5 keys of 2 columns, frame thresholds 1 and 2, 2 rebuilds, 1 failure | `LookupsExact` (exact, closest, partial), `FindExact` |
| `formats` | up to 3 of 6 records or a control message, 3 writer options, every choice of compression, 4 filters, 2 thresholds | `StreamReadable`, `SkipsExact`, `TimeIndexExact`, `TypesRoundTrip`, `ColumnsRoundTrip` |
| `pcap` | captures of up to 7 blocks of 11, among them an empty packet, one longer than the buffer and one block over its limit, 3 bins, 3 requests | `IndexSound`, `SearchExact` |

The configurations `MCIngest_warning`, `MCParallelize_average`, `MCSplitMerge_cancel`,
`MCArchive_overlap`, `MCMicroindex_find`, `MCMicroindex_unset` and `MCPcap_statistics` are
not among the runs: each reproduces one of the disagreements of section 5.

**Bounds.** Two requests suffice for every conflict of the manager's locks: a
holder and a waiter; a third id lets one be created while another is removed and
a subspace exist with its parent. After a failed load one more space at most is
created (`OrphanBound`), which is enough for it to take the name left behind. Two
posts are a writer and the one it meets; the channel has capacity 1 and a post up to
2 warnings, so that it fills as the real one (5) does; the client of the log post is
the one that leaves, since only log posts warn. Two branches, of which one may stop
early, distinguish "all asked" from "any asked"; `Limits` of 4 and 3 are
reached by batches that end at, before and beyond them, in different batches. Three
sources over two heads give a head that comes back for a second source. Four
records with table limits 1 to 3 make a group-by spill more than once and meet a
group again that was spilled. Programs of two procs contain every pair of a proc
and what may follow it, which is what the split decides on. Three nodes are an
operator inside another on either side, or a chain of procs with a search. Five
records on two days with room for one in memory spill, and overlap in time with
those of an earlier import. Five keys at frame threshold 1 make four layers. Three
payloads with streams of two records end a stream with a type in use after it.
Four packets in three bins squash an envelope twice. An empty, a long or an
overlong block is the only one of its kind in a capture of one section (`Limits`):
each ends or changes a read by itself. While a search reads, the capture gets up to two
blocks past the search's index (`MaxAhead`): one it sees and one it does not.

**Fairness.** Goroutines that can run do (weak fairness of each one's steps: of
every goroutine in `SplitMerge`, of the import's steps in `Archive`, of handlers and
operations in `Ingest`). Strong fairness is used where Go gives it: a waiter of a
`sync.Mutex` gets it under contention (starvation mode), the weighted semaphore
is first come first served, and a select whose one case stays ready while the
other is a timer takes it eventually. Clients, callers and failures are never fair.
`CHECK_DEADLOCK FALSE` is set where everything may be over, or, in `space`, where
the known deadlock of section 5 is reachable; `SomebodyGoesOn` says there that it is
the only one.

## 4. Proofs

Every theorem holds for all values of the constants. The assumptions are the
named ones of the modules; where a module is instantiated by another one, so that
it cannot assume anything, the hypothesis is a definition of the proof module
(`Setting`, `Finite`) that each theorem names; `SplitMergeProofs`
discharges those of the split and of the flow graph.
Each safety property is proved from an inductive invariant: one lemma for the
initial states, one per action or group of actions, one that derives the property,
and PTL. TLC checked every one of these invariants before it was proved.

**Space manager** (`SpaceManagerProofs`): for all `Reqs`, `Ids`, `Names`, all switches and
every number of requests, under `NilAssumption` (Nil is no request, id or name)
and `SwitchAssumption` (the switches are Boolean):

- `TypeCorrect`: `TypeOK` always holds (no run repeats it);
- `GuardProtects`: no step removes config or data that an operation registered
  with a guard relies on, the parent's included for a subspace;
- `RemovedStaysRemoved`: no late step writes a config for a space that was removed;
- `IndexCorrect` and `DiskCorrect`: `IndexExact` and `DiskMatchesMemory`, with all
  failures and restarts. Once a load has failed in a create (`orphans` is not empty) they
  promise nothing, and rightly: a config stays on disk that the manager does not
  know, and its name can be given out again;
- `CatalogImplemented`: every behaviour of the manager is one of `SpaceCatalog`;
- `ProgressPossible`: `SomebodyGoesOn`, as long as requests wait one of them is ready
  or the deadlock of section 5 has happened.

*Argument.* None of these is inductive. `GuardInv` adds that spacesMu is held by
exactly the request whose program counter says so, and a confMu only by the delete
of that archive (`LockInv`); that a request past its arrival works on an id that was
given out (`TargetInv`); that a space a request looked up and has not yet registered
with is still in the index or has a guard that says it is going (`StaleInv`); that an
indexed space without a pending delete is on disk as in memory, and a subspace's
parent is an archive (`ObjectInv`); that who is counted in a guard is at a registered
point of a space that is whole (`OpInv`); and that a delete past its wait has a
pending guard without operations and an archive without subspaces (`HolderInv`). The
last is what makes removal safe, and it is preserved because `StartOp` refuses a
pending guard. `IndexInv` adds to it the index and disk invariants and
`LoadInv`, what holds between the two steps of a create. It is proved under the
assumption that there is no orphan: `SoundInv` says that it holds as long as there
is none, and since orphans never go away (`OrphansGrow`) a step into a state without
one comes from a state without one (`SoundStep`). The refinement uses it: a create
that loads is an add of the catalog, a rename a replacement, a delete's removal from
the index a remove, everything else a stutter; that a name is free when it is added is
`IndexExact` (`FreeNameAvailable`), and a restart changes nothing because disk and memory
agree. Progress follows from `PathInv` (what a request at each point works on: a rename
has an operation registered, a delete of a subspace a parent, and so on) along the
chain of who waits for whom: the holder of spacesMu is ready or waits for the operations
of its space, and each of those is ready, waits for spacesMu, or for a confMu whose
holder is a delete.

**Posts** (`IngestProofs`): `WriterSafe`, `ReportSafe`, `SpanSafe` and `CleanupSafe` prove
`OneWriter`, `ReportIsTrue`, `SpanCoversData` and `NothingLeftBehind` (memory, disk and what a restart loads) for any posts, channel
capacity and number of warnings, with every failure, cancellation and crash, under
`PostAssumption` and `ChannelAssumption`. `IngestInv` relates handler and operation
(`PhaseInv`), counts a warning as delivered, in the channel or under way (`WarnInv`), says
what an operation is about to write (`ContentInv`), what one that got to its end
has installed (`ResultInv`) and which capture is in memory and on disk (`MetaInv`), and keeps span, info.json and all.zng together but for
the write that has just renamed the latter (`StoreInv`).

**Split and merge.** The first part of `SplitMergeProofs` is about the splitter alone
(`SplitterSafe`, `SplitterControlsFlow`): it proves `RefsExact`, `SameStream` and `FlowControl` for any
finite set of branches and number of batches. The count of references follows from a
set: who holds a batch or waits for the one in transit; `QueueInv` says that the
branches that wait are the ones gathered or still to be served, each once.
`FlowgraphProofs` proves `SuccessIsComplete` and `NeverTooMany` for any parents, batch sizes
and chain of limits. Its invariant is a conservation law: what each head was given
and let through (`HeadInv`), what left the last one and is in the mux, in the channel or
written (`OutInv`), how many parents are open (`EndInv`), how the mux ends
(`ChannelInv`). Facts about a chain of heads of any length are proved by looking at the
first head that would not be as claimed. The rest of `SplitMergeProofs` proves `PartsAreImplemented`:
each step of the composition is a step or a stutter of `Splitter` and of `Flowgraph`,
because of `JointInv`, which ties the two descriptions of a branch to each other (what a
runner has in hand is what the splitter gave it last, a stopped runner is a closed
branch). The theorems of the parts then hold of the composition:
`ReferencesExact`, `StreamsSame`, `SuccessComplete`.

**Parallel sources** (`ParallelGroupProofs`): `SharingSafe` and `StatsAreExact` prove
`SourcesShared` and `StatsExact` for any finite set of heads, any sources and any
batches. `GroupInv` says that a head scans a source that no other head has and
that the group still counts, that nothing has happened to a source not sent, and
that until the context ends a scanner is open as long as a head has it.

**Aggregation** (`AggregatorProofs`): for any group-bys, records, limits and batches,
`NoGroupLost` and `FailsForMemory` prove `NothingLost` and `FailsOnlyTooBig`, and
`GroupByTypeCorrect` the types. The hypothesis `Setting` says what holds of every
group-by of a query (a limit above 0, keys with different names) and that the
records' values are numbers. `AggInv` accounts for the groups: those in the table, in
the spilled runs and among the results are together those of the records consumed
(`Groups` = `KeysSeen`), unless the group-by failed. Each function of `GroupBy` moves
groups between the three places and loses none (`SpillMoves`, `ReadMoves`, `ReadsMove`,
`SendMoves`, `ConsumeAdds`). Two of them recurse, the stable sort and the reading of
runs, over numbers; what they compute is proved by looking at the first number
for which it would be wrong (`LeastNumber`, `InsertionsEquation`, `SpillReadsEquation`), which
stands in for the induction that the provers cannot instantiate.

`GroupsSentRight` proves `SentRight`: what is sent of a group, early, from disk or at the end,
is what its reducers make of all records of the group, it is sent once, and the
output of sorted input is sorted. It takes two more invariants.

- `OrderInv` (`GroupsInOrder`) says when a group may leave. The runs are sorted and come after
  what was sent (`Queued`); what was sent comes before every key of the table, before
  `maxTableKey` (`TableLater`) and, once there are runs, before `maxSpillKey`, which is not
  after any key of the table (`SpillLater`); no record to come is before `maxTableKey`
  (`NothingEarlier`). It needs that `keysCompare` orders keys totally (`KeyOrder`), that the
  stable sort sorts (`SortSorts`), and that truncating a time keeps the order
  (`Truncation`, `KeyFollowsField`). `NotYetSent` follows: a record never belongs to a group
  that has left.
- `ValueInv` follows the values. What an Aggregator has of a group is its partial results in the
  runs, in their order, joined with its row in the table (`Held`); `Sums` says what some
  records come to, of a count, total, extreme, first or last value or set, as a relation instead of
  a computation. For every group not sent, `Held` is what the records consumed
  come to (`Holding`), and what was sent still is (`Final`). A record takes both one further
  (`SumsFurther`, `ConsumeFurther`); a spill moves a row behind the runs, which a stable
  sort does not reorder within a group (`SortPartial`, `JoinPartial`, `SpillHolds`); reading a
  group joins its partial results (`FrontPartial`, `ReadHolds`).

The hypotheses are definitions. `OrderSetting`: only a first key that keeps its name is
declared sorted (setGroupByProcInputSortDir), and truncating a time that is not null does not
make it null, which the model, where 0 is null, has to say. `ReduceSetting`: the columns of a
result have different names, the group-by works on the input itself (in the second half of a split
query it works on partial results), and either every reducer composes (`count`, `sum`,
`max`, `min`, `first`) or one cannot be decomposed, so that nothing is ever spilled. The last
excludes exactly the spilled `avg` and `last` of section 5. The instance of `aggregate` satisfies
both.

**Archive** (`ArchiveProofs`): for any records, day length, buffer size, chunk size and
numbers of imports and failures, under `ArchiveAssumption`, `ChunksWhole` and
`NothingTwiceOrLost` prove `VisibleIsWhole` and `ImportedOnce` (with the types and the
accounting of memory), and `ReadersKeep` proves `VisibleStays`, the safety half of
`ImportEnds`, with every step that can fail and a crash between any two. `ArchiveInv` says
where a record can be: to come, with one writer, or in one file, and in both of the
last two only while it is copied (`WriterInv`, `FileInv`, `FlushInv`); that a flush copies what
it found with its writer, sorted, to a file without a name, and names it when it is
complete (`FlushInv`, `SeekInv`); that as long as no error was met what was given is
visible, with a writer or being copied (`LossInv`); and that `memBuffered` is at least
what the writers hold, exactly that until a spill fails (`MemoryInv`). The lemmas beneath
are about the operators: a stable sort permutes and orders (`SortKeeps`, from the
ranks of an order, `Ranks`), and reading n records from sorted runs takes them in order
and leaves the rest (`AllRead`), again by way of the first number for which
it would be wrong.

`ScansExact` proves `ScanExact`: at any moment of an import, after failures and crashes,
a scan of any span gives every visible record of it once and in order, unless chunks
abut inside of a third or a first timestamp of 0 was missed (section 5, both defined by
`Abutting` and `EpochMissed`). `WalkGives` is the heart of it. The walk over the boundaries
of a day's chunks has an invariant (`Walked`) in terms of positions, timestamps forward or
backward: the chunks that are open are those that go on behind the last boundary;
what lies before the front, the next span's first timestamp, has been given to a span
of each chunk that covers it (`Given`); and the spans given follow each other
(`Orderly`). `BeforeBoundary` is where abutting chunks would break it: the span before
a boundary would end before it begins. Days follow each other because division does
(`DayGrows`). A span scanner gives the records of its chunks in its span
(`SpanScanKeeps`), since the combiner takes the first of the heads (`IdxIsFirst`) and no
record is in two chunks (`FileInv`); the readers of all spans are joined (`ConcatOfRuns`).

**Microindex** (`MicroindexProofs`): `LookupsAreExact` and `FindsAreExact` prove
`LookupsExact` and `FindExact` for any contents of the chunks, frame thresholds, bounds on
the layers, runs and failures, under `MicroindexAssumption` (finite contents, values above
Null). The comparison with a query agrees with the sort's order, a strict total order
(`SortIsTotal`), on the keys that match it: they come before a record that is above the
query, and after one that is below it unless that record has an unset column (`Compared`);
it was in proving this that the exception was found. The writer's invariant `LayersInv`
says that a frame begins at the record whose key it remembers, and that every record of a
layer has the key of the record below that it points to; a write that fills frames in
several layers keeps it (`WriteKeeps`), and when it has been given every key in order the
file `IsIndex` (`FinalIsIndex`). A search (`GoodAt`) has at each layer reached a record that
is not above the query, or has seen that the first key is (`DescendKeeps`); so it reads
the base from no later than the first match, or from a match whose key is above the base
too (`WhereToRead`). `Inv` then ties the search to the indexer: what it has opened is an
index of its chunk, which is still the one on disk unless it was written again
(`OpenInv`), and what it found are rows of the chunks it is done with, all of them where
it read the index unrewritten (`FoundInv`).

Only model-checked, and why:

- liveness (`PostsEnd`, `RunEnds`, `ImportEnds`, `OpenAtStopIsClosed`): fairness is outside
  the prover;
- `SameAnswer` and `MergeExact` of `Parallelize`, which compare two folds over a stream, and
  with them a group-by that works on partial results: induction over data;
- everything about `Zql`, `Query`, `TypeContext`, `Zngio`, `Zst` and `Pcap`: their
  operators are RECURSIVE, over trees, streams and files.

## 5. Findings

The run that is expected to fail, with the text it contradicts in `PROJECT.json`:
`space_delete_deadlock`. `Manager.Delete` waits for the operations of a space with
`spacesMu` held; a registered rename waits for `spacesMu`. The same shape exists over
`confMu` between a delete and `Info` of an archive space.

Disagreements met while modelling. The passing instances leave them out, or the
properties name them as exceptions; those with a configuration can be replayed.

*Daemon and ingest*
- `MCIngest_warning`: a warning is sent to a channel nobody reads once the client of
  a log post has left, and the writer blocks forever with the store's semaphore
  (zbuf/warning.go:23 against the comment in line 14). The same in `LogOp.start`
  (log.go:137). `Stuck` in `Ingest`.
- An abort ignores that pcap.json could not be removed (pcapstorage.go:121, pcap.go:133):
  the space has no capture until a restart loads it again. `kept` in `Ingest`. A post
  that is refused after `Update` (pcap.go:82-85) leaves its capture, too.
- A create whose load fails leaves its config behind (manager.go:119-122); the name is
  reused and a restart finds two spaces of one name.
- An overwriting log post keeps the span of the data it replaced
  (filestore.go:156-166), so the property is that the span covers the data.
- The goroutine of a log post outlives its registration (log.go:75), so a delete may
  not wait for it; that nothing is written then rests on the removed directory.
- Of two concurrent deletes of a subspace the second panics in `Name` (manager.go:190,
  archivesubspace.go:81).

*Query*
- `MCSplitMerge_cancel`: a runner that the context stops returns without Done
  (merge.go:38); the splitter and the other runners wait for it (split.go:50).
  `Abandoned` in `SplitMerge`.
- When a callback of the driver fails while the channel of the muxes is full, a
  mux goroutine stays at its send for ever (mux.go:66): nobody receives any more, and
  the send does not look at the context. `Stranded` in `SplitMerge`.
- `MCParallelize_average`: `Avg.ConsumePart` overwrites where it should add (avg.go:69):
  a parallel, or spilled, average is that of the last partial result.
- Two heads that reach their limits on one batch each call `Done` on the merge,
  whose second `close` panics (merge.go:88; orderedmerge.go:125). `Limits` differ in `flow`.
- A warning reaches the driver as `ChannelEnd(0)` (driver.go:59, mux.go:107).
- A source opened while the query stops is not closed (parallel.go:25-33), so the
  property is about what is open at that moment.
- Programs whose split answer differs or fails: a proc that forces the split
  directly behind the lifted filter (`* | uniq`, `* | sort`) leaves branches without
  procs, which `Compile` refuses; `top` panics; `by z=y` drops all groups in the composing
  group-by; `rename t=ts` merges on a field that is gone; `sort -r` and missing values;
  `every` over a reversed archive; `first`, `last` and a group-by that relies on input
  order after an unordered merge; `cut x | head 1 | sort x`, where a later sort
  makes the order of an earlier head count as irrelevant. Queries that fail to
  compile are in the run (334 of the 1360) and reach `failed`, where `SameAnswer` says
  nothing; the others are left out of its instance.
- `Last.ConsumePart` takes an empty partial result (last.go:23). `aggregate` has `avg` and
  `last` only where the table fits in memory.
- fuse changes the order of records when it spills (fuse.go:97-118); tail loses an
  error of its parent (tail.go:47-48).
- Grammar: a bare search word that begins with a proc's name is a parse error
  (zql/docs/search-syntax/README.md:84); `foo index` is read as `foo in dex`; `1hour`
  and `1 hour` do not parse; the callback of an IPv6 subnet panics; `and` binds
  tighter than `or`, where the documentation (search-syntax/README.md:522, 562) says left
  to right. `OrBeforeAnd` in `Query`.

*Archive and microindex*
- `MCArchive_overlap`: of chunks that abut, an overlap is missed or made
  (overlap.go:24 against the comment in lines 10-13), so that a scan is out of order.
- A chunk's first timestamp of 0 is taken for unset (import.go:287), so that a scan can
  pass over it (`EpochMissed`); the seek index of a
  negative one is not recognised (walk.go:75); a visible chunk vanishes when finishing
  its own seek index fails.
- `MCMicroindex_find`: a chunk without the key ends a search over several chunks
  (archive/finder.go:96-124, microindex/finder.go:86-90).
- `MCMicroindex_unset`: the sort of an index rule puts unset values last unless it is told
  otherwise (proc/sort/sort.go:172, cmd/zar/README.md:327), where the writer expects them
  (writer.go:26) and the search's comparison takes them (expr/sort.go:118) to be first.
  When a key with an unset second column begins a frame, a search for another key of the
  same first column descends into the wrong frame and finds none of its rows, against
  archive/finder.go:71; `sort -nulls first` in the rule avoids it. `Unset` in `Microindex`.
- A partial key misses matches before a frame that begins with a match; building an
  index again truncates it in place, and a failure removes it.

*Formats*
- The buffer filter for subnets rejects blocks with matches (compare.go:314, 354;
  bufferfilter.go:31); comparisons of booleans by `<=` and subnets by `!=` do what others
  do (compare.go:50, 315).
- The reader of escaped type ids does not add back what the writer took off
  (reader.go:178, writer.go:134, zng/docs/spec.md:484).
- An alias of a complex type cannot be translated in a second stream
  (context.go:765, 328); aliases inside arrays, sets, unions and maps are dropped.
- A seek keeps the types of where the reader was; the time index loses records of a
  time shared across a stream boundary (index.go:170).
- An empty record type ends the field name iterator with a panic
  (fieldnamefinder.go:95).
- zst: map values are tagged primitive (writer.go:164); an unset array inside an array
  becomes an empty one; a cut does not look at the presence of the enclosing
  records; the thresholds of the trailer are never decoded.

*pcap*
- `MCPcap_statistics`: the offset of a section or interface that follows skipped blocks
  is theirs (index.go:66, 118), so that a search fails.
- A legacy packet without bytes is "less than minimum packet size" (read.go:86), and one
  of them, like one over the snap length (read.go:153), keeps the whole capture from
  being indexed. `Refused` in `Pcap`.
- A legacy capture that exactly fills the reader's buffer is called truncated; a span
  outside the index gives an error of reading instead of "no pcaps found"; a span
  that starts at 0 is taken for none (index.go:24); sections without matches are
  dropped though search.go:200 says they are all written.

## 6. Not modelled

- The text formats (JSON, CSV, Zeek, tzng), azngio and parquet, and the formatting and
  parsing of primitive values: conversions without state.
- Expression evaluation over all zng types (`expr`), regular expressions, the characters
  of literals in the grammar.
- Spilling of sort and fuse, the goroutines of orderedmerge, the migrations of old
  configs, the creation of archives, remote storage: candidates for later modules.
- HTTP, S3 and other I/O, command-line tools, the Python client, `alpha` (an older copy of
  packages modelled here), test scripts and deployment.

`PROJECT.json` gives the reason per component.

## 7. Plan

Theorems: a refinement of an abstract archive, a set of whole chunks, by `Archive`.

Further modules: `SpillSort` (runs of sort and fuse against a stable sort in memory),
`OrderedMerge` (its goroutines under `Flowgraph`'s driver), `ConfigMigration`.
