# VecFetch: a TLA+ verification project

VecFetch is a C++ vector search engine over an IVF index on disk. A query picks
the nearest clusters, scans their compressed codes in memory, and overlaps that
scan with `io_uring` reads of the full vectors of the candidates it has already
found. The candidates are then reranked exactly and the payloads of the best
`top_k` are returned. This directory holds TLA+ models of that program, the TLC
runs that check them on small instances, and TLAPS proofs of the properties that
matter most for every value of the constants. Paths are relative to the
repository; `OS.cpp` stands for `src/query/overlap_scheduler.cpp`.

## 1. Inventory

| Part | State it keeps | Operations | What makes it correct |
|---|---|---|---|
| `query/overlap_scheduler` | pending plans, slot table with free list, three kinds of free read buffer, budget heap, deferred plans, frontier heaps | `Search`, probe loop, emit, submit window, dispatch, `FinalDrain`, `FetchMissingPayloads`, `AssembleResults` | a buffer has one owner; a token names one read; every plan is read and reranked once; nothing survives a query; a search ends |
| `query/io_uring_reader` | SQ/CQ rings, `in_flight_`, `prepped_` (`uint32_t`) | `PrepRead*`, `Submit`, `Poll`, `WaitAndPoll` | every prepared read is delivered once, after its data; the counters count the ring |
| `query/pread_fallback_reader` | `pending_`, `completed_` | the same interface | the same promise, in order |
| `query/buffer_pool` | `pool_`, `outstanding_` | `Acquire`, `Release`, `Prime` | no dead or shared block, true capacities |
| `query/rerank_consumer` | buffered candidates, vector arena, payload cache | `ConsumeVec/All/Payload`, `ExecuteBuffered` | only own vectors are ranked, each once |
| `query/result_collector` | a max-heap of `top_k` | `TryInsert`, `Finalize` | the `top_k` smallest distances |
| `index/cluster_prober`, `index/conann`, frontiers in `OS.cpp` | per-query envelopes, `est_heap`s, dynamic thresholds | classify, merge, defer, budget, early submit | SafeOut drops no true neighbour when the bounds hold; every other candidate is planned once |
| `index/ivf_index` | centroids, rotation, metadata, segment, cached hierarchy of super centroids, routing settings | `Open`, `FindNearestClusters`, `SetTwoLevelCoarseRouting`, `PrepareTwoLevelCoarseRouting` | an object that opens is of one build; the clusters probed are the nearest of those scored; a cached hierarchy is the one the settings ask for |
| `index/ivf_builder` | assignments, centroids, rotation, calibration | `Build`, `WriteIndex` | a directory that opens is whole, whenever the builder stopped |
| `storage/cluster_store` | file offsets, lookup table, loaded clusters | `Open`/`Begin`/`Write*`/`End`/`Finalize`; `Open`, `EnsureClusterLoaded`, `PreloadAllClusters` | what is read is what was written |
| `storage/data_file_*`, `storage/address_column`, `storage/segment` | stream and offset of the writer, encoded addresses, the two readers of a segment | `WriteRecord`, `Finalize`, `ReadRecord`, `ReadVector`, `Encode`/`Decode`, `Open` | an address leads to its record, or to an error |
| `columns` | a chunk per column with its offset table, regions of the reader | `Open`, `Ingest`, `SerialiseAll`, `Flush`, `OpenForRead`, `ReadColumns` | a locator leads to its row's value, whatever rows failed in between |
| `rabitq` (rotation, encoder, estimator), `simd` | matrix or signs and permutation of the rotation, packed codes, tables of the query | generate, save, load, apply; pack, build tables, accumulate, mask | a loaded rotation turns queries as the saved one turned centroids; a lane's estimate is that of its own vector, on every instruction set |
| `codec`, `io`, `benchmarks` | none | encode/decode, parsing, drivers | not modelled |

How they interact: `Search` is one thread. It calls the prober, whose sink turns
candidates into read plans; it prepares reads on an `AsyncReader`, the kernel
executes them concurrently, and completions come back by token through `Poll`
and `WaitAndPoll` to `DispatchCompletion`, which hands the buffer's content to
`RerankConsumer` and the buffer to the list its slot names. One scheduler serves
many queries in a row and keeps its slots, buffers and rings between them. In
shared mode `cluster_reader_` and `data_reader_` are one object; in isolated mode
only `data_reader_` carries reads of the query; either way one ring carries the
data reads, which is what the model has.

The hard behaviours are the interleaving of the kernel with emission and
dispatch, completions in any order, the boundaries of the rings and of the
completion array, a submission accepted in part, a read that fails, completions
that arrive in a later query, and state kept from one query to the next. On the
storage side they are crashes between files, errors midway through a record,
tails that a destructor fails to write, and a failed `Open` that is tried again.
In the numerics they are the limits of narrow lanes and the layouts that
different kernels expect.
`PROJECT.json` lists them as hazards, each at its line.

## 2. Modules

| Module | Models | Kind |
|---|---|---|
| `AsyncReader` | `include/vdb/query/async_reader.h`: what any reader promises its client | abstract specification |
| `IoUringReader` | `src/query/io_uring_reader.cpp` and the kernel behind it | component |
| `UringClient` | the io_uring reader with an arbitrary client | composition |
| `PreadFallbackReader` | `src/query/pread_fallback_reader.cpp` with the same client | component |
| `ReaderClient`, `MCReaderClient` | a client that holds either reader behind the interface | composition |
| `BufferPool` | `src/query/buffer_pool.cpp` and the allocator | component |
| `OverlapScheduler`, `MCOverlapScheduler` | `OS.cpp` and `rerank_consumer.cpp`, instantiating `IoUringReader` and `BufferPool` | composition |
| `OverlapSchedulerProofs` | theorems about the scheduler | proofs |
| `ReaderClientProofs` | theorems about the readers | proofs |
| `ReadPlanner`, `MCReadPlanner` | `src/index/cluster_prober.cpp` and the planning half of `OS.cpp`: classification, frontiers, deferral, budget, early submission | component |
| `PlanFeed` | what planning promises the read pipeline: implemented by `ReadPlanner`; `OverlapScheduler` chooses its plans as freely as it allows | abstract specification |
| `ReadPlannerProofs` | theorems about the planner | proofs |
| `AddressColumn`, `AddressColumnProofs` | `src/storage/address_column.cpp`: both encodings of addresses and their decoders | operators, theorems |
| `ClusterStore`, `MCClusterStore` | `src/storage/cluster_store.cpp`: writer, file, crash, reader | component |
| `ClusterStoreProofs` | theorems about the store's file and its reader | proofs |
| `DataFile` | `src/storage/data_file_writer.cpp`, `data_file_reader.cpp`; takes `AddressColumn` | component |
| `IndexLifecycle`, `MCIndexLifecycle` | `WriteIndex` of `src/index/ivf_builder.cpp`, `Open` of `src/index/ivf_index.cpp` and `src/storage/segment.cpp`, over `DataFile` | composition |
| `IndexLifecycleProofs` | theorems about the data file and the lifecycle | proofs |
| `CoarseRouting` | `FindNearestClusters` of `src/index/ivf_index.cpp` with its packed layouts and the hierarchy | component |
| `Rotation` | `src/rabitq/rabitq_rotation.cpp`, `src/simd/hadamard.cpp` and the builder's choice among them | component |
| `Columns` | `src/columns/*.cpp` | component |
| `IndexPartsProofs` | theorems about the columns, the first-stage scan, the rotation and the routing | proofs |
| `BasicLemmas` | facts about recursive functions, sequences and their flattening, sums, powers, bits and isometries | lemmas |
| `FastScan`, `MCFastScan` | stage 1 of the scan of a cluster: packing, tables, sums, masks (`src/storage/pack_codes.cpp`, `src/rabitq/rabitq_estimator.cpp`, `src/simd/fastscan.cpp`, `src/index/cluster_prober.cpp`) | component |
| `IndexParts`, `MCIndexParts` | the five modules above side by side, for one run | composition |
| `Arithmetic` | rounding, powers of two, sums | operators |

### Readers

A request is a record with the token, the buffer and the part of the data file
it asks for. It moves `sq -> kernel -> cq -> comps`: prepared, taken by the
kernel, completed, handed to the caller. `prepped` and `in_flight` are the two
counters of the class, reduced modulo `CounterModulus` (2^32 in the code). When
the submission queue is full `PrepReadTagged` flushes it by itself, as
`AcquireSqeWithAutoFlush` does, and then counts everything prepared as in
flight. `Submit` counts what the kernel accepted and forgets the rest.
`SubmitMayFallShort` lets the kernel take a proper prefix of the ring, and
`ReadMayFail` lets a read complete without writing its buffer. `Poll` and
`WaitAndPoll` deliver at most `MaxBatch` completions.

`AsyncReader` has the same stages and no counters, no queue limits and no
memory: reads are prepared, submitted, arrive, are delivered and consumed, each
once. `ReaderClient` holds one of the two readers, chosen once, with the client's
state (completion array, ids, memory) shared: `EitherImplementsAsyncReader` says
that whichever it is, the client sees `AsyncReader`. A read in `sq` or in the
fallback's `pending_` is prepared, one in `cq` or `completed_` has arrived, and
the fallback never has one in flight, since it executes reads inside `Submit`.

### Overlap scheduler

`pc` is the place in `Search`; loops that touch the ring take one step per
iteration because the kernel runs between iterations. An action covers a whole
call: issuing a read acquires the buffer, allocates the slot and prepares the
SQE (`EmitAll`, `EmitVecOnly`, `FetchPayload`); `Dispatch` consumes the buffer,
returns or keeps it, and releases the slot; `CleanupPendingSlots` returns every
buffer still pending. Free lists are bags (`[Buffers -> Nat]`), so that a double
return is a state and not a no-op. The allocator is external: it may return any
address that has no live block, in particular one that was just freed.

Data is abstracted to what the properties tell apart. A vector, and a payload,
is the record it belongs to, so `vec[r] = r` says that reranking used the right
bytes. Distances are absent: the clusters' candidates, the plans held back, and
the `top_k` are arbitrary choices, so the results hold for every ranking. The
counters of statistics, time and prefetch truth are left out.

### Read planner

`OverlapScheduler` leaves open which candidates a cluster yields and which plans
are held back; `ReadPlanner` is that half of `Search`, and `PlanFeed` is the
contract between them. That `ReadPlanner` implements `PlanFeed` is a result.
`OverlapScheduler` takes `PlanFeed` as its assumption: `ProbeCluster` and
`FlushHeld` choose among exactly the plans it allows, so those of `ReadPlanner`
are among the ones considered. What is shown of the planner alone, as which
records are nearest or how many are read, is not thereby shown of the scheduler.

A record has an exact distance; when its block is scanned, each stage estimates
it with any error up to `Err`, so a run covers every combination of estimates
that `rabitq_estimator.cpp` could give within it; its arithmetic in stage 1 is
followed in `FastScan`.
`ScanBlock` is one FastScan block with both stages and the sink's handling of
the batch. `StartCluster` takes the SafeOut bound and the SafeIn threshold once
for the cluster, as `ProbeCluster` does; `FinishCluster` merges the estimates and
then holds or flushes deferred plans. Heaps are sets related by `IsSmallest` to
what was offered to them, with ties broken arbitrarily. `Inf` is a number above
every bound. Clusters are probed in any order. Five auxiliary variables record
what was planned, scanned, dropped, merged, and decided to be read whole.

### Cluster store

`ClusterStore` has the writer the builder drives, the file, and the reader. The
file is a function from offsets to cells, a cell being bytes that are written
and read as one; sizes, offsets and alignment count cells, so the arithmetic of
the trailer, the lookup table and the padding is the code's with smaller units.
A code is one value: how RaBitQ codes are packed into bytes is left to the
later modules. What `std::fstream` holds back is `buffered`; `Flush` hands its
oldest piece to the kernel, `FlushFails` turns the stream bad, `Crash` loses the
rest. `EndCluster` and `Finalize` take two steps, since both wait for the
kernel: `seekp` and `flush` write out what is buffered. Which failures they do
not notice (`lost`) follows from where the code checks `good()`. A block is
written in three pieces although a buffer may cut it anywhere: until its lookup
entry is there, nobody can tell. A crash is that of the process; after a loss of
power nothing is claimed, as the code never calls `fsync`.

Versions 12 to 14 are read alike and stand as 14; 15 has batches of varying size.
The reader opens a file whose writer is done with it. `LoadCluster` and
`ParseClusterBlock` are its two parsers, each with the checks in the code that
the contents of a file can fail. In a file that is not complete the unwritten
entries are zero and carry id 0; `EntryOf` resolves duplicates as
`cluster_index_` does, the last one winning. `AddressColumn` keeps what
`BitpackCodec` packs as a sequence of values and the number of bytes they take.

### Index directory

`DataFile` has one stream of cells for `data.dat`. `WriteRecord` appends vector,
columns and padding and hands out an address; a piece that cannot be written
leaves the pieces before it in the stream and in the offset. As the file is only
appended to, what the kernel has of it is a prefix, `persisted`, left open until
the writer is done: `Finalize` flushes and closes and looks at neither result.
The reader is a function of dimension and schemas, since that is all an open
reader keeps; reading with the wrong ones returns every value that foreign bytes
can be taken for. A length read from foreign bytes is any 32-bit number, and its
sum with the offset may wrap and pass the check of the end (`TakeVariable`).

`IndexLifecycle` runs `WriteIndex` stage by stage. Of the other six files the
directory keeps which build wrote them and whether they are whole; a write that
is noticed to fail and a process that dies both stop the build, a tail lost in
a destructor does not. `Open` is one function with the checks in their order; it
takes the object as an earlier try left it, so the appended schemas and the
cluster reader that stays open are part of a retry. `OpenedIsOneBuild` is about a
directory that was empty before: a rebuild overwrites file by file, and a crash
in it leaves a mixture that opens. `FinishedBuildOpens` covers rebuilds.

### Routing, rotation, columns, codes

`CoarseRouting` has exact routing with its two selections and the packed layout,
and two-level routing with the hierarchy that is trained lazily, cached, and
keyed by the number of super centroids. Each super centroid has a packed layout
of its own children: they are scored by their place in it and mapped back by
`child_centroid_ids`. The settings change between queries,
as the scheduler sets them in every search. Training is an arbitrary assignment to nearest super
centroids, or a failure; components are integers, so scores are exact.

`Rotation` generates each of the four kinds the way the builder tries them,
saves, crashes in between, and loads. Components are integers and factors of
`1/sqrt(n)` are taken out of the whole, which `RotationIsIsometry` puts back as
`ScaleSquared`.

`Columns` keeps one buffer and offset table per column. A row that fails midway
leaves values in the columns before the bad one; the file may be cut off.

`FastScan` follows one block of up to 32 vectors from sign bits to masks with the
two table layouts of AVX2 (two groups per iteration) and AVX-512 (four), 16-bit
lanes included: the sum of the even byte is what is left when the odd byte's is
subtracted, modulo 2^16, as in the code.

## 3. Runs

All states of each instance are explored. The seeded faults (operators marked
"Seeded fault" in the modules) show for every property that a plausible slip in
the code would violate it.

| Run | Shows |
|---|---|
| `scheduler` | Two records (one with a payload too large to be read in one piece, one with a small one), two probed clusters, up to two reads at once, queue depth 1, batch 1: ownership, tokens, counters, completeness and cleanliness, through any number of queries |
| `scheduler_faults` | One record, short submits and failed reads, counters modulo 4: ownership of buffers and slots survives late completions. Deadlock is not checked, because an abort or an endless wait is what the code then does |
| `scheduler_live` | `SearchAnswers`: every search answers |
| `readers` | With either reader: it implements `AsyncReader`, data come before completions, and under fairness every read is delivered, though `InFlight()` of the fallback is always 0 |
| `short_submit` (violation) | After a submission accepted in part, `FinalDrain` leaves reads of the query in the ring, against `openspec/specs/query-pipeline/spec.md:458` |
| `failed_read` (violation) | A failed read is reranked with foreign bytes, against the check that `openspec/changes/archive/2026-04-08-o-direct-and-iopoll/design.md:71` takes for granted |
| `torn_build` (violation) | A crash before `build_metadata.json` leaves a directory that opens with a data reader of the padded dimension, against `include/vdb/storage/data_file_reader.h:45` |
| `wide_vectors` (violation) | At 1600 dimensions the 16-bit sums of AVX2 overflow, against `include/vdb/simd/fastscan.h:28` |
| `planner` | Frontier mode, deferral of the first cluster and until ready, no budget: no record is lost, dropped or prefetched wrongly, the heaps are the k-th bounds, and the true nearest records are read |
| `planner_budget` | Budget 1 with early submission and deferral: deferred or not, plans compete with their estimates, the best are read, one submitted early stays in the heap and is read only once, and reads stay within budget plus early cap |
| `cluster_store` | Any file a builder can leave, finished, given up or killed at any flush: what its lookup table names can be read, what is read is what was written, preloading is all or nothing, and a successful `Finalize` is true |
| `index_parts` | One part at a time. Files: an opened index is whole and of one build, an address leads to its record or to an error, a finished build opens, the raw table keeps every address. Columns: every ingested row reads back. Rotation: an isometry whose inverse undoes it, alike after loading. Routing: the answer is nearest, through the hierarchy of the current settings. Codes: sums, estimates and masks are of the lane's own vector |

Two more disagreements with the text were met and are not kept as runs: a payload
buffer that was handed out is never released to the pool, so that its
`outstanding_` entry stays, against `include/vdb/query/buffer_pool.h:27`; and
early submissions come on top of the candidate budget, so that more than the
budget is read, against `include/vdb/query/search_context.h:87`.
`ReadsBounded` states what does hold.

Bounds. `QueueDepth = 1` makes every second preparation an auto-flush;
`MaxBatch = 1` makes every drain take several calls; two slots and six buffers
let every list run empty and grow. One fixed buffer and one primed pool buffer
make each kind of buffer run out and be mixed with the others. `IdBound` bounds
the auxiliary SQE ids, and only when requests of earlier queries remain: without
faults they start again at 0 with each query, so any number of queries is
covered. Symmetry is over the addresses that are neither fixed nor primed; the
liveness checks use none.

The planner runs have four records of different distances in three clusters,
estimates off by up to 2 in stage 1 and 1 in stage 2, and margins that are wider
than the error for one record each. With `TopK = 2` (`planner`) a frontier fills
only in the second cluster and prunes in the third, so bounds are one cluster
old when used; the order in which clusters come decides whether the threshold
becomes ready before or after plans were deferred. With `TopK = 1` and a budget
of 1 (`planner_budget`) every plan after the first competes, and an early
submitted plan is evicted later in some orders. Every query starts from the same
reset state, and any number of queries is explored. Static mode is the planner
with a constant threshold and no deferral; the proofs cover it.

The store run chooses two of three cluster ids, in any order, with 0, 1 or 3
records. Blocks of two records and batches of two lanes make a full and a
partial block in one cluster; a V1 column has a full and a partial address block.
The stream can fail or the process die between any two of its pieces, and the
reader opens, loads, unloads, preloads, moves and closes in every order.
Deadlock is not checked: a file whose header was lost stays unreadable.

The reader run has four reads, a ring and a completion array of two: rings fill
and flush by themselves, completions take several polls, buffers are used again.

`index_parts` writes two records of different sizes in pages of three cells, so
that padding is none, one and two cells; dimensions 1 and 3 of which 3 is padded
to 4; two builds of different dimensions. `Word` is 64, which is what 32 bits
are to real offsets: `FitsRawTable` is the part of the range that is claimed. Rotations have
dimensions 4, 5 and 6: a power of two, blocks of 4 and 1, and FHT-Kac with two
windows that overlap and four rounds; every generator is tried where it applies
and where it refuses, with signs and shuffles that reach every component.
Routing has four centroids in packed blocks of two by two, two of them equal, so that
ties occur, up to three super centroids one of which may be empty, and `nprobe`
below, at and above the number of clusters. Codes have 16 dimensions, blocks of
1, 7, 18 and 32 vectors, queries of mixed signs and the zero query.
Deadlock is not checked: a builder that is done has no next step.

Fairness. `FairSpec` assumes that the one thread of `Search` keeps running and
that the kernel completes every read it has taken. `Search` has no other thread
to wait for and blocks only in `io_uring_wait_cqe`. No fairness is put on the
kernel taking SQEs: that happens inside `Submit`, a step of the thread. The
liveness checks are for a reliable kernel; with short submissions the wait of
`FinalDrain` can be endless. `FairSpec` of `ReaderClient` assumes a client that
keeps submitting, polling and working completions off, which are the loops of
`FinalDrain`.

## 4. Proofs

The constants are constrained by named assumptions only, which TLC evaluates in
every run of the module: `SchedulerAssumption` (finitely many
records among its parts) and `SentinelAssumption` for the scheduler, and
those listed below for the planner.

* `OverlapSchedulerProofs` makes no assumption on the kernel. `TypeCorrect`
  needs finite request sets besides `TypeOK`. `SlotsConsistent`, `OneOwner` and
  `LiveBuffers` come from `OwnInv`, the conjunction of the three with
  `FetchesPayloads` (a payload read has a positive length, so that its block is
  live). None of them is inductive alone: that a returned buffer was on no other
  list needs that its slot was in use and its block live; that an allocated
  address is new needs that every owned address is live.
* The second part of `OverlapSchedulerProofs` assumes `ReliableSubmit`: the kernel takes the
  whole ring and the counters are wider than the slot table. `RingInv` says that
  the stages are disjoint, tokens are distinct, each request matches the slot
  its token names, the counters are exact, vector buffers are large enough, and
  which stages are empty at each place of `Search`. From it follow
  `WritesOwnedBuffers`, `CountersStayExact`, `DrainIsComplete`, and, when no read
  fails, `VectorsAreOwn`. `QueryInv` then follows what a query handles. A slot
  in use waits for a request, of a record no other slot reads (`SlotInv`). While
  clusters are probed a planned record is to be issued, being read, or a
  candidate, one of these once (`LedgerInv`), which is `PlansAreRerankedOnce`
  when nothing is being read. What is fetched is not cached (`CacheInv`), so that
  no cached buffer is overwritten, and each live buffer is free, in a slot or
  cached (`BufferInv`), which is `NothingIsLeaked` when slots and cache are
  empty. `AnswerInv` says that a result with a payload is to be fetched, being
  fetched or cached, and gives `AnswersAreComplete` when no read fails.
* `ReaderClientProofs` proves `DataComesFirst` and `UringImplementsAsyncReader`
  by `ClientInv` (distinct ids below `next_id`, disjoint stages, data in place).
* It extends both to the client of either reader:
  `EitherDataComesFirst` and `EitherReaderImplementsAsyncReader`, by `EitherInv`.
  For the ring it is `ClientInv` and the steps are those already shown. For the
  fallback, `PreadInv` says that no two waiting reads share a buffer; with it the
  sequence of preads leaves in memory what executing a set of reads would
  (`SubmitExecutesAll`), and a `Poll` takes a front of `completed_` that is
  disjoint from the rest (`Split`).
* `ReadPlannerProofs` uses `PlannerInv`: types, one estimate per candidate whose
  upper bound is one (`EstimatesInv`), blocks are scanned once (`FreshInv`),
  a held plan is in one place (`HeldInv`), and `FrontierIsKth`. The last is
  inductive by `MergeKeepsSmallest`: the k smallest of what a heap kept and new
  entries are the k smallest of all. `SafeOutIsSound` adds `SafeOutInv`: while a
  cluster is scanned, TopK merged candidates have upper bounds that the bound
  taken at its start covers, and merging more only adds to them.
  `SafeInIsSound` adds `SafeInInv`: the frontier, and the threshold of the
  cluster being scanned, have fewer than TopK closer candidates below them
  (`BelowFrontierIsTop`), and what is deferred keeps the upper bound it had.
* Its second part adds `AccountInv`: a scanned record is dropped,
  planned once, or held; what is emitted is planned, and nothing else in the
  budget heap is. From it follow `EveryCandidateIsAccounted` and the refinement
  `PlannerImplementsPlanFeed`. Three more invariants stand on it. `SurvivorInv`: nothing that
  is dropped has an estimate in the frontiers, so that what makes a record
  SafeOut is itself read (`TopRecordsReachReranking`). `BoundInv`: the heap has
  at most the budget, and before the end only early submissions are planned
  (`ReadsStayBounded`). `KeepInv`: each candidate is held with its estimate, or
  the heap is full of plans that are no worse; pruning an older or a newer plan
  keeps that, which gives `BudgetReadsTheBest`.

The planner's assumptions are `PlannerAssumption` (kinds of the constants),
`SingleAssignment` (a record is in one block), `Calibrated` (an estimate is
within its margins of the distance) and `InfIsLarge` (infinity exceeds every
bound). `Calibrated` is what "safe" means in this code: the builder calibrates
margins to a percentile, and for a record outside it neither `SafeOutSound` nor
`SafeInSound` is claimed. The accounting theorems do not need it for what they
say, but their proofs reuse `PlannerInv`, whose preservation does.

`AddressColumnProofs` proves that neither encoding of addresses loses one.
`RawTableRoundTrip`: decoding a raw address table gives back the addresses, for
every page size and number of records, when they are page-aligned and fit 32
bits. Its lemmas are about one address: division and multiplication by the page
size cancel, and the narrowing to 32 bits is idle. `PackedRoundTrip` says it of
the packed column, for addresses that also lie one after another. The bit width
found has room for every size (`MinBitWidth`, from `WordAssumption`: a word has
at most 32 bits); the prefix sums of the sizes are distances from the first page
of a block (`SumsAreDistances`); the counts per block add up to the total
(`BatchesCover`); and the blocks, cut every G records, join to the whole
(`FlattenCuts`).

`IndexLifecycleProofs` carries it to the program: `TableKeepsEveryAddress` for
`DataFile`, for any number of records of any sizes and any page size, and
`BuiltTableKeepsAddresses` for every build into a directory, after whatever
failed or was rebuilt before. The invariant is that the offset is a multiple of
the page size as long as the writer is usable (a failed write breaks it, and
ends it), that every issued address is page-aligned, and that each starts where
the last one ended, which is `RecordsAreAdjacent`. `BuildsUseDataFile` is the
refinement that lets the results about `DataFile` be used: every step of a build
is a step of `DatSpec` or leaves `data.dat` alone.

`RecordsStayStored` adds that, while the writer is usable, each issued address
holds the bytes of its record, in the file or in the stream (`RecordsInv`); a
later record is appended and disturbs none. `BuildInv` follows a build through
its files: what of each file is of this build, that `segment.meta` is written
last and names the files as they are, and that an index that is open holds the
files of one build. From it follow `OpenedIndexIsOneBuild`,
`AddressLeadsToItsRecord` (what `ReadRecord` returns for a table's address is
that record, or an error) and `FinishedBuildServesEveryRecord`. The assumptions
are `DataAssumption` (among it that rows have the fixed width the writer checks),
`RecordSizeAssumption` (a record is smaller than 2^32 bytes) and
`LifecycleAssumption`.

`IndexPartsProofs` proves `EveryRowReadsBack` of the columns. `ColumnsInv` says where each value
of each row lies: a fixed column stores value i at i times its width, the
offsets of a variable column are the sums of the lengths before, and a value
lies in the data region between two of them. `ColumnsAssumption` gives the
columns finitely many ids and values that are strings of bytes.

Its second part is about the first-stage scan, for every dimension, query and
block: `LanesSumOwnSigns` and `MasksFollowOwnDistance`. They have one hypothesis,
`LanesSuffice`: the low bytes that share a 16-bit lane, 255 at most each, add up
to less than 2^16. The code assumes it without a check; it holds for dimensions
to 1024 on AVX2 and to 2048 on AVX-512, and run `wide_vectors` shows the sums
wrong at 1600. The argument goes along the data. `PackedNibble`: position
and half of a packed byte lead to the nibble of the vector they are read for.
`TableFindsEntry`: so do the table's groups and planes, for 2 and for 4 groups in
an iteration. `EntryIsChosenSum`: an entry, with the group's least sum, is the sum
of the components its nibble chooses, and fits two bytes. `EvenSumIsShare`: taking
the odd byte's sum out of a lane leaves the even one's, since neither overflows.
`PlaneSumIsWhole` joins the shares of the lanes, `RawIsEntries` the planes, and
`IpRawIsProduct` the groups. `LaneIsNearest` bounds what quantising a component
loses, `ProductsAreClose` what it adds up to and `EstimatesAreClose` what that
does to a distance. Sums are handled by their running sums
(`TotalIs`), which gives linearity (`TotalLinear`), bounds (`TotalBounds`) and
grouping (`TotalInGroups`). `FastScanInv` is the invariant:
what was evaluated is of the query and the block that are still there, since
preparing or loading another discards it. `FastScanAssumption` gives the kinds
of the constants, a dimension that is a square (so that distances are whole
numbers) and fills whole iterations, and components that fit 16 bits in fours.

Its third part is about the rotation, for every draw of signs, shuffle and
number of rounds, and every dimension whose blocks have whole scales. `RotationsAreIsometries`: whatever a generator
returned preserves inner products (up to `ScaleSquared`), is undone by
`ApplyInverse`, and its fast transform is its matrix.
`LoadedRotationsRotateAlike`: what `Load` accepts, wherever the file was cut
off, was read from the whole file and rotates as the saved rotation does. The
two properties speak of the basis vectors and of one vector without symmetries,
which TLC can evaluate; `EveryVectorRotatesAlike` says the same of every vector,
and of the inner product of every two. `RotationInv` says that the builder's
rotation is one a generator makes (`Made`), the file a front part of its fields,
and what was loaded read from the file. The argument goes up from the
butterflies. An entry of the Hadamard matrix is a sign, the parity of the bits
its row and column have in common, and its rows are orthogonal
(`RowsOfWindows`); every level of `FWHT` makes of the transforms of parts those
of parts twice as long (`ButterfliesLevel`), so that after as many levels as the
window has bits the window is multiplied by that matrix. `GreedyIs` gives the
blocks of the dimension, powers of two that lie side by side, and
`BlocksIsometry` their transforms together; `WindowIsometry` is a window of
FHT-Kac with the rest scaled to match, `KacRoundIsometry` a round of it, with
the mix of the halves. Rounds are undone by going back through them
(`RoundsAdjoint`) and scale inner products alike (`RoundsScale`), so
`FoldIsometry` joins them for any number of rounds. Where the matrix is kept it
is that of the transformed basis vectors (`DenseIs`), and `RotatesGives` says
that the stored matrix and the fast transform are one. `RotationAssumption`
gives the generator's draws their kinds: signs, shuffles that are permutations,
matrices that are orthogonal. What the integer model cannot express is a guard
of the actions, `WholeScales`: blocks whose scale `sqrt(n)` is not whole are not
generated, and are not claimed about. Among the common dimensions that leaves out
96, 768 and 960 for the blocked kind, and 768 and 960 for FHT-Kac; the random and
the plain Hadamard kind have no such guard.

Its fourth part is about the routing, for any centroids, queries, block sizes
and settings, set in any order between the queries. `NearestAnswers` is
`AnswerIsNearest` and `RoutedAnswersAreCurrent` is `RoutedByCurrentHierarchy`.
`RoutingInv` says besides that the hierarchy is none or that of some grouping of
the clusters (`HierarchyOk`). That is enough: the cache's only key is the number
of super centroids, so a cached hierarchy that is used has the number the
settings ask for now (`EnsureIs`), whatever they were when it was trained. The
lemmas follow a query. `PackedPlace` and `PackedComponent`: a kernel reads a
component of a centroid where the packed layout has put it, and zeroes else, so
that a score is the inner product, negated (`PackedScores`). `SelectBest`: a
partial sort and a heap of fixed size both return n of the best in order, ties
in any order. `HierarchyIs`: the counting sort puts the children of each super
centroid in its own part of `child_ids` (`SortedPrefix`), each cluster once.
`FlattenDistinct` and `TopKOk`: what is pushed are the children of the super
centroids probed, none twice, and the heap holds the n best of them. Each child
is scored by its place in its super centroid's layout and gets its own distance
(`ScoredChildrenAre`, `ChildScoresAre`).
`SuperProbesIs`: the number probed, at least one, is all of them or as many as
hold the candidate budget. The assumptions are `RoutingAssumption` and
`WholeLengths`, the bound of the integer model: for cosine, vectors have whole
lengths. Nothing is assumed of the training; the theorem needs only that each
cluster gets one of the super centroids.

`ClusterStoreProofs` proves, for any number of clusters of any sizes and in each
layout of the ex region, that what is read of `cluster.clu` is what was written,
whichever write fails and wherever the builder dies. Its first half is about one
block: `BlockParses` says that `ParseClusterBlock`, on a block that is on the
disk whole, passes every check and gives back each code in its block and lane
(in the variable layout, over the table of offsets) and each address. Its second
half is about when a block is whole. `WriterInv` places the blocks: each entry
names a whole block, blocks lie one behind another beyond the table, and the one
in progress has its extent from `BeginCluster` on. `StreamInv` says which cells
are `Allowed` at an offset, on the disk or in a buffered write; with the places
disjoint, one cell at most is allowed in a block, which is
`BlocksNeverOverwritten`. Neither says in which order a block and the entry that
names it arrive. `PublishInv` does: after the first p buffered writes, for every
p, an entry that names a block is whole and so is its block. Stated of the disk
alone it would not be inductive, since `Flush` moves any p writes there.
`KeptInv` adds that, while no write but the path's has failed, nothing is
missing after all of them; `EndCluster` needs it for the block it publishes, and
`FinalizedFileComplete` is what it says of an empty buffer. `OpenInv` is the
reader's part: it opens a file only after the builder has returned or died, so
that the table it has read stays the file's. `LoadedIsWritten` follows from all
of them, and so does `ResidentIsTheFile`: where every entry can be read the table
is complete (`ReadableTable`), sorting it by block offset permutes it
(`OrderedPermutes`), and each region's place in the slab begins where those
before it have ended (`SlabPlaces`), so that none overwrites another
(`SlabHoldsRegions`). The assumptions are `StoreAssumption` and `AddressColumn`'s
`WordAssumption`.

Facts about recursive functions and about `FlattenSeq` are proved by induction
over a set of numbers (`SubsetInduction`) and from the existence of a function
defined by recursion (`RecursionExists`), both in `BasicLemmas`.

The folds of `Rotation` and `CoarseRouting` (levels, rounds, heaps) are taken
apart the same way: there is a sequence of intermediate values, each a step from
the one before (`StepsExist`, `HeapStepsExist`, `PushesExist`), and what every
step keeps, the last value has.

Only model-checked: liveness (`SearchAnswers`, `EveryReadDelivered`), for which
the prover has no fairness. Every invariant and action property of a passing run
is stated by a theorem, about its component's own specification; that the steps
of a component in the composition `IndexParts` are its own steps is by
definition.

## 5. Not modelled

File versions 7 to 11 of `cluster.clu`, the stage-1 envelope and the parallel
view of resident clusters, huge pages and direct I/O of the readers.

The inner products of multi-bit codes (`src/simd/ip_exrabitq.cpp`), which are
hand-unrolled variants of one sum, and the multi-bit estimators over them: their
error is the assumption `Calibrated` of the planner. ConANN calibration, k-means,
the calibrations of the builder and the training of super centroids: floating
point statistics, whose results are arbitrary choices or constants here. AVX and
MKL variants of a score, and the scalar remainder of FastScan for dimensions
that do not fill an iteration.

The duplicate filter of overlapping assignment, SQPOLL and IOPOLL (with SQPOLL
the queue may still be full after the auto-flush, which aborts), registration of
files and buffers, the vector arena, statistics, distances in `OverlapScheduler`.

Codecs, which are pure functions of one block tested against their inverses;
dataset readers; benchmarks and scripts. Two hazards outside the models: with
`top_k = 0` `TryInsert` reads the top of an empty heap
(`src/query/result_collector.cpp:16`); the migration benchmark clears the mark of raw
tables and so re-encodes addresses as a V1 column
(`benchmarks/migrate_cluster_clu_packedsign.cpp:116`), which `RecordsAreAdjacent`
shows to be possible for files this builder wrote. A moved `ClusterStoreReader` keeps
`file_version_` 0 (`src/storage/cluster_store.cpp:1422`); `Move` of
`ClusterStore` has it, and no property speaks of it.

## 6. Plan

Done, in this order: readers, buffer pool, overlap scheduler and their proofs;
read planner, its abstract feed and their proofs; cluster store and address
columns; data file, index directory and their proofs; routing, rotation,
columns, first-stage codes; the readers behind one interface, proved; proofs of
addresses, index directory, columns, cluster store, first-stage codes, rotation
and routing.

Next:

1. A composition of `ClusterStore` and `IndexLifecycle`, where one stands for a
   file of the other; overlapping assignment with its duplicate filter.
2. The multi-bit codes and their packed layout against their definition.
