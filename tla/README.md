# A verification project for streamhash

streamhash builds and reads minimal-perfect-hash index files: every key is
routed to a block by its prefix, each block is solved on its own, and a small
RAM index finds a block's metadata and its keys' payloads. The Go code is under
`src/`. This directory holds TLA+ models of its core, the TLC configurations
that check them on small instances, and TLAPS proofs about the builders, the
PTRHash solver and the reader. `PROJECT.json` records for every definition the source lines it
stands for.

Run a check with `tlc -config X.cfg M`, and the proofs of a module named
`...Proofs` with `tlapm M.tla`.

## 1. The system and its parts

| Component | Code | State it keeps | Operations |
|---|---|---|---|
| Index writer | `index_writer.go` | file, RAM index, metadata offset, streaming hashes, key and block counts | create, payload pwrite, metadata pwrite + RAM entry, finalize, close |
| Sorted builder, one worker | `builder.go` | current block, next block to write, keys added, closed | `AddKey`, `Finish`, `Close` |
| Sorted builder, several workers | `builder.go`, `builder_parallel.go` | the same, plus the entries of the block being filled | `AddKey`, `Finish`, `Close` |
| Worker pool and ordered writer | `builder_parallel.go` | `workChan`, `resultChan`, `writerDone`, worker context, errgroup, the writer's pending map | dispatch, build, emit in order, drain, shut down |
| Unsorted builder, write phase | `builder_unsorted.go` | per writer two buffers split into partition regions, cursors, uint16 block counts, sticky flush error, one file | `AddKey`, `AddKeys`, background flush, `Close` |
| Unsorted builder, Finish | `builder_unsorted_finish.go` | read slots, slot fences, reader goroutines, merged counts | in-memory path, single-threaded path, parallel path |
| PTRHash | `internal/ptrhash` | pilots, slot owners by generation, processed marks, ring of pinned buckets, heap, remap buffer | solve, evict, remap, retry, decode |
| Bijection | `internal/bijection` | buckets, cumulative counts, seeds, split seeds, fallback list; bit writer, Elias-Fano buffer and output buffers reused from block to block | `AddKey`, `BuildSeparatedInto`, `Reset`, `QuerySlot` |
| Entry encoding | `internal/encoding`, `key.go` | none | fingerprint and payload to entry bytes and back |
| Index reader | `index.go`, `header.go` | memory mapping, offsets derived from the header, closed | `Open`, `QueryRank`, `QueryPayload`, `QueryBatch`, `Verify`, `Close` |
| Keys, prehash, options, errors | `key.go`, `prehash.go`, `builder_options.go`, `internal/bits`, `internal/sherr` | none | pure functions |
| Platform layer, benchmark tool | `platform_*.go`, `madvise_*.go`, `cmd/bench` | none | system calls, measurement |

How they interact. The caller's goroutine runs the builder. With one worker it
builds and commits blocks inline. With several it sends `blockWork` items
through a bounded channel to the workers; a worker solves the block, pwrites its
payloads at an offset fixed at dispatch, and sends a `blockResult` to the writer
goroutine, which restores block order in a map and appends metadata and RAM
index entries. Errors travel three ways: the errgroup, the result's `buildErr`,
and `writerDone`, whose value the caller may consume early and keep in
`b.writerErr`. Any failure cancels `workerCtx`. The unsorted builder first
spills entries into partition files from double buffers with a background flush
per writer; its parallel Finish adds reader goroutines, slots that workers
borrow entries from, and fences that say when a slot may be overwritten.

What is hard here: interleavings of caller, workers, writer, readers and
flushes; cancellation at any point; one step of several failing; channels and
slots at their capacity; state reused from block to block (buffers, generations,
block builder); numbers that wrap (uint8 generations, uint16 counts, uint32 and
uint64 values read from a damaged file). `PROJECT.json` lists these hazards at
their lines with the properties that watch them.

What makes each part correct:

* builders: `Finish` returns nil only with a complete, correct index of exactly
  the accepted keys, and otherwise leaves no file; no failure is swallowed; no
  call hangs, no goroutine stays behind; no panic on a channel; no I/O on a file
  that is closed;
* block algorithms: whatever the buffers held before, the decoder sends the keys
  of a built block one to one onto its slots, where their entries are; any other
  key gets a slot of the block or an error; solving ends, and a failure names its
  cause;
* reader: queries answer what was built, no read leaves the mapping whatever the
  file contains, and `Verify` succeeds exactly on undamaged regions.

## 2. The modules

| Module | Models | Built on |
|---|---|---|
| `IndexWriter` | `index_writer.go`: the file under construction, and `IndexHolds`, what a reader relies on | |
| `WorkerPool` | workers, writer, channels, drain, shutdown, cleanup | `IndexWriter` |
| `ParallelSorted` | `SortedBuilder` with several workers | `WorkerPool` |
| `MCParallelSorted` | its worker symmetry, for TLC | `ParallelSorted` |
| `BuildOutcome` | the promise of every build mode (abstract) | |
| `ParallelSortedProofs` | theorems: types, channels, failures, refinement | `ParallelSorted`, `BuildOutcome` |
| `ParallelIndexProofs` | theorems: the file it writes, what the drain reports | `ParallelSortedProofs` |
| `SerialSorted` | `SortedBuilder` with one worker | `IndexWriter` |
| `SerialSortedProofs` | theorems: the file it writes, refinement | `SerialSorted`, `BuildOutcome` |
| `UnsortedReaders` | parallel Finish of the unsorted builder | `WorkerPool`, `BuildOutcome` |
| `UnsortedReadersProofs` | theorems: slots, fences, files, errors | `UnsortedReaders` |
| `UnsortedIndexProofs` | theorems: the file it writes, refinement | `UnsortedReadersProofs`, `BuildOutcome` |
| `UnsortedWriter` | writer buffers, background flushes, partition files | |
| `UnsortedBuilder` | unsorted builder with one build worker | `UnsortedWriter` |
| `UnsortedBuilderProofs` | theorems: entries, buffers, regions, files | `UnsortedBuilder` |
| `PtrHashSolver` | the PTRHash solver, retries, remap table, decoder | |
| `PtrHashSolverProofs` | theorems: placement, minimal perfection, termination | `PtrHashSolver` |
| `BucketOrder` | its counting sort and heap | |
| `BlockBuilder` | the contract of the block builder and decoder interfaces (abstract) | |
| `BitIO` | words, bytes and slices; bit writer and reader | |
| `EliasFano` | the code of the cumulative counts | `BitIO` |
| `SeedStream` | Golomb-Rice seed codes, fallback list | `EliasFano` |
| `BijectionSolver` | hash, seed search, splits, fallbacks | `SeedStream` |
| `EntryEncoding` | fingerprint and payload in an entry | `BitIO` |
| `BijectionBlock` | the Bijection builder and decoder | `BijectionSolver`, `EntryEncoding`, `BlockBuilder` |
| `MCBijection` | its key sets, for TLC | `BijectionBlock` |
| `IndexReader` | opening, querying and verifying an index file | |
| `MCIndexReader` | the symmetry of the keys | `IndexReader` |
| `IndexReaderProofs` | theorems: answers, reads, Verify | `IndexReader` |

Definitions whose comment begins *Seeded fault* are variants of the definition
that follows them, with a plausible mistake; no specification uses them. They
are listed under `mutants` in `PROJECT.json`, each with the property that a model
with that mistake violates.

### State and actions

**IndexWriter.** A block's metadata, payload bytes and payload hash are one
value, the block they came from (or `EmptyBlock`, since all empty blocks produce
the same bytes). The payload region has one cell per key. The streaming metadata
hash covers exactly the successful metadata writes, so `metadata` stands for
both; `payloadHash` has its own fold order. `IndexHolds(size)` is the reader's
view: one RAM entry per block and a sentinel, key ranges that tile the payload
region, one metadata record between consecutive offsets, hashes in block order.

**WorkerPool.** `wpc` and `writerPc` are the positions of the goroutines between
the points where they can block or be observed; a Go `select` is one disjunct
per ready case. `pc` is the dispatching goroutine, whose caller-specific steps
are in `ParallelSorted` and `UnsortedReaders`. `groupErr` is the errgroup's
first error, `workerDone` the cancellation of `workerCtx` by the group, the
writer or the caller's context. `failed` is a history variable: some block failed
to build or to be written. A worker's setup error cannot happen, since the same
constructor has already succeeded with the same parameters in `newBuilder`; the
fault hook of the tests is covered by a failing metadata write.

**ParallelSorted, SerialSorted.** A key is the block it routes to. Argument
errors (key length, payload size) change no state and are left out; a key out of
block order is modelled. The caller may go on after an error, add too many or too
few keys, and stop at any time. In `SerialSorted` the constant `RetriesWrites`
says whether the caller goes on after a failed write, where retries go wrong (see
the findings), and the blocks that cannot be built are fixed from the start,
because a retried build sees the same keys.

**UnsortedReaders.** Starts where `mergeBlockCounts` has succeeded (`path =
"files"`), or at the block loop of the in-memory path (`path = "memory"`), which
runs without readers and dispatches copies; its poll before the sort is the poll
of block 0. The check of `mergeBlockCounts`, that the counts add up to the declared
number of keys, is the existence of their running sum (`CountsAddUp`). A failing
`prepareForRead` has the effect of a failing first read, a failing cleanup of the
partition files that of a failing finalize. `slotsPerReader` is 2 in the code.

**UnsortedWriter, UnsortedBuilder.** An entry is named by writer, call and
block. `FlushPartition` is one pwrite of the background goroutine; the counts of
a block wrap at `countLimit` (2^16 in the code). A commit is abstracted to
appending the block's entries to `built`, since `SerialSorted` models commits.
After a failed buffer creation (`InitBufferFails`) the output file is already
closed, so no later call can complete an index.

**PtrHashSolver.** The hash is an arbitrary function from keys and pilots to
slots, chosen when a block begins. Blocks follow each other on one solver, the
keys of all of them together bounded by `MaxKeys`: a small block leaves its
tables, generation, ring and remap buffer to the next one. Keys are numbered
bucket by bucket, without loss of generality. The size-specialised copies of the
pilot search are one loop. The heap is the set of its buckets, popped largest
first; `BucketOrder` shows that the heap and the counting sort do that. The score
of a pilot, the summed squares of the sizes of the buckets it would evict, is the
number of pairs of keys that share such a bucket.
`genLimit` stands for 254 and `smallBucket` for 8. A pilot takes one byte and a
remap entry two, so `QuerySlot` is asked with metadata of every length from none
to whole. A bucket without a pilot ends the solve with a duplicate key or with
indistinguishable hashes: the code compares the keys' slot inputs, of which the model
has only the slots, so keys that share all slots may be either and others are never
called duplicates. Not modelled: the error for more than 2^16 slots, a wrap of the uint32
counter of the second search phase.

**Bijection.** The modules keep the code to the bit and scale its widths: a byte
has `ByteBits` bits, a word `WordBytes` bytes, a half of the hash `HashBits`
bits. A word is the set of its one-bits, which makes the shifts, masks and ORs of
the code set operations; a slice is a length and a set of bits. `BitIO` has the
bit writer and the reader with their different treatment of a full word;
`EliasFano` the encoder, which ORs into a reused buffer, and the two decoders;
`SeedStream` the codes, the marker for a seed that has none, and the list at the
end of the metadata that the decoder has to find. In `BijectionSolver` the
specialised solvers for 2 to 8 keys, the bitmask and the array version are one
definition: all look for the first seed under which the keys take different
slots. Seeds of split buckets are kept as pairs, which merges `seeds`,
`splitSeeds` and `splitSeedIdx`. `AddKeys` adds the keys of one bucket at a time,
since the order in which keys of different buckets arrive does not show. A failed
build leaves the builder in a state nobody may look at before `Reset`.
`decodeEliasFanoUnrolled`, the fallback decoder of the counts, is translated as the
stream of words it is, with its refills and reads across words; that it takes eight
elements at a time is left out. On what was written the decoder uses the ranged one
instead; `BucketsDecodedExactly` shows that both find the builder's counts. The slot in
a bucket is computed twice, as in the code: `slotWritten` places the entry,
`localSlot` finds it.

**IndexReader.** The file is its layout: where sections are, how long they are,
what in them is damaged. Addresses wrap at `Word` (2^64), block counts at
`BlockWord` (2^32), both scaled down with the sizes. What a damaged field holds is
taken from constants (`Totals`, `BlockCounts`, `Lengths`, `Counts`, `Slots`): a few
telling numbers in the run, any numbers of their width in the theorems. Where each
block's metadata starts is `metaOffset`, increasing by at least `MinMetadata`, since
an empty block has metadata too; two such blocks are what the margin in
`minFileSize` (`index.go:21-24`) counts on. The block decoder is exact
for the keys of intact metadata, finds a slot of the block or nothing for other keys,
and otherwise returns an arbitrary slot (`stray`) or either of its errors, which lookup
passes on. A damaged header may name the other algorithm or seed, or an unknown
algorithm, which Open rejects as it does a configuration for either. Operations on an
open index change nothing, so one per opening is enough. Concurrent use of
`Close` is documented as the caller's responsibility and not modelled.

## 3. The runs

All bounds are in the configurations; every run finishes in less than four
minutes on two workers. The type invariants of six modules are theorems
(section 4), and so are `FailureNotSwallowed` and `ImplementsBuildOutcome` of
`UnsortedReaders`; the runs list the type invariant of the parallel build, and
`BuildOutcome` for the sorted builds.

| Run | Configuration | Shows |
|---|---|---|
| `parallel_safety` | 3 blocks, 2 keys, 2 workers, channels of 2, 3 `AddKey`s, symmetric workers | types, a correct index on nil, no failure swallowed, committed payloads untouched, no write to a closed file, no channel panic, the drain reports the cause, `BuildOutcome` is implemented |
| `parallel_liveness` | 4 blocks over channels of 2 | every call returns, goroutines exit |
| `serial` | 3 blocks, 3 keys, a failing write; the caller stops after that, and may go on after other errors | correct index, `BuildOutcome` |
| `serial_retry` | the caller goes on after the failed write | **violation**, finding 2 |
| `readers_safety` | 3 partitions over 2 slots of one reader, or the blocks in memory; 2 workers | correct index, errors reported, borrowed slots not overwritten, no read from removed files |
| `readers_liveness` | one slot, blocks left behind with their fence | `Finish` returns |
| `readers_fences` | as `readers_safety` | **violation**, finding 1 |
| `unsorted` | 5 blocks in 3 partitions, 0, 2 or 3 keys by `AddKey` or 2 `AddKeys` writers, buffers of 3, regions of 2 on disk, counts that wrap at 2 | correct index, every accepted entry is in exactly one place at all times, no I/O on closed files, regions hold their own partition, the buffer being flushed and the slot being built from are stable |
| `ptrhash` | up to 3 keys in one block or in several on one solver, 3 buckets, 2 pilots, every hash | minimal perfect hash through the stored metadata, nothing forgotten, tables match pilots across blocks and generations, any key is answered inside the block from whole or truncated metadata, pinned bits match the ring, every solve ends |
| `bucket_order` | two blocks of 5 buckets, every heap | order by size, pop the largest |
| `reader` | 2 keys, 2 blocks, intact or with one of six kinds of damage, symmetric keys | queries correct, reads stay in the file, so does what prefetch advises, which covers them, `Verify` exact |
| `bijection` | two blocks on one builder, 6 buckets in segments of 2, bytes of 3 bits, words of 3 bytes, two entry layouts | `BlockBuilder` is implemented; counts and seeds decode exactly as built, from the checkpoint before them; strangers stay in the block; errors name their cause; the metadata bound suffices |

`parallel_safety` and `reader` use symmetry; their properties are invariants and step
properties, for which that is sound, and treat the workers, or the keys, alike.

Why the bounds are enough for the interesting cases: two workers and three
blocks give results out of order, a block dropped by a cancelled worker while
another succeeds, and full channels; four blocks over channels of two are needed
for workers to park on `resultChan` after the writer has stopped. Three
partitions over two slots reuse a slot. Buffers of three entries, one per
partition, fill both a region and a buffer, and can hold two keys without a
flush; three calls swap back to the first buffer, and two keys of one block wrap
a count of two. Three keys in three buckets give chains of evictions up to the
limit, overflow slots with holes, and retries (that every solve ends is stated as
a decreasing measure, `SolveProgresses`, which needs no fairness); three blocks
of one key, with a generation limit of three, start the generations over. The ring of
pinned buckets holds one bucket, because with two of three buckets pinned no eviction
goes on to the limit; for rings of any size there is the theorem `PinsExact`. For the
reader the smallest sizes keep every section distinguishable and every wrap
reachable.

For Bijection the key sets in `MCBijection` were chosen so that, under the real
mixing function at that width, every outcome of a bucket occurs: empty, one key,
direct with short and long codes, fallback, split with neither, either or both
halves in the fallback list, a fallback list at its limit, and the four ways to
fail. Codes and counts cross word boundaries, and every segment starts after
another one with any contents. The first block fills every buffer or fails; the
second is any of 2,268 combinations, so whatever a buffer keeps meets every kind
of block after it.

Fairness. Weak fairness on each goroutine's steps: the Go scheduler runs what can
run, a `select` with a ready case proceeds, and file operations return. Nothing
forces the caller to call, or its context to be cancelled, and no choice among
ready cases is assumed fair.

Deadlock is checked in every run but `bijection`, where a sequence of two blocks
without blocking calls ends: the models let a caller repeat calls on a closed
builder, which the code answers with an error, so a state without a successor is
a call that hangs. In `UnsortedBuilder`, whose calls contain no cycle of steps,
this shows that calls return; no liveness run is needed for it.

### Findings

1. `readers_fences` (`NoOrphanedFence`): `drainParallelPipeline` marks the pool
   as shut down before it waits (`builder_parallel.go:404`). When a block fails
   after the last dispatch, its error returns call `cleanup`, whose
   `shutdownWorkers` returns at once, so the loop that releases the fences of
   items left in `workChan` (`:454-458`) never runs and goroutines waiting for
   them stay. The comment at `:448-453` and `streamhash-spec.md:778` say they are
   released. `readers_liveness` shows that `Finish` returns all the same.
2. `serial_retry` (`RamIndexFitsLayout`): `recordAndWriteMetadata`
   appends the RAM index entry before the write that may fail
   (`index_writer.go:159`). A caller that adds the key again after the error ends
   with N+2 entries in a layout for N+1 (`index_writer.go:14`) and a nil
   `Finish`. `serial` shows that a caller who stops after a failed write, as the
   one in the package's example does, never gets a wrong index, and that going on
   after any other error is harmless.

## 4. The proofs

Eight modules hold theorems, each for every value of the constants that the named
assumptions of the component's modules allow (`IndexWriterAssumption`,
`WorkerPoolAssumption`, ...: at least two blocks, at least one or two workers,
nonempty buffers and the like; for the reader, that a written file can be
addressed and is no shorter than Open asks for). Nothing else is assumed, with one exception that
is part of the statement: `SerialIndexCorrect`.

No property is inductive as it stands. Every module therefore defines an inductive
invariant as a conjunction of named parts, proves that `Init` implies it and that
a step of `[Next]_vars` preserves each part, mostly with one lemma per part and
one case per action, and derives the theorems from it. Each of these invariants
was first checked with TLC as an invariant of the component's run.

| Module | Theorem | States |
|---|---|---|
| `ParallelSortedProofs` | `TypeCorrect` | `Spec => []TypeOK` |
| | `ChannelSafety` | `Spec => []NoChannelPanic` |
| | `FileSafety` | `Spec => []NoWriteToClosedFile` |
| | `NoFailureSwallowed` | `Spec => []FailureNotSwallowed` |
| | `ParallelRefinesBuildOutcome` | `Spec => ImplementsBuildOutcome` |
| `ParallelIndexProofs` | `ParallelIndexCorrect` | `Spec => []IndexCorrect` |
| | `PayloadsStay` | `Spec => []CommittedBlocksIntact` |
| | `DrainCauseCorrect` | `Spec => []DrainReportsFailure` |
| `SerialSortedProofs` | `SerialTypeCorrect` | `Spec => []TypeOK` |
| | `SerialIndexWithoutFaults` | `Spec => [](ioFaults = 0 => IndexCorrect)` |
| | `SerialIndexCorrect` | `Spec => []IndexCorrect`, if `~RetriesWrites` |
| | `SerialRefinesBuildOutcome` | `Spec => ImplementsBuildOutcome` |
| `UnsortedBuilderProofs` | `UnsortedTypeCorrect` | `Spec => []TypeOK` |
| | `NothingLostOnTheWay` | `Spec => []EntriesHeldOnce` |
| | `RegionsSeparate` | `Spec => []RegionsHoldTheirPartition` |
| | `FilesOpenUnderIO` | `Spec => []NoIOOnClosedFiles` |
| | `FlushUndisturbed` | `Spec => FlushedBufferStable` |
| | `ReadAheadApart` | `Spec => BlocksInUseStable` |
| `UnsortedReadersProofs` | `ReadersTypeCorrect` | `Spec => []TypeOK` |
| | `SlotsFenced` | `Spec => []SlotsNotOverwritten` |
| | `FilesOutliveReaders` | `Spec => []NoReadFromRemovedFiles` |
| | `GivingUpIsReported` | `Spec => []FailureIsReported` |
| `UnsortedIndexProofs` | `ReadersIndexCorrect` | `Spec => []IndexCorrect` |
| | `ReadersSwallowNoFailure` | `Spec => []FailureNotSwallowed` |
| | `ReadersRefineBuildOutcome` | `Spec => ImplementsBuildOutcome` |
| `PtrHashSolverProofs` | `SolverTypeCorrect` | `Spec => []TypeOK` |
| | `EvictionsExact` | `Spec => []SlotsMatchPilots` |
| | `SolveForgetsNothing` | `Spec => []NothingForgotten` |
| | `PinsExact` | `Spec => []PinnedMatchesRing` |
| | `SolvedBlocksPerfect` | `Spec => []MinimalPerfect` |
| | `QueriesInBounds` | `Spec => []QueriesStayInBlock` |
| | `SolveAlwaysProgresses` | `Spec => SolveProgresses` |
| `IndexReaderProofs` | `ReaderTypeCorrect` | `Spec => []TypeOK` |
| | `ReadsInBounds` | `Spec => []ReadsStayInFile` |
| | `IntactIndexAnswers` | `Spec => []QueriesCorrect` |
| | `VerifyNoticesDamage` | `Spec => []VerifyExact` |

**ParallelSortedProofs.** `IInv` is the conjunction of

* `TypeInv`: types, and that sorted work items carry no fence;
* `OrderInv`: how the block being filled, the next block to write and the last
  key's block are ordered, so that blocks are dispatched in order without gaps;
* `ChannelInv`: who has closed which channel, where the dispatching goroutine is
  then, and who may still use the file; gives the channel and file theorems;
* `FailureInv`: a failure is always somewhere on its way to `Finish` - in a
  worker, in the errgroup, in `writerDone`, in `writerErr` - or the build is
  being torn down;
* `WriterInv`, `ExitInv`: the writer has committed exactly the blocks before
  `nextBlockID` and stops only with an error or with nothing left; a worker that
  exits without error leaves no work;
* `BlocksInv`: the heart of the refinement. Every dispatched block is *located*
  somewhere (committed, reordered, in a channel, with a worker, in the select),
  or the build is *doomed*: a trace of failure exists that `Finish` must meet, or
  a cancelled item is still to be seen by a worker who will fail on it. When the
  drain reaches finalize neither doom nor any place but the index is possible,
  so all blocks are committed (`AllCommitted`).

**ParallelIndexProofs.** `IndexInv` adds to it what the file contains. `CountInv`
relates the builder's counters to the accepted keys. `LayoutInv` says that there
is a function `start` with `start[b]` the number of keys before block `b`, as far
as blocks are dispatched, such that every work item, result and RAM index entry
agrees with it, and every block whose worker has reported success has its payloads
in the cells `start[b]` to `start[b + 1] - 1`. The function is quantified, not
summed up: a step extends the witness at one point, and no induction is needed.
Since `start` does not decrease, two blocks share no cell, and the pwrites of
workers that finish in any order leave each other alone. `CauseInv` follows the
reason of a cancellation.

**SerialSortedProofs.** `SerialInv` has the same content for one goroutine.
`Pending` counts the keys the block builder holds for a block that is not
committed; after a commit it still holds the old block's until it is reset, which
is why the counters alone do not determine it. `LayoutInv` holds while no write
has failed. `SerialIndexCorrect` has the hypothesis `RetriesWrites = FALSE`, the
caller of the package's example; without it the statement is false (finding 2).
The refinement holds for both callers.

**UnsortedBuilderProofs.** `UnsortedInv` has seven parts. `ControlInv` relates
the call in progress to the writers: who can still have a flush running, and on
which paths of Finish none can. `FilesInv` derives which files are open.
`BufferInv` says that the buffer being flushed is not the active one, unless
`flushAll` writes it, and that buffered entries lie in the region of their
partition; `FileInv` says the same of the file, cell by cell. `HeldInv` is
`EntriesHeldOnce` without regard to open files, with the number of the newest
entry: written entries, entries left to doFlush and buffered ones, joined in
that order, are exactly what the writer has accepted. Adding a key appends to
this sequence, and a flush only moves the borders between its three parts.
`BuiltInv` bounds the committed blocks by the place in the loop over partitions.
Sizes are arbitrary, so the theorems hold for every memory budget.

**UnsortedReadersProofs.** The argument of `SlotsFenced` is `FenceInv`: the
counter of a fence is the number of blocks whose items still refer to its slot,
in the channel, with a worker or in the select. It needs `ItemsInv` (items are
different blocks, so that counting blocks counts items), `SlotInv` (a slot being
filled, queued, dispatched from or referred to is not ready for the next reader
and holds the partition its user believes) and `StrideInv` (the partition queued
or read next by a reader is its own next one, so the dispatching goroutine takes
partitions in order). `LeaveInv` and `CauseInv` give `GivingUpIsReported`: a
result channel closed early means a cancelled context or a queued error.

**UnsortedIndexProofs.** `IndexInv` adds to `ReadersInv`

* `PipelineInv`: the order of the teardown - workers, then writer, then file
  (`StageInv`); a failure is always on its way to Finish (`FailureInv`); the writer
  commits in order and stops with an error or with nothing left (`WriterInv`); a
  worker that leaves without error leaves no work (`ExitInv`); and every dispatched
  block is *located* in a channel, with a worker, reordered or committed, or Finish
  is bound to fail (`BlocksInv`), so that finalize is reached only with every block
  committed;
* `LayoutInv`: all sizes are known before the first block is dispatched, so unlike
  in the sorted build `start` is fixed: it is the running sum `CountsAddUp` speaks
  of. That a running sum does not decrease would take induction over blocks; the
  invariant claims it only up to the block the loop has reached, and each
  dispatched block extends it by one. Nothing after that block has been placed, so
  no more is needed to keep the cells of two blocks apart;
* `OkInv`: what a nil Finish left behind; with `LayoutInv` this is `IndexHolds`.

The readers appear in none of these parts: their steps, and those of the fences,
change neither the pipeline nor the loop (`QuietFrame`).

**PtrHashSolverProofs.** `PlacementInv` ties the slot table to the pilots: the
taken slots are those of the placed buckets, whose keys they separate, and every
bucket is placed, in the heap or still to come; `GenInv` says that no mark of a
later generation exists, so a new generation empties the tables without touching
them. A solved block has as many taken slots as keys, so the overflow slots and
the holes below `numKeys` are equally many; `Ranks` shows that counting the smaller
elements of a finite ordered set numbers it, hence `buildRemap` sends overflow
slots one to one onto holes, and with the metadata as stored this is
`MinimalPerfect`. `SolveAlwaysProgresses` states the decreasing measure that
`SolveProgresses` checks, from `EvictInv`.

**IndexReaderProofs.** `ReaderInv` has four parts. `BuiltInv` is what the builders
left: slots that number the keys of each block, increasing metadata offsets.
`FileInv` says what each kind of damage left alone; unless lengths, counts or the
RAM index are damaged, the file is `LaidOut`: the offsets the reader computes are
those `finalize` wrote at, and nothing wraps. `OpenInv` says that an open index has
passed the checks of Open, and `ResultInv` what the last operation answered and
read. `ReadsInBounds` uses only what Open, lookup and Verify themselves check, never
`LaidOut`. For `IntactIndexAnswers`, counting the keys before each block and adding
slots gives every key a rank of its own below the number of keys; as many different
ranks as keys are all of them; other keys get a slot of a block that holds keys, so
their entries are in the file too. `VerifyNoticesDamage` shows that a damaged entry
changes what its block's hash is taken of, and that there always is metadata to hash.

What stays with TLC, and why:

* the liveness properties: fairness and ENABLED are out of the prover's reach;
* `IndexCorrect` of `UnsortedBuilder`: the read phase folds over sequences and
  sums counts (`FoldLeft`, `FlattenSeq`, `MapThenSumSet`), which needs induction
  over data. What the theorems give up to there is that the files hold exactly the
  accepted entries when the read phase starts, and that slots are stable;
* `BucketOrder`, written with recursive operators, and what the loops of `BitIO`,
  `EliasFano` and `SeedStream` compute for every input;
* `PrefetchCorrect` of `IndexReader`: sorting and joining ranges are folds;
* the properties of `BijectionBlock`, whose codes are read and written by recursive
  operators over bits and words;
* the two violations, which are counterexamples.

## 5. Not modelled

* The chunk loop of `readRegion`, the byte layout of header and footer, key
  hashing (an external function) and routing to blocks, option validation,
  algorithm constructors: pure functions without state.
* Bijection metadata that is damaged or cut short, and the padding paths of the
  decoder that only such metadata reaches; `IndexReader` takes any answer of a
  decoder on damaged metadata.
* The payload region of PTRHash, written by the loop `BijectionBlock` models.
* The writer's pending map has no bound in the code, so none is stated; a failed
  preallocation leaves its file behind before a builder exists.
* System calls, memory advice, the benchmark tool.

## 6. Plan

Done, in this order: `IndexWriter`, `WorkerPool`, `ParallelSorted`,
`BuildOutcome` and the proofs; `SerialSorted`; `UnsortedReaders`;
`UnsortedWriter` and `UnsortedBuilder`; `PtrHashSolver` and `BucketOrder`;
`IndexReader`; the Bijection modules with `BlockBuilder`; stored metadata and
block sequences in `PtrHashSolver`; the in-memory path in `UnsortedReaders`.

Then the proofs of section 4, after `ParallelSortedProofs`: the index the
parallel build writes, `SerialSorted`, `PtrHashSolver`, `UnsortedReaders`,
`UnsortedBuilder`, `IndexReader`, and the index the parallel Finish of the unsorted
builder writes.

What a next step could be: `IndexCorrect` of `UnsortedBuilder` from the theorems
about its files, once the read phase is stated without folds - as a bijection
between the entries of a partition and the places of a slot - and that form is
shown by TLC to be what the loops compute.
