---------------------------- MODULE UnsortedBuilder ----------------------------
(***************************************************************************)
(* The unsorted builder with one build worker: ingestion through AddKey or *)
(* AddKeys, and Finish along its fast path (nothing was flushed) or its    *)
(* single-threaded path (partitions read back with one read-ahead          *)
(* goroutine), with the cleanups of every error path.                      *)
(*                                                                         *)
(* Committing a block is abstracted to appending the entries it was built  *)
(* from to `built'; SerialSorted models what a commit does to the file.    *)
(***************************************************************************)
EXTENDS UnsortedWriter, SequencesExt

CONSTANTS Totals,                    \* what the caller may declare as totalKeys
          blockContextCheckInterval  \* blocks between two polls of ctx in Finish

ASSUME UnsortedBuilderAssumption ==
    /\ Totals \subseteq Nat /\ Totals # {} /\ IsFiniteSet(Totals)
    /\ blockContextCheckInterval \in Nat \ {0}

VARIABLES totalKeys,   \* cfg.totalKeys
          mode,        \* addKeyUsed, addKeysUsed or neither
          initialized, \* ub.initialized
          filesOpen,   \* the writer files of ub.unsortedBuf
          closed,      \* b.closed
          ctxDone,     \* the caller's context is cancelled
          callbackErr, \* callbacks of AddKeys that returned an error
          pc,          \* where the call in progress is
          blockCount,  \* u.mergedBlockCounts, one count per block
          sorted,      \* the fast path's entries by block
          slots,       \* u.readSlots
          part,        \* the partition blocks are built from
          local,       \* blocks built of it
          ahead,       \* the read-ahead of the next partition
          built,       \* committed blocks, each the entries it was built from
          fileOpen,    \* iw.file # nil
          output,      \* what is at the output path
          outcome      \* how the build ended

finishVars == <<blockCount, sorted, slots, part, local, ahead, built>>
fileVars == <<fileOpen, output, outcome>>
vars == <<writeVars, totalKeys, mode, initialized, filesOpen, closed, ctxDone, callbackErr,
          pc, finishVars, fileVars>>

(* Cells of a slot's flatBuf, enough for any partition and any counts. *)
maxEntries == Max({numWriters * regionEntries} \cup Totals)
NoSlot == [flat |-> [i \in 0 .. maxEntries - 1 |-> NoEntry],
           start |-> [b \in Blocks |-> 0], count |-> [b \in Blocks |-> 0]]

(* Type invariant; no region of a buffer holds more than regionCap entries. *)
TypeOK ==
    /\ WriterTypeOK
    /\ totalKeys \in Totals
    /\ mode \in {"none", "AddKey", "AddKeys"}
    /\ initialized \in BOOLEAN /\ filesOpen \in BOOLEAN /\ closed \in BOOLEAN
    /\ ctxDone \in BOOLEAN /\ callbackErr \subseteq Writers
    /\ pc \in {"idle", "ingest", "flushAll", "fast", "empty", "read", "blocks", "abort",
               "cleanup", "finalize"}
    /\ part \in Partitions /\ local \in 0 .. blocksPerPart
    /\ ahead \in {"none", "reading", "ok", "failed"}
    /\ Len(built) <= NumBlocks
    /\ fileOpen \in BOOLEAN
    /\ output \in {"partial", "final", "removed"}
    /\ outcome \in {"building", "ok", "failed"}

Init ==
    /\ WriterInit
    /\ totalKeys \in Totals
    /\ mode = "none" /\ initialized = FALSE /\ filesOpen = FALSE
    /\ closed = FALSE /\ ctxDone = FALSE /\ callbackErr = {} /\ pc = "idle"
    /\ blockCount = [b \in Blocks |-> 0]
    /\ sorted = [b \in Blocks |-> <<>>]
    /\ slots = [s \in 0 .. 1 |-> NoSlot]
    /\ part = 0 /\ local = 0 /\ ahead = "none" /\ built = <<>>
    /\ fileOpen = TRUE /\ output = "partial" /\ outcome = "building"

--------------------------------------------------------------------------------
(* Ingestion. *)

(* initBuffer fails: the output is removed, and the builder is left open. *)
InitBufferFails(m) ==
    /\ pc = "idle" /\ ~closed /\ ~initialized /\ mode \in {"none", m}
    /\ mode' = m
    /\ fileOpen' = FALSE /\ output' = "removed"
    /\ UNCHANGED <<writeVars, initialized, filesOpen, closed, totalKeys, ctxDone,
                   callbackErr, pc, finishVars, outcome>>

(* UnsortedBuilder.AddKey, the first call's initBuffer included; the flush it may
   have to wait for is Flush of writer 0. *)
AddKeyCall(b) ==
    /\ pc = "idle" /\ ~closed /\ mode \in {"none", "AddKey"}
    /\ AddKey(0, b, ctxDone)
    /\ mode' = "AddKey" /\ initialized' = TRUE
    /\ filesOpen' = (filesOpen \/ ~initialized)
    /\ UNCHANGED <<closed, totalKeys, ctxDone, callbackErr, pc, finishVars, fileVars>>

(* AddKeys starts its writers. *)
AddKeys ==
    /\ pc = "idle" /\ ~closed /\ mode \in {"none", "AddKeys"}
    /\ mode' = "AddKeys" /\ initialized' = TRUE /\ filesOpen' = TRUE
    /\ pc' = "ingest"
    /\ UNCHANGED <<writeVars, closed, totalKeys, ctxDone, callbackErr, finishVars,
                   fileVars>>

(* The callback of writer w adds a key. *)
CallbackAddKey(w, b) ==
    /\ pc = "ingest"
    /\ AddKey(w, b, ctxDone)
    /\ UNCHANGED <<mode, initialized, filesOpen, closed, totalKeys, ctxDone, callbackErr,
                   pc, finishVars, fileVars>>

(* The callback returns, with or without an error, and the writer is closed. *)
CallbackReturns(w) ==
    /\ pc = "ingest" /\ wpc[w] = "idle"
    /\ wpc' = [wpc EXCEPT ![w] = "closing"]
    /\ callbackErr' \in {callbackErr, callbackErr \cup {w}}
    /\ UNCHANGED <<bufs, activeBuf, flushBuf, flushTodo, flushErr, file, cursors,
                   blockCounts, flushed, pending, calls, keyCounter, keysAdded, accepted,
                   mode, initialized, filesOpen, closed, totalKeys, ctxDone, pc,
                   finishVars, fileVars>>

TotalKeysAdded == MapThenSumSet(LAMBDA w : keysAdded[w], Writers)

(* Finish, up to the path it takes. *)
FinishPath ==
    CASE TotalKeysAdded # totalKeys -> "cleanup"
      [] TotalKeysAdded = totalKeys /\ ~initialized -> "empty"
      [] TotalKeysAdded = totalKeys /\ initialized /\ ~flushed -> "fast"
      [] OTHER -> "flushAll"

(* The fast path collects what the writers still hold, AddKeys' having freed
   their buffers on close, and sorts it by block. *)
Collected ==
    IF mode = "AddKeys" THEN <<>>
    ELSE FlattenSeq([i \in 1 .. numPartitions |-> Active(0)[i - 1]])

StartFinish ==
    /\ closed' = TRUE
    /\ pc' = FinishPath
    /\ sorted' = IF FinishPath = "fast"
                   THEN [b \in Blocks |-> SelectSeq(Collected, LAMBDA e : e.block = b)]
                   ELSE sorted
    /\ wpc' = IF FinishPath = "flushAll" /\ mode = "AddKey"
                THEN [wpc EXCEPT ![0] = "closing"] ELSE wpc
    /\ UNCHANGED <<bufs, activeBuf, flushBuf, flushTodo, flushErr, file, cursors,
                   blockCounts, flushed, pending, calls, keyCounter, keysAdded, accepted,
                   mode, initialized, filesOpen, totalKeys, ctxDone, callbackErr,
                   blockCount, slots, part, local, ahead, built, fileVars>>

Finish ==
    /\ pc = "idle" /\ ~closed /\ wpc[0] = "idle"
    /\ StartFinish

(* The goroutine of writer w has called wg.Done. *)
WriterReturned(w) == wpc[w] \in {"done", "failed"}

(* errors.Join of the callbacks' errors and of the errors of closing the writers. *)
WritersSucceeded == callbackErr = {} /\ \A w \in Writers : wpc[w] = "done"

(* wg.Wait of AddKeys, then Finish, or Close when a writer failed. *)
WritersJoined ==
    /\ pc = "ingest" /\ \A w \in Writers : WriterReturned(w)
    /\ IF WritersSucceeded
         THEN StartFinish
         ELSE /\ closed' = TRUE /\ pc' = "cleanup"
              /\ UNCHANGED <<writeVars, mode, initialized, filesOpen, totalKeys, ctxDone,
                             callbackErr, finishVars, fileVars>>

Close ==
    /\ pc = "idle" /\ ~closed /\ wpc[0] = "idle"
    /\ closed' = TRUE /\ pc' = "cleanup"
    /\ UNCHANGED <<writeVars, mode, initialized, filesOpen, totalKeys, ctxDone,
                   callbackErr, finishVars, fileVars>>

(* A call on the closed builder returns at once. *)
CallAfterClose ==
    /\ pc = "idle" /\ closed
    /\ UNCHANGED vars

(* Seeded fault: the files are closed under a running background flush. *)
DrainedUnwaited == TRUE

(* drainFlush of every writer. *)
Drained == \A w \in Writers : FlushDone(w)

(* cleanupAll. *)
CleanupAll ==
    /\ pc = "cleanup" /\ Drained
    /\ filesOpen' = FALSE
    /\ fileOpen' = FALSE /\ output' = "removed" /\ outcome' = "failed"
    /\ pc' = "idle"
    /\ UNCHANGED <<writeVars, mode, initialized, closed, totalKeys, ctxDone, callbackErr,
                   finishVars>>

UserCancel ==
    /\ ~ctxDone
    /\ ctxDone' = TRUE
    /\ UNCHANGED <<writeVars, mode, initialized, filesOpen, closed, totalKeys,
                   callbackErr, pc, finishVars, fileVars>>

--------------------------------------------------------------------------------
(* The read phase. *)

MergedCounts ==
    [b \in Blocks |-> MapThenSumSet(LAMBDA w : blockCounts[w][b], Writers)]

(* Seeded fault: the merged counts are trusted. *)
CountsAddUpTrusted == TRUE

(* The check of mergeBlockCounts. *)
CountsAddUp == MapThenSumSet(LAMBDA b : MergedCounts[b], Blocks) = totalKeys

(* finishUnsorted after flushAll: merge the counts and free the write buffers. *)
MergeBlockCounts ==
    /\ pc = "flushAll"
    /\ mode = "AddKey" => wpc[0] \in {"done", "failed"}
    /\ blockCount' = MergedCounts
    /\ pc' = IF wpc[0] # "failed" /\ CountsAddUp THEN "read" ELSE "cleanup"
    /\ UNCHANGED <<writeVars, mode, initialized, filesOpen, closed, totalKeys, ctxDone,
                   callbackErr, sorted, slots, part, local, ahead, built, fileVars>>

FirstBlock(p) == p * blocksPerPart
LocalBlocks(p) == Max({0, Min({FirstBlock(p) + blocksPerPart, NumBlocks}) - FirstBlock(p)})

(* What readRegion yields for one writer and partition. *)
Region(w, p) == [i \in 1 .. cursors[w][p] |-> file[w][p * regionEntries + i - 1]]

(* readPartition: the blocks' slices of flatBuf follow from the merged counts,
   and every entry is put at the cursor of its block.  A partition without data
   leaves the slot alone and yields fresh empty slices. *)
ReadPartition(p, slot) ==
    LET blocks == {b \in Blocks : PartitionOf(b) = p}
        start == [b \in Blocks |->
                    MapThenSumSet(LAMBDA c : blockCount[c], {c \in blocks : c < b})]
        entries == FlattenSeq([i \in 1 .. numWriters |-> Region(i - 1, p)])
        put(a, e) == [flat |-> [a.flat EXCEPT ![a.cursor[e.block]] = e],
                      cursor |-> [a.cursor EXCEPT ![e.block] = @ + 1]]
    IN  IF entries = <<>>
          THEN [slot EXCEPT !.count = [b \in Blocks |-> 0]]
          ELSE [flat |-> FoldLeft(put, [flat |-> slot.flat, cursor |-> start], entries).flat,
                start |-> start, count |-> blockCount]

(* Seeded fault: the read-ahead goroutine reads into the slot in use. *)
AheadSlotSame(p) == (p - 1) % 2

AheadSlot(p) == p % 2

(* The next partition is read in the background once blocks are built from p. *)
StartPartition(p) ==
    /\ part' = p /\ local' = 0
    /\ ahead' = IF p + 1 < numPartitions THEN "reading" ELSE "none"
    /\ pc' = "blocks"

(* finishUnsortedSingleThreaded reads the first partition itself. *)
ReadFirst ==
    /\ pc = "read"
    /\ \/ /\ slots' = [slots EXCEPT ![0] = ReadPartition(0, slots[0])]
          /\ StartPartition(0)
       \/ \* the read fails
          /\ pc' = "cleanup"
          /\ UNCHANGED <<slots, part, local, ahead>>
    /\ UNCHANGED <<writeVars, mode, initialized, filesOpen, closed, totalKeys, ctxDone,
                   callbackErr, blockCount, sorted, built, fileVars>>

(* The read-ahead goroutine. *)
ReadAhead ==
    /\ ahead = "reading"
    /\ \/ /\ LET s == AheadSlot(part + 1)
             IN  slots' = [slots EXCEPT ![s] = ReadPartition(part + 1, slots[s])]
          /\ ahead' = "ok"
       \/ ahead' = "failed" /\ UNCHANGED slots
    /\ UNCHANGED <<writeVars, mode, initialized, filesOpen, closed, totalKeys, ctxDone,
                   callbackErr, pc, blockCount, sorted, part, local, built, fileVars>>

(* The entries block b is built from, sliced from the slot or from the fast
   path's sorted copy. *)
BlockEntries(b) ==
    LET slot == slots[part % 2]
    IN  IF pc = "fast" THEN sorted[b]
        ELSE IF pc = "empty" THEN <<>>
        ELSE [i \in 1 .. slot.count[b] |-> slot.flat[slot.start[b] + i - 1]]

(* buildBlock or commitEmptyBlock for block b, where the build or a write may
   fail, and must when an earlier cleanup has closed the file. *)
Commit(b, next, abort) ==
    \/ /\ fileOpen
       /\ built' = Append(built, BlockEntries(b))
       /\ pc' = next
    \/ /\ pc' = abort
       /\ UNCHANGED built

(* Finish polls the context before every blockContextCheckInterval-th block. *)
Cancelled(b) == ctxDone /\ b % blockContextCheckInterval = 0

(* One block of the single-threaded path. *)
BuildBlock ==
    LET b == FirstBlock(part) + local
    IN  /\ pc = "blocks" /\ local < LocalBlocks(part)
        /\ IF Cancelled(b)
             THEN pc' = "abort" /\ UNCHANGED <<built, local>>
             ELSE Commit(b, "blocks", "abort") /\ local' = local + 1
        /\ UNCHANGED <<writeVars, mode, initialized, filesOpen, closed, totalKeys,
                       ctxDone, callbackErr, blockCount, sorted, slots, part, ahead,
                       fileVars>>

(* wg.Wait for the read-ahead goroutine. *)
ReadAheadJoined == ahead # "reading"

(* The end of a partition: take over the read-ahead, or end the read phase. *)
PartitionDone ==
    /\ pc = "blocks" /\ local >= LocalBlocks(part) /\ ReadAheadJoined
    /\ \/ /\ part + 1 < numPartitions /\ ahead = "ok"
          /\ StartPartition(part + 1)
          /\ UNCHANGED filesOpen
       \/ /\ part + 1 < numPartitions /\ ahead = "failed"
          /\ pc' = "cleanup"
          /\ UNCHANGED <<part, local, ahead, filesOpen>>
       \/ /\ part + 1 >= numPartitions
          /\ filesOpen' = FALSE
          /\ pc' = "finalize"
          /\ UNCHANGED <<part, local, ahead>>
    /\ UNCHANGED <<writeVars, mode, initialized, closed, totalKeys, ctxDone, callbackErr,
                   blockCount, sorted, slots, built, fileVars>>

Abort ==
    /\ pc = "abort" /\ ReadAheadJoined
    /\ pc' = "cleanup"
    /\ UNCHANGED <<writeVars, mode, initialized, filesOpen, closed, totalKeys, ctxDone,
                   callbackErr, finishVars, fileVars>>

(* One block of the fast path, or of the empty index of a builder that never got
   a key, which does not poll the context. *)
BuildFromMemory ==
    LET b == Len(built)
    IN  /\ pc \in {"fast", "empty"}
        /\ IF b = NumBlocks
             THEN /\ filesOpen' = FALSE /\ pc' = "finalize" /\ UNCHANGED built
             ELSE /\ IF pc = "fast" /\ Cancelled(b)
                       THEN pc' = "cleanup" /\ UNCHANGED built
                       ELSE Commit(b, pc, "cleanup")
                  /\ UNCHANGED filesOpen
        /\ UNCHANGED <<writeVars, mode, initialized, closed, totalKeys, ctxDone,
                       callbackErr, blockCount, sorted, slots, part, local, ahead,
                       fileVars>>

(* finalizeIndex. *)
FinalizeIndex ==
    /\ pc = "finalize"
    /\ pc' = "idle"
    /\ fileOpen' = FALSE
    /\ \/ output' = "final" /\ outcome' = "ok"
       \/ output' = "removed" /\ outcome' = "failed"
    /\ UNCHANGED <<writeVars, mode, initialized, filesOpen, closed, totalKeys, ctxDone,
                   callbackErr, finishVars>>

--------------------------------------------------------------------------------
WriterStep(w) ==
    /\ FlushStep(w)
    /\ UNCHANGED <<mode, initialized, filesOpen, closed, totalKeys, ctxDone, callbackErr,
                   pc, finishVars, fileVars>>

CallerStep ==
    \/ \E b \in Blocks : AddKeyCall(b)
    \/ \E m \in {"AddKey", "AddKeys"} : InitBufferFails(m)
    \/ AddKeys \/ Finish \/ Close \/ CallAfterClose \/ UserCancel

CallbackStep(w) == CallbackReturns(w) \/ \E b \in Blocks : CallbackAddKey(w, b)

BuilderStep ==
    \/ WritersJoined \/ CleanupAll \/ MergeBlockCounts \/ ReadFirst \/ BuildBlock
    \/ PartitionDone \/ Abort \/ BuildFromMemory \/ FinalizeIndex

Next ==
    \/ CallerStep
    \/ BuilderStep
    \/ ReadAhead
    \/ \E w \in Writers : WriterStep(w) \/ CallbackStep(w)

Spec == Init /\ [][Next]_vars

--------------------------------------------------------------------------------
(* Properties. *)

(* When Finish or AddKeys returns nil, every block was built, in block order, from
   exactly the entries whose addKey returned nil, each once, whichever buffer,
   flush, region and writer file they went through. *)
IndexCorrect ==
    outcome = "ok" =>
        /\ output = "final"
        /\ Len(built) = NumBlocks
        /\ \A b \in Blocks :
              /\ ToSet(built[b + 1]) = {e \in accepted : e.block = b}
              /\ IsInjective(built[b + 1])

(* The entries of a writer and partition, where they are: written, left to the running
   doFlush, and in the active buffer, unless that is the one flushAll writes. *)
Held(w, p) ==
    Region(w, p)
      \o (IF p \in flushTodo[w] THEN bufs[w][flushBuf[w]][p] ELSE <<>>)
      \o (IF wpc[w] \in {"flushAll", "done"} THEN <<>> ELSE Active(w)[p])

(* On their way through the two buffers into the file, entries are neither lost nor
   doubled nor overtaken: as long as no write has failed, a writer holds exactly the
   entries whose addKey returned nil, once each and in that order, and the one whose
   call still waits for a flush. *)
EntriesHeldOnce ==
    filesOpen =>
        \A w \in Writers : ~flushErr[w] /\ wpc[w] # "failed" =>
            \A p \in Partitions :
                LET held == Held(w, p)
                    waiting == IF wpc[w] = "cap" THEN {pending[w]} ELSE {}
                IN  /\ ToSet(held) = {e \in accepted \cup waiting :
                                         e.w = w /\ PartitionOf(e.block) = p}
                    /\ \A i \in 1 .. Len(held) - 1 : held[i].call < held[i + 1].call

(* While doFlush runs, nobody changes the buffer it encodes: addKey works on the
   other one, and the swap waits ("ws.flushWg.Wait()"). *)
FlushedBufferStable ==
    [][\A w \in Writers : ~FlushDone(w) => bufs'[w][flushBuf[w]] = bufs[w][flushBuf[w]]]_vars

(* The writer files stay open under every goroutine that writes or reads them
   ("Abort paths must drain before closing the file"). *)
NoIOOnClosedFiles ==
    /\ \A w \in Writers : ~FlushDone(w) => filesOpen
    /\ ahead = "reading" => filesOpen

(* The read-ahead goroutine never fills the slot the current blocks are sliced
   from. *)
BlocksInUseStable ==
    [][pc = "blocks" /\ pc' = "blocks" /\ part' = part /\ local' = local =>
            \A b \in Blocks : PartitionOf(b) = part => BlockEntries(b)' = BlockEntries(b)]_vars

(* A partition's entries lie inside its region: no pwrite touches the next
   partition's, and none runs past the end of the file's last region. *)
RegionsHoldTheirPartition ==
    \A w \in Writers :
        /\ \A p \in Partitions : cursors[w][p] <= regionEntries
        /\ \A i \in DOMAIN file[w] :
              file[w][i] # NoEntry => PartitionOf(file[w][i].block) = i \div regionEntries
================================================================================
