---------------------------- MODULE UnsortedWriter -----------------------------
(***************************************************************************)
(* The write phase of the unsorted build (builder_unsorted.go): every      *)
(* writer appends entries to the active one of two buffers, split into one *)
(* region per partition, while a background goroutine encodes the other    *)
(* one and pwrites it, partition by partition, into the writer's own file. *)
(*                                                                         *)
(* An entry is named by the writer, the number of the addKey call and the  *)
(* block its key hashes to.  The file holds one entry per cell, and the    *)
(* region of partition p starts at cell p * regionEntries.  A writer is    *)
(* identified with its file; AddKey uses writer 0 only.                    *)
(***************************************************************************)
EXTENDS Integers, Sequences, FiniteSets, FiniteSetsExt

CONSTANTS NumBlocks,            \* b.numBlocks
          numPartitions,        \* u.numPartitions
          numWriters,           \* writers of AddKeys
          bufferCap,            \* entries in a buffer before it is flushed
          regionCap,            \* entries of one partition in a buffer
          regionEntries,        \* u.regionSize / u.entrySize
          countLimit,           \* 2^16: blockCounts are uint16
          contextCheckInterval, \* addKey calls between two polls of ctx
          MaxCalls              \* bound: addKey calls of all writers

ASSUME UnsortedWriterAssumption ==
    /\ NumBlocks \in Nat /\ NumBlocks >= 2
    /\ numPartitions \in 1 .. NumBlocks
    /\ numWriters \in Nat \ {0} /\ bufferCap \in Nat \ {0}
    /\ regionCap \in Nat \ {0} /\ regionEntries \in Nat \ {0}
    /\ countLimit \in Nat \ {0} /\ contextCheckInterval \in Nat \ {0}
    /\ MaxCalls \in Nat

Blocks == 0 .. NumBlocks - 1
Partitions == 0 .. numPartitions - 1
Writers == 0 .. numWriters - 1
blocksPerPart == (NumBlocks + numPartitions - 1) \div numPartitions
PartitionOf(b) == b \div blocksPerPart

Entry == [w : Writers, call : Nat, block : Blocks]
NoEntry == [w |-> -1, call |-> 0, block |-> 0]

VARIABLES bufs,         \* ws.flatBufs and cursorSets: [writer][0 .. 1][partition]
          activeBuf,    \* ws.activeBuf
          flushBuf,     \* the buffer doFlush was last started on
          flushTodo,    \* the partitions doFlush has yet to visit; {}: not running
          flushErr,     \* ws.flushErr # nil
          file,         \* the cells of the writer's file
          cursors,      \* u.writerCursors, in entries
          blockCounts,  \* ws.blockCounts, one count per block
          flushed,      \* u.flushed
          wpc,          \* where the writer's current call is
          pending,      \* the entry of the current addKey call
          calls,        \* addKey calls made
          keyCounter,   \* calls since the last poll
          keysAdded,    \* calls that returned nil
          accepted      \* the entries of the calls that returned nil

writeVars == <<bufs, activeBuf, flushBuf, flushTodo, flushErr, file, cursors,
               blockCounts, flushed, wpc, pending, calls, keyCounter, keysAdded, accepted>>

NoEntries == [p \in Partitions |-> <<>>]

WriterTypeOK ==
    /\ bufs \in [Writers -> [0 .. 1 -> [Partitions -> Seq(Entry)]]]
    /\ \A w \in Writers, i \in 0 .. 1, p \in Partitions : Len(bufs[w][i][p]) <= regionCap
    /\ activeBuf \in [Writers -> 0 .. 1] /\ flushBuf \in [Writers -> 0 .. 1]
    /\ flushTodo \in [Writers -> SUBSET Partitions]
    /\ flushErr \in [Writers -> BOOLEAN]
    /\ file \in [Writers -> [0 .. numPartitions * regionEntries - 1 -> Entry \cup {NoEntry}]]
    /\ cursors \in [Writers -> [Partitions -> Nat]]
    /\ blockCounts \in [Writers -> [Blocks -> 0 .. countLimit - 1]]
    /\ flushed \in BOOLEAN
    /\ wpc \in [Writers -> {"idle", "region", "cap", "closing", "flushAll", "done", "failed"}]
    /\ pending \in [Writers -> Entry \cup {NoEntry}]
    /\ calls \in [Writers -> Nat] /\ keysAdded \in [Writers -> Nat]
    /\ keyCounter \in [Writers -> 0 .. contextCheckInterval - 1]
    /\ accepted \subseteq Entry

(* newUnsortedBuffer and newWriterState. *)
WriterInit ==
    /\ bufs = [w \in Writers |-> [i \in 0 .. 1 |-> NoEntries]]
    /\ activeBuf = [w \in Writers |-> 0] /\ flushBuf = [w \in Writers |-> 0]
    /\ flushTodo = [w \in Writers |-> {}] /\ flushErr = [w \in Writers |-> FALSE]
    /\ file = [w \in Writers |-> [i \in 0 .. numPartitions * regionEntries - 1 |-> NoEntry]]
    /\ cursors = [w \in Writers |-> [p \in Partitions |-> 0]]
    /\ blockCounts = [w \in Writers |-> [b \in Blocks |-> 0]]
    /\ flushed = FALSE
    /\ wpc = [w \in Writers |-> "idle"] /\ pending = [w \in Writers |-> NoEntry]
    /\ calls = [w \in Writers |-> 0] /\ keyCounter = [w \in Writers |-> 0]
    /\ keysAdded = [w \in Writers |-> 0] /\ accepted = {}

--------------------------------------------------------------------------------
Active(w) == bufs[w][activeBuf[w]]
Filled(buf) == {p \in Partitions : buf[p] # <<>>}
TotalBuffered(buf) == MapThenSumSet(LAMBDA p : Len(buf[p]), Partitions)

(* A running doFlush is waited for by the next flush, flushAll and drainFlush. *)
FlushDone(w) == flushTodo[w] = {}

(* addKey returns nil. *)
Accept(w, e) ==
    /\ wpc' = [wpc EXCEPT ![w] = "idle"]
    /\ keysAdded' = [keysAdded EXCEPT ![w] = @ + 1]
    /\ accepted' = accepted \cup {e}

(* Store e in the buffer buf, the active one by now; a full buffer is flushed
   before the call returns. *)
Store(w, e, i, buf) ==
    LET stored == [buf EXCEPT ![PartitionOf(e.block)] = Append(@, e)]
    IN  /\ bufs' = [bufs EXCEPT ![w][i] = stored]
        /\ pending' = [pending EXCEPT ![w] = e]
        /\ IF TotalBuffered(stored) >= bufferCap
             THEN wpc' = [wpc EXCEPT ![w] = "cap"] /\ UNCHANGED <<keysAdded, accepted>>
             ELSE Accept(w, e)

TotalCalls == MapThenSumSet(LAMBDA w : calls[w], Writers)

(* addKey: poll the context, then store the entry, after a flush when the region
   of its partition is full. *)
AddKey(w, b, ctxDone) ==
    LET e == [w |-> w, call |-> calls[w] + 1, block |-> b]
        pollDue == keyCounter[w] + 1 >= contextCheckInterval
    IN  /\ wpc[w] = "idle" /\ TotalCalls < MaxCalls
        /\ calls' = [calls EXCEPT ![w] = @ + 1]
        /\ keyCounter' = [keyCounter EXCEPT ![w] = IF pollDue THEN 0 ELSE @ + 1]
        /\ \/ /\ pollDue /\ ctxDone
              /\ UNCHANGED <<bufs, wpc, pending, keysAdded, accepted>>
           \/ /\ ~(pollDue /\ ctxDone)
              /\ Len(Active(w)[PartitionOf(b)]) < regionCap
              /\ Store(w, e, activeBuf[w], Active(w))
           \/ /\ ~(pollDue /\ ctxDone)
              /\ Len(Active(w)[PartitionOf(b)]) >= regionCap
              /\ wpc' = [wpc EXCEPT ![w] = "region"]
              /\ pending' = [pending EXCEPT ![w] = e]
              /\ UNCHANGED <<bufs, keysAdded, accepted>>
        /\ UNCHANGED <<activeBuf, flushBuf, flushTodo, flushErr, file, cursors,
                       blockCounts, flushed>>

(* flush returns the error of the flush before it, for ever. *)
FlushFails(w) ==
    /\ wpc[w] \in {"region", "cap"} /\ FlushDone(w) /\ flushErr[w]
    /\ wpc' = [wpc EXCEPT ![w] = "idle"]
    /\ UNCHANGED <<bufs, activeBuf, flushBuf, flushTodo, flushErr, file, cursors,
                   blockCounts, flushed, pending, calls, keyCounter, keysAdded, accepted>>

(* Seeded fault: the buffers are swapped without waiting for the running flush. *)
FlushReadyUnwaited(w) == ~flushErr[w]

FlushReady(w) == FlushDone(w) /\ ~flushErr[w]

(* Seeded fault: the new active buffer keeps the entries of two flushes ago. *)
ClearedUncleared(w) == bufs[w][1 - activeBuf[w]]

(* clear(ws.cursorSets[ws.activeBuf]) after the swap. *)
Cleared(w) == NoEntries

(* flush: swap the buffers and start doFlush on the filled one. *)
Flush(w) ==
    LET next == 1 - activeBuf[w]
    IN  /\ wpc[w] \in {"region", "cap"} /\ FlushReady(w)
        /\ flushed' = TRUE
        /\ activeBuf' = [activeBuf EXCEPT ![w] = next]
        /\ flushBuf' = [flushBuf EXCEPT ![w] = activeBuf[w]]
        /\ flushTodo' = [flushTodo EXCEPT ![w] = Filled(Active(w))]
        /\ \/ /\ wpc[w] = "region"
              /\ Store(w, pending[w], next, Cleared(w))
           \/ /\ wpc[w] = "cap"
              /\ bufs' = [bufs EXCEPT ![w][next] = Cleared(w)]
              /\ Accept(w, pending[w])
              /\ UNCHANGED pending
        /\ UNCHANGED <<flushErr, file, cursors, blockCounts, calls, keyCounter>>

--------------------------------------------------------------------------------
(* doFlush. *)

(* The counts after one buffer of a partition, each a uint16. *)
CountsWith(w, entries) ==
    [b \in Blocks |->
        (blockCounts[w][b] + Cardinality({i \in DOMAIN entries : entries[i].block = b}))
            % countLimit]

(* Seeded fault: the check leaves out the entries being written. *)
FitsRegionBefore(w, p, n) == cursors[w][p] <= regionEntries

FitsRegion(w, p, n) == cursors[w][p] + n <= regionEntries

(* The file after a WriteAt of entries at the partition's cursor. *)
FileWith(w, p, entries) ==
    LET off == p * regionEntries + cursors[w][p]
    IN  [i \in DOMAIN file[w] |->
            IF off <= i /\ i < off + Len(entries) THEN entries[i - off + 1] ELSE file[w][i]]

(* doFlush ends with an error: flush keeps it, flushAll returns it. *)
FlushError(w) ==
    /\ flushTodo' = [flushTodo EXCEPT ![w] = {}]
    /\ IF wpc[w] = "flushAll"
         THEN wpc' = [wpc EXCEPT ![w] = "failed"] /\ UNCHANGED flushErr
         ELSE flushErr' = [flushErr EXCEPT ![w] = TRUE] /\ UNCHANGED wpc

(* doFlush, for the next partition that has entries: count them, check the
   region's capacity, write. *)
FlushPartition(w) ==
    /\ ~FlushDone(w)
    /\ LET p == Min(flushTodo[w])
           entries == bufs[w][flushBuf[w]][p]
       IN  /\ blockCounts' = [blockCounts EXCEPT ![w] = CountsWith(w, entries)]
           /\ \/ /\ FitsRegion(w, p, Len(entries))
                 /\ file' = [file EXCEPT ![w] = FileWith(w, p, entries)]
                 /\ cursors' = [cursors EXCEPT ![w][p] = @ + Len(entries)]
                 /\ flushTodo' = [flushTodo EXCEPT ![w] = @ \ {p}]
                 /\ UNCHANGED <<flushErr, wpc>>
              \/ \* capacity exceeded, or the write fails
                 /\ FlushError(w)
                 /\ UNCHANGED <<file, cursors>>
    /\ UNCHANGED <<bufs, activeBuf, flushBuf, flushed, pending, calls, keyCounter,
                   keysAdded, accepted>>

(* flushAll, called by a writer's close and by finishUnsorted. *)
FlushAll(w) ==
    /\ wpc[w] = "closing" /\ FlushDone(w)
    /\ \/ /\ flushErr[w]
          /\ wpc' = [wpc EXCEPT ![w] = "failed"]
          /\ UNCHANGED <<flushBuf, flushTodo, flushed>>
       \/ /\ ~flushErr[w] /\ Filled(Active(w)) = {}
          /\ wpc' = [wpc EXCEPT ![w] = "done"]
          /\ UNCHANGED <<flushBuf, flushTodo, flushed>>
       \/ /\ ~flushErr[w] /\ Filled(Active(w)) # {}
          /\ wpc' = [wpc EXCEPT ![w] = "flushAll"]
          /\ flushBuf' = [flushBuf EXCEPT ![w] = activeBuf[w]]
          /\ flushTodo' = [flushTodo EXCEPT ![w] = Filled(Active(w))]
          /\ flushed' = TRUE
    /\ UNCHANGED <<bufs, activeBuf, flushErr, file, cursors, blockCounts, pending, calls,
                   keyCounter, keysAdded, accepted>>

FlushAllDone(w) ==
    /\ wpc[w] = "flushAll" /\ FlushDone(w)
    /\ wpc' = [wpc EXCEPT ![w] = "done"]
    /\ UNCHANGED <<bufs, activeBuf, flushBuf, flushTodo, flushErr, file, cursors,
                   blockCounts, flushed, pending, calls, keyCounter, keysAdded, accepted>>

FlushStep(w) == Flush(w) \/ FlushFails(w) \/ FlushPartition(w) \/ FlushAll(w) \/ FlushAllDone(w)
================================================================================
