------------------------------ MODULE IndexWriter ------------------------------
(***************************************************************************)
(* The index file under construction (index_writer.go).                    *)
(*                                                                         *)
(* A block's metadata, its payload bytes and the hash of its payloads are  *)
(* abstracted to one value, BlockData: which block they came from, or      *)
(* EmptyBlock for the identical bytes every block without keys produces.   *)
(* The payload region is one cell per key.  Offsets into the metadata      *)
(* region count metadata records, so every record has length one (both     *)
(* algorithms emit non-empty metadata for an empty block as well).         *)
(* The streaming metadata hash covers exactly the successful metadata      *)
(* writes, so `metadata' stands for the region and for its hash;           *)
(* `payloadHash' is the hash-of-hashes, which has its own order of folds.  *)
(***************************************************************************)
EXTENDS Integers, Sequences

CONSTANTS NumBlocks,   \* header.NumBlocks as announced by the block builder
          TotalKeys    \* cfg.totalKeys, declared by the caller

ASSUME IndexWriterAssumption ==
    /\ NumBlocks \in Nat /\ NumBlocks >= 2      \* numBlocks() floors at 2
    /\ TotalKeys \in Nat

VARIABLES ramIndex,     \* iw.ramIndex
          metadata,     \* metadata region, up to metadataWriteOffset
          payloads,     \* payload region, one cell per key
          payloadHash,  \* iw.payloadHasher: the block hashes folded so far
          keyCount,     \* iw.keyCount
          blockCount,   \* iw.blockCount
          fileOpen,     \* iw.file # nil
          output        \* what is at the output path

iwVars == <<ramIndex, metadata, payloads, payloadHash, keyCount, blockCount,
            fileOpen, output>>

Blocks == 0 .. NumBlocks - 1
EmptyBlock == -1
BlockDataSet == Blocks \cup {EmptyBlock}
BlockData(b, n) == IF n = 0 THEN EmptyBlock ELSE b

RamIndexEntry == [keysBefore : Nat, metadataOffset : Nat]

IWTypeOK ==
    /\ ramIndex \in Seq(RamIndexEntry)
    /\ metadata \in Seq(BlockDataSet)
    /\ payloads \in [0 .. TotalKeys - 1 -> BlockDataSet]
    /\ payloadHash \in Seq(BlockDataSet)
    /\ keyCount \in Nat
    /\ blockCount \in Nat
    /\ fileOpen \in BOOLEAN
    /\ output \in {"partial", "final", "removed"}

(* newIndexWriter: an empty, preallocated file. *)
IWInit ==
    /\ ramIndex = <<>>
    /\ metadata = <<>>
    /\ payloads = [i \in 0 .. TotalKeys - 1 |-> EmptyBlock]
    /\ payloadHash = <<>>
    /\ keyCount = 0
    /\ blockCount = 0
    /\ fileOpen = TRUE
    /\ output = "partial"

--------------------------------------------------------------------------------
(* The RAM index entry of the block that starts at the current position. *)
CurrentEntry == [keysBefore |-> keyCount, metadataOffset |-> Len(metadata)]

(* recordAndWriteMetadata: the RAM index entry is appended before the write
   that may fail. *)
RecordAndWriteMetadata(b, n, ok) ==
    /\ ramIndex' = Append(ramIndex, CurrentEntry)
    /\ metadata' = IF ok THEN Append(metadata, BlockData(b, n)) ELSE metadata

(* keyCount and blockCount move together, and only for a committed block. *)
Advance(n, ok) ==
    /\ keyCount' = IF ok THEN keyCount + n ELSE keyCount
    /\ blockCount' = IF ok THEN blockCount + 1 ELSE blockCount

(* The range check of writePayloadsDirect. *)
FitsPayloadRegion(n, offset) == offset + n <= TotalKeys

(* The payload region after a positional write of n entries of block b. *)
PayloadsWith(b, n, offset) ==
    [i \in 0 .. TotalKeys - 1 |->
        IF offset <= i /\ i < offset + n THEN b ELSE payloads[i]]

(* foldPayloadHash: the next hash of the hash-of-hashes. *)
FoldPayloadHash(b, n) == payloadHash' = Append(payloadHash, BlockData(b, n))

(* writeMetadata, used by the writer goroutine; the payload hash was folded by
   the caller just before. *)
WriteMetadata(b, n, ok) ==
    /\ RecordAndWriteMetadata(b, n, ok)
    /\ Advance(n, ok)

(* Seeded fault: a failing finalize leaves the partial file. *)
FinalizeKept(ok) ==
    /\ ramIndex' = Append(ramIndex, CurrentEntry)
    /\ fileOpen' = FALSE
    /\ output' = IF ok THEN "final" ELSE output
    /\ UNCHANGED <<metadata, payloads, payloadHash, keyCount, blockCount>>

(* finalize: the sentinel entry, header, RAM index and footer, truncate, sync
   and close.  Any failing step closes the file and leaves the removal of the
   partial output to the caller's cleanup (finalizeIndex). *)
Finalize(ok) ==
    /\ ramIndex' = Append(ramIndex, CurrentEntry)
    /\ fileOpen' = FALSE
    /\ output' = IF ok THEN "final" ELSE "removed"
    /\ UNCHANGED <<metadata, payloads, payloadHash, keyCount, blockCount>>

(* close followed by os.Remove, the tail of builder.cleanup. *)
CloseAndRemove ==
    /\ fileOpen' = FALSE
    /\ output' = "removed"
    /\ UNCHANGED <<ramIndex, metadata, payloads, payloadHash, keyCount, blockCount>>

--------------------------------------------------------------------------------
(* What a reader of the finished file relies on, given how many keys each block
   should hold: one RAM index entry per block plus the sentinel, key ranges
   that tile the payload region, exactly one metadata record per block between
   consecutive offsets, payload cells that belong to their block, and block
   hashes folded in block order (the order Verify replays). *)
IndexHolds(size) ==
    /\ blockCount = NumBlocks
    /\ keyCount = TotalKeys
    /\ Len(ramIndex) = NumBlocks + 1
    /\ ramIndex[1].keysBefore = 0
    /\ \A b \in Blocks :
          LET from == ramIndex[b + 1]
              to == ramIndex[b + 2]
          IN  /\ to.keysBefore = from.keysBefore + size[b]
              /\ SubSeq(metadata, from.metadataOffset + 1, to.metadataOffset)
                    = <<BlockData(b, size[b])>>
              /\ \A i \in from.keysBefore .. to.keysBefore - 1 : payloads[i] = b
    /\ payloadHash = [i \in 1 .. NumBlocks |-> BlockData(i - 1, size[i - 1])]
================================================================================
