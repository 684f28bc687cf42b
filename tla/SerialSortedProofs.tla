--------------------------- MODULE SerialSortedProofs ---------------------------
(***************************************************************************)
(* Proofs about the single-threaded sorted build, for any number of        *)
(* blocks, keys, AddKey calls and failing writes.                          *)
(***************************************************************************)
EXTENDS SerialSorted, SequenceTheorems, TLAPS

(* When the builder is closed and when its build has ended. *)
ControlInv ==
    /\ pc # "finalize"
    /\ outcome # "building" => pc = "idle" /\ closed
    /\ outcome = "building" => output = "partial" /\ (closed <=> finishing)
    /\ finishing /\ outcome = "building" => pc # "idle"
    /\ finishing => closed
    /\ finishing /\ outcome # "failed" => totalKeysAdded = TotalKeys
    /\ ~RetriesWrites /\ (pc # "idle" \/ outcome = "ok") => ioFaults = 0

(* Keys the block builder holds for a block that is not committed yet.  After
   buildBlock it still holds the keys of the block just committed, until it is
   reset for the next one. *)
Pending == IF currentBlockIdx >= blockCount THEN keysAdded ELSE 0

(* Where the call in progress stands in the sequence of blocks. *)
OrderInv ==
    /\ blockCount <= NumBlocks
    /\ ~finishing => nextBlockToWrite = blockCount
    /\ ~finishing /\ pc # "idle" => target = lastBlockID
    /\ ~finishing => blockCount <= lastBlockID \/ blockCount = 0
    /\ firstKey => keysAdded = 0
    /\ ~firstKey => currentBlockIdx <= lastBlockID
    /\ ~firstKey /\ ~finishing /\ currentBlockIdx < blockCount => currentBlockIdx < lastBlockID
    /\ ~firstKey /\ currentBlockIdx >= blockCount => keysAdded > 0
    /\ Pending > 0 => currentBlockIdx = blockCount
    /\ Pending > 0 /\ pc = "gap" => ~finishing /\ target = currentBlockIdx
    /\ pc # "gap" /\ outcome = "building" => Pending = keysAdded

(* Every accepted key is either in a committed block or still in the builder. *)
CountInv ==
    /\ keyCount + Pending = totalKeysAdded
    /\ \A b \in Blocks : b >= blockCount =>
          accepted[b] = IF b = currentBlockIdx THEN keysAdded ELSE 0

(* What is recorded of a committed block, and where its keys end. *)
KeysEnd(b) == ramIndex[b + 1].keysBefore + accepted[b]
Committed(b) ==
    /\ ramIndex[b + 1].metadataOffset = b
    /\ KeysEnd(b) = IF b + 1 < blockCount THEN ramIndex[b + 2].keysBefore ELSE keyCount
    /\ KeysEnd(b) <= keyCount
    /\ metadata[b + 1] = BlockData(b, accepted[b])
    /\ payloadHash[b + 1] = BlockData(b, accepted[b])
    /\ \A i \in ramIndex[b + 1].keysBefore .. KeysEnd(b) - 1 : i < TotalKeys => payloads[i] = b

(* The file as long as no write has failed. *)
LayoutInv ==
    ioFaults = 0 /\ outcome = "building" =>
        /\ Len(ramIndex) = blockCount /\ Len(metadata) = blockCount
        /\ Len(payloadHash) = blockCount
        /\ IF blockCount = 0 THEN keyCount = 0 ELSE ramIndex[1].keysBefore = 0
        /\ \A b \in Blocks : b < blockCount => Committed(b)

(* The file of a build that returned nil. *)
OkInv == ioFaults = 0 => IndexCorrect

SerialInv == TypeOK /\ ControlInv /\ OrderInv /\ CountInv /\ LayoutInv /\ OkInv

(* What the assumptions on the constants give the proofs. *)
LEMMA ConstantTypes ==
  /\ NumBlocks \in Nat /\ NumBlocks >= 2 /\ TotalKeys \in Nat /\ MaxIOFaults \in Nat
  /\ Blocks = 0 .. NumBlocks - 1 /\ 0 \in Blocks
  /\ RetriesWrites \in BOOLEAN
  BY IndexWriterAssumption, SerialSortedAssumption DEF Blocks

(* The numbers the builder counts with. *)
LEMMA CountTypes ==
  ASSUME TypeOK
  PROVE  /\ NumBlocks \in Nat /\ NumBlocks >= 2 /\ TotalKeys \in Nat
         /\ Blocks = 0 .. NumBlocks - 1
         /\ nextBlockToWrite \in Nat /\ nextBlockToWrite < NumBlocks
         /\ currentBlockIdx \in Nat /\ currentBlockIdx < NumBlocks
         /\ target \in Nat /\ target < NumBlocks
         /\ lastBlockID \in Int /\ lastBlockID < NumBlocks
         /\ keysAdded \in Nat /\ totalKeysAdded \in Nat /\ keyCount \in Nat
         /\ blockCount \in Nat /\ Pending \in Nat
         /\ accepted \in [Blocks -> Nat]
  BY ConstantTypes DEF TypeOK, IWTypeOK, Blocks, Pending

(* commitBlockWithData keeps the types of what it writes, also when it fails half
   way. *)
LEMMA CommitTypes ==
  ASSUME TypeOK, NEW d \in BlockDataSet, NEW n \in Nat, NEW res,
         CommitBlockWithData(d, n, res)
  PROVE  /\ ramIndex' \in Seq(RamIndexEntry)
         /\ metadata' \in Seq(BlockDataSet) /\ payloadHash' \in Seq(BlockDataSet)
         /\ payloads' \in [0 .. TotalKeys - 1 -> BlockDataSet]
         /\ keyCount' \in Nat /\ blockCount' \in Nat
         /\ ioFaults' \in 0 .. MaxIOFaults
<1> USE DEF TypeOK, IWTypeOK
<1>1. BlockData(d, n) \in BlockDataSet
  BY DEF BlockData, BlockDataSet
<1>2. ramIndex' \in Seq(RamIndexEntry)
  BY DEF CommitBlockWithData, RecordAndWriteMetadata, CurrentEntry, RamIndexEntry
<1>3. metadata' \in Seq(BlockDataSet) /\ payloadHash' \in Seq(BlockDataSet)
  <2>1. metadata' = metadata \/ metadata' = Append(metadata, BlockData(d, n))
    BY DEF CommitBlockWithData, RecordAndWriteMetadata
  <2>2. payloadHash' = payloadHash \/ payloadHash' = Append(payloadHash, BlockData(d, n))
    BY DEF CommitBlockWithData, FoldPayloadHash
  <2>3. /\ Append(metadata, BlockData(d, n)) \in Seq(BlockDataSet)
        /\ Append(payloadHash, BlockData(d, n)) \in Seq(BlockDataSet)
    BY <1>1
  <2> QED BY <2>1, <2>2, <2>3
<1>4. payloads' \in [0 .. TotalKeys - 1 -> BlockDataSet]
  BY DEF CommitBlockWithData, PayloadsWith
<1>5. keyCount' \in Nat /\ blockCount' \in Nat
  BY DEF CommitBlockWithData, Advance
<1>6. ioFaults' \in 0 .. MaxIOFaults
  BY ConstantTypes DEF CommitBlockWithData
<1> QED BY <1>2, <1>3, <1>4, <1>5, <1>6

(* The builder starts well typed. *)
LEMMA InitType == Init => TypeOK
<1> SUFFICES ASSUME Init PROVE TypeOK
  OBVIOUS
<1>1. IWTypeOK
  BY ConstantTypes DEF Init, IWInit, IWTypeOK, EmptyBlock, BlockDataSet
<1>2. /\ closed \in BOOLEAN /\ firstKey \in BOOLEAN /\ finishing \in BOOLEAN
      /\ ctxDone \in BOOLEAN
  BY DEF Init
<1>3. accepted \in [Blocks -> Nat] /\ unbuildable \in SUBSET Blocks
  BY DEF Init
<1> QED BY <1>1, <1>2, <1>3, ConstantTypes DEF Init, TypeOK

(* What an error return of AddKey or Finish leaves. *)
LEMMA ErrorTypes ==
  ASSUME TypeOK, ReturnError, RemoveIfFinishing
  PROVE  /\ pc' = "idle" /\ outcome' \in {"building", "ok", "failed"}
         /\ fileOpen' \in BOOLEAN /\ output' \in {"partial", "final", "removed"}
<1>1. pc' = "idle" /\ outcome' \in {"building", "ok", "failed"}
  BY DEF ReturnError, TypeOK
<1>2. fileOpen' \in BOOLEAN
  BY DEF RemoveIfFinishing
<1>3. output' \in {"partial", "final", "removed"}
  BY DEF RemoveIfFinishing, TypeOK, IWTypeOK
<1> QED BY <1>1, <1>2, <1>3

(* Every step keeps the types; that AddKey never advances past the last block
   needs the order in which it works through the blocks. *)
LEMMA NextType ==
  ASSUME TypeOK, ControlInv, OrderInv, [Next]_vars
  PROVE  TypeOK'
<1> USE DEF iwVars
<1>1. ASSUME NEW b \in Blocks, AddKey(b) PROVE TypeOK'
  <2>1. UNCHANGED <<iwVars, closed, firstKey, currentBlockIdx, nextBlockToWrite,
                    totalKeysAdded, keysAdded, finishing, outcome, ctxDone, ioFaults,
                    unbuildable, accepted>>
    BY <1>1 DEF AddKey
  <2>2. keyCounter' \in Nat /\ calls' \in Nat
    BY <1>1 DEF AddKey, TypeOK
  <2>3. pc' \in {pc, "build"} /\ target' \in Blocks /\ lastBlockID' \in Blocks \cup {-1}
    BY <1>1 DEF AddKey, TypeOK
  <2> QED BY <2>1, <2>2, <2>3, SMTT(30) DEF TypeOK, IWTypeOK
<1>2. CASE BuildBlock
  <2>1. /\ UNCHANGED <<closed, firstKey, currentBlockIdx, lastBlockID, keyCounter,
                       totalKeysAdded, keysAdded, target, finishing, ctxDone, calls,
                       unbuildable, accepted>>
        /\ pc = "build" /\ BlockComplete
    BY <1>2 DEF BuildBlock
  <2>2. currentBlockIdx \in BlockDataSet /\ keysAdded \in Nat
    BY DEF TypeOK, BlockDataSet
  <2>3. CASE currentBlockIdx \in unbuildable
    <3>1. /\ ReturnError /\ RemoveIfFinishing
          /\ UNCHANGED <<ramIndex, metadata, payloads, payloadHash, keyCount, blockCount,
                         nextBlockToWrite, ioFaults>>
      BY <1>2, <2>3 DEF BuildBlock
    <3> QED BY <2>1, <3>1, ErrorTypes DEF TypeOK, IWTypeOK
  <2>4. CASE currentBlockIdx \notin unbuildable
    <3>1. PICK res : /\ CommitBlockWithData(currentBlockIdx, keysAdded, res)
                     /\ IF res = "ok"
                          THEN /\ pc' = "gap"
                               /\ nextBlockToWrite' = IF finishing THEN nextBlockToWrite
                                                                   ELSE nextBlockToWrite + 1
                               /\ UNCHANGED <<fileOpen, output, outcome>>
                          ELSE /\ ReturnError
                               /\ RemoveIfFinishing
                               /\ UNCHANGED nextBlockToWrite
      BY <1>2, <2>4 DEF BuildBlock
    <3>2. nextBlockToWrite' \in 0 .. NumBlocks - 1
      <4>1. CASE finishing \/ res # "ok"
        BY <3>1, <4>1 DEF TypeOK
      <4>2. CASE ~finishing /\ res = "ok"
        <5>1. /\ nextBlockToWrite = currentBlockIdx /\ target # currentBlockIdx
              /\ currentBlockIdx <= lastBlockID /\ target = lastBlockID
          BY <2>1, <4>2, CountTypes DEF BlockComplete, OrderInv, ControlInv
        <5>2. nextBlockToWrite + 1 <= NumBlocks - 1
          BY <5>1, CountTypes
        <5> QED BY <3>1, <4>2, <5>2, CountTypes
      <4> QED BY <4>1, <4>2
    <3>3. /\ pc' \in {"idle", "gap"} /\ outcome' \in {"building", "ok", "failed"}
          /\ output' \in {"partial", "final", "removed"}
      BY <3>1, ErrorTypes DEF TypeOK, IWTypeOK
    <3>4. fileOpen' \in BOOLEAN
      BY <3>1, ErrorTypes DEF TypeOK, IWTypeOK
    <3> QED BY <2>1, <2>2, <3>1, <3>2, <3>3, <3>4, CommitTypes DEF TypeOK, IWTypeOK
  <2> QED BY <2>3, <2>4
<1>3. CASE NothingToBuild
  BY <1>3 DEF NothingToBuild, TypeOK, IWTypeOK
<1>4. CASE CommitEmptyBlock
  <2>1. /\ UNCHANGED <<closed, firstKey, currentBlockIdx, lastBlockID, keyCounter,
                       totalKeysAdded, target, finishing, ctxDone, calls, unbuildable,
                       accepted>>
        /\ pc = "gap" /\ GapLeft /\ keysAdded' = 0
    BY <1>4 DEF CommitEmptyBlock
  <2>2. EmptyBlock \in BlockDataSet
    BY DEF BlockDataSet
  <2>3. PICK res : /\ CommitBlockWithData(EmptyBlock, 0, res)
                   /\ IF res = "ok"
                        THEN /\ nextBlockToWrite' = IF finishing THEN nextBlockToWrite
                                                                 ELSE nextBlockToWrite + 1
                             /\ UNCHANGED <<pc, fileOpen, output, outcome>>
                        ELSE /\ ReturnError
                             /\ RemoveIfFinishing
                             /\ UNCHANGED nextBlockToWrite
    BY <1>4 DEF CommitEmptyBlock
  <2>4. nextBlockToWrite' \in 0 .. NumBlocks - 1
    <3>1. CASE finishing \/ res # "ok"
      BY <2>3, <3>1 DEF TypeOK
    <3>2. CASE ~finishing /\ res = "ok"
      BY <2>1, <2>3, <3>2, CountTypes DEF GapLeft
    <3> QED BY <3>1, <3>2
  <2>5. /\ pc' \in {"idle", "gap"} /\ outcome' \in {"building", "ok", "failed"}
        /\ output' \in {"partial", "final", "removed"}
    BY <2>1, <2>3, ErrorTypes DEF TypeOK, IWTypeOK
  <2>6. fileOpen' \in BOOLEAN
    BY <2>3, ErrorTypes DEF TypeOK, IWTypeOK
  <2> QED BY <2>1, <2>2, <2>3, <2>4, <2>5, <2>6, CommitTypes DEF TypeOK, IWTypeOK
<1>5. CASE AcceptKey
  <2>1. firstKey' \in BOOLEAN
    BY <1>5 DEF AcceptKey
  <2>2. keysAdded' \in Nat /\ totalKeysAdded' \in Nat /\ accepted' \in [Blocks -> Nat]
    BY <1>5 DEF AcceptKey, TypeOK
  <2> QED BY <1>5, <2>1, <2>2 DEF AcceptKey, TypeOK, IWTypeOK
<1>6. CASE Finish
  <2>1. closed' \in BOOLEAN /\ finishing' \in BOOLEAN
    BY <1>6 DEF Finish
  <2>2. IWTypeOK' /\ outcome' \in {"building", "ok", "failed"} /\ pc' \in {pc, "build"}
    BY <1>6 DEF Finish, CloseAndRemove, TypeOK, IWTypeOK
  <2> QED BY <1>6, <2>1, <2>2 DEF Finish, TypeOK
<1>7. CASE FinalizeIndex
  <2>1. ramIndex' \in Seq(RamIndexEntry)
    BY <1>7 DEF FinalizeIndex, Finalize, CurrentEntry, RamIndexEntry, TypeOK, IWTypeOK
  <2>2. IWTypeOK'
    BY <1>7, <2>1 DEF FinalizeIndex, Finalize, TypeOK, IWTypeOK
  <2>3. outcome' \in {"building", "ok", "failed"} /\ pc' = "idle"
    BY <1>7 DEF FinalizeIndex
  <2> QED BY <1>7, <2>2, <2>3 DEF FinalizeIndex, TypeOK
<1>8. CASE Close
  <2>1. closed' \in BOOLEAN
    BY <1>8 DEF Close
  <2>2. IWTypeOK'
    BY <1>8 DEF Close, CloseAndRemove, TypeOK, IWTypeOK
  <2> QED BY <1>8, <2>1, <2>2 DEF Close, TypeOK
<1>9. CASE UserCancel
  <2>1. ctxDone' \in BOOLEAN
    BY <1>9 DEF UserCancel
  <2> QED BY <1>9, <2>1 DEF UserCancel, TypeOK, IWTypeOK
<1>10. CASE UNCHANGED vars
  BY <1>10 DEF vars, serialVars, TypeOK, IWTypeOK
<1> QED
  BY <1>1, <1>2, <1>3, <1>4, <1>5, <1>6, <1>7, <1>8, <1>9, <1>10 DEF Next, CallAfterClose

--------------------------------------------------------------------------------
(* The steps, as the invariants see them. *)

(* buildBlock either commits the pending block or ends the call with an error. *)
LEMMA BuildBlockSteps ==
  ASSUME TypeOK, ControlInv, OrderInv, BuildBlock
  PROVE  /\ UNCHANGED <<closed, firstKey, currentBlockIdx, lastBlockID, totalKeysAdded,
                        keysAdded, target, finishing, accepted>>
         /\ pc = "build" /\ outcome = "building"
         /\ keysAdded > 0 /\ Pending = keysAdded /\ currentBlockIdx = blockCount
         /\ ~finishing => ~firstKey /\ target # currentBlockIdx
         /\ \/ /\ CommitBlockWithData(currentBlockIdx, keysAdded, "ok")
               /\ pc' = "gap"
               /\ nextBlockToWrite' = IF finishing THEN nextBlockToWrite
                                                   ELSE nextBlockToWrite + 1
               /\ UNCHANGED <<output, outcome>>
            \/ /\ ReturnError /\ RemoveIfFinishing
               /\ UNCHANGED <<keyCount, blockCount, nextBlockToWrite>>
               /\ ioFaults' = 0 =>
                     UNCHANGED <<ramIndex, metadata, payloads, payloadHash, ioFaults>>
<1>1. /\ UNCHANGED <<closed, firstKey, currentBlockIdx, lastBlockID, totalKeysAdded, keysAdded,
                     target, finishing, accepted>>
      /\ pc = "build" /\ BlockComplete
  BY DEF BuildBlock
<1>2. /\ keysAdded > 0 /\ Pending = keysAdded /\ currentBlockIdx = blockCount
      /\ ~finishing => ~firstKey /\ target # currentBlockIdx
      /\ outcome = "building"
  BY <1>1 DEF BlockComplete, OrderInv, ControlInv
<1>3. CASE currentBlockIdx \in unbuildable
  BY <1>1, <1>2, <1>3 DEF BuildBlock
<1>4. CASE currentBlockIdx \notin unbuildable
  <2>1. PICK res \in CommitResults(keysAdded) :
          /\ CommitBlockWithData(currentBlockIdx, keysAdded, res)
          /\ IF res = "ok"
               THEN /\ pc' = "gap"
                    /\ nextBlockToWrite' = IF finishing THEN nextBlockToWrite
                                                        ELSE nextBlockToWrite + 1
                    /\ UNCHANGED <<fileOpen, output, outcome>>
               ELSE /\ ReturnError
                    /\ RemoveIfFinishing
                    /\ UNCHANGED nextBlockToWrite
    BY <1>4 DEF BuildBlock
  <2>2. CASE res = "ok"
    BY <1>1, <1>2, <2>1, <2>2
  <2>3. CASE res # "ok"
    <3>1. ioFaults' = ioFaults + 1 /\ ioFaults \in Nat
      BY <2>1, <2>3, ConstantTypes DEF CommitBlockWithData, TypeOK
    <3>2. ioFaults' # 0
      BY <3>1
    <3>3. UNCHANGED <<keyCount, blockCount>>
      BY <2>1, <2>3 DEF CommitBlockWithData, Advance
    <3> QED BY <1>1, <1>2, <2>1, <2>3, <3>2, <3>3
  <2> QED BY <2>2, <2>3
<1> QED BY <1>3, <1>4

(* commitEmptyBlock finds nothing pending; it commits an empty block or ends the
   call with an error. *)
LEMMA CommitEmptySteps ==
  ASSUME TypeOK, ControlInv, OrderInv, CommitEmptyBlock
  PROVE  /\ UNCHANGED <<closed, firstKey, currentBlockIdx, lastBlockID, totalKeysAdded,
                        target, finishing, accepted>>
         /\ pc = "gap" /\ outcome = "building" /\ GapLeft
         /\ Pending = 0 /\ keysAdded' = 0
         /\ \/ /\ CommitBlockWithData(EmptyBlock, 0, "ok")
               /\ pc' = "gap"
               /\ nextBlockToWrite' = IF finishing THEN nextBlockToWrite
                                                   ELSE nextBlockToWrite + 1
               /\ UNCHANGED <<output, outcome>>
            \/ /\ ReturnError /\ RemoveIfFinishing
               /\ UNCHANGED <<keyCount, blockCount, nextBlockToWrite>>
               /\ ioFaults' # 0
<1>1. /\ UNCHANGED <<closed, firstKey, currentBlockIdx, lastBlockID, totalKeysAdded, target,
                     finishing, accepted>>
      /\ pc = "gap" /\ GapLeft /\ keysAdded' = 0
  BY DEF CommitEmptyBlock
<1>2. outcome = "building"
  BY <1>1 DEF ControlInv
<1>3. Pending = 0
  <2> SUFFICES ASSUME Pending > 0 PROVE FALSE
    BY CountTypes
  <2>1. ~finishing /\ target = currentBlockIdx /\ keysAdded > 0
    BY <1>1, CountTypes DEF OrderInv, Pending
  <2>2. firstKey
    BY <1>1, <2>1 DEF GapLeft
  <2> QED BY <2>1, <2>2 DEF OrderInv
<1>4. PICK res \in CommitResults(0) :
        /\ CommitBlockWithData(EmptyBlock, 0, res)
        /\ IF res = "ok"
             THEN /\ nextBlockToWrite' = IF finishing THEN nextBlockToWrite
                                                      ELSE nextBlockToWrite + 1
                  /\ UNCHANGED <<pc, fileOpen, output, outcome>>
             ELSE /\ ReturnError
                  /\ RemoveIfFinishing
                  /\ UNCHANGED nextBlockToWrite
  BY DEF CommitEmptyBlock
<1>5. CASE res = "ok"
  BY <1>1, <1>2, <1>3, <1>4, <1>5
<1>6. CASE res # "ok"
  <2>1. ioFaults' = ioFaults + 1 /\ ioFaults \in Nat
    BY <1>4, <1>6, ConstantTypes DEF CommitBlockWithData, TypeOK
  <2>2. ioFaults' # 0
    BY <2>1
  <2>3. UNCHANGED <<keyCount, blockCount>>
    BY <1>4, <1>6 DEF CommitBlockWithData, Advance
  <2> QED BY <1>1, <1>2, <1>3, <1>4, <1>6, <2>2, <2>3
<1> QED BY <1>5, <1>6

(* Which calls the state allows. *)
LEMMA ControlInvStep ==
  ASSUME TypeOK, ControlInv, OrderInv, [Next]_vars
  PROVE  ControlInv'
<1> USE DEF iwVars
<1>0. /\ closed \in BOOLEAN /\ finishing \in BOOLEAN /\ RetriesWrites \in BOOLEAN
  BY ConstantTypes DEF TypeOK
<1>1. ASSUME NEW b \in Blocks, AddKey(b) PROVE ControlInv'
  <2>1. /\ UNCHANGED <<closed, finishing, outcome, output, totalKeysAdded, ioFaults>>
        /\ pc = "idle" /\ ~closed /\ pc' \in {"idle", "build"}
        /\ RetriesWrites \/ ioFaults = 0
    BY <1>1 DEF AddKey
  <2> QED BY <1>0, <2>1 DEF ControlInv
<1>2. ASSUME BuildBlock \/ CommitEmptyBlock PROVE ControlInv'
  <2>1. /\ UNCHANGED <<closed, totalKeysAdded, finishing>>
        /\ pc \in {"build", "gap"} /\ outcome = "building"
        /\ \/ /\ pc' = "gap" /\ UNCHANGED <<output, outcome>>
              /\ ioFaults' = ioFaults
           \/ ReturnError /\ RemoveIfFinishing
    BY <1>2, BuildBlockSteps, CommitEmptySteps DEF CommitBlockWithData
  <2>2. CASE pc' = "gap"
    BY <1>0, <2>1, <2>2 DEF ControlInv, ReturnError
  <2>3. CASE ReturnError /\ RemoveIfFinishing
    BY <1>0, <2>1, <2>3 DEF ControlInv, ReturnError, RemoveIfFinishing
  <2> QED BY <2>1, <2>2, <2>3
<1>3. CASE NothingToBuild
  BY <1>0, <1>3 DEF NothingToBuild, ControlInv
<1>4. CASE AcceptKey
  BY <1>0, <1>4 DEF AcceptKey, ControlInv
<1>5. CASE Finish
  <2>1. /\ UNCHANGED <<totalKeysAdded, ioFaults>>
        /\ pc = "idle" /\ ~closed /\ closed' /\ finishing'
        /\ RetriesWrites \/ ioFaults = 0
        /\ \/ outcome' = "failed" /\ pc' = "idle"
           \/ pc' = "build" /\ UNCHANGED <<output, outcome>> /\ totalKeysAdded = TotalKeys
    BY <1>5 DEF Finish
  <2> QED BY <1>0, <2>1 DEF ControlInv
<1>6. CASE FinalizeIndex
  BY <1>0, <1>6 DEF FinalizeIndex, ControlInv
<1>7. CASE Close
  <2>1. /\ UNCHANGED <<totalKeysAdded, ioFaults, finishing, pc>>
        /\ pc = "idle" /\ ~closed /\ closed' /\ outcome' = "failed"
    BY <1>7 DEF Close
  <2> QED BY <1>0, <2>1 DEF ControlInv
<1>8. CASE UserCancel \/ UNCHANGED vars
  BY <1>8 DEF UserCancel, vars, serialVars, ControlInv
<1> QED
  BY <1>1, <1>2, <1>3, <1>4, <1>5, <1>6, <1>7, <1>8 DEF Next, CallAfterClose

(* What a successful commitBlockWithData advances. *)
LEMMA CommitAdvances ==
  ASSUME NEW d, NEW n, CommitBlockWithData(d, n, "ok")
  PROVE  /\ blockCount' = blockCount + 1 /\ keyCount' = keyCount + n
         /\ ioFaults' = ioFaults
  BY DEF CommitBlockWithData, Advance

(* AddKey works through the blocks in order and never touches a committed one. *)
LEMMA OrderInvStep ==
  ASSUME TypeOK, ControlInv, OrderInv, [Next]_vars
  PROVE  OrderInv'
<1> USE DEF iwVars
<1>0. firstKey \in BOOLEAN /\ finishing \in BOOLEAN
  BY DEF TypeOK
<1>1. ASSUME NEW b \in Blocks, AddKey(b) PROVE OrderInv'
  <2>1. /\ UNCHANGED <<blockCount, finishing, nextBlockToWrite, firstKey, keysAdded,
                       currentBlockIdx, outcome>>
        /\ pc = "idle" /\ ~closed
        /\ \/ pc' = "idle" /\ UNCHANGED <<target, lastBlockID>>
           \/ ~(b < lastBlockID) /\ pc' = "build" /\ target' = b /\ lastBlockID' = b
    BY <1>1 DEF AddKey
  <2>2. b \in Int /\ lastBlockID <= lastBlockID'
    BY <2>1, CountTypes DEF Blocks
  <2>3. Pending' = Pending
    BY <2>1 DEF Pending
  <2>4. ~finishing
    BY <2>1 DEF ControlInv
  <2> QED BY <1>0, <2>1, <2>2, <2>3, <2>4, CountTypes DEF OrderInv
<1>2. CASE BuildBlock
  <2>1. /\ UNCHANGED <<firstKey, currentBlockIdx, lastBlockID, keysAdded, target, finishing>>
        /\ pc = "build" /\ outcome = "building"
        /\ keysAdded > 0 /\ Pending = keysAdded /\ currentBlockIdx = blockCount
        /\ ~finishing => ~firstKey /\ target # currentBlockIdx
    BY <1>2, BuildBlockSteps
  <2>2. CASE ReturnError /\ UNCHANGED <<blockCount, nextBlockToWrite>>
    <3>1. pc' = "idle" /\ Pending' = Pending
      BY <2>1, <2>2 DEF ReturnError, Pending
    <3> QED BY <1>0, <2>1, <2>2, <3>1 DEF OrderInv
  <2>3. CASE /\ CommitBlockWithData(currentBlockIdx, keysAdded, "ok")
             /\ pc' = "gap"
             /\ nextBlockToWrite' = IF finishing THEN nextBlockToWrite
                                                 ELSE nextBlockToWrite + 1
    <3>1. blockCount' = blockCount + 1
      BY <2>3, CommitAdvances
    <3>2. Pending' = 0 /\ blockCount' <= NumBlocks
      BY <2>1, <3>1, CountTypes DEF Pending
    <3>3. ~finishing => target = lastBlockID /\ currentBlockIdx < lastBlockID
      BY <2>1, CountTypes DEF OrderInv
    <3> QED BY <1>0, <2>1, <2>3, <3>1, <3>2, <3>3, CountTypes DEF OrderInv
  <2> QED BY <1>2, <2>2, <2>3, BuildBlockSteps
<1>3. CASE CommitEmptyBlock
  <2>1. /\ UNCHANGED <<firstKey, currentBlockIdx, lastBlockID, target, finishing>>
        /\ pc = "gap" /\ GapLeft /\ Pending = 0 /\ keysAdded' = 0
    BY <1>3, CommitEmptySteps
  <2>2. Pending' = 0 /\ (currentBlockIdx >= blockCount => firstKey)
    BY <2>1, CountTypes DEF Pending, OrderInv
  <2>3. CASE ReturnError /\ UNCHANGED <<blockCount, nextBlockToWrite>>
    <3>1. pc' = "idle"
      BY <2>3 DEF ReturnError
    <3> QED BY <1>0, <2>1, <2>2, <2>3, <3>1 DEF OrderInv
  <2>4. CASE /\ CommitBlockWithData(EmptyBlock, 0, "ok")
             /\ pc' = "gap"
             /\ nextBlockToWrite' = IF finishing THEN nextBlockToWrite
                                                 ELSE nextBlockToWrite + 1
    <3>1. blockCount' = blockCount + 1
      BY <2>4, CommitAdvances
    <3>4. currentBlockIdx >= blockCount' => firstKey
      BY <2>2, <3>1, CountTypes
    <3>2. CASE finishing
      <4>1. blockCount' <= NumBlocks
        BY <2>1, <3>1, <3>2, CountTypes DEF GapLeft
      <4> QED BY <1>0, <2>1, <2>2, <2>4, <3>2, <3>4, <4>1 DEF OrderInv
    <3>3. CASE ~finishing
      <4>1. /\ nextBlockToWrite = blockCount /\ target = lastBlockID
            /\ blockCount < target /\ (firstKey \/ target # currentBlockIdx)
        BY <2>1, <3>3 DEF GapLeft, OrderInv
      <4>2. blockCount' <= NumBlocks /\ blockCount' <= lastBlockID
        BY <3>1, <4>1, CountTypes
      <4>3. ~firstKey => currentBlockIdx < lastBlockID
        BY <4>1, CountTypes DEF OrderInv
      <4> QED BY <1>0, <2>1, <2>2, <2>4, <3>1, <3>3, <3>4, <4>1, <4>2, <4>3 DEF OrderInv
    <3> QED BY <3>2, <3>3
  <2> QED BY <1>3, <2>3, <2>4, CommitEmptySteps
<1>4. CASE NothingToBuild
  <2>1. /\ UNCHANGED <<blockCount, finishing, nextBlockToWrite, firstKey, keysAdded,
                       currentBlockIdx, target, lastBlockID, outcome>>
        /\ pc = "build" /\ pc' = "gap" /\ ~BlockComplete
    BY <1>4 DEF NothingToBuild
  <2>2. Pending' = Pending
    BY <2>1 DEF Pending
  <2>3. Pending > 0 => ~finishing /\ target = currentBlockIdx
    <3>1. Pending = keysAdded
      BY <2>1 DEF OrderInv, ControlInv
    <3> QED BY <2>1, <3>1 DEF BlockComplete, OrderInv
  <2> QED BY <1>0, <2>1, <2>2, <2>3 DEF OrderInv
<1>5. CASE AcceptKey
  <2>1. /\ UNCHANGED <<blockCount, finishing, nextBlockToWrite, target, lastBlockID, outcome>>
        /\ pc = "gap" /\ ~finishing /\ pc' = "idle" /\ currentBlockIdx' = target /\ ~firstKey'
        /\ ~GapLeft
        /\ keysAdded' = IF firstKey \/ target # currentBlockIdx THEN 1 ELSE keysAdded + 1
    BY <1>5 DEF AcceptKey
  <2>2. nextBlockToWrite = blockCount /\ target = lastBlockID /\ blockCount <= target
    BY <2>1, CountTypes DEF OrderInv
  <2>3. target = blockCount
    <3>1. CASE firstKey \/ target # currentBlockIdx
      BY <2>1, <2>2, <3>1, CountTypes DEF GapLeft
    <3>2. CASE ~firstKey /\ target = currentBlockIdx
      <4>1. keysAdded > 0
        BY <2>1, <2>2, <3>2, CountTypes DEF OrderInv
      <4> QED BY <2>2, <3>2, <4>1, CountTypes DEF OrderInv, Pending
    <3> QED BY <3>1, <3>2
  <2>4. Pending' = keysAdded'
    BY <2>1, <2>2, CountTypes DEF Pending
  <2> QED BY <2>1, <2>2, <2>3, <2>4, CountTypes DEF OrderInv
<1>6. CASE Finish
  <2>1. /\ UNCHANGED <<blockCount, nextBlockToWrite, firstKey, keysAdded, currentBlockIdx,
                       target, lastBlockID>>
        /\ pc = "idle" /\ ~closed /\ finishing'
        /\ pc' \in {"idle", "build"} /\ outcome' \in {outcome, "failed"}
    BY <1>6 DEF Finish, CloseAndRemove
  <2>2. Pending' = Pending
    BY <2>1 DEF Pending
  <2> QED BY <1>0, <2>1, <2>2 DEF OrderInv, ControlInv
<1>7. CASE FinalizeIndex \/ Close
  <2>1. /\ UNCHANGED <<blockCount, nextBlockToWrite, firstKey, keysAdded, currentBlockIdx,
                       target, lastBlockID, finishing>>
        /\ pc' = "idle" /\ outcome' # "building"
    BY <1>7 DEF FinalizeIndex, Finalize, Close, CloseAndRemove
  <2>2. Pending' = Pending
    BY <2>1 DEF Pending
  <2> QED BY <1>0, <2>1, <2>2 DEF OrderInv
<1>8. CASE UserCancel \/ UNCHANGED vars
  <2>1. UNCHANGED <<blockCount, nextBlockToWrite, firstKey, keysAdded, currentBlockIdx,
                    target, lastBlockID, finishing, pc, outcome>>
    BY <1>8 DEF UserCancel, vars, serialVars
  <2>2. Pending' = Pending
    BY <2>1 DEF Pending
  <2> QED BY <2>1, <2>2 DEF OrderInv
<1> QED
  BY <1>1, <1>2, <1>3, <1>4, <1>5, <1>6, <1>7, <1>8 DEF Next, CallAfterClose

(* The keys in committed blocks and in the block builder are the accepted ones,
   also across a failed commit and its retry. *)
LEMMA CountInvStep ==
  ASSUME TypeOK, ControlInv, OrderInv, CountInv, [Next]_vars
  PROVE  CountInv'
<1> USE DEF iwVars
<1>1. ASSUME UNCHANGED <<keyCount, blockCount, totalKeysAdded, currentBlockIdx, keysAdded,
                         accepted>>
      PROVE  CountInv'
  BY <1>1 DEF CountInv, Pending
<1>2. CASE BuildBlock
  <2>1. /\ UNCHANGED <<currentBlockIdx, totalKeysAdded, keysAdded, accepted>>
        /\ Pending = keysAdded /\ currentBlockIdx = blockCount
    BY <1>2, BuildBlockSteps
  <2>2. CASE UNCHANGED <<keyCount, blockCount>>
    BY <1>1, <2>1, <2>2
  <2>3. CASE CommitBlockWithData(currentBlockIdx, keysAdded, "ok")
    <3>1. blockCount' = blockCount + 1 /\ keyCount' = keyCount + keysAdded
      BY <2>3, CommitAdvances
    <3>2. Pending' = 0
      BY <2>1, <3>1, CountTypes DEF Pending
    <3>3. keyCount' + Pending' = totalKeysAdded'
      BY <2>1, <3>1, <3>2, CountTypes, SMTT(30) DEF CountInv
    <3>4. \A b \in Blocks : b >= blockCount' => b >= blockCount /\ b # currentBlockIdx
      <4>1. PICK c \in Nat : c = blockCount
        BY CountTypes
      <4>2. \A b \in Blocks : b >= c + 1 => b >= c /\ b # c
        <5>1. Blocks = 0 .. NumBlocks - 1 /\ NumBlocks \in Nat
          BY CountTypes
        <5> QED BY ONLY <5>1, c \in Nat
      <4> QED BY ONLY <2>1, <3>1, <4>1, <4>2
    <3> QED BY <2>1, <3>3, <3>4 DEF CountInv
  <2> QED BY <1>2, <2>2, <2>3, BuildBlockSteps
<1>3. CASE CommitEmptyBlock
  <2>1. /\ UNCHANGED <<currentBlockIdx, totalKeysAdded, accepted>>
        /\ Pending = 0 /\ keysAdded' = 0
    BY <1>3, CommitEmptySteps
  <2>2. Pending' = 0
    BY <2>1 DEF Pending
  <2>3. \A b \in Blocks : b >= blockCount => accepted[b] = 0
    BY <2>1, CountTypes DEF CountInv, Pending, Blocks
  <2>4. blockCount' \in {blockCount, blockCount + 1} /\ keyCount' = keyCount
    BY <1>3, CommitEmptySteps, CommitAdvances, CountTypes
  <2>5. \A b \in Blocks : b >= blockCount' => b >= blockCount
    BY <2>4, CountTypes DEF Blocks
  <2> QED BY <2>1, <2>2, <2>3, <2>4, <2>5 DEF CountInv
<1>4. CASE AcceptKey
  <2>1. /\ UNCHANGED <<keyCount, blockCount, nextBlockToWrite, target, lastBlockID>>
        /\ pc = "gap" /\ ~finishing /\ ~GapLeft /\ currentBlockIdx' = target
        /\ keysAdded' = IF firstKey \/ target # currentBlockIdx THEN 1 ELSE keysAdded + 1
        /\ totalKeysAdded' = totalKeysAdded + 1
        /\ accepted' = [accepted EXCEPT ![target] = @ + 1]
    BY <1>4 DEF AcceptKey
  <2>2. nextBlockToWrite = blockCount /\ target = lastBlockID /\ blockCount <= target
        /\ target \in Blocks
    BY <2>1, CountTypes DEF OrderInv, TypeOK
  <2>3. Pending' = keysAdded'
    BY <2>1, <2>2, CountTypes DEF Pending
  <2>4. CASE firstKey \/ target # currentBlockIdx
    <3>1. Pending = 0 /\ keysAdded' = 1
      BY <2>1, <2>4, CountTypes DEF OrderInv, Pending
    <3>2. keyCount' + Pending' = totalKeysAdded'
      BY <2>1, <2>3, <3>1, CountTypes DEF CountInv
    <3>3. \A b \in Blocks : b >= blockCount => accepted[b] = 0
      BY <3>1, CountTypes DEF CountInv, Pending, Blocks
    <3>4. ASSUME NEW b \in Blocks, b >= blockCount
          PROVE  accepted'[b] = IF b = target THEN 1 ELSE 0
      <4>1. accepted[b] = 0
        BY <3>3, <3>4
      <4> QED BY <2>1, <4>1, CountTypes
    <3> QED BY <2>1, <3>1, <3>2, <3>4 DEF CountInv
  <2>5. CASE ~firstKey /\ target = currentBlockIdx
    <3>1. keysAdded' = keysAdded + 1 /\ Pending = keysAdded
      BY <2>1, <2>2, <2>5, CountTypes DEF Pending
    <3>2. keyCount' + Pending' = totalKeysAdded'
      <4>1. PICK k \in Nat, a \in Nat, t \in Nat :
               k = keyCount /\ a = keysAdded /\ t = totalKeysAdded
        BY CountTypes
      <4>2. k + a = t
        BY <3>1, <4>1 DEF CountInv
      <4>3. k + (a + 1) = t + 1
        BY ONLY <4>2, k \in Nat, a \in Nat, t \in Nat
      <4> QED BY ONLY <2>1, <2>3, <3>1, <4>1, <4>3
    <3>3. ASSUME NEW b \in Blocks, b >= blockCount
          PROVE  accepted'[b] = IF b = target THEN keysAdded + 1 ELSE 0
      <4>1. accepted[b] = IF b = target THEN keysAdded ELSE 0
        BY <2>5, <3>3 DEF CountInv
      <4>2. CASE b = target
        BY <2>1, <4>1, <4>2, CountTypes
      <4>3. CASE b # target
        BY <2>1, <4>1, <4>3, CountTypes
      <4> QED BY <4>2, <4>3
    <3> QED BY <2>1, <3>1, <3>2, <3>3 DEF CountInv
  <2> QED BY <2>4, <2>5
<1>5. ASSUME \/ \E b \in Blocks : AddKey(b)
             \/ NothingToBuild \/ Finish \/ FinalizeIndex \/ Close \/ UserCancel
             \/ UNCHANGED vars
      PROVE  CountInv'
  BY <1>1, <1>5 DEF AddKey, NothingToBuild, Finish, FinalizeIndex, Finalize, Close,
     CloseAndRemove, UserCancel, vars, serialVars
<1> QED BY <1>2, <1>3, <1>4, <1>5 DEF Next, CallAfterClose

--------------------------------------------------------------------------------
(* The layout of the file. *)

LEMMA AppendKeeps ==
  ASSUME NEW S, NEW s \in Seq(S), NEW x, NEW t, t = Append(s, x)
  PROVE  /\ Len(t) = Len(s) + 1 /\ t[Len(s) + 1] = x
         /\ \A i \in 1 .. Len(s) : t[i] = s[i]
OBVIOUS

(* A successful commitBlockWithData of the next block, empty or not, keeps the
   committed blocks and adds one. *)
LEMMA CommitLayout ==
  ASSUME TypeOK, OrderInv, LayoutInv, NEW d, NEW n \in Nat,
         CommitBlockWithData(d, n, "ok"),
         ioFaults = 0, outcome = "building",
         blockCount \in Blocks, n = accepted[blockCount],
         BlockData(d, n) = BlockData(blockCount, n), n > 0 => d = blockCount,
         accepted' = accepted
  PROVE  LayoutInv'
<1>t. /\ ramIndex \in Seq(RamIndexEntry) /\ metadata \in Seq(BlockDataSet)
      /\ payloadHash \in Seq(BlockDataSet)
      /\ blockCount \in Nat /\ keyCount \in Nat /\ TotalKeys \in Nat
  BY CountTypes DEF TypeOK, IWTypeOK
<1>0. /\ Len(ramIndex) = blockCount /\ Len(metadata) = blockCount
      /\ Len(payloadHash) = blockCount
      /\ IF blockCount = 0 THEN keyCount = 0 ELSE ramIndex[1].keysBefore = 0
      /\ \A b \in Blocks : b < blockCount => Committed(b)
  BY DEF LayoutInv
<1> DEFINE entry == [keysBefore |-> keyCount, metadataOffset |-> Len(metadata)]
           data == BlockData(blockCount, accepted[blockCount])
<1>1. /\ ramIndex' = Append(ramIndex, entry) /\ metadata' = Append(metadata, data)
      /\ payloadHash' = Append(payloadHash, data)
      /\ payloads' = PayloadsWith(d, n, keyCount)
      /\ blockCount' = blockCount + 1 /\ keyCount' = keyCount + n
  BY DEF CommitBlockWithData, RecordAndWriteMetadata, CurrentEntry, FoldPayloadHash, Advance
<1> HIDE DEF entry, data
<1>a. /\ Len(ramIndex') = blockCount + 1 /\ ramIndex'[blockCount + 1] = entry
      /\ \A i \in 1 .. blockCount : ramIndex'[i] = ramIndex[i]
  BY ONLY <1>t, <1>0, <1>1, AppendKeeps
<1>b. /\ Len(metadata') = blockCount + 1 /\ metadata'[blockCount + 1] = data
      /\ \A i \in 1 .. blockCount : metadata'[i] = metadata[i]
  BY ONLY <1>t, <1>0, <1>1, AppendKeeps
<1>c. /\ Len(payloadHash') = blockCount + 1 /\ payloadHash'[blockCount + 1] = data
      /\ \A i \in 1 .. blockCount : payloadHash'[i] = payloadHash[i]
  BY ONLY <1>t, <1>0, <1>1, AppendKeeps
<1>2. /\ Len(ramIndex') = blockCount + 1 /\ Len(metadata') = blockCount + 1
      /\ Len(payloadHash') = blockCount + 1
  BY ONLY <1>a, <1>b, <1>c
<1>3. /\ ramIndex'[blockCount + 1] = entry /\ metadata'[blockCount + 1] = data
      /\ payloadHash'[blockCount + 1] = data
  BY ONLY <1>a, <1>b, <1>c
<1>4. \A i \in 1 .. blockCount : /\ ramIndex'[i] = ramIndex[i]
                                 /\ metadata'[i] = metadata[i]
                                 /\ payloadHash'[i] = payloadHash[i]
  BY ONLY <1>a, <1>b, <1>c
<1> USE DEF entry, data
<1>5. \A i \in 0 .. TotalKeys - 1 :
        payloads'[i] = IF keyCount <= i /\ i < keyCount + n THEN d ELSE payloads[i]
  BY <1>1 DEF PayloadsWith
<1>6. ramIndex'[1].keysBefore = 0
  <2>1. CASE blockCount = 0
    BY <1>0, <1>3, <2>1
  <2>2. CASE blockCount # 0
    <3>1. 1 \in 1 .. blockCount
      BY <1>t, <2>2
    <3> QED BY <1>0, <1>4, <2>2, <3>1
  <2> QED BY <2>1, <2>2
<1>7. ASSUME NEW b \in Blocks, b < blockCount PROVE Committed(b)'
  <2>1. Committed(b)
    BY <1>0, <1>7
  <2>2. b \in Nat /\ b + 1 \in 1 .. blockCount
    BY <1>t, <1>7, CountTypes DEF Blocks
  <2>3. ramIndex'[b + 1] = ramIndex[b + 1] /\ KeysEnd(b)' = KeysEnd(b)
    BY <1>4, <2>2 DEF KeysEnd
  <2>4. ramIndex[b + 1].keysBefore \in Nat /\ accepted[b] \in Nat /\ KeysEnd(b) \in Nat
    <3>1. ramIndex[b + 1] \in RamIndexEntry
      BY <1>t, <1>0, <2>2
    <3>2. ramIndex[b + 1].keysBefore \in Nat
      BY <3>1 DEF RamIndexEntry
    <3>3. accepted[b] \in Nat
      BY CountTypes
    <3> QED BY <3>2, <3>3 DEF KeysEnd
  <2>5. KeysEnd(b) <= keyCount /\ KeysEnd(b) <= keyCount'
    <3>1. KeysEnd(b) <= keyCount
      BY <2>1 DEF Committed
    <3>2. PICK k \in Nat, e \in Nat : k = keyCount /\ e = KeysEnd(b)
      BY ONLY <1>t, <2>4
    <3>3. keyCount' = k + n
      BY ONLY <1>1, <3>2
    <3>4. e <= k /\ e <= k + n
      BY ONLY <3>1, <3>2, k \in Nat, e \in Nat, n \in Nat
    <3> QED BY ONLY <3>2, <3>3, <3>4
  <2>8. b + 1 < blockCount'
    BY <1>t, <1>1, <1>7, <2>2
  <2>6. KeysEnd(b) = ramIndex'[b + 2].keysBefore
    <3>1. CASE b + 1 = blockCount
      <4>1. ~(b + 1 < blockCount) /\ b + 2 = blockCount + 1
        BY <1>t, <2>2, <3>1
      <4>2. KeysEnd(b) = keyCount
        BY <2>1, <4>1 DEF Committed
      <4>3. ramIndex'[b + 2].keysBefore = keyCount
        BY <1>3, <4>1
      <4> QED BY <4>2, <4>3
    <3>2. CASE b + 1 # blockCount
      <4>1. b + 1 < blockCount /\ b + 2 \in 1 .. blockCount
        BY <1>t, <2>2, <3>2
      <4>2. KeysEnd(b) = ramIndex[b + 2].keysBefore
        BY <2>1, <4>1 DEF Committed
      <4> QED BY <1>4, <4>1, <4>2
    <3> QED BY <3>1, <3>2
  <2>7. ASSUME NEW i \in ramIndex[b + 1].keysBefore .. KeysEnd(b) - 1, i < TotalKeys
        PROVE  payloads'[i] = b
    <3>0. PICK k \in Nat, e \in Nat, f \in Nat :
             k = keyCount /\ e = KeysEnd(b) /\ f = ramIndex[b + 1].keysBefore
      BY ONLY <1>t, <2>4
    <3>1. i \in 0 .. TotalKeys - 1 /\ ~(k <= i)
      BY ONLY <1>t, <2>5, <2>7, <3>0, k \in Nat, e \in Nat, f \in Nat,
         i \in ramIndex[b + 1].keysBefore .. KeysEnd(b) - 1
    <3>2. payloads[i] = b
      BY <2>1, <2>7 DEF Committed
    <3> QED BY ONLY <1>5, <3>0, <3>1, <3>2
  <2> QED BY <1>4, <2>1, <2>2, <2>3, <2>5, <2>6, <2>7, <2>8 DEF Committed
<1>8. ASSUME NEW b \in Blocks, b = blockCount PROVE Committed(b)'
  <2>1. ramIndex'[b + 1] = entry
    BY <1>3, <1>8
  <2>2. ~(b + 1 < blockCount')
    BY <1>t, <1>1, <1>8
  <2>3. KeysEnd(b)' = keyCount'
    <3>1. ramIndex'[b + 1].keysBefore = keyCount /\ accepted'[b] = n
      BY <1>8, <2>1
    <3>2. keyCount' = keyCount + n
      BY <1>1
    <3> QED BY <3>1, <3>2 DEF KeysEnd
  <2>4. keyCount' \in Nat
    BY <1>t, <1>1, SMTT(30)
  <2>5. ASSUME NEW i \in keyCount .. keyCount' - 1, i < TotalKeys PROVE payloads'[i] = b
    <3>0. PICK k \in Nat, l \in Nat : k = keyCount /\ l = keyCount' /\ l = k + n
      BY ONLY <1>t, <1>1, <2>4
    <3>1. i \in 0 .. TotalKeys - 1 /\ k <= i /\ i < k + n /\ n > 0
      BY ONLY <1>t, <2>5, <3>0, k \in Nat, l \in Nat, n \in Nat, i \in keyCount .. keyCount' - 1
    <3>2. payloads'[i] = d
      BY ONLY <1>5, <3>0, <3>1
    <3> QED BY <1>8, <3>1, <3>2
  <2>6. metadata'[b + 1] = BlockData(b, accepted'[b]) /\ payloadHash'[b + 1] = BlockData(b, accepted'[b])
    BY <1>3, <1>8
  <2>7. ramIndex'[b + 1].keysBefore = keyCount /\ ramIndex'[b + 1].metadataOffset = b
    BY <1>0, <1>8, <2>1
  <2>8. \A i \in ramIndex'[b + 1].keysBefore .. KeysEnd(b)' - 1 : i < TotalKeys => payloads'[i] = b
    BY ONLY <2>3, <2>5, <2>7
  <2>9. KeysEnd(b)' <= keyCount'
    BY ONLY <2>3, <2>4
  <2> QED BY ONLY <2>2, <2>3, <2>6, <2>7, <2>8, <2>9 DEF Committed
<1>9. \A b \in Blocks : b < blockCount' => b < blockCount \/ b = blockCount
  BY <1>t, <1>1, CountTypes DEF Blocks
<1>10. \A b \in Blocks : b < blockCount' => Committed(b)'
  BY ONLY <1>7, <1>8, <1>9
<1>11. blockCount' = blockCount + 1 /\ blockCount + 1 # 0
  BY ONLY <1>t, <1>1
<1> QED BY ONLY <1>2, <1>6, <1>10, <1>11 DEF LayoutInv

(* The file of every build without a failed write is laid out block after block. *)
LEMMA LayoutStep ==
  ASSUME TypeOK, ControlInv, OrderInv, CountInv, LayoutInv, [Next]_vars
  PROVE  LayoutInv'
<1> USE DEF iwVars
<1>0. ASSUME UNCHANGED <<ramIndex, metadata, payloads, payloadHash, keyCount, blockCount,
                         accepted>>,
             ioFaults' = 0 => ioFaults = 0, outcome' = "building" => outcome = "building"
      PROVE  LayoutInv'
  BY <1>0 DEF LayoutInv, Committed, KeysEnd
<1>1. CASE BuildBlock
  <2>1. /\ accepted' = accepted /\ keysAdded > 0 /\ currentBlockIdx = blockCount
        /\ outcome = "building"
    BY <1>1, BuildBlockSteps
  <2>2. CASE CommitBlockWithData(currentBlockIdx, keysAdded, "ok")
    <3>1. currentBlockIdx \in Blocks /\ keysAdded \in Nat
      BY DEF TypeOK
    <3>2. keysAdded = accepted[blockCount]
      BY <2>1, <3>1, CountTypes DEF CountInv
    <3>3. CASE ioFaults = 0
      BY <2>1, <2>2, <3>1, <3>2, <3>3, CommitLayout
    <3>4. CASE ioFaults # 0
      BY <2>2, <3>4, CommitAdvances DEF LayoutInv
    <3> QED BY <3>3, <3>4
  <2>3. CASE /\ UNCHANGED <<keyCount, blockCount>>
             /\ ioFaults' = 0 =>
                   UNCHANGED <<ramIndex, metadata, payloads, payloadHash, ioFaults>>
    <3>1. CASE ioFaults' = 0
      BY <1>0, <2>1, <2>3, <3>1
    <3>2. CASE ioFaults' # 0
      BY <3>2 DEF LayoutInv
    <3> QED BY <3>1, <3>2
  <2> QED BY <1>1, <2>2, <2>3, BuildBlockSteps
<1>2. CASE CommitEmptyBlock
  <2>1. /\ accepted' = accepted /\ GapLeft /\ Pending = 0 /\ outcome = "building"
        /\ pc = "gap"
    BY <1>2, CommitEmptySteps
  <2>2. CASE CommitBlockWithData(EmptyBlock, 0, "ok")
    <3>1. blockCount \in Blocks
      <4>1. CASE finishing
        BY <2>1, <4>1, CountTypes DEF GapLeft
      <4>2. CASE ~finishing
        BY <2>1, <4>2, CountTypes DEF GapLeft, OrderInv
      <4> QED BY <4>1, <4>2
    <3>2. accepted[blockCount] = 0
      BY <2>1, <3>1, CountTypes DEF CountInv, Pending
    <3>3. CASE ioFaults = 0
      BY <2>1, <2>2, <3>1, <3>2, <3>3, CommitLayout DEF BlockData
    <3>4. CASE ioFaults # 0
      BY <2>2, <3>4, CommitAdvances DEF LayoutInv
    <3> QED BY <3>3, <3>4
  <2>3. CASE ioFaults' # 0
    BY <2>3 DEF LayoutInv
  <2> QED BY <1>2, <2>2, <2>3, CommitEmptySteps
<1>3. CASE AcceptKey
  <2>1. /\ UNCHANGED <<ramIndex, metadata, payloads, payloadHash, keyCount, blockCount, ioFaults,
                       outcome>>
        /\ pc = "gap" /\ ~finishing
        /\ accepted' = [accepted EXCEPT ![target] = @ + 1]
    BY <1>3 DEF AcceptKey
  <2>2. blockCount <= target
    BY <2>1, CountTypes DEF OrderInv
  <2>3. \A b \in Blocks : b < blockCount => accepted'[b] = accepted[b]
    BY <2>1, <2>2, CountTypes DEF Blocks
  <2>4. ASSUME NEW b \in Blocks, b < blockCount, Committed(b) PROVE Committed(b)'
    <3>1. accepted'[b] = accepted[b]
      BY <2>3, <2>4
    <3>2. KeysEnd(b)' = KeysEnd(b)
      BY <2>1, <3>1 DEF KeysEnd
    <3> QED BY <2>1, <2>4, <3>1, <3>2 DEF Committed
  <2> QED BY <2>1, <2>4 DEF LayoutInv, Blocks
<1>4. CASE FinalizeIndex
  BY <1>4 DEF FinalizeIndex, LayoutInv
<1>5. ASSUME \/ \E b \in Blocks : AddKey(b)
             \/ NothingToBuild \/ Finish \/ Close \/ UserCancel
             \/ UNCHANGED vars
      PROVE  LayoutInv'
  <2>1. UNCHANGED <<ramIndex, metadata, payloads, payloadHash, keyCount, blockCount, accepted,
                    ioFaults>>
    BY <1>5 DEF AddKey, NothingToBuild, Finish, Close, CloseAndRemove, UserCancel, vars,
       serialVars
  <2>2. outcome' = "building" => outcome = "building"
    BY <1>5 DEF AddKey, NothingToBuild, Finish, Close, UserCancel, vars, serialVars
  <2> QED BY <1>0, <2>1, <2>2
<1> QED BY <1>1, <1>2, <1>3, <1>4, <1>5 DEF Next, CallAfterClose

(* The record between two consecutive offsets of a region. *)
LEMMA SubSeqSingle ==
  ASSUME NEW S, NEW s \in Seq(S), NEW k \in 1 .. Len(s)
  PROVE  SubSeq(s, k, k) = <<s[k]>>
<1>1. SubSeq(s, k, k) \in Seq(S) /\ Len(SubSeq(s, k, k)) = 1
  OBVIOUS
<1>2. SubSeq(s, k, k)[1] = s[k]
  OBVIOUS
<1>3. <<s[k]>> \in Seq(S) /\ Len(<<s[k]>>) = 1 /\ <<s[k]>>[1] = s[k]
  OBVIOUS
<1>4. \A i \in 1 .. Len(SubSeq(s, k, k)) : SubSeq(s, k, k)[i] = <<s[k]>>[i]
  BY <1>1, <1>2, <1>3
<1> QED BY <1>1, <1>3, <1>4, SeqEqual

(* After the end nothing changes any more. *)
LEMMA EndIsFinal ==
  ASSUME ControlInv, outcome = "ok", [Next]_vars
  PROVE  UNCHANGED <<outcome, iwVars, accepted>>
<1>1. pc = "idle" /\ closed
  BY DEF ControlInv
<1> QED BY <1>1 DEF Next, AddKey, BuildBlock, NothingToBuild, CommitEmptyBlock, AcceptKey,
           Finish, FinalizeIndex, Close, CallAfterClose, UserCancel, vars, serialVars

(* finalizeIndex is reached with every block committed and nothing pending. *)
LEMMA FinalizeComplete ==
  ASSUME TypeOK, ControlInv, OrderInv, CountInv, FinalizeIndex
  PROVE  blockCount = NumBlocks /\ keyCount = TotalKeys /\ outcome = "building"
<1>1. pc = "gap" /\ finishing /\ ~GapLeft
  BY DEF FinalizeIndex
<1>2. blockCount = NumBlocks
  BY <1>1, CountTypes DEF GapLeft, OrderInv
<1>3. Pending = 0
  BY <1>2, CountTypes DEF Pending
<1>4. outcome = "building" /\ totalKeysAdded = TotalKeys
  BY <1>1 DEF ControlInv
<1> QED BY <1>2, <1>3, <1>4, CountTypes DEF CountInv

(* A build that returns nil without a failed write leaves the index a reader
   expects. *)
LEMMA OkStep ==
  ASSUME TypeOK, ControlInv, OrderInv, CountInv, LayoutInv, OkInv, [Next]_vars
  PROVE  OkInv'
<1> USE DEF iwVars
<1>1. CASE outcome = "ok"
  <2>1. UNCHANGED <<outcome, iwVars, accepted>>
    BY <1>1, EndIsFinal
  <2>2. ioFaults' = ioFaults
    BY <1>1 DEF ControlInv, Next, AddKey, BuildBlock, NothingToBuild, CommitEmptyBlock,
       AcceptKey, Finish, FinalizeIndex, Close, CallAfterClose, UserCancel, vars, serialVars
  <2>3. IndexHolds(accepted)' <=> IndexHolds(accepted)
    BY <2>1 DEF IndexHolds
  <2> QED BY <2>1, <2>2, <2>3 DEF OkInv, IndexCorrect
<1>2. CASE outcome # "ok" /\ FinalizeIndex
  <2>1. blockCount = NumBlocks /\ keyCount = TotalKeys /\ outcome = "building"
    BY <1>2, FinalizeComplete
  <2>2. /\ UNCHANGED <<metadata, payloads, payloadHash, keyCount, blockCount, accepted, ioFaults>>
        /\ ramIndex' = Append(ramIndex, [keysBefore |-> keyCount,
                                         metadataOffset |-> Len(metadata)])
        /\ outcome' = "ok" => output' = "final"
    BY <1>2 DEF FinalizeIndex, Finalize, CurrentEntry
  <2> SUFFICES ASSUME ioFaults = 0 PROVE IndexHolds(accepted)'
    BY <2>2 DEF OkInv, IndexCorrect
  <2>3. /\ Len(ramIndex) = NumBlocks /\ Len(metadata) = NumBlocks
        /\ Len(payloadHash) = NumBlocks
        /\ NumBlocks # 0 => ramIndex[1].keysBefore = 0
        /\ \A b \in Blocks : b < NumBlocks => Committed(b)
    BY <2>1 DEF LayoutInv
  <2>t. /\ ramIndex \in Seq(RamIndexEntry) /\ metadata \in Seq(BlockDataSet)
        /\ payloadHash \in Seq(BlockDataSet)
        /\ NumBlocks \in Nat /\ NumBlocks >= 2 /\ Blocks = 0 .. NumBlocks - 1
    BY CountTypes DEF TypeOK, IWTypeOK
  <2>4. /\ Len(ramIndex') = NumBlocks + 1
        /\ \A i \in 1 .. NumBlocks : ramIndex'[i] = ramIndex[i]
        /\ ramIndex'[NumBlocks + 1] = [keysBefore |-> keyCount, metadataOffset |-> NumBlocks]
    BY <2>2, <2>3, <2>t
  <2>5. ramIndex'[1].keysBefore = 0
    <3>1. 1 \in 1 .. NumBlocks
      BY <2>t
    <3> QED BY <2>3, <2>4, <2>t, <3>1
  <2>6. ASSUME NEW b \in Blocks
        PROVE  /\ ramIndex'[b + 2].keysBefore = ramIndex'[b + 1].keysBefore + accepted[b]
               /\ SubSeq(metadata, ramIndex'[b + 1].metadataOffset + 1,
                         ramIndex'[b + 2].metadataOffset) = <<BlockData(b, accepted[b])>>
               /\ \A i \in ramIndex'[b + 1].keysBefore .. ramIndex'[b + 2].keysBefore - 1 :
                     payloads[i] = b
    <3>1. b \in Nat /\ b < NumBlocks /\ b + 1 \in 1 .. NumBlocks
      BY ONLY <2>t, b \in Blocks
    <3>2. Committed(b)
      BY <2>3, <3>1
    <3>3. ramIndex'[b + 1] = ramIndex[b + 1] /\ ramIndex[b + 1].metadataOffset = b
      BY <2>4, <3>1, <3>2 DEF Committed
    <3>4. ramIndex'[b + 2].keysBefore = KeysEnd(b) /\ ramIndex'[b + 2].metadataOffset = b + 1
      <4>1. CASE b + 1 = NumBlocks
        <5>1. b + 2 = NumBlocks + 1 /\ ~(b + 1 < blockCount)
          BY <2>1, <2>t, <3>1, <4>1
        <5>2. KeysEnd(b) = keyCount
          BY <3>2, <5>1 DEF Committed
        <5> QED BY <2>4, <4>1, <5>1, <5>2
      <4>2. CASE b + 1 # NumBlocks
        <5>1. b + 1 < blockCount /\ b + 2 \in 1 .. NumBlocks /\ b + 1 \in Blocks
              /\ b + 1 < NumBlocks /\ (b + 1) + 1 = b + 2
          BY <2>1, <2>t, <3>1, <4>2, CountTypes
        <5>2. KeysEnd(b) = ramIndex[b + 2].keysBefore
          BY <3>2, <5>1 DEF Committed
        <5>3. ramIndex[b + 2].metadataOffset = b + 1
          BY <2>3, <5>1 DEF Committed
        <5> QED BY <2>4, <5>1, <5>2, <5>3
      <4> QED BY <4>1, <4>2
    <3>5. SubSeq(metadata, b + 1, b + 1) = <<metadata[b + 1]>>
      BY <2>3, <2>t, <3>1, SubSeqSingle
    <3>6. metadata[b + 1] = BlockData(b, accepted[b])
      BY <3>2 DEF Committed
    <3>7. ASSUME NEW i \in ramIndex[b + 1].keysBefore .. KeysEnd(b) - 1 PROVE payloads[i] = b
      <4>1. KeysEnd(b) <= TotalKeys
        BY <2>1, <3>2 DEF Committed
      <4>2. KeysEnd(b) \in Nat /\ ramIndex[b + 1].keysBefore \in Nat
        <5>1. ramIndex[b + 1] \in RamIndexEntry
          BY ONLY <2>3, <2>t, <3>1
        <5>2. accepted[b] \in Nat
          BY CountTypes
        <5> QED BY ONLY <5>1, <5>2 DEF KeysEnd, RamIndexEntry
      <4>3. i < TotalKeys
        <5>1. TotalKeys \in Nat
          BY CountTypes
        <5> QED BY ONLY <4>1, <4>2, <5>1, i \in ramIndex[b + 1].keysBefore .. KeysEnd(b) - 1
      <4> QED BY <3>2, <4>3 DEF Committed
    <3> QED BY <3>3, <3>4, <3>5, <3>6, <3>7 DEF KeysEnd
  <2>7. payloadHash = [i \in 1 .. NumBlocks |-> BlockData(i - 1, accepted[i - 1])]
    <3>1. ASSUME NEW i \in 1 .. NumBlocks PROVE payloadHash[i] = BlockData(i - 1, accepted[i - 1])
      <4>1. i - 1 \in Blocks /\ i - 1 < NumBlocks /\ (i - 1) + 1 = i
        BY ONLY <2>t, i \in 1 .. NumBlocks
      <4> QED BY <2>3, <4>1 DEF Committed
    <3>2. payloadHash = [i \in 1 .. NumBlocks |-> payloadHash[i]]
      BY <2>3, <2>t
    <3> QED BY <3>1, <3>2
  <2> QED BY <2>1, <2>2, <2>4, <2>5, <2>6, <2>7 DEF IndexHolds, Blocks
<1>3. CASE outcome # "ok" /\ ~FinalizeIndex
  <2>1. outcome' # "ok"
    BY <1>3 DEF Next, AddKey, BuildBlock, NothingToBuild, CommitEmptyBlock, AcceptKey,
       ReturnError, Finish, Close, CallAfterClose, UserCancel, vars, serialVars
  <2> QED BY <2>1 DEF OkInv, IndexCorrect
<1> QED BY <1>1, <1>2, <1>3

--------------------------------------------------------------------------------
(* The inductive invariant. *)

(* The invariant holds initially. *)
LEMMA InitSerialInv == Init => SerialInv
<1> SUFFICES ASSUME Init PROVE SerialInv
  OBVIOUS
<1>1. ControlInv
  BY DEF Init, IWInit, ControlInv
<1>2. Pending = 0
  BY DEF Init, Pending
<1>3. OrderInv
  BY <1>2, ConstantTypes DEF Init, IWInit, OrderInv
<1>4. CountInv
  BY <1>2, ConstantTypes DEF Init, IWInit, CountInv
<1>5. LayoutInv
  BY ConstantTypes DEF Init, IWInit, LayoutInv, Blocks
<1>6. OkInv
  BY DEF Init, OkInv, IndexCorrect
<1> QED BY <1>1, <1>3, <1>4, <1>5, <1>6, InitType DEF SerialInv

(* Every step keeps the invariant. *)
LEMMA NextSerialInv == SerialInv /\ [Next]_vars => SerialInv'
  BY NextType, ControlInvStep, OrderInvStep, CountInvStep, LayoutStep, OkStep DEF SerialInv

(* Every variable has its type, whatever the caller does: in particular AddKey never
   advances nextBlockToWrite past the last block. *)
THEOREM SerialTypeCorrect == Spec => []TypeOK
<1>1. SerialInv => TypeOK
  BY DEF SerialInv
<1> QED BY <1>1, InitSerialInv, NextSerialInv, PTL DEF Spec

(* When Finish returns nil and no write failed before, the file holds exactly the
   keys whose AddKey returned nil, in the layout a reader expects: also for a caller
   that went on after rejected keys, a cancelled context or an unbuildable block. *)
THEOREM SerialIndexWithoutFaults == Spec => [](ioFaults = 0 => IndexCorrect)
<1>1. SerialInv => (ioFaults = 0 => IndexCorrect)
  BY DEF SerialInv, OkInv
<1> QED BY <1>1, InitSerialInv, NextSerialInv, PTL DEF Spec

(* For the documented caller, who only calls Close after a failed write, every index
   whose Finish returned nil is correct. *)
THEOREM SerialIndexCorrect ==
  ASSUME RetriesWrites = FALSE
  PROVE  Spec => []IndexCorrect
<1>1. SerialInv => IndexCorrect
  <2> SUFFICES ASSUME SerialInv, outcome = "ok" PROVE IndexCorrect
    BY DEF IndexCorrect
  <2>1. ioFaults = 0
    BY DEF SerialInv, ControlInv
  <2> QED BY <2>1 DEF SerialInv, OkInv
<1> QED BY <1>1, InitSerialInv, NextSerialInv, PTL DEF Spec

(* Every step of the serial build is a step of the abstract build, or none. *)
LEMMA StepRefines ==
  ASSUME SerialInv, [Next]_vars
  PROVE  [Outcome!Next]_(Outcome!outcomeVars)
<1> USE DEF iwVars
<1> SUFFICES Outcome!Next \/ UNCHANGED <<blockCount, outcome, output>>
  BY DEF Outcome!outcomeVars
<1>i. TypeOK /\ ControlInv /\ OrderInv /\ CountInv
  BY DEF SerialInv
<1>1. ASSUME NEW d, NEW n, CommitBlockWithData(d, n, "ok"), blockCount < NumBlocks,
             outcome = "building", UNCHANGED <<output, outcome>>
      PROVE  Outcome!Commit
  BY <1>1, CommitAdvances DEF Outcome!Commit
<1>2. ASSUME ReturnError, RemoveIfFinishing, outcome = "building", blockCount' = blockCount
      PROVE  Outcome!Abort \/ UNCHANGED <<blockCount, outcome, output>>
  BY <1>2 DEF ReturnError, RemoveIfFinishing, Outcome!Abort
<1>3. CASE BuildBlock
  <2>1. blockCount < NumBlocks
    BY <1>3, <1>i, BuildBlockSteps, CountTypes
  <2> QED BY <1>1, <1>2, <1>3, <1>i, <2>1, BuildBlockSteps DEF Outcome!Next
<1>4. CASE CommitEmptyBlock
  <2>1. GapLeft /\ pc = "gap"
    BY <1>4 DEF CommitEmptyBlock
  <2>2. blockCount < NumBlocks
    <3>1. CASE finishing
      BY <2>1, <3>1 DEF GapLeft
    <3>2. CASE ~finishing
      BY <1>i, <2>1, <3>2, CountTypes DEF GapLeft, OrderInv
    <3> QED BY <3>1, <3>2
  <2> QED BY <1>1, <1>2, <1>4, <1>i, <2>2, CommitEmptySteps DEF Outcome!Next
<1>5. CASE FinalizeIndex
  <2>1. blockCount = NumBlocks /\ outcome = "building"
    BY <1>5, <1>i, FinalizeComplete
  <2> QED BY <1>5, <2>1 DEF FinalizeIndex, Finalize, Outcome!Next, Outcome!Succeed,
             Outcome!Abort
<1>6. CASE Finish \/ Close
  <2>1. outcome = "building"
    BY <1>6, <1>i DEF Finish, Close, ControlInv
  <2> QED BY <1>6, <2>1 DEF Finish, Close, CloseAndRemove, Outcome!Next, Outcome!Abort
<1>7. ASSUME (\E b \in Blocks : AddKey(b)) \/ NothingToBuild \/ AcceptKey \/ UserCancel
             \/ UNCHANGED vars
      PROVE  UNCHANGED <<blockCount, outcome, output>>
  BY <1>7 DEF AddKey, NothingToBuild, AcceptKey, UserCancel, vars, serialVars
<1> QED BY <1>3, <1>4, <1>5, <1>6, <1>7 DEF Next, CallAfterClose

(* The serial build implements the abstract build, also for a caller that goes on
   after a failed write: blocks are committed one by one, Finish succeeds only when
   all of them are, and every other end removes the file. *)
THEOREM SerialRefinesBuildOutcome == Spec => ImplementsBuildOutcome
<1>1. Init => Outcome!Init
  BY DEF Init, IWInit, Outcome!Init
<1> QED BY <1>1, InitSerialInv, NextSerialInv, StepRefines, PTL
           DEF Spec, ImplementsBuildOutcome, Outcome!Spec

================================================================================
