------------------------------ MODULE SerialSorted ------------------------------
(***************************************************************************)
(* SortedBuilder with workers = 1 (builder.go): AddKey commits the block   *)
(* it completes and the empty blocks of the gap through                    *)
(* commitBlockWithData, inline, in the caller's goroutine.                 *)
(*                                                                         *)
(* A key is the block it routes to.  Which blocks cannot be built (a       *)
(* duplicate key, an overflowing block) is a property of the keys, so it   *)
(* is fixed by `unbuildable' from the start; writes may fail at any time.  *)
(***************************************************************************)
EXTENDS IndexWriter

CONSTANTS contextCheckInterval,
          MaxCalls,     \* bound on the caller: number of AddKey calls
          MaxIOFaults,  \* bound on the file system: number of failing writes
          RetriesWrites \* whether the caller goes on after a failed write; the
                        \* documented caller only calls Close after an error

ASSUME SerialSortedAssumption ==
    /\ contextCheckInterval \in Nat \ {0}
    /\ MaxCalls \in Nat /\ MaxIOFaults \in Nat
    /\ RetriesWrites \in BOOLEAN

VARIABLES closed, firstKey, currentBlockIdx, nextBlockToWrite, lastBlockID,
          keyCounter, totalKeysAdded,  \* builder fields
          keysAdded,    \* b.builder.KeysAdded(): keys held by the block builder
          pc, target,   \* position in, and blockIdx of, the call being executed
          finishing,    \* the call being executed is Finish
          outcome, ctxDone,
          calls, ioFaults,  \* caller's calls, failed writes
          unbuildable,  \* blocks whose keys no build accepts
          accepted      \* history: keys per block whose AddKey returned nil

serialVars == <<closed, firstKey, currentBlockIdx, nextBlockToWrite, lastBlockID,
                keyCounter, totalKeysAdded, keysAdded, pc, target, finishing, outcome,
                ctxDone, calls, ioFaults, unbuildable, accepted>>
vars == <<iwVars, serialVars>>

(* Every variable has its type: in particular AddKey never advances
   nextBlockToWrite past the last block. *)
TypeOK ==
    /\ IWTypeOK
    /\ closed \in BOOLEAN /\ firstKey \in BOOLEAN /\ finishing \in BOOLEAN
    /\ currentBlockIdx \in Blocks /\ nextBlockToWrite \in 0 .. NumBlocks - 1
    /\ lastBlockID \in Blocks \cup {-1}
    /\ keyCounter \in Nat /\ totalKeysAdded \in Nat /\ keysAdded \in Nat
    /\ pc \in {"idle", "build", "gap", "finalize"} /\ target \in Blocks
    /\ outcome \in {"building", "ok", "failed"} /\ ctxDone \in BOOLEAN
    /\ calls \in Nat /\ ioFaults \in 0 .. MaxIOFaults
    /\ unbuildable \in SUBSET Blocks
    /\ accepted \in [Blocks -> Nat]

Init ==
    /\ IWInit
    /\ closed = FALSE /\ firstKey = TRUE /\ finishing = FALSE
    /\ currentBlockIdx = 0 /\ nextBlockToWrite = 0 /\ lastBlockID = -1
    /\ keyCounter = 0 /\ totalKeysAdded = 0 /\ keysAdded = 0
    /\ pc = "idle" /\ target = 0
    /\ outcome = "building" /\ ctxDone = FALSE
    /\ calls = 0 /\ ioFaults = 0
    /\ unbuildable \in SUBSET Blocks
    /\ accepted = [b \in Blocks |-> 0]

--------------------------------------------------------------------------------
(* Outcomes of commitBlockWithData: both writes succeed, the metadata write
   fails, or the payload write of a non-empty block fails after it. *)
CommitResults(n) == {"ok", "metadata"} \cup (IF n > 0 THEN {"payload"} ELSE {})

(* commitBlockWithData.  A failure leaves behind what was recorded before it:
   the RAM index entry, and after a payload failure the metadata too. *)
CommitBlockWithData(b, n, res) ==
    /\ RecordAndWriteMetadata(b, n, res # "metadata")
    /\ payloads' = IF res = "ok" THEN PayloadsWith(b, n, keyCount) ELSE payloads
    /\ IF res = "ok" THEN FoldPayloadHash(b, n) ELSE UNCHANGED payloadHash
    /\ Advance(n, res = "ok")
    /\ ioFaults' = IF res = "ok" THEN ioFaults ELSE ioFaults + 1
    /\ ioFaults' <= MaxIOFaults

(* An error ends AddKey, with the builder as it is, and Finish through cleanup. *)
ReturnError ==
    /\ pc' = "idle"
    /\ outcome' = IF finishing THEN "failed" ELSE outcome

(* Seeded fault: an error return of Finish without cleanup. *)
RemoveIfFinishingKept == UNCHANGED <<fileOpen, output>>

RemoveIfFinishing ==
    /\ fileOpen' = (fileOpen /\ ~finishing)
    /\ output' = IF finishing THEN "removed" ELSE output

--------------------------------------------------------------------------------
PollDue == keyCounter + 1 >= contextCheckInterval

(* AddKey up to addKeySingleThreaded. *)
AddKey(blockIdx) ==
    /\ pc = "idle" /\ ~closed
    /\ calls < MaxCalls /\ (RetriesWrites \/ ioFaults = 0)
    /\ calls' = calls + 1
    /\ keyCounter' = IF PollDue THEN 0 ELSE keyCounter + 1
    /\ IF (PollDue /\ ctxDone) \/ blockIdx < lastBlockID
         THEN UNCHANGED <<pc, target, lastBlockID>>
         ELSE /\ lastBlockID' = blockIdx
              /\ target' = blockIdx
              /\ pc' = "build"
    /\ UNCHANGED <<iwVars, closed, firstKey, currentBlockIdx, nextBlockToWrite,
                   totalKeysAdded, keysAdded, finishing, outcome, ctxDone, ioFaults,
                   unbuildable, accepted>>

(* The block builder holds a complete block: Finish, or a key of another block. *)
BlockComplete ==
    /\ keysAdded > 0
    /\ finishing \/ (~firstKey /\ target # currentBlockIdx)

(* buildBlock.  AddKey advances nextBlockToWrite; Finish counts blocks by
   iw.blockCount from here on. *)
BuildBlock ==
    /\ pc = "build" /\ BlockComplete
    /\ IF currentBlockIdx \in unbuildable
         THEN /\ ReturnError
              /\ RemoveIfFinishing
              /\ UNCHANGED <<ramIndex, metadata, payloads, payloadHash, keyCount,
                             blockCount, nextBlockToWrite, ioFaults>>
         ELSE \E res \in CommitResults(keysAdded) :
              /\ CommitBlockWithData(currentBlockIdx, keysAdded, res)
              /\ IF res = "ok"
                   THEN /\ pc' = "gap"
                        /\ nextBlockToWrite' = IF finishing THEN nextBlockToWrite
                                                            ELSE nextBlockToWrite + 1
                        /\ UNCHANGED <<fileOpen, output, outcome>>
                   ELSE /\ ReturnError
                        /\ RemoveIfFinishing
                        /\ UNCHANGED nextBlockToWrite
    /\ UNCHANGED <<closed, firstKey, currentBlockIdx, lastBlockID, keyCounter,
                   totalKeysAdded, keysAdded, target, finishing, ctxDone, calls,
                   unbuildable, accepted>>

NothingToBuild ==
    /\ pc = "build" /\ ~BlockComplete
    /\ pc' = "gap"
    /\ UNCHANGED <<iwVars, closed, firstKey, currentBlockIdx, nextBlockToWrite, lastBlockID,
                   keyCounter, totalKeysAdded, keysAdded, target, finishing, outcome,
                   ctxDone, calls, ioFaults, unbuildable, accepted>>

(* An empty block is due: the gap before the new block, or a trailing block. *)
GapLeft ==
    IF finishing
      THEN blockCount < NumBlocks
      ELSE nextBlockToWrite < target /\ (firstKey \/ target # currentBlockIdx)

(* commitEmptyBlock; it resets the block builder first. *)
CommitEmptyBlock ==
    /\ pc = "gap" /\ GapLeft
    /\ keysAdded' = 0
    /\ \E res \in CommitResults(0) :
          /\ CommitBlockWithData(EmptyBlock, 0, res)
          /\ IF res = "ok"
               THEN /\ nextBlockToWrite' = IF finishing THEN nextBlockToWrite
                                                        ELSE nextBlockToWrite + 1
                    /\ UNCHANGED <<pc, fileOpen, output, outcome>>
               ELSE /\ ReturnError
                    /\ RemoveIfFinishing
                    /\ UNCHANGED nextBlockToWrite
    /\ UNCHANGED <<closed, firstKey, currentBlockIdx, lastBlockID, keyCounter,
                   totalKeysAdded, target, finishing, ctxDone, calls, unbuildable, accepted>>

(* Seeded fault: no resetCurrentBuilder before the first key of a block. *)
AcceptKeyNoReset ==
    /\ pc = "gap" /\ ~finishing /\ ~GapLeft
    /\ keysAdded' = keysAdded + 1
    /\ currentBlockIdx' = target
    /\ firstKey' = FALSE
    /\ totalKeysAdded' = totalKeysAdded + 1
    /\ accepted' = [accepted EXCEPT ![target] = @ + 1]
    /\ pc' = "idle"
    /\ UNCHANGED <<iwVars, closed, nextBlockToWrite, lastBlockID, keyCounter, target,
                   finishing, outcome, ctxDone, calls, ioFaults, unbuildable>>

(* The end of AddKey: the builder is reset for a new block and takes the key. *)
AcceptKey ==
    /\ pc = "gap" /\ ~finishing /\ ~GapLeft
    /\ keysAdded' = IF firstKey \/ target # currentBlockIdx THEN 1 ELSE keysAdded + 1
    /\ currentBlockIdx' = target
    /\ firstKey' = FALSE
    /\ totalKeysAdded' = totalKeysAdded + 1
    /\ accepted' = [accepted EXCEPT ![target] = @ + 1]
    /\ pc' = "idle"
    /\ UNCHANGED <<iwVars, closed, nextBlockToWrite, lastBlockID, keyCounter, target,
                   finishing, outcome, ctxDone, calls, ioFaults, unbuildable>>

--------------------------------------------------------------------------------
(* finishSorted and the head of finishSingleThreaded. *)
Finish ==
    /\ pc = "idle" /\ ~closed
    /\ RetriesWrites \/ ioFaults = 0
    /\ closed' = TRUE
    /\ finishing' = TRUE
    /\ IF totalKeysAdded # TotalKeys
         THEN /\ CloseAndRemove
              /\ outcome' = "failed"
              /\ UNCHANGED pc
         ELSE /\ pc' = "build"
              /\ UNCHANGED <<iwVars, outcome>>
    /\ UNCHANGED <<firstKey, currentBlockIdx, nextBlockToWrite, lastBlockID, keyCounter,
                   totalKeysAdded, keysAdded, target, ctxDone, calls, ioFaults,
                   unbuildable, accepted>>

(* finalizeIndex, once all blocks are committed. *)
FinalizeIndex ==
    /\ pc = "gap" /\ finishing /\ ~GapLeft
    /\ \E ok \in BOOLEAN :
          /\ Finalize(ok)
          /\ outcome' = IF ok THEN "ok" ELSE "failed"
    /\ pc' = "idle"
    /\ UNCHANGED <<closed, firstKey, currentBlockIdx, nextBlockToWrite, lastBlockID,
                   keyCounter, totalKeysAdded, keysAdded, target, finishing, ctxDone, calls,
                   ioFaults, unbuildable, accepted>>

(* close: without a Finish before it, cleanup. *)
Close ==
    /\ pc = "idle" /\ ~closed
    /\ closed' = TRUE
    /\ CloseAndRemove
    /\ outcome' = "failed"
    /\ UNCHANGED <<firstKey, currentBlockIdx, nextBlockToWrite, lastBlockID, keyCounter,
                   totalKeysAdded, keysAdded, pc, target, finishing, ctxDone, calls,
                   ioFaults, unbuildable, accepted>>

(* AddKey and Finish on a closed builder return ErrBuilderClosed, Close nil. *)
CallAfterClose ==
    /\ pc = "idle" /\ closed
    /\ UNCHANGED vars

UserCancel ==
    /\ ~ctxDone
    /\ ctxDone' = TRUE
    /\ UNCHANGED <<iwVars, closed, firstKey, currentBlockIdx, nextBlockToWrite, lastBlockID,
                   keyCounter, totalKeysAdded, keysAdded, pc, target, finishing, outcome,
                   calls, ioFaults, unbuildable, accepted>>

Next ==
    \/ \E b \in Blocks : AddKey(b)
    \/ BuildBlock \/ NothingToBuild \/ CommitEmptyBlock \/ AcceptKey
    \/ Finish \/ FinalizeIndex \/ Close \/ CallAfterClose \/ UserCancel

Spec == Init /\ [][Next]_vars

--------------------------------------------------------------------------------
(* Properties. *)

(* When Finish returns nil, the file holds exactly the keys whose AddKey returned
   nil, with the layout a reader expects. *)
IndexCorrect ==
    outcome = "ok" => output = "final" /\ IndexHolds(accepted)

(* The RAM index written by Finish has one entry per block plus the sentinel, as
   the layout reserves ("[RAM Index (N+1)x10B]"): a longer one runs into the
   payload region. *)
RamIndexFitsLayout ==
    outcome = "ok" => Len(ramIndex) = NumBlocks + 1

(* The serial build implements the promise of BuildOutcome. *)
Outcome == INSTANCE BuildOutcome WITH committed <- blockCount, file <- output
ImplementsBuildOutcome == Outcome!Spec
================================================================================
