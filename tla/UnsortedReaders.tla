---------------------------- MODULE UnsortedReaders ----------------------------
(***************************************************************************)
(* Finish of an UnsortedBuilder with workers > 1.  When entries were       *)
(* flushed to partition files (finishUnsortedParallel), reader goroutines  *)
(* load partitions into slots, the finishing goroutine dispatches the      *)
(* blocks of each partition to the worker pool straight from the slot, and *)
(* a fence per slot keeps it from being overwritten before the workers     *)
(* have copied its entries.  When none were (finishUnsortedFastPath), it   *)
(* dispatches copies of the blocks it has sorted in memory.                *)
(***************************************************************************)
EXTENDS WorkerPool, FiniteSetsExt

CONSTANTS numPartitions, blocksPerPart,
          readPipelineDepth,         \* wanted number of readers
          slotsPerReader,            \* slots each reader alternates between
          blockContextCheckInterval,
          MaxBlockKeys               \* bound: keys in one block

numSlots == Min({readPipelineDepth * slotsPerReader, numPartitions})
numReaders == Max({numSlots \div slotsPerReader, 1})
Readers == 0 .. numReaders - 1
Partitions == 0 .. numPartitions - 1

ASSUME UnsortedReadersAssumption ==
    /\ numPartitions \in Nat \ {0} /\ blocksPerPart \in Nat \ {0}
    /\ numPartitions * blocksPerPart >= NumBlocks
    /\ readPipelineDepth \in Nat \ {0} /\ slotsPerReader \in Nat \ {0}
    /\ blockContextCheckInterval \in Nat \ {0}
    /\ Fences = 0 .. numSlots - 1

VARIABLES path,        \* where the entries are: "files" or "memory"
          size,        \* merged block counts: keys of each block
          partsOpen,   \* the partition files are open
          readerDone,  \* readerCtx cancelled
          rpc, rpart, rerr,  \* per reader: position, partition, read error
          resultCh, resultChClosed,  \* per reader, capacity 1
          slotReady,   \* per slot: token in the channel of capacity 1
          slotHolds,   \* per slot: partition whose entries it holds
          waiters,     \* slots with a goroutine waiting for their fence
          part, slotIdx, blockID,  \* the finishing goroutine's loop
          keysBefore, job

inputVars == <<path, size>>
readerVars == <<readerDone, rpc, rpart, rerr, resultCh, resultChClosed, slotReady,
                slotHolds, waiters>>
loopVars == <<part, slotIdx, blockID, keysBefore, job>>
vars == <<poolVars, inputVars, partsOpen, readerVars, loopVars>>

PartitionOf(b) == b \div blocksPerPart
SlotOf(r, p) == r * slotsPerReader + ((p \div numReaders) % slotsPerReader)

(* Every variable has its type: in particular a fence is never released more often
   than it was taken, and no reader queues a second result. *)
TypeOK ==
    /\ PoolTypeOK
    /\ pc \in {"partition", "block", "select", "failWait", "readersWait", "drain",
               "drainWait", "drainWriter", "finalize", "shutWait", "shutWriter", "idle"}
    /\ path \in {"files", "memory"}
    /\ size \in [Blocks -> 0 .. MaxBlockKeys]
    /\ partsOpen \in BOOLEAN /\ readerDone \in BOOLEAN
    /\ rpc \in [Readers -> {"wait", "read", "send", "stop", "exit"}]
    /\ rpart \in [Readers -> Nat] /\ rerr \in [Readers -> BOOLEAN]
    /\ resultCh \in [Readers -> Seq([slotIdx : Fences, part : Partitions, err : BOOLEAN])]
    /\ \A r \in Readers : Len(resultCh[r]) <= 1
    /\ resultChClosed \in [Readers -> BOOLEAN]
    /\ slotReady \in [Fences -> BOOLEAN]
    /\ slotHolds \in [Fences -> Partitions \cup {-1}]
    /\ waiters \in SUBSET Fences
    /\ part \in 0 .. numPartitions /\ slotIdx \in Fences
    /\ blockID \in Nat /\ keysBefore \in Nat /\ job \in Job

(* mergeBlockCounts: the running sum of the block counts, checked at the end against
   the declared number of keys. *)
CountsAddUp(running) ==
    /\ running[0] = 0
    /\ \A b \in Blocks : running[b + 1] = running[b] + size[b]
    /\ running[NumBlocks] = TotalKeys

(* The start of finishUnsortedParallel, after mergeBlockCounts, or of the block loop
   of finishUnsortedFastPath, which has no readers. *)
Init ==
    /\ PoolInit
    /\ path \in {"files", "memory"}
    /\ pc = IF path = "files" THEN "partition" ELSE "block"
    /\ size \in [Blocks -> 0 .. MaxBlockKeys]
    /\ \E running \in [0 .. NumBlocks -> 0 .. TotalKeys] : CountsAddUp(running)
    /\ partsOpen = TRUE /\ readerDone = FALSE
    /\ rpc = [r \in Readers |-> IF path = "files" THEN "wait" ELSE "exit"]
    /\ rpart = [r \in Readers |-> r]
    /\ rerr = [r \in Readers |-> FALSE]
    /\ resultCh = [r \in Readers |-> <<>>]
    /\ resultChClosed = [r \in Readers |-> FALSE]
    /\ slotReady = [s \in Fences |-> TRUE]
    /\ slotHolds = [s \in Fences |-> -1]
    /\ waiters = {}
    /\ part = 0 /\ slotIdx = 0 /\ blockID = 0 /\ keysBefore = 0 /\ job = NoJob

--------------------------------------------------------------------------------
(* Reader goroutines. *)

(* Take the token of the slot that is next for this reader; from here on the
   reader writes into it. *)
ReaderTakeSlot(r) ==
    LET s == SlotOf(r, rpart[r]) IN
    /\ rpc[r] = "wait" /\ rpart[r] < numPartitions
    /\ slotReady[s]
    /\ slotReady' = [slotReady EXCEPT ![s] = FALSE]
    /\ slotHolds' = [slotHolds EXCEPT ![s] = rpart[r]]
    /\ rpc' = [rpc EXCEPT ![r] = "read"]
    /\ UNCHANGED <<poolVars, inputVars, partsOpen, readerDone, rpart, rerr, resultCh,
                   resultChClosed, waiters, loopVars>>

(* readPartition, which may fail. *)
ReaderRead(r) ==
    /\ rpc[r] = "read"
    /\ \E err \in BOOLEAN : rerr' = [rerr EXCEPT ![r] = err]
    /\ rpc' = [rpc EXCEPT ![r] = "send"]
    /\ UNCHANGED <<poolVars, inputVars, partsOpen, readerDone, rpart, resultCh, resultChClosed,
                   slotReady, slotHolds, waiters, loopVars>>

(* Seeded fault: a failed read ends the reader before the send. *)
ReaderSendErrorDropped(r) ==
    /\ rpc[r] = "send"
    /\ resultCh[r] = <<>>
    /\ resultCh' = IF rerr[r] THEN resultCh
                   ELSE [resultCh EXCEPT ![r] = <<[slotIdx |-> SlotOf(r, rpart[r]),
                                                   part |-> rpart[r], err |-> FALSE]>>]
    /\ rpart' = [rpart EXCEPT ![r] = @ + numReaders]
    /\ rpc' = [rpc EXCEPT ![r] = IF rerr[r] THEN "stop" ELSE "wait"]
    /\ UNCHANGED <<poolVars, inputVars, partsOpen, readerDone, rerr, resultChClosed, slotReady,
                   slotHolds, waiters, loopVars>>

(* The guarded send; a failed read ends the reader. *)
ReaderSend(r) ==
    /\ rpc[r] = "send"
    /\ resultCh[r] = <<>>
    /\ resultCh' = [resultCh EXCEPT ![r] = <<[slotIdx |-> SlotOf(r, rpart[r]),
                                              part |-> rpart[r], err |-> rerr[r]]>>]
    /\ rpart' = [rpart EXCEPT ![r] = @ + numReaders]
    /\ rpc' = [rpc EXCEPT ![r] = IF rerr[r] THEN "stop" ELSE "wait"]
    /\ UNCHANGED <<poolVars, inputVars, partsOpen, readerDone, rerr, resultChClosed, slotReady,
                   slotHolds, waiters, loopVars>>

(* The reader returns - cancelled, after an error, or at the end of its stride -
   and its deferred close and readerWg.Done run. *)
ReaderExit(r) ==
    /\ \/ rpc[r] \in {"wait", "send"} /\ readerDone
       \/ rpc[r] = "stop"
       \/ rpc[r] = "wait" /\ rpart[r] >= numPartitions
    /\ rpc' = [rpc EXCEPT ![r] = "exit"]
    /\ resultChClosed' = [resultChClosed EXCEPT ![r] = TRUE]
    /\ UNCHANGED <<poolVars, inputVars, partsOpen, readerDone, rpart, rerr, resultCh, slotReady,
                   slotHolds, waiters, loopVars>>

ReaderStep(r) == ReaderTakeSlot(r) \/ ReaderRead(r) \/ ReaderSend(r) \/ ReaderExit(r)

(* Seeded fault: the slot is handed back without waiting for the fence. *)
SlotReusableUnfenced(s) ==
    /\ s \in waiters
    /\ slotReady' = [slotReady EXCEPT ![s] = TRUE]
    /\ waiters' = waiters \ {s}
    /\ UNCHANGED <<poolVars, inputVars, partsOpen, readerDone, rpc, rpart, rerr, resultCh,
                   resultChClosed, slotHolds, loopVars>>

(* The goroutine spawned per partition: slotFences[s].Wait(), then the token. *)
SlotReusable(s) ==
    /\ s \in waiters
    /\ fence[s] = 0
    /\ slotReady' = [slotReady EXCEPT ![s] = TRUE]
    /\ waiters' = waiters \ {s}
    /\ UNCHANGED <<poolVars, inputVars, partsOpen, readerDone, rpc, rpart, rerr, resultCh,
                   resultChClosed, slotHolds, loopVars>>

--------------------------------------------------------------------------------
(* The finishing goroutine. *)

(* fail: cancel the readers, wait for them, then cleanupAll; the fast path has none
   to wait for. *)
Fail(why) ==
    /\ readerDone' = TRUE
    /\ cause' = why
    /\ pc' = "failWait"

(* Seeded fault: fail does not wait for the readers. *)
FailWaitSkipped ==
    /\ pc = "failWait"
    /\ partsOpen' = FALSE
    /\ Cleanup(cause)
    /\ UNCHANGED <<workChan, resultChan, resultClosed, writerDone, writerClosed, ctxDone,
                   groupErr, fence, workerVars, writerVars, writerErr, failed, inputVars,
                   readerVars, loopVars>>

FailWait ==
    /\ pc = "failWait"
    /\ \A r \in Readers : rpc[r] = "exit"
    /\ partsOpen' = FALSE
    /\ Cleanup(cause)
    /\ UNCHANGED <<workChan, resultChan, resultClosed, writerDone, writerClosed, ctxDone,
                   groupErr, fence, workerVars, writerVars, writerErr, failed, inputVars,
                   readerVars, loopVars>>

(* The error a receive from writerDone yields, nil if the channel is closed. *)
WriterDoneError == IF writerDone THEN "failure" ELSE "none"
TakeWriterDone ==
    /\ WriterDoneReady
    /\ writerDone' = FALSE
    /\ writerErr' = writerDone

(* The outer select: the next partition in order, or a reason to give up. *)
ReceivePartition ==
    LET r == part % numReaders
        res == Head(resultCh[r])
    IN  /\ pc = "partition" /\ part < numPartitions
        /\ resultCh[r] # <<>>
        /\ resultCh' = [resultCh EXCEPT ![r] = <<>>]
        /\ IF res.err
             THEN /\ Fail("failure")
                  /\ UNCHANGED <<slotIdx, blockID>>
             ELSE /\ pc' = "block"
                  /\ slotIdx' = res.slotIdx
                  /\ blockID' = part * blocksPerPart
                  /\ UNCHANGED <<readerDone, cause>>
        /\ UNCHANGED <<iwVars, chanVars, ctxVars, fence, workerVars, writerVars,
                       workersShutDown, writerErr, outcome, failed, inputVars, partsOpen, rpc,
                       rpart, rerr, resultChClosed, slotReady, slotHolds, waiters, part,
                       keysBefore, job>>

(* Seeded fault: the outer select does not watch writerDone. *)
ReceiveGivesUpBlind ==
    LET r == part % numReaders IN
    /\ pc = "partition" /\ part < numPartitions
    /\ (resultCh[r] = <<>> /\ resultChClosed[r]) \/ ctxDone
    /\ Fail(IF ctxDone THEN "cancelled" ELSE "none")
    /\ UNCHANGED <<iwVars, chanVars, ctxVars, fence, workerVars, writerVars,
                   workersShutDown, writerErr, outcome, failed, inputVars, partsOpen, rpc, rpart,
                   rerr, resultCh, resultChClosed, slotReady, slotHolds, waiters, loopVars>>

ReceiveGivesUp ==
    LET r == part % numReaders IN
    /\ pc = "partition" /\ part < numPartitions
    /\ \/ /\ resultCh[r] = <<>> /\ resultChClosed[r]
          /\ Fail(IF ctxDone THEN "cancelled" ELSE "none")
          /\ UNCHANGED <<writerDone, writerErr>>
       \/ /\ ctxDone
          /\ Fail("cancelled")
          /\ UNCHANGED <<writerDone, writerErr>>
       \/ /\ TakeWriterDone
          /\ Fail(WriterDoneError)
    /\ UNCHANGED <<iwVars, workChan, workClosed, resultChan, resultClosed, writerClosed,
                   ctxVars, fence, workerVars, writerVars, workersShutDown, outcome, failed,
                   inputVars, partsOpen, rpc, rpart, rerr, resultCh, resultChClosed, slotReady,
                   slotHolds, waiters, loopVars>>

(* The next block of the loop over the partition, or over all blocks. *)
BlockLeft == blockID \in Blocks /\ (path = "files" => PartitionOf(blockID) = part)

(* The poll before every blockContextCheckInterval-th block; the fast path polls the
   context only. *)
PollGivesUp ==
    /\ pc = "block" /\ BlockLeft
    /\ blockID % blockContextCheckInterval = 0
    /\ \/ /\ ctxDone
          /\ Fail("cancelled")
          /\ UNCHANGED <<writerDone, writerErr>>
       \/ /\ ~ctxDone /\ path = "files"
          /\ TakeWriterDone
          /\ Fail(WriterDoneError)
    /\ UNCHANGED <<iwVars, workChan, workClosed, resultChan, resultClosed, writerClosed,
                   ctxVars, fence, workerVars, writerVars, workersShutDown, outcome, failed,
                   inputVars, partsOpen, rpc, rpart, rerr, resultCh, resultChClosed, slotReady,
                   slotHolds, waiters, loopVars>>

(* Up to the select: the work item, and the fence for a non-empty block whose
   entries are borrowed from a slot. *)
PrepareBlock ==
    LET n == size[blockID]
        borrowed == path = "files" /\ n > 0
    IN
    /\ pc = "block" /\ BlockLeft
    /\ blockID % blockContextCheckInterval = 0 =>
          ~ctxDone /\ (path = "files" => ~WriterDoneReady)
    /\ job' = [blockID |-> blockID, n |-> n, keysBefore |-> keysBefore,
               fence |-> IF borrowed THEN slotIdx ELSE NoFence]
    /\ fence' = IF borrowed THEN [fence EXCEPT ![slotIdx] = @ + 1] ELSE fence
    /\ keysBefore' = keysBefore + n
    /\ pc' = "select"
    /\ UNCHANGED <<iwVars, chanVars, ctxVars, workerVars, writerVars, workersShutDown,
                   writerErr, cause, outcome, failed, inputVars, partsOpen, readerVars, part,
                   slotIdx, blockID>>

(* All blocks of the partition are dispatched: hand the slot to a waiter. *)
PartitionDispatched ==
    /\ pc = "block" /\ path = "files" /\ ~BlockLeft
    /\ waiters' = waiters \cup {slotIdx}
    /\ part' = part + 1
    /\ pc' = "partition"
    /\ UNCHANGED <<iwVars, chanVars, ctxVars, fence, workerVars, writerVars,
                   workersShutDown, writerErr, cause, outcome, failed, inputVars, partsOpen,
                   readerDone, rpc, rpart, rerr, resultCh, resultChClosed, slotReady,
                   slotHolds, slotIdx, blockID, keysBefore, job>>

SelectSend ==
    /\ pc = "select"
    /\ DispatchSend(job)
    /\ blockID' = blockID + 1
    /\ pc' = "block"
    /\ UNCHANGED <<fence, cause, inputVars, partsOpen, readerVars, part, slotIdx, keysBefore, job>>

(* A dispatch that fails releases the fence it took.  An empty block, and every
   block of the fast path, goes through dispatchBlockWork, which turns a nil read
   into an error. *)
SelectGivesUp ==
    /\ pc = "select"
    /\ \/ /\ workerDone
          /\ Fail("cancelled")
          /\ UNCHANGED <<writerDone, writerErr>>
       \/ /\ job.fence # NoFence
          /\ TakeWriterDone
          /\ Fail(WriterDoneError)
       \/ /\ job.fence = NoFence
          /\ WriterDoneReady
          /\ ConsumePipelineError
          /\ Fail(PipelineError)
    /\ fence' = Released(job.fence)
    /\ UNCHANGED <<iwVars, workChan, workClosed, resultChan, resultClosed, writerClosed,
                   ctxVars, workerVars, writerVars, workersShutDown, outcome, failed, inputVars,
                   partsOpen, rpc, rpart, rerr, resultCh, resultChClosed, slotReady,
                   slotHolds, waiters, loopVars>>

(* readerWg.Wait() and the removal of the partition files; then the drain. *)
AllPartitionsDispatched ==
    /\ pc = "partition" /\ part = numPartitions
    /\ \A r \in Readers : rpc[r] = "exit"
    /\ partsOpen' = FALSE
    /\ pc' = "drain"
    /\ UNCHANGED <<iwVars, chanVars, ctxVars, fence, workerVars, writerVars,
                   workersShutDown, writerErr, cause, outcome, failed, inputVars, readerVars,
                   loopVars>>

(* The end of the fast path: remove the writers' files, then the drain. *)
AllBlocksDispatched ==
    /\ pc = "block" /\ path = "memory" /\ ~BlockLeft
    /\ partsOpen' = FALSE
    /\ pc' = "drain"
    /\ UNCHANGED <<iwVars, chanVars, ctxVars, fence, workerVars, writerVars,
                   workersShutDown, writerErr, cause, outcome, failed, inputVars,
                   readerVars, loopVars>>

FinishStep == ReceivePartition \/ ReceiveGivesUp \/ PollGivesUp \/ PrepareBlock
              \/ PartitionDispatched \/ SelectSend \/ SelectGivesUp
              \/ AllPartitionsDispatched \/ AllBlocksDispatched \/ FailWait

(* Cancelling b.ctx also cancels readerCtx. *)
CancelBuild ==
    /\ UserCancel
    /\ readerDone' = TRUE
    /\ UNCHANGED <<inputVars, partsOpen, rpc, rpart, rerr, resultCh, resultChClosed, slotReady,
                   slotHolds, waiters, loopVars>>

(* The deferred readerCancel() when Finish returns, and later calls to Close. *)
Returned ==
    /\ pc = "idle"
    /\ UNCHANGED vars

UnchangedHere == UNCHANGED <<inputVars, partsOpen, readerVars, loopVars>>

Next ==
    \/ \E r \in Readers : ReaderStep(r)
    \/ \E s \in Fences : SlotReusable(s)
    \/ FinishStep
    \/ CancelBuild
    \/ Returned
    \/ (\E w \in Workers : WorkerStep(w)) /\ UnchangedHere
    \/ WriterStep /\ UnchangedHere
    \/ TeardownStep /\ UnchangedHere

Spec == Init /\ [][Next]_vars

(* Every goroutine that can run does run; nothing forces a cancellation. *)
FairSpec ==
    /\ Spec
    /\ WF_vars(FinishStep)
    /\ WF_vars(TeardownStep /\ UnchangedHere)
    /\ WF_vars(WriterStep /\ UnchangedHere)
    /\ \A w \in Workers : WF_vars(WorkerStep(w) /\ UnchangedHere)
    /\ \A r \in Readers : WF_vars(ReaderStep(r))
    /\ \A s \in Fences : WF_vars(SlotReusable(s))

--------------------------------------------------------------------------------
(* Properties. *)

(* When Finish returns nil the index holds every key of every block, laid out as
   a reader expects. *)
IndexCorrect ==
    outcome = "ok" => output = "final" /\ IndexHolds(size)

(* Finish that gave up says so: fail is never called with a nil error, although
   its callers pass on whatever they read from writerDone or from ctx.Err(). *)
FailureIsReported ==
    outcome = "failed" => cause # "none"

(* The failure of a block is not swallowed: a worker's error is only seen through the
   errgroup, the writer's only through writerDone, and either may come after the last
   dispatch. *)
FailureNotSwallowed ==
    outcome = "ok" => ~failed

(* The unsorted Finish implements the promise of BuildOutcome: blocks are committed one
   by one, and none is after Finish has given up or before it returned nil. *)
Outcome == INSTANCE BuildOutcome WITH committed <- blockCount, file <- output
ImplementsBuildOutcome == Outcome!Spec

(* While a work item still refers to a slot - queued, or with a worker that has
   not copied the entries - the slot holds the partition of that item's block:
   no reader has started to overwrite it. *)
SlotsNotOverwritten ==
    /\ \A i \in DOMAIN workChan :
          workChan[i].fence # NoFence =>
             slotHolds[workChan[i].fence] = PartitionOf(workChan[i].blockID)
    /\ \A w \in Workers :
          wpc[w] = "check" /\ wjob[w].fence # NoFence =>
             slotHolds[wjob[w].fence] = PartitionOf(wjob[w].blockID)

(* The partition files are removed only when no reader reads them any more. *)
NoReadFromRemovedFiles ==
    ~partsOpen => \A r \in Readers : rpc[r] # "read"

(* Finish returns, whatever fails and whenever: neither the readers parked on a
   slot, nor workers parked on resultChan, nor the finishing goroutine waiting
   for a partition wait for each other forever. *)
FinishReturns == <>(pc = "idle")

(* When Finish has returned, no fence is left un-Done, so no slot-reuse goroutine
   is parked on it forever (shutdownWorkers releases the fences of the items it
   finds "left behind"; "releasing every parked goroutine", spec section 6.3). *)
NoOrphanedFence ==
    outcome # "building" => \A s \in Fences : fence[s] = 0
================================================================================
