------------------------------- MODULE WorkerPool -------------------------------
(***************************************************************************)
(* The parallel build pipeline (builder_parallel.go): the worker errgroup, *)
(* the writer goroutine, the two bounded channels between them, the worker *)
(* context, and the steps by which the dispatching goroutine feeds the     *)
(* pool (dispatchBlockWork), drains it (drainParallelPipeline) and tears   *)
(* it down (shutdownWorkers, cleanup).                                     *)
(*                                                                         *)
(* The dispatching goroutine is a component of its own (ParallelSorted,    *)
(* UnsortedReaders): this module gives it the operators over the pool's    *)
(* variables and owns its program counter `pc' while it drains or tears    *)
(* down.  Go's select takes any ready case, so each case is a disjunct.    *)
(***************************************************************************)
EXTENDS IndexWriter, FiniteSets

CONSTANTS Workers,                   \* b.workers goroutines
          workChanBufferMultiplier,  \* channel capacity per worker
          Fences,                    \* read slots whose entries workers borrow
          NoFence                    \* work.fenceWg = nil

ASSUME WorkerPoolAssumption ==
    /\ IsFiniteSet(Workers) /\ Cardinality(Workers) >= 2
    /\ workChanBufferMultiplier \in Nat \ {0}
    /\ NoFence \notin Fences

VARIABLES workChan, workClosed,      \* chan blockWork
          resultChan, resultClosed,  \* chan blockResult
          writerDone, writerClosed,  \* chan error, capacity 1
          ctxDone,                   \* b.ctx cancelled by its owner
          workerDone,                \* b.workerCtx cancelled
          groupErr,                  \* first error of the errgroup
          fence,                     \* outstanding Add()s of each slot fence
          wpc, wjob, werr,           \* per worker: position, item, buildErr
          writerPc, nextBlockID,     \* runWriter: position and loop variable
          reorder,                   \* runWriter's pending map
          workersShutDown, writerErr,\* builder fields of the same names
          pc, cause, outcome,        \* dispatching goroutine; Finish's result
          failed                     \* history: some block failed inside the pool

chanVars == <<workChan, workClosed, resultChan, resultClosed, writerDone, writerClosed>>
ctxVars == <<ctxDone, workerDone, groupErr>>
workerVars == <<wpc, wjob, werr>>
writerVars == <<writerPc, nextBlockID, reorder>>
mainVars == <<workersShutDown, writerErr, pc, cause, outcome>>
poolVars == <<iwVars, chanVars, ctxVars, fence, workerVars, writerVars, mainVars, failed>>

ChanCap == Cardinality(Workers) * workChanBufferMultiplier

(* blockWork and blockResult. *)
Job == [blockID : Blocks, n : Nat, keysBefore : Nat, fence : Fences \cup {NoFence}]
Result == [blockID : Blocks, n : Nat, err : BOOLEAN]
NoJob == [blockID |-> 0, n |-> 0, keysBefore |-> 0, fence |-> NoFence]

(* Errors are told apart only as far as the pipeline does: a bare context
   cancellation, the error of a build or write, and the ones Finish raises
   itself. *)
Causes == {"none", "cancelled", "failure", "mismatch", "closed"}

PoolTypeOK ==
    /\ IWTypeOK
    /\ workChan \in Seq(Job) /\ workClosed \in BOOLEAN
    /\ resultChan \in Seq(Result) /\ resultClosed \in BOOLEAN
    /\ writerDone \in BOOLEAN /\ writerClosed \in BOOLEAN
    /\ ctxDone \in BOOLEAN /\ workerDone \in BOOLEAN
    /\ groupErr \in {"none", "cancelled", "failure"}
    /\ fence \in [Fences -> Nat]
    /\ wpc \in [Workers -> {"recv", "check", "build", "send", "return", "exit"}]
    /\ wjob \in [Workers -> Job] /\ werr \in [Workers -> BOOLEAN]
    /\ writerPc \in {"recv", "emit", "cancel", "close", "exit"}
    /\ nextBlockID \in Nat /\ reorder \in SUBSET Result
    /\ workersShutDown \in BOOLEAN /\ writerErr \in BOOLEAN
    /\ cause \in Causes /\ outcome \in {"building", "ok", "failed"}
    /\ failed \in BOOLEAN

(* initParallelWorkers. *)
PoolInit ==
    /\ IWInit
    /\ workChan = <<>> /\ workClosed = FALSE
    /\ resultChan = <<>> /\ resultClosed = FALSE
    /\ writerDone = FALSE /\ writerClosed = FALSE
    /\ ctxDone = FALSE /\ workerDone = FALSE /\ groupErr = "none"
    /\ fence = [s \in Fences |-> 0]
    /\ wpc = [w \in Workers |-> "recv"]
    /\ wjob = [w \in Workers |-> NoJob]
    /\ werr = [w \in Workers |-> FALSE]
    /\ writerPc = "recv" /\ nextBlockID = 0 /\ reorder = {}
    /\ workersShutDown = FALSE /\ writerErr = FALSE
    /\ cause = "none" /\ outcome = "building"
    /\ failed = FALSE

--------------------------------------------------------------------------------
(* Workers (runWorker). *)

(* fenceWg.Done() for an item that carries a fence. *)
Released(f) == [s \in Fences |-> IF s = f THEN fence[s] - 1 ELSE fence[s]]

(* Leave runWorker: errgroup keeps the first error and cancels workerCtx. *)
WorkerExit(w, err) ==
    /\ wpc' = [wpc EXCEPT ![w] = "exit"]
    /\ groupErr' = IF groupErr = "none" THEN err ELSE groupErr
    /\ workerDone' = (workerDone \/ err # "none")
    /\ UNCHANGED <<iwVars, resultChan, resultClosed, writerDone, writerClosed,
                   workClosed, ctxDone, wjob, werr, writerVars, mainVars, failed>>

(* for work := range b.workChan. *)
WorkerReceive(w) ==
    /\ wpc[w] = "recv"
    /\ workChan # <<>>
    /\ wjob' = [wjob EXCEPT ![w] = Head(workChan)]
    /\ workChan' = Tail(workChan)
    /\ wpc' = [wpc EXCEPT ![w] = "check"]
    /\ UNCHANGED <<iwVars, workClosed, resultChan, resultClosed, writerDone,
                   writerClosed, ctxVars, fence, werr, writerVars, mainVars, failed>>

(* The range loop ends: channel closed and empty. *)
WorkerFinish(w) ==
    /\ wpc[w] = "recv"
    /\ workChan = <<>> /\ workClosed
    /\ WorkerExit(w, "none")
    /\ UNCHANGED <<workChan, fence>>

(* Seeded fault: a cancelled worker drops its item and returns nil. *)
WorkerCancelledSilently(w) ==
    /\ wpc[w] = "check"
    /\ workerDone
    /\ fence' = Released(wjob[w].fence)
    /\ WorkerExit(w, "none")
    /\ UNCHANGED workChan

(* An item received after the cancellation is not built; its fence is released. *)
WorkerCancelled(w) ==
    /\ wpc[w] = "check"
    /\ workerDone
    /\ fence' = Released(wjob[w].fence)
    /\ WorkerExit(w, "cancelled")
    /\ UNCHANGED workChan

(* Reset and AddKey for every entry, after which the entries are not read any
   more and the fence is released. *)
WorkerAddKeys(w) ==
    /\ wpc[w] = "check"
    /\ ~workerDone
    /\ fence' = Released(wjob[w].fence)
    /\ wpc' = [wpc EXCEPT ![w] = "build"]
    /\ UNCHANGED <<iwVars, chanVars, ctxVars, wjob, werr, writerVars, mainVars, failed>>

(* BuildSeparatedInto and the payload pwrite.  An empty block cannot fail;
   otherwise the build may fail (duplicate key, block overflow, no seed found)
   and so may the write, which also refuses a range past the payload region. *)
WorkerBuild(w) ==
    LET job == wjob[w] IN
    /\ wpc[w] = "build"
    /\ \/ /\ FitsPayloadRegion(job.n, job.keysBefore) \/ job.n = 0
          /\ payloads' = PayloadsWith(job.blockID, job.n, job.keysBefore)
          /\ werr' = [werr EXCEPT ![w] = FALSE]
          /\ UNCHANGED failed
       \/ /\ job.n > 0
          /\ werr' = [werr EXCEPT ![w] = TRUE]
          /\ failed' = TRUE
          /\ UNCHANGED payloads
    /\ wpc' = [wpc EXCEPT ![w] = "send"]
    /\ UNCHANGED <<ramIndex, metadata, payloadHash, keyCount, blockCount, fileOpen,
                   output, chanVars, ctxVars, fence, wjob, writerVars, mainVars>>

(* The result is sent, error or not; an error then ends the worker. *)
WorkerSend(w) ==
    /\ wpc[w] = "send"
    /\ ~resultClosed
    /\ Len(resultChan) < ChanCap
    /\ resultChan' = Append(resultChan, [blockID |-> wjob[w].blockID,
                                         n |-> wjob[w].n, err |-> werr[w]])
    /\ wpc' = [wpc EXCEPT ![w] = IF werr[w] THEN "return" ELSE "recv"]
    /\ UNCHANGED <<iwVars, workChan, workClosed, resultClosed, writerDone,
                   writerClosed, ctxVars, fence, wjob, werr, writerVars, mainVars, failed>>

WorkerSendCancelled(w) ==
    /\ wpc[w] = "send"
    /\ workerDone
    /\ WorkerExit(w, "cancelled")
    /\ UNCHANGED <<workChan, fence>>

WorkerReturnErr(w) ==
    /\ wpc[w] = "return"
    /\ WorkerExit(w, "failure")
    /\ UNCHANGED <<workChan, fence>>

WorkerStep(w) ==
    \/ WorkerReceive(w) \/ WorkerFinish(w) \/ WorkerCancelled(w)
    \/ WorkerAddKeys(w) \/ WorkerBuild(w) \/ WorkerSend(w)
    \/ WorkerSendCancelled(w) \/ WorkerReturnErr(w)

--------------------------------------------------------------------------------
(* The writer (runWriter, failWriter). *)

(* Where the loop stands once `ready' holds the blocks received and not yet
   written, and `next' is the block to write. *)
WriterAt(ready, next) ==
    IF \E r \in ready : r.blockID = next THEN "emit" ELSE "recv"

(* A failed block is reported on writerDone; any other goes to the pending map. *)
WriterReceive ==
    LET r == Head(resultChan) IN
    /\ writerPc = "recv"
    /\ resultChan # <<>>
    /\ resultChan' = Tail(resultChan)
    /\ IF r.err
         THEN /\ writerDone' = TRUE
              /\ writerPc' = "cancel"
              /\ UNCHANGED reorder
         ELSE /\ reorder' = reorder \cup {r}
              /\ writerPc' = WriterAt(reorder', nextBlockID)
              /\ UNCHANGED writerDone
    /\ UNCHANGED <<iwVars, workChan, workClosed, resultClosed, writerClosed, ctxVars,
                   fence, workerVars, nextBlockID, mainVars, failed>>

(* Seeded fault: emit whatever block is ready instead of the next one. *)
WriterEmitUnordered ==
    /\ writerPc = "recv" /\ reorder # {}
    /\ \E r \in reorder :
          /\ reorder' = reorder \ {r}
          /\ FoldPayloadHash(r.blockID, r.n)
          /\ WriteMetadata(r.blockID, r.n, TRUE)
          /\ nextBlockID' = nextBlockID + 1
    /\ UNCHANGED <<writerPc, writerDone, payloads, fileOpen, output, workChan, workClosed,
                   resultChan, resultClosed, writerClosed, ctxVars, fence, workerVars,
                   mainVars, failed>>

(* One iteration of the in-order emission loop. *)
WriterEmit ==
    /\ writerPc = "emit"
    /\ \E r \in reorder, ok \in BOOLEAN :
          /\ r.blockID = nextBlockID
          /\ reorder' = reorder \ {r}
          /\ FoldPayloadHash(r.blockID, r.n)
          /\ WriteMetadata(r.blockID, r.n, ok)
          /\ nextBlockID' = IF ok THEN nextBlockID + 1 ELSE nextBlockID
          /\ writerPc' = IF ok THEN WriterAt(reorder', nextBlockID') ELSE "cancel"
          /\ writerDone' = (writerDone \/ ~ok)
          /\ failed' = (failed \/ ~ok)
    /\ UNCHANGED <<payloads, fileOpen, output, workChan, workClosed, resultChan,
                   resultClosed, writerClosed, ctxVars, fence, workerVars, mainVars>>

(* Seeded fault: failWriter without workerCancel. *)
WriterCancelMissing ==
    /\ writerPc = "cancel"
    /\ writerPc' = "close"
    /\ UNCHANGED <<iwVars, chanVars, ctxVars, fence, workerVars, nextBlockID, reorder,
                   mainVars, failed>>

(* The second half of failWriter. *)
WriterCancel ==
    /\ writerPc = "cancel"
    /\ workerDone' = TRUE
    /\ writerPc' = "close"
    /\ UNCHANGED <<iwVars, chanVars, ctxDone, groupErr, fence, workerVars, nextBlockID,
                   reorder, mainVars, failed>>

(* defer close(b.writerDone), after an error or when resultChan is exhausted. *)
WriterClose ==
    /\ \/ writerPc = "close"
       \/ writerPc = "recv" /\ resultChan = <<>> /\ resultClosed
    /\ writerClosed' = TRUE
    /\ writerPc' = "exit"
    /\ UNCHANGED <<iwVars, workChan, workClosed, resultChan, resultClosed, writerDone,
                   ctxVars, fence, workerVars, nextBlockID, reorder, mainVars, failed>>

WriterStep == WriterReceive \/ WriterEmit \/ WriterCancel \/ WriterClose

--------------------------------------------------------------------------------
(* The dispatching goroutine. *)

(* The owner of b.ctx may cancel it at any time; workerCtx is its child. *)
UserCancel ==
    /\ ~ctxDone
    /\ ctxDone' = TRUE
    /\ workerDone' = TRUE
    /\ UNCHANGED <<iwVars, chanVars, groupErr, fence, workerVars, writerVars, mainVars,
                   failed>>

(* The three cases of the select of dispatchBlockWork. *)
DispatchSend(job) ==
    /\ ~workClosed
    /\ Len(workChan) < ChanCap
    /\ workChan' = Append(workChan, job)
    /\ UNCHANGED <<iwVars, workClosed, resultChan, resultClosed, writerDone, writerClosed,
                   ctxVars, workerVars, writerVars, workersShutDown, writerErr, outcome,
                   failed>>

(* A receive from writerDone, possible once an error is buffered or the channel
   is closed; what it yields. *)
WriterDoneReady == writerDone \/ writerClosed

(* consumePipelineError, applied to what the receive yields. *)
PipelineError ==
    IF writerDone \/ writerErr THEN "failure" ELSE "closed"
ConsumePipelineError ==
    /\ writerDone' = FALSE
    /\ writerErr' = (writerErr \/ writerDone)

(* Seeded fault: cleanup without shutdownWorkers. *)
CleanupWithoutShutdown(why) ==
    /\ cause' = why
    /\ CloseAndRemove
    /\ outcome' = "failed"
    /\ workersShutDown' = TRUE
    /\ pc' = "idle"
    /\ UNCHANGED <<workerDone, workClosed>>

(* cleanup.  The file may only be closed once the workers have stopped; if the
   pipeline was already torn down shutdownWorkers returns at once. *)
Cleanup(why) ==
    /\ cause' = why
    /\ IF workersShutDown
         THEN /\ CloseAndRemove
              /\ outcome' = "failed"
              /\ pc' = "idle"
              /\ UNCHANGED <<workersShutDown, workerDone, workClosed>>
         ELSE /\ workersShutDown' = TRUE
              /\ workerDone' = TRUE
              /\ workClosed' = TRUE
              /\ pc' = "shutWait"
              /\ UNCHANGED <<iwVars, outcome>>

AllWorkersExited == \A w \in Workers : wpc[w] = "exit"

(* shutdownWorkers, second part: workerGroup.Wait() returns, the fences of the
   items nobody received are released, and resultChan is closed. *)
ShutdownWait ==
    /\ pc = "shutWait"
    /\ AllWorkersExited
    /\ fence' = [s \in Fences |->
                    fence[s] - Cardinality({i \in DOMAIN workChan : workChan[i].fence = s})]
    /\ workChan' = <<>>
    /\ resultClosed' = TRUE
    /\ pc' = "shutWriter"
    /\ UNCHANGED <<iwVars, workClosed, resultChan, writerDone, writerClosed, ctxVars,
                   workerVars, writerVars, workersShutDown, writerErr, cause, outcome,
                   failed>>

(* shutdownWorkers, last receive, then the rest of cleanup. *)
ShutdownWriter ==
    /\ pc = "shutWriter"
    /\ WriterDoneReady
    /\ writerDone' = FALSE
    /\ CloseAndRemove
    /\ outcome' = "failed"
    /\ pc' = "idle"
    /\ UNCHANGED <<workChan, workClosed, resultChan, resultClosed, writerClosed, ctxVars,
                   fence, workerVars, writerVars, workersShutDown, writerErr, cause, failed>>

(* Seeded fault: the drain does not mark the pipeline as shut down. *)
DrainUnmarked ==
    /\ pc = "drain"
    /\ workClosed' = TRUE
    /\ pc' = "drainWait"
    /\ UNCHANGED <<iwVars, workChan, resultChan, resultClosed, writerDone, writerClosed,
                   ctxVars, fence, workerVars, writerVars, workersShutDown, writerErr,
                   cause, outcome, failed>>

(* drainParallelPipeline, first part. *)
Drain ==
    /\ pc = "drain"
    /\ workClosed' = TRUE
    /\ workersShutDown' = TRUE
    /\ pc' = "drainWait"
    /\ UNCHANGED <<iwVars, workChan, resultChan, resultClosed, writerDone, writerClosed,
                   ctxVars, fence, workerVars, writerVars, writerErr, cause, outcome, failed>>

(* workerGroup.Wait() returns; it also cancels the group's context. *)
DrainWait ==
    /\ pc = "drainWait"
    /\ AllWorkersExited
    /\ resultClosed' = TRUE
    /\ workerDone' = TRUE
    /\ pc' = "drainWriter"
    /\ UNCHANGED <<iwVars, workChan, workClosed, resultChan, writerDone, writerClosed,
                   ctxDone, groupErr, fence, workerVars, writerVars, workersShutDown,
                   writerErr, cause, outcome, failed>>

(* Seeded faults: only the errgroup is consulted; the errgroup is consulted first. *)
DrainCauseWorkersOnly == groupErr
DrainCauseWorkersFirst ==
    IF groupErr # "none" THEN groupErr ELSE IF writerDone THEN "failure" ELSE "none"

(* The receive from writerDone: the writer's error comes first, a worker's
   second, and only without either is the index finalized. *)
DrainCause ==
    IF writerDone THEN "failure" ELSE groupErr

DrainWriter ==
    /\ pc = "drainWriter"
    /\ WriterDoneReady
    /\ writerDone' = FALSE
    /\ IF DrainCause # "none"
         THEN Cleanup(DrainCause)
         ELSE /\ pc' = "finalize"
              /\ UNCHANGED <<iwVars, workersShutDown, workerDone, workClosed, cause, outcome>>
    /\ UNCHANGED <<workChan, resultChan, resultClosed, writerClosed, ctxDone, groupErr,
                   fence, workerVars, writerVars, writerErr, failed>>

(* finalizeIndex. *)
FinalizeIndex ==
    /\ pc = "finalize"
    /\ \E ok \in BOOLEAN :
          /\ Finalize(ok)
          /\ outcome' = IF ok THEN "ok" ELSE "failed"
          /\ cause' = IF ok THEN "none" ELSE "failure"
    /\ pc' = "idle"
    /\ UNCHANGED <<chanVars, ctxVars, fence, workerVars, writerVars, workersShutDown,
                   writerErr, failed>>

TeardownStep == ShutdownWait \/ ShutdownWriter \/ Drain \/ DrainWait \/ DrainWriter
                \/ FinalizeIndex
================================================================================
