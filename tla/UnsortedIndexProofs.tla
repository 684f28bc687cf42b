-------------------------- MODULE UnsortedIndexProofs ---------------------------
(***************************************************************************)
(* Finish of an unsorted build with several workers writes the right       *)
(* index: proofs that a Finish which returns nil leaves a file holding     *)
(* every key of every block, laid out as a reader expects, whichever path  *)
(* the entries took, and that it implements BuildOutcome.                  *)
(***************************************************************************)
EXTENDS UnsortedReadersProofs, SequenceTheorems

(* Finish has given up, or is bound to: fail and cleanup never finalize. *)
Aborting == pc \in {"failWait", "shutWait", "shutWriter"} \/ outcome = "failed"
Draining == pc \in {"drain", "drainWait", "drainWriter", "finalize"}

(* How far the teardown has got, and who has stopped by then. *)
StageInv ==
    /\ resultClosed => AllWorkersExited
    /\ pc \in {"drainWriter", "finalize", "shutWriter", "idle"} => resultClosed
    /\ writerDone \/ writerClosed \/ pc \in {"finalize", "idle"} => WriterStopped
    /\ pc = "finalize" => groupErr = "none" /\ ~writerDone
    /\ outcome # "building" <=> pc = "idle"

(* A failure of a block leaves a trace that Finish must meet. *)
WorkerFailed(w) == wpc[w] \in {"send", "return"} /\ werr[w]
FailureInv ==
    failed => groupErr # "none" \/ writerDone \/ Aborting \/ \E w \in Workers : WorkerFailed(w)

(* The writer commits blocks in order, and stops either with an error that Finish
   has seen or will see, or with nothing left to receive or to emit. *)
NextIsReady == \E r \in reorder : r.blockID = nextBlockID
WriterInv ==
    /\ nextBlockID = blockCount /\ nextBlockID <= NumBlocks
    /\ writerPc = "recv" => ~NextIsReady
    /\ WriterStopped => \/ writerDone \/ Aborting
                        \/ resultClosed /\ resultChan = <<>> /\ ~NextIsReady

(* A worker that leaves without an error has left nothing in workChan. *)
ExitInv ==
    groupErr = "none" /\ (\E w \in Workers : wpc[w] = "exit") =>
        workClosed /\ workChan = <<>>

(* Where a dispatched block can be; none is lost, unless Finish is bound to fail. *)
Located(b) ==
    \/ b < nextBlockID
    \/ \E r \in reorder : r.blockID = b
    \/ \E i \in DOMAIN resultChan : resultChan[i].blockID = b
    \/ \E w \in Workers : wpc[w] \in {"check", "build", "send"} /\ wjob[w].blockID = b
    \/ \E i \in DOMAIN workChan : workChan[i].blockID = b
Doomed == groupErr # "none" \/ writerDone \/ Aborting
BlocksInv ==
    /\ \A b \in Blocks : b < blockID => Located(b) \/ Doomed
    /\ Draining => NumBlocks <= blockID

PipelineInv == StageInv /\ FailureInv /\ WriterInv /\ ExitInv /\ BlocksInv

(* start is the running sum of the block counts.  That it does not decrease is known
   up to the block the loop has reached, which is as far as anything depends on it. *)
Starts == [0 .. NumBlocks -> 0 .. TotalKeys]
StartsOf(start) ==
    /\ CountsAddUp(start)
    /\ \A b, c \in 0 .. NumBlocks : b <= c /\ c <= blockID => start[b] <= start[c]
    /\ pc \in {"partition", "block"} /\ blockID \in Blocks => keysBefore = start[blockID]
    /\ pc = "select" => keysBefore = start[blockID + 1]

(* Wherever a work item or a result is, it describes a dispatched block: all of the
   block's keys, at the place the running sum gives it. *)
CountIs(r) == r.blockID < blockID /\ r.n = size[r.blockID]
PlaceIs(start, j) == CountIs(j) /\ j.keysBefore = start[j.blockID]
PlacedInv(start) ==
    /\ pc = "select" => job.n = size[blockID] /\ job.keysBefore = start[blockID]
    /\ \A i \in DOMAIN workChan : PlaceIs(start, workChan[i])
    /\ \A w \in Workers : wpc[w] \in {"check", "build", "send"} => PlaceIs(start, wjob[w])
    /\ \A i \in DOMAIN resultChan : CountIs(resultChan[i])
    /\ \A r \in reorder : CountIs(r)

(* The payloads of a block are in the file from the moment its worker reports
   success, and stay there. *)
Written(start, b) ==
    \A i \in start[b] .. start[b] + size[b] - 1 : payloads[i] = b
WrittenInv(start) ==
    /\ \A w \in Workers : wpc[w] = "send" /\ ~werr[w] => Written(start, wjob[w].blockID)
    /\ \A i \in DOMAIN resultChan :
          ~resultChan[i].err => Written(start, resultChan[i].blockID)
    /\ \A r \in reorder : Written(start, r.blockID)
    /\ \A b \in Blocks : b < blockCount => Written(start, b)

(* What the writer goroutine has recorded of the committed blocks. *)
CommitInv(start) ==
    /\ blockCount <= blockID
    /\ keyCount = start[blockCount]
    /\ Len(metadata) = blockCount
    /\ \A b \in Blocks : b < blockCount => metadata[b + 1] = BlockData(b, size[b])
    /\ Len(payloadHash) = blockCount \/ (WriterStopped /\ failed)
    /\ Len(payloadHash) >= blockCount
    /\ \A b \in Blocks : b < blockCount => payloadHash[b + 1] = BlockData(b, size[b])
    /\ \/ Len(ramIndex) = blockCount
       \/ Len(ramIndex) = blockCount + 1 /\ WriterStopped /\ (failed \/ outcome # "building")
    /\ \A i \in 1 .. Len(ramIndex) :
          ramIndex[i].keysBefore = start[i - 1] /\ ramIndex[i].metadataOffset = i - 1

Layout(start) == StartsOf(start) /\ PlacedInv(start) /\ WrittenInv(start) /\ CommitInv(start)
LayoutInv == \E start \in Starts : Layout(start)

(* A Finish that returned nil. *)
OkInv ==
    outcome = "ok" => /\ output = "final" /\ ~failed
                      /\ blockCount = NumBlocks /\ keyCount = TotalKeys
                      /\ Len(ramIndex) = NumBlocks + 1

IndexInv == ReadersInv /\ PipelineInv /\ LayoutInv /\ OkInv

--------------------------------------------------------------------------------
(* What each kind of step leaves alone. *)

(* Steps that touch neither the pipeline, beyond a cancellation, nor the loop. *)
Quiet == \/ \E r \in Readers : ReaderStep(r)
         \/ \E s \in Fences : SlotReusable(s)
         \/ CancelBuild
         \/ UNCHANGED vars

(* A step is quiet, or one of the finishing goroutine, a worker, the writer or the
   teardown. *)
LEMMA StepCases ==
  ASSUME [Next]_vars
  PROVE  \/ Quiet \/ FinishStep
         \/ \E w \in Workers : WorkerStep(w) /\ UnchangedHere
         \/ WriterStep /\ UnchangedHere
         \/ TeardownStep /\ UnchangedHere
BY DEF Next, Returned, Quiet

(* A quiet step leaves the pipeline and the loop as they are. *)
LEMMA QuietFrame ==
  ASSUME Quiet
  PROVE  /\ UNCHANGED <<iwVars, chanVars, groupErr, workerVars, writerVars, mainVars, failed>>
         /\ UNCHANGED <<inputVars, loopVars>>
<1>1. ASSUME UNCHANGED <<poolVars, inputVars, loopVars>>
      PROVE  /\ UNCHANGED <<iwVars, chanVars, groupErr, workerVars, writerVars, mainVars, failed>>
             /\ UNCHANGED <<inputVars, loopVars>>
  BY <1>1 DEF poolVars, ctxVars
<1>2. CASE CancelBuild
  BY <1>2 DEF CancelBuild, UserCancel
<1>3. CASE \E r \in Readers : ReaderStep(r)
  BY <1>1, <1>3 DEF ReaderStep, ReaderTakeSlot, ReaderRead, ReaderSend, ReaderExit
<1>4. CASE \E s \in Fences : SlotReusable(s)
  BY <1>1, <1>4 DEF SlotReusable
<1>5. CASE UNCHANGED vars
  BY <1>1, <1>5 DEF vars
<1> QED BY <1>2, <1>3, <1>4, <1>5 DEF Quiet

(* The finishing goroutine outside the teardown: it touches neither the workers nor
   the writer nor the file, and whatever makes it give up leads to cleanup. *)
LEMMA FinishFrame ==
  ASSUME ChannelInv, FinishStep
  PROVE  /\ UNCHANGED <<iwVars, workerVars, writerVars, resultChan, resultClosed, writerClosed>>
         /\ UNCHANGED <<groupErr, failed, inputVars, outcome>>
         /\ pc \in {"partition", "block", "select", "failWait"}
         /\ \/ pc' \in {"failWait", "shutWait"}
            \/ /\ pc' \in {"partition", "block", "select", "drain"} /\ pc # "failWait"
               /\ UNCHANGED <<writerDone, workClosed>>
         /\ writerDone' => writerDone
         /\ ~SelectSend => workChan' = workChan
<1> USE DEF chanVars, ctxVars, Fail
<1>1. CASE ReceivePartition
  BY <1>1 DEF ReceivePartition, SelectSend
<1>2. CASE ReceiveGivesUp
  BY <1>2 DEF ReceiveGivesUp, TakeWriterDone, SelectSend
<1>3. CASE PollGivesUp
  BY <1>3 DEF PollGivesUp, TakeWriterDone, SelectSend
<1>4. CASE SelectGivesUp
  BY <1>4 DEF SelectGivesUp, TakeWriterDone, ConsumePipelineError, SelectSend
<1>5. CASE PrepareBlock \/ PartitionDispatched \/ AllPartitionsDispatched \/ AllBlocksDispatched
  BY <1>5 DEF PrepareBlock, PartitionDispatched, AllPartitionsDispatched, AllBlocksDispatched,
     SelectSend
<1>6. CASE SelectSend
  BY <1>6 DEF SelectSend, DispatchSend
<1>7. CASE FailWait
  BY <1>7 DEF FailWait, Cleanup, ChannelInv, SelectSend
<1> QED BY <1>1, <1>2, <1>3, <1>4, <1>5, <1>6, <1>7 DEF FinishStep

(* A worker that can step proves that resultChan is open. *)
LEMMA WorkerStepOpen ==
  ASSUME TypeOK, StageInv, NEW w \in Workers, WorkerStep(w)
  PROVE  ~resultClosed /\ pc \notin {"drainWriter", "finalize", "shutWriter", "idle"}
         /\ outcome = "building"
BY DEF StageInv, AllWorkersExited, WorkerStep, WorkerReceive, WorkerFinish, WorkerCancelled,
       WorkerAddKeys, WorkerBuild, WorkerSend, WorkerSendCancelled, WorkerReturnErr

(* A writer that still receives or emits has not failed. *)
LEMMA WriterStepRunning ==
  ASSUME StageInv, WriterReceive \/ WriterEmit
  PROVE  ~WriterStopped /\ ~writerDone /\ ~writerClosed /\ pc \notin {"finalize", "idle"}
         /\ outcome = "building"
BY DEF StageInv, WriterStopped, WriterReceive, WriterEmit

(* The drain ends in the finalization of the index, or in a failure. *)
LEMMA DrainOutcome ==
  ASSUME TypeOK, ChannelInv, StageInv, DrainWriter
  PROVE  \/ /\ ~writerDone /\ groupErr = "none" /\ writerDone' = FALSE
            /\ writerPc = "exit" /\ pc' = "finalize" /\ outcome' = outcome
            /\ UNCHANGED <<iwVars, workClosed>>
         \/ /\ pc' = "idle" /\ outcome' = "failed" /\ writerDone' = FALSE
            /\ output' = "removed" /\ WriterStopped
            /\ UNCHANGED <<ramIndex, metadata, payloads, payloadHash, keyCount, blockCount,
                           workClosed>>
<1>1. WriterDoneReady /\ workersShutDown /\ writerDone' = FALSE /\ WriterStopped
  BY DEF DrainWriter, ChannelInv, StageInv, WriterDoneReady
<1>2. CASE DrainCause = "none"
  <2>1. ~writerDone /\ groupErr = "none"
    BY <1>2 DEF DrainCause
  <2>2. writerPc = "exit"
    BY <1>1, <2>1 DEF WriterDoneReady, ChannelInv
  <2> QED BY <1>1, <1>2, <2>1, <2>2 DEF DrainWriter
<1>3. CASE DrainCause # "none"
  BY <1>1, <1>3 DEF DrainWriter, Cleanup, CloseAndRemove
<1> QED BY <1>2, <1>3

(* Every step keeps the order of the teardown: workers, then the writer, then the file. *)
LEMMA StageInvStep ==
  ASSUME TypeOK, ChannelInv, StageInv, [Next]_vars
  PROVE  StageInv'
<1> USE DEF iwVars, chanVars, ctxVars, workerVars, writerVars, mainVars
<1>1. CASE Quiet
  BY <1>1, QuietFrame DEF StageInv, AllWorkersExited, WriterStopped
<1>2. CASE FinishStep
  BY <1>2, FinishFrame DEF StageInv, AllWorkersExited, WriterStopped
<1>3. ASSUME NEW w \in Workers, WorkerStep(w) PROVE StageInv'
  BY <1>3, WorkerFrame, WorkerStepOpen DEF StageInv, WriterStopped
<1>4. CASE WriterStep
  <2>1. UNCHANGED <<resultClosed, wpc, pc, outcome>>
    BY <1>4, WriterFrame
  <2>2. groupErr' = groupErr
    BY <1>4 DEF WriterStep, WriterReceive, WriterEmit, WriterCancel, WriterClose
  <2>3. CASE WriterReceive \/ WriterEmit
    <3>1. writerDone' => writerPc' = "cancel"
      BY <2>3, WriterStepRunning DEF WriterReceive, WriterEmit
    <3>2. writerClosed' = writerClosed
      BY <2>3 DEF WriterReceive, WriterEmit
    <3> QED BY <2>1, <2>2, <2>3, <3>1, <3>2, WriterStepRunning
            DEF StageInv, AllWorkersExited, WriterStopped
  <2>4. CASE WriterCancel \/ WriterClose
    <3>1. writerPc' \in {"close", "exit"} /\ writerDone' = writerDone
      BY <2>4 DEF WriterCancel, WriterClose
    <3> QED BY <2>1, <2>2, <3>1 DEF StageInv, AllWorkersExited, WriterStopped
  <2> QED BY <1>4, <2>3, <2>4 DEF WriterStep
<1>5. CASE TeardownStep
  <2>1. UNCHANGED <<wpc, groupErr, writerPc, writerClosed>>
    BY <1>5 DEF TeardownStep, ShutdownWait, ShutdownWriter, Drain, DrainWait, DrainWriter,
       FinalizeIndex
  <2>2. CASE ShutdownWait
    BY <2>1, <2>2 DEF ShutdownWait, StageInv, AllWorkersExited, WriterStopped
  <2>3. CASE ShutdownWriter
    BY <2>1, <2>3 DEF ShutdownWriter, WriterDoneReady, StageInv, AllWorkersExited, WriterStopped
  <2>4. CASE Drain
    BY <2>1, <2>4 DEF Drain, StageInv, AllWorkersExited, WriterStopped
  <2>5. CASE DrainWait
    BY <2>1, <2>5 DEF DrainWait, StageInv, AllWorkersExited, WriterStopped
  <2>6. CASE DrainWriter
    <3>1. pc = "drainWriter" /\ resultClosed' = resultClosed
      BY <2>6 DEF DrainWriter
    <3> QED BY <2>1, <2>6, <3>1, DrainOutcome DEF StageInv, AllWorkersExited, WriterStopped
  <2>7. CASE FinalizeIndex
    BY <2>1, <2>7 DEF FinalizeIndex, StageInv, AllWorkersExited, WriterStopped
  <2> QED BY <1>5, <2>2, <2>3, <2>4, <2>5, <2>6, <2>7 DEF TeardownStep
<1> QED BY <1>1, <1>2, <1>3, <1>4, <1>5, StepCases

--------------------------------------------------------------------------------
(* Failures. *)

(* A block that failed, in a worker or in the writer, keeps Finish from succeeding:
   its error is with the worker, the group, the writer or Finish itself. *)
LEMMA FailureInvStep ==
  ASSUME TypeOK, ChannelInv, StageInv, FailureInv, [Next]_vars
  PROVE  FailureInv'
<1> USE DEF iwVars, chanVars, ctxVars, workerVars, writerVars, mainVars
<1>1. CASE Quiet
  BY <1>1, QuietFrame DEF FailureInv, Aborting, WorkerFailed
<1>2. CASE FinishStep
  BY <1>2, FinishFrame DEF FailureInv, Aborting, WorkerFailed
<1>3. ASSUME NEW w \in Workers, WorkerStep(w) PROVE FailureInv'
  <2>1. UNCHANGED <<writerDone, pc, outcome>>
    BY <1>3, WorkerFrame
  <2>2. groupErr # "none" => groupErr' # "none"
    BY <1>3 DEF WorkerStep, WorkerReceive, WorkerFinish, WorkerExit, WorkerCancelled,
       WorkerAddKeys, WorkerBuild, WorkerSend, WorkerSendCancelled, WorkerReturnErr
  <2>t. /\ wpc \in [Workers -> {"recv", "check", "build", "send", "return", "exit"}]
        /\ werr \in [Workers -> BOOLEAN]
    BY DEF TypeOK, PoolTypeOK
  <2>3. ASSUME NEW v \in Workers, WorkerFailed(v)
        PROVE  WorkerFailed(v)' \/ groupErr' # "none"
    BY <1>3, <2>2, <2>3, <2>t DEF WorkerFailed, WorkerStep, WorkerReceive, WorkerFinish, WorkerExit,
       WorkerCancelled, WorkerAddKeys, WorkerBuild, WorkerSend, WorkerSendCancelled,
       WorkerReturnErr
  <2>4. failed' => failed \/ WorkerFailed(w)'
    BY <1>3, <2>t DEF WorkerFailed, WorkerStep, WorkerReceive, WorkerFinish, WorkerExit,
       WorkerCancelled, WorkerAddKeys, WorkerBuild, WorkerSend, WorkerSendCancelled,
       WorkerReturnErr
  <2> QED BY <2>1, <2>2, <2>3, <2>4 DEF FailureInv, Aborting
<1>4. CASE WriterStep
  <2>1. UNCHANGED <<wpc, werr, pc, outcome>>
    BY <1>4, WriterFrame
  <2>2. groupErr' = groupErr
    BY <1>4 DEF WriterStep, WriterReceive, WriterEmit, WriterCancel, WriterClose
  <2>t. writerDone \in BOOLEAN /\ failed \in BOOLEAN
    BY DEF TypeOK, PoolTypeOK
  <2>3. writerDone => writerDone'
    BY <1>4, <2>t DEF WriterStep, WriterReceive, WriterEmit, WriterCancel, WriterClose
  <2>4. failed' => failed \/ writerDone'
    BY <1>4, <2>t DEF WriterStep, WriterReceive, WriterEmit, WriterCancel, WriterClose
  <2> QED BY <2>1, <2>2, <2>3, <2>4 DEF FailureInv, Aborting, WorkerFailed
<1>5. CASE TeardownStep
  <2>1. UNCHANGED <<wpc, werr, groupErr, failed>>
    BY <1>5 DEF TeardownStep, ShutdownWait, ShutdownWriter, Drain, DrainWait, DrainWriter,
       FinalizeIndex
  <2>2. CASE ShutdownWait \/ ShutdownWriter \/ Drain \/ DrainWait
    BY <2>1, <2>2 DEF ShutdownWait, ShutdownWriter, Drain, DrainWait, FailureInv, Aborting,
       WorkerFailed
  <2>3. CASE DrainWriter
    <3>1. pc = "drainWriter" /\ (Aborting' \/ (~writerDone /\ outcome' = outcome))
      BY <2>3, DrainOutcome DEF DrainWriter, Aborting
    <3> QED BY <2>1, <3>1 DEF FailureInv, Aborting, WorkerFailed
  <2>4. CASE FinalizeIndex
    <3>1. pc = "finalize" /\ outcome = "building" /\ writerDone' = writerDone
      BY <2>4 DEF FinalizeIndex, StageInv
    <3> QED BY <2>1, <3>1 DEF FailureInv, Aborting, WorkerFailed
  <2> QED BY <1>5, <2>2, <2>3, <2>4 DEF TeardownStep
<1> QED BY <1>1, <1>2, <1>3, <1>4, <1>5, StepCases

(* When the index is finalized no block has failed. *)
LEMMA FinalizeUnfailed ==
  ASSUME StageInv, FailureInv, pc = "finalize"
  PROVE  ~failed
<1>1. ~Aborting /\ groupErr = "none" /\ ~writerDone
  BY DEF StageInv, Aborting
<1>2. \A w \in Workers : wpc[w] = "exit"
  BY DEF StageInv, AllWorkersExited
<1> QED BY <1>1, <1>2 DEF FailureInv, WorkerFailed

--------------------------------------------------------------------------------
(* The writer and the exits of the workers. *)

(* The writer advances over exactly the blocks it has committed. *)
LEMMA WriterWriterInv ==
  ASSUME TypeOK, WriterInv, WriterStep
  PROVE  WriterInv'
<1> USE ConstantTypes DEF chanVars, iwVars, mainVars
<1>0. UNCHANGED <<pc, outcome>> /\ (Aborting' <=> Aborting)
  BY DEF WriterStep, WriterReceive, WriterEmit, WriterCancel, WriterClose, Aborting
<1>1. CASE WriterReceive
  BY <1>0, <1>1 DEF WriterReceive, WriterInv, WriterStopped, NextIsReady, WriterAt
<1>2. CASE WriterEmit
  <2> PICK r \in reorder, ok \in BOOLEAN :
        /\ r.blockID = nextBlockID
        /\ WriteMetadata(r.blockID, r.n, ok)
        /\ nextBlockID' = IF ok THEN nextBlockID + 1 ELSE nextBlockID
        /\ writerPc' = IF ok THEN WriterAt(reorder', nextBlockID') ELSE "cancel"
        /\ writerDone' = (writerDone \/ ~ok)
    BY <1>2 DEF WriterEmit
  <2>1. r.blockID \in Blocks
    BY DEF TypeOK, PoolTypeOK, Result
  <2>2. nextBlockID' = blockCount' /\ nextBlockID' <= NumBlocks
    BY <2>1 DEF WriterInv, WriteMetadata, Advance, TypeOK, PoolTypeOK, IWTypeOK
  <2> QED BY <2>2 DEF WriterInv, WriterStopped, NextIsReady, WriterAt
<1>3. CASE WriterCancel \/ WriterClose
  <2>1. UNCHANGED <<nextBlockID, blockCount, reorder, resultChan, resultClosed, writerDone>>
    BY <1>3 DEF WriterCancel, WriterClose
  <2>2. NextIsReady' <=> NextIsReady
    BY <2>1 DEF NextIsReady
  <2> QED BY <1>0, <1>3, <2>1, <2>2 DEF WriterCancel, WriterClose, WriterInv, WriterStopped
<1> QED BY <1>1, <1>2, <1>3 DEF WriterStep

(* No other step disturbs what the writer knows of its progress. *)
LEMMA WriterInvStep ==
  ASSUME TypeOK, ChannelInv, StageInv, WriterInv, [Next]_vars
  PROVE  WriterInv'
<1> USE DEF iwVars, chanVars, ctxVars, workerVars, writerVars, mainVars
<1>1. ASSUME UNCHANGED <<writerPc, nextBlockID, reorder, blockCount>>,
             writerDone \/ Aborting => writerDone' \/ Aborting',
             resultClosed => UNCHANGED resultChan /\ resultClosed'
      PROVE  WriterInv'
  <2>1. (NextIsReady' <=> NextIsReady) /\ (WriterStopped' <=> WriterStopped)
    BY <1>1 DEF NextIsReady, WriterStopped
  <2> QED BY <1>1, <2>1 DEF WriterInv
<1>2. CASE Quiet
  BY <1>1, <1>2, QuietFrame DEF Aborting
<1>3. CASE FinishStep
  BY <1>1, <1>3, FinishFrame DEF Aborting
<1>4. ASSUME NEW w \in Workers, WorkerStep(w) PROVE WriterInv'
  <2>1. UNCHANGED blockCount
    BY <1>4 DEF WorkerStep, WorkerReceive, WorkerFinish, WorkerExit, WorkerCancelled,
       WorkerAddKeys, WorkerBuild, WorkerSend, WorkerSendCancelled, WorkerReturnErr
  <2> QED BY <1>1, <1>4, <2>1, WorkerFrame, WorkerStepOpen DEF Aborting
<1>5. CASE TeardownStep
  <2>1. UNCHANGED <<writerPc, nextBlockID, reorder, blockCount, resultChan>>
    BY <1>5 DEF TeardownStep, ShutdownWait, ShutdownWriter, CloseAndRemove, Drain, DrainWait,
       DrainWriter, Cleanup, FinalizeIndex, Finalize
  <2>2. resultClosed => resultClosed'
    BY <1>5 DEF TeardownStep, ShutdownWait, ShutdownWriter, Drain, DrainWait, DrainWriter,
       FinalizeIndex
  <2>3. writerDone \/ Aborting => writerDone' \/ Aborting'
    <3>1. CASE ShutdownWait \/ ShutdownWriter \/ Drain \/ DrainWait
      BY <3>1 DEF ShutdownWait, ShutdownWriter, Drain, DrainWait, Aborting
    <3>2. CASE DrainWriter
      BY <3>2, DrainOutcome DEF DrainWriter, Aborting
    <3>3. CASE FinalizeIndex
      BY <3>3 DEF FinalizeIndex, Aborting, StageInv
    <3> QED BY <1>5, <3>1, <3>2, <3>3 DEF TeardownStep
  <2> QED BY <1>1, <2>1, <2>2, <2>3
<1> QED BY <1>2, <1>3, <1>4, <1>5, StepCases, WriterWriterInv

(* A worker exits only when there is no work left for it or the build is failing. *)
LEMMA ExitInvStep ==
  ASSUME TypeOK, ChannelInv, StageInv, ExitInv, [Next]_vars
  PROVE  ExitInv'
<1> USE DEF iwVars, chanVars, ctxVars, workerVars, writerVars, mainVars
<1>1. CASE Quiet
  BY <1>1, QuietFrame DEF ExitInv
<1>2. CASE FinishStep
  <2>1. UNCHANGED <<groupErr, wpc>> /\ (workClosed => workClosed')
    BY <1>2, FinishFrame DEF ChannelInv, Dispatching
  <2>2. CASE SelectSend
    <3>1. ~workClosed
      BY <2>2 DEF SelectSend, DispatchSend
    <3> QED BY <2>1, <3>1 DEF ExitInv
  <2>3. CASE ~SelectSend
    BY <1>2, <2>1, <2>3, FinishFrame DEF ExitInv
  <2> QED BY <2>2, <2>3
<1>3. ASSUME NEW w \in Workers, WorkerStep(w) PROVE ExitInv'
  <2>t. /\ wpc \in [Workers -> {"recv", "check", "build", "send", "return", "exit"}]
        /\ groupErr \in {"none", "cancelled", "failure"}
    BY DEF TypeOK, PoolTypeOK
  <2>1. CASE WorkerReceive(w)
    <3>1. workChan # <<>> /\ UNCHANGED groupErr /\ wpc' = [wpc EXCEPT ![w] = "check"]
      BY <2>1 DEF WorkerReceive
    <3>2. (\E v \in Workers : wpc'[v] = "exit") => \E v \in Workers : wpc[v] = "exit"
      BY <2>t, <3>1
    <3> QED BY <3>1, <3>2 DEF ExitInv
  <2>2. CASE WorkerFinish(w)
    BY <2>2 DEF WorkerFinish, WorkerExit, ExitInv
  <2>3. CASE WorkerCancelled(w) \/ WorkerSendCancelled(w) \/ WorkerReturnErr(w)
    <3>1. groupErr' # "none"
      BY <2>3, <2>t DEF WorkerCancelled, WorkerSendCancelled, WorkerReturnErr, WorkerExit
    <3> QED BY <3>1 DEF ExitInv
  <2>4. CASE WorkerAddKeys(w) \/ WorkerBuild(w) \/ WorkerSend(w)
    <3>1. UNCHANGED <<groupErr, workChan, workClosed>>
      BY <2>4 DEF WorkerAddKeys, WorkerBuild, WorkerSend
    <3>2. \A v \in Workers : wpc'[v] = "exit" => wpc[v] = "exit"
      BY <2>4, <2>t DEF WorkerAddKeys, WorkerBuild, WorkerSend
    <3> QED BY <3>1, <3>2 DEF ExitInv
  <2> QED BY <1>3, <2>1, <2>2, <2>3, <2>4 DEF WorkerStep
<1>4. CASE WriterStep
  <2>1. groupErr' = groupErr
    BY <1>4 DEF WriterStep, WriterReceive, WriterEmit, WriterCancel, WriterClose
  <2> QED BY <1>4, <2>1, WriterFrame DEF ExitInv
<1>5. CASE TeardownStep
  <2>1. UNCHANGED <<groupErr, wpc>>
    BY <1>5 DEF TeardownStep, ShutdownWait, ShutdownWriter, Drain, DrainWait, DrainWriter,
       FinalizeIndex
  <2>2. workChan = <<>> => workChan' = <<>>
    BY <1>5 DEF TeardownStep, ShutdownWait, ShutdownWriter, Drain, DrainWait, DrainWriter,
       FinalizeIndex
  <2>3. workClosed => workClosed'
    BY <1>5, DrainOutcome DEF TeardownStep, ShutdownWait, ShutdownWriter, Drain, DrainWait,
       FinalizeIndex
  <2> QED BY <2>1, <2>2, <2>3 DEF ExitInv
<1> QED BY <1>1, <1>2, <1>3, <1>4, <1>5, StepCases

--------------------------------------------------------------------------------
(* No block is lost. *)

(* Both parts of BlocksInv survive a step that keeps every block located or Finish
   doomed, and does not dispatch. *)
LEMMA BlocksKept ==
  ASSUME BlocksInv, UNCHANGED blockID, Draining' => Draining, Doomed => Doomed',
         \A b \in Blocks : Located(b) => Located(b)' \/ Doomed'
  PROVE  BlocksInv'
BY DEF BlocksInv, Blocks

(* A step that moves no block keeps BlocksInv, if it does not forget a failure. *)
LEMMA NothingMoves ==
  ASSUME BlocksInv,
         UNCHANGED <<nextBlockID, reorder, resultChan, wpc, wjob, workChan, blockID, groupErr>>,
         writerDone \/ Aborting => writerDone' \/ Aborting',
         Draining' => Draining
  PROVE  BlocksInv'
<1>1. Doomed => Doomed'
  BY DEF Doomed
<1>2. ASSUME NEW b \in Blocks, Located(b) PROVE Located(b)'
  BY <1>2 DEF Located
<1> QED BY <1>1, <1>2, BlocksKept

(* Once Finish aborts, blocks may be lost: nothing will be finalized. *)
LEMMA AbortingKeepsBlocks ==
  ASSUME Aborting', ~Draining'
  PROVE  BlocksInv'
BY DEF BlocksInv, Doomed

(* A worker that drops a block dooms the build; otherwise it passes the block on. *)
LEMMA WorkerBlocks ==
  ASSUME TypeOK, BlocksInv, NEW w \in Workers, WorkerStep(w), UnchangedHere
  PROVE  BlocksInv'
<1> USE DEF iwVars, chanVars, ctxVars, workerVars, writerVars, mainVars
<1>0. /\ workChan \in Seq(Job) /\ resultChan \in Seq(Result)
      /\ wpc \in [Workers -> {"recv", "check", "build", "send", "return", "exit"}]
      /\ wjob \in [Workers -> Job] /\ werr \in [Workers -> BOOLEAN]
  BY DEF TypeOK, PoolTypeOK
<1>1. UNCHANGED <<nextBlockID, reorder, writerDone, pc, outcome, blockID>>
  BY WorkerFrame DEF UnchangedHere, loopVars
<1>2. groupErr # "none" => groupErr' # "none"
  BY DEF WorkerStep, WorkerReceive, WorkerFinish, WorkerExit, WorkerCancelled,
     WorkerAddKeys, WorkerBuild, WorkerSend, WorkerSendCancelled, WorkerReturnErr
<1>4. (Doomed => Doomed') /\ (Draining' => Draining)
  BY <1>1, <1>2 DEF Doomed, Aborting, Draining
<1>5. ASSUME NEW b \in Blocks, NEW i \in DOMAIN workChan, workChan[i].blockID = b
      PROVE  Located(b)'
  <2>1. CASE WorkerReceive(w)
    <3>1. CASE i = 1
      <4>1. wjob'[w] = workChan[1] /\ wpc'[w] = "check"
        BY <1>0, <2>1 DEF WorkerReceive
      <4> QED BY <1>5, <3>1, <4>1 DEF Located
    <3>2. CASE i # 1
      <4>1. i - 1 \in DOMAIN workChan' /\ workChan'[i - 1] = workChan[i]
        BY <1>0, <2>1, <3>2 DEF WorkerReceive
      <4> QED BY <1>5, <4>1 DEF Located
    <3> QED BY <3>1, <3>2
  <2>2. CASE ~WorkerReceive(w)
    <3>1. workChan' = workChan
      BY <2>2 DEF WorkerStep, WorkerFinish, WorkerExit, WorkerCancelled, WorkerAddKeys,
         WorkerBuild, WorkerSend, WorkerSendCancelled, WorkerReturnErr
    <3> QED BY <1>5, <3>1 DEF Located
  <2> QED BY <2>1, <2>2
<1>6. ASSUME NEW b \in Blocks, NEW v \in Workers,
             wpc[v] \in {"check", "build", "send"}, wjob[v].blockID = b
      PROVE  Located(b)' \/ groupErr' # "none"
  <2>1. CASE WorkerSend(w) /\ v = w
    <3>1. /\ Len(resultChan) + 1 \in DOMAIN resultChan'
          /\ resultChan'[Len(resultChan) + 1].blockID = b
      BY <1>0, <1>6, <2>1 DEF WorkerSend
    <3> QED BY <3>1 DEF Located
  <2>2. CASE ~(WorkerSend(w) /\ v = w)
    <3>1. \/ wpc'[v] \in {"check", "build", "send"} /\ wjob'[v] = wjob[v]
          \/ groupErr' # "none"
      BY <1>0, <1>2, <1>6, <2>2 DEF WorkerStep, WorkerReceive, WorkerFinish, WorkerExit,
         WorkerCancelled, WorkerAddKeys, WorkerBuild, WorkerSend, WorkerSendCancelled,
         WorkerReturnErr
    <3> QED BY <1>6, <3>1 DEF Located
  <2> QED BY <2>1, <2>2
<1>7. ASSUME NEW b \in Blocks, NEW i \in DOMAIN resultChan, resultChan[i].blockID = b
      PROVE  Located(b)'
  <2>1. i \in DOMAIN resultChan' /\ resultChan'[i] = resultChan[i]
    <3>1. CASE WorkerSend(w)
      <4>1. [blockID |-> wjob[w].blockID, n |-> wjob[w].n, err |-> werr[w]] \in Result
        BY <1>0 DEF Job, Result
      <4> QED BY <1>0, <3>1, <4>1 DEF WorkerSend
    <3>2. CASE ~WorkerSend(w)
      <4>1. resultChan' = resultChan
        BY <3>2 DEF WorkerStep, WorkerReceive, WorkerFinish, WorkerExit, WorkerCancelled,
           WorkerAddKeys, WorkerBuild, WorkerSendCancelled, WorkerReturnErr
      <4> QED BY <4>1
    <3> QED BY <3>1, <3>2
  <2> QED BY <1>7, <2>1 DEF Located
<1>8. ASSUME NEW b \in Blocks, Located(b) PROVE Located(b)' \/ Doomed'
  <2>1. CASE b < nextBlockID \/ \E r \in reorder : r.blockID = b
    BY <1>1, <2>1 DEF Located
  <2>2. CASE \E i \in DOMAIN workChan : workChan[i].blockID = b
    BY <1>5, <2>2
  <2>3. CASE \E v \in Workers : wpc[v] \in {"check", "build", "send"} /\ wjob[v].blockID = b
    BY <1>6, <2>3 DEF Doomed
  <2>4. CASE \E i \in DOMAIN resultChan : resultChan[i].blockID = b
    BY <1>7, <2>4
  <2> QED BY <1>8, <2>1, <2>2, <2>3, <2>4 DEF Located
<1> QED BY <1>1, <1>4, <1>8, BlocksKept

(* The writer moves blocks to the reorder buffer and then to the index, or fails. *)
LEMMA WriterBlocks ==
  ASSUME TypeOK, BlocksInv, WriterStep, UnchangedHere
  PROVE  BlocksInv'
<1> USE DEF iwVars, chanVars, ctxVars, workerVars, writerVars, mainVars
<1>0. resultChan \in Seq(Result) /\ nextBlockID \in Nat /\ writerDone \in BOOLEAN
  BY DEF TypeOK, PoolTypeOK
<1>1. UNCHANGED <<workChan, wpc, wjob, groupErr, pc, outcome, blockID>>
  BY DEF WriterStep, WriterReceive, WriterEmit, WriterCancel, WriterClose, UnchangedHere, loopVars
<1>4. writerDone => writerDone'
  BY <1>0 DEF WriterStep, WriterReceive, WriterEmit, WriterCancel, WriterClose
<1>2. (Doomed => Doomed') /\ (Draining' => Draining)
  BY <1>1, <1>4 DEF Doomed, Aborting, Draining
<1>3. ASSUME NEW b \in Blocks, Located(b) PROVE Located(b)' \/ Doomed'
  <2>1. CASE \/ \E i \in DOMAIN workChan : workChan[i].blockID = b
             \/ \E w \in Workers : wpc[w] \in {"check", "build", "send"}
                                   /\ wjob[w].blockID = b
    BY <1>1, <2>1 DEF Located
  <2>2. CASE b < nextBlockID
    <3>1. nextBlockID <= nextBlockID'
      BY <1>0 DEF WriterStep, WriterReceive, WriterEmit, WriterCancel, WriterClose
    <3>2. nextBlockID' \in Nat
      BY <1>0 DEF WriterStep, WriterReceive, WriterEmit, WriterCancel, WriterClose
    <3> QED BY <1>0, <2>2, <3>1, <3>2 DEF Located, Blocks
  <2>3. ASSUME NEW r \in reorder, r.blockID = b PROVE Located(b)' \/ writerDone'
    <3>1. CASE WriterEmit
      <4> PICK e \in reorder, ok \in BOOLEAN :
            /\ e.blockID = nextBlockID
            /\ reorder' = reorder \ {e}
            /\ nextBlockID' = IF ok THEN nextBlockID + 1 ELSE nextBlockID
            /\ writerDone' = (writerDone \/ ~ok)
        BY <3>1 DEF WriterEmit
      <4>1. CASE r # e
        BY <2>3, <4>1 DEF Located
      <4>2. CASE r = e /\ ok
        <5>1. b < nextBlockID'
          BY <1>0, <2>3, <4>2
        <5> QED BY <5>1 DEF Located
      <4>3. CASE ~ok
        BY <4>3
      <4> QED BY <4>1, <4>2, <4>3
    <3>2. CASE ~WriterEmit
      <4>1. r \in reorder'
        BY <3>2 DEF WriterStep, WriterReceive, WriterCancel, WriterClose
      <4> QED BY <2>3, <4>1 DEF Located
    <3> QED BY <3>1, <3>2
  <2>4. ASSUME NEW i \in DOMAIN resultChan, resultChan[i].blockID = b
        PROVE  Located(b)' \/ writerDone'
    <3>1. CASE WriterReceive
      <4>1. CASE i = 1
        <5>1. Head(resultChan) = resultChan[1]
          BY <1>0, <2>4
        <5>2. writerDone' \/ resultChan[1] \in reorder'
          BY <3>1, <5>1 DEF WriterReceive
        <5> QED BY <2>4, <4>1, <5>2 DEF Located
      <4>2. CASE i # 1
        <5>1. i - 1 \in DOMAIN resultChan' /\ resultChan'[i - 1] = resultChan[i]
          BY <1>0, <3>1, <4>2 DEF WriterReceive
        <5> QED BY <2>4, <5>1 DEF Located
      <4> QED BY <4>1, <4>2
    <3>2. CASE ~WriterReceive
      <4>1. resultChan' = resultChan
        BY <3>2 DEF WriterStep, WriterEmit, WriterCancel, WriterClose
      <4> QED BY <2>4, <4>1 DEF Located
    <3> QED BY <3>1, <3>2
  <2> QED BY <1>3, <2>1, <2>2, <2>3, <2>4 DEF Located, Doomed
<1> QED BY <1>1, <1>2, <1>3, BlocksKept

(* Teardown loses no block of a build that can still succeed. *)
LEMMA TeardownBlocks ==
  ASSUME TypeOK, ChannelInv, StageInv, BlocksInv, TeardownStep, UnchangedHere
  PROVE  BlocksInv'
<1> USE DEF iwVars, chanVars, ctxVars, workerVars, writerVars, mainVars
<1>0. UNCHANGED blockID
  BY DEF UnchangedHere, loopVars
<1>1. CASE ShutdownWait \/ ShutdownWriter
  BY <1>1, AbortingKeepsBlocks DEF ShutdownWait, ShutdownWriter, Aborting, Draining
<1>2. CASE Drain \/ DrainWait
  <2>1. /\ UNCHANGED <<nextBlockID, reorder, resultChan, wpc, wjob, workChan, groupErr,
                       writerDone, outcome>>
        /\ pc \in {"drain", "drainWait"} /\ pc' \in {"drainWait", "drainWriter"}
    BY <1>2 DEF Drain, DrainWait
  <2> QED BY <1>0, <2>1, NothingMoves DEF Aborting, Draining
<1>3. CASE DrainWriter
  <2>1. /\ UNCHANGED <<nextBlockID, reorder, resultChan, wpc, wjob, workChan, groupErr>>
        /\ pc = "drainWriter"
    BY <1>3 DEF DrainWriter
  <2>2. CASE pc' = "idle" /\ outcome' = "failed"
    BY <2>2, AbortingKeepsBlocks DEF Aborting, Draining
  <2>3. CASE ~writerDone /\ pc' = "finalize" /\ outcome' = outcome
    BY <1>0, <2>1, <2>3, NothingMoves DEF Aborting, Draining
  <2> QED BY <1>3, <2>2, <2>3, DrainOutcome
<1>4. CASE FinalizeIndex
  <2>1. /\ UNCHANGED <<nextBlockID, reorder, resultChan, wpc, wjob, workChan, groupErr,
                       writerDone>>
        /\ pc = "finalize" /\ pc' = "idle"
    BY <1>4 DEF FinalizeIndex
  <2>2. ~Aborting
    BY <2>1 DEF Aborting, StageInv
  <2> QED BY <1>0, <2>1, <2>2, NothingMoves DEF Draining
<1> QED BY <1>1, <1>2, <1>3, <1>4 DEF TeardownStep

(* The loop passes over a partition without blocks, and over no other. *)
LEMMA LoopReachesEnd ==
  ASSUME TypeOK, FilesInv, LoopInv, AllPartitionsDispatched \/ AllBlocksDispatched
  PROVE  NumBlocks <= blockID
<1>1. PICK b \in Nat, p \in Nat : b = blockID /\ p = part
  BY DEF TypeOK
<1>2. CASE AllPartitionsDispatched
  <2>1. pc = "partition" /\ p = numPartitions /\ path = "files"
    BY <1>1, <1>2 DEF AllPartitionsDispatched, FilesInv, TypeOK
  <2>2. b = numPartitions * blocksPerPart \/ NumBlocks <= b
    BY <1>1, <2>1 DEF LoopInv
  <2>3. PICK m \in Nat : m = numPartitions * blocksPerPart
    BY ConstantTypes
  <2>4. NumBlocks <= m
    BY <2>3, UnsortedReadersAssumption, ConstantTypes
  <2> QED BY <1>1, <2>2, <2>3, <2>4
<1>3. CASE AllBlocksDispatched
  <2>1. b \notin Blocks
    BY <1>1, <1>3 DEF AllBlocksDispatched, BlockLeft
  <2> QED BY <1>1, <2>1, ConstantTypes
<1> QED BY <1>2, <1>3

(* The loop dispatches blocks in order and passes over none. *)
LEMMA FinishBlocks ==
  ASSUME TypeOK, ChannelInv, StageInv, FilesInv, LoopInv, BlocksInv, FinishStep
  PROVE  BlocksInv'
<1> USE DEF iwVars, chanVars, ctxVars, workerVars, writerVars, mainVars, loopVars
<1>0. UNCHANGED <<nextBlockID, reorder, resultChan, wpc, wjob, groupErr, outcome>>
  BY FinishFrame
<1>1. CASE pc' \in {"failWait", "shutWait"}
  BY <1>1, AbortingKeepsBlocks DEF Aborting, Draining
<1>2. CASE pc' \notin {"failWait", "shutWait"}
  <2>1. /\ pc' \in {"partition", "block", "select", "drain"} /\ writerDone' = writerDone
        /\ pc \in {"partition", "block", "select"} /\ ~Aborting
    <3>1. /\ pc' \in {"partition", "block", "select", "drain"} /\ writerDone' = writerDone
          /\ pc \in {"partition", "block", "select"}
      BY <1>2, FinishFrame
    <3> QED BY <3>1 DEF Aborting, StageInv
  <2>2. Doomed <=> Doomed'
    BY <1>0, <2>1 DEF Doomed, Aborting
  <2>3. CASE SelectSend
    <3>1. /\ pc = "select" /\ pc' = "block" /\ workChan' = Append(workChan, job)
          /\ blockID' = blockID + 1 /\ job.blockID = blockID
      BY <2>3 DEF SelectSend, DispatchSend, LoopInv
    <3>2. workChan \in Seq(Job) /\ job \in Job /\ blockID \in Nat
      BY DEF TypeOK, PoolTypeOK
    <3>3. /\ Len(workChan) + 1 \in DOMAIN workChan' /\ workChan'[Len(workChan) + 1] = job
          /\ \A i \in DOMAIN workChan : i \in DOMAIN workChan' /\ workChan'[i] = workChan[i]
      BY <3>1, <3>2
    <3>4. ASSUME NEW b \in Blocks, Located(b) PROVE Located(b)'
      BY <1>0, <3>3, <3>4 DEF Located
    <3>5. ASSUME NEW b \in Blocks, b < blockID' PROVE Located(b)' \/ Doomed'
      <4>1. CASE b = blockID
        BY <3>1, <3>3, <4>1 DEF Located
      <4>2. CASE b # blockID
        <5>1. b < blockID
          BY <3>1, <3>2, <3>5, <4>2, ConstantTypes
        <5> QED BY <2>2, <3>4, <5>1 DEF BlocksInv
      <4> QED BY <4>1, <4>2
    <3> QED BY <3>1, <3>5 DEF BlocksInv, Draining
  <2>4. CASE ~SelectSend
    <3>1. workChan' = workChan
      BY <2>4, FinishFrame
    <3>2. ASSUME NEW b \in Blocks PROVE Located(b)' <=> Located(b)
      BY <1>0, <3>1 DEF Located
    <3>3. ASSUME NEW b \in Blocks, b < blockID' PROVE b < blockID
      <4>1. CASE ReceivePartition
        <5>1. PICK k \in Nat : k = blockID
          BY DEF TypeOK
        <5>2. PICK m \in Nat : m = part * blocksPerPart
          BY ConstantTypes DEF TypeOK
        <5>3. path = "files" /\ pc = "partition"
          BY <4>1 DEF ReceivePartition, FilesInv, TypeOK
        <5>4. k = m \/ NumBlocks <= k
          BY <5>1, <5>2, <5>3 DEF LoopInv
        <5>5. blockID' \in {k, m}
          BY <4>1, <5>1, <5>2 DEF ReceivePartition
        <5> QED BY <3>3, <5>1, <5>4, <5>5, ConstantTypes
      <4>2. CASE ~ReceivePartition
        <5>1. blockID' = blockID
          BY <2>4, <4>2 DEF FinishStep, ReceiveGivesUp, PollGivesUp, SelectGivesUp, PrepareBlock,
             PartitionDispatched, AllPartitionsDispatched, AllBlocksDispatched, FailWait
        <5> QED BY <3>3, <5>1
      <4> QED BY <4>1, <4>2
    <3>4. Draining' => NumBlocks <= blockID'
      <4>1. Draining' => AllPartitionsDispatched \/ AllBlocksDispatched
        BY <2>1, <2>4 DEF Draining, FinishStep, ReceivePartition, ReceiveGivesUp, PollGivesUp,
           SelectGivesUp, PrepareBlock, PartitionDispatched, FailWait, Fail, Cleanup
      <4>2. AllPartitionsDispatched \/ AllBlocksDispatched => blockID' = blockID
        BY DEF AllPartitionsDispatched, AllBlocksDispatched
      <4> QED BY <4>1, <4>2, LoopReachesEnd
    <3> QED BY <2>2, <3>2, <3>3, <3>4 DEF BlocksInv, Blocks
  <2> QED BY <2>3, <2>4
<1> QED BY <1>1, <1>2

(* Every step keeps each dispatched block in some place of the pipeline, unless
   Finish is bound to fail. *)
LEMMA BlocksInvStep ==
  ASSUME TypeOK, ChannelInv, StageInv, FilesInv, LoopInv, BlocksInv, [Next]_vars
  PROVE  BlocksInv'
<1>1. CASE Quiet
  <2>1. /\ UNCHANGED <<nextBlockID, reorder, resultChan, wpc, wjob, workChan, blockID, groupErr>>
        /\ UNCHANGED <<writerDone, pc, outcome>>
    BY <1>1, QuietFrame DEF chanVars, workerVars, writerVars, mainVars, loopVars
  <2> QED BY <2>1, NothingMoves DEF Aborting, Draining
<1> QED BY <1>1, WorkerBlocks, WriterBlocks, TeardownBlocks, FinishBlocks, StepCases

(* When the index is finalized every block has been committed. *)
LEMMA AllCommitted ==
  ASSUME TypeOK, StageInv, WriterInv, ExitInv, BlocksInv, pc = "finalize"
  PROVE  blockCount = NumBlocks
<1>1. /\ groupErr = "none" /\ ~writerDone /\ ~Aborting
      /\ resultClosed /\ WriterStopped
      /\ \A w \in Workers : wpc[w] = "exit"
  BY DEF StageInv, Aborting, AllWorkersExited
<1>2. PICK w \in Workers : TRUE
  BY WorkerPoolAssumption, FS_EmptySet
<1>3. workChan = <<>>
  BY <1>1, <1>2 DEF ExitInv
<1>4. resultChan = <<>> /\ ~NextIsReady
  BY <1>1 DEF WriterInv
<1>5. NumBlocks <= blockID /\ ~Doomed
  BY <1>1 DEF BlocksInv, Doomed, Draining
<1>n. PICK n \in Nat, k \in Nat : n = nextBlockID /\ k = blockID
  BY DEF TypeOK, PoolTypeOK
<1>6. CASE n < NumBlocks
  <2>1. n \in Blocks /\ n < k
    BY <1>5, <1>6, <1>n, ConstantTypes
  <2>2. Located(n)
    BY <1>5, <1>n, <2>1 DEF BlocksInv
  <2>3. ~(n < nextBlockID)
    BY <1>n
  <2>4. NextIsReady
    BY <1>1, <1>3, <1>4, <1>n, <2>2, <2>3 DEF Located, NextIsReady
  <2> QED BY <1>4, <2>4
<1>7. CASE ~(n < NumBlocks)
  BY <1>n, <1>7, ConstantTypes DEF WriterInv
<1> QED BY <1>6, <1>7

--------------------------------------------------------------------------------
(* The layout of the file. *)

(* The numbers the loop counts with. *)
LEMMA NumTypes ==
  ASSUME TypeOK
  PROVE  /\ NumBlocks \in Nat /\ TotalKeys \in Nat /\ Blocks = 0 .. NumBlocks - 1
         /\ blockID \in Nat /\ keysBefore \in Nat /\ size \in [Blocks -> Nat]
BY ConstantTypes DEF TypeOK

(* The payload ranges of two dispatched blocks do not overlap: the offsets come
   from the one running sum of the loop. *)
LEMMA RangesDisjoint ==
  ASSUME TypeOK, NEW start \in Starts, StartsOf(start),
         NEW b \in Blocks, NEW c \in Blocks, b < blockID, c < blockID,
         b # c,
         NEW i \in start[b] .. start[b] + size[b] - 1
  PROVE  ~(start[c] <= i /\ i < start[c] + size[c])
<1>1. /\ b \in Nat /\ c \in Nat /\ b \in 0 .. NumBlocks /\ c \in 0 .. NumBlocks
      /\ b + 1 \in 0 .. NumBlocks /\ c + 1 \in 0 .. NumBlocks
      /\ b <= blockID /\ c <= blockID /\ b + 1 <= blockID /\ c + 1 <= blockID
  BY NumTypes
<1>2. start[b + 1] = start[b] + size[b] /\ start[c + 1] = start[c] + size[c]
  BY DEF StartsOf, CountsAddUp
<1>3. b + 1 <= c \/ c + 1 <= b
  BY <1>1
<1>4. start[b + 1] <= start[c] \/ start[c + 1] <= start[b]
  BY <1>1, <1>3 DEF StartsOf
<1>5. /\ start[b] \in Nat /\ start[c] \in Nat /\ size[b] \in Nat /\ size[c] \in Nat
  BY NumTypes, SMTT(30) DEF Starts
<1>6. i \in Int /\ start[b] <= i /\ i < start[b] + size[b]
  BY <1>5
<1> QED BY <1>2, <1>4, <1>5, <1>6

(* The sums are kept by a step that leaves the loop alone or ends it. *)
LEMMA StartsKept ==
  ASSUME NEW start \in Starts, StartsOf(start), UNCHANGED <<size, blockID, keysBefore>>,
         pc' = pc \/ pc' \notin {"partition", "block", "select"}
  PROVE  StartsOf(start)'
<1>1. CountsAddUp(start)'
  BY DEF StartsOf, CountsAddUp
<1> QED BY <1>1 DEF StartsOf

(* A step that touches neither the blocks in the pipeline nor the file keeps the
   layout, if the loop keeps its sums. *)
LEMMA LayoutKept ==
  ASSUME NEW start \in Starts, Layout(start), StartsOf(start)',
         UNCHANGED <<size, workChan, wpc, wjob, werr, resultChan, reorder, payloads, blockCount,
                     keyCount, metadata, payloadHash, ramIndex>>,
         \A b \in Nat : b < blockID => b < blockID', TypeOK, blockCount <= blockID',
         WriterStopped => WriterStopped',
         pc' = "select" => job'.n = size[blockID'] /\ job'.keysBefore = start[blockID'],
         failed => failed',
         outcome # "building" => outcome' # "building"
  PROVE  Layout(start)'
<1>1. /\ \A i \in DOMAIN workChan : workChan[i] \in Job
      /\ \A w \in Workers : wjob[w] \in Job
      /\ \A i \in DOMAIN resultChan : resultChan[i] \in Result
      /\ \A r \in reorder : r \in Result
  BY DEF TypeOK, PoolTypeOK
<1>2. /\ \A i \in DOMAIN workChan : workChan[i].blockID \in Nat
      /\ \A w \in Workers : wjob[w].blockID \in Nat
      /\ \A i \in DOMAIN resultChan : resultChan[i].blockID \in Nat
      /\ \A r \in reorder : r.blockID \in Nat
  BY <1>1, ConstantTypes DEF Job, Result
<1>3. PlacedInv(start)'
  BY <1>2 DEF Layout, PlacedInv, PlaceIs, CountIs
<1>4. WrittenInv(start)'
  BY DEF Layout, WrittenInv, Written
<1>5. CommitInv(start)'
  BY DEF Layout, CommitInv
<1> QED BY <1>3, <1>4, <1>5 DEF Layout

(* A block's range lies inside the payload region. *)
LEMMA RangeFits ==
  ASSUME TypeOK, NEW start \in Starts, StartsOf(start), NEW b \in Blocks
  PROVE  /\ start[b] \in Nat /\ size[b] \in Nat
         /\ start[b + 1] = start[b] + size[b] /\ start[b] + size[b] <= TotalKeys
<1>1. b \in 0 .. NumBlocks /\ b + 1 \in 0 .. NumBlocks
  BY NumTypes
<1>2. start[b] \in 0 .. TotalKeys /\ start[b + 1] \in 0 .. TotalKeys
  BY <1>1 DEF Starts
<1>3. start[b + 1] = start[b] + size[b]
  BY DEF StartsOf, CountsAddUp
<1> QED BY <1>2, <1>3, NumTypes

(* The payload write of a block (writePayloadsDirect) leaves the block written, and
   every other dispatched block as it was. *)
LEMMA PayloadWrite ==
  ASSUME TypeOK, NEW start \in Starts, StartsOf(start),
         NEW b \in Blocks, b < blockID,
         payloads' = PayloadsWith(b, size[b], start[b]),
         size' = size,
         NEW c \in Blocks, c < blockID, c = b \/ Written(start, c)
  PROVE  Written(start, c)'
<1>1. /\ start[b] \in Nat /\ size[b] \in Nat /\ start[c] \in Nat /\ size[c] \in Nat
      /\ start[c] + size[c] <= TotalKeys
  BY RangeFits
<1>2. \A i \in 0 .. TotalKeys - 1 :
        payloads'[i] = IF start[b] <= i /\ i < start[b] + size[b] THEN b ELSE payloads[i]
  BY DEF PayloadsWith
<1> SUFFICES ASSUME NEW i \in start[c] .. start[c] + size[c] - 1
             PROVE  payloads'[i] = c
  BY DEF Written
<1>3. i \in 0 .. TotalKeys - 1 /\ start[c] <= i /\ i < start[c] + size[c]
  <2>1. PICK from \in Nat, n \in Nat : from = start[c] /\ n = size[c]
    BY <1>1
  <2>2. i \in from .. from + n - 1 /\ from + n <= TotalKeys
    BY <1>1, <2>1
  <2>3. i \in 0 .. TotalKeys - 1 /\ from <= i /\ i < from + n
    BY ONLY <2>2, ConstantTypes, from \in Nat, n \in Nat
  <2> QED BY ONLY <2>1, <2>3
<1>4. CASE c = b
  BY <1>2, <1>3, <1>4
<1>5. CASE c # b
  <2>1. ~(start[b] <= i /\ i < start[b] + size[b])
    BY <1>5, RangesDisjoint
  <2>2. payloads[i] = c
    BY <1>5 DEF Written
  <2> QED BY <1>2, <1>3, <2>1, <2>2
<1> QED BY <1>4, <1>5

(* A worker carries its item through unchanged, and its payload write stays inside
   the block's own range. *)
LEMMA WorkerLayout ==
  ASSUME TypeOK, NEW start \in Starts, Layout(start),
         NEW w \in Workers, WorkerStep(w), UnchangedHere
  PROVE  Layout(start)'
<1> USE DEF iwVars, chanVars, ctxVars, workerVars, writerVars, mainVars
<1>0. /\ UNCHANGED <<blockID, size, keysBefore, job, pc, reorder, blockCount,
                     keyCount, metadata, payloadHash, ramIndex, writerPc, outcome>>
      /\ failed => failed'
  BY DEF UnchangedHere, inputVars, loopVars, WorkerStep, WorkerReceive, WorkerFinish, WorkerExit,
     WorkerCancelled, WorkerAddKeys, WorkerBuild, WorkerSend, WorkerSendCancelled, WorkerReturnErr
<1>1. StartsOf(start)'
  BY <1>0, StartsKept DEF Layout
<1>2. CommitInv(start)'
  BY <1>0 DEF Layout, CommitInv, WriterStopped
<1>t. /\ wpc \in [Workers -> {"recv", "check", "build", "send", "return", "exit"}]
      /\ wjob \in [Workers -> Job] /\ werr \in [Workers -> BOOLEAN]
      /\ workChan \in Seq(Job) /\ resultChan \in Seq(Result)
  BY DEF TypeOK, PoolTypeOK
<1>3. ASSUME UNCHANGED payloads, NEW b PROVE Written(start, b)' <=> Written(start, b)
  BY <1>0, <1>3 DEF Written
<1>4. ASSUME NEW j PROVE /\ CountIs(j)' <=> CountIs(j)
                         /\ PlaceIs(start, j)' <=> PlaceIs(start, j)
  BY <1>0 DEF CountIs, PlaceIs
<1>5. CASE WorkerReceive(w)
  <2>1. /\ UNCHANGED <<payloads, resultChan, werr>>
        /\ workChan # <<>> /\ workChan' = Tail(workChan)
        /\ wjob' = [wjob EXCEPT ![w] = Head(workChan)]
        /\ wpc' = [wpc EXCEPT ![w] = "check"]
    BY <1>5 DEF WorkerReceive
  <2>2. \A i \in DOMAIN workChan' : i + 1 \in DOMAIN workChan /\ workChan'[i] = workChan[i + 1]
    BY <1>t, <2>1
  <2>3. 1 \in DOMAIN workChan /\ Head(workChan) = workChan[1]
    BY <1>t, <2>1
  <2>4. /\ \A i \in DOMAIN workChan' : PlaceIs(start, workChan'[i])
        /\ PlaceIs(start, wjob'[w])
    BY <1>t, <2>1, <2>2, <2>3 DEF Layout, PlacedInv
  <2>5. \A v \in Workers : v # w => wpc'[v] = wpc[v] /\ wjob'[v] = wjob[v]
    BY <1>t, <2>1
  <2>6. wpc'[w] = "check"
    BY <1>t, <2>1
  <2>7. PlacedInv(start)'
    BY <1>0, <1>4, <2>1, <2>4, <2>5 DEF Layout, PlacedInv
  <2>8. WrittenInv(start)'
    BY <1>0, <1>3, <2>1, <2>5, <2>6 DEF Layout, WrittenInv
  <2> QED BY <1>1, <1>2, <2>7, <2>8 DEF Layout
<1>6. CASE WorkerFinish(w) \/ WorkerCancelled(w) \/ WorkerSendCancelled(w) \/ WorkerReturnErr(w)
  <2>1. /\ UNCHANGED <<payloads, resultChan, werr, wjob, workChan>>
        /\ wpc' = [wpc EXCEPT ![w] = "exit"]
    BY <1>6 DEF WorkerFinish, WorkerCancelled, WorkerSendCancelled, WorkerReturnErr,
       WorkerExit
  <2>2. \A v \in Workers : wpc'[v] \in {wpc[v], "exit"}
    BY <1>t, <2>1
  <2>3. PlacedInv(start)'
    BY <1>0, <1>4, <2>1, <2>2 DEF Layout, PlacedInv
  <2>4. WrittenInv(start)'
    BY <1>0, <1>3, <2>1, <2>2 DEF Layout, WrittenInv
  <2> QED BY <1>1, <1>2, <2>3, <2>4 DEF Layout
<1>7. CASE WorkerAddKeys(w)
  <2>1. /\ UNCHANGED <<payloads, resultChan, werr, wjob, workChan>>
        /\ wpc[w] = "check" /\ wpc' = [wpc EXCEPT ![w] = "build"]
    BY <1>7 DEF WorkerAddKeys
  <2>2. \A v \in Workers : wpc'[v] = wpc[v] \/ (wpc[v] = "check" /\ wpc'[v] = "build")
    BY <1>t, <2>1
  <2>3. PlacedInv(start)'
    BY <1>0, <1>4, <2>1, <2>2 DEF Layout, PlacedInv
  <2>4. WrittenInv(start)'
    BY <1>0, <1>3, <2>1, <2>2 DEF Layout, WrittenInv
  <2> QED BY <1>1, <1>2, <2>3, <2>4 DEF Layout
<1>8. CASE WorkerBuild(w)
  <2> DEFINE j == wjob[w]
  <2>1. /\ UNCHANGED <<resultChan, wjob, workChan>>
        /\ wpc[w] = "build" /\ wpc' = [wpc EXCEPT ![w] = "send"]
    BY <1>8 DEF WorkerBuild
  <2>2. j \in Job /\ PlaceIs(start, j)
    BY <1>t, <2>1 DEF Layout, PlacedInv
  <2>3. \A v \in Workers : wpc'[v] = wpc[v] \/ (wpc[v] = "build" /\ wpc'[v] = "send")
    BY <1>t, <2>1
  <2>4. PlacedInv(start)'
    BY <1>0, <1>4, <2>1, <2>3 DEF Layout, PlacedInv
  <2>5. \A v \in Workers : v # w => wpc'[v] = wpc[v] /\ werr'[v] = werr[v]
    BY <1>8, <1>t, <2>1 DEF WorkerBuild
  <2>6. CASE UNCHANGED payloads /\ werr' = [werr EXCEPT ![w] = TRUE]
    <3>1. werr'[w]
      BY <1>t, <2>6
    <3>2. WrittenInv(start)'
      BY <1>0, <1>3, <2>1, <2>5, <2>6, <3>1 DEF Layout, WrittenInv
    <3> QED BY <1>1, <1>2, <2>4, <3>2 DEF Layout
  <2>7. CASE payloads' = PayloadsWith(j.blockID, j.n, j.keysBefore)
    <3>1. /\ j.blockID \in Blocks /\ j.blockID < blockID
          /\ j.n = size[j.blockID] /\ j.keysBefore = start[j.blockID]
      BY <2>2 DEF PlaceIs, CountIs, Job
    <3>2. PICK b \in Blocks : b = j.blockID
      BY <3>1
    <3>3. /\ b < blockID
          /\ payloads' = PayloadsWith(b, size[b], start[b])
      BY <2>7, <3>1, <3>2
    <3>4. ASSUME NEW c \in Blocks, c < blockID, c = b \/ Written(start, c)
          PROVE  Written(start, c)'
      BY <1>0, <3>3, <3>4, PayloadWrite DEF Layout
    <3>5. /\ \A v \in Workers : wpc[v] \in {"check", "build", "send"} =>
                wjob[v].blockID \in Blocks /\ wjob[v].blockID < blockID
          /\ \A i \in DOMAIN resultChan :
                resultChan[i].blockID \in Blocks /\ resultChan[i].blockID < blockID
      <4>1. /\ \A v \in Workers : wjob[v] \in Job
            /\ \A i \in DOMAIN resultChan : resultChan[i] \in Result
        BY <1>t
      <4> QED BY <4>1 DEF Layout, PlacedInv, PlaceIs, CountIs, Job, Result
    <3>6. \A r \in reorder : r.blockID \in Blocks /\ r.blockID < blockID
      BY DEF Layout, PlacedInv, CountIs, TypeOK, PoolTypeOK, Result
    <3>7. \A c \in Blocks : c < blockCount => c < blockID
      BY NumTypes, SMTT(30) DEF Blocks, Layout, CommitInv, TypeOK, PoolTypeOK, IWTypeOK
    <3>8. WrittenInv(start)'
      <4>1. ASSUME NEW v \in Workers, wpc'[v] = "send", ~werr'[v], NEW c, c = wjob[v].blockID
            PROVE  Written(start, c)'
        <5>1. c \in Blocks /\ c < blockID
          BY <2>3, <3>5, <4>1
        <5>2. c = b \/ Written(start, c)
          BY <2>5, <3>2, <4>1 DEF Layout, WrittenInv
        <5> QED BY <3>4, <5>1, <5>2
      <4>2. ASSUME NEW i \in DOMAIN resultChan, ~resultChan[i].err,
                   NEW c, c = resultChan[i].blockID
            PROVE  Written(start, c)'
        BY <3>4, <3>5, <4>2 DEF Layout, WrittenInv
      <4>3. /\ \A r \in reorder : Written(start, r.blockID)'
            /\ \A c \in Blocks : c < blockCount => Written(start, c)'
        BY <3>4, <3>6, <3>7 DEF Layout, WrittenInv
      <4> QED BY <1>0, <2>1, <4>1, <4>2, <4>3 DEF WrittenInv, Blocks
    <3> QED BY <1>1, <1>2, <2>4, <3>8 DEF Layout
  <2> QED BY <1>8, <2>6, <2>7 DEF WorkerBuild
<1>9. CASE WorkerSend(w)
  <2> DEFINE r == [blockID |-> wjob[w].blockID, n |-> wjob[w].n, err |-> werr[w]]
  <2>1. /\ UNCHANGED <<payloads, werr, wjob, workChan>>
        /\ wpc[w] = "send" /\ resultChan' = Append(resultChan, r)
        /\ wpc' = [wpc EXCEPT ![w] = IF werr[w] THEN "return" ELSE "recv"]
    BY <1>9 DEF WorkerSend
  <2>2. \A v \in Workers : wpc'[v] = wpc[v] \/ wpc'[v] \in {"return", "recv"}
    BY <1>t, <2>1
  <2>3. CountIs(r) /\ (~r.err => Written(start, r.blockID))
    BY <2>1 DEF Layout, PlacedInv, PlaceIs, CountIs, WrittenInv
  <2>4. \A i \in DOMAIN resultChan' :
          resultChan'[i] = r \/ (i \in DOMAIN resultChan /\ resultChan'[i] = resultChan[i])
    BY <1>t, <2>1 DEF Job, Result
  <2>5. /\ \A i \in DOMAIN resultChan' : CountIs(resultChan'[i])
        /\ \A i \in DOMAIN resultChan' :
              ~resultChan'[i].err => Written(start, resultChan'[i].blockID)
    BY <2>3, <2>4 DEF Layout, PlacedInv, WrittenInv
  <2>6. PlacedInv(start)'
    BY <1>0, <1>4, <2>1, <2>2, <2>5 DEF Layout, PlacedInv
  <2>7. WrittenInv(start)'
    BY <1>0, <1>3, <2>1, <2>2, <2>5 DEF Layout, WrittenInv
  <2> QED BY <1>1, <1>2, <2>6, <2>7 DEF Layout
<1> QED BY <1>5, <1>6, <1>7, <1>8, <1>9 DEF WorkerStep

(* The writer goroutine records each block right behind the ones before it; a
   failed write leaves one RAM index entry and one block hash too many, and stops
   the writer for good. *)
LEMMA WriterLayout ==
  ASSUME TypeOK, StageInv, WriterInv, NEW start \in Starts, Layout(start),
         WriterStep, UnchangedHere
  PROVE  Layout(start)'
<1> USE DEF iwVars, chanVars, ctxVars, workerVars, writerVars, mainVars
<1>0. /\ UNCHANGED <<blockID, size, keysBefore, job, pc, workChan, wpc, wjob,
                     werr, payloads, outcome>>
      /\ failed => failed'
  <2>1. UNCHANGED <<blockID, size, keysBefore, job, pc, workChan, wpc, wjob,
                    werr, payloads, outcome>>
    BY DEF UnchangedHere, inputVars, loopVars, WriterStep, WriterReceive, WriterEmit, WriterCancel,
       WriterClose
  <2>2. failed => failed'
    BY DEF WriterStep, WriterReceive, WriterEmit, WriterCancel, WriterClose
  <2> QED BY <2>1, <2>2
<1>1. StartsOf(start)'
  BY <1>0, StartsKept DEF Layout
<1>t. /\ resultChan \in Seq(Result) /\ reorder \in SUBSET Result
      /\ blockCount \in Nat /\ blockID \in Nat
      /\ ramIndex \in Seq(RamIndexEntry)
      /\ metadata \in Seq(BlockDataSet) /\ payloadHash \in Seq(BlockDataSet)
  BY NumTypes DEF TypeOK, PoolTypeOK, IWTypeOK
<1>3. ASSUME NEW b PROVE Written(start, b)' <=> Written(start, b)
  BY <1>0 DEF Written
<1>4. ASSUME NEW j PROVE /\ CountIs(j)' <=> CountIs(j)
                         /\ PlaceIs(start, j)' <=> PlaceIs(start, j)
  BY <1>0 DEF CountIs, PlaceIs
<1>5. CASE WriterReceive
  <2>1. /\ UNCHANGED <<blockCount, keyCount, metadata, payloadHash, ramIndex, failed>>
        /\ resultChan # <<>> /\ resultChan' = Tail(resultChan)
        /\ \/ reorder' = reorder
           \/ reorder' = reorder \cup {Head(resultChan)} /\ ~Head(resultChan).err
        /\ ~WriterStopped
    BY <1>5 DEF WriterReceive, WriterStopped
  <2>2. \A i \in DOMAIN resultChan' :
          i + 1 \in DOMAIN resultChan /\ resultChan'[i] = resultChan[i + 1]
    BY <1>t, <2>1
  <2>3. 1 \in DOMAIN resultChan /\ Head(resultChan) = resultChan[1]
    BY <1>t, <2>1
  <2>4. /\ \A i \in DOMAIN resultChan' : CountIs(resultChan'[i])
        /\ \A i \in DOMAIN resultChan' :
              ~resultChan'[i].err => Written(start, resultChan'[i].blockID)
    BY <2>2 DEF Layout, PlacedInv, WrittenInv
  <2>5. \A r \in reorder' : CountIs(r) /\ Written(start, r.blockID)
    BY <2>1, <2>3 DEF Layout, PlacedInv, WrittenInv
  <2>6. PlacedInv(start)'
    BY <1>0, <1>4, <2>4, <2>5 DEF Layout, PlacedInv
  <2>7. WrittenInv(start)'
    BY <1>0, <1>3, <2>1, <2>4, <2>5 DEF Layout, WrittenInv
  <2>8. CommitInv(start)'
    BY <1>0, <2>1 DEF Layout, CommitInv
  <2> QED BY <1>1, <2>6, <2>7, <2>8 DEF Layout
<1>6. CASE WriterEmit
  <2>1. PICK r \in reorder, ok \in BOOLEAN :
          /\ r.blockID = nextBlockID
          /\ reorder' = reorder \ {r}
          /\ FoldPayloadHash(r.blockID, r.n)
          /\ WriteMetadata(r.blockID, r.n, ok)
          /\ writerPc' = IF ok THEN WriterAt(reorder', nextBlockID') ELSE "cancel"
          /\ failed' = (failed \/ ~ok)
    BY <1>6 DEF WriterEmit
  <2>2. writerPc = "emit" /\ resultChan' = resultChan
    BY <1>6 DEF WriterEmit
  <2>3. /\ ~WriterStopped /\ outcome = "building" /\ Len(ramIndex) = blockCount
        /\ Len(payloadHash) = blockCount /\ Len(metadata) = blockCount
    BY <1>6, <2>2, WriterStepRunning DEF Layout, CommitInv
  <2>4. blockCount \in Blocks /\ blockCount < blockID /\ r.n = size[blockCount]
    <3>1. r.blockID = blockCount /\ CountIs(r) /\ r \in Result
      BY <1>t, <2>1 DEF WriterInv, Layout, PlacedInv
    <3> QED BY <3>1 DEF CountIs, Result
  <2>5. Written(start, blockCount)
    BY <2>1 DEF Layout, WrittenInv, WriterInv
  <2>6. PlacedInv(start)'
    BY <1>0, <1>4, <2>1, <2>2 DEF Layout, PlacedInv
  <2>7. /\ ramIndex' = Append(ramIndex, [keysBefore |-> keyCount, metadataOffset |-> Len(metadata)])
        /\ payloadHash' = Append(payloadHash, BlockData(blockCount, size[blockCount]))
        /\ keyCount = start[blockCount]
    BY <2>1, <2>4 DEF WriteMetadata, RecordAndWriteMetadata, CurrentEntry, FoldPayloadHash,
       WriterInv, Layout, CommitInv
  <2>8. /\ Len(ramIndex') = blockCount + 1 /\ Len(payloadHash') = blockCount + 1
        /\ \A i \in 1 .. Len(ramIndex') :
              ramIndex'[i].keysBefore = start[i - 1] /\ ramIndex'[i].metadataOffset = i - 1
        /\ \A b \in Blocks : b <= blockCount => payloadHash'[b + 1] = BlockData(b, size[b])
    <3>0. keyCount \in Nat
      BY DEF TypeOK, PoolTypeOK, IWTypeOK
    <3>1. Len(ramIndex') = blockCount + 1 /\ Len(payloadHash') = blockCount + 1
      BY <1>t, <2>3, <2>7
    <3>2. ASSUME NEW i \in 1 .. blockCount + 1
          PROVE  ramIndex'[i].keysBefore = start[i - 1] /\ ramIndex'[i].metadataOffset = i - 1
      <4>1. CASE i = blockCount + 1
        <5>1. ramIndex'[i] = [keysBefore |-> keyCount, metadataOffset |-> Len(metadata)]
          BY <1>t, <2>3, <2>7, <4>1
        <5> QED BY <1>t, <2>3, <2>7, <4>1, <5>1
      <4>2. CASE i # blockCount + 1
        <5>1. i \in 1 .. Len(ramIndex) /\ ramIndex'[i] = ramIndex[i]
          BY <1>t, <2>3, <2>7, <4>2
        <5> QED BY <5>1 DEF Layout, CommitInv
      <4> QED BY <4>1, <4>2
    <3>3. ASSUME NEW b \in Blocks, b <= blockCount
          PROVE  payloadHash'[b + 1] = BlockData(b, size[b])
      <4>1. CASE b = blockCount
        BY <1>t, <2>3, <2>7, <4>1
      <4>2. CASE b # blockCount
        <5>1. b < blockCount /\ payloadHash'[b + 1] = payloadHash[b + 1]
          BY <1>t, <2>3, <2>7, <3>3, <4>2 DEF Blocks
        <5> QED BY <5>1 DEF Layout, CommitInv
      <4> QED BY <4>1, <4>2
    <3> QED BY <3>1, <3>2, <3>3
  <2>9. CASE ok
    <3>1. /\ blockCount' = blockCount + 1 /\ keyCount' = keyCount + size[blockCount]
          /\ metadata' = Append(metadata, BlockData(blockCount, size[blockCount]))
      BY <2>1, <2>4, <2>9 DEF WriteMetadata, RecordAndWriteMetadata, Advance, WriterInv
    <3>2. Len(metadata') = blockCount + 1
      BY <1>t, <2>3, <3>1
    <3>3. ASSUME NEW b \in Blocks, b <= blockCount
          PROVE  metadata'[b + 1] = BlockData(b, size[b])
      <4>1. CASE b = blockCount
        BY <1>t, <2>3, <3>1, <4>1
      <4>2. CASE b # blockCount
        <5>1. b < blockCount /\ metadata'[b + 1] = metadata[b + 1]
          BY <1>t, <2>3, <3>1, <3>3, <4>2 DEF Blocks
        <5> QED BY <5>1 DEF Layout, CommitInv
      <4> QED BY <4>1, <4>2
    <3>4. keyCount' = start[blockCount + 1] /\ blockCount + 1 <= blockID
      <4>1. start[blockCount + 1] = start[blockCount] + size[blockCount]
        BY <2>4, RangeFits DEF Layout
      <4>2. keyCount' = start[blockCount + 1]
        BY <2>7, <3>1, <4>1
      <4>3. blockCount + 1 <= blockID
        BY <1>t, <2>4
      <4> QED BY <4>2, <4>3
    <3>5. \A b \in Blocks : b < blockCount' => b <= blockCount
      BY <1>t, <3>1 DEF Blocks
    <3>6. CommitInv(start)'
      <4>1. \A b \in Blocks : b < blockCount' =>
              /\ metadata'[b + 1] = BlockData(b, size[b])
              /\ payloadHash'[b + 1] = BlockData(b, size[b])
        BY <2>8, <3>3, <3>5
      <4>2. Len(payloadHash') = blockCount' /\ Len(payloadHash') >= blockCount'
        BY <1>t, <2>8, <3>1
      <4>3. blockCount' <= blockID' /\ keyCount' = start[blockCount']
        BY <1>0, <3>1, <3>4
      <4> QED BY <1>0, <2>8, <3>1, <3>2, <4>1, <4>2, <4>3 DEF CommitInv, Blocks
    <3>7. \A b \in Blocks : b < blockCount' => Written(start, b)
      <4>1. \A b \in Blocks : b <= blockCount => b = blockCount \/ b < blockCount
        BY <1>t DEF Blocks
      <4> QED BY <2>5, <3>5, <4>1 DEF Layout, WrittenInv
    <3>8. WrittenInv(start)'
      BY <1>0, <1>3, <2>1, <2>2, <3>7 DEF Layout, WrittenInv, Blocks
    <3> QED BY <1>1, <2>6, <3>6, <3>8 DEF Layout
  <2>10. CASE ~ok
    <3>1. UNCHANGED <<blockCount, keyCount, metadata>> /\ writerPc' = "cancel" /\ failed'
      BY <2>1, <2>10 DEF WriteMetadata, RecordAndWriteMetadata, Advance
    <3>2. \A b \in Blocks : b < blockCount => b <= blockCount
      BY <1>t DEF Blocks
    <3>3. CommitInv(start)'
      BY <1>0, <1>t, <2>8, <3>1, <3>2 DEF Layout, CommitInv, WriterStopped, Blocks
    <3>4. WrittenInv(start)'
      BY <1>0, <1>3, <2>1, <2>2, <3>1 DEF Layout, WrittenInv
    <3> QED BY <1>1, <2>6, <3>3, <3>4 DEF Layout
  <2> QED BY <2>9, <2>10
<1>7. CASE WriterCancel \/ WriterClose
  <2>1. UNCHANGED <<resultChan, reorder, blockCount, keyCount, metadata, payloadHash, ramIndex,
                    failed>>
    BY <1>7 DEF WriterCancel, WriterClose
  <2>2. WriterStopped'
    BY <1>7 DEF WriterCancel, WriterClose, WriterStopped
  <2>3. /\ pc' = "select" => job'.n = size[blockID'] /\ job'.keysBefore = start[blockID']
        /\ blockCount <= blockID'
    BY <1>0 DEF Layout, PlacedInv, CommitInv
  <2> QED BY <1>0, <1>1, <2>1, <2>2, <2>3, LayoutKept
<1> QED BY <1>5, <1>6, <1>7 DEF WriterStep

(* finalizeIndex adds the sentinel entry; the rest of the teardown only drops
   items. *)
LEMMA TeardownLayout ==
  ASSUME TypeOK, StageInv, FailureInv, NEW start \in Starts, Layout(start), TeardownStep,
         UnchangedHere
  PROVE  Layout(start)'
<1> USE DEF iwVars, chanVars, ctxVars, workerVars, writerVars, mainVars
<1>0. /\ UNCHANGED <<blockID, size, keysBefore, job, wpc, wjob, werr, resultChan,
                     reorder, payloads, blockCount, keyCount, metadata, payloadHash, failed,
                     writerPc>>
      /\ pc' # "select" /\ outcome = "building"
  BY DEF UnchangedHere, inputVars, loopVars, TeardownStep, ShutdownWait, ShutdownWriter, Drain,
     DrainWait, DrainWriter, Cleanup, CloseAndRemove, FinalizeIndex, Finalize, StageInv
<1>1. CASE ShutdownWait
  <2>1. workChan' = <<>> /\ UNCHANGED <<ramIndex, outcome>>
    BY <1>1 DEF ShutdownWait
  <2>2. StartsOf(start)'
    BY <1>0, TeardownFrame, StartsKept DEF Layout
  <2>3. PlacedInv(start)'
    BY <1>0, <2>1 DEF Layout, PlacedInv, CountIs, PlaceIs
  <2>4. WrittenInv(start)'
    BY <1>0 DEF Layout, WrittenInv, Written
  <2>5. CommitInv(start)'
    BY <1>0, <2>1 DEF Layout, CommitInv, WriterStopped
  <2> QED BY <2>2, <2>3, <2>4, <2>5 DEF Layout
<1>2. CASE FinalizeIndex
  <2>1. /\ workChan' = workChan
        /\ ramIndex' = Append(ramIndex, [keysBefore |-> keyCount, metadataOffset |-> Len(metadata)])
        /\ pc = "finalize" /\ outcome' # "building"
    BY <1>2 DEF FinalizeIndex, Finalize, CurrentEntry
  <2>2. StartsOf(start)'
    BY <1>0, TeardownFrame, StartsKept DEF Layout
  <2>3. PlacedInv(start)'
    BY <1>0, <2>1 DEF Layout, PlacedInv, CountIs, PlaceIs
  <2>4. WrittenInv(start)'
    BY <1>0 DEF Layout, WrittenInv, Written
  <2>5. WriterStopped /\ Len(ramIndex) = blockCount
    BY <1>0, <2>1, FinalizeUnfailed DEF Layout, CommitInv, StageInv
  <2>t. ramIndex \in Seq(RamIndexEntry) /\ blockCount \in Nat
    BY DEF TypeOK, PoolTypeOK, IWTypeOK
  <2>6. Len(ramIndex') = blockCount + 1
    BY <2>1, <2>5, <2>t
  <2>7. ASSUME NEW i \in 1 .. blockCount + 1
        PROVE  ramIndex'[i].keysBefore = start[i - 1] /\ ramIndex'[i].metadataOffset = i - 1
    <3>1. CASE i = blockCount + 1
      <4>1. ramIndex'[i] = [keysBefore |-> keyCount, metadataOffset |-> Len(metadata)]
        BY <2>1, <2>5, <2>t, <3>1
      <4>2. keyCount = start[blockCount] /\ Len(metadata) = blockCount
        BY DEF Layout, CommitInv
      <4> QED BY <2>t, <3>1, <4>1, <4>2
    <3>2. CASE i # blockCount + 1
      <4>1. i \in 1 .. Len(ramIndex) /\ ramIndex'[i] = ramIndex[i]
        BY <2>1, <2>5, <2>t, <3>2
      <4> QED BY <4>1 DEF Layout, CommitInv
    <3> QED BY <3>1, <3>2
  <2>8. CommitInv(start)'
    BY <1>0, <2>1, <2>5, <2>6, <2>7 DEF Layout, CommitInv, WriterStopped
  <2> QED BY <2>2, <2>3, <2>4, <2>8 DEF Layout
<1>3. CASE ShutdownWriter \/ Drain \/ DrainWait \/ DrainWriter
  <2>1. UNCHANGED <<workChan, ramIndex>>
    BY <1>3 DEF ShutdownWriter, Drain, DrainWait, DrainWriter, Cleanup, CloseAndRemove
  <2>2. WriterStopped => WriterStopped'
    BY <1>0 DEF WriterStopped
  <2>3. StartsOf(start)' /\ blockCount <= blockID'
    BY <1>0, TeardownFrame, StartsKept DEF Layout, CommitInv
  <2> QED BY <1>0, <2>1, <2>2, <2>3, LayoutKept
<1> QED BY <1>1, <1>2, <1>3 DEF TeardownStep

(* A step of the loop that dispatches nothing keeps the layout; blockID moves only
   past the last block. *)
LEMMA LoopLayout ==
  ASSUME TypeOK, ChannelInv, FilesInv, LoopInv, NEW start \in Starts, Layout(start),
         FinishStep, ~SelectSend
  PROVE  Layout(start)'
<1> USE DEF iwVars, chanVars, ctxVars, workerVars, writerVars, mainVars, loopVars, inputVars
<1>1. UNCHANGED <<size, workChan, wpc, wjob, werr, resultChan, reorder, payloads, blockCount,
                  keyCount, metadata, payloadHash, ramIndex, writerPc, failed, outcome>>
  BY FinishFrame
<1>2. PICK k \in Nat : k = blockID
  BY DEF TypeOK
<1>3. WriterStopped => WriterStopped'
  BY <1>1 DEF WriterStopped
<1>4. blockCount \in Nat /\ blockCount <= k /\ CountsAddUp(start) /\ CountsAddUp(start)'
  BY <1>1, <1>2 DEF TypeOK, PoolTypeOK, IWTypeOK, Layout, CommitInv, StartsOf, CountsAddUp
<1>5. CASE PrepareBlock
  <2>1. /\ pc = "block" /\ pc' = "select" /\ blockID' = k /\ k \in Blocks
        /\ job'.n = size[k] /\ job'.keysBefore = keysBefore
        /\ keysBefore' = keysBefore + size[k]
    BY <1>2, <1>5 DEF PrepareBlock, BlockLeft
  <2>2. keysBefore = start[k] /\ start[k + 1] = start[k] + size[k]
    BY <1>2, <2>1, RangeFits DEF Layout, StartsOf
  <2>3. StartsOf(start)'
    BY <1>2, <1>4, <2>1, <2>2 DEF Layout, StartsOf
  <2> QED BY <1>1, <1>2, <1>3, <1>4, <2>1, <2>2, <2>3, LayoutKept
<1>6. CASE ReceivePartition
  <2>1. PICK m \in Nat : m = part * blocksPerPart
    BY ConstantTypes DEF TypeOK
  <2>2. path = "files" /\ pc = "partition" /\ keysBefore' = keysBefore
    BY <1>6 DEF ReceivePartition, FilesInv, TypeOK
  <2>3. k = m \/ (NumBlocks <= k /\ k <= m)
    BY <1>2, <2>1, <2>2 DEF LoopInv
  <2>4. \/ blockID' = k /\ pc' = "failWait"
        \/ blockID' = m /\ pc' = "block"
    BY <1>2, <1>6, <2>1 DEF ReceivePartition, Fail
  <2>5. CASE blockID' = k
    <3>1. StartsOf(start)'
      BY <1>2, <1>4, <2>2, <2>4, <2>5 DEF Layout, StartsOf
    <3> QED BY <1>1, <1>2, <1>3, <1>4, <2>4, <2>5, <3>1, LayoutKept
  <2>6. CASE blockID' = m /\ pc' = "block" /\ NumBlocks <= k /\ k <= m
    <3>1. \A c \in 0 .. NumBlocks : c <= k
      BY <2>6, ConstantTypes
    <3>2. m \notin Blocks
      BY <2>6, ConstantTypes
    <3>3. StartsOf(start)'
      BY <1>2, <1>4, <2>6, <3>1, <3>2 DEF Layout, StartsOf
    <3>4. (\A b \in Nat : b < blockID => b < blockID') /\ blockCount <= blockID'
      BY <1>2, <1>4, <2>6
    <3> QED BY <1>1, <1>3, <2>6, <3>3, <3>4, LayoutKept
  <2> QED BY <2>3, <2>4, <2>5, <2>6
<1>7. CASE ~PrepareBlock /\ ~ReceivePartition
  <2>1. /\ UNCHANGED <<blockID, keysBefore>>
        /\ \/ pc' \notin {"partition", "block", "select"}
           \/ pc = "block" /\ pc' = "partition"
    BY <1>7 DEF FinishStep, ReceiveGivesUp, PollGivesUp, PartitionDispatched, SelectGivesUp,
       AllPartitionsDispatched, AllBlocksDispatched, FailWait, Fail, Cleanup
  <2>2. StartsOf(start)'
    BY <1>2, <1>4, <2>1 DEF Layout, StartsOf
  <2> QED BY <1>1, <1>2, <1>3, <1>4, <2>1, <2>2, LayoutKept
<1> QED BY <1>5, <1>6, <1>7

(* The item the loop sends is the one it computed, and the sums grow by its count. *)
LEMMA SendLayout ==
  ASSUME TypeOK, LoopInv, NEW start \in Starts, Layout(start), SelectSend
  PROVE  Layout(start)'
<1> USE DEF iwVars, chanVars, ctxVars, workerVars, writerVars, mainVars, inputVars
<1>1. /\ UNCHANGED <<size, keysBefore, wpc, wjob, werr, resultChan, reorder, payloads, blockCount,
                     keyCount, metadata, payloadHash, ramIndex, failed, writerPc, outcome>>
      /\ pc = "select" /\ pc' = "block" /\ workChan' = Append(workChan, job)
      /\ blockID' = blockID + 1
  BY DEF SelectSend, DispatchSend
<1>2. PICK k \in Nat : k = blockID
  BY DEF TypeOK
<1>3. /\ workChan \in Seq(Job) /\ job \in Job /\ blockCount \in Nat
      /\ wjob \in [Workers -> Job] /\ resultChan \in Seq(Result) /\ reorder \in SUBSET Result
  BY DEF TypeOK, PoolTypeOK, IWTypeOK
<1>4. /\ k \in Blocks /\ job.blockID = k /\ job.n = size[k] /\ job.keysBefore = start[k]
      /\ keysBefore = start[k + 1]
  BY <1>1, <1>2 DEF LoopInv, Layout, PlacedInv, StartsOf
<1>5. ASSUME NEW b \in Blocks, b < blockID PROVE b < blockID'
  BY <1>1, <1>2, <1>5, ConstantTypes
<1>6. \A i \in DOMAIN workChan' :
        workChan'[i] = job \/ (i \in DOMAIN workChan /\ workChan'[i] = workChan[i])
  BY <1>1, <1>3
<1>7. PlacedInv(start)'
  <2>1. /\ \A i \in DOMAIN workChan : workChan[i].blockID \in Blocks
        /\ \A w \in Workers : wjob[w].blockID \in Blocks
        /\ \A i \in DOMAIN resultChan : resultChan[i].blockID \in Blocks
        /\ \A r \in reorder : r.blockID \in Blocks
    <3>1. /\ \A i \in DOMAIN workChan : workChan[i] \in Job
          /\ \A w \in Workers : wjob[w] \in Job
          /\ \A i \in DOMAIN resultChan : resultChan[i] \in Result
          /\ \A r \in reorder : r \in Result
      BY <1>3
    <3> QED BY <3>1 DEF Job, Result
  <2>2. ASSUME NEW i \in DOMAIN workChan'
        PROVE  /\ workChan'[i].blockID < blockID' /\ workChan'[i].n = size[workChan'[i].blockID]
               /\ workChan'[i].keysBefore = start[workChan'[i].blockID]
    <3>1. CASE workChan'[i] = job
      BY <1>1, <1>2, <1>4, <3>1
    <3>2. CASE i \in DOMAIN workChan /\ workChan'[i] = workChan[i]
      BY <1>5, <2>1, <3>2 DEF Layout, PlacedInv, PlaceIs, CountIs
    <3> QED BY <1>6, <3>1, <3>2
  <2>3. \A w \in Workers : wpc[w] \in {"check", "build", "send"} =>
          /\ wjob[w].blockID < blockID' /\ wjob[w].n = size[wjob[w].blockID]
          /\ wjob[w].keysBefore = start[wjob[w].blockID]
    BY <1>5, <2>1 DEF Layout, PlacedInv, PlaceIs, CountIs
  <2>4. /\ \A i \in DOMAIN resultChan :
              resultChan[i].blockID < blockID' /\ resultChan[i].n = size[resultChan[i].blockID]
        /\ \A r \in reorder : r.blockID < blockID' /\ r.n = size[r.blockID]
    BY <1>5, <2>1 DEF Layout, PlacedInv, CountIs
  <2> QED BY <1>1, <2>2, <2>3, <2>4 DEF PlacedInv, PlaceIs, CountIs
<1>8. StartsOf(start)'
  <2>1. CountsAddUp(start) /\ CountsAddUp(start)'
    BY <1>1 DEF Layout, StartsOf, CountsAddUp
  <2>2. /\ start[k] \in Nat /\ size[k] \in Nat /\ start[k + 1] = start[k] + size[k]
    BY <1>4, RangeFits DEF Layout
  <2>3. ASSUME NEW b \in 0 .. NumBlocks, NEW c \in 0 .. NumBlocks, b <= c, c <= k + 1
        PROVE  start[b] <= start[c]
    <3>0. start[b] \in Nat /\ start[c] \in Nat
      BY ConstantTypes DEF Starts
    <3>1. CASE c <= k
      BY <1>2, <2>3, <3>1 DEF Layout, StartsOf
    <3>2. CASE c = k + 1 /\ b = k + 1
      BY <3>0, <3>2
    <3>3. CASE c = k + 1 /\ b <= k
      <4>1. start[b] <= start[k]
        <5>1. k \in 0 .. NumBlocks /\ k <= k
          BY <1>4, ConstantTypes
        <5> QED BY <1>2, <3>3, <5>1 DEF Layout, StartsOf
      <4> QED BY <2>2, <3>0, <3>3, <4>1
    <3> QED BY <2>3, <3>1, <3>2, <3>3, ConstantTypes
  <2> QED BY <1>1, <1>2, <1>4, <2>1, <2>3 DEF StartsOf
<1>9. WrittenInv(start)'
  BY <1>1 DEF Layout, WrittenInv, Written
<1>10. CommitInv(start)'
  <2>1. blockCount <= blockID'
    BY <1>1, <1>2, <1>3 DEF Layout, CommitInv
  <2> QED BY <1>1, <2>1 DEF Layout, CommitInv, WriterStopped
<1> QED BY <1>7, <1>8, <1>9, <1>10 DEF Layout

(* Every step keeps the layout. *)
LEMMA LayoutStep ==
  ASSUME ReadersInv, StageInv, FailureInv, WriterInv, LayoutInv, [Next]_vars
  PROVE  LayoutInv'
<1>1. PICK start \in Starts : Layout(start)
  BY DEF LayoutInv
<1>2. CASE Quiet
  <2>1. /\ UNCHANGED <<size, workChan, wpc, wjob, werr, resultChan, reorder, payloads, blockCount,
                       keyCount, metadata, payloadHash, ramIndex, writerPc, failed, outcome>>
        /\ UNCHANGED <<blockID, keysBefore, job, pc>>
    BY <1>2, QuietFrame DEF iwVars, chanVars, workerVars, writerVars, mainVars, inputVars, loopVars
  <2>2. StartsOf(start)'
    BY <1>1, <2>1, StartsKept DEF Layout
  <2>3. /\ pc' = "select" => job'.n = size[blockID'] /\ job'.keysBefore = start[blockID']
        /\ blockCount <= blockID' /\ (WriterStopped => WriterStopped')
    BY <1>1, <2>1 DEF Layout, PlacedInv, CommitInv, WriterStopped
  <2>4. TypeOK
    BY DEF ReadersInv
  <2>5. Layout(start)'
    BY <1>1, <2>1, <2>2, <2>3, <2>4, LayoutKept
  <2> QED BY <2>5 DEF LayoutInv, Starts
<1>3. CASE ~Quiet
  <2>1. Layout(start)'
    BY <1>1, <1>3, StepCases, WorkerLayout, WriterLayout, TeardownLayout, LoopLayout, SendLayout
    DEF ReadersInv
  <2> QED BY <2>1 DEF LayoutInv, Starts
<1> QED BY <1>2, <1>3

--------------------------------------------------------------------------------
(* What a Finish that returned nil leaves behind. *)

(* When Finish returns nil the file has been finalized with every block in it. *)
LEMMA OkStep ==
  ASSUME ReadersInv, PipelineInv, LayoutInv, OkInv, [Next]_vars
  PROVE  OkInv'
<1> USE DEF iwVars, chanVars, ctxVars, workerVars, writerVars, mainVars
<1>t. TypeOK /\ ChannelInv /\ StageInv /\ FailureInv /\ WriterInv /\ ExitInv /\ BlocksInv
  BY DEF ReadersInv, PipelineInv
<1>1. CASE FinalizeIndex
  <2>1. PICK start \in Starts : Layout(start)
    BY DEF LayoutInv
  <2>2. pc = "finalize" /\ UNCHANGED <<blockCount, keyCount, failed>>
        /\ (outcome' = "ok" => output' = "final")
        /\ ramIndex' = Append(ramIndex, CurrentEntry)
    BY <1>1 DEF FinalizeIndex, Finalize
  <2>3. blockCount = NumBlocks /\ ~failed /\ outcome = "building"
    BY <1>t, <2>2, AllCommitted, FinalizeUnfailed DEF StageInv
  <2>4. Len(ramIndex') = NumBlocks + 1
    <3>1. Len(ramIndex) = NumBlocks /\ ramIndex \in Seq(RamIndexEntry)
      BY <1>t, <2>1, <2>3 DEF Layout, CommitInv, TypeOK, PoolTypeOK, IWTypeOK
    <3>2. Len(Append(ramIndex, CurrentEntry)) = Len(ramIndex) + 1
      BY <3>1
    <3> QED BY <2>2, <3>1, <3>2
  <2>5. keyCount = TotalKeys
    BY <2>1, <2>3 DEF Layout, CommitInv, StartsOf, CountsAddUp
  <2> QED BY <2>2, <2>3, <2>4, <2>5 DEF OkInv
<1>2. CASE ~FinalizeIndex
  <2>1. outcome' = "ok" => outcome = "ok"
    <3>1. ASSUME TeardownStep PROVE outcome' = "ok" => outcome = "ok"
      BY <1>2, <3>1 DEF TeardownStep, ShutdownWait, ShutdownWriter, Drain, DrainWait, DrainWriter,
         Cleanup
    <3> QED BY <1>t, <3>1, StepCases, QuietFrame, FinishFrame, WorkerFrame, WriterFrame
  <2>2. ASSUME outcome = "ok" PROVE UNCHANGED <<output, blockCount, keyCount, ramIndex, failed>>
    <3>1. pc = "idle" /\ resultClosed /\ WriterStopped
      BY <1>t, <2>2 DEF StageInv
    <3>2. ASSUME NEW w \in Workers, WorkerStep(w) PROVE FALSE
      BY <1>t, <3>1, <3>2, WorkerStepOpen
    <3>3. ~WriterEmit /\ ~WriterReceive
      BY <3>1 DEF WriterEmit, WriterReceive, WriterStopped
    <3>4. ~TeardownStep /\ ~FinishStep
      BY <1>t, <3>1, FinishFrame DEF TeardownStep, ShutdownWait, ShutdownWriter, Drain, DrainWait,
         DrainWriter, FinalizeIndex
    <3>5. CASE Quiet
      BY <3>5, QuietFrame
    <3>6. CASE WriterStep
      BY <3>3, <3>6 DEF WriterStep, WriterCancel, WriterClose
    <3> QED BY <3>2, <3>4, <3>5, <3>6, StepCases
  <2> QED BY <2>1, <2>2 DEF OkInv
<1> QED BY <1>1, <1>2

(* The invariant of the index holds initially. *)
LEMMA InitIndexInv == Init => IndexInv
<1> SUFFICES ASSUME Init PROVE IndexInv
  OBVIOUS
<1>1. StageInv /\ FailureInv
  BY DEF Init, PoolInit, StageInv, FailureInv, WriterStopped
<1>2. WriterInv /\ ExitInv
  BY ConstantTypes DEF Init, PoolInit, IWInit, WriterInv, WriterStopped, NextIsReady, ExitInv
<1>3. BlocksInv
  BY ConstantTypes DEF Init, BlocksInv, Draining
<1>4. LayoutInv
  <2>1. PICK start \in Starts : CountsAddUp(start)
    BY DEF Init, Starts
  <2>2. 0 \in 0 .. NumBlocks /\ start[0] = 0
    BY <2>1, ConstantTypes DEF CountsAddUp
  <2>3. blockID = 0 /\ keysBefore = 0 /\ pc # "select"
    BY DEF Init
  <2>4. ASSUME NEW b \in 0 .. NumBlocks, NEW c \in 0 .. NumBlocks, b <= c, c <= blockID
        PROVE  start[b] <= start[c]
    <3>1. b = 0 /\ c = 0
      BY <2>3, <2>4, ConstantTypes
    <3> QED BY <2>2, <3>1
  <2>5. StartsOf(start)
    BY <2>1, <2>2, <2>3, <2>4 DEF StartsOf
  <2>6. PlacedInv(start) /\ WrittenInv(start)
    BY <2>3, ConstantTypes DEF Init, PoolInit, IWInit, PlacedInv, WrittenInv
  <2>7. CommitInv(start)
    BY <2>2, <2>3, ConstantTypes DEF Init, PoolInit, IWInit, CommitInv
  <2> QED BY <2>5, <2>6, <2>7 DEF LayoutInv, Layout
<1>5. OkInv
  BY DEF Init, PoolInit, OkInv
<1> QED BY <1>1, <1>2, <1>3, <1>4, <1>5, InitReadersInv DEF IndexInv, PipelineInv

(* Every step keeps the invariant of the index. *)
LEMMA NextIndexInv == IndexInv /\ [Next]_vars => IndexInv'
<1> SUFFICES ASSUME IndexInv, [Next]_vars PROVE IndexInv'
  OBVIOUS
<1>1. /\ ReadersInv /\ TypeOK /\ ChannelInv /\ FilesInv /\ LoopInv /\ PipelineInv
      /\ StageInv /\ FailureInv /\ WriterInv /\ ExitInv /\ BlocksInv /\ LayoutInv /\ OkInv
  BY DEF IndexInv, PipelineInv, ReadersInv
<1>2. ReadersInv' /\ StageInv' /\ FailureInv' /\ WriterInv' /\ ExitInv'
  BY <1>1, NextReadersInv, StageInvStep, FailureInvStep, WriterInvStep, ExitInvStep
<1>3. BlocksInv' /\ LayoutInv' /\ OkInv'
  BY <1>1, BlocksInvStep, LayoutStep, OkStep
<1> QED BY <1>2, <1>3 DEF IndexInv, PipelineInv

(* The record between two consecutive offsets of a region. *)
LEMMA SubSeqSingle ==
  ASSUME NEW S, NEW s \in Seq(S), NEW k \in 1 .. Len(s)
  PROVE  SubSeq(s, k, k) = <<s[k]>>
<1>1. SubSeq(s, k, k) \in Seq(S) /\ Len(SubSeq(s, k, k)) = 1
  OBVIOUS
<1>2. SubSeq(s, k, k)[1] = s[k]
  OBVIOUS
<1>3. <<s[k]>> \in Seq(S) /\ Len(<<s[k]>>) = 1 /\ <<s[k]>>[1] = s[k]
  OBVIOUS
<1>4. \A i \in 1 .. Len(SubSeq(s, k, k)) : SubSeq(s, k, k)[i] = <<s[k]>>[i]
  BY <1>1, <1>2, <1>3
<1> QED BY <1>1, <1>3, <1>4, SeqEqual

(* When Finish of an unsorted build returns nil the file holds every key of every
   block, from the partition files or from memory: every block once and in order, its
   key range, metadata record, payload cells and block hash where a reader looks for
   them (finishUnsortedParallel, finishUnsortedFastPath, runWorker, runWriter). *)
THEOREM ReadersIndexCorrect == Spec => []IndexCorrect
<1>1. IndexInv => IndexCorrect
  <2> SUFFICES ASSUME IndexInv, outcome = "ok"
               PROVE  output = "final" /\ IndexHolds(size)
    BY DEF IndexCorrect
  <2>1. PICK start \in Starts : Layout(start)
    BY DEF IndexInv, LayoutInv
  <2>2. /\ output = "final" /\ blockCount = NumBlocks /\ keyCount = TotalKeys /\ ~failed
        /\ Len(ramIndex) = NumBlocks + 1
    BY DEF IndexInv, OkInv
  <2>3. TypeOK /\ NumBlocks \in Nat
    BY ConstantTypes DEF IndexInv, ReadersInv
  <2>4. /\ Len(metadata) = NumBlocks /\ Len(payloadHash) = NumBlocks
        /\ metadata \in Seq(BlockDataSet) /\ payloadHash \in Seq(BlockDataSet)
    BY <2>1, <2>2, <2>3 DEF Layout, CommitInv, TypeOK, PoolTypeOK, IWTypeOK
  <2>5. \A i \in 1 .. NumBlocks + 1 :
          ramIndex[i].keysBefore = start[i - 1] /\ ramIndex[i].metadataOffset = i - 1
    BY <2>1, <2>2 DEF Layout, CommitInv
  <2>6. ramIndex[1].keysBefore = 0
    BY <2>1, <2>3, <2>5 DEF Layout, StartsOf, CountsAddUp
  <2>7. ASSUME NEW b \in Blocks
        PROVE  /\ ramIndex[b + 2].keysBefore = ramIndex[b + 1].keysBefore + size[b]
               /\ SubSeq(metadata, ramIndex[b + 1].metadataOffset + 1,
                         ramIndex[b + 2].metadataOffset) = <<BlockData(b, size[b])>>
               /\ \A i \in ramIndex[b + 1].keysBefore .. ramIndex[b + 2].keysBefore - 1 :
                     payloads[i] = b
    <3>1. b \in Nat /\ b < NumBlocks /\ b + 1 \in 1 .. NumBlocks + 1 /\ b + 2 \in 1 .. NumBlocks + 1
      BY <2>3, ConstantTypes
    <3>2. /\ ramIndex[b + 1].keysBefore = start[b] /\ ramIndex[b + 1].metadataOffset = b
          /\ ramIndex[b + 2].keysBefore = start[b + 1]
          /\ ramIndex[b + 2].metadataOffset = b + 1
      BY <2>5, <3>1
    <3>3. start[b] \in Nat /\ size[b] \in Nat /\ start[b + 1] = start[b] + size[b]
      BY <2>1, <2>3, RangeFits DEF Layout
    <3>4. metadata[b + 1] = BlockData(b, size[b])
      BY <2>1, <2>2, <3>1 DEF Layout, CommitInv
    <3>5. SubSeq(metadata, b + 1, b + 1) = <<metadata[b + 1]>>
      BY <2>3, <2>4, <3>1, SubSeqSingle
    <3>6. \A i \in start[b] .. start[b + 1] - 1 : payloads[i] = b
      <4>1. Written(start, b)
        BY <2>1, <2>2, <3>1 DEF Layout, WrittenInv
      <4> QED BY <3>3, <4>1 DEF Written
    <3> QED BY <3>2, <3>3, <3>4, <3>5, <3>6
  <2>8. payloadHash = [i \in 1 .. NumBlocks |-> BlockData(i - 1, size[i - 1])]
    <3>1. ASSUME NEW i \in 1 .. NumBlocks PROVE payloadHash[i] = BlockData(i - 1, size[i - 1])
      <4>1. i - 1 \in Blocks /\ i - 1 < NumBlocks /\ (i - 1) + 1 = i
        BY <2>3, ConstantTypes
      <4> QED BY <2>1, <2>2, <4>1 DEF Layout, CommitInv
    <3>2. payloadHash = [i \in 1 .. NumBlocks |-> payloadHash[i]]
      BY <2>3, <2>4
    <3> QED BY <3>1, <3>2
  <2> QED BY <2>2, <2>6, <2>7, <2>8 DEF IndexHolds
<1> QED BY <1>1, InitIndexInv, NextIndexInv, PTL DEF Spec

(* No failure is swallowed: when Finish returns nil, no block failed to build, to be
   written or to be recorded - although the error of a worker may only be seen through
   the errgroup, and the error of the writer only through writerDone. *)
THEOREM ReadersSwallowNoFailure == Spec => []FailureNotSwallowed
<1>1. IndexInv => FailureNotSwallowed
  BY DEF IndexInv, OkInv, FailureNotSwallowed
<1> QED BY <1>1, InitIndexInv, NextIndexInv, PTL DEF Spec

(* Every step of Finish is a step of the abstract build, or none. *)
LEMMA StepRefines ==
  ASSUME IndexInv, [Next]_vars
  PROVE  [Outcome!Next]_(Outcome!outcomeVars)
<1> USE DEF iwVars, chanVars, ctxVars, workerVars, writerVars, mainVars
<1> SUFFICES Outcome!Next \/ UNCHANGED <<blockCount, outcome, output>>
  BY DEF Outcome!outcomeVars
<1>t. TypeOK /\ ChannelInv /\ StageInv /\ WriterInv /\ ExitInv /\ BlocksInv
  BY DEF IndexInv, ReadersInv, PipelineInv
<1>1. CASE Quiet \/ FinishStep
  BY <1>1, <1>t, QuietFrame, FinishFrame
<1>2. ASSUME NEW w \in Workers, WorkerStep(w)
      PROVE  UNCHANGED <<blockCount, outcome, output>>
  BY <1>2 DEF WorkerStep, WorkerReceive, WorkerFinish, WorkerExit, WorkerCancelled,
     WorkerAddKeys, WorkerBuild, WorkerSend, WorkerSendCancelled, WorkerReturnErr
<1>3. ASSUME WriterStep PROVE Outcome!Commit \/ UNCHANGED <<blockCount, outcome, output>>
  <2>1. CASE WriterEmit
    <3>1. outcome = "building"
      BY <1>t, <2>1, WriterStepRunning
    <3>2. UNCHANGED <<outcome, output>>
      BY <2>1 DEF WriterEmit
    <3>3. blockCount' \in {blockCount, blockCount + 1}
      BY <2>1 DEF WriterEmit, WriteMetadata, Advance
    <3>4. blockCount < NumBlocks
      BY <1>t, <2>1, ConstantTypes DEF WriterEmit, WriterInv, TypeOK, PoolTypeOK, Result
    <3> QED BY <3>1, <3>2, <3>3, <3>4 DEF Outcome!Commit
  <2>2. CASE ~WriterEmit
    BY <1>3, <2>2 DEF WriterStep, WriterReceive, WriterCancel, WriterClose
  <2> QED BY <2>1, <2>2
<1>4. ASSUME TeardownStep
      PROVE  Outcome!Abort \/ Outcome!Succeed \/ UNCHANGED <<blockCount, outcome, output>>
  <2>0. outcome = "building"
    BY <1>4, <1>t DEF StageInv, TeardownStep, ShutdownWait, ShutdownWriter, Drain,
       DrainWait, DrainWriter, FinalizeIndex
  <2>1. CASE ShutdownWait \/ Drain \/ DrainWait
    BY <2>1 DEF ShutdownWait, Drain, DrainWait
  <2>2. CASE ShutdownWriter
    BY <2>0, <2>2 DEF ShutdownWriter, CloseAndRemove, Outcome!Abort
  <2>3. CASE DrainWriter
    BY <1>t, <2>0, <2>3, DrainOutcome DEF Outcome!Abort
  <2>4. CASE FinalizeIndex
    <3>1. blockCount = NumBlocks
      BY <1>t, <2>4, AllCommitted DEF FinalizeIndex
    <3> QED BY <2>0, <2>4, <3>1 DEF FinalizeIndex, Finalize, Outcome!Abort, Outcome!Succeed
  <2> QED BY <1>4, <2>1, <2>2, <2>3, <2>4 DEF TeardownStep
<1> QED BY <1>1, <1>2, <1>3, <1>4, StepCases DEF Outcome!Next

(* Finish of an unsorted build implements the abstract build: blocks are committed one
   by one in order, Finish returns nil only when all of them are - although readers,
   workers, writer and the finishing goroutine may each give up first - and every
   other end removes the file. *)
THEOREM ReadersRefineBuildOutcome == Spec => ImplementsBuildOutcome
<1>1. Init => Outcome!Init
  BY DEF Init, PoolInit, IWInit, Outcome!Init
<1> QED BY <1>1, InitIndexInv, NextIndexInv, StepRefines, PTL DEF Spec, ImplementsBuildOutcome, Outcome!Spec

================================================================================
