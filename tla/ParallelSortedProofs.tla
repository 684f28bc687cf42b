-------------------------- MODULE ParallelSortedProofs --------------------------
(***************************************************************************)
(* Proofs about the parallel sorted build, for any number of blocks, keys, *)
(* workers and AddKey calls and any channel capacity.                      *)
(***************************************************************************)
EXTENDS ParallelSorted, FiniteSetTheorems, TLAPS

(* The work items of a sorted build carry no fence. *)
Unfenced ==
    /\ \A i \in DOMAIN workChan : workChan[i].fence = NoFence
    /\ \A w \in Workers : wjob[w].fence = NoFence
    /\ job.fence = NoFence

TypeInv == TypeOK /\ Unfenced

(* Where addKeyParallel and finishParallel stand in the sequence of blocks: the
   accumulated block is the next to dispatch, blocks are dispatched only up to
   the one the latest key routes to, and a dispatched block gets no more keys. *)
OrderInv ==
    /\ op = "add" /\ pc \in {"next", "select"} => target = lastBlockID
    /\ op = "add" => nextBlockToWrite <= lastBlockID \/ nextBlockToWrite = 0
    /\ ~firstKey => currentBlockIdx <= lastBlockID
    /\ pendingEntries > 0 => ~firstKey /\ nextBlockToWrite = currentBlockIdx
    /\ ~firstKey /\ pendingEntries = 0 =>
          /\ currentBlockIdx < nextBlockToWrite
          /\ op = "add" => currentBlockIdx < lastBlockID

(* Who has closed which channel, where the dispatching goroutine is, and who may
   still use the file. *)
WriterStopped == writerPc \in {"cancel", "close", "exit"}
ChannelInv ==
    /\ workClosed = workersShutDown
    /\ pc \in {"next", "select", "drain"} => ~workersShutDown
    /\ pc = "idle" /\ ~closed => ~workersShutDown
    /\ pc \in {"drainWait", "drainWriter", "finalize", "shutWait", "shutWriter"} =>
          workersShutDown
    /\ pc \in {"next", "select"} => (closed <=> op = "finish")
    /\ pc \in {"drain", "drainWait", "drainWriter", "finalize"} => op = "finish"
    /\ op = "finish" \/ pc \notin {"idle", "next", "select"} => closed
    /\ resultClosed => AllWorkersExited /\ workersShutDown
    /\ pc \in {"drainWait", "shutWait"} => ~resultClosed
    /\ pc \in {"drainWriter", "finalize", "shutWriter"} => resultClosed
    /\ writerDone \/ writerClosed \/ pc = "finalize" => WriterStopped
    /\ writerClosed => writerPc = "exit"
    /\ ~fileOpen => resultClosed /\ WriterStopped
    /\ outcome # "building" => ~fileOpen /\ pc = "idle" /\ closed

(* The build is being, or has been, torn down. *)
Aborting == pc \in {"shutWait", "shutWriter"} \/ outcome = "failed"

(* A failure leaves a trace that Finish must meet. *)
FailureInv ==
    /\ failed => \/ groupErr # "none" \/ writerDone \/ writerErr \/ Aborting
                 \/ \E w \in Workers : wpc[w] \in {"send", "return"} /\ werr[w]
    /\ op = "finish" => ~writerErr \/ Aborting
    /\ pc = "finalize" => groupErr = "none" /\ ~writerDone /\ writerPc = "exit"
    /\ outcome = "ok" => ~failed

(* The writer commits blocks in order, and stops either with an error somebody
   has seen or will see, or with nothing left to receive or to emit. *)
NextIsReady == \E r \in reorder : r.blockID = nextBlockID
WriterInv ==
    /\ nextBlockID = blockCount /\ nextBlockID <= NumBlocks
    /\ writerPc = "recv" => ~NextIsReady
    /\ WriterStopped => \/ writerDone \/ writerErr \/ Aborting
                        \/ /\ resultClosed /\ resultChan = <<>>
                           /\ ~NextIsReady

(* A worker that leaves without an error has left nothing in workChan. *)
ExitInv ==
    groupErr = "none" /\ (\E w \in Workers : wpc[w] = "exit") =>
        workClosed /\ workChan = <<>>

(* Where a dispatched block can be. *)
Located(b) ==
    \/ b < nextBlockID
    \/ \E r \in reorder : r.blockID = b
    \/ \E i \in DOMAIN resultChan : resultChan[i].blockID = b
    \/ \E w \in Workers : wpc[w] \in {"check", "build", "send"} /\ wjob[w].blockID = b
    \/ \E i \in DOMAIN workChan : workChan[i].blockID = b
    \/ pc = "select" /\ job.blockID = b

(* After a cancellation an item that is still to be sent or to be looked at
   makes a worker, and with it Finish, fail. *)
Starved ==
    /\ workerDone
    /\ \/ nextBlockToWrite < NumBlocks \/ workChan # <<>> \/ pc = "select"
       \/ \E w \in Workers : wpc[w] = "check"
Doomed == groupErr # "none" \/ writerDone \/ writerErr \/ Aborting \/ Starved

(* No dispatched block is lost, unless Finish is bound to fail. *)
BlocksInv ==
    /\ \A b \in Blocks : b < nextBlockToWrite => Located(b) \/ Doomed
    /\ pc \in {"drain", "drainWait", "drainWriter", "finalize"} =>
          nextBlockToWrite = NumBlocks

IInv == TypeInv /\ OrderInv /\ ChannelInv /\ FailureInv /\ WriterInv /\ ExitInv /\ BlocksInv

(* What the assumptions on the constants give the proofs. *)
LEMMA ConstantTypes ==
  /\ NumBlocks \in Nat /\ NumBlocks >= 2
  /\ TotalKeys \in Nat
  /\ Blocks = 0 .. NumBlocks - 1
  /\ 0 \in Blocks
  /\ NoFence \notin Fences
  /\ NoJob \in Job /\ NoJob.fence = NoFence
  BY IndexWriterAssumption, WorkerPoolAssumption DEF Blocks, NoJob, Job

(* The builder starts well typed, and its work items carry no fence. *)
LEMMA InitTypeInv == Init => TypeInv
<1> SUFFICES ASSUME Init PROVE TypeInv
  OBVIOUS
<1>1. IWTypeOK
  BY ConstantTypes DEF Init, PoolInit, IWInit, IWTypeOK, EmptyBlock, BlockDataSet
<1>2. PoolTypeOK
  <2> USE DEF Init, PoolInit
  <2>1. /\ writerDone \in BOOLEAN /\ writerClosed \in BOOLEAN
        /\ ctxDone \in BOOLEAN /\ workerDone \in BOOLEAN
        /\ workersShutDown \in BOOLEAN /\ writerErr \in BOOLEAN
        /\ workClosed \in BOOLEAN /\ resultClosed \in BOOLEAN /\ failed \in BOOLEAN
    OBVIOUS
  <2>2. werr \in [Workers -> BOOLEAN]
    OBVIOUS
  <2>3. workChan \in Seq(Job) /\ resultChan \in Seq(Result) /\ reorder \in SUBSET Result
    OBVIOUS
  <2>4. wjob \in [Workers -> Job]
    BY ConstantTypes
  <2>5. fence \in [Fences -> Nat] /\ nextBlockID \in Nat
    OBVIOUS
  <2>6. wpc \in [Workers -> {"recv", "check", "build", "send", "return", "exit"}]
    OBVIOUS
  <2> QED BY <1>1, <2>1, <2>2, <2>3, <2>4, <2>5, <2>6 DEF PoolTypeOK, Causes
<1>3. BuilderTypeOK
  <2>1. closed \in BOOLEAN /\ firstKey \in BOOLEAN
    BY DEF Init
  <2> QED BY <2>1, ConstantTypes DEF Init, BuilderTypeOK
<1>4. Unfenced
  BY ConstantTypes DEF Init, PoolInit, Unfenced
<1> QED BY <1>2, <1>3, <1>4 DEF TypeInv, TypeOK, Init

(* Releasing the fence of an item without one changes nothing. *)
LEMMA ReleasedUnfenced ==
  ASSUME TypeInv
  PROVE  Released(NoFence) = fence
  BY ConstantTypes DEF TypeInv, TypeOK, PoolTypeOK, Released

(* No step of a worker goroutine leaves the types. *)
LEMMA WorkerTypeInv ==
  ASSUME TypeInv, NEW w \in Workers, WorkerStep(w), UNCHANGED builderVars
  PROVE  TypeInv'
<1> USE DEF iwVars, chanVars, ctxVars, workerVars, writerVars, mainVars
<1>0. fence' = fence
  BY ReleasedUnfenced DEF TypeInv, Unfenced, WorkerStep, WorkerReceive, WorkerFinish,
     WorkerCancelled, WorkerAddKeys, WorkerBuild, WorkerSend, WorkerSendCancelled,
     WorkerReturnErr
<1>1. BuilderTypeOK' /\ pc' = pc
  BY DEF TypeInv, TypeOK, BuilderTypeOK, builderVars, WorkerStep, WorkerReceive,
     WorkerFinish, WorkerExit,
     WorkerCancelled, WorkerAddKeys, WorkerBuild, WorkerSend, WorkerSendCancelled,
     WorkerReturnErr
<1>2. PoolTypeOK'
  <2> USE <1>0 DEF TypeInv, TypeOK, PoolTypeOK, IWTypeOK
  <2>1. CASE WorkerReceive(w)
    BY <2>1 DEF WorkerReceive
  <2>2. CASE WorkerFinish(w)
    BY <2>2 DEF WorkerFinish, WorkerExit
  <2>3. CASE WorkerCancelled(w)
    BY <2>3 DEF WorkerCancelled, WorkerExit
  <2>4. CASE WorkerAddKeys(w)
    BY <2>4 DEF WorkerAddKeys
  <2>5. CASE WorkerBuild(w)
    <3>1. payloads' \in [0 .. TotalKeys - 1 -> BlockDataSet]
      <4>0. PICK b, m, o : b = wjob[w].blockID /\ m = wjob[w].n /\ o = wjob[w].keysBefore
        OBVIOUS
      <4>1. payloads' = PayloadsWith(b, m, o) \/ payloads' = payloads
        BY ONLY <2>5, <4>0 DEF WorkerBuild
      <4>2. b \in BlockDataSet
        BY <4>0 DEF BlockDataSet, Job
      <4>3. payloads \in [0 .. TotalKeys - 1 -> BlockDataSet]
        OBVIOUS
      <4> QED BY ONLY <4>1, <4>2, <4>3 DEF PayloadsWith
    <3>2. werr' \in [Workers -> BOOLEAN] /\ failed' \in BOOLEAN
      BY <2>5 DEF WorkerBuild
    <3> QED BY <2>5, <3>1, <3>2 DEF WorkerBuild
  <2>6. CASE WorkerSend(w)
    BY <2>6 DEF WorkerSend, Job, Result
  <2>7. CASE WorkerSendCancelled(w)
    BY <2>7 DEF WorkerSendCancelled, WorkerExit
  <2>8. CASE WorkerReturnErr(w)
    BY <2>8 DEF WorkerReturnErr, WorkerExit
  <2> QED BY <2>1, <2>2, <2>3, <2>4, <2>5, <2>6, <2>7, <2>8 DEF WorkerStep
<1>3. Unfenced'
  <2>1. job' = job
    BY DEF builderVars
  <2>2. CASE WorkerReceive(w)
    BY <2>1, <2>2 DEF WorkerReceive, TypeInv, Unfenced, TypeOK, PoolTypeOK
  <2>3. CASE ~WorkerReceive(w)
    BY <2>1, <2>3 DEF TypeInv, Unfenced, WorkerStep, WorkerFinish, WorkerExit,
       WorkerCancelled, WorkerAddKeys, WorkerBuild, WorkerSend, WorkerSendCancelled,
       WorkerReturnErr
  <2> QED BY <2>2, <2>3
<1> QED BY <1>1, <1>2, <1>3 DEF TypeInv, TypeOK

(* No step of the writer goroutine leaves the types. *)
LEMMA WriterTypeInv ==
  ASSUME TypeInv, WriterStep, UNCHANGED builderVars
  PROVE  TypeInv'
<1> USE DEF iwVars, chanVars, ctxVars, workerVars, writerVars, mainVars
<1>1. BuilderTypeOK' /\ pc' = pc
  BY DEF TypeInv, TypeOK, BuilderTypeOK, builderVars, WriterStep, WriterReceive,
     WriterEmit, WriterCancel, WriterClose
<1>2. Unfenced'
  BY DEF TypeInv, Unfenced, builderVars, WriterStep, WriterReceive, WriterEmit,
     WriterCancel, WriterClose
<1>3. PoolTypeOK'
  <2> USE DEF TypeInv, TypeOK, PoolTypeOK, IWTypeOK
  <2>1. CASE WriterReceive
    <3>1. Head(resultChan) \in Result /\ Tail(resultChan) \in Seq(Result)
      BY <2>1 DEF WriterReceive
    <3>2. writerDone' \in BOOLEAN
      BY <2>1 DEF WriterReceive
    <3> QED BY <2>1, <3>1, <3>2 DEF WriterReceive, WriterAt
  <2>2. CASE WriterEmit
    <3> PICK r \in reorder, ok \in BOOLEAN :
          /\ reorder' = reorder \ {r}
          /\ FoldPayloadHash(r.blockID, r.n)
          /\ WriteMetadata(r.blockID, r.n, ok)
          /\ nextBlockID' = IF ok THEN nextBlockID + 1 ELSE nextBlockID
          /\ writerPc' = IF ok THEN WriterAt(reorder', nextBlockID') ELSE "cancel"
          /\ writerDone' = (writerDone \/ ~ok)
          /\ failed' = (failed \/ ~ok)
      BY <2>2 DEF WriterEmit
    <3>1. r.blockID \in Blocks /\ r.n \in Nat
      BY DEF Result
    <3>2. BlockData(r.blockID, r.n) \in BlockDataSet
      BY <3>1 DEF BlockData, BlockDataSet
    <3>3. ramIndex' \in Seq(RamIndexEntry)
      BY DEF WriteMetadata, RecordAndWriteMetadata, CurrentEntry, RamIndexEntry
    <3>4. metadata' \in Seq(BlockDataSet) /\ payloadHash' \in Seq(BlockDataSet)
      BY <3>2 DEF WriteMetadata, RecordAndWriteMetadata, FoldPayloadHash
    <3>5. keyCount' \in Nat /\ blockCount' \in Nat /\ nextBlockID' \in Nat
      BY <3>1 DEF WriteMetadata, Advance
    <3>6. writerDone' \in BOOLEAN /\ failed' \in BOOLEAN
      OBVIOUS
    <3>7. writerPc' \in {"recv", "emit", "cancel", "close", "exit"}
      BY DEF WriterAt
    <3> QED BY <2>2, <3>3, <3>4, <3>5, <3>6, <3>7 DEF WriterEmit
  <2>3. CASE WriterCancel
    BY <2>3 DEF WriterCancel
  <2>4. CASE WriterClose
    BY <2>4 DEF WriterClose
  <2> QED BY <2>1, <2>2, <2>3, <2>4 DEF WriterStep
<1> QED BY <1>1, <1>2, <1>3 DEF TypeInv, TypeOK

(* What cleanup leaves of the type invariant, whoever calls it. *)
LEMMA CleanupTypes ==
  ASSUME TypeInv, NEW why \in Causes, Cleanup(why)
  PROVE  /\ IWTypeOK'
         /\ cause' \in Causes
         /\ outcome' \in {"building", "ok", "failed"}
         /\ pc' \in {"idle", "shutWait"}
         /\ workersShutDown' \in BOOLEAN /\ workerDone' \in BOOLEAN
         /\ workClosed' \in BOOLEAN
<1> USE DEF TypeInv, TypeOK, PoolTypeOK
<1>1. IWTypeOK'
  BY DEF Cleanup, CloseAndRemove, IWTypeOK, iwVars
<1>2. /\ cause' \in Causes
      /\ outcome' \in {"building", "ok", "failed"}
      /\ pc' \in {"idle", "shutWait"}
  BY DEF Cleanup
<1>3. /\ workersShutDown' \in BOOLEAN /\ workerDone' \in BOOLEAN
      /\ workClosed' \in BOOLEAN
  BY DEF Cleanup
<1> QED BY <1>1, <1>2, <1>3

(* Shutdown, drain and finalize leave the state well typed. *)
LEMMA TeardownTypeInv ==
  ASSUME TypeInv, TeardownStep, UNCHANGED builderVars
  PROVE  TypeInv'
<1> USE DEF iwVars, chanVars, ctxVars, workerVars, writerVars, mainVars
<1>1. BuilderTypeOK' /\ job' = job
  BY DEF TypeInv, TypeOK, BuilderTypeOK, builderVars
<1>2. CASE ShutdownWait
  <2>1. \A s \in Fences : {i \in DOMAIN workChan : workChan[i].fence = s} = {}
    BY ConstantTypes DEF TypeInv, Unfenced
  <2>2. fence' \in [Fences -> Nat]
    <3>1. fence \in [Fences -> Nat]
      BY DEF TypeInv, TypeOK, PoolTypeOK
    <3>2. \A s \in Fences :
            fence[s] - Cardinality({i \in DOMAIN workChan : workChan[i].fence = s}) \in Nat
      BY <2>1, <3>1, FS_EmptySet
    <3> QED BY <1>2, <3>2 DEF ShutdownWait
  <2>5. workChan' \in Seq(Job) /\ resultClosed' \in BOOLEAN
    BY <1>2 DEF ShutdownWait
  <2>3. PoolTypeOK' /\ pc' = "shutWriter"
    BY <1>2, <2>2, <2>5 DEF ShutdownWait, TypeInv, TypeOK, PoolTypeOK, IWTypeOK
  <2>4. Unfenced'
    BY <1>2, <1>1 DEF ShutdownWait, TypeInv, Unfenced
  <2> QED BY <2>3, <2>4, <1>1 DEF TypeInv, TypeOK
<1>3. ASSUME ~ShutdownWait PROVE Unfenced'
  BY <1>3, <1>1 DEF TypeInv, Unfenced, TeardownStep, ShutdownWriter, Drain, DrainWait,
     DrainWriter, FinalizeIndex
<1>4. CASE ShutdownWriter
  <2>1. Unfenced'
    BY <1>3, <1>4 DEF ShutdownWriter, ShutdownWait
  <2>2. IWTypeOK'
    BY <1>4 DEF ShutdownWriter, CloseAndRemove, TypeInv, TypeOK, PoolTypeOK, IWTypeOK
  <2>3. writerDone' \in BOOLEAN /\ pc' = "idle"
    BY <1>4 DEF ShutdownWriter
  <2> QED BY <1>4, <1>1, <2>1, <2>2, <2>3 DEF ShutdownWriter, TypeInv, TypeOK, PoolTypeOK
<1>5. CASE Drain
  BY <1>5, <1>3, <1>1 DEF Drain, ShutdownWait, TypeInv, TypeOK, PoolTypeOK, IWTypeOK
<1>6. CASE DrainWait
  BY <1>6, <1>3, <1>1 DEF DrainWait, ShutdownWait, TypeInv, TypeOK, PoolTypeOK, IWTypeOK
<1>7. CASE DrainWriter
  <2>1. DrainCause \in Causes
    BY DEF DrainCause, Causes, TypeInv, TypeOK, PoolTypeOK
  <2>2. CASE DrainCause # "none"
    <3>1. Cleanup(DrainCause)
      BY <1>7, <2>2 DEF DrainWriter
    <3>2. /\ IWTypeOK' /\ cause' \in Causes /\ outcome' \in {"building", "ok", "failed"}
          /\ pc' \in {"idle", "shutWait"} /\ workersShutDown' \in BOOLEAN
          /\ workerDone' \in BOOLEAN /\ workClosed' \in BOOLEAN
      BY <1>1, <2>1, <3>1, CleanupTypes
    <3>3. Unfenced' /\ writerDone' \in BOOLEAN
      BY <1>3, <1>7 DEF DrainWriter, ShutdownWait
    <3> QED BY <1>7, <1>1, <3>2, <3>3 DEF DrainWriter, TypeInv, TypeOK, PoolTypeOK
  <2>3. CASE DrainCause = "none"
    <3>1. Unfenced' /\ writerDone' \in BOOLEAN
      BY <1>3, <1>7 DEF DrainWriter, ShutdownWait
    <3> QED BY <1>7, <1>1, <2>3, <3>1 DEF DrainWriter, TypeInv, TypeOK, PoolTypeOK, IWTypeOK
  <2> QED BY <2>2, <2>3
<1>8. CASE FinalizeIndex
  <2>1. ramIndex' \in Seq(RamIndexEntry)
    BY <1>8 DEF FinalizeIndex, Finalize, CurrentEntry, RamIndexEntry, TypeInv, TypeOK,
       PoolTypeOK, IWTypeOK
  <2>2. Unfenced'
    BY <1>3, <1>8 DEF FinalizeIndex, ShutdownWait
  <2>3. IWTypeOK'
    BY <1>8, <2>1 DEF FinalizeIndex, Finalize, TypeInv, TypeOK, PoolTypeOK, IWTypeOK
  <2>4. pc' = "idle" /\ cause' \in Causes /\ outcome' \in {"building", "ok", "failed"}
    BY <1>8 DEF FinalizeIndex, Causes
  <2> QED BY <1>8, <1>1, <2>2, <2>3, <2>4 DEF FinalizeIndex, TypeInv, TypeOK, PoolTypeOK
<1> QED BY <1>2, <1>4, <1>5, <1>6, <1>7, <1>8 DEF TeardownStep

(* AddKey, Finish and Close start with a well-typed state and leave one. *)
LEMMA CallerTypeInv ==
  ASSUME TypeInv, CallerStep
  PROVE  TypeInv'
<1> USE DEF iwVars, chanVars, ctxVars, workerVars, writerVars, mainVars
<1>1. ASSUME NEW b \in Blocks, AddKey(b) PROVE TypeInv'
  <2>1. Unfenced'
    BY <1>1 DEF AddKey, TypeInv, Unfenced
  <2>2. writerDone' \in BOOLEAN /\ writerErr' \in BOOLEAN
    BY <1>1 DEF AddKey, ConsumePipelineError, TypeInv, TypeOK, PoolTypeOK
  <2>3. PoolTypeOK'
    BY <1>1, <2>2 DEF AddKey, TypeInv, TypeOK, PoolTypeOK, IWTypeOK
  <2>4. BuilderTypeOK' /\ pc' \in {pc, "next"}
    BY <1>1, ConstantTypes DEF AddKey, TypeInv, TypeOK, BuilderTypeOK
  <2> QED BY <2>1, <2>3, <2>4 DEF TypeInv, TypeOK
<1>2. ASSUME Finish PROVE TypeInv'
  <2>1. Unfenced'
    BY <1>2 DEF Finish, TypeInv, Unfenced
  <2>2. BuilderTypeOK'
    BY <1>2 DEF Finish, TypeInv, TypeOK, BuilderTypeOK
  <2>3. CASE totalKeysAdded # TotalKeys \/ writerErr
    <3>1. PICK why \in Causes : Cleanup(why)
      BY <1>2, <2>3 DEF Finish, Causes
    <3> QED BY <1>2, <2>1, <2>2, <3>1, CleanupTypes DEF Finish, TypeInv, TypeOK, PoolTypeOK
  <2>4. CASE ~(totalKeysAdded # TotalKeys \/ writerErr)
    BY <1>2, <2>1, <2>2, <2>4 DEF Finish, TypeInv, TypeOK, PoolTypeOK, IWTypeOK
  <2> QED BY <2>3, <2>4
<1>3. ASSUME Close PROVE TypeInv'
  <2>1. Unfenced'
    BY <1>3 DEF Close, TypeInv, Unfenced
  <2>2. BuilderTypeOK'
    BY <1>3 DEF Close, TypeInv, TypeOK, BuilderTypeOK
  <2>3. PICK why \in Causes : Cleanup(why)
    BY <1>3 DEF Close, Causes
  <2> QED BY <1>3, <2>1, <2>2, <2>3, CleanupTypes DEF Close, TypeInv, TypeOK, PoolTypeOK
<1>4. ASSUME CallAfterClose PROVE TypeInv'
  BY <1>4 DEF CallAfterClose, vars, poolVars, builderVars, TypeInv, TypeOK, Unfenced,
     PoolTypeOK, IWTypeOK, BuilderTypeOK
<1> QED BY <1>1, <1>2, <1>3, <1>4 DEF CallerStep

(* What dispatchBlockWork offers to the workers is a well-typed, unfenced item. *)
LEMMA DispatchBlockWorkTypes ==
  ASSUME TypeInv, NEW b \in Blocks, NEW n \in Nat, DispatchBlockWork(b, n)
  PROVE  /\ job' \in Job /\ job'.fence = NoFence
         /\ keysBefore' \in Nat
         /\ nextBlockToWrite' \in 0 .. NumBlocks
  BY ConstantTypes DEF DispatchBlockWork, Job, TypeInv, TypeOK, BuilderTypeOK

(* The builder's own steps inside AddKey and Finish keep the types. *)
LEMMA BuilderStepTypeInv ==
  ASSUME TypeInv, BuilderStep
  PROVE  TypeInv'
<1> USE DEF iwVars, chanVars, ctxVars, workerVars, writerVars, mainVars
<1>1. CASE DispatchPending \/ DispatchEmpty
  <2>1. PICK b \in Blocks, n \in Nat : DispatchBlockWork(b, n)
    BY <1>1, ConstantTypes DEF DispatchPending, DispatchEmpty, MustDispatchEmpty,
       DispatchLimit, TypeInv, TypeOK, BuilderTypeOK
  <2>2. Unfenced'
    BY <1>1, <2>1, DispatchBlockWorkTypes DEF DispatchPending, DispatchEmpty, TypeInv,
       Unfenced
  <2>3. PoolTypeOK' /\ pc' = "select"
    BY <1>1 DEF DispatchPending, DispatchEmpty, DispatchBlockWork, TypeInv, TypeOK,
       PoolTypeOK, IWTypeOK
  <2>4. BuilderTypeOK'
    BY <1>1, <2>1, DispatchBlockWorkTypes DEF DispatchPending, DispatchEmpty, TypeInv,
       TypeOK, BuilderTypeOK
  <2> QED BY <2>2, <2>3, <2>4 DEF TypeInv, TypeOK
<1>2. CASE AcceptKey
  <2>1. Unfenced'
    BY <1>2 DEF AcceptKey, TypeInv, Unfenced
  <2>2. PoolTypeOK' /\ pc' = "idle"
    BY <1>2 DEF AcceptKey, TypeInv, TypeOK, PoolTypeOK, IWTypeOK
  <2>3. firstKey' \in BOOLEAN
    BY <1>2 DEF AcceptKey
  <2>4. BuilderTypeOK'
    BY <1>2, <2>3 DEF AcceptKey, TypeInv, TypeOK, BuilderTypeOK
  <2> QED BY <2>1, <2>2, <2>4 DEF TypeInv, TypeOK
<1>3. CASE StartDrain
  <2>1. Unfenced'
    BY <1>3 DEF StartDrain, TypeInv, Unfenced, builderVars
  <2>2. PoolTypeOK' /\ pc' = "drain"
    BY <1>3 DEF StartDrain, TypeInv, TypeOK, PoolTypeOK, IWTypeOK
  <2>3. BuilderTypeOK'
    BY <1>3 DEF StartDrain, builderVars, TypeInv, TypeOK, BuilderTypeOK
  <2> QED BY <2>1, <2>2, <2>3 DEF TypeInv, TypeOK
<1>4. CASE SelectSend
  <2>1. BuilderTypeOK' /\ pc' = "next"
    BY <1>4 DEF SelectSend, builderVars, TypeInv, TypeOK, BuilderTypeOK
  <2>2. workChan' \in Seq(Job)
    BY <1>4 DEF SelectSend, DispatchSend, TypeInv, TypeOK, PoolTypeOK, BuilderTypeOK
  <2>3. PoolTypeOK'
    BY <1>4, <2>2 DEF SelectSend, DispatchSend, TypeInv, TypeOK, PoolTypeOK, IWTypeOK
  <2>4. Unfenced'
    BY <1>4 DEF SelectSend, DispatchSend, builderVars, TypeInv, TypeOK, PoolTypeOK,
       BuilderTypeOK, Unfenced
  <2> QED BY <2>1, <2>3, <2>4 DEF TypeInv, TypeOK
<1>5. CASE SelectCancelled \/ SelectWriterDone
  <2>1. BuilderTypeOK'
    BY <1>5 DEF SelectCancelled, SelectWriterDone, builderVars, TypeInv, TypeOK,
       BuilderTypeOK
  <2>2. Unfenced'
    BY <1>5 DEF SelectCancelled, SelectWriterDone, builderVars, TypeInv, Unfenced
  <2>3. PICK why \in Causes : DispatchFailed(why)
    BY <1>5 DEF SelectCancelled, SelectWriterDone, PipelineError, Causes
  <2>4. writerDone' \in BOOLEAN /\ writerErr' \in BOOLEAN
    BY <1>5 DEF SelectCancelled, SelectWriterDone, ConsumePipelineError, TypeInv, TypeOK,
       PoolTypeOK
  <2>5. CASE op = "add"
    BY <1>5, <2>1, <2>2, <2>3, <2>4, <2>5 DEF SelectCancelled, SelectWriterDone,
       DispatchFailed, TypeInv, TypeOK, PoolTypeOK, IWTypeOK
  <2>6. CASE op # "add"
    BY <1>5, <2>1, <2>2, <2>3, <2>4, <2>6, CleanupTypes DEF SelectCancelled,
       SelectWriterDone, DispatchFailed, TypeInv, TypeOK, PoolTypeOK
  <2> QED BY <2>5, <2>6
<1> QED BY <1>1, <1>2, <1>3, <1>4, <1>5 DEF BuilderStep

(* Every step of the build keeps the types. *)
LEMMA NextTypeInv ==
  ASSUME TypeInv, [Next]_vars
  PROVE  TypeInv'
<1>1. CASE UserCancel /\ UNCHANGED builderVars
  BY <1>1 DEF UserCancel, iwVars, chanVars, ctxVars, workerVars, writerVars, mainVars,
     builderVars, TypeInv, TypeOK, Unfenced, PoolTypeOK, IWTypeOK, BuilderTypeOK
<1>2. CASE UNCHANGED vars
  BY <1>2 DEF vars, poolVars, iwVars, chanVars, ctxVars, workerVars, writerVars, mainVars,
     builderVars, TypeInv, TypeOK, Unfenced, PoolTypeOK, IWTypeOK, BuilderTypeOK
<1> QED
  BY <1>1, <1>2, WorkerTypeInv, WriterTypeInv, TeardownTypeInv, CallerTypeInv,
     BuilderStepTypeInv DEF Next, PoolStep

(* Every state of the parallel sorted build is well typed, whatever the caller
   does: no block number leaves the index and no fence goes negative. *)
THEOREM TypeCorrect == Spec => []TypeOK
<1>1. TypeInv => TypeOK
  BY DEF TypeInv
<1> QED BY <1>1, InitTypeInv, NextTypeInv, PTL DEF Spec

--------------------------------------------------------------------------------
(* Steps of the pool leave the builder's own fields alone. *)

(* Blocks are dispatched in order: the block being filled is never behind the
   next block to write, and no step of the pool changes either. *)
LEMMA OrderInvStep ==
  ASSUME TypeInv, OrderInv, ChannelInv, [Next]_vars
  PROVE  OrderInv'
<1> USE ConstantTypes DEF OrderInv
<1>0. BuilderTypeOK
  BY DEF TypeInv, TypeOK
<1>1. ASSUME NEW b \in Blocks, AddKey(b) PROVE OrderInv'
  BY <1>0, <1>1 DEF AddKey, BuilderTypeOK, ChannelInv
<1>2. ASSUME Finish PROVE OrderInv'
  BY <1>0, <1>2 DEF Finish, Cleanup, BuilderTypeOK
<1>3. ASSUME Close PROVE OrderInv'
  BY <1>0, <1>3 DEF Close, Cleanup, BuilderTypeOK
<1>4. ASSUME DispatchPending PROVE OrderInv'
  BY <1>0, <1>4 DEF DispatchPending, MustDispatchPending, DispatchBlockWork, BuilderTypeOK
<1>5. ASSUME DispatchEmpty PROVE OrderInv'
  BY <1>0, <1>5 DEF DispatchEmpty, MustDispatchPending, MustDispatchEmpty, DispatchLimit,
     DispatchBlockWork, BuilderTypeOK
<1>6. ASSUME AcceptKey PROVE OrderInv'
  BY <1>0, <1>6 DEF AcceptKey, MustDispatchPending, MustDispatchEmpty, DispatchLimit,
     BuilderTypeOK
<1>7. ASSUME SelectSend \/ StartDrain PROVE OrderInv'
  BY <1>0, <1>7 DEF SelectSend, StartDrain, builderVars, BuilderTypeOK
<1>8. ASSUME SelectCancelled \/ SelectWriterDone PROVE OrderInv'
  BY <1>0, <1>8, SMTT(30) DEF SelectCancelled, SelectWriterDone, DispatchFailed, Cleanup, builderVars,
     BuilderTypeOK
<1>9. ASSUME PoolStep PROVE OrderInv'
  <2>1. UNCHANGED builderVars
    BY <1>9 DEF PoolStep
  <2>2. pc' = pc \/ pc' \notin {"next", "select"}
    BY <1>9 DEF PoolStep, WorkerStep, WorkerReceive, WorkerFinish, WorkerExit,
       WorkerCancelled, WorkerAddKeys, WorkerBuild, WorkerSend, WorkerSendCancelled,
       WorkerReturnErr, WriterStep, WriterReceive, WriterEmit, WriterCancel, WriterClose,
       UserCancel, TeardownStep, ShutdownWait, ShutdownWriter, Drain, DrainWait,
       DrainWriter, Cleanup, FinalizeIndex, mainVars
  <2> QED BY <2>1, <2>2 DEF builderVars
<1>10. ASSUME UNCHANGED vars PROVE OrderInv'
  BY <1>10 DEF vars, poolVars, mainVars, builderVars
<1> QED
  BY <1>1, <1>2, <1>3, <1>4, <1>5, <1>6, <1>7, <1>8, <1>9, <1>10
  DEF Next, CallerStep, BuilderStep, CallAfterClose

(* A worker changes no channel, and no worker comes back after its exit. *)
LEMMA WorkerChannelInv ==
  ASSUME TypeInv, ChannelInv, NEW w \in Workers, WorkerStep(w), UNCHANGED builderVars
  PROVE  ChannelInv'
<1>1. UNCHANGED <<workClosed, workersShutDown, pc, resultClosed, writerDone, writerClosed,
                  writerPc, fileOpen, outcome, closed, op>>
  BY DEF WorkerStep, WorkerReceive, WorkerFinish, WorkerExit, WorkerCancelled,
     WorkerAddKeys, WorkerBuild, WorkerSend, WorkerSendCancelled, WorkerReturnErr,
     iwVars, chanVars, mainVars, writerVars, builderVars
<1>2. resultClosed => AllWorkersExited'
  BY DEF ChannelInv, AllWorkersExited, WorkerStep, WorkerReceive, WorkerFinish,
     WorkerCancelled, WorkerAddKeys, WorkerBuild, WorkerSend, WorkerSendCancelled,
     WorkerReturnErr
<1> QED BY <1>1, <1>2 DEF ChannelInv, WriterStopped

(* The writer closes writerDone once and leaves the file open. *)
LEMMA WriterChannelInv ==
  ASSUME TypeInv, ChannelInv, WriterStep, UNCHANGED builderVars
  PROVE  ChannelInv'
<1>1. UNCHANGED <<workClosed, workersShutDown, pc, resultClosed, fileOpen, outcome, closed,
                  op, wpc>>
  BY DEF WriterStep, WriterReceive, WriterEmit, WriterCancel, WriterClose,
     iwVars, chanVars, mainVars, writerVars, builderVars, workerVars
<1>2. AllWorkersExited' <=> AllWorkersExited
  BY <1>1 DEF AllWorkersExited
<1>3. WriterStopped => WriterStopped'
  BY DEF WriterStopped, WriterStep, WriterReceive, WriterEmit, WriterCancel, WriterClose
<1>4. writerDone' \/ writerClosed' => WriterStopped'
  BY <1>3 DEF ChannelInv, WriterStopped, WriterStep, WriterReceive, WriterEmit, WriterCancel,
     WriterClose, chanVars
<1>5. writerClosed' => writerPc' = "exit"
  BY DEF ChannelInv, WriterStep, WriterReceive, WriterEmit, WriterCancel, WriterClose,
     chanVars
<1> QED BY <1>1, <1>2, <1>3, <1>4, <1>5 DEF ChannelInv

(* The channels and the file after cleanup. *)
LEMMA CleanupChannels ==
  ASSUME TypeInv, ChannelInv, NEW why, Cleanup(why)
  PROVE  \/ /\ ~workersShutDown /\ pc' = "shutWait"
            /\ workersShutDown' = TRUE /\ workClosed' = TRUE
            /\ UNCHANGED <<fileOpen, outcome>>
         \/ /\ workersShutDown /\ pc' = "idle"
            /\ UNCHANGED <<workersShutDown, workClosed>>
            /\ fileOpen' = FALSE /\ outcome' = "failed"
  BY DEF Cleanup, CloseAndRemove, iwVars, TypeInv, TypeOK, PoolTypeOK

(* Teardown closes resultChan only after the last worker and the file only after
   the writer. *)
LEMMA TeardownChannelInv ==
  ASSUME TypeInv, ChannelInv, TeardownStep, UNCHANGED builderVars
  PROVE  ChannelInv'
<1>1. UNCHANGED <<closed, op, wpc, writerPc, writerClosed>>
  BY DEF TeardownStep, ShutdownWait, ShutdownWriter, Drain, DrainWait, DrainWriter,
     FinalizeIndex, chanVars, writerVars, workerVars, builderVars
<1>2. AllWorkersExited' <=> AllWorkersExited
  BY <1>1 DEF AllWorkersExited
<1>3. WriterStopped' <=> WriterStopped
  BY <1>1 DEF WriterStopped
<1> USE <1>1, <1>2, <1>3
<1>4. CASE ShutdownWait
  BY <1>4 DEF ShutdownWait, ChannelInv, iwVars
<1>5. CASE ShutdownWriter
  BY <1>5 DEF ShutdownWriter, ChannelInv, CloseAndRemove, WriterDoneReady
<1>6. CASE Drain
  BY <1>6 DEF Drain, ChannelInv, iwVars
<1>7. CASE DrainWait
  BY <1>7 DEF DrainWait, ChannelInv, iwVars
<1>8. CASE DrainWriter
  <2>1. WriterStopped /\ resultClosed /\ workersShutDown /\ closed
    BY <1>8 DEF DrainWriter, ChannelInv, WriterDoneReady
  <2>2. CASE DrainCause = "none"
    BY <1>8, <2>1, <2>2 DEF DrainWriter, ChannelInv, iwVars
  <2>3. CASE DrainCause # "none"
    <3>1. Cleanup(DrainCause)
      BY <1>8, <2>3 DEF DrainWriter
    <3>2. /\ pc' = "idle" /\ fileOpen' = FALSE /\ outcome' = "failed"
          /\ UNCHANGED <<workersShutDown, workClosed>>
      BY <2>1, <3>1, CleanupChannels
    <3>3. UNCHANGED resultClosed /\ writerDone' = FALSE
      BY <1>8 DEF DrainWriter
    <3> QED BY <2>1, <3>2, <3>3 DEF ChannelInv
  <2> QED BY <2>2, <2>3
<1>9. CASE FinalizeIndex
  BY <1>9 DEF FinalizeIndex, Finalize, ChannelInv, chanVars
<1> QED BY <1>4, <1>5, <1>6, <1>7, <1>8, <1>9 DEF TeardownStep

(* The caller closes workChan at most once, and only to shut the pool down. *)
LEMMA CallerChannelInv ==
  ASSUME TypeInv, ChannelInv, CallerStep \/ BuilderStep
  PROVE  ChannelInv'
<1> USE DEF iwVars, chanVars, workerVars, writerVars
<1>1. ASSUME ~CallAfterClose
      PROVE  UNCHANGED <<resultClosed, wpc, writerPc, writerClosed>>
  BY <1>1 DEF CallerStep, AddKey, Finish, Close, BuilderStep, DispatchPending, DispatchEmpty,
     AcceptKey, StartDrain, SelectSend, DispatchSend, SelectCancelled, SelectWriterDone
<1>2. ASSUME ~CallAfterClose
      PROVE  (AllWorkersExited' <=> AllWorkersExited) /\ (WriterStopped' <=> WriterStopped)
  BY <1>1, <1>2 DEF AllWorkersExited, WriterStopped
<1>3. ASSUME ~CallAfterClose PROVE writerDone' => writerDone
  BY <1>3 DEF CallerStep, AddKey, Finish, Close, BuilderStep, DispatchPending, DispatchEmpty,
     AcceptKey, StartDrain, SelectSend, DispatchSend, SelectCancelled, SelectWriterDone,
     ConsumePipelineError
<1>4. CASE CallAfterClose
  BY <1>4 DEF CallAfterClose, vars, poolVars, mainVars, builderVars, ChannelInv,
     AllWorkersExited, WriterStopped
<1> SUFFICES ASSUME ~CallAfterClose PROVE ChannelInv'
  BY <1>4
<1> USE <1>1, <1>2, <1>3
<1>5. ASSUME NEW b \in Blocks, AddKey(b) PROVE ChannelInv'
  BY <1>5 DEF AddKey, ChannelInv, TypeInv, TypeOK, BuilderTypeOK
<1>6. ASSUME Finish PROVE ChannelInv'
  <2>2. ~workersShutDown /\ ~resultClosed /\ fileOpen /\ outcome = "building" /\ closed'
    BY <1>6 DEF Finish, ChannelInv
  <2>3. CASE totalKeysAdded # TotalKeys \/ writerErr
    BY <1>6, <2>2, <2>3, CleanupChannels DEF Finish, ChannelInv
  <2>4. CASE ~(totalKeysAdded # TotalKeys \/ writerErr)
    BY <1>6, <2>2, <2>4 DEF Finish, ChannelInv
  <2> QED BY <2>3, <2>4
<1>7. ASSUME Close PROVE ChannelInv'
  <2>1. ~workersShutDown /\ ~resultClosed /\ fileOpen /\ outcome = "building" /\ closed'
    BY <1>7 DEF Close, ChannelInv
  <2> QED BY <1>7, <2>1, CleanupChannels DEF Close, ChannelInv
<1>8. ASSUME DispatchPending \/ DispatchEmpty PROVE ChannelInv'
  BY <1>8 DEF DispatchPending, DispatchEmpty, DispatchBlockWork, ChannelInv
<1>9. ASSUME AcceptKey PROVE ChannelInv'
  BY <1>9 DEF AcceptKey, ChannelInv
<1>10. ASSUME StartDrain PROVE ChannelInv'
  BY <1>10 DEF StartDrain, ChannelInv, builderVars
<1>11. ASSUME SelectSend PROVE ChannelInv'
  BY <1>11 DEF SelectSend, DispatchSend, ChannelInv, builderVars
<1>12. ASSUME SelectCancelled \/ SelectWriterDone PROVE ChannelInv'
  <2>1. ~workersShutDown /\ ~resultClosed /\ fileOpen /\ outcome = "building"
    BY <1>12 DEF SelectCancelled, SelectWriterDone, ChannelInv
  <2>2. UNCHANGED <<closed, op>>
    BY <1>12 DEF SelectCancelled, SelectWriterDone, builderVars
  <2>3. PICK why : DispatchFailed(why)
    BY <1>12 DEF SelectCancelled, SelectWriterDone
  <2>4. CASE op = "add"
    BY <1>12, <2>1, <2>2, <2>3, <2>4 DEF SelectCancelled, SelectWriterDone, DispatchFailed,
       ChannelInv
  <2>5. CASE op # "add"
    <3>1. Cleanup(why)
      BY <2>3, <2>5 DEF DispatchFailed
    <3>2. closed
      BY <1>12, <2>5 DEF SelectCancelled, SelectWriterDone, ChannelInv, TypeInv, TypeOK,
         BuilderTypeOK
    <3>3. /\ pc' = "shutWait" /\ workersShutDown' = TRUE /\ workClosed' = TRUE
          /\ UNCHANGED <<fileOpen, outcome>>
      BY <2>1, <3>1, CleanupChannels
    <3> QED BY <2>1, <2>2, <3>2, <3>3 DEF ChannelInv
  <2> QED BY <2>4, <2>5
<1> QED
  BY <1>5, <1>6, <1>7, <1>8, <1>9, <1>10, <1>11, <1>12 DEF CallerStep, BuilderStep

(* Every step keeps the discipline of the channels and of the file. *)
LEMMA ChannelInvStep ==
  ASSUME TypeInv, ChannelInv, [Next]_vars
  PROVE  ChannelInv'
<1>1. CASE UserCancel /\ UNCHANGED builderVars
  BY <1>1 DEF UserCancel, iwVars, chanVars, workerVars, writerVars, mainVars, builderVars,
     ChannelInv, AllWorkersExited, WriterStopped
<1>2. CASE UNCHANGED vars
  BY <1>2 DEF vars, poolVars, iwVars, chanVars, workerVars, writerVars, mainVars,
     builderVars, ChannelInv, AllWorkersExited, WriterStopped
<1> QED
  BY <1>1, <1>2, WorkerChannelInv, WriterChannelInv, TeardownChannelInv, CallerChannelInv
  DEF Next, PoolStep

--------------------------------------------------------------------------------
(* A worker that can step proves that resultChan is open, a writer that can touch
   the index that the file is. *)
LEMMA WorkerStepResultOpen ==
  ASSUME TypeInv, ChannelInv, NEW w \in Workers, WorkerStep(w)
  PROVE  ~resultClosed /\ pc # "finalize" /\ outcome = "building"
  BY DEF ChannelInv, AllWorkersExited, WorkerStep, WorkerReceive, WorkerFinish,
     WorkerCancelled, WorkerAddKeys, WorkerBuild, WorkerSend, WorkerSendCancelled,
     WorkerReturnErr, TypeInv, TypeOK, PoolTypeOK

(* A writer that still receives or emits has an open file to write to. *)
LEMMA WriterStepFileOpen ==
  ASSUME TypeInv, ChannelInv, WriterReceive \/ WriterEmit
  PROVE  fileOpen /\ pc # "finalize" /\ outcome = "building" /\ ~writerDone /\ ~writerClosed
  BY DEF ChannelInv, WriterStopped, WriterReceive, WriterEmit, TypeInv, TypeOK, PoolTypeOK

WorkerFailed(w) == wpc[w] \in {"send", "return"} /\ werr[w]

(* A worker that fails carries its error to the group or to the writer. *)
LEMMA WorkerFailureInv ==
  ASSUME TypeInv, ChannelInv, FailureInv, NEW w \in Workers, WorkerStep(w),
         UNCHANGED builderVars
  PROVE  FailureInv'
<1>1. UNCHANGED <<writerDone, writerErr, pc, outcome, op, writerPc>>
  BY DEF WorkerStep, WorkerReceive, WorkerFinish, WorkerExit, WorkerCancelled,
     WorkerAddKeys, WorkerBuild, WorkerSend, WorkerSendCancelled, WorkerReturnErr,
     chanVars, mainVars, writerVars, builderVars
<1>2. pc # "finalize" /\ outcome = "building"
  BY WorkerStepResultOpen
<1>3. groupErr # "none" => groupErr' # "none"
  BY DEF WorkerStep, WorkerReceive, WorkerFinish, WorkerExit, WorkerCancelled,
     WorkerAddKeys, WorkerBuild, WorkerSend, WorkerSendCancelled, WorkerReturnErr, ctxVars
<1>4. ASSUME NEW v \in Workers, WorkerFailed(v)
      PROVE  WorkerFailed(v)' \/ groupErr' # "none"
  BY <1>4, <1>3 DEF WorkerFailed, WorkerStep, WorkerReceive, WorkerFinish, WorkerExit,
     WorkerCancelled, WorkerAddKeys, WorkerBuild, WorkerSend, WorkerSendCancelled,
     WorkerReturnErr, TypeInv, TypeOK, PoolTypeOK, chanVars
<1>5. failed' => failed \/ WorkerFailed(w)'
  BY DEF WorkerFailed, WorkerStep, WorkerReceive, WorkerFinish, WorkerExit,
     WorkerCancelled, WorkerAddKeys, WorkerBuild, WorkerSend, WorkerSendCancelled,
     WorkerReturnErr, TypeInv, TypeOK, PoolTypeOK
<1>6. failed' => \/ groupErr' # "none" \/ writerDone' \/ writerErr' \/ Aborting'
                \/ \E v \in Workers : WorkerFailed(v)'
  BY <1>1, <1>3, <1>4, <1>5 DEF FailureInv, Aborting, WorkerFailed
<1> QED BY <1>1, <1>2, <1>6 DEF FailureInv, Aborting, WorkerFailed

(* A writer that fails records its error before it cancels the others. *)
LEMMA WriterFailureInv ==
  ASSUME TypeInv, ChannelInv, FailureInv, WriterStep, UNCHANGED builderVars
  PROVE  FailureInv'
<1>1. UNCHANGED <<writerErr, pc, outcome, op, groupErr, wpc, werr>>
  BY DEF WriterStep, WriterReceive, WriterEmit, WriterCancel, WriterClose,
     ctxVars, mainVars, workerVars, builderVars
<1>2. writerDone => writerDone'
  BY DEF WriterStep, WriterReceive, WriterEmit, WriterCancel, WriterClose, chanVars, TypeInv,
     TypeOK, PoolTypeOK
<1>3. failed' => failed \/ writerDone'
  BY DEF WriterStep, WriterReceive, WriterEmit, WriterCancel, WriterClose, TypeInv, TypeOK,
     PoolTypeOK
<1>4. CASE WriterReceive \/ WriterEmit
  BY <1>1, <1>2, <1>3, <1>4, WriterStepFileOpen DEF FailureInv, Aborting
<1>5. CASE WriterCancel \/ WriterClose
  <2>1. UNCHANGED <<failed, writerDone>> /\ (writerPc = "exit" => writerPc' = "exit")
    BY <1>5 DEF WriterCancel, WriterClose, chanVars
  <2> QED BY <1>1, <2>1 DEF FailureInv, Aborting
<1> QED BY <1>4, <1>5 DEF WriterStep

(* Drain finds the recorded failure before it finalizes. *)
LEMMA TeardownFailureInv ==
  ASSUME TypeInv, ChannelInv, FailureInv, TeardownStep, UNCHANGED builderVars
  PROVE  FailureInv'
<1>1. UNCHANGED <<writerErr, op, groupErr, wpc, werr, writerPc, failed>>
  BY DEF TeardownStep, ShutdownWait, ShutdownWriter, Drain, DrainWait, DrainWriter,
     FinalizeIndex, ctxVars, writerVars, workerVars, builderVars
<1> USE <1>1
<1>4. CASE ShutdownWait
  BY <1>4 DEF ShutdownWait, FailureInv, Aborting
<1>5. CASE ShutdownWriter
  BY <1>5 DEF ShutdownWriter, FailureInv, Aborting
<1>6. CASE Drain
  BY <1>6 DEF Drain, FailureInv, Aborting
<1>7. CASE DrainWait
  BY <1>7 DEF DrainWait, FailureInv, Aborting
<1>8. CASE DrainWriter
  <2>1. workersShutDown
    BY <1>8 DEF DrainWriter, ChannelInv
  <2>2. CASE DrainCause = "none"
    <3>1. ~writerDone /\ groupErr = "none" /\ writerPc = "exit"
      BY <1>8, <2>2 DEF DrainWriter, DrainCause, WriterDoneReady, ChannelInv
    <3>2. writerDone' = FALSE /\ pc' = "finalize" /\ UNCHANGED outcome
      BY <1>8, <2>2 DEF DrainWriter
    <3> QED BY <1>8, <3>1, <3>2 DEF FailureInv, Aborting, DrainWriter
  <2>3. CASE DrainCause # "none"
    <3>1. pc' = "idle" /\ outcome' = "failed"
      BY <1>8, <2>1, <2>3, CleanupChannels DEF DrainWriter
    <3> QED BY <3>1 DEF FailureInv, Aborting
  <2> QED BY <2>2, <2>3
<1>9. CASE FinalizeIndex
  <2>1. ~failed
    <3>1. \A w \in Workers : wpc[w] = "exit"
      BY <1>9 DEF FinalizeIndex, ChannelInv, AllWorkersExited
    <3>2. ~writerErr /\ ~Aborting /\ groupErr = "none" /\ ~writerDone
      BY <1>9 DEF FinalizeIndex, ChannelInv, FailureInv, Aborting
    <3> QED BY <3>1, <3>2 DEF FailureInv
  <2>2. ~writerErr
    BY <1>9 DEF FinalizeIndex, ChannelInv, FailureInv, Aborting
  <2>3. pc' = "idle" /\ outcome' \in {"ok", "failed"}
    BY <1>9 DEF FinalizeIndex
  <2> QED BY <2>1, <2>2, <2>3 DEF FailureInv, Aborting
<1> QED BY <1>4, <1>5, <1>6, <1>7, <1>8, <1>9 DEF TeardownStep

(* No call forgets a failure that was recorded. *)
LEMMA CallerFailureInv ==
  ASSUME TypeInv, ChannelInv, FailureInv, CallerStep \/ BuilderStep
  PROVE  FailureInv'
<1> USE DEF iwVars, chanVars, ctxVars, workerVars, writerVars
<1>1. CASE CallAfterClose
  BY <1>1 DEF CallAfterClose, vars, poolVars, mainVars, builderVars, FailureInv, Aborting
<1> SUFFICES ASSUME ~CallAfterClose PROVE FailureInv'
  BY <1>1
<1>2. UNCHANGED <<groupErr, wpc, werr, writerPc, failed>>
  BY DEF CallerStep, AddKey, Finish, Close, BuilderStep, DispatchPending, DispatchEmpty,
     AcceptKey, StartDrain, SelectSend, DispatchSend, SelectCancelled, SelectWriterDone
<1>3. writerDone \/ writerErr => writerDone' \/ writerErr'
  BY DEF CallerStep, AddKey, Finish, Close, BuilderStep, DispatchPending, DispatchEmpty,
     AcceptKey, StartDrain, SelectSend, DispatchSend, SelectCancelled, SelectWriterDone,
     ConsumePipelineError, TypeInv, TypeOK, PoolTypeOK
<1>4. outcome = "building" /\ ~workersShutDown /\ pc \notin {"shutWait", "shutWriter"}
  BY DEF ChannelInv, CallerStep, AddKey, Finish, Close, BuilderStep, DispatchPending,
     DispatchEmpty, AcceptKey, StartDrain, SelectSend, SelectCancelled, SelectWriterDone,
     TypeInv, TypeOK, PoolTypeOK
<1>5. /\ failed' => \/ groupErr' # "none" \/ writerDone' \/ writerErr' \/ Aborting'
                    \/ \E w \in Workers : wpc'[w] \in {"send", "return"} /\ werr'[w]
      /\ outcome' = "building" /\ pc' # "finalize"
  <2>1. outcome' = "building" /\ pc' # "finalize"
    BY <1>4, CleanupChannels DEF CallerStep, AddKey, Finish, Close, BuilderStep,
       DispatchPending, DispatchEmpty, DispatchBlockWork, AcceptKey, StartDrain, SelectSend,
       DispatchSend, SelectCancelled, SelectWriterDone, DispatchFailed
  <2> QED BY <1>2, <1>3, <1>4, <2>1 DEF FailureInv, Aborting
<1>6. op' = "finish" => ~writerErr' \/ Aborting'
  <2>1. ASSUME NEW b \in Blocks, AddKey(b) PROVE op' # "finish"
    BY <2>1 DEF AddKey, ChannelInv, TypeInv, TypeOK, BuilderTypeOK
  <2>2. ASSUME Finish PROVE op' = "finish" => ~writerErr' \/ Aborting'
    <3>1. CASE totalKeysAdded # TotalKeys \/ writerErr
      BY <1>4, <2>2, <3>1, CleanupChannels DEF Finish, Aborting
    <3>2. CASE ~(totalKeysAdded # TotalKeys \/ writerErr)
      BY <2>2, <3>2 DEF Finish
    <3> QED BY <3>1, <3>2
  <2>3. ASSUME Close PROVE Aborting'
    BY <1>4, <2>3, CleanupChannels DEF Close, Aborting
  <2>4. ASSUME DispatchPending \/ DispatchEmpty \/ AcceptKey \/ StartDrain \/ SelectSend
        PROVE  UNCHANGED <<op, writerErr>>
    BY <2>4 DEF DispatchPending, DispatchEmpty, AcceptKey, StartDrain, SelectSend,
       DispatchSend, builderVars
  <2>5. ASSUME SelectCancelled \/ SelectWriterDone, op' = "finish" PROVE Aborting'
    <3>1. op = "finish"
      BY <2>5 DEF SelectCancelled, SelectWriterDone, builderVars
    <3>2. PICK why : Cleanup(why)
      BY <2>5, <3>1 DEF SelectCancelled, SelectWriterDone, DispatchFailed
    <3> QED BY <1>4, <3>2, CleanupChannels DEF Aborting
  <2>6. ~Aborting
    BY <1>4 DEF Aborting
  <2> QED BY <2>1, <2>2, <2>3, <2>4, <2>5, <2>6 DEF CallerStep, BuilderStep, FailureInv
<1> QED BY <1>5, <1>6 DEF FailureInv

(* Every step keeps a failure on its way to the result of Finish. *)
LEMMA FailureInvStep ==
  ASSUME TypeInv, ChannelInv, FailureInv, [Next]_vars
  PROVE  FailureInv'
<1>1. CASE UserCancel /\ UNCHANGED builderVars
  BY <1>1 DEF UserCancel, chanVars, workerVars, writerVars, mainVars, builderVars,
     FailureInv, Aborting
<1>2. CASE UNCHANGED vars
  BY <1>2 DEF vars, poolVars, chanVars, ctxVars, workerVars, writerVars, mainVars,
     builderVars, FailureInv, Aborting
<1> QED
  BY <1>1, <1>2, WorkerFailureInv, WriterFailureInv, TeardownFailureInv, CallerFailureInv
  DEF Next, PoolStep

(* A new pipeline has open channels, no failure and no block dispatched. *)
LEMMA InitPipeline == Init => OrderInv /\ ChannelInv /\ FailureInv
<1> SUFFICES ASSUME Init PROVE OrderInv /\ ChannelInv /\ FailureInv
  OBVIOUS
<1>1. OrderInv
  BY DEF Init, OrderInv
<1>2. ChannelInv
  BY DEF Init, PoolInit, IWInit, ChannelInv
<1>3. FailureInv
  BY DEF Init, PoolInit, FailureInv
<1> QED BY <1>1, <1>2, <1>3

(* The inductive invariant of the sorted pipeline holds in every state of it: types,
   dispatch order, channel and file discipline, and failures on their way to Finish. *)
THEOREM PipelineInvariant == Spec => [](TypeInv /\ OrderInv /\ ChannelInv /\ FailureInv)
<1> QED BY InitTypeInv, InitPipeline, NextTypeInv, OrderInvStep, ChannelInvStep,
           FailureInvStep, PTL DEF Spec

(* No goroutine sends on a closed channel and none closes a channel twice, however
   the errors of workers, writer and caller interleave with Finish and Close. *)
THEOREM ChannelSafety == Spec => []NoChannelPanic
<1>1. TypeInv /\ ChannelInv => NoChannelPanic
  BY DEF TypeInv, TypeOK, PoolTypeOK, ChannelInv, NoChannelPanic, AllWorkersExited
<1> QED BY <1>1, PipelineInvariant, PTL

(* The index file is closed only when no worker or writer can write to it. *)
THEOREM FileSafety == Spec => []NoWriteToClosedFile
<1>1. ChannelInv => NoWriteToClosedFile
  BY DEF ChannelInv, NoWriteToClosedFile, AllWorkersExited, WriterStopped
<1> QED BY <1>1, PipelineInvariant, PTL

(* A block that failed to build or to be written makes Finish fail. *)
THEOREM NoFailureSwallowed == Spec => []FailureNotSwallowed
<1>1. FailureInv => FailureNotSwallowed
  BY DEF FailureInv, FailureNotSwallowed
<1> QED BY <1>1, PipelineInvariant, PTL

--------------------------------------------------------------------------------
(* The writer and the exits of the workers. *)

(* The writer advances over exactly the blocks it has committed. *)
LEMMA WriterWriterInv ==
  ASSUME TypeInv, ChannelInv, WriterInv, WriterStep
  PROVE  WriterInv'
<1> USE ConstantTypes DEF chanVars, iwVars, mainVars
<1>0. UNCHANGED <<writerErr, pc, outcome>> /\ (Aborting' <=> Aborting)
  BY DEF WriterStep, WriterReceive, WriterEmit, WriterCancel, WriterClose, Aborting
<1>1. CASE WriterReceive
  BY <1>0, <1>1 DEF WriterReceive, WriterInv, WriterStopped, NextIsReady, WriterAt
<1>2. CASE WriterEmit
  <2> PICK r \in reorder, ok \in BOOLEAN :
        /\ r.blockID = nextBlockID
        /\ WriteMetadata(r.blockID, r.n, ok)
        /\ nextBlockID' = IF ok THEN nextBlockID + 1 ELSE nextBlockID
        /\ writerPc' = IF ok THEN WriterAt(reorder', nextBlockID') ELSE "cancel"
        /\ writerDone' = (writerDone \/ ~ok)
    BY <1>2 DEF WriterEmit
  <2>1. r.blockID \in Blocks
    BY DEF TypeInv, TypeOK, PoolTypeOK, Result
  <2>2. nextBlockID' = blockCount' /\ nextBlockID' <= NumBlocks
    BY <2>1 DEF WriterInv, WriteMetadata, Advance, TypeInv, TypeOK, PoolTypeOK, IWTypeOK
  <2> QED BY <2>2 DEF WriterInv, WriterStopped, NextIsReady, WriterAt
<1>3. CASE WriterCancel \/ WriterClose
  <2>1. UNCHANGED <<nextBlockID, blockCount, reorder, resultChan, resultClosed, writerDone>>
    BY <1>3 DEF WriterCancel, WriterClose
  <2>2. NextIsReady' <=> NextIsReady
    BY <2>1 DEF NextIsReady
  <2> QED BY <1>0, <1>3, <2>1, <2>2 DEF WriterCancel, WriterClose, WriterInv, WriterStopped
<1> QED BY <1>1, <1>2, <1>3 DEF WriterStep

(* No other step disturbs what the writer knows of its progress. *)
LEMMA WriterInvStep ==
  ASSUME TypeInv, ChannelInv, FailureInv, WriterInv, [Next]_vars
  PROVE  WriterInv'
<1> USE DEF iwVars, chanVars, ctxVars, workerVars, writerVars, mainVars
<1>1. ASSUME UNCHANGED <<writerPc, nextBlockID, reorder, blockCount>>,
             writerDone \/ writerErr \/ Aborting => writerDone' \/ writerErr' \/ Aborting',
             resultClosed => UNCHANGED resultChan /\ resultClosed'
      PROVE  WriterInv'
  <2>1. (NextIsReady' <=> NextIsReady) /\ (WriterStopped' <=> WriterStopped)
    BY <1>1 DEF NextIsReady, WriterStopped
  <2> QED BY <1>1, <2>1 DEF WriterInv
<1>2. ASSUME NEW w \in Workers, WorkerStep(w), UNCHANGED builderVars PROVE WriterInv'
  <2>1. UNCHANGED <<writerPc, nextBlockID, reorder, blockCount, writerDone, writerErr, pc,
                    outcome>>
    BY <1>2 DEF WorkerStep, WorkerReceive, WorkerFinish, WorkerExit, WorkerCancelled,
       WorkerAddKeys, WorkerBuild, WorkerSend, WorkerSendCancelled, WorkerReturnErr
  <2> QED BY <1>1, <1>2, <2>1, WorkerStepResultOpen DEF Aborting
<1>3. ASSUME TeardownStep, UNCHANGED builderVars PROVE WriterInv'
  <2>1. UNCHANGED <<writerPc, nextBlockID, reorder, blockCount, resultChan, writerErr>>
    BY <1>3 DEF TeardownStep, ShutdownWait, ShutdownWriter, CloseAndRemove, Drain, DrainWait,
       DrainWriter, Cleanup, FinalizeIndex, Finalize
  <2>2. resultClosed => resultClosed'
    BY <1>3 DEF TeardownStep, ShutdownWait, ShutdownWriter, Drain, DrainWait, DrainWriter,
       FinalizeIndex
  <2>3. writerDone \/ Aborting => writerDone' \/ Aborting'
    <3>1. CASE ShutdownWait \/ ShutdownWriter \/ Drain \/ DrainWait
      BY <3>1 DEF ShutdownWait, ShutdownWriter, Drain, DrainWait, Aborting
    <3>2. CASE DrainWriter
      <4>1. CASE DrainCause = "none"
        BY <3>2, <4>1 DEF DrainWriter, DrainCause, Aborting
      <4>2. CASE DrainCause # "none"
        BY <3>2, <4>2, CleanupChannels DEF DrainWriter, Aborting
      <4> QED BY <4>1, <4>2
    <3>3. CASE FinalizeIndex
      BY <3>3 DEF FinalizeIndex, Aborting, ChannelInv
    <3> QED BY <1>3, <3>1, <3>2, <3>3 DEF TeardownStep
  <2> QED BY <1>1, <2>1, <2>2, <2>3
<1>4. ASSUME CallerStep \/ BuilderStep, ~CallAfterClose PROVE WriterInv'
  <2>1. UNCHANGED <<writerPc, nextBlockID, reorder, resultChan, resultClosed>>
    BY <1>4 DEF CallerStep, AddKey, Finish, Close, BuilderStep, DispatchPending,
       DispatchEmpty, AcceptKey, StartDrain, SelectSend, DispatchSend, SelectCancelled,
       SelectWriterDone
  <2>2. writerDone \/ writerErr => writerDone' \/ writerErr'
    BY <1>4 DEF CallerStep, AddKey, Finish, Close, BuilderStep, DispatchPending,
       DispatchEmpty, AcceptKey, StartDrain, SelectSend, DispatchSend, SelectCancelled,
       SelectWriterDone, ConsumePipelineError, TypeInv, TypeOK, PoolTypeOK
  <2>3. UNCHANGED blockCount
    BY <1>4 DEF CallerStep, AddKey, Finish, Close, BuilderStep, DispatchPending,
       DispatchEmpty, AcceptKey, StartDrain, SelectSend, DispatchSend, SelectCancelled,
       SelectWriterDone, DispatchFailed, Cleanup, CloseAndRemove
  <2>4. ~Aborting
    BY <1>4 DEF Aborting, ChannelInv, CallerStep, AddKey, Finish, Close, BuilderStep,
       DispatchPending, DispatchEmpty, AcceptKey, StartDrain, SelectSend, SelectCancelled,
       SelectWriterDone
  <2> QED BY <1>1, <2>1, <2>2, <2>3, <2>4
<1>5. CASE UserCancel
  BY <1>1, <1>5 DEF UserCancel, Aborting
<1>6. CASE UNCHANGED vars
  BY <1>1, <1>6 DEF vars, poolVars, Aborting
<1> QED
  BY <1>2, <1>3, <1>4, <1>5, <1>6, WriterWriterInv DEF Next, PoolStep, CallAfterClose

(* A worker exits only when there is no work left for it or the build is failing. *)
LEMMA ExitInvStep ==
  ASSUME TypeInv, ChannelInv, ExitInv, [Next]_vars
  PROVE  ExitInv'
<1> USE DEF iwVars, chanVars, ctxVars, workerVars, writerVars, mainVars
<1>1. ASSUME NEW w \in Workers, WorkerStep(w) PROVE ExitInv'
  BY <1>1 DEF ExitInv, WorkerStep, WorkerReceive, WorkerFinish, WorkerExit, WorkerCancelled,
     WorkerAddKeys, WorkerBuild, WorkerSend, WorkerSendCancelled, WorkerReturnErr, TypeInv,
     TypeOK, PoolTypeOK
<1>2. ASSUME WriterStep \/ UserCancel \/ UNCHANGED vars PROVE ExitInv'
  <2>1. UNCHANGED <<groupErr, wpc, workClosed, workChan>>
    BY <1>2 DEF WriterStep, WriterReceive, WriterEmit, WriterCancel, WriterClose, UserCancel,
       vars, poolVars
  <2> QED BY <2>1 DEF ExitInv
<1>3. ASSUME TeardownStep PROVE ExitInv'
  <2>1. /\ UNCHANGED <<groupErr, wpc>>
        /\ workClosed => workClosed'
        /\ workChan' \in {workChan, <<>>}
    BY <1>3 DEF TeardownStep, ShutdownWait, ShutdownWriter, Drain, DrainWait, DrainWriter,
       Cleanup, FinalizeIndex
  <2> QED BY <2>1 DEF ExitInv
<1>4. ASSUME CallerStep \/ BuilderStep, ~CallAfterClose PROVE ExitInv'
  <2>1. CASE SelectSend
    BY <2>1 DEF SelectSend, DispatchSend, ExitInv
  <2>2. CASE ~SelectSend
    <3>1. UNCHANGED <<groupErr, wpc, workChan>>
      BY <1>4, <2>2 DEF CallerStep, AddKey, Finish, Close, BuilderStep, DispatchPending,
         DispatchEmpty, AcceptKey, StartDrain, SelectCancelled, SelectWriterDone
    <3>2. workClosed => workClosed'
      BY <1>4, <2>2 DEF CallerStep, AddKey, Finish, Close, BuilderStep, DispatchPending,
         DispatchEmpty, AcceptKey, StartDrain, SelectCancelled, SelectWriterDone,
         DispatchFailed, Cleanup
    <3> QED BY <3>1, <3>2 DEF ExitInv
  <2> QED BY <2>1, <2>2
<1> QED BY <1>1, <1>2, <1>3, <1>4 DEF Next, PoolStep, CallAfterClose

--------------------------------------------------------------------------------
(* No block is lost. *)

(* Both parts of BlocksInv survive a step that keeps every block located or the
   build doomed, and does not dispatch. *)
LEMMA BlocksKept ==
  ASSUME BlocksInv, UNCHANGED nextBlockToWrite,
         pc' \in {"drain", "drainWait", "drainWriter", "finalize"} =>
             pc \in {"drain", "drainWait", "drainWriter", "finalize"},
         Doomed => Doomed',
         \A b \in Blocks : Located(b) => Located(b)' \/ Doomed'
  PROVE  BlocksInv'
  BY DEF BlocksInv, Blocks

(* A worker that drops a block dooms the build; otherwise it passes the block on. *)
LEMMA WorkerBlocksInv ==
  ASSUME TypeInv, ChannelInv, BlocksInv, NEW w \in Workers, WorkerStep(w),
         UNCHANGED builderVars
  PROVE  BlocksInv'
<1> USE DEF iwVars, chanVars, ctxVars, workerVars, writerVars, mainVars
<1>0. /\ workChan \in Seq(Job) /\ resultChan \in Seq(Result)
      /\ wpc \in [Workers -> {"recv", "check", "build", "send", "return", "exit"}]
      /\ wjob \in [Workers -> Job] /\ workerDone \in BOOLEAN
  BY DEF TypeInv, TypeOK, PoolTypeOK
<1>1. UNCHANGED <<nextBlockID, reorder, writerDone, writerErr, pc, outcome, job,
                  nextBlockToWrite>>
  BY DEF WorkerStep, WorkerReceive, WorkerFinish, WorkerExit, WorkerCancelled,
     WorkerAddKeys, WorkerBuild, WorkerSend, WorkerSendCancelled, WorkerReturnErr,
     builderVars
<1>2. groupErr # "none" => groupErr' # "none"
  BY DEF WorkerStep, WorkerReceive, WorkerFinish, WorkerExit, WorkerCancelled,
     WorkerAddKeys, WorkerBuild, WorkerSend, WorkerSendCancelled, WorkerReturnErr
<1>9. workerDone => workerDone'
  BY DEF WorkerStep, WorkerReceive, WorkerFinish, WorkerExit, WorkerCancelled,
     WorkerAddKeys, WorkerBuild, WorkerSend, WorkerSendCancelled, WorkerReturnErr
<1>3. ASSUME Starved PROVE Starved' \/ groupErr' # "none"
  <2>1. ASSUME workChan # <<>>
        PROVE  workChan' # <<>> \/ \E v \in Workers : wpc'[v] = "check"
    BY <1>0, <2>1 DEF WorkerStep, WorkerReceive, WorkerFinish, WorkerExit, WorkerCancelled,
       WorkerAddKeys, WorkerBuild, WorkerSend, WorkerSendCancelled, WorkerReturnErr
  <2>2. ASSUME NEW v \in Workers, wpc[v] = "check"
        PROVE  wpc'[v] = "check" \/ groupErr' # "none"
    BY <1>0, <1>2, <1>3, <2>2 DEF Starved, WorkerStep, WorkerReceive, WorkerFinish,
       WorkerExit, WorkerCancelled, WorkerAddKeys, WorkerBuild, WorkerSend,
       WorkerSendCancelled, WorkerReturnErr
  <2> QED BY <1>1, <1>3, <1>9, <2>1, <2>2 DEF Starved
<1>4. Doomed => Doomed'
  BY <1>1, <1>2, <1>3 DEF Doomed, Aborting
<1>5. ASSUME NEW b \in Blocks, NEW i \in DOMAIN workChan, workChan[i].blockID = b
      PROVE  Located(b)'
  <2>1. CASE WorkerReceive(w)
    <3>1. CASE i = 1
      <4>1. wjob'[w] = workChan[1] /\ wpc'[w] = "check"
        BY <1>0, <2>1 DEF WorkerReceive
      <4> QED BY <1>5, <3>1, <4>1 DEF Located
    <3>2. CASE i # 1
      <4>1. i - 1 \in DOMAIN workChan' /\ workChan'[i - 1] = workChan[i]
        BY <1>0, <2>1, <3>2 DEF WorkerReceive
      <4> QED BY <1>5, <4>1 DEF Located
    <3> QED BY <3>1, <3>2
  <2>2. CASE ~WorkerReceive(w)
    <3>1. workChan' = workChan
      BY <2>2 DEF WorkerStep, WorkerFinish, WorkerExit, WorkerCancelled, WorkerAddKeys,
         WorkerBuild, WorkerSend, WorkerSendCancelled, WorkerReturnErr
    <3> QED BY <1>5, <3>1 DEF Located
  <2> QED BY <2>1, <2>2
<1>6. ASSUME NEW b \in Blocks, NEW v \in Workers,
             wpc[v] \in {"check", "build", "send"}, wjob[v].blockID = b
      PROVE  Located(b)' \/ groupErr' # "none"
  <2>1. CASE WorkerSend(w) /\ v = w
    <3>1. /\ Len(resultChan) + 1 \in DOMAIN resultChan'
          /\ resultChan'[Len(resultChan) + 1].blockID = b
      BY <1>0, <1>6, <2>1 DEF WorkerSend
    <3> QED BY <3>1 DEF Located
  <2>2. CASE ~(WorkerSend(w) /\ v = w)
    <3>1. \/ wpc'[v] \in {"check", "build", "send"} /\ wjob'[v] = wjob[v]
          \/ groupErr' # "none"
      BY <1>0, <1>2, <1>6, <2>2 DEF WorkerStep, WorkerReceive, WorkerFinish, WorkerExit,
         WorkerCancelled, WorkerAddKeys, WorkerBuild, WorkerSend, WorkerSendCancelled,
         WorkerReturnErr
    <3> QED BY <1>6, <3>1 DEF Located
  <2> QED BY <2>1, <2>2
<1>7. ASSUME NEW b \in Blocks, NEW i \in DOMAIN resultChan, resultChan[i].blockID = b
      PROVE  Located(b)'
  <2>1. i \in DOMAIN resultChan' /\ resultChan'[i] = resultChan[i]
    <3>1. CASE WorkerSend(w)
      <4>1. [blockID |-> wjob[w].blockID, n |-> wjob[w].n, err |-> werr[w]] \in Result
        BY <1>0 DEF Job, Result, TypeInv, TypeOK, PoolTypeOK
      <4> QED BY <1>0, <3>1, <4>1 DEF WorkerSend
    <3>2. CASE ~WorkerSend(w)
      <4>1. resultChan' = resultChan
        BY <3>2 DEF WorkerStep, WorkerReceive, WorkerFinish, WorkerExit, WorkerCancelled,
           WorkerAddKeys, WorkerBuild, WorkerSendCancelled, WorkerReturnErr
      <4> QED BY <4>1
    <3> QED BY <3>1, <3>2
  <2> QED BY <1>7, <2>1 DEF Located
<1>8. ASSUME NEW b \in Blocks, Located(b) PROVE Located(b)' \/ Doomed'
  <2>1. CASE \/ b < nextBlockID
             \/ pc = "select" /\ job.blockID = b
             \/ \E r \in reorder : r.blockID = b
    BY <1>1, <2>1 DEF Located
  <2>2. CASE \E i \in DOMAIN workChan : workChan[i].blockID = b
    BY <1>5, <2>2
  <2>3. CASE \E v \in Workers : wpc[v] \in {"check", "build", "send"} /\ wjob[v].blockID = b
    BY <1>6, <2>3 DEF Doomed
  <2>4. CASE \E i \in DOMAIN resultChan : resultChan[i].blockID = b
    BY <1>7, <2>4
  <2> QED BY <1>8, <2>1, <2>2, <2>3, <2>4 DEF Located
<1> QED BY <1>1, <1>4, <1>8, BlocksKept

(* The writer moves blocks to the reorder buffer and then to the index, or fails. *)
LEMMA WriterBlocksInv ==
  ASSUME TypeInv, ChannelInv, BlocksInv, WriterStep, UNCHANGED builderVars
  PROVE  BlocksInv'
<1> USE DEF iwVars, chanVars, ctxVars, workerVars, writerVars, mainVars
<1>0. resultChan \in Seq(Result) /\ nextBlockID \in Nat /\ writerDone \in BOOLEAN
  BY DEF TypeInv, TypeOK, PoolTypeOK
<1>1. UNCHANGED <<workChan, wpc, wjob, groupErr, writerErr, pc, outcome, job,
                  nextBlockToWrite>>
  BY DEF WriterStep, WriterReceive, WriterEmit, WriterCancel, WriterClose, builderVars
<1>4. writerDone => writerDone'
  BY <1>0 DEF WriterStep, WriterReceive, WriterEmit, WriterCancel, WriterClose
<1>5. workerDone => workerDone'
  BY DEF WriterStep, WriterReceive, WriterEmit, WriterCancel, WriterClose
<1>2. Doomed => Doomed'
  BY <1>1, <1>4, <1>5 DEF Doomed, Starved, Aborting
<1>3. ASSUME NEW b \in Blocks, Located(b) PROVE Located(b)' \/ Doomed'
  <2>1. CASE \/ \E i \in DOMAIN workChan : workChan[i].blockID = b
             \/ \E w \in Workers : wpc[w] \in {"check", "build", "send"}
                                   /\ wjob[w].blockID = b
             \/ pc = "select" /\ job.blockID = b
    BY <1>1, <2>1 DEF Located
  <2>2. CASE b < nextBlockID
    <3>1. nextBlockID <= nextBlockID'
      BY <1>0 DEF WriterStep, WriterReceive, WriterEmit, WriterCancel, WriterClose
    <3>2. nextBlockID' \in Nat
      BY <1>0 DEF WriterStep, WriterReceive, WriterEmit, WriterCancel, WriterClose
    <3> QED BY <1>0, <2>2, <3>1, <3>2 DEF Located, Blocks
  <2>3. ASSUME NEW r \in reorder, r.blockID = b PROVE Located(b)' \/ writerDone'
    <3>1. CASE WriterEmit
      <4> PICK e \in reorder, ok \in BOOLEAN :
            /\ e.blockID = nextBlockID
            /\ reorder' = reorder \ {e}
            /\ nextBlockID' = IF ok THEN nextBlockID + 1 ELSE nextBlockID
            /\ writerDone' = (writerDone \/ ~ok)
        BY <3>1 DEF WriterEmit
      <4>1. CASE r # e
        BY <2>3, <4>1 DEF Located
      <4>2. CASE r = e /\ ok
        <5>1. b < nextBlockID'
          BY <1>0, <2>3, <4>2
        <5> QED BY <5>1 DEF Located
      <4>3. CASE ~ok
        BY <4>3
      <4> QED BY <4>1, <4>2, <4>3
    <3>2. CASE ~WriterEmit
      <4>1. r \in reorder'
        BY <3>2 DEF WriterStep, WriterReceive, WriterCancel, WriterClose
      <4> QED BY <2>3, <4>1 DEF Located
    <3> QED BY <3>1, <3>2
  <2>4. ASSUME NEW i \in DOMAIN resultChan, resultChan[i].blockID = b
        PROVE  Located(b)' \/ writerDone'
    <3>1. CASE WriterReceive
      <4>1. CASE i = 1
        <5>1. Head(resultChan) = resultChan[1]
          BY <1>0, <2>4
        <5>2. writerDone' \/ resultChan[1] \in reorder'
          BY <3>1, <5>1 DEF WriterReceive
        <5> QED BY <2>4, <4>1, <5>2 DEF Located
      <4>2. CASE i # 1
        <5>1. i - 1 \in DOMAIN resultChan' /\ resultChan'[i - 1] = resultChan[i]
          BY <1>0, <3>1, <4>2 DEF WriterReceive
        <5> QED BY <2>4, <5>1 DEF Located
      <4> QED BY <4>1, <4>2
    <3>2. CASE ~WriterReceive
      <4>1. resultChan' = resultChan
        BY <3>2 DEF WriterStep, WriterEmit, WriterCancel, WriterClose
      <4> QED BY <2>4, <4>1 DEF Located
    <3> QED BY <3>1, <3>2
  <2> QED BY <1>3, <2>1, <2>2, <2>3, <2>4 DEF Located, Doomed
<1> QED BY <1>1, <1>2, <1>3, BlocksKept

(* A step that moves no block and offers none keeps BlocksInv, if it does not
   forget a failure. *)
LEMMA NothingMoves ==
  ASSUME BlocksInv,
         UNCHANGED <<nextBlockID, reorder, resultChan, wpc, wjob, workChan, nextBlockToWrite,
                     groupErr>>,
         pc # "select",
         workerDone => workerDone',
         writerDone \/ writerErr \/ Aborting => writerDone' \/ writerErr' \/ Aborting',
         pc' \in {"drain", "drainWait", "drainWriter", "finalize"} =>
             pc \in {"drain", "drainWait", "drainWriter", "finalize"}
  PROVE  BlocksInv'
<1>1. Doomed => Doomed'
  BY DEF Doomed, Starved
<1>2. ASSUME NEW b \in Blocks, Located(b) PROVE Located(b)'
  BY <1>2 DEF Located
<1> QED BY <1>1, <1>2, BlocksKept

(* Once the caller aborts, blocks may be lost: nothing will be finalized. *)
LEMMA AbortingKeepsBlocks ==
  ASSUME Aborting', pc' \notin {"drain", "drainWait", "drainWriter", "finalize"}
  PROVE  BlocksInv'
  BY DEF BlocksInv, Doomed

(* Teardown loses no block of a build that can still succeed. *)
LEMMA TeardownBlocksInv ==
  ASSUME TypeInv, ChannelInv, BlocksInv, TeardownStep, UNCHANGED builderVars
  PROVE  BlocksInv'
<1> USE DEF iwVars, chanVars, ctxVars, workerVars, writerVars, mainVars
<1>1. CASE ShutdownWait \/ ShutdownWriter
  BY <1>1, AbortingKeepsBlocks DEF ShutdownWait, ShutdownWriter, Aborting
<1>2. CASE Drain \/ DrainWait
  <2>1. /\ UNCHANGED <<nextBlockID, reorder, resultChan, wpc, wjob, workChan,
                       nextBlockToWrite, groupErr, writerDone, writerErr, outcome>>
        /\ pc \in {"drain", "drainWait"} /\ pc' \in {"drainWait", "drainWriter"}
    BY <1>2 DEF Drain, DrainWait, builderVars
  <2>2. workerDone => workerDone'
    BY <1>2 DEF Drain, DrainWait
  <2> QED BY <2>1, <2>2, NothingMoves DEF Aborting
<1>3. CASE DrainWriter
  <2>1. CASE DrainCause = "none"
    <3>1. /\ UNCHANGED <<nextBlockID, reorder, resultChan, wpc, wjob, workChan,
                         nextBlockToWrite, groupErr, writerErr, outcome, workerDone>>
          /\ pc = "drainWriter" /\ pc' = "finalize"
      BY <1>3, <2>1 DEF DrainWriter, builderVars
    <3>2. ~writerDone
      BY <2>1 DEF DrainCause
    <3> QED BY <3>1, <3>2, NothingMoves DEF Aborting
  <2>2. CASE DrainCause # "none"
    BY <1>3, <2>2, CleanupChannels, AbortingKeepsBlocks DEF DrainWriter, Aborting
  <2> QED BY <2>1, <2>2
<1>4. CASE FinalizeIndex
  <2>1. /\ UNCHANGED <<nextBlockID, reorder, resultChan, wpc, wjob, workChan,
                       nextBlockToWrite, groupErr, writerDone, writerErr, workerDone>>
        /\ pc = "finalize" /\ pc' = "idle"
    BY <1>4 DEF FinalizeIndex, builderVars
  <2>2. ~Aborting
    BY <2>1 DEF Aborting, ChannelInv
  <2> QED BY <2>1, <2>2, NothingMoves
<1> QED BY <1>1, <1>2, <1>3, <1>4 DEF TeardownStep

(* A call that starts moves no block. *)
LEMMA CallerBlocksInv ==
  ASSUME TypeInv, ChannelInv, BlocksInv, CallerStep, ~CallAfterClose
  PROVE  BlocksInv'
<1> USE DEF iwVars, chanVars, ctxVars, workerVars, writerVars, mainVars
<1>1. ASSUME NEW b \in Blocks, AddKey(b) PROVE BlocksInv'
  <2>1. /\ UNCHANGED <<nextBlockID, reorder, resultChan, wpc, wjob, workChan,
                       nextBlockToWrite, groupErr, workerDone, outcome>>
        /\ pc = "idle" /\ pc' \in {"idle", "next"}
    BY <1>1 DEF AddKey
  <2>2. writerDone \/ writerErr => writerDone' \/ writerErr'
    BY <1>1 DEF AddKey, ConsumePipelineError, TypeInv, TypeOK, PoolTypeOK
  <2> QED BY <2>1, <2>2, NothingMoves DEF Aborting
<1>2. ASSUME Finish PROVE BlocksInv'
  <2>1. ~workersShutDown
    BY <1>2 DEF Finish, ChannelInv
  <2>2. CASE totalKeysAdded # TotalKeys \/ writerErr
    BY <1>2, <2>1, <2>2, CleanupChannels, AbortingKeepsBlocks DEF Finish, Aborting
  <2>3. CASE ~(totalKeysAdded # TotalKeys \/ writerErr)
    <3>1. /\ UNCHANGED <<nextBlockID, reorder, resultChan, wpc, wjob, workChan,
                         nextBlockToWrite, groupErr, workerDone, outcome, writerDone,
                         writerErr>>
          /\ pc = "idle" /\ pc' = "next"
      BY <1>2, <2>3 DEF Finish
    <3> QED BY <3>1, NothingMoves DEF Aborting
  <2> QED BY <2>2, <2>3
<1>3. ASSUME Close PROVE BlocksInv'
  <2>1. ~workersShutDown
    BY <1>3 DEF Close, ChannelInv
  <2> QED BY <1>3, <2>1, CleanupChannels, AbortingKeepsBlocks DEF Close, Aborting
<1> QED BY <1>1, <1>2, <1>3 DEF CallerStep

(* The next block is dispatched in order, and located in the select. *)
LEMMA DispatchBlocksInv ==
  ASSUME TypeInv, OrderInv, ChannelInv, BlocksInv, DispatchPending \/ DispatchEmpty
  PROVE  BlocksInv'
<1> USE DEF iwVars, chanVars, ctxVars, workerVars, writerVars, mainVars
<1>1. /\ UNCHANGED <<nextBlockID, reorder, resultChan, wpc, wjob, workChan, groupErr,
                     workerDone, outcome, writerDone, writerErr>>
      /\ pc = "next" /\ pc' = "select"
  BY DEF DispatchPending, DispatchEmpty, DispatchBlockWork
<1>2. job'.blockID = nextBlockToWrite /\ nextBlockToWrite' = nextBlockToWrite + 1
  BY DEF DispatchPending, DispatchEmpty, DispatchBlockWork, MustDispatchPending, OrderInv
<1>3. Doomed => Doomed'
  BY <1>1 DEF Doomed, Starved, Aborting
<1>4. ASSUME NEW b \in Blocks, Located(b) PROVE Located(b)'
  BY <1>1, <1>4 DEF Located
<1>5. ASSUME NEW b \in Blocks, b < nextBlockToWrite' PROVE Located(b)' \/ Doomed'
  <2>1. CASE b = nextBlockToWrite
    BY <1>1, <1>2, <2>1 DEF Located
  <2>2. CASE b # nextBlockToWrite
    <3>1. b < nextBlockToWrite
      BY <1>2, <1>5, <2>2, ConstantTypes DEF TypeInv, TypeOK, BuilderTypeOK
    <3> QED BY <1>3, <1>4, <3>1 DEF BlocksInv
  <2> QED BY <2>1, <2>2
<1> QED BY <1>1, <1>5 DEF BlocksInv, Blocks

(* The select hands the block to workChan, or gives up and aborts the build. *)
LEMMA SelectBlocksInv ==
  ASSUME TypeInv, OrderInv, ChannelInv, FailureInv, WriterInv, BlocksInv,
         SelectSend \/ SelectCancelled \/ SelectWriterDone
  PROVE  BlocksInv'
<1> USE DEF iwVars, chanVars, ctxVars, workerVars, writerVars, mainVars
<1>0. ~workersShutDown /\ ~resultClosed /\ outcome = "building" /\ pc = "select"
  BY DEF SelectSend, SelectCancelled, SelectWriterDone, ChannelInv
<1>1. CASE SelectSend
  <2>1. /\ UNCHANGED <<nextBlockID, reorder, resultChan, wpc, wjob, groupErr, workerDone,
                       outcome, writerDone, writerErr, nextBlockToWrite>>
        /\ pc' = "next" /\ workChan' = Append(workChan, job)
    BY <1>1 DEF SelectSend, DispatchSend, builderVars
  <2>2. workChan \in Seq(Job) /\ job \in Job
    BY DEF TypeInv, TypeOK, PoolTypeOK, BuilderTypeOK
  <2>3. /\ workChan' # <<>>
        /\ Len(workChan) + 1 \in DOMAIN workChan' /\ workChan'[Len(workChan) + 1] = job
        /\ \A i \in DOMAIN workChan : i \in DOMAIN workChan' /\ workChan'[i] = workChan[i]
    BY <2>1, <2>2
  <2>4. Doomed => Doomed'
    BY <1>0, <2>1, <2>3 DEF Doomed, Starved, Aborting
  <2>5. ASSUME NEW b \in Blocks, Located(b) PROVE Located(b)'
    BY <2>1, <2>3, <2>5 DEF Located
  <2> QED BY <2>1, <2>4, <2>5, BlocksKept
<1>2. CASE SelectCancelled \/ SelectWriterDone
  <2>0. UNCHANGED <<nextBlockToWrite, groupErr>>
    BY <1>2 DEF SelectCancelled, SelectWriterDone, builderVars
  <2>1. PICK why : DispatchFailed(why)
    BY <1>2 DEF SelectCancelled, SelectWriterDone
  <2>2. CASE op = "add"
    <3>1. pc' = "idle" /\ UNCHANGED workerDone
      BY <2>1, <2>2 DEF DispatchFailed
    <3>2. nextBlockToWrite < NumBlocks
      BY <1>0, <2>2, ConstantTypes DEF OrderInv, TypeInv, TypeOK, BuilderTypeOK
    <3>3. CASE SelectCancelled
      <4>1. Starved'
        BY <2>0, <3>1, <3>2, <3>3 DEF SelectCancelled, Starved
      <4> QED BY <3>1, <4>1 DEF BlocksInv, Doomed
    <3>4. CASE SelectWriterDone
      <4>1. WriterStopped /\ ~Aborting
        BY <1>0, <3>4 DEF SelectWriterDone, WriterDoneReady, ChannelInv, Aborting
      <4>2. writerDone \/ writerErr
        BY <1>0, <4>1 DEF WriterInv
      <4>3. writerErr'
        BY <3>4, <4>2 DEF SelectWriterDone, ConsumePipelineError
      <4> QED BY <3>1, <4>3 DEF BlocksInv, Doomed
    <3> QED BY <1>2, <3>3, <3>4
  <2>3. CASE op # "add"
    BY <1>0, <2>1, <2>3, CleanupChannels, AbortingKeepsBlocks DEF DispatchFailed, Aborting
  <2> QED BY <2>2, <2>3
<1> QED BY <1>1, <1>2

(* Every step keeps each dispatched block in some place of the pipeline, unless
   Finish is bound to fail. *)
LEMMA BlocksInvStep ==
  ASSUME TypeInv, OrderInv, ChannelInv, FailureInv, WriterInv, BlocksInv, [Next]_vars
  PROVE  BlocksInv'
<1> USE DEF iwVars, chanVars, ctxVars, workerVars, writerVars, mainVars
<1>1. CASE AcceptKey
  <2>1. /\ UNCHANGED <<nextBlockID, reorder, resultChan, wpc, wjob, workChan,
                       nextBlockToWrite, groupErr, workerDone, outcome, writerDone,
                       writerErr>>
        /\ pc = "next" /\ pc' = "idle"
    BY <1>1 DEF AcceptKey
  <2> QED BY <2>1, NothingMoves DEF Aborting
<1>2. CASE StartDrain
  <2>1. /\ UNCHANGED <<nextBlockID, reorder, resultChan, wpc, wjob, workChan,
                       nextBlockToWrite, groupErr, workerDone, outcome, writerDone,
                       writerErr>>
        /\ pc = "next" /\ pc' = "drain"
    BY <1>2 DEF StartDrain, builderVars
  <2>2. nextBlockToWrite = NumBlocks
    BY <1>2, ConstantTypes DEF StartDrain, MustDispatchEmpty, DispatchLimit, TypeInv, TypeOK,
       BuilderTypeOK
  <2>3. Doomed => Doomed'
    BY <2>1 DEF Doomed, Starved, Aborting
  <2>4. ASSUME NEW b \in Blocks, Located(b) PROVE Located(b)'
    BY <2>1, <2>4 DEF Located
  <2> QED BY <2>1, <2>2, <2>3, <2>4 DEF BlocksInv, Blocks
<1>3. CASE UserCancel /\ UNCHANGED builderVars
  <2>1. /\ UNCHANGED <<nextBlockID, reorder, resultChan, wpc, wjob, workChan,
                       nextBlockToWrite, groupErr, pc, job, outcome, writerDone, writerErr>>
        /\ workerDone'
    BY <1>3 DEF UserCancel, builderVars
  <2>2. Doomed => Doomed'
    BY <2>1 DEF Doomed, Starved, Aborting
  <2>3. ASSUME NEW b \in Blocks, Located(b) PROVE Located(b)'
    BY <2>1, <2>3 DEF Located
  <2> QED BY <2>1, <2>2, <2>3, BlocksKept
<1>4. CASE UNCHANGED vars
  <2>1. UNCHANGED <<nextBlockID, reorder, resultChan, wpc, wjob, workChan, workerDone,
                    nextBlockToWrite, groupErr, pc, job, outcome, writerDone, writerErr>>
    BY <1>4 DEF vars, poolVars, builderVars
  <2>2. Doomed => Doomed'
    BY <2>1 DEF Doomed, Starved, Aborting
  <2>3. ASSUME NEW b \in Blocks, Located(b) PROVE Located(b)'
    BY <2>1, <2>3 DEF Located
  <2> QED BY <2>1, <2>2, <2>3, BlocksKept
<1> QED
  BY <1>1, <1>2, <1>3, <1>4, WorkerBlocksInv, WriterBlocksInv, TeardownBlocksInv,
     CallerBlocksInv, DispatchBlocksInv, SelectBlocksInv
  DEF Next, PoolStep, CallerStep, BuilderStep, CallAfterClose

--------------------------------------------------------------------------------
(* The parallel build implements BuildOutcome. *)

(* The full inductive invariant holds initially. *)
LEMMA InitIInv == Init => IInv
<1> SUFFICES ASSUME Init PROVE IInv
  OBVIOUS
<1>1. WriterInv
  BY ConstantTypes DEF Init, PoolInit, IWInit, WriterInv, WriterStopped, NextIsReady
<1>2. ExitInv
  BY DEF Init, PoolInit, ExitInv
<1>3. BlocksInv
  BY ConstantTypes DEF Init, BlocksInv
<1> QED BY <1>1, <1>2, <1>3, InitTypeInv, InitPipeline DEF IInv

(* The full inductive invariant is preserved by every step. *)
LEMMA NextIInv == IInv /\ [Next]_vars => IInv'
  BY NextTypeInv, OrderInvStep, ChannelInvStep, FailureInvStep, WriterInvStep, ExitInvStep,
     BlocksInvStep DEF IInv

(* When the index is finalized every block has been committed. *)
LEMMA AllCommitted ==
  ASSUME IInv, pc = "finalize"
  PROVE  blockCount = NumBlocks
<1>1. /\ groupErr = "none" /\ ~writerDone /\ ~writerErr /\ ~Aborting
      /\ resultClosed /\ WriterStopped
      /\ \A w \in Workers : wpc[w] = "exit"
  BY DEF IInv, ChannelInv, FailureInv, Aborting, AllWorkersExited
<1>2. PICK w \in Workers : TRUE
  BY WorkerPoolAssumption, FS_EmptySet
<1>3. workChan = <<>>
  BY <1>1, <1>2 DEF IInv, ExitInv
<1>4. resultChan = <<>> /\ ~NextIsReady
  BY <1>1 DEF IInv, WriterInv
<1>5. nextBlockToWrite = NumBlocks /\ ~Doomed
  BY <1>1, <1>3, ConstantTypes DEF IInv, BlocksInv, Doomed, Starved
<1>6. CASE nextBlockID < NumBlocks
  <2>1. nextBlockID \in Blocks
    BY <1>6, ConstantTypes DEF IInv, TypeInv, TypeOK, PoolTypeOK
  <2>2. Located(nextBlockID)
    BY <1>5, <1>6, <2>1 DEF IInv, BlocksInv
  <2>3. ~(nextBlockID < nextBlockID)
    BY DEF IInv, TypeInv, TypeOK, PoolTypeOK
  <2>4. NextIsReady
    BY <1>1, <1>3, <1>4, <2>2, <2>3 DEF Located, NextIsReady
  <2> QED BY <1>4, <2>4
<1>7. CASE ~(nextBlockID < NumBlocks)
  BY <1>7, ConstantTypes DEF IInv, WriterInv, TypeInv, TypeOK, PoolTypeOK
<1> QED BY <1>6, <1>7

(* Every step of the pipeline is a step of the abstract build, or none. *)
LEMMA StepRefines ==
  ASSUME IInv, [Next]_vars
  PROVE  [Outcome!Next]_(Outcome!outcomeVars)
<1> USE DEF iwVars, chanVars, ctxVars, workerVars, writerVars, mainVars
<1> SUFFICES \/ Outcome!Next
             \/ UNCHANGED <<blockCount, outcome, output>>
  BY DEF Outcome!outcomeVars
<1>1. ASSUME NEW why, Cleanup(why), outcome = "building"
      PROVE  Outcome!Abort \/ UNCHANGED <<blockCount, outcome, output>>
  BY <1>1 DEF Cleanup, CloseAndRemove, Outcome!Abort
<1>2. ASSUME NEW w \in Workers, WorkerStep(w)
      PROVE  UNCHANGED <<blockCount, outcome, output>>
  BY <1>2 DEF WorkerStep, WorkerReceive, WorkerFinish, WorkerExit, WorkerCancelled,
     WorkerAddKeys, WorkerBuild, WorkerSend, WorkerSendCancelled, WorkerReturnErr
<1>3. ASSUME WriterStep PROVE Outcome!Commit \/ UNCHANGED <<blockCount, outcome, output>>
  <2>1. CASE WriterEmit
    <3>1. outcome = "building"
      BY <2>1, WriterStepFileOpen DEF IInv
    <3>2. UNCHANGED <<outcome, output>>
      BY <2>1 DEF WriterEmit
    <3>3. blockCount' \in {blockCount, blockCount + 1}
      BY <2>1 DEF WriterEmit, WriteMetadata, Advance
    <3>4. blockCount < NumBlocks
      BY <2>1, ConstantTypes DEF WriterEmit, IInv, WriterInv, TypeInv, TypeOK, PoolTypeOK,
         Result
    <3> QED BY <3>1, <3>2, <3>3, <3>4 DEF Outcome!Commit
  <2>2. CASE ~WriterEmit
    BY <1>3, <2>2 DEF WriterStep, WriterReceive, WriterCancel, WriterClose
  <2> QED BY <2>1, <2>2
<1>4. ASSUME TeardownStep
      PROVE  \/ Outcome!Abort \/ Outcome!Succeed
             \/ UNCHANGED <<blockCount, outcome, output>>
  <2>0. outcome = "building"
    BY <1>4 DEF IInv, ChannelInv, TeardownStep, ShutdownWait, ShutdownWriter, Drain,
       DrainWait, DrainWriter, FinalizeIndex
  <2>1. CASE ShutdownWait \/ Drain \/ DrainWait
    BY <2>1 DEF ShutdownWait, Drain, DrainWait
  <2>2. CASE ShutdownWriter
    BY <2>0, <2>2 DEF ShutdownWriter, CloseAndRemove, Outcome!Abort
  <2>3. CASE DrainWriter
    BY <1>1, <2>0, <2>3 DEF DrainWriter
  <2>4. CASE FinalizeIndex
    <3>1. blockCount = NumBlocks
      BY <2>4, AllCommitted DEF FinalizeIndex
    <3> QED BY <2>0, <2>4, <3>1 DEF FinalizeIndex, Finalize, Outcome!Abort, Outcome!Succeed
  <2> QED BY <1>4, <2>1, <2>2, <2>3, <2>4 DEF TeardownStep
<1>5. ASSUME CallerStep \/ BuilderStep, ~CallAfterClose
      PROVE  Outcome!Abort \/ UNCHANGED <<blockCount, outcome, output>>
  <2>0. outcome = "building"
    BY <1>5 DEF IInv, ChannelInv, CallerStep, AddKey, Finish, Close, BuilderStep,
       DispatchPending, DispatchEmpty, AcceptKey, StartDrain, SelectSend, SelectCancelled,
       SelectWriterDone
  <2> QED BY <1>1, <1>5, <2>0 DEF CallerStep, AddKey, Finish, Close, BuilderStep,
             DispatchPending, DispatchEmpty, AcceptKey, StartDrain, SelectSend, DispatchSend,
             SelectCancelled, SelectWriterDone, DispatchFailed
<1>6. ASSUME UserCancel \/ UNCHANGED vars PROVE UNCHANGED <<blockCount, outcome, output>>
  BY <1>6 DEF UserCancel, vars, poolVars
<1> QED
  BY <1>2, <1>3, <1>4, <1>5, <1>6 DEF Next, PoolStep, CallAfterClose, Outcome!Next

(* The parallel sorted build implements the abstract build: blocks are committed
   one by one in order, Finish succeeds only when all of them are - although
   workers, writer and caller may drop blocks on the way - and every other end
   removes the file. *)
THEOREM ParallelRefinesBuildOutcome == Spec => ImplementsBuildOutcome
<1>1. Init => Outcome!Init
  BY DEF Init, PoolInit, IWInit, Outcome!Init
<1> QED BY <1>1, InitIInv, NextIInv, StepRefines, PTL
           DEF Spec, ImplementsBuildOutcome, Outcome!Spec

================================================================================
