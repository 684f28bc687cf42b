-------------------------- MODULE ParallelIndexProofs ---------------------------
(***************************************************************************)
(* The parallel sorted build writes the right index: proofs that a Finish  *)
(* which returns nil leaves a file holding exactly the accepted keys, that *)
(* committed payload cells are never overwritten, and that the drain       *)
(* reports the failure which stopped the pipeline.                         *)
(***************************************************************************)
EXTENDS ParallelSortedProofs, SequenceTheorems

(* What the builder counts: every accepted key is either dispatched or pending,
   and a block that is not dispatched yet holds the pending entries or nothing. *)
CountInv ==
    /\ keysBefore + pendingEntries = totalKeysAdded
    /\ \A b \in Blocks : b >= nextBlockToWrite =>
          accepted[b] = IF b = currentBlockIdx THEN pendingEntries ELSE 0
    /\ op = "finish" => totalKeysAdded = TotalKeys
    /\ pc \in {"drain", "drainWait", "drainWriter", "finalize"} => pendingEntries = 0

(* start[b] is the number of keys in the blocks before b, for the dispatched
   blocks: the prefix sums of accepted. *)
StartsOf(start) ==
    /\ start[0] = 0
    /\ \A b \in Blocks : b < nextBlockToWrite => start[b + 1] = start[b] + accepted[b]
    /\ \A b, c \in 0 .. nextBlockToWrite : b <= c => start[b] <= start[c]
    /\ keysBefore = start[nextBlockToWrite]

(* Wherever a work item or a result is, it describes a dispatched block: all of
   the block's keys, at the place the prefix sums give it. *)
CountIs(r) == r.blockID < nextBlockToWrite /\ r.n = accepted[r.blockID]
PlaceIs(start, j) == CountIs(j) /\ j.keysBefore = start[j.blockID]
ItemsInv(start) ==
    /\ pc = "select" => PlaceIs(start, job)
    /\ \A i \in DOMAIN workChan : PlaceIs(start, workChan[i])
    /\ \A w \in Workers : wpc[w] \in {"check", "build", "send"} => PlaceIs(start, wjob[w])
    /\ \A i \in DOMAIN resultChan : CountIs(resultChan[i])
    /\ \A r \in reorder : CountIs(r)

(* The payloads of a block are in the file from the moment its worker reports
   success, and stay there. *)
Written(start, b) ==
    \A i \in start[b] .. start[b] + accepted[b] - 1 : i < TotalKeys /\ payloads[i] = b
WrittenInv(start) ==
    /\ \A w \in Workers : wpc[w] = "send" /\ ~werr[w] => Written(start, wjob[w].blockID)
    /\ \A i \in DOMAIN resultChan :
          ~resultChan[i].err => Written(start, resultChan[i].blockID)
    /\ \A r \in reorder : Written(start, r.blockID)
    /\ \A b \in Blocks : b < blockCount => Written(start, b)

(* What the writer goroutine has recorded of the committed blocks. *)
CommitInv(start) ==
    /\ blockCount <= nextBlockToWrite
    /\ keyCount = start[blockCount]
    /\ Len(metadata) = blockCount
    /\ \A b \in Blocks : b < blockCount => metadata[b + 1] = BlockData(b, accepted[b])
    /\ Len(payloadHash) = blockCount \/ (WriterStopped /\ failed)
    /\ Len(payloadHash) >= blockCount
    /\ \A b \in Blocks : b < blockCount => payloadHash[b + 1] = BlockData(b, accepted[b])
    /\ \/ Len(ramIndex) = blockCount
       \/ Len(ramIndex) = blockCount + 1 /\ WriterStopped /\ (failed \/ outcome # "building")
    /\ \A i \in 1 .. Len(ramIndex) :
          ramIndex[i].keysBefore = start[i - 1] /\ ramIndex[i].metadataOffset = i - 1

Layout(start) == StartsOf(start) /\ ItemsInv(start) /\ WrittenInv(start) /\ CommitInv(start)
LayoutInv == \E start \in [0 .. NumBlocks -> Nat] : Layout(start)

(* A build that returned nil. *)
OkInv ==
    outcome = "ok" => /\ output = "final"
                      /\ blockCount = NumBlocks /\ keyCount = TotalKeys
                      /\ Len(ramIndex) = NumBlocks + 1

(* Who cancelled the workers: unless the caller did or the build is aborted, an
   error that the dispatching goroutine has taken or will take from writerDone. *)
CauseInv ==
    /\ writerPc \in {"cancel", "close"} => writerDone \/ writerErr \/ Aborting
    /\ ~ctxDone /\ ~Aborting /\ groupErr # "failure"
       /\ \/ groupErr = "cancelled"
          \/ workerDone /\ pc \notin {"drainWriter", "finalize"} /\ outcome = "building"
       => writerDone \/ writerErr

IndexInv == IInv /\ CountInv /\ LayoutInv /\ OkInv /\ CauseInv

--------------------------------------------------------------------------------
(* Counting keys. *)

(* The numbers the builder counts with. *)
LEMMA CountTypes ==
  ASSUME TypeInv
  PROVE  /\ NumBlocks \in Nat /\ TotalKeys \in Nat /\ Blocks = 0 .. NumBlocks - 1
         /\ nextBlockToWrite \in 0 .. NumBlocks /\ currentBlockIdx \in Blocks
         /\ lastBlockID \in Blocks \cup {-1}
         /\ keysBefore \in Nat /\ pendingEntries \in Nat /\ totalKeysAdded \in Nat
         /\ accepted \in [Blocks -> Nat] /\ target \in Blocks
         /\ op \in {"add", "finish"}
  BY ConstantTypes DEF TypeInv, TypeOK, BuilderTypeOK

(* The counters of addKeyParallel, dispatchBlockWork and finishParallel agree with
   the keys accepted, also across a dispatch that failed after it had advanced
   them. *)
LEMMA CountInvStep ==
  ASSUME TypeInv, OrderInv, ChannelInv, CountInv, [Next]_vars
  PROVE  CountInv'
<1> USE DEF iwVars, chanVars, ctxVars, workerVars, writerVars, mainVars
<1>1. CASE DispatchPending \/ DispatchEmpty
  <2>1. /\ UNCHANGED <<currentBlockIdx, totalKeysAdded, op, accepted>>
        /\ pc' = "select"
    BY <1>1 DEF DispatchPending, DispatchEmpty, DispatchBlockWork
  <2>2. nextBlockToWrite' = nextBlockToWrite + 1
    BY <1>1 DEF DispatchPending, DispatchEmpty, DispatchBlockWork, MustDispatchPending,
       OrderInv
  <2>3. keysBefore' + pendingEntries' = keysBefore + pendingEntries
    BY <1>1, CountTypes DEF DispatchPending, DispatchEmpty, DispatchBlockWork
  <2>4. ASSUME NEW b \in Blocks, b >= nextBlockToWrite'
        PROVE  accepted'[b] = IF b = currentBlockIdx' THEN pendingEntries' ELSE 0
    <3>1. b >= nextBlockToWrite /\ b # nextBlockToWrite
      BY <2>2, <2>4, CountTypes, SMTT(30)
    <3>2. pendingEntries > 0 => b # currentBlockIdx
      BY <3>1 DEF OrderInv
    <3>3. pendingEntries' \in {0, pendingEntries}
      BY <1>1 DEF DispatchPending, DispatchEmpty
    <3> QED BY <2>1, <2>4, <3>1, <3>2, <3>3, CountTypes DEF CountInv
  <2> QED BY <2>1, <2>3, <2>4 DEF CountInv
<1>2. CASE AcceptKey
  <2>1. /\ pc = "next" /\ op = "add" /\ pc' = "idle" /\ op' = "add"
        /\ currentBlockIdx' = target
        /\ pendingEntries' = pendingEntries + 1
        /\ totalKeysAdded' = totalKeysAdded + 1
        /\ accepted' = [accepted EXCEPT ![target] = @ + 1]
        /\ UNCHANGED <<nextBlockToWrite, keysBefore>>
    BY <1>2 DEF AcceptKey
  <2>2. keysBefore' + pendingEntries' = totalKeysAdded'
    BY <2>1, CountTypes DEF CountInv
  <2>3. target = lastBlockID /\ nextBlockToWrite <= target
    BY <2>1, CountTypes DEF OrderInv
  <2>4. pendingEntries > 0 => target = currentBlockIdx
    BY <1>2 DEF AcceptKey, MustDispatchPending, OrderInv
  <2>5. ASSUME NEW b \in Blocks, b >= nextBlockToWrite'
        PROVE  accepted'[b] = IF b = currentBlockIdx' THEN pendingEntries' ELSE 0
    <3>1. accepted[b] = IF b = currentBlockIdx THEN pendingEntries ELSE 0
      BY <2>1, <2>5 DEF CountInv
    <3>2. accepted'[b] = IF b = target THEN accepted[b] + 1 ELSE accepted[b]
      BY <2>1, CountTypes
    <3>3. CASE pendingEntries > 0
      BY <2>1, <2>4, <3>1, <3>2, <3>3, CountTypes
    <3>4. CASE pendingEntries = 0
      <4>1. accepted[b] = 0
        BY <3>1, <3>4
      <4> QED BY <2>1, <3>2, <3>4, <4>1
    <3> QED BY <3>3, <3>4, CountTypes
  <2> QED BY <2>1, <2>2, <2>5 DEF CountInv
<1>3. CASE StartDrain
  <2>1. UNCHANGED <<keysBefore, pendingEntries, totalKeysAdded, nextBlockToWrite, accepted,
                    currentBlockIdx, op>>
    BY <1>3 DEF StartDrain, builderVars
  <2>2. pendingEntries = 0
    BY <1>3, CountTypes DEF StartDrain, MustDispatchPending
  <2> QED BY <2>1, <2>2 DEF CountInv
<1>4. CASE Finish
  <2>1. UNCHANGED <<keysBefore, pendingEntries, totalKeysAdded, nextBlockToWrite, accepted,
                    currentBlockIdx>>
    BY <1>4 DEF Finish
  <2>2. pc' \in {"idle", "shutWait", "next"} /\ pc = "idle" /\ ~closed
    BY <1>4 DEF Finish, Cleanup
  <2>3. op' = "finish" => totalKeysAdded = TotalKeys
    BY <1>4, <2>2 DEF Finish, ChannelInv, CountInv
  <2> QED BY <2>1, <2>2, <2>3 DEF CountInv
<1>5. ASSUME NEW b \in Blocks, AddKey(b) PROVE CountInv'
  <2>1. UNCHANGED <<keysBefore, pendingEntries, totalKeysAdded, nextBlockToWrite, accepted,
                    currentBlockIdx>>
    BY <1>5 DEF AddKey
  <2>2. pc' \in {"idle", "next"} /\ op' \in {op, "add"}
    BY <1>5 DEF AddKey
  <2> QED BY <2>1, <2>2 DEF CountInv
<1>6. CASE Close \/ SelectSend \/ SelectCancelled \/ SelectWriterDone
  <2>1. UNCHANGED <<keysBefore, pendingEntries, totalKeysAdded, nextBlockToWrite, accepted,
                    currentBlockIdx, op>>
    BY <1>6 DEF Close, SelectSend, SelectCancelled, SelectWriterDone, builderVars
  <2>2. pc' \in {"idle", "shutWait", "next"}
    BY <1>6 DEF Close, SelectSend, SelectCancelled, SelectWriterDone, DispatchFailed, Cleanup
  <2> QED BY <2>1, <2>2 DEF CountInv
<1>7. CASE PoolStep \/ UNCHANGED vars
  <2>1. UNCHANGED <<keysBefore, pendingEntries, totalKeysAdded, nextBlockToWrite, accepted,
                    currentBlockIdx, op>>
    BY <1>7 DEF PoolStep, vars, builderVars
  <2>2. \/ pc' = pc
        \/ pc' \in {"idle", "shutWait", "shutWriter"}
        \/ pc \in {"drain", "drainWait", "drainWriter", "finalize"}
    BY <1>7 DEF PoolStep, TeardownStep, ShutdownWait, ShutdownWriter, Drain, DrainWait,
       DrainWriter, FinalizeIndex, Cleanup, WorkerStep, WorkerReceive, WorkerFinish,
       WorkerExit, WorkerCancelled, WorkerAddKeys, WorkerBuild, WorkerSend,
       WorkerSendCancelled, WorkerReturnErr, WriterStep, WriterReceive, WriterEmit,
       WriterCancel, WriterClose, UserCancel, vars, poolVars
  <2> QED BY <2>1, <2>2 DEF CountInv
<1> QED
  BY <1>1, <1>2, <1>3, <1>4, <1>5, <1>6, <1>7 DEF Next, CallerStep, BuilderStep, CallAfterClose

--------------------------------------------------------------------------------
(* Who cancelled the workers. *)

(* Every cancellation of workerCtx has its cause on record. *)
LEMMA CauseInvStep ==
  ASSUME TypeInv, ChannelInv, FailureInv, WriterInv, CauseInv, [Next]_vars
  PROVE  CauseInv'
<1> USE DEF iwVars, chanVars, ctxVars, workerVars, writerVars, mainVars
<1>1. ASSUME NEW w \in Workers, WorkerStep(w), UNCHANGED builderVars
      PROVE  CauseInv'
  <2>1. ~resultClosed
    BY <1>1, WorkerStepResultOpen
  <2>2. pc \notin {"drainWriter", "finalize"} /\ outcome = "building"
    BY <2>1 DEF ChannelInv
  <2>3. UNCHANGED <<writerPc, writerDone, writerErr, pc, outcome, ctxDone>>
    BY <1>1 DEF WorkerStep, WorkerReceive, WorkerFinish, WorkerExit, WorkerCancelled,
       WorkerAddKeys, WorkerBuild, WorkerSend, WorkerSendCancelled, WorkerReturnErr
  <2>4. \/ UNCHANGED <<workerDone, groupErr>>
        \/ groupErr' = "failure"
        \/ groupErr' = groupErr /\ groupErr = "cancelled"
        \/ groupErr' = "cancelled" /\ groupErr = "none" /\ workerDone
    BY <1>1 DEF WorkerStep, WorkerReceive, WorkerFinish, WorkerExit, WorkerCancelled,
       WorkerAddKeys, WorkerBuild, WorkerSend, WorkerSendCancelled, WorkerReturnErr,
       TypeInv, TypeOK, PoolTypeOK
  <2> QED BY <2>2, <2>3, <2>4 DEF CauseInv, Aborting
<1>2. ASSUME WriterStep, UNCHANGED builderVars PROVE CauseInv'
  <2>1. UNCHANGED <<writerErr, pc, outcome, ctxDone, groupErr>>
    BY <1>2 DEF WriterStep, WriterReceive, WriterEmit, WriterCancel, WriterClose
  <2>2. writerDone => writerDone'
    BY <1>2 DEF WriterStep, WriterReceive, WriterEmit, WriterCancel, WriterClose
  <2>3. writerPc' \in {"cancel", "close"} => writerPc \in {"cancel", "close"} \/ writerDone'
    BY <1>2 DEF WriterStep, WriterReceive, WriterEmit, WriterCancel, WriterClose, WriterAt
  <2>4. workerDone' => workerDone \/ writerPc = "cancel"
    BY <1>2 DEF WriterStep, WriterReceive, WriterEmit, WriterCancel, WriterClose
  <2> QED BY <2>1, <2>2, <2>3, <2>4 DEF CauseInv, Aborting
<1>3. CASE UserCancel
  BY <1>3 DEF UserCancel, CauseInv, Aborting
<1>4. ASSUME TeardownStep, UNCHANGED builderVars PROVE CauseInv'
  <2>1. UNCHANGED <<writerPc, groupErr, ctxDone, writerErr>>
    BY <1>4 DEF TeardownStep, ShutdownWait, ShutdownWriter, Drain, DrainWait, DrainWriter,
       FinalizeIndex
  <2>2. CASE ShutdownWait \/ ShutdownWriter
    BY <2>1, <2>2 DEF ShutdownWait, ShutdownWriter, CauseInv, Aborting
  <2>3. CASE Drain \/ DrainWait
    <3>1. UNCHANGED <<writerDone, outcome>> /\ ~Aborting
      BY <2>3 DEF Drain, DrainWait, Aborting, ChannelInv
    <3>2. \/ UNCHANGED workerDone /\ pc \notin {"drainWriter", "finalize"}
          \/ pc' = "drainWriter"
      BY <2>3 DEF Drain, DrainWait
    <3> QED BY <2>1, <3>1, <3>2 DEF CauseInv, Aborting
  <2>4. CASE DrainWriter
    <3>1. CASE DrainCause = "none"
      <4>1. /\ ~writerDone /\ groupErr = "none" /\ writerDone' = FALSE
            /\ pc' = "finalize" /\ outcome' = outcome /\ pc = "drainWriter"
        BY <2>4, <3>1 DEF DrainWriter, DrainCause
      <4>2. ~Aborting
        BY <4>1 DEF Aborting, ChannelInv
      <4> QED BY <2>1, <4>1, <4>2 DEF CauseInv
    <3>2. CASE DrainCause # "none"
      <4>1. Aborting'
        BY <2>4, <3>2 DEF DrainWriter, Cleanup, Aborting
      <4> QED BY <4>1 DEF CauseInv
    <3> QED BY <3>1, <3>2
  <2>5. CASE FinalizeIndex
    <3>1. UNCHANGED writerDone /\ outcome' # "building" /\ pc = "finalize"
      BY <2>5 DEF FinalizeIndex
    <3>2. ~Aborting
      BY <3>1 DEF Aborting, ChannelInv
    <3> QED BY <2>1, <3>1, <3>2 DEF CauseInv
  <2> QED BY <1>4, <2>2, <2>3, <2>4, <2>5 DEF TeardownStep
<1>5. ASSUME NEW b \in Blocks, AddKey(b) PROVE CauseInv'
  <2>1. /\ UNCHANGED <<writerPc, groupErr, ctxDone, workerDone, outcome>>
        /\ pc = "idle" /\ pc' \in {"idle", "next"}
    BY <1>5 DEF AddKey
  <2>2. writerDone \/ writerErr => writerDone' \/ writerErr'
    BY <1>5 DEF AddKey, ConsumePipelineError, TypeInv, TypeOK, PoolTypeOK
  <2> QED BY <2>1, <2>2 DEF CauseInv, Aborting
<1>6. CASE Finish \/ Close \/ SelectCancelled \/ SelectWriterDone
  <2>0. /\ UNCHANGED <<writerPc, groupErr, ctxDone>>
        /\ pc \in {"idle", "select"}
    BY <1>6 DEF Finish, Close, SelectCancelled, SelectWriterDone
  <2>1. ~workersShutDown /\ outcome = "building"
    BY <1>6 DEF Finish, Close, SelectCancelled, SelectWriterDone, ChannelInv
  <2>2. writerDone \/ writerErr => writerDone' \/ writerErr'
    BY <1>6 DEF Finish, Close, SelectCancelled, SelectWriterDone, ConsumePipelineError,
       TypeInv, TypeOK, PoolTypeOK
  <2>3. \/ pc' = "shutWait"
        \/ pc' \in {"idle", "next"} /\ UNCHANGED <<workerDone, outcome>>
    BY <1>6, <2>1 DEF Finish, Close, SelectCancelled, SelectWriterDone, DispatchFailed,
       Cleanup
  <2> QED BY <2>0, <2>1, <2>2, <2>3 DEF CauseInv, Aborting
<1>7. CASE DispatchPending \/ DispatchEmpty \/ AcceptKey \/ StartDrain \/ SelectSend
  <2>1. UNCHANGED <<writerPc, groupErr, ctxDone, workerDone, outcome, writerDone, writerErr>>
    BY <1>7 DEF DispatchPending, DispatchEmpty, AcceptKey, StartDrain, SelectSend,
       DispatchSend
  <2>2. pc \in {"next", "select"} /\ pc' \in {"next", "select", "idle", "drain"}
    BY <1>7 DEF DispatchPending, DispatchEmpty, AcceptKey, StartDrain, SelectSend,
       DispatchBlockWork
  <2> QED BY <2>1, <2>2 DEF CauseInv, Aborting
<1>8. CASE UNCHANGED vars
  BY <1>8 DEF vars, poolVars, CauseInv, Aborting
<1> QED
  BY <1>1, <1>2, <1>3, <1>4, <1>5, <1>6, <1>7, <1>8
  DEF Next, PoolStep, CallerStep, BuilderStep, CallAfterClose

(* What drainParallelPipeline returns after a block failed is that failure and not
   the cancellation it caused, whatever the order in which workers and writer met
   it. *)
THEOREM DrainCauseCorrect == Spec => []DrainReportsFailure
<1>1. Init => IInv /\ CauseInv
  <2>1. Init => CauseInv
    BY DEF Init, PoolInit, CauseInv
  <2> QED BY <2>1, InitIInv
<1>2. IInv /\ CauseInv /\ [Next]_vars => (IInv /\ CauseInv)'
  BY NextIInv, CauseInvStep DEF IInv
<1>3. IInv /\ CauseInv => DrainReportsFailure
  <2> SUFFICES ASSUME IInv, CauseInv, pc = "drainWriter", failed, ~ctxDone, ~writerDone
               PROVE  groupErr = "failure"
    BY DEF DrainReportsFailure, DrainCause
  <2>1. ~Aborting /\ resultClosed /\ op = "finish"
    BY DEF IInv, ChannelInv, Aborting
  <2>2. ~writerErr /\ \A w \in Workers : wpc[w] = "exit"
    BY <2>1 DEF IInv, FailureInv, ChannelInv, AllWorkersExited
  <2>3. groupErr # "none"
    BY <2>1, <2>2 DEF IInv, FailureInv
  <2>4. groupErr # "cancelled"
    BY <2>1, <2>2 DEF CauseInv
  <2> QED BY <2>3, <2>4 DEF IInv, TypeInv, TypeOK, PoolTypeOK
<1> QED BY <1>1, <1>2, <1>3, PTL DEF Spec

--------------------------------------------------------------------------------
(* The layout of the file. *)

Starts == [0 .. NumBlocks -> Nat]

(* The payload ranges of two dispatched blocks do not overlap: the offsets come
   from the one running sum of dispatchBlockWork. *)
LEMMA RangesDisjoint ==
  ASSUME TypeInv, NEW start \in Starts, StartsOf(start),
         NEW b \in Blocks, NEW c \in Blocks, b < nextBlockToWrite, c < nextBlockToWrite,
         b # c,
         NEW i \in start[b] .. start[b] + accepted[b] - 1
  PROVE  ~(start[c] <= i /\ i < start[c] + accepted[c])
<1>1. /\ b \in Nat /\ c \in Nat /\ nextBlockToWrite \in Nat
      /\ b + 1 \in 0 .. nextBlockToWrite /\ c + 1 \in 0 .. nextBlockToWrite
      /\ b \in 0 .. nextBlockToWrite /\ c \in 0 .. nextBlockToWrite
  BY CountTypes, SMTT(30) DEF Blocks
<1>2. start[b + 1] = start[b] + accepted[b] /\ start[c + 1] = start[c] + accepted[c]
  BY DEF StartsOf
<1>3. b + 1 <= c \/ c + 1 <= b
  BY <1>1
<1>4. start[b + 1] <= start[c] \/ start[c + 1] <= start[b]
  BY <1>1, <1>3 DEF StartsOf
<1>5. /\ start[b] \in Nat /\ start[c] \in Nat /\ accepted[b] \in Nat /\ accepted[c] \in Nat
  BY CountTypes, SMTT(30) DEF Starts
<1>6. i \in Int /\ start[b] <= i /\ i < start[b] + accepted[b]
  BY <1>5
<1> QED BY <1>2, <1>4, <1>5, <1>6

(* A step that touches neither the blocks in the pipeline nor the file, and offers
   no new item. *)
LEMMA LayoutKept ==
  ASSUME NEW start \in Starts, Layout(start),
         UNCHANGED <<nextBlockToWrite, accepted, keysBefore, workChan, wpc, wjob, werr,
                     resultChan, reorder, payloads, blockCount, keyCount, metadata,
                     payloadHash, ramIndex>>,
         WriterStopped => WriterStopped',
         pc' = "select" => pc = "select" /\ job' = job,
         failed => failed',
         outcome # "building" => outcome' # "building"
  PROVE  Layout(start)'
<1>1. StartsOf(start)'
  BY DEF Layout, StartsOf
<1>2. ItemsInv(start)'
  BY DEF Layout, ItemsInv, PlaceIs, CountIs
<1>3. WrittenInv(start)'
  BY DEF Layout, WrittenInv, Written
<1>4. CommitInv(start)'
  BY DEF Layout, CommitInv
<1> QED BY <1>1, <1>2, <1>3, <1>4 DEF Layout

(* The payload write of a block (writePayloadsDirect) leaves the block written, and
   every other dispatched block as it was. *)
LEMMA PayloadWrite ==
  ASSUME TypeInv, NEW start \in Starts, StartsOf(start),
         NEW b \in Blocks, b < nextBlockToWrite,
         payloads' = PayloadsWith(b, accepted[b], start[b]),
         FitsPayloadRegion(accepted[b], start[b]) \/ accepted[b] = 0,
         accepted' = accepted,
         NEW c \in Blocks, c < nextBlockToWrite, c = b \/ Written(start, c)
  PROVE  Written(start, c)'
<1>1. /\ start[b] \in Nat /\ accepted[b] \in Nat /\ start[c] \in Nat /\ accepted[c] \in Nat
      /\ TotalKeys \in Nat
  <2>1. b \in 0 .. NumBlocks /\ c \in 0 .. NumBlocks
    BY CountTypes DEF Blocks
  <2> QED BY <2>1, CountTypes DEF Starts
<1>2. \A i \in 0 .. TotalKeys - 1 :
        payloads'[i] = IF start[b] <= i /\ i < start[b] + accepted[b] THEN b ELSE payloads[i]
  BY DEF PayloadsWith
<1> SUFFICES ASSUME NEW i \in start[c] .. start[c] + accepted[c] - 1
             PROVE  i < TotalKeys /\ payloads'[i] = c
  BY DEF Written
<1>3. i \in Nat /\ start[c] <= i /\ i < start[c] + accepted[c]
  BY <1>1
<1>4. CASE c = b
  <2>1. start[b] + accepted[b] <= TotalKeys
    BY <1>1, <1>3, <1>4 DEF FitsPayloadRegion
  <2>2. i \in 0 .. TotalKeys - 1
    BY <1>1, <1>3, <1>4, <2>1
  <2>3. i < TotalKeys
    BY <1>1, <1>3, <1>4, <2>1
  <2>4. payloads'[i] = b
    BY <1>2, <1>3, <1>4, <2>2
  <2> QED BY <1>4, <2>3, <2>4
<1>5. CASE c # b
  <2>1. ~(start[b] <= i /\ i < start[b] + accepted[b])
    BY <1>5, RangesDisjoint
  <2>2. i < TotalKeys /\ payloads[i] = c
    BY <1>5 DEF Written
  <2>3. i \in 0 .. TotalKeys - 1
    BY <1>1, <1>3, <2>2
  <2> QED BY <1>2, <2>1, <2>2, <2>3
<1> QED BY <1>4, <1>5

(* A worker carries its item through unchanged, and its payload write stays inside
   the block's own range. *)
LEMMA WorkerLayout ==
  ASSUME TypeInv, NEW start \in Starts, Layout(start),
         NEW w \in Workers, WorkerStep(w), UNCHANGED builderVars
  PROVE  Layout(start)'
<1> USE DEF iwVars, chanVars, ctxVars, workerVars, writerVars, mainVars
<1>0. /\ UNCHANGED <<nextBlockToWrite, accepted, keysBefore, job, pc, reorder, blockCount,
                     keyCount, metadata, payloadHash, ramIndex, writerPc, outcome>>
      /\ failed => failed'
  BY DEF builderVars, WorkerStep, WorkerReceive, WorkerFinish, WorkerExit, WorkerCancelled,
     WorkerAddKeys, WorkerBuild, WorkerSend, WorkerSendCancelled, WorkerReturnErr
<1>1. StartsOf(start)'
  BY <1>0 DEF Layout, StartsOf
<1>2. CommitInv(start)'
  BY <1>0 DEF Layout, CommitInv, WriterStopped
<1>t. /\ wpc \in [Workers -> {"recv", "check", "build", "send", "return", "exit"}]
      /\ wjob \in [Workers -> Job] /\ werr \in [Workers -> BOOLEAN]
      /\ workChan \in Seq(Job) /\ resultChan \in Seq(Result)
  BY DEF TypeInv, TypeOK, PoolTypeOK
<1>3. ASSUME UNCHANGED payloads, NEW b PROVE Written(start, b)' <=> Written(start, b)
  BY <1>0, <1>3 DEF Written
<1>4. ASSUME NEW j PROVE /\ CountIs(j)' <=> CountIs(j)
                         /\ PlaceIs(start, j)' <=> PlaceIs(start, j)
  BY <1>0 DEF CountIs, PlaceIs
<1>5. CASE WorkerReceive(w)
  <2>1. /\ UNCHANGED <<payloads, resultChan, werr>>
        /\ workChan # <<>> /\ workChan' = Tail(workChan)
        /\ wjob' = [wjob EXCEPT ![w] = Head(workChan)]
        /\ wpc' = [wpc EXCEPT ![w] = "check"]
    BY <1>5 DEF WorkerReceive
  <2>2. \A i \in DOMAIN workChan' : i + 1 \in DOMAIN workChan /\ workChan'[i] = workChan[i + 1]
    BY <1>t, <2>1
  <2>3. 1 \in DOMAIN workChan /\ Head(workChan) = workChan[1]
    BY <1>t, <2>1
  <2>4. /\ \A i \in DOMAIN workChan' : PlaceIs(start, workChan'[i])
        /\ PlaceIs(start, wjob'[w])
    BY <1>t, <2>1, <2>2, <2>3 DEF Layout, ItemsInv
  <2>5. \A v \in Workers : v # w => wpc'[v] = wpc[v] /\ wjob'[v] = wjob[v]
    BY <1>t, <2>1
  <2>6. wpc'[w] = "check"
    BY <1>t, <2>1
  <2>7. ItemsInv(start)'
    BY <1>0, <1>4, <2>1, <2>4, <2>5 DEF Layout, ItemsInv
  <2>8. WrittenInv(start)'
    BY <1>0, <1>3, <2>1, <2>5, <2>6 DEF Layout, WrittenInv
  <2> QED BY <1>1, <1>2, <2>7, <2>8 DEF Layout
<1>6. CASE WorkerFinish(w) \/ WorkerCancelled(w) \/ WorkerSendCancelled(w) \/ WorkerReturnErr(w)
  <2>1. /\ UNCHANGED <<payloads, resultChan, werr, wjob, workChan>>
        /\ wpc' = [wpc EXCEPT ![w] = "exit"]
    BY <1>6 DEF WorkerFinish, WorkerCancelled, WorkerSendCancelled, WorkerReturnErr,
       WorkerExit
  <2>2. \A v \in Workers : wpc'[v] \in {wpc[v], "exit"}
    BY <1>t, <2>1
  <2>3. ItemsInv(start)'
    BY <1>0, <1>4, <2>1, <2>2 DEF Layout, ItemsInv
  <2>4. WrittenInv(start)'
    BY <1>0, <1>3, <2>1, <2>2 DEF Layout, WrittenInv
  <2> QED BY <1>1, <1>2, <2>3, <2>4 DEF Layout
<1>7. CASE WorkerAddKeys(w)
  <2>1. /\ UNCHANGED <<payloads, resultChan, werr, wjob, workChan>>
        /\ wpc[w] = "check" /\ wpc' = [wpc EXCEPT ![w] = "build"]
    BY <1>7 DEF WorkerAddKeys
  <2>2. \A v \in Workers : wpc'[v] = wpc[v] \/ (wpc[v] = "check" /\ wpc'[v] = "build")
    BY <1>t, <2>1
  <2>3. ItemsInv(start)'
    BY <1>0, <1>4, <2>1, <2>2 DEF Layout, ItemsInv
  <2>4. WrittenInv(start)'
    BY <1>0, <1>3, <2>1, <2>2 DEF Layout, WrittenInv
  <2> QED BY <1>1, <1>2, <2>3, <2>4 DEF Layout
<1>8. CASE WorkerBuild(w)
  <2> DEFINE j == wjob[w]
  <2>1. /\ UNCHANGED <<resultChan, wjob, workChan>>
        /\ wpc[w] = "build" /\ wpc' = [wpc EXCEPT ![w] = "send"]
    BY <1>8 DEF WorkerBuild
  <2>2. j \in Job /\ PlaceIs(start, j)
    BY <1>t, <2>1 DEF Layout, ItemsInv
  <2>3. \A v \in Workers : wpc'[v] = wpc[v] \/ (wpc[v] = "build" /\ wpc'[v] = "send")
    BY <1>t, <2>1
  <2>4. ItemsInv(start)'
    BY <1>0, <1>4, <2>1, <2>3 DEF Layout, ItemsInv
  <2>5. \A v \in Workers : v # w => wpc'[v] = wpc[v] /\ werr'[v] = werr[v]
    BY <1>8, <1>t, <2>1 DEF WorkerBuild
  <2>6. CASE UNCHANGED payloads /\ werr' = [werr EXCEPT ![w] = TRUE]
    <3>1. werr'[w]
      BY <1>t, <2>6
    <3>2. WrittenInv(start)'
      BY <1>0, <1>3, <2>1, <2>5, <2>6, <3>1 DEF Layout, WrittenInv
    <3> QED BY <1>1, <1>2, <2>4, <3>2 DEF Layout
  <2>7. CASE /\ payloads' = PayloadsWith(j.blockID, j.n, j.keysBefore)
             /\ FitsPayloadRegion(j.n, j.keysBefore) \/ j.n = 0
    <3>1. /\ j.blockID \in Blocks /\ j.blockID < nextBlockToWrite
          /\ j.n = accepted[j.blockID] /\ j.keysBefore = start[j.blockID]
      BY <2>2 DEF PlaceIs, CountIs, Job
    <3>2. PICK b \in Blocks : b = j.blockID
      BY <3>1
    <3>3. /\ b < nextBlockToWrite
          /\ payloads' = PayloadsWith(b, accepted[b], start[b])
          /\ FitsPayloadRegion(accepted[b], start[b]) \/ accepted[b] = 0
      BY <2>7, <3>1, <3>2
    <3>4. ASSUME NEW c \in Blocks, c < nextBlockToWrite, c = b \/ Written(start, c)
          PROVE  Written(start, c)'
      BY <1>0, <3>3, <3>4, PayloadWrite DEF Layout
    <3>5. /\ \A v \in Workers : wpc[v] \in {"check", "build", "send"} =>
                wjob[v].blockID \in Blocks /\ wjob[v].blockID < nextBlockToWrite
          /\ \A i \in DOMAIN resultChan :
                resultChan[i].blockID \in Blocks /\ resultChan[i].blockID < nextBlockToWrite
      <4>1. /\ \A v \in Workers : wjob[v] \in Job
            /\ \A i \in DOMAIN resultChan : resultChan[i] \in Result
        BY <1>t
      <4> QED BY <4>1 DEF Layout, ItemsInv, PlaceIs, CountIs, Job, Result
    <3>6. \A r \in reorder : r.blockID \in Blocks /\ r.blockID < nextBlockToWrite
      BY DEF Layout, ItemsInv, CountIs, TypeInv, TypeOK, PoolTypeOK, Result
    <3>7. \A c \in Blocks : c < blockCount => c < nextBlockToWrite
      BY CountTypes, SMTT(30) DEF Blocks, Layout, CommitInv, TypeInv, TypeOK, PoolTypeOK, IWTypeOK
    <3>8. WrittenInv(start)'
      <4>1. ASSUME NEW v \in Workers, wpc'[v] = "send", ~werr'[v], NEW c, c = wjob[v].blockID
            PROVE  Written(start, c)'
        <5>1. c \in Blocks /\ c < nextBlockToWrite
          BY <2>3, <3>5, <4>1
        <5>2. c = b \/ Written(start, c)
          BY <2>5, <3>2, <4>1 DEF Layout, WrittenInv
        <5> QED BY <3>4, <5>1, <5>2
      <4>2. ASSUME NEW i \in DOMAIN resultChan, ~resultChan[i].err,
                   NEW c, c = resultChan[i].blockID
            PROVE  Written(start, c)'
        BY <3>4, <3>5, <4>2 DEF Layout, WrittenInv
      <4>3. /\ \A r \in reorder : Written(start, r.blockID)'
            /\ \A c \in Blocks : c < blockCount => Written(start, c)'
        BY <3>4, <3>6, <3>7 DEF Layout, WrittenInv
      <4> QED BY <1>0, <2>1, <4>1, <4>2, <4>3 DEF WrittenInv, Blocks
    <3> QED BY <1>1, <1>2, <2>4, <3>8 DEF Layout
  <2> QED BY <1>8, <2>6, <2>7 DEF WorkerBuild
<1>9. CASE WorkerSend(w)
  <2> DEFINE r == [blockID |-> wjob[w].blockID, n |-> wjob[w].n, err |-> werr[w]]
  <2>1. /\ UNCHANGED <<payloads, werr, wjob, workChan>>
        /\ wpc[w] = "send" /\ resultChan' = Append(resultChan, r)
        /\ wpc' = [wpc EXCEPT ![w] = IF werr[w] THEN "return" ELSE "recv"]
    BY <1>9 DEF WorkerSend
  <2>2. \A v \in Workers : wpc'[v] = wpc[v] \/ wpc'[v] \in {"return", "recv"}
    BY <1>t, <2>1
  <2>3. CountIs(r) /\ (~r.err => Written(start, r.blockID))
    BY <2>1 DEF Layout, ItemsInv, PlaceIs, CountIs, WrittenInv
  <2>4. \A i \in DOMAIN resultChan' :
          resultChan'[i] = r \/ (i \in DOMAIN resultChan /\ resultChan'[i] = resultChan[i])
    BY <1>t, <2>1 DEF Job, Result
  <2>5. /\ \A i \in DOMAIN resultChan' : CountIs(resultChan'[i])
        /\ \A i \in DOMAIN resultChan' :
              ~resultChan'[i].err => Written(start, resultChan'[i].blockID)
    BY <2>3, <2>4 DEF Layout, ItemsInv, WrittenInv
  <2>6. ItemsInv(start)'
    BY <1>0, <1>4, <2>1, <2>2, <2>5 DEF Layout, ItemsInv
  <2>7. WrittenInv(start)'
    BY <1>0, <1>3, <2>1, <2>2, <2>5 DEF Layout, WrittenInv
  <2> QED BY <1>1, <1>2, <2>6, <2>7 DEF Layout
<1> QED BY <1>5, <1>6, <1>7, <1>8, <1>9 DEF WorkerStep

(* The writer goroutine records each block right behind the ones before it; a
   failed write leaves one RAM index entry and one block hash too many, and stops
   the writer for good. *)
LEMMA WriterLayout ==
  ASSUME TypeInv, WriterInv, ChannelInv, NEW start \in Starts, Layout(start),
         WriterStep, UNCHANGED builderVars
  PROVE  Layout(start)'
<1> USE DEF iwVars, chanVars, ctxVars, workerVars, writerVars, mainVars
<1>0. /\ UNCHANGED <<nextBlockToWrite, accepted, keysBefore, job, pc, workChan, wpc, wjob,
                     werr, payloads, outcome>>
      /\ failed => failed'
  <2>1. UNCHANGED <<nextBlockToWrite, accepted, keysBefore, job, pc, workChan, wpc, wjob,
                    werr, payloads, outcome>>
    BY DEF builderVars, WriterStep, WriterReceive, WriterEmit, WriterCancel, WriterClose
  <2>2. failed => failed'
    BY DEF WriterStep, WriterReceive, WriterEmit, WriterCancel, WriterClose
  <2> QED BY <2>1, <2>2
<1>1. StartsOf(start)'
  BY <1>0 DEF Layout, StartsOf
<1>t. /\ resultChan \in Seq(Result) /\ reorder \in SUBSET Result
      /\ blockCount \in Nat /\ nextBlockToWrite \in Nat
      /\ ramIndex \in Seq(RamIndexEntry)
      /\ metadata \in Seq(BlockDataSet) /\ payloadHash \in Seq(BlockDataSet)
  BY CountTypes DEF TypeInv, TypeOK, PoolTypeOK, IWTypeOK
<1>3. ASSUME NEW b PROVE Written(start, b)' <=> Written(start, b)
  BY <1>0 DEF Written
<1>4. ASSUME NEW j PROVE /\ CountIs(j)' <=> CountIs(j)
                         /\ PlaceIs(start, j)' <=> PlaceIs(start, j)
  BY <1>0 DEF CountIs, PlaceIs
<1>5. CASE WriterReceive
  <2>1. /\ UNCHANGED <<blockCount, keyCount, metadata, payloadHash, ramIndex, failed>>
        /\ resultChan # <<>> /\ resultChan' = Tail(resultChan)
        /\ \/ reorder' = reorder
           \/ reorder' = reorder \cup {Head(resultChan)} /\ ~Head(resultChan).err
        /\ ~WriterStopped
    BY <1>5 DEF WriterReceive, WriterStopped
  <2>2. \A i \in DOMAIN resultChan' :
          i + 1 \in DOMAIN resultChan /\ resultChan'[i] = resultChan[i + 1]
    BY <1>t, <2>1
  <2>3. 1 \in DOMAIN resultChan /\ Head(resultChan) = resultChan[1]
    BY <1>t, <2>1
  <2>4. /\ \A i \in DOMAIN resultChan' : CountIs(resultChan'[i])
        /\ \A i \in DOMAIN resultChan' :
              ~resultChan'[i].err => Written(start, resultChan'[i].blockID)
    BY <2>2 DEF Layout, ItemsInv, WrittenInv
  <2>5. \A r \in reorder' : CountIs(r) /\ Written(start, r.blockID)
    BY <2>1, <2>3 DEF Layout, ItemsInv, WrittenInv
  <2>6. ItemsInv(start)'
    BY <1>0, <1>4, <2>4, <2>5 DEF Layout, ItemsInv
  <2>7. WrittenInv(start)'
    BY <1>0, <1>3, <2>1, <2>4, <2>5 DEF Layout, WrittenInv
  <2>8. CommitInv(start)'
    BY <1>0, <2>1 DEF Layout, CommitInv
  <2> QED BY <1>1, <2>6, <2>7, <2>8 DEF Layout
<1>6. CASE WriterEmit
  <2>1. PICK r \in reorder, ok \in BOOLEAN :
          /\ r.blockID = nextBlockID
          /\ reorder' = reorder \ {r}
          /\ FoldPayloadHash(r.blockID, r.n)
          /\ WriteMetadata(r.blockID, r.n, ok)
          /\ writerPc' = IF ok THEN WriterAt(reorder', nextBlockID') ELSE "cancel"
          /\ failed' = (failed \/ ~ok)
    BY <1>6 DEF WriterEmit
  <2>2. writerPc = "emit" /\ resultChan' = resultChan
    BY <1>6 DEF WriterEmit
  <2>3. /\ ~WriterStopped /\ outcome = "building" /\ Len(ramIndex) = blockCount
        /\ Len(payloadHash) = blockCount /\ Len(metadata) = blockCount
    BY <2>2 DEF WriterStopped, ChannelInv, Layout, CommitInv
  <2>4. blockCount \in Blocks /\ blockCount < nextBlockToWrite /\ r.n = accepted[blockCount]
    <3>1. r.blockID = blockCount /\ CountIs(r) /\ r \in Result
      BY <1>t, <2>1 DEF WriterInv, Layout, ItemsInv
    <3> QED BY <3>1 DEF CountIs, Result
  <2>5. Written(start, blockCount)
    BY <2>1 DEF Layout, WrittenInv, WriterInv
  <2>6. ItemsInv(start)'
    BY <1>0, <1>4, <2>1, <2>2 DEF Layout, ItemsInv
  <2>7. /\ ramIndex' = Append(ramIndex, [keysBefore |-> keyCount, metadataOffset |-> Len(metadata)])
        /\ payloadHash' = Append(payloadHash, BlockData(blockCount, accepted[blockCount]))
        /\ keyCount = start[blockCount]
    BY <2>1, <2>4 DEF WriteMetadata, RecordAndWriteMetadata, CurrentEntry, FoldPayloadHash,
       WriterInv, Layout, CommitInv
  <2>8. /\ Len(ramIndex') = blockCount + 1 /\ Len(payloadHash') = blockCount + 1
        /\ \A i \in 1 .. Len(ramIndex') :
              ramIndex'[i].keysBefore = start[i - 1] /\ ramIndex'[i].metadataOffset = i - 1
        /\ \A b \in Blocks : b <= blockCount => payloadHash'[b + 1] = BlockData(b, accepted[b])
    <3>0. keyCount \in Nat
      BY DEF TypeInv, TypeOK, PoolTypeOK, IWTypeOK
    <3>1. Len(ramIndex') = blockCount + 1 /\ Len(payloadHash') = blockCount + 1
      BY <1>t, <2>3, <2>7
    <3>2. ASSUME NEW i \in 1 .. blockCount + 1
          PROVE  ramIndex'[i].keysBefore = start[i - 1] /\ ramIndex'[i].metadataOffset = i - 1
      <4>1. CASE i = blockCount + 1
        <5>1. ramIndex'[i] = [keysBefore |-> keyCount, metadataOffset |-> Len(metadata)]
          BY <1>t, <2>3, <2>7, <4>1
        <5> QED BY <1>t, <2>3, <2>7, <4>1, <5>1
      <4>2. CASE i # blockCount + 1
        <5>1. i \in 1 .. Len(ramIndex) /\ ramIndex'[i] = ramIndex[i]
          BY <1>t, <2>3, <2>7, <4>2
        <5> QED BY <5>1 DEF Layout, CommitInv
      <4> QED BY <4>1, <4>2
    <3>3. ASSUME NEW b \in Blocks, b <= blockCount
          PROVE  payloadHash'[b + 1] = BlockData(b, accepted[b])
      <4>1. CASE b = blockCount
        BY <1>t, <2>3, <2>7, <4>1
      <4>2. CASE b # blockCount
        <5>1. b < blockCount /\ payloadHash'[b + 1] = payloadHash[b + 1]
          BY <1>t, <2>3, <2>7, <3>3, <4>2 DEF Blocks
        <5> QED BY <5>1 DEF Layout, CommitInv
      <4> QED BY <4>1, <4>2
    <3> QED BY <3>1, <3>2, <3>3
  <2>9. CASE ok
    <3>1. /\ blockCount' = blockCount + 1 /\ keyCount' = keyCount + accepted[blockCount]
          /\ metadata' = Append(metadata, BlockData(blockCount, accepted[blockCount]))
      BY <2>1, <2>4, <2>9 DEF WriteMetadata, RecordAndWriteMetadata, Advance, WriterInv
    <3>2. Len(metadata') = blockCount + 1
      BY <1>t, <2>3, <3>1
    <3>3. ASSUME NEW b \in Blocks, b <= blockCount
          PROVE  metadata'[b + 1] = BlockData(b, accepted[b])
      <4>1. CASE b = blockCount
        BY <1>t, <2>3, <3>1, <4>1
      <4>2. CASE b # blockCount
        <5>1. b < blockCount /\ metadata'[b + 1] = metadata[b + 1]
          BY <1>t, <2>3, <3>1, <3>3, <4>2 DEF Blocks
        <5> QED BY <5>1 DEF Layout, CommitInv
      <4> QED BY <4>1, <4>2
    <3>4. keyCount' = start[blockCount + 1] /\ blockCount + 1 <= nextBlockToWrite
      BY <1>t, <2>4, <2>7, <3>1 DEF Layout, StartsOf
    <3>5. \A b \in Blocks : b < blockCount' => b <= blockCount
      BY <1>t, <3>1 DEF Blocks
    <3>6. CommitInv(start)'
      BY <1>0, <2>8, <3>1, <3>2, <3>3, <3>4, <3>5 DEF CommitInv, Blocks
    <3>7. \A b \in Blocks : b < blockCount' => Written(start, b)
      <4>1. \A b \in Blocks : b <= blockCount => b = blockCount \/ b < blockCount
        BY <1>t DEF Blocks
      <4> QED BY <2>5, <3>5, <4>1 DEF Layout, WrittenInv
    <3>8. WrittenInv(start)'
      BY <1>0, <1>3, <2>1, <2>2, <3>7 DEF Layout, WrittenInv, Blocks
    <3> QED BY <1>1, <2>6, <3>6, <3>8 DEF Layout
  <2>10. CASE ~ok
    <3>1. UNCHANGED <<blockCount, keyCount, metadata>> /\ writerPc' = "cancel" /\ failed'
      BY <2>1, <2>10 DEF WriteMetadata, RecordAndWriteMetadata, Advance
    <3>2. \A b \in Blocks : b < blockCount => b <= blockCount
      BY <1>t DEF Blocks
    <3>3. CommitInv(start)'
      BY <1>0, <1>t, <2>8, <3>1, <3>2 DEF Layout, CommitInv, WriterStopped, Blocks
    <3>4. WrittenInv(start)'
      BY <1>0, <1>3, <2>1, <2>2, <3>1 DEF Layout, WrittenInv
    <3> QED BY <1>1, <2>6, <3>3, <3>4 DEF Layout
  <2> QED BY <2>9, <2>10
<1>7. CASE WriterCancel \/ WriterClose
  <2>1. UNCHANGED <<resultChan, reorder, blockCount, keyCount, metadata, payloadHash, ramIndex,
                    failed>>
    BY <1>7 DEF WriterCancel, WriterClose
  <2>2. WriterStopped'
    BY <1>7 DEF WriterCancel, WriterClose, WriterStopped
  <2> QED BY <1>0, <2>1, <2>2, LayoutKept
<1> QED BY <1>5, <1>6, <1>7 DEF WriterStep

(* When the index is finalized no block has failed. *)
LEMMA FinalizeUnfailed ==
  ASSUME IInv, pc = "finalize"
  PROVE  ~failed
<1>1. ~Aborting /\ resultClosed /\ op = "finish"
  BY DEF IInv, ChannelInv, Aborting
<1>2. ~writerErr /\ \A w \in Workers : wpc[w] = "exit"
  BY <1>1 DEF IInv, FailureInv, ChannelInv, AllWorkersExited
<1> QED BY <1>1, <1>2 DEF IInv, FailureInv

(* finalizeIndex adds the sentinel entry; the rest of the teardown only drops
   items. *)
LEMMA TeardownLayout ==
  ASSUME IInv, NEW start \in Starts, Layout(start), TeardownStep, UNCHANGED builderVars
  PROVE  Layout(start)'
<1> USE DEF iwVars, chanVars, ctxVars, workerVars, writerVars, mainVars
<1>0. /\ UNCHANGED <<nextBlockToWrite, accepted, keysBefore, job, wpc, wjob, werr, resultChan,
                     reorder, payloads, blockCount, keyCount, metadata, payloadHash, failed,
                     writerPc>>
      /\ pc' # "select" /\ outcome = "building"
  BY DEF builderVars, TeardownStep, ShutdownWait, ShutdownWriter, Drain, DrainWait,
     DrainWriter, Cleanup, CloseAndRemove, FinalizeIndex, Finalize, IInv, ChannelInv
<1>1. CASE ShutdownWait
  <2>1. workChan' = <<>> /\ UNCHANGED <<ramIndex, outcome>>
    BY <1>1 DEF ShutdownWait
  <2>2. StartsOf(start)'
    BY <1>0 DEF Layout, StartsOf
  <2>3. ItemsInv(start)'
    BY <1>0, <2>1 DEF Layout, ItemsInv, CountIs, PlaceIs
  <2>4. WrittenInv(start)'
    BY <1>0 DEF Layout, WrittenInv, Written
  <2>5. CommitInv(start)'
    BY <1>0, <2>1 DEF Layout, CommitInv, WriterStopped
  <2> QED BY <2>2, <2>3, <2>4, <2>5 DEF Layout
<1>2. CASE FinalizeIndex
  <2>1. /\ workChan' = workChan
        /\ ramIndex' = Append(ramIndex, [keysBefore |-> keyCount, metadataOffset |-> Len(metadata)])
        /\ pc = "finalize" /\ outcome' # "building"
    BY <1>2 DEF FinalizeIndex, Finalize, CurrentEntry
  <2>2. StartsOf(start)'
    BY <1>0 DEF Layout, StartsOf
  <2>3. ItemsInv(start)'
    BY <1>0, <2>1 DEF Layout, ItemsInv, CountIs, PlaceIs
  <2>4. WrittenInv(start)'
    BY <1>0 DEF Layout, WrittenInv, Written
  <2>5. WriterStopped /\ Len(ramIndex) = blockCount
    BY <1>0, <2>1, FinalizeUnfailed DEF Layout, CommitInv, IInv, ChannelInv
  <2>t. ramIndex \in Seq(RamIndexEntry) /\ blockCount \in Nat
    BY DEF IInv, TypeInv, TypeOK, PoolTypeOK, IWTypeOK
  <2>6. Len(ramIndex') = blockCount + 1
    BY <2>1, <2>5, <2>t
  <2>7. ASSUME NEW i \in 1 .. blockCount + 1
        PROVE  ramIndex'[i].keysBefore = start[i - 1] /\ ramIndex'[i].metadataOffset = i - 1
    <3>1. CASE i = blockCount + 1
      <4>1. ramIndex'[i] = [keysBefore |-> keyCount, metadataOffset |-> Len(metadata)]
        BY <2>1, <2>5, <2>t, <3>1
      <4>2. keyCount = start[blockCount] /\ Len(metadata) = blockCount
        BY DEF Layout, CommitInv
      <4> QED BY <2>t, <3>1, <4>1, <4>2
    <3>2. CASE i # blockCount + 1
      <4>1. i \in 1 .. Len(ramIndex) /\ ramIndex'[i] = ramIndex[i]
        BY <2>1, <2>5, <2>t, <3>2
      <4> QED BY <4>1 DEF Layout, CommitInv
    <3> QED BY <3>1, <3>2
  <2>8. CommitInv(start)'
    BY <1>0, <2>1, <2>5, <2>6, <2>7 DEF Layout, CommitInv, WriterStopped
  <2> QED BY <2>2, <2>3, <2>4, <2>8 DEF Layout
<1>3. CASE ShutdownWriter \/ Drain \/ DrainWait \/ DrainWriter
  <2>1. UNCHANGED <<workChan, ramIndex>>
    BY <1>3 DEF ShutdownWriter, Drain, DrainWait, DrainWriter, Cleanup, CloseAndRemove
  <2>2. WriterStopped => WriterStopped'
    BY <1>0 DEF WriterStopped
  <2> QED BY <1>0, <2>1, <2>2, LayoutKept
<1> QED BY <1>1, <1>2, <1>3 DEF TeardownStep

(* A call that starts, and a select that ends, leave the blocks where they are or
   move the offered one to workChan. *)
LEMMA CallLayout ==
  ASSUME TypeInv, ChannelInv, NEW start \in Starts, Layout(start),
         \/ \E b \in Blocks : AddKey(b)
         \/ Finish \/ Close \/ StartDrain \/ SelectCancelled \/ SelectWriterDone
         \/ UserCancel /\ UNCHANGED builderVars
         \/ UNCHANGED vars
  PROVE  Layout(start)'
<1> USE DEF iwVars, chanVars, ctxVars, workerVars, writerVars, mainVars
<1>1. UNCHANGED <<nextBlockToWrite, accepted, keysBefore, workChan, wpc, wjob, werr,
                  resultChan, reorder, job, failed, writerPc>>
  BY DEF AddKey, Finish, Close, StartDrain, SelectCancelled, SelectWriterDone, UserCancel,
     builderVars, vars, poolVars
<1>2. UNCHANGED <<payloads, blockCount, keyCount, metadata, payloadHash, ramIndex>>
  BY DEF AddKey, Finish, Close, StartDrain, SelectCancelled, SelectWriterDone, UserCancel,
     DispatchFailed, Cleanup, CloseAndRemove, vars, poolVars
<1>3. pc' = "select" => pc = "select"
  BY DEF AddKey, Finish, Close, StartDrain, SelectCancelled, SelectWriterDone, UserCancel,
     DispatchFailed, Cleanup, vars, poolVars
<1>4. outcome # "building" => outcome' # "building"
  BY DEF AddKey, Finish, Close, StartDrain, SelectCancelled, SelectWriterDone, UserCancel,
     DispatchFailed, Cleanup, vars, poolVars
<1>5. WriterStopped => WriterStopped'
  BY <1>1 DEF WriterStopped
<1> QED BY <1>1, <1>2, <1>3, <1>4, <1>5, LayoutKept

(* The item the dispatching goroutine sends is the one it computed. *)
LEMMA SendLayout ==
  ASSUME TypeInv, NEW start \in Starts, Layout(start), SelectSend
  PROVE  Layout(start)'
<1> USE DEF iwVars, chanVars, ctxVars, workerVars, writerVars, mainVars
<1>1. /\ UNCHANGED <<nextBlockToWrite, accepted, keysBefore, wpc, wjob, werr, resultChan,
                     reorder, payloads, blockCount, keyCount, metadata, payloadHash, ramIndex,
                     failed, writerPc, outcome>>
      /\ pc = "select" /\ pc' = "next" /\ workChan' = Append(workChan, job)
  BY DEF SelectSend, DispatchSend, builderVars
<1>2. workChan \in Seq(Job) /\ job \in Job
  BY DEF TypeInv, TypeOK, PoolTypeOK, BuilderTypeOK
<1>3. \A i \in DOMAIN workChan' :
        workChan'[i] = job \/ (i \in DOMAIN workChan /\ workChan'[i] = workChan[i])
  BY <1>1, <1>2
<1>4. \A i \in DOMAIN workChan' : PlaceIs(start, workChan'[i])
  BY <1>1, <1>3 DEF Layout, ItemsInv
<1>5. ASSUME NEW j PROVE /\ CountIs(j)' <=> CountIs(j)
                         /\ PlaceIs(start, j)' <=> PlaceIs(start, j)
  BY <1>1 DEF CountIs, PlaceIs
<1>6. ItemsInv(start)'
  BY <1>1, <1>4, <1>5 DEF Layout, ItemsInv
<1>7. StartsOf(start)'
  BY <1>1 DEF Layout, StartsOf
<1>8. WrittenInv(start)'
  BY <1>1 DEF Layout, WrittenInv, Written
<1>9. CommitInv(start)'
  BY <1>1 DEF Layout, CommitInv, WriterStopped
<1> QED BY <1>6, <1>7, <1>8, <1>9 DEF Layout

(* The blocks the pipeline knows of have been dispatched. *)
LEMMA KnownBlocks ==
  ASSUME TypeInv, NEW start \in Starts, Layout(start)
  PROVE  /\ \A i \in DOMAIN workChan :
               workChan[i].blockID \in Blocks /\ workChan[i].blockID < nextBlockToWrite
         /\ \A w \in Workers : wpc[w] \in {"check", "build", "send"} =>
               wjob[w].blockID \in Blocks /\ wjob[w].blockID < nextBlockToWrite
         /\ \A i \in DOMAIN resultChan :
               resultChan[i].blockID \in Blocks /\ resultChan[i].blockID < nextBlockToWrite
         /\ \A r \in reorder : r.blockID \in Blocks /\ r.blockID < nextBlockToWrite
         /\ \A b \in Blocks : b < blockCount => b < nextBlockToWrite
         /\ blockCount \in 0 .. nextBlockToWrite
<1>1. /\ \A i \in DOMAIN workChan : workChan[i] \in Job
      /\ \A w \in Workers : wjob[w] \in Job
      /\ \A i \in DOMAIN resultChan : resultChan[i] \in Result
      /\ \A r \in reorder : r \in Result
      /\ blockCount \in Nat
  BY DEF TypeInv, TypeOK, PoolTypeOK, IWTypeOK
<1>2. blockCount <= nextBlockToWrite /\ nextBlockToWrite \in Nat
  BY CountTypes DEF Layout, CommitInv
<1>3. \A b \in Blocks : b < blockCount => b < nextBlockToWrite
  BY <1>1, <1>2, CountTypes DEF Blocks
<1> QED BY <1>1, <1>2, <1>3 DEF Layout, ItemsInv, PlaceIs, CountIs, Job, Result

(* A layout looks only at the dispatched blocks: neither another start of a block
   yet to come nor another count for it matters to the items on their way. *)
LEMMA LayoutOfDispatched ==
  ASSUME TypeInv, NEW start \in Starts, NEW begin \in Starts, Layout(start),
         \A b \in 0 .. nextBlockToWrite : begin[b] = start[b],
         \A b \in Blocks : b < nextBlockToWrite => accepted'[b] = accepted[b],
         nextBlockToWrite' \in Nat, nextBlockToWrite <= nextBlockToWrite',
         StartsOf(begin)',
         pc' = "select" => PlaceIs(begin, job)',
         UNCHANGED <<workChan, wpc, wjob, werr, resultChan, reorder, payloads, blockCount,
                     keyCount, metadata, payloadHash, ramIndex, writerPc, failed, outcome>>
  PROVE  Layout(begin)'
<1>0. \A b \in Blocks : b < nextBlockToWrite =>
        /\ b < nextBlockToWrite'
        /\ begin[b] = start[b] /\ accepted'[b] = accepted[b]
  BY CountTypes DEF Blocks
<1>1. ASSUME NEW j, j.blockID \in Blocks, PlaceIs(start, j)
      PROVE  j.blockID < nextBlockToWrite' /\ j.n = accepted'[j.blockID]
             /\ j.keysBefore = begin[j.blockID]
  BY <1>0, <1>1 DEF PlaceIs, CountIs
<1>2. ASSUME NEW r, r.blockID \in Blocks, CountIs(r)
      PROVE  r.blockID < nextBlockToWrite' /\ r.n = accepted'[r.blockID]
  BY <1>0, <1>2 DEF CountIs
<1>3. ASSUME NEW b \in Blocks, b < nextBlockToWrite, Written(start, b)
      PROVE  Written(begin, b)'
  BY <1>0, <1>3 DEF Written
<1>4. ItemsInv(begin)'
  <2>1. \A i \in DOMAIN workChan : /\ workChan[i].blockID < nextBlockToWrite'
                                   /\ workChan[i].n = accepted'[workChan[i].blockID]
                                   /\ workChan[i].keysBefore = begin[workChan[i].blockID]
    BY <1>1, KnownBlocks DEF Layout, ItemsInv
  <2>2. \A w \in Workers : wpc[w] \in {"check", "build", "send"} =>
          /\ wjob[w].blockID < nextBlockToWrite'
          /\ wjob[w].n = accepted'[wjob[w].blockID]
          /\ wjob[w].keysBefore = begin[wjob[w].blockID]
    BY <1>1, KnownBlocks DEF Layout, ItemsInv
  <2>3. \A i \in DOMAIN resultChan : /\ resultChan[i].blockID < nextBlockToWrite'
                                     /\ resultChan[i].n = accepted'[resultChan[i].blockID]
    BY <1>2, KnownBlocks DEF Layout, ItemsInv
  <2>4. \A r \in reorder : r.blockID < nextBlockToWrite' /\ r.n = accepted'[r.blockID]
    BY <1>2, KnownBlocks DEF Layout, ItemsInv
  <2> QED BY <2>1, <2>2, <2>3, <2>4 DEF ItemsInv, PlaceIs, CountIs
<1>5. WrittenInv(begin)'
  <2>1. ASSUME NEW w \in Workers, wpc[w] = "send", ~werr[w], NEW b, b = wjob[w].blockID
        PROVE  Written(begin, b)'
    BY <1>3, <2>1, KnownBlocks DEF Layout, WrittenInv
  <2>2. ASSUME NEW i \in DOMAIN resultChan, ~resultChan[i].err,
               NEW b, b = resultChan[i].blockID
        PROVE  Written(begin, b)'
    BY <1>3, <2>2, KnownBlocks DEF Layout, WrittenInv
  <2>3. /\ \A r \in reorder : Written(begin, r.blockID)'
        /\ \A b \in Blocks : b < blockCount => Written(begin, b)'
    BY <1>3, KnownBlocks DEF Layout, WrittenInv
  <2> QED BY <2>1, <2>2, <2>3 DEF WrittenInv, Blocks
<1>6. CommitInv(begin)'
  <2>0. blockCount \in 0 .. nextBlockToWrite /\ nextBlockToWrite \in Nat
    BY KnownBlocks, CountTypes
  <2>1. blockCount <= nextBlockToWrite' /\ keyCount = begin[blockCount]
    BY <2>0 DEF Layout, CommitInv
  <2>2. \A b \in Blocks : b < blockCount => accepted'[b] = accepted[b]
    BY <1>0, KnownBlocks
  <2>3. ASSUME NEW i \in 1 .. Len(ramIndex)
        PROVE  ramIndex[i].keysBefore = begin[i - 1] /\ ramIndex[i].metadataOffset = i - 1
    <3>1. Len(ramIndex) <= blockCount + 1 /\ Len(ramIndex) \in Nat
      <4>1. ramIndex \in Seq(RamIndexEntry)
        BY DEF TypeInv, TypeOK, PoolTypeOK, IWTypeOK
      <4> QED BY <2>0, <4>1 DEF Layout, CommitInv
    <3>2. i - 1 \in 0 .. nextBlockToWrite
      BY <2>0, <3>1
    <3> QED BY <3>2 DEF Layout, CommitInv
  <2> QED BY <2>1, <2>2, <2>3 DEF Layout, CommitInv, WriterStopped, Blocks
<1> QED BY <1>4, <1>5, <1>6 DEF Layout

(* dispatchBlockWork extends the prefix sums by the block it offers, which carries
   all of that block's accepted keys. *)
LEMMA DispatchLayout ==
  ASSUME TypeInv, OrderInv, CountInv, NEW start \in Starts, Layout(start),
         DispatchPending \/ DispatchEmpty
  PROVE  \E begin \in Starts : Layout(begin)'
<1> USE DEF iwVars, chanVars, ctxVars, workerVars, writerVars, mainVars
<1>1. UNCHANGED <<accepted, workChan, wpc, wjob, werr, resultChan, reorder, payloads,
                  blockCount, keyCount, metadata, payloadHash, ramIndex, writerPc, failed,
                  outcome>>
  BY DEF DispatchPending, DispatchEmpty
<1>2. PICK n \in Nat : /\ DispatchBlockWork(nextBlockToWrite, n)
                       /\ n = accepted[nextBlockToWrite]
                       /\ nextBlockToWrite \in Blocks
  <2>1. CASE DispatchPending
    <3>1. /\ DispatchBlockWork(currentBlockIdx, pendingEntries)
          /\ nextBlockToWrite = currentBlockIdx
      BY <2>1 DEF DispatchPending, MustDispatchPending, OrderInv
    <3>2. accepted[nextBlockToWrite] = pendingEntries
      BY <3>1, CountTypes DEF CountInv, Blocks
    <3> QED BY <3>1, <3>2, CountTypes
  <2>2. CASE DispatchEmpty
    <3>1. DispatchBlockWork(nextBlockToWrite, 0) /\ nextBlockToWrite < DispatchLimit
      BY <2>2 DEF DispatchEmpty, MustDispatchEmpty
    <3>2. nextBlockToWrite \in Blocks
      BY <3>1, CountTypes DEF Blocks, DispatchLimit
    <3>3. pendingEntries = 0
      BY <2>2, CountTypes DEF DispatchEmpty, MustDispatchPending, MustDispatchEmpty, OrderInv
    <3>4. accepted[nextBlockToWrite] = 0
      BY <3>2, <3>3, CountTypes DEF CountInv, Blocks
    <3> QED BY <3>1, <3>2, <3>4
  <2> QED BY <2>1, <2>2
<1>3. /\ nextBlockToWrite' = nextBlockToWrite + 1 /\ keysBefore' = keysBefore + n
      /\ job' = [blockID |-> nextBlockToWrite, n |-> n, keysBefore |-> keysBefore,
                 fence |-> NoFence]
  BY <1>2 DEF DispatchBlockWork
<1>4. nextBlockToWrite \in Nat /\ nextBlockToWrite + 1 \in 0 .. NumBlocks /\ keysBefore \in Nat
  BY <1>2, CountTypes DEF Blocks
<1> DEFINE begin == [start EXCEPT ![nextBlockToWrite + 1] = keysBefore + n]
<1>5. begin \in Starts
  BY <1>4 DEF Starts
<1>6. PICK fresh \in Starts : fresh = begin
  BY <1>5
<1>7. /\ fresh[nextBlockToWrite + 1] = keysBefore + n
      /\ \A b \in 0 .. nextBlockToWrite : fresh[b] = start[b]
      /\ \A b \in 0 .. nextBlockToWrite : start[b] \in Nat
  BY <1>4, <1>6, CountTypes, SMTT(30) DEF Starts
<1>8. start[nextBlockToWrite] = keysBefore
  BY DEF Layout, StartsOf
<1>9. StartsOf(fresh)'
  <2>1. fresh[0] = 0
    BY <1>4, <1>7 DEF Layout, StartsOf
  <2>2. ASSUME NEW b \in Blocks, b < nextBlockToWrite + 1
        PROVE  fresh[b + 1] = fresh[b] + accepted[b]
    <3>1. CASE b = nextBlockToWrite
      BY <1>2, <1>4, <1>7, <1>8, <3>1
    <3>2. CASE b # nextBlockToWrite
      <4>1. b < nextBlockToWrite /\ b \in 0 .. nextBlockToWrite
            /\ b + 1 \in 0 .. nextBlockToWrite
        BY <1>4, <2>2, <3>2, CountTypes DEF Blocks
      <4> QED BY <1>7, <4>1 DEF Layout, StartsOf
    <3> QED BY <3>1, <3>2
  <2>3. ASSUME NEW b \in 0 .. nextBlockToWrite + 1, NEW c \in 0 .. nextBlockToWrite + 1, b <= c
        PROVE  fresh[b] <= fresh[c]
    <3>1. CASE c \in 0 .. nextBlockToWrite
      <4>1. b \in 0 .. nextBlockToWrite
        BY <1>4, <2>3, <3>1
      <4> QED BY <1>7, <2>3, <3>1, <4>1 DEF Layout, StartsOf
    <3>2. CASE c = nextBlockToWrite + 1 /\ b \in 0 .. nextBlockToWrite
      <4>1. start[b] <= keysBefore
        BY <1>4, <1>8, <3>2 DEF Layout, StartsOf
      <4> QED BY <1>4, <1>7, <3>2, <4>1
    <3>3. CASE c = nextBlockToWrite + 1 /\ b = nextBlockToWrite + 1
      BY <1>4, <1>7, <3>3
    <3> QED BY <1>4, <3>1, <3>2, <3>3
  <2> QED BY <1>1, <1>3, <1>7, <2>1, <2>2, <2>3 DEF StartsOf, Blocks
<1>10. PlaceIs(fresh, job)'
  <2>1. nextBlockToWrite \in 0 .. nextBlockToWrite
    BY <1>4
  <2> QED BY <1>1, <1>2, <1>3, <1>4, <1>7, <1>8, <2>1 DEF PlaceIs, CountIs
<1>11. nextBlockToWrite' \in Nat /\ nextBlockToWrite <= nextBlockToWrite'
  BY <1>3, <1>4
<1>12. Layout(fresh)'
  BY <1>1, <1>7, <1>9, <1>10, <1>11, LayoutOfDispatched
<1> QED BY <1>12

(* An accepted key goes to a block that is not dispatched yet, so nothing on its way
   to the file is affected. *)
LEMMA AcceptLayout ==
  ASSUME TypeInv, OrderInv, NEW start \in Starts, Layout(start), AcceptKey
  PROVE  Layout(start)'
<1> USE DEF iwVars, chanVars, ctxVars, workerVars, writerVars, mainVars
<1>1. /\ UNCHANGED <<workChan, wpc, wjob, werr, resultChan, reorder, payloads, blockCount,
                     keyCount, metadata, payloadHash, ramIndex, writerPc, failed, outcome,
                     nextBlockToWrite, keysBefore>>
      /\ pc' = "idle" /\ pc = "next" /\ op = "add"
      /\ accepted' = [accepted EXCEPT ![target] = @ + 1]
  BY DEF AcceptKey
<1>2. nextBlockToWrite <= target
  BY <1>1, CountTypes DEF OrderInv, Blocks
<1>3. \A b \in Blocks : b < nextBlockToWrite => accepted'[b] = accepted[b]
  BY <1>1, <1>2, CountTypes DEF Blocks
<1>4. StartsOf(start)'
  BY <1>1, <1>3 DEF Layout, StartsOf, Blocks
<1>5. nextBlockToWrite' \in Nat /\ nextBlockToWrite <= nextBlockToWrite'
  BY <1>1, CountTypes
<1> QED BY <1>1, <1>3, <1>4, <1>5, LayoutOfDispatched

(* Every step keeps a layout. *)
LEMMA LayoutStep ==
  ASSUME IInv, CountInv, LayoutInv, [Next]_vars
  PROVE  LayoutInv'
<1>1. PICK start \in Starts : Layout(start)
  BY DEF LayoutInv, Starts
<1>2. \E begin \in Starts : Layout(begin)'
  BY <1>1, WorkerLayout, WriterLayout, TeardownLayout, CallLayout, SendLayout, AcceptLayout,
     DispatchLayout
  DEF IInv, Next, PoolStep, CallerStep, BuilderStep, CallAfterClose
<1> QED BY <1>2 DEF LayoutInv, Starts

(* When Finish returns nil the file has been finalized with every block in it. *)
LEMMA OkStep ==
  ASSUME IInv, CountInv, LayoutInv, OkInv, [Next]_vars
  PROVE  OkInv'
<1> USE DEF iwVars, chanVars, ctxVars, workerVars, writerVars, mainVars
<1>1. CASE FinalizeIndex
  <2>1. PICK start \in Starts : Layout(start)
    BY DEF LayoutInv, Starts
  <2>2. pc = "finalize" /\ UNCHANGED <<blockCount, keyCount>>
        /\ (outcome' = "ok" => output' = "final")
        /\ ramIndex' = Append(ramIndex, CurrentEntry)
    BY <1>1 DEF FinalizeIndex, Finalize
  <2>3. blockCount = NumBlocks /\ ~failed /\ outcome = "building"
    BY <2>2, AllCommitted, FinalizeUnfailed DEF IInv, ChannelInv
  <2>4. Len(ramIndex') = NumBlocks + 1
    <3>1. Len(ramIndex) = NumBlocks /\ ramIndex \in Seq(RamIndexEntry)
      BY <2>1, <2>3 DEF Layout, CommitInv, IInv, TypeInv, TypeOK, PoolTypeOK, IWTypeOK
    <3>2. Len(Append(ramIndex, CurrentEntry)) = Len(ramIndex) + 1
      BY <3>1
    <3> QED BY <2>2, <3>1, <3>2
  <2>5. nextBlockToWrite = NumBlocks /\ pendingEntries = 0 /\ totalKeysAdded = TotalKeys
    BY <2>2 DEF IInv, BlocksInv, CountInv, ChannelInv
  <2>6. keyCount = TotalKeys
    <3>1. keyCount = start[NumBlocks] /\ keysBefore = start[NumBlocks]
      BY <2>1, <2>3, <2>5 DEF Layout, CommitInv, StartsOf
    <3>2. keysBefore = totalKeysAdded
      BY <2>5, CountTypes DEF CountInv, IInv
    <3> QED BY <2>5, <3>1, <3>2
  <2> QED BY <2>2, <2>3, <2>4, <2>6 DEF OkInv
<1>2. CASE ~FinalizeIndex
  <2>1. outcome' = "ok" => outcome = "ok"
    BY <1>2 DEF Next, PoolStep, CallerStep, AddKey, Finish, Close, CallAfterClose, BuilderStep,
       DispatchPending, DispatchEmpty, AcceptKey, StartDrain, SelectSend, DispatchSend,
       SelectCancelled, SelectWriterDone, DispatchFailed, Cleanup, TeardownStep, ShutdownWait,
       ShutdownWriter, Drain, DrainWait, DrainWriter, WorkerStep, WorkerReceive, WorkerFinish,
       WorkerExit, WorkerCancelled, WorkerAddKeys, WorkerBuild, WorkerSend,
       WorkerSendCancelled, WorkerReturnErr, WriterStep, WriterReceive, WriterEmit,
       WriterCancel, WriterClose, UserCancel, vars, poolVars
  <2>2. ASSUME outcome = "ok" PROVE UNCHANGED <<output, blockCount, keyCount, ramIndex>>
    <3>1. pc = "idle" /\ closed /\ ~fileOpen /\ resultClosed /\ WriterStopped
      BY <2>2 DEF IInv, ChannelInv
    <3>2. ASSUME NEW w \in Workers, WorkerStep(w) PROVE FALSE
      BY <3>1, <3>2, WorkerStepResultOpen DEF IInv
    <3>3. ~WriterEmit
      BY <3>1 DEF WriterEmit, WriterStopped
    <3>4. ~TeardownStep /\ ~BuilderStep
      BY <3>1 DEF TeardownStep, ShutdownWait, ShutdownWriter, Drain, DrainWait, DrainWriter,
         FinalizeIndex, BuilderStep, DispatchPending, DispatchEmpty, AcceptKey, StartDrain,
         SelectSend, SelectCancelled, SelectWriterDone
    <3>5. ~Finish /\ ~Close /\ \A b \in Blocks : ~AddKey(b)
      BY <3>1 DEF Finish, Close, AddKey
    <3> QED BY <3>2, <3>3, <3>4, <3>5 DEF Next, PoolStep, CallerStep, CallAfterClose, WriterStep,
               WriterReceive, WriterCancel, WriterClose, UserCancel, vars, poolVars
  <2> QED BY <2>1, <2>2 DEF OkInv
<1> QED BY <1>1, <1>2

(* The invariant of the index holds initially. *)
LEMMA InitIndexInv == Init => IndexInv
<1> SUFFICES ASSUME Init PROVE IndexInv
  OBVIOUS
<1>1. CountInv
  BY ConstantTypes DEF Init, CountInv
<1>2. LayoutInv
  <2> DEFINE start == [b \in 0 .. NumBlocks |-> 0]
  <2>1. start \in [0 .. NumBlocks -> Nat] /\ \A b \in 0 .. NumBlocks : start[b] = 0
    OBVIOUS
  <2>2. StartsOf(start)
    BY ConstantTypes DEF Init, StartsOf
  <2>3. ItemsInv(start) /\ WrittenInv(start)
    BY ConstantTypes DEF Init, PoolInit, IWInit, ItemsInv, WrittenInv, Blocks
  <2>4. CommitInv(start)
    BY <2>1, ConstantTypes DEF Init, PoolInit, IWInit, CommitInv, Blocks
  <2> QED BY <2>1, <2>2, <2>3, <2>4 DEF LayoutInv, Layout
<1>3. OkInv /\ CauseInv
  BY DEF Init, PoolInit, OkInv, CauseInv
<1> QED BY <1>1, <1>2, <1>3, InitIInv DEF IndexInv

(* Every step keeps the invariant of the index. *)
LEMMA NextIndexInv == IndexInv /\ [Next]_vars => IndexInv'
  BY NextIInv, CountInvStep, LayoutStep, OkStep, CauseInvStep DEF IndexInv, IInv

(* The record between two consecutive offsets of a region. *)
LEMMA SubSeqSingle ==
  ASSUME NEW S, NEW s \in Seq(S), NEW k \in 1 .. Len(s)
  PROVE  SubSeq(s, k, k) = <<s[k]>>
<1>1. SubSeq(s, k, k) \in Seq(S) /\ Len(SubSeq(s, k, k)) = 1
  OBVIOUS
<1>2. SubSeq(s, k, k)[1] = s[k]
  OBVIOUS
<1>3. <<s[k]>> \in Seq(S) /\ Len(<<s[k]>>) = 1 /\ <<s[k]>>[1] = s[k]
  OBVIOUS
<1>4. \A i \in 1 .. Len(SubSeq(s, k, k)) : SubSeq(s, k, k)[i] = <<s[k]>>[i]
  BY <1>1, <1>2, <1>3
<1> QED BY <1>1, <1>3, <1>4, SeqEqual

(* When Finish returns nil the file holds exactly the keys whose AddKey returned nil:
   every block once and in order, its key range, metadata record, payload cells and
   block hash where a reader looks for them. *)
THEOREM ParallelIndexCorrect == Spec => []IndexCorrect
<1>1. IndexInv => IndexCorrect
  <2> SUFFICES ASSUME IndexInv, outcome = "ok"
               PROVE  output = "final" /\ IndexHolds(accepted)
    BY DEF IndexCorrect
  <2>1. PICK start \in Starts : Layout(start)
    BY DEF IndexInv, LayoutInv, Starts
  <2>2. /\ output = "final" /\ blockCount = NumBlocks /\ keyCount = TotalKeys
        /\ Len(ramIndex) = NumBlocks + 1
    BY DEF IndexInv, OkInv
  <2>3. ~failed /\ NumBlocks \in Nat /\ nextBlockToWrite = NumBlocks
    BY <2>1, <2>2, CountTypes DEF IndexInv, IInv, FailureInv, Layout, CommitInv
  <2>4. /\ Len(metadata) = NumBlocks /\ Len(payloadHash) = NumBlocks
        /\ metadata \in Seq(BlockDataSet) /\ payloadHash \in Seq(BlockDataSet)
    BY <2>1, <2>2, <2>3 DEF Layout, CommitInv, IndexInv, IInv, TypeInv, TypeOK, PoolTypeOK,
       IWTypeOK
  <2>5. \A i \in 1 .. NumBlocks + 1 :
          ramIndex[i].keysBefore = start[i - 1] /\ ramIndex[i].metadataOffset = i - 1
    BY <2>1, <2>2 DEF Layout, CommitInv
  <2>6. ramIndex[1].keysBefore = 0
    BY <2>1, <2>3, <2>5 DEF Layout, StartsOf
  <2>7. ASSUME NEW b \in Blocks
        PROVE  /\ ramIndex[b + 2].keysBefore = ramIndex[b + 1].keysBefore + accepted[b]
               /\ SubSeq(metadata, ramIndex[b + 1].metadataOffset + 1,
                         ramIndex[b + 2].metadataOffset) = <<BlockData(b, accepted[b])>>
               /\ \A i \in ramIndex[b + 1].keysBefore .. ramIndex[b + 2].keysBefore - 1 :
                     payloads[i] = b
    <3>1. b \in Nat /\ b < NumBlocks /\ b + 1 \in 1 .. NumBlocks + 1 /\ b + 2 \in 1 .. NumBlocks + 1
      BY <2>3 DEF Blocks
    <3>2. /\ ramIndex[b + 1].keysBefore = start[b] /\ ramIndex[b + 1].metadataOffset = b
          /\ ramIndex[b + 2].keysBefore = start[b + 1]
          /\ ramIndex[b + 2].metadataOffset = b + 1
      BY <2>5, <3>1
    <3>3. start[b + 1] = start[b] + accepted[b]
      BY <2>1, <2>3, <3>1 DEF Layout, StartsOf
    <3>4. metadata[b + 1] = BlockData(b, accepted[b])
      BY <2>1, <2>2, <3>1 DEF Layout, CommitInv
    <3>5. SubSeq(metadata, b + 1, b + 1) = <<metadata[b + 1]>>
      BY <2>3, <2>4, <3>1, SubSeqSingle
    <3>6. \A i \in start[b] .. start[b + 1] - 1 : payloads[i] = b
      <4>1. Written(start, b)
        BY <2>1, <2>2, <3>1 DEF Layout, WrittenInv
      <4>2. start[b] \in Nat /\ accepted[b] \in Nat
        BY <2>3, <3>1, CountTypes, SMTT(30) DEF Starts, IndexInv, IInv
      <4>3. start[b + 1] - 1 = start[b] + accepted[b] - 1
        BY <3>3, <4>2
      <4> QED BY <4>1, <4>3 DEF Written
    <3> QED BY <3>2, <3>3, <3>4, <3>5, <3>6
  <2>8. payloadHash = [i \in 1 .. NumBlocks |-> BlockData(i - 1, accepted[i - 1])]
    <3>1. ASSUME NEW i \in 1 .. NumBlocks PROVE payloadHash[i] = BlockData(i - 1, accepted[i - 1])
      <4>1. i - 1 \in Blocks /\ i - 1 < NumBlocks /\ (i - 1) + 1 = i
        BY <2>3 DEF Blocks
      <4> QED BY <2>1, <2>2, <4>1 DEF Layout, CommitInv
    <3>2. payloadHash = [i \in 1 .. NumBlocks |-> payloadHash[i]]
      BY <2>3, <2>4
    <3> QED BY <3>1, <3>2
  <2> QED BY <2>2, <2>6, <2>7, <2>8 DEF IndexHolds
<1> QED BY <1>1, InitIndexInv, NextIndexInv, PTL DEF Spec

(* The payload cells of a committed block hold that block's payloads from then on,
   at the place the RAM index gives, although other workers keep writing. *)
THEOREM PayloadsStay == Spec => []CommittedBlocksIntact
<1>1. IndexInv => CommittedBlocksIntact
  <2> SUFFICES ASSUME IndexInv, NEW b \in 0 .. blockCount - 1,
                      NEW i \in ramIndex[b + 1].keysBefore ..
                                (IF b + 1 < Len(ramIndex) THEN ramIndex[b + 2].keysBefore
                                 ELSE keyCount) - 1
               PROVE  payloads[i] = b
    BY DEF CommittedBlocksIntact
  <2>1. PICK start \in Starts : Layout(start)
    BY DEF IndexInv, LayoutInv, Starts
  <2>2. /\ blockCount \in Nat /\ nextBlockToWrite \in Nat /\ blockCount <= nextBlockToWrite
        /\ nextBlockToWrite <= NumBlocks /\ NumBlocks \in Nat
    BY <2>1, CountTypes, SMTT(30) DEF IndexInv, IInv, TypeInv, TypeOK, PoolTypeOK, IWTypeOK, Layout,
       CommitInv
  <2>3. b \in Blocks /\ b < blockCount /\ b < nextBlockToWrite /\ b \in Nat
    BY <2>2 DEF Blocks
  <2>4. Len(ramIndex) \in Nat /\ Len(ramIndex) >= blockCount
    <3>1. ramIndex \in Seq(RamIndexEntry)
      BY DEF IndexInv, IInv, TypeInv, TypeOK, PoolTypeOK, IWTypeOK
    <3> QED BY <2>1, <2>2, <3>1 DEF Layout, CommitInv
  <2>5. ramIndex[b + 1].keysBefore = start[b]
    <3>1. b + 1 \in 1 .. Len(ramIndex) /\ (b + 1) - 1 = b
      BY <2>2, <2>3, <2>4
    <3> QED BY <2>1, <3>1 DEF Layout, CommitInv
  <2>6. (IF b + 1 < Len(ramIndex) THEN ramIndex[b + 2].keysBefore ELSE keyCount) = start[b + 1]
    <3>1. CASE b + 1 < Len(ramIndex)
      <4>1. b + 2 \in 1 .. Len(ramIndex) /\ (b + 2) - 1 = b + 1
        BY <2>3, <2>4, <3>1
      <4> QED BY <2>1, <3>1, <4>1 DEF Layout, CommitInv
    <3>2. CASE ~(b + 1 < Len(ramIndex))
      <4>1. b + 1 = blockCount
        BY <2>2, <2>3, <2>4, <3>2
      <4> QED BY <2>1, <3>2, <4>1 DEF Layout, CommitInv
    <3> QED BY <3>1, <3>2
  <2>7. start[b + 1] = start[b] + accepted[b]
    BY <2>1, <2>3 DEF Layout, StartsOf
  <2>8. i \in start[b] .. start[b] + accepted[b] - 1
    <3>1. i \in start[b] .. start[b + 1] - 1
      BY ONLY <2>5, <2>6, i \in ramIndex[b + 1].keysBefore ..
                                (IF b + 1 < Len(ramIndex) THEN ramIndex[b + 2].keysBefore
                                 ELSE keyCount) - 1, Zenon
    <3>2. start[b] \in Nat /\ accepted[b] \in Nat
      <4>1. b \in 0 .. NumBlocks /\ accepted \in [Blocks -> Nat]
        BY <2>2, <2>3, CountTypes, SMTT(30) DEF IndexInv, IInv
      <4> QED BY <2>3, <4>1 DEF Starts
    <3> QED BY <2>7, <3>1, <3>2
  <2> QED BY <2>1, <2>3, <2>8 DEF Layout, WrittenInv, Written
<1> QED BY <1>1, InitIndexInv, NextIndexInv, PTL DEF Spec

================================================================================
