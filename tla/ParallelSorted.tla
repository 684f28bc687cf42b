----------------------------- MODULE ParallelSorted -----------------------------
(***************************************************************************)
(* SortedBuilder with workers > 1: the caller's AddKey, Finish and Close   *)
(* (builder.go, builder_parallel.go) driving the worker pool.              *)
(*                                                                         *)
(* A key is the block it routes to.  The caller is not assumed to be well  *)
(* behaved: it may ignore the error of an AddKey and go on, add too many   *)
(* or too few keys, and it may stop calling at any time.  One goroutine    *)
(* makes the calls, as the API requires.                                   *)
(***************************************************************************)
EXTENDS WorkerPool

CONSTANTS contextCheckInterval,  \* keys between two polls of ctx and writerDone
          MaxCalls               \* bound on the caller: number of AddKey calls

ASSUME ParallelSortedAssumption ==
    /\ contextCheckInterval \in Nat \ {0}
    /\ MaxCalls \in Nat

VARIABLES closed, firstKey, currentBlockIdx, nextBlockToWrite, lastBlockID,
          keyCounter, keysBefore, totalKeysAdded,  \* builder fields
          pendingEntries,  \* number of entries accumulated for currentBlockIdx
          op,              \* "add" or "finish": the call being executed
          target,          \* blockIdx of that AddKey
          job,             \* the blockWork offered in the select
          calls,           \* AddKey calls made
          accepted         \* history: keys per block whose AddKey returned nil

builderVars == <<closed, firstKey, currentBlockIdx, nextBlockToWrite, lastBlockID,
                 keyCounter, keysBefore, totalKeysAdded, pendingEntries, op, target,
                 job, calls, accepted>>
vars == <<poolVars, builderVars>>

BuilderTypeOK ==
    /\ closed \in BOOLEAN /\ firstKey \in BOOLEAN
    /\ currentBlockIdx \in Blocks /\ nextBlockToWrite \in 0 .. NumBlocks
    /\ lastBlockID \in Blocks \cup {-1}
    /\ keyCounter \in Nat /\ keysBefore \in Nat /\ totalKeysAdded \in Nat
    /\ pendingEntries \in Nat
    /\ op \in {"add", "finish"} /\ target \in Blocks /\ job \in Job
    /\ calls \in Nat
    /\ accepted \in [Blocks -> Nat]

(* Every variable has its type: in particular no item names a block outside the
   index, nextBlockToWrite never runs past the last block, and a fence is never
   released more often than it was taken. *)
TypeOK ==
    /\ PoolTypeOK
    /\ pc \in {"idle", "next", "select", "drain", "drainWait", "drainWriter",
               "finalize", "shutWait", "shutWriter"}
    /\ BuilderTypeOK

(* NewSortedBuilder. *)
Init ==
    /\ PoolInit
    /\ pc = "idle"
    /\ closed = FALSE /\ firstKey = TRUE
    /\ currentBlockIdx = 0 /\ nextBlockToWrite = 0 /\ lastBlockID = -1
    /\ keyCounter = 0 /\ keysBefore = 0 /\ totalKeysAdded = 0
    /\ pendingEntries = 0
    /\ op = "add" /\ target = 0 /\ job = NoJob
    /\ calls = 0
    /\ accepted = [b \in Blocks |-> 0]

--------------------------------------------------------------------------------
(* AddKey up to addKeyParallel.  The periodic poll reports a cancelled context
   or a writer error, in that order; keys must come in block order. *)
PollDue == keyCounter + 1 >= contextCheckInterval
PollCancelled == PollDue /\ ctxDone
PollPipeline == PollDue /\ ~ctxDone /\ WriterDoneReady

AddKey(blockIdx) ==
    /\ pc = "idle" /\ ~closed
    /\ calls < MaxCalls
    /\ calls' = calls + 1
    /\ keyCounter' = IF PollDue THEN 0 ELSE keyCounter + 1
    /\ IF PollPipeline
         THEN ConsumePipelineError
         ELSE UNCHANGED <<writerDone, writerErr>>
    /\ IF PollCancelled \/ PollPipeline \/ blockIdx < lastBlockID
         THEN UNCHANGED <<pc, op, target, lastBlockID>>
         ELSE /\ lastBlockID' = blockIdx
              /\ op' = "add" /\ target' = blockIdx
              /\ pc' = "next"
    /\ UNCHANGED <<iwVars, workChan, workClosed, resultChan, resultClosed, writerClosed,
                   ctxVars, fence, workerVars, writerVars, workersShutDown, cause, outcome,
                   failed, closed, firstKey, currentBlockIdx, nextBlockToWrite, keysBefore,
                   totalKeysAdded, pendingEntries, job, accepted>>

--------------------------------------------------------------------------------
(* What the call in progress has to dispatch next: the accumulated block when it
   is complete, then the empty blocks up to the one wanted.  The empty slice
   that replaces pendingEntries is installed before the select. *)
DispatchLimit == IF op = "add" THEN target ELSE NumBlocks

MustDispatchPending ==
    /\ pendingEntries > 0
    /\ op = "finish" \/ (~firstKey /\ target # currentBlockIdx)

(* Seeded fault: one empty block too many. *)
MustDispatchEmptyInclusive ==
    /\ nextBlockToWrite <= DispatchLimit
    /\ op = "finish" \/ firstKey \/ target # currentBlockIdx

MustDispatchEmpty ==
    /\ nextBlockToWrite < DispatchLimit
    /\ op = "finish" \/ firstKey \/ target # currentBlockIdx

(* dispatchBlockWork up to its select: keysBefore and nextBlockToWrite advance
   before it is known whether the item is sent. *)
DispatchBlockWork(blockID, n) ==
    /\ job' = [blockID |-> blockID, n |-> n, keysBefore |-> keysBefore, fence |-> NoFence]
    /\ keysBefore' = keysBefore + n
    /\ nextBlockToWrite' = blockID + 1
    /\ pc' = "select"

DispatchPending ==
    /\ pc = "next"
    /\ MustDispatchPending
    /\ DispatchBlockWork(currentBlockIdx, pendingEntries)
    /\ pendingEntries' = 0
    /\ UNCHANGED <<iwVars, chanVars, ctxVars, fence, workerVars, writerVars,
                   workersShutDown, writerErr, cause, outcome, failed, closed, firstKey,
                   currentBlockIdx, lastBlockID, keyCounter, totalKeysAdded, op, target,
                   calls, accepted>>

DispatchEmpty ==
    /\ pc = "next"
    /\ ~MustDispatchPending /\ MustDispatchEmpty
    /\ DispatchBlockWork(nextBlockToWrite, 0)
    /\ UNCHANGED <<iwVars, chanVars, ctxVars, fence, workerVars, writerVars,
                   workersShutDown, writerErr, cause, outcome, failed, closed, firstKey,
                   currentBlockIdx, lastBlockID, keyCounter, totalKeysAdded, pendingEntries,
                   op, target, calls, accepted>>

(* Nothing is left to dispatch: AddKey keeps the entry and returns nil. *)
AcceptKey ==
    /\ pc = "next" /\ op = "add"
    /\ ~MustDispatchPending /\ ~MustDispatchEmpty
    /\ currentBlockIdx' = target
    /\ firstKey' = FALSE
    /\ pendingEntries' = pendingEntries + 1
    /\ totalKeysAdded' = totalKeysAdded + 1
    /\ accepted' = [accepted EXCEPT ![target] = @ + 1]
    /\ pc' = "idle"
    /\ UNCHANGED <<iwVars, chanVars, ctxVars, fence, workerVars, writerVars,
                   workersShutDown, writerErr, cause, outcome, failed, closed,
                   nextBlockToWrite, lastBlockID, keyCounter, keysBefore, op, target, job,
                   calls>>

(* Nothing is left to dispatch: Finish goes on to drainParallelPipeline. *)
StartDrain ==
    /\ pc = "next" /\ op = "finish"
    /\ ~MustDispatchPending /\ ~MustDispatchEmpty
    /\ pc' = "drain"
    /\ UNCHANGED <<iwVars, chanVars, ctxVars, fence, workerVars, writerVars,
                   workersShutDown, writerErr, cause, outcome, failed, builderVars>>

--------------------------------------------------------------------------------
(* The select of dispatchBlockWork. *)
SelectSend ==
    /\ pc = "select"
    /\ DispatchSend(job)
    /\ pc' = "next"
    /\ UNCHANGED <<fence, cause, builderVars>>

(* A failed dispatch ends AddKey with an error, and Finish through cleanup. *)
DispatchFailed(why) ==
    IF op = "add"
      THEN /\ pc' = "idle"
           /\ UNCHANGED <<iwVars, workersShutDown, workerDone, workClosed, cause, outcome>>
      ELSE Cleanup(why)

SelectCancelled ==
    /\ pc = "select"
    /\ workerDone
    /\ DispatchFailed("cancelled")
    /\ UNCHANGED <<workChan, resultChan, resultClosed, writerDone, writerClosed, ctxDone,
                   groupErr, fence, workerVars, writerVars, writerErr, failed, builderVars>>

SelectWriterDone ==
    /\ pc = "select"
    /\ WriterDoneReady
    /\ ConsumePipelineError
    /\ DispatchFailed(PipelineError)
    /\ UNCHANGED <<workChan, resultChan, resultClosed, writerClosed, ctxDone, groupErr,
                   fence, workerVars, writerVars, failed, builderVars>>

--------------------------------------------------------------------------------
(* finishSorted and the head of finishParallel. *)
Finish ==
    /\ pc = "idle" /\ ~closed
    /\ closed' = TRUE
    /\ IF totalKeysAdded # TotalKeys
         THEN Cleanup("mismatch") /\ UNCHANGED op
         ELSE IF writerErr
         THEN Cleanup("failure") /\ UNCHANGED op
         ELSE /\ op' = "finish"
              /\ pc' = "next"
              /\ UNCHANGED <<iwVars, workersShutDown, workerDone, workClosed, cause, outcome>>
    /\ UNCHANGED <<workChan, resultChan, resultClosed, writerDone, writerClosed, ctxDone,
                   groupErr, fence, workerVars, writerVars, writerErr, failed, firstKey,
                   currentBlockIdx, nextBlockToWrite, lastBlockID, keyCounter, keysBefore,
                   totalKeysAdded, pendingEntries, target, job, calls, accepted>>

(* close on a builder that was not finished. *)
Close ==
    /\ pc = "idle" /\ ~closed
    /\ closed' = TRUE
    /\ Cleanup("closed")
    /\ UNCHANGED <<workChan, resultChan, resultClosed, writerDone, writerClosed, ctxDone,
                   groupErr, fence, workerVars, writerVars, writerErr, failed, firstKey,
                   currentBlockIdx, nextBlockToWrite, lastBlockID, keyCounter, keysBefore,
                   totalKeysAdded, pendingEntries, op, target, job, calls, accepted>>

(* Any call on a closed builder: AddKey and Finish return ErrBuilderClosed,
   Close finds the pipeline already torn down. *)
CallAfterClose ==
    /\ pc = "idle" /\ closed /\ workersShutDown
    /\ UNCHANGED vars

CallerStep == (\E b \in Blocks : AddKey(b)) \/ Finish \/ Close \/ CallAfterClose

BuilderStep == DispatchPending \/ DispatchEmpty \/ AcceptKey \/ StartDrain
               \/ SelectSend \/ SelectCancelled \/ SelectWriterDone

PoolStep ==
    /\ \/ \E w \in Workers : WorkerStep(w)
       \/ WriterStep
       \/ UserCancel
       \/ TeardownStep
    /\ UNCHANGED builderVars

Next == CallerStep \/ BuilderStep \/ PoolStep

(* Every goroutine that can run does run: a call in progress, each worker, the
   writer.  Nothing makes the caller call, or the context be cancelled. *)
Fairness ==
    /\ WF_vars(BuilderStep)
    /\ WF_vars(TeardownStep /\ UNCHANGED builderVars)
    /\ \A w \in Workers : WF_vars(WorkerStep(w) /\ UNCHANGED builderVars)
    /\ WF_vars(WriterStep /\ UNCHANGED builderVars)

Spec == Init /\ [][Next]_vars
FairSpec == Spec /\ Fairness

--------------------------------------------------------------------------------
(* Properties. *)

(* When Finish returns nil, the file holds exactly the keys whose AddKey returned
   nil: every block once and in order, with the key ranges, metadata, payloads
   and hash order a reader expects - also when the caller ignored AddKey errors
   and went on (dispatchBlockWork has by then counted a block it never sent). *)
IndexCorrect ==
    outcome = "ok" => output = "final" /\ IndexHolds(accepted)

(* A block that failed to build, or whose payload or metadata write failed, is
   never followed by a Finish that returns nil. *)
FailureNotSwallowed ==
    outcome = "ok" => ~failed

(* Payload cells of a committed block are never overwritten, and lie where the
   RAM index says, although workers write them concurrently at offsets the
   dispatcher computed long before the writer commits the block. *)
CommittedBlocksIntact ==
    \A b \in 0 .. blockCount - 1 :
        LET to == IF b + 1 < Len(ramIndex) THEN ramIndex[b + 2].keysBefore ELSE keyCount
        IN  \A i \in ramIndex[b + 1].keysBefore .. to - 1 : payloads[i] = b

(* The file is closed only after the last goroutine that may write to it is past
   its last write (cleanup: "Workers must be stopped before closing the file"). *)
NoWriteToClosedFile ==
    ~fileOpen => /\ \A w \in Workers : wpc[w] \notin {"check", "build"}
                 /\ writerPc # "emit"

(* No send on a closed channel and no second close: each of these panics. *)
NoChannelPanic ==
    /\ \A w \in Workers : wpc[w] = "send" => ~resultClosed
    /\ pc \in {"select", "drain"} => ~workClosed
    /\ pc \in {"drainWait", "shutWait"} => ~resultClosed
    /\ workClosed => workersShutDown

(* drainParallelPipeline reports the failure itself, not the bare cancellation
   of workerCtx it caused, unless the caller cancelled too. *)
DrainReportsFailure ==
    pc = "drainWriter" /\ WriterDoneReady /\ failed /\ ~ctxDone => DrainCause = "failure"

(* Every call returns: a failing block, a writer error or a cancellation never
   leaves AddKey, Finish or Close blocked. *)
CallsReturn == pc # "idle" ~> pc = "idle"

(* Once the builder is closed, every goroutine of the pool exits. *)
GoroutinesExit == closed ~> (AllWorkersExited /\ writerPc = "exit")

(* The parallel build implements the promise of BuildOutcome. *)
Outcome == INSTANCE BuildOutcome WITH committed <- blockCount, file <- output
ImplementsBuildOutcome == Outcome!Spec
================================================================================
