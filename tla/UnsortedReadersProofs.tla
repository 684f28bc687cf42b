-------------------------- MODULE UnsortedReadersProofs --------------------------
(***************************************************************************)
(* Proofs about Finish of an unsorted build with several workers, for any  *)
(* number of partitions, readers, slots, blocks, keys and workers: the     *)
(* fences keep a slot from being overwritten, the partition files outlive  *)
(* their readers, and a Finish that gives up has an error to return.       *)
(***************************************************************************)
EXTENDS UnsortedReaders, FiniteSetTheorems, TLAPS

(* The finishing goroutine still dispatches, and it does so from slotIdx. *)
Dispatching == pc \in {"partition", "block", "select"}
Loading == path = "files" /\ pc \in {"block", "select"}

(* Who has closed which channel; a writer that stopped while blocks are still being
   dispatched has left its error in writerDone. *)
WriterStopped == writerPc \in {"cancel", "close", "exit"}
ChannelInv ==
    /\ workClosed = workersShutDown
    /\ Dispatching \/ pc \in {"failWait", "drain"} => ~workersShutDown
    /\ pc \in {"drainWait", "drainWriter", "finalize", "shutWait", "shutWriter"} =>
          workersShutDown
    /\ resultClosed => workersShutDown /\ pc \notin {"drainWait", "shutWait"}
    /\ writerClosed => writerPc = "exit"
    /\ Dispatching /\ WriterStopped => writerDone

(* A Finish that is giving up, or gave up, has the error to return. *)
CauseInv ==
    /\ pc \in {"failWait", "shutWait", "shutWriter"} => cause # "none"
    /\ outcome = "failed" => cause # "none"

(* The fast path has no readers, and the files outlive the readers. *)
FilesInv ==
    /\ path = "memory" => pc # "partition" /\ \A r \in Readers : rpc[r] = "exit"
    /\ ~partsOpen => \A r \in Readers : rpc[r] = "exit"

(* Where the loops over partitions and over their blocks stand. *)
LoopInv ==
    /\ Loading => /\ part < numPartitions
                  /\ part * blocksPerPart <= blockID
                  /\ blockID <= (part + 1) * blocksPerPart
    /\ path = "files" /\ pc = "partition" =>
          \/ blockID = part * blocksPerPart
          \/ NumBlocks <= blockID /\ blockID <= part * blocksPerPart
    /\ pc = "select" => /\ blockID \in Blocks /\ job.blockID = blockID
                        /\ path = "files" => PartitionOf(blockID) = part
                        /\ job.fence # NoFence => path = "files" /\ job.fence = slotIdx

(* The dispatched items are different blocks, in order, all of them before blockID. *)
ItemsInv ==
    /\ \A i \in DOMAIN workChan : workChan[i].blockID < blockID
    /\ \A i, j \in DOMAIN workChan : i < j => workChan[i].blockID < workChan[j].blockID
    /\ \A w \in Workers : wpc[w] = "check" =>
          /\ wjob[w].blockID < blockID
          /\ \A i \in DOMAIN workChan : wjob[w].blockID < workChan[i].blockID
          /\ \A v \in Workers : wpc[v] = "check" /\ wjob[v].blockID = wjob[w].blockID => v = w

(* The blocks whose work items still refer to slot s; the fence counts them. *)
Borrows(b, s) ==
    \/ \E i \in DOMAIN workChan : workChan[i].blockID = b /\ workChan[i].fence = s
    \/ \E w \in Workers : wpc[w] = "check" /\ wjob[w].blockID = b /\ wjob[w].fence = s
    \/ pc = "select" /\ job.blockID = b /\ job.fence = s
Borrowers(s) == {b \in Blocks : Borrows(b, s)}
FenceInv == \A s \in Fences : fence[s] = Cardinality(Borrowers(s))

(* A slot that is being filled, is queued, is dispatched from, waits for its fence or
   is referred to is not ready, and it holds the partition its user believes. *)
Filling(r) == rpc[r] \in {"read", "send"}
Queued(r) == resultCh[r] # <<>>
InUse(s, p) == s \in Fences /\ ~slotReady[s] /\ s \notin waiters /\ slotHolds[s] = p
SlotInv ==
    /\ \A r \in Readers : Filling(r) =>
          rpart[r] < numPartitions /\ InUse(SlotOf(r, rpart[r]), rpart[r])
    /\ \A r \in Readers : Queued(r) => InUse(resultCh[r][1].slotIdx, resultCh[r][1].part)
    /\ Loading => InUse(slotIdx, part)
    /\ \A s \in waiters : ~slotReady[s]
    /\ \A s \in Fences, b \in Blocks :
          Borrows(b, s) => ~slotReady[s] /\ slotHolds[s] = PartitionOf(b)

(* While partitions are dispatched, reader r's next one - queued, or still to be read -
   is the first one from nextPart on that belongs to it. *)
nextPart == IF pc = "partition" THEN part ELSE part + 1
Pending(r) == IF Queued(r) THEN resultCh[r][1].part ELSE rpart[r]
StrideInv ==
    Dispatching /\ path = "files" => \A r \in Readers :
       /\ Pending(r) % numReaders = r
       /\ nextPart <= Pending(r) /\ Pending(r) < nextPart + numReaders
       /\ Queued(r) => rpart[r] = resultCh[r][1].part + numReaders

(* A reader leaves early only after a cancellation or with its error queued. *)
LeaveInv ==
    Dispatching /\ path = "files" =>
       /\ readerDone => ctxDone
       /\ \A r \in Readers :
             /\ rpc[r] = "stop" => Queued(r) /\ resultCh[r][1].err
             /\ resultChClosed[r] => \/ ctxDone \/ rpart[r] >= numPartitions
                                     \/ Queued(r) /\ resultCh[r][1].err

ReadersInv ==
    /\ TypeOK /\ ChannelInv /\ CauseInv /\ FilesInv /\ LoopInv /\ ItemsInv /\ FenceInv
    /\ SlotInv /\ StrideInv /\ LeaveInv

--------------------------------------------------------------------------------
(* Arithmetic. *)

LEMMA Division ==
    ASSUME NEW R \in Nat \ {0}, NEW x \in Nat
    PROVE  \E q \in Nat, m \in 0 .. R - 1 : q = x \div R /\ m = x % R /\ x = R * q + m
<1>1. PICK q \in Nat : q = x \div R
  OBVIOUS
<1>2. PICK m \in 0 .. R - 1 : m = x % R
  OBVIOUS
<1>3. x = R * q + m
  BY <1>1, <1>2
<1> QED BY ONLY <1>1, <1>2, <1>3

(* The quotient by R is p exactly in the p-th interval of length R. *)
LEMMA QuotientInterval ==
    ASSUME NEW R \in Nat \ {0}, NEW b \in Nat, NEW p \in Nat
    PROVE  b \div R = p <=> p * R <= b /\ b < (p + 1) * R
<1>1. PICK q \in Nat, m \in 0 .. R - 1 : q = b \div R /\ m = b % R /\ b = R * q + m
  BY Division
<1>4. CASE q = p
  BY <1>1, <1>4
<1>5. CASE q > p
  <2>1. PICK d \in Nat : q = p + 1 + d
    BY <1>5
  <2>2. R * q = (p + 1) * R + R * d /\ R * d >= 0 /\ (p + 1) * R \in Nat
    BY <2>1
  <2> QED BY <1>1, <1>5, <2>2
<1>6. CASE q < p
  <2>1. PICK d \in Nat : p = q + 1 + d
    BY <1>6
  <2>2. p * R = R * q + R + R * d /\ R * d >= 0 /\ R * q \in Nat
    BY <2>1
  <2> QED BY <1>1, <1>6, <2>2
<1> QED BY <1>1, <1>4, <1>5, <1>6

(* Remainders repeat with period R, and only with it. *)
LEMMA RemainderShift ==
    ASSUME NEW R \in Nat \ {0}, NEW x \in Nat
    PROVE  (x + R) % R = x % R
<1>1. PICK q \in Nat, m \in 0 .. R - 1 : q = x \div R /\ m = x % R /\ x = R * q + m
  BY Division
<1>2. R * (q + 1) = R * q + R /\ (q + 1) * R = R * (q + 1) /\ (q + 2) * R = R * (q + 1) + R
  OBVIOUS
<1>3. (x + R) \div R = q + 1
  <2>1. (q + 1) * R <= x + R /\ x + R < (q + 1 + 1) * R
    BY <1>1, <1>2
  <2> QED BY ONLY <2>1, QuotientInterval, x \in Nat, R \in Nat \ {0}, q \in Nat,
                  x + R \in Nat, q + 1 \in Nat
<1>4. PICK y \in Nat : y = x + R
  OBVIOUS
<1>5. PICK p \in Nat, k \in 0 .. R - 1 : p = y \div R /\ k = y % R /\ y = R * p + k
  BY ONLY Division, R \in Nat \ {0}, y \in Nat
<1>6. p = q + 1
  BY ONLY <1>3, <1>4, <1>5
<1>7. y = R * (q + 1) + k
  BY ONLY <1>5, <1>6
<1>8. k = m
  BY ONLY <1>1, <1>2, <1>4, <1>7, R \in Nat, R * q \in Nat
<1> QED BY ONLY <1>1, <1>4, <1>5, <1>8

LEMMA RemainderWindow ==
    ASSUME NEW R \in Nat \ {0}, NEW x \in Nat, NEW y \in Nat,
           x % R = y % R, y <= x, x < y + R
    PROVE  x = y
<1>1. PICK q \in Nat, m \in 0 .. R - 1 : q = x \div R /\ m = x % R /\ x = R * q + m
  BY ONLY Division, R \in Nat \ {0}, x \in Nat
<1>2. PICK k \in Nat, l \in 0 .. R - 1 : k = y \div R /\ l = y % R /\ y = R * k + l
  BY ONLY Division, R \in Nat \ {0}, y \in Nat
<1>3. m = l
  BY ONLY <1>1, <1>2, x % R = y % R
<1>4. CASE q > k
  <2>1. PICK d \in Nat : q = k + 1 + d
    BY ONLY <1>4, q \in Nat, k \in Nat
  <2>2. R * q = R * k + R + R * d /\ R * d >= 0 /\ R * k \in Nat
    BY ONLY <2>1, q \in Nat, k \in Nat, R \in Nat
  <2> QED BY ONLY <1>1, <1>2, <1>3, <2>2, R \in Nat, x < y + R
<1>5. CASE q < k
  <2>1. PICK d \in Nat : k = q + 1 + d
    BY ONLY <1>5, q \in Nat, k \in Nat
  <2>2. R * k = R * q + R + R * d /\ R * d >= 0 /\ R * q \in Nat
    BY ONLY <2>1, q \in Nat, k \in Nat, R \in Nat
  <2> QED BY ONLY <1>1, <1>2, <1>3, <2>2, R \in Nat, y <= x, R \in Nat \ {0}
<1>6. CASE q = k
  BY ONLY <1>1, <1>2, <1>3, <1>6
<1> QED BY ONLY <1>4, <1>5, <1>6, q \in Nat, k \in Nat

(* What the assumptions on the constants give the proofs. *)
LEMMA ConstantTypes ==
  /\ NumBlocks \in Nat /\ NumBlocks >= 2 /\ TotalKeys \in Nat
  /\ Blocks = 0 .. NumBlocks - 1 /\ 0 \in Blocks
  /\ NoFence \notin Fences
  /\ NoJob \in Job /\ NoJob.fence = NoFence
  /\ numPartitions \in Nat \ {0} /\ blocksPerPart \in Nat \ {0} /\ slotsPerReader \in Nat \ {0}
  /\ Partitions = 0 .. numPartitions - 1
  BY IndexWriterAssumption, WorkerPoolAssumption, UnsortedReadersAssumption
     DEF Blocks, NoJob, Job, Partitions

(* There are at most as many slots as partitions, and as many readers as fill them. *)
LEMMA ReaderNumbers ==
  /\ numSlots \in Nat \ {0} /\ numReaders \in Nat \ {0}
  /\ Fences = 0 .. numSlots - 1 /\ 0 \in Fences
  /\ Readers = 0 .. numReaders - 1
  /\ \/ numReaders * slotsPerReader <= numSlots
     \/ numReaders = 1 /\ numSlots = numPartitions
<1>0. /\ numPartitions \in Nat \ {0} /\ slotsPerReader \in Nat \ {0}
      /\ readPipelineDepth \in Nat \ {0} /\ Fences = 0 .. numSlots - 1
  BY UnsortedReadersAssumption
<1>1. PICK m \in Nat \ {0} : m = readPipelineDepth * slotsPerReader /\ slotsPerReader <= m
  BY <1>0
<1>2. numSlots = IF m <= numPartitions THEN m ELSE numPartitions
  BY <1>0, <1>1 DEF numSlots, Min
<1>3. numSlots \in Nat \ {0}
  BY <1>0, <1>1, <1>2
<1>4. PICK q \in Nat : q = numSlots \div slotsPerReader
  BY <1>0, <1>3
<1>5. numReaders = IF q <= 1 THEN 1 ELSE q
  BY <1>4 DEF numReaders, Max
<1>6. q * slotsPerReader <= numSlots /\ numSlots < (q + 1) * slotsPerReader
  BY <1>0, <1>3, <1>4, QuotientInterval
<1>7. CASE q = 0
  <2>1. numSlots < slotsPerReader
    BY <1>0, <1>3, <1>6, <1>7
  <2>2. numSlots = numPartitions
    BY <1>0, <1>1, <1>2, <2>1
  <2> QED BY <1>0, <1>3, <1>5, <1>7, <2>2 DEF Readers
<1>8. CASE q # 0
  <2>1. numReaders = q
    BY <1>5, <1>8
  <2> QED BY <1>0, <1>3, <1>6, <1>8, <2>1 DEF Readers
<1> QED BY <1>7, <1>8

LEMMA ReaderOf ==
  /\ numReaders \in Nat \ {0} /\ Readers = 0 .. numReaders - 1
  /\ \A p \in Nat : p % numReaders \in Readers
<1>1. numReaders \in Nat \ {0} /\ Readers = 0 .. numReaders - 1
  BY ONLY ReaderNumbers
<1>2. ASSUME NEW p \in Nat PROVE p % numReaders \in Readers
  BY ONLY <1>1, Division, p \in Nat
<1> QED BY ONLY <1>1, <1>2

(* A reader only uses slots there are. *)
LEMMA SlotsExist ==
    ASSUME NEW r \in Readers, NEW p \in Partitions
    PROVE  SlotOf(r, p) \in Fences
<1>0. /\ numPartitions \in Nat \ {0} /\ slotsPerReader \in Nat \ {0}
      /\ Partitions = 0 .. numPartitions - 1
  BY ConstantTypes
<1>1. PICK q \in Nat : q = p \div numReaders
  BY <1>0, ReaderNumbers
<1>2. PICK m \in 0 .. slotsPerReader - 1 : m = q % slotsPerReader
  BY <1>0, <1>1
<1>3. SlotOf(r, p) = r * slotsPerReader + m
  BY <1>1, <1>2 DEF SlotOf
<1>4. CASE numReaders * slotsPerReader <= numSlots
  <2>1. PICK d \in Nat : numReaders = r + 1 + d
    BY ReaderNumbers
  <2>2. /\ numReaders * slotsPerReader = r * slotsPerReader + slotsPerReader + d * slotsPerReader
        /\ d * slotsPerReader >= 0 /\ r * slotsPerReader \in Nat
    BY <1>0, <2>1, ReaderNumbers
  <2> QED BY <1>0, <1>2, <1>3, <1>4, <2>2, ReaderNumbers
<1>5. CASE numReaders = 1 /\ numSlots = numPartitions
  <2>1. r = 0 /\ q = p
    BY <1>0, <1>1, <1>5, ReaderNumbers
  <2>2. m <= p
    BY <1>0, <1>2, <2>1
  <2>3. SlotOf(r, p) = m
    BY <1>0, <1>3, <2>1
  <2> QED BY <1>0, <1>5, <2>2, <2>3, ReaderNumbers
<1> QED BY <1>4, <1>5, ReaderNumbers

--------------------------------------------------------------------------------
(* Types.  That a fence stays a natural number comes from FenceInv. *)

FenceOK == fence \in [Fences -> Nat]

(* TypeOK without the pool's part. *)
ResultSet == [slotIdx : Fences, part : Partitions, err : BOOLEAN]
LoaderTypeOK ==
    /\ path \in {"files", "memory"}
    /\ size \in [Blocks -> 0 .. MaxBlockKeys]
    /\ partsOpen \in BOOLEAN /\ readerDone \in BOOLEAN
    /\ rpc \in [Readers -> {"wait", "read", "send", "stop", "exit"}]
    /\ rpart \in [Readers -> Nat] /\ rerr \in [Readers -> BOOLEAN]
    /\ resultCh \in [Readers -> Seq(ResultSet)] /\ \A r \in Readers : Len(resultCh[r]) <= 1
    /\ resultChClosed \in [Readers -> BOOLEAN]
    /\ slotReady \in [Fences -> BOOLEAN]
    /\ slotHolds \in [Fences -> Partitions \cup {-1}]
    /\ waiters \in SUBSET Fences
    /\ part \in 0 .. numPartitions /\ slotIdx \in Fences
    /\ blockID \in Nat /\ keysBefore \in Nat /\ job \in Job
PcOK ==
    pc \in {"partition", "block", "select", "failWait", "readersWait", "drain",
            "drainWait", "drainWriter", "finalize", "shutWait", "shutWriter", "idle"}

LEMMA TypeParts == TypeOK <=> PoolTypeOK /\ PcOK /\ LoaderTypeOK
BY DEF TypeOK, PcOK, LoaderTypeOK, ResultSet

LEMMA TypePartsNext == TypeOK' <=> PoolTypeOK' /\ PcOK' /\ LoaderTypeOK'
BY TypeParts, PTL

LEMMA InitTypes == Init => TypeOK
<1> SUFFICES ASSUME Init PROVE TypeOK
  OBVIOUS
<1>1. IWTypeOK
  BY ConstantTypes DEF Init, PoolInit, IWInit, IWTypeOK, EmptyBlock, BlockDataSet
<1>2. PoolTypeOK
  <2> USE DEF Init, PoolInit
  <2>1. /\ writerDone \in BOOLEAN /\ writerClosed \in BOOLEAN
        /\ ctxDone \in BOOLEAN /\ workerDone \in BOOLEAN
        /\ workersShutDown \in BOOLEAN /\ writerErr \in BOOLEAN
        /\ workClosed \in BOOLEAN /\ resultClosed \in BOOLEAN /\ failed \in BOOLEAN
    OBVIOUS
  <2>2. werr \in [Workers -> BOOLEAN]
    OBVIOUS
  <2>3. workChan \in Seq(Job) /\ resultChan \in Seq(Result) /\ reorder \in SUBSET Result
    OBVIOUS
  <2>4. wjob \in [Workers -> Job]
    BY ConstantTypes
  <2>5. fence \in [Fences -> Nat] /\ nextBlockID \in Nat
    OBVIOUS
  <2>6. wpc \in [Workers -> {"recv", "check", "build", "send", "return", "exit"}]
    OBVIOUS
  <2> QED BY <1>1, <2>1, <2>2, <2>3, <2>4, <2>5, <2>6 DEF PoolTypeOK, Causes
<1>3. LoaderTypeOK
  <2>1. partsOpen \in BOOLEAN /\ readerDone \in BOOLEAN /\ rerr \in [Readers -> BOOLEAN]
        /\ resultChClosed \in [Readers -> BOOLEAN] /\ slotReady \in [Fences -> BOOLEAN]
    BY DEF Init
  <2>2. rpc \in [Readers -> {"wait", "read", "send", "stop", "exit"}]
    BY DEF Init
  <2>3. rpart \in [Readers -> Nat]
    BY ReaderNumbers DEF Init
  <2>4. resultCh \in [Readers -> Seq(ResultSet)] /\ \A r \in Readers : Len(resultCh[r]) <= 1
    BY DEF Init
  <2>5. part \in 0 .. numPartitions /\ slotIdx \in Fences /\ job \in Job
    BY ConstantTypes, ReaderNumbers DEF Init
  <2> QED BY <2>1, <2>2, <2>3, <2>4, <2>5 DEF Init, LoaderTypeOK
<1>4. PcOK
  BY DEF Init, PcOK
<1> QED BY <1>2, <1>3, <1>4, TypeParts

(* What a worker's step leaves alone, and the types it keeps. *)
LEMMA WorkerTypes ==
  ASSUME PoolTypeOK, FenceOK', NEW w \in Workers, WorkerStep(w)
  PROVE  PoolTypeOK' /\ pc' = pc
<1> USE DEF iwVars, chanVars, ctxVars, workerVars, writerVars, mainVars
<1>1. pc' = pc
  BY DEF WorkerStep, WorkerReceive, WorkerFinish, WorkerExit, WorkerCancelled, WorkerAddKeys,
     WorkerBuild, WorkerSend, WorkerSendCancelled, WorkerReturnErr
<1>2. PoolTypeOK'
  <2> USE DEF PoolTypeOK, IWTypeOK, FenceOK
  <2>1. CASE WorkerReceive(w)
    BY <2>1 DEF WorkerReceive
  <2>2. CASE WorkerFinish(w)
    BY <2>2 DEF WorkerFinish, WorkerExit
  <2>3. CASE WorkerCancelled(w)
    BY <2>3 DEF WorkerCancelled, WorkerExit
  <2>4. CASE WorkerAddKeys(w)
    BY <2>4 DEF WorkerAddKeys
  <2>5. CASE WorkerBuild(w)
    <3>1. payloads' \in [0 .. TotalKeys - 1 -> BlockDataSet]
      <4>0. PICK b, m, o : b = wjob[w].blockID /\ m = wjob[w].n /\ o = wjob[w].keysBefore
        OBVIOUS
      <4>1. payloads' = PayloadsWith(b, m, o) \/ payloads' = payloads
        BY ONLY <2>5, <4>0 DEF WorkerBuild
      <4>2. b \in BlockDataSet
        BY <4>0 DEF BlockDataSet, Job
      <4>3. payloads \in [0 .. TotalKeys - 1 -> BlockDataSet]
        OBVIOUS
      <4> QED BY ONLY <4>1, <4>2, <4>3 DEF PayloadsWith
    <3>2. werr' \in [Workers -> BOOLEAN] /\ failed' \in BOOLEAN
      BY <2>5 DEF WorkerBuild
    <3> QED BY <2>5, <3>1, <3>2 DEF WorkerBuild
  <2>6. CASE WorkerSend(w)
    BY <2>6 DEF WorkerSend, Job, Result
  <2>7. CASE WorkerSendCancelled(w)
    BY <2>7 DEF WorkerSendCancelled, WorkerExit
  <2>8. CASE WorkerReturnErr(w)
    BY <2>8 DEF WorkerReturnErr, WorkerExit
  <2> QED BY <2>1, <2>2, <2>3, <2>4, <2>5, <2>6, <2>7, <2>8 DEF WorkerStep
<1> QED BY <1>1, <1>2

LEMMA WriterTypes ==
  ASSUME PoolTypeOK, WriterStep
  PROVE  PoolTypeOK' /\ pc' = pc
<1> USE DEF iwVars, chanVars, ctxVars, workerVars, writerVars, mainVars
<1>1. pc' = pc
  BY DEF WriterStep, WriterReceive, WriterEmit, WriterCancel, WriterClose
<1>2. PoolTypeOK'
  <2> USE DEF PoolTypeOK, IWTypeOK
  <2>1. CASE WriterReceive
    <3>1. Head(resultChan) \in Result /\ Tail(resultChan) \in Seq(Result)
      BY <2>1 DEF WriterReceive
    <3>2. writerDone' \in BOOLEAN
      BY <2>1 DEF WriterReceive
    <3> QED BY <2>1, <3>1, <3>2 DEF WriterReceive, WriterAt
  <2>2. CASE WriterEmit
    <3> PICK r \in reorder, ok \in BOOLEAN :
          /\ reorder' = reorder \ {r}
          /\ FoldPayloadHash(r.blockID, r.n)
          /\ WriteMetadata(r.blockID, r.n, ok)
          /\ nextBlockID' = IF ok THEN nextBlockID + 1 ELSE nextBlockID
          /\ writerPc' = IF ok THEN WriterAt(reorder', nextBlockID') ELSE "cancel"
          /\ writerDone' = (writerDone \/ ~ok)
          /\ failed' = (failed \/ ~ok)
      BY <2>2 DEF WriterEmit
    <3>1. r.blockID \in Blocks /\ r.n \in Nat
      BY DEF Result
    <3>2. BlockData(r.blockID, r.n) \in BlockDataSet
      BY <3>1 DEF BlockData, BlockDataSet
    <3>3. ramIndex' \in Seq(RamIndexEntry)
      BY DEF WriteMetadata, RecordAndWriteMetadata, CurrentEntry, RamIndexEntry
    <3>4. metadata' \in Seq(BlockDataSet) /\ payloadHash' \in Seq(BlockDataSet)
      BY <3>2 DEF WriteMetadata, RecordAndWriteMetadata, FoldPayloadHash
    <3>5. keyCount' \in Nat /\ blockCount' \in Nat /\ nextBlockID' \in Nat
      BY <3>1 DEF WriteMetadata, Advance
    <3>6. writerDone' \in BOOLEAN /\ failed' \in BOOLEAN
      OBVIOUS
    <3>7. writerPc' \in {"recv", "emit", "cancel", "close", "exit"}
      BY DEF WriterAt
    <3> QED BY <2>2, <3>3, <3>4, <3>5, <3>6, <3>7 DEF WriterEmit
  <2>3. CASE WriterCancel
    BY <2>3 DEF WriterCancel
  <2>4. CASE WriterClose
    BY <2>4 DEF WriterClose
  <2> QED BY <2>1, <2>2, <2>3, <2>4 DEF WriterStep
<1> QED BY <1>1, <1>2

LEMMA CleanupTypes ==
  ASSUME PoolTypeOK, NEW why \in Causes, Cleanup(why)
  PROVE  /\ IWTypeOK'
         /\ cause' \in Causes
         /\ outcome' \in {"building", "ok", "failed"}
         /\ pc' \in {"idle", "shutWait"}
         /\ workersShutDown' \in BOOLEAN /\ workerDone' \in BOOLEAN
         /\ workClosed' \in BOOLEAN
<1> USE DEF PoolTypeOK
<1>1. IWTypeOK'
  BY DEF Cleanup, CloseAndRemove, IWTypeOK, iwVars
<1>2. /\ cause' \in Causes
      /\ outcome' \in {"building", "ok", "failed"}
      /\ pc' \in {"idle", "shutWait"}
  BY DEF Cleanup
<1>3. /\ workersShutDown' \in BOOLEAN /\ workerDone' \in BOOLEAN
      /\ workClosed' \in BOOLEAN
  BY DEF Cleanup
<1> QED BY <1>1, <1>2, <1>3

LEMMA TeardownTypes ==
  ASSUME PoolTypeOK, FenceOK', TeardownStep
  PROVE  PoolTypeOK' /\ PcOK'
<1> USE DEF iwVars, chanVars, ctxVars, workerVars, writerVars, mainVars, PcOK, FenceOK
<1>1. CASE ShutdownWait
  <2>1. workChan' \in Seq(Job) /\ resultClosed' \in BOOLEAN
    BY <1>1 DEF ShutdownWait
  <2> QED BY <1>1, <2>1 DEF ShutdownWait, PoolTypeOK, IWTypeOK
<1>2. CASE ShutdownWriter
  <2>1. IWTypeOK'
    BY <1>2 DEF ShutdownWriter, CloseAndRemove, PoolTypeOK, IWTypeOK
  <2>2. writerDone' \in BOOLEAN /\ pc' = "idle"
    BY <1>2 DEF ShutdownWriter
  <2> QED BY <1>2, <2>1, <2>2 DEF ShutdownWriter, PoolTypeOK
<1>3. CASE Drain
  BY <1>3 DEF Drain, PoolTypeOK, IWTypeOK
<1>4. CASE DrainWait
  BY <1>4 DEF DrainWait, PoolTypeOK, IWTypeOK
<1>5. CASE DrainWriter
  <2>1. DrainCause \in Causes
    BY DEF DrainCause, Causes, PoolTypeOK
  <2>2. CASE DrainCause # "none"
    <3>1. Cleanup(DrainCause)
      BY <1>5, <2>2 DEF DrainWriter
    <3>2. /\ IWTypeOK' /\ cause' \in Causes /\ outcome' \in {"building", "ok", "failed"}
          /\ pc' \in {"idle", "shutWait"} /\ workersShutDown' \in BOOLEAN
          /\ workerDone' \in BOOLEAN /\ workClosed' \in BOOLEAN
      BY <2>1, <3>1, CleanupTypes
    <3>3. writerDone' \in BOOLEAN
      BY <1>5 DEF DrainWriter
    <3> QED BY <1>5, <3>2, <3>3 DEF DrainWriter, PoolTypeOK
  <2>3. CASE DrainCause = "none"
    <3>1. writerDone' \in BOOLEAN
      BY <1>5 DEF DrainWriter
    <3> QED BY <1>5, <2>3, <3>1 DEF DrainWriter, PoolTypeOK, IWTypeOK
  <2> QED BY <2>2, <2>3
<1>6. CASE FinalizeIndex
  <2>1. ramIndex' \in Seq(RamIndexEntry)
    BY <1>6 DEF FinalizeIndex, Finalize, CurrentEntry, RamIndexEntry, PoolTypeOK, IWTypeOK
  <2>2. IWTypeOK'
    BY <1>6, <2>1 DEF FinalizeIndex, Finalize, PoolTypeOK, IWTypeOK
  <2>3. pc' = "idle" /\ cause' \in Causes /\ outcome' \in {"building", "ok", "failed"}
    BY <1>6 DEF FinalizeIndex, Causes
  <2> QED BY <1>6, <2>2, <2>3 DEF FinalizeIndex, PoolTypeOK
<1> QED BY <1>1, <1>2, <1>3, <1>4, <1>5, <1>6 DEF TeardownStep

(* The steps of the readers and of the finishing goroutine keep the types. *)
LEMMA ReaderTypes ==
  ASSUME LoaderTypeOK, PoolTypeOK, PcOK, SlotInv, NEW r \in Readers, ReaderStep(r)
  PROVE  LoaderTypeOK' /\ PoolTypeOK' /\ PcOK'
<1> USE DEF inputVars, loopVars
<1>1. PoolTypeOK' /\ pc' = pc
  BY DEF PoolTypeOK, IWTypeOK, poolVars, iwVars, chanVars, ctxVars, workerVars, writerVars,
     mainVars, ReaderStep, ReaderTakeSlot, ReaderRead, ReaderSend, ReaderExit
<1>2. LoaderTypeOK'
  <2> USE DEF LoaderTypeOK
  <2>1. CASE ReaderTakeSlot(r)
    <3>1. rpart[r] \in Partitions
      BY <2>1, ConstantTypes DEF ReaderTakeSlot
    <3>2. slotHolds' \in [Fences -> Partitions \cup {-1}]
      BY <2>1, <3>1 DEF ReaderTakeSlot
    <3>3. slotReady' \in [Fences -> BOOLEAN]
      BY <2>1 DEF ReaderTakeSlot
    <3>4. rpc' \in [Readers -> {"wait", "read", "send", "stop", "exit"}]
      BY <2>1 DEF ReaderTakeSlot
    <3> QED BY <2>1, <3>2, <3>3, <3>4 DEF ReaderTakeSlot
  <2>2. CASE ReaderRead(r)
    <3>1. rerr' \in [Readers -> BOOLEAN]
      BY <2>2 DEF ReaderRead
    <3>2. rpc' \in [Readers -> {"wait", "read", "send", "stop", "exit"}]
      BY <2>2 DEF ReaderRead
    <3> QED BY <2>2, <3>1, <3>2 DEF ReaderRead
  <2>3. CASE ReaderSend(r)
    <3>1. rpart[r] \in Partitions
      BY <2>3, ConstantTypes DEF ReaderSend, SlotInv, Filling
    <3>2. PICK res \in ResultSet :
            res = [slotIdx |-> SlotOf(r, rpart[r]), part |-> rpart[r], err |-> rerr[r]]
      BY <3>1, SlotsExist DEF ResultSet
    <3>3. resultCh' = [resultCh EXCEPT ![r] = <<res>>]
      BY <2>3, <3>2 DEF ReaderSend
    <3>4. <<res>> \in Seq(ResultSet) /\ Len(<<res>>) = 1
      OBVIOUS
    <3>5. resultCh' \in [Readers -> Seq(ResultSet)] /\ \A q \in Readers : Len(resultCh'[q]) <= 1
      BY <3>3, <3>4
    <3>6. rpart' \in [Readers -> Nat]
      <4>1. numReaders \in Nat
        BY ReaderOf
      <4>2. rpart' = [rpart EXCEPT ![r] = rpart[r] + numReaders]
        BY <2>3 DEF ReaderSend
      <4> QED BY <4>1, <4>2
    <3>7. rpc' \in [Readers -> {"wait", "read", "send", "stop", "exit"}]
      BY <2>3 DEF ReaderSend
    <3> QED BY <2>3, <3>5, <3>6, <3>7 DEF ReaderSend
  <2>4. CASE ReaderExit(r)
    <3>1. resultChClosed' \in [Readers -> BOOLEAN]
      BY <2>4 DEF ReaderExit
    <3>2. rpc' \in [Readers -> {"wait", "read", "send", "stop", "exit"}]
      BY <2>4 DEF ReaderExit
    <3> QED BY <2>4, <3>1, <3>2 DEF ReaderExit
  <2> QED BY <2>1, <2>2, <2>3, <2>4 DEF ReaderStep
<1> QED BY <1>1, <1>2 DEF PcOK

LEMMA FinishTypes ==
  ASSUME LoaderTypeOK, PoolTypeOK, PcOK, LoopInv, FenceOK', FinishStep
  PROVE  LoaderTypeOK' /\ PoolTypeOK' /\ PcOK'
<1> USE DEF inputVars, readerVars, loopVars, iwVars, chanVars, ctxVars, workerVars, writerVars,
            mainVars, FenceOK
<1>1. CASE ReceivePartition
  <2>1. PICK r \in Readers : /\ resultCh[r] # <<>>
                             /\ resultCh' = [resultCh EXCEPT ![r] = <<>>]
                             /\ slotIdx' \in {slotIdx, Head(resultCh[r]).slotIdx}
    <3>1. part % numReaders \in Readers
      BY ReaderOf DEF LoaderTypeOK
    <3> QED BY <1>1, <3>1 DEF ReceivePartition
  <2>2. resultCh' \in [Readers -> Seq(ResultSet)] /\ \A q \in Readers : Len(resultCh'[q]) <= 1
    BY <2>1 DEF LoaderTypeOK
  <2>3. slotIdx' \in Fences
    <3>1. Head(resultCh[r]) \in ResultSet
      BY <2>1 DEF LoaderTypeOK
    <3> QED BY <2>1, <3>1 DEF LoaderTypeOK, ResultSet
  <2>4. blockID' \in Nat /\ readerDone' \in BOOLEAN
    <3>1. part * blocksPerPart \in Nat
      BY ConstantTypes DEF LoaderTypeOK
    <3> QED BY <1>1, <3>1 DEF ReceivePartition, Fail, LoaderTypeOK
  <2>5. LoaderTypeOK'
    BY <1>1, <2>2, <2>3, <2>4 DEF ReceivePartition, LoaderTypeOK
  <2>6. cause' \in Causes /\ PcOK'
    BY <1>1 DEF ReceivePartition, Fail, Causes, PcOK, PoolTypeOK
  <2> QED BY <1>1, <2>5, <2>6 DEF ReceivePartition, PoolTypeOK, IWTypeOK
<1>2. CASE ReceiveGivesUp \/ PollGivesUp \/ SelectGivesUp
  <2>1. /\ readerDone' = TRUE /\ pc' = "failWait" /\ cause' \in Causes
        /\ writerDone' \in BOOLEAN /\ writerErr' \in BOOLEAN
    BY <1>2 DEF ReceiveGivesUp, PollGivesUp, SelectGivesUp, Fail, TakeWriterDone,
       WriterDoneError, PipelineError, ConsumePipelineError, Causes, PoolTypeOK
  <2>2. LoaderTypeOK'
    BY <1>2, <2>1 DEF ReceiveGivesUp, PollGivesUp, SelectGivesUp, LoaderTypeOK
  <2> QED BY <1>2, <2>1, <2>2 DEF ReceiveGivesUp, PollGivesUp, SelectGivesUp, PoolTypeOK, IWTypeOK,
             PcOK
<1>3. CASE PrepareBlock
  <2>1. job' \in Job /\ keysBefore' \in Nat
    <3>1. size[blockID] \in Nat /\ blockID \in Blocks
      BY <1>3 DEF PrepareBlock, BlockLeft, LoaderTypeOK
    <3> QED BY <1>3, <3>1 DEF PrepareBlock, LoaderTypeOK, Job
  <2>2. LoaderTypeOK'
    BY <1>3, <2>1 DEF PrepareBlock, LoaderTypeOK
  <2> QED BY <1>3, <2>2 DEF PrepareBlock, PoolTypeOK, IWTypeOK, PcOK
<1>4. CASE PartitionDispatched
  <2>1. part' \in 0 .. numPartitions
    BY <1>4, ConstantTypes DEF PartitionDispatched, LoaderTypeOK, LoopInv, Loading
  <2> QED BY <1>4, <2>1 DEF PartitionDispatched, LoaderTypeOK, PoolTypeOK, IWTypeOK, PcOK
<1>5. CASE SelectSend
  <2>1. workChan' \in Seq(Job)
    BY <1>5 DEF SelectSend, DispatchSend, PoolTypeOK, LoaderTypeOK
  <2>2. LoaderTypeOK'
    BY <1>5 DEF SelectSend, DispatchSend, LoaderTypeOK
  <2> QED BY <1>5, <2>1, <2>2 DEF SelectSend, DispatchSend, PoolTypeOK, IWTypeOK, PcOK
<1>6. CASE AllPartitionsDispatched \/ AllBlocksDispatched
  <2>1. partsOpen' \in BOOLEAN /\ pc' = "drain"
    BY <1>6 DEF AllPartitionsDispatched, AllBlocksDispatched
  <2>2. LoaderTypeOK'
    BY <1>6, <2>1 DEF AllPartitionsDispatched, AllBlocksDispatched, LoaderTypeOK
  <2> QED BY <1>6, <2>1, <2>2 DEF AllPartitionsDispatched, AllBlocksDispatched, PoolTypeOK, IWTypeOK,
             PcOK
<1>7. CASE FailWait
  <2>1. cause \in Causes /\ Cleanup(cause)
    BY <1>7 DEF FailWait, PoolTypeOK
  <2>2. LoaderTypeOK'
    BY <1>7 DEF FailWait, LoaderTypeOK
  <2> QED BY <1>7, <2>1, <2>2, CleanupTypes DEF FailWait, PoolTypeOK, PcOK
<1> QED BY <1>1, <1>2, <1>3, <1>4, <1>5, <1>6, <1>7 DEF FinishStep

LEMMA NextTypes ==
  ASSUME TypeOK, SlotInv, LoopInv, FenceOK', [Next]_vars
  PROVE  TypeOK'
<1>0. LoaderTypeOK /\ PoolTypeOK /\ PcOK
  BY TypeParts
<1>1. SUFFICES LoaderTypeOK' /\ PoolTypeOK' /\ PcOK'
  BY TypePartsNext
<1>2. CASE \E r \in Readers : ReaderStep(r)
  BY <1>0, <1>2, ReaderTypes
<1>3. ASSUME NEW s \in Fences, SlotReusable(s) PROVE LoaderTypeOK' /\ PoolTypeOK' /\ PcOK'
  <2>1. slotReady' \in [Fences -> BOOLEAN]
    BY <1>0, <1>3 DEF SlotReusable, LoaderTypeOK
  <2>2. LoaderTypeOK'
    BY <1>0, <1>3, <2>1 DEF SlotReusable, LoaderTypeOK, inputVars, loopVars
  <2> QED BY <1>0, <1>3, <2>2 DEF SlotReusable, PoolTypeOK, IWTypeOK, PcOK, poolVars, iwVars,
             chanVars, ctxVars, workerVars, writerVars, mainVars
<1>4. CASE FinishStep
  BY <1>0, <1>4, FinishTypes
<1>5. CASE CancelBuild
  <2>1. LoaderTypeOK'
    BY <1>0, <1>5 DEF CancelBuild, LoaderTypeOK, inputVars, loopVars
  <2> QED BY <1>0, <1>5, <2>1 DEF CancelBuild, UserCancel, PoolTypeOK, IWTypeOK, PcOK, iwVars,
             chanVars, ctxVars, workerVars, writerVars, mainVars
<1>6. ASSUME UnchangedHere PROVE LoaderTypeOK'
  BY <1>0, <1>6 DEF UnchangedHere, LoaderTypeOK, inputVars, readerVars, loopVars
<1>7. CASE (\E w \in Workers : WorkerStep(w)) /\ UnchangedHere
  BY <1>0, <1>6, <1>7, WorkerTypes DEF PcOK
<1>8. CASE WriterStep /\ UnchangedHere
  BY <1>0, <1>6, <1>8, WriterTypes DEF PcOK
<1>9. CASE TeardownStep /\ UnchangedHere
  BY <1>0, <1>6, <1>9, TeardownTypes
<1>10. CASE UNCHANGED vars
  BY <1>0, <1>10 DEF vars, poolVars, iwVars, chanVars, ctxVars, workerVars, writerVars, mainVars,
     inputVars, readerVars, loopVars, LoaderTypeOK, PoolTypeOK, IWTypeOK, PcOK
<1> QED BY <1>2, <1>3, <1>4, <1>5, <1>7, <1>8, <1>9, <1>10 DEF Next, Returned

--------------------------------------------------------------------------------
(* Closing channels, and giving up. *)

(* What is the same for every way of giving up. *)
GivesUp == ReceiveGivesUp \/ PollGivesUp \/ SelectGivesUp

LEMMA WorkerFrame ==
  ASSUME NEW w \in Workers, WorkerStep(w)
  PROVE  /\ UNCHANGED <<workClosed, resultClosed, writerDone, writerClosed, writerVars, mainVars, ctxDone>>
         /\ fileOpen' = fileOpen /\ output' = output
BY DEF WorkerStep, WorkerReceive, WorkerFinish, WorkerExit, WorkerCancelled, WorkerAddKeys,
       WorkerBuild, WorkerSend, WorkerSendCancelled, WorkerReturnErr, iwVars, chanVars, ctxVars,
       writerVars, mainVars

LEMMA WriterFrame ==
  ASSUME WriterStep
  PROVE  UNCHANGED <<workChan, workClosed, resultClosed, workerVars, mainVars, fence, ctxDone>>
BY DEF WriterStep, WriterReceive, WriterEmit, WriterCancel, WriterClose, iwVars, chanVars, ctxVars,
       workerVars, mainVars

LEMMA ChannelInvStep ==
  ASSUME TypeOK, ChannelInv, [Next]_vars
  PROVE  ChannelInv'
<1> USE DEF ChannelInv, Dispatching, WriterStopped
<1>1. ASSUME UNCHANGED poolVars PROVE ChannelInv'
  BY <1>1 DEF poolVars, chanVars, writerVars, mainVars
<1>2. CASE \E r \in Readers : ReaderStep(r)
  BY <1>1, <1>2 DEF ReaderStep, ReaderTakeSlot, ReaderRead, ReaderSend, ReaderExit
<1>3. CASE \E s \in Fences : SlotReusable(s)
  BY <1>1, <1>3 DEF SlotReusable
<1>4. CASE FinishStep
  <2> USE DEF chanVars, writerVars
  <2>1. CASE ReceivePartition
    BY <2>1 DEF ReceivePartition, Fail
  <2>2. CASE GivesUp
    BY <2>2 DEF GivesUp, ReceiveGivesUp, PollGivesUp, SelectGivesUp, Fail
  <2>3. CASE PrepareBlock \/ PartitionDispatched \/ AllPartitionsDispatched \/ AllBlocksDispatched
    BY <2>3 DEF PrepareBlock, PartitionDispatched, AllPartitionsDispatched, AllBlocksDispatched
  <2>4. CASE SelectSend
    BY <2>4 DEF SelectSend, DispatchSend
  <2>5. CASE FailWait
    BY <2>5 DEF FailWait, Cleanup
  <2> QED BY <1>4, <2>1, <2>2, <2>3, <2>4, <2>5 DEF FinishStep, GivesUp
<1>5. CASE CancelBuild
  BY <1>5 DEF CancelBuild, UserCancel, chanVars, writerVars, mainVars
<1>6. CASE \E w \in Workers : WorkerStep(w)
  BY <1>6, WorkerFrame DEF writerVars, mainVars
<1>7. CASE WriterStep
  <2>1. UNCHANGED <<workClosed, resultClosed, mainVars>>
    BY <1>7, WriterFrame
  <2>2. CASE WriterReceive
    BY <2>1, <2>2 DEF WriterReceive, mainVars, WriterAt
  <2>3. CASE WriterEmit
    <3>1. PICK ok \in BOOLEAN : /\ writerDone' = (writerDone \/ ~ok)
                                /\ writerPc' \in IF ok THEN {"recv", "emit"} ELSE {"cancel"}
      BY <2>3 DEF WriterEmit, WriterAt
    <3>2. writerPc = "emit" /\ writerClosed' = writerClosed
      BY <2>3 DEF WriterEmit
    <3>3. CASE ok
      BY <2>1, <3>1, <3>2, <3>3 DEF mainVars
    <3>4. CASE ~ok
      BY <2>1, <3>1, <3>2, <3>4 DEF mainVars
    <3> QED BY <3>3, <3>4
  <2>4. CASE WriterCancel \/ WriterClose
    BY <2>1, <2>4 DEF WriterCancel, WriterClose, mainVars, chanVars
  <2> QED BY <1>7, <2>2, <2>3, <2>4 DEF WriterStep
<1>8. CASE TeardownStep
  <2> USE DEF chanVars, writerVars
  <2>1. CASE ShutdownWait
    BY <2>1 DEF ShutdownWait
  <2>2. CASE ShutdownWriter
    BY <2>2 DEF ShutdownWriter
  <2>3. CASE Drain
    BY <2>3 DEF Drain
  <2>4. CASE DrainWait
    BY <2>4 DEF DrainWait
  <2>5. CASE DrainWriter
    BY <2>5 DEF DrainWriter, Cleanup
  <2>6. CASE FinalizeIndex
    BY <2>6 DEF FinalizeIndex
  <2> QED BY <1>8, <2>1, <2>2, <2>3, <2>4, <2>5, <2>6 DEF TeardownStep
<1>9. CASE UNCHANGED vars
  BY <1>1, <1>9 DEF vars
<1> QED BY <1>2, <1>3, <1>4, <1>5, <1>6, <1>7, <1>8, <1>9 DEF Next, Returned

(* A reader whose channel is closed and empty had a reason, unless the build was
   cancelled: the next partition is not one of its own. *)
LEMMA ClosedWhenCancelled ==
  ASSUME TypeOK, StrideInv, LeaveInv, path = "files", pc = "partition", part < numPartitions,
         NEW r \in Readers, r = part % numReaders, resultCh[r] = <<>>, resultChClosed[r]
  PROVE  ctxDone
<1>1. PICK p \in Nat : p = part
  BY DEF TypeOK
<1>2. PICK q \in Nat : q = rpart[r]
  BY DEF TypeOK
<1>3. q % numReaders = p % numReaders /\ p <= q /\ q < p + numReaders
  BY <1>1, <1>2 DEF StrideInv, Dispatching, Pending, Queued, nextPart
<1>4. q = p
  BY ONLY <1>3, RemainderWindow, ReaderOf, p \in Nat, q \in Nat
<1>5. ctxDone \/ rpart[r] >= numPartitions
  BY DEF LeaveInv, Dispatching, Queued
<1> QED BY <1>1, <1>2, <1>4, <1>5, ConstantTypes

LEMMA CauseInvStep ==
  ASSUME TypeOK, ChannelInv, CauseInv, FilesInv, StrideInv, LeaveInv, [Next]_vars
  PROVE  CauseInv'
<1> USE DEF CauseInv
<1>1. ASSUME UNCHANGED <<pc, cause, outcome>> PROVE CauseInv'
  BY <1>1
<1>2. CASE \E r \in Readers : ReaderStep(r)
  BY <1>1, <1>2 DEF ReaderStep, ReaderTakeSlot, ReaderRead, ReaderSend, ReaderExit, poolVars, mainVars
<1>3. CASE \E s \in Fences : SlotReusable(s)
  BY <1>1, <1>3 DEF SlotReusable, poolVars, mainVars
<1>4. CASE FinishStep
  <2>0. Dispatching /\ WriterDoneReady => writerDone
    BY DEF ChannelInv, WriterDoneReady, WriterStopped
  <2>1. CASE ReceivePartition
    BY <2>1 DEF ReceivePartition, Fail
  <2>2. CASE ReceiveGivesUp
    <3>1. path = "files"
      BY <2>2 DEF ReceiveGivesUp, FilesInv, TypeOK
    <3>2. part % numReaders \in Readers
      BY ReaderOf DEF TypeOK
    <3>3. resultCh[part % numReaders] = <<>> /\ resultChClosed[part % numReaders] => ctxDone
      BY <2>2, <3>1, <3>2, ClosedWhenCancelled DEF ReceiveGivesUp
    <3> QED BY <2>0, <2>2, <3>3 DEF ReceiveGivesUp, Fail, TakeWriterDone, WriterDoneError, Dispatching
  <2>3. CASE PollGivesUp
    BY <2>0, <2>3 DEF PollGivesUp, Fail, TakeWriterDone, WriterDoneError, Dispatching
  <2>4. CASE SelectGivesUp
    BY <2>0, <2>4 DEF SelectGivesUp, Fail, TakeWriterDone, WriterDoneError, PipelineError, Dispatching
  <2>5. CASE PrepareBlock \/ PartitionDispatched \/ AllPartitionsDispatched \/ AllBlocksDispatched
    BY <2>5 DEF PrepareBlock, PartitionDispatched, AllPartitionsDispatched, AllBlocksDispatched
  <2>6. CASE SelectSend
    BY <2>6 DEF SelectSend, DispatchSend
  <2>7. CASE FailWait
    BY <2>7 DEF FailWait, Cleanup
  <2> QED BY <1>4, <2>1, <2>2, <2>3, <2>4, <2>5, <2>6, <2>7 DEF FinishStep
<1>5. CASE CancelBuild
  BY <1>1, <1>5 DEF CancelBuild, UserCancel, mainVars
<1>6. CASE \E w \in Workers : WorkerStep(w)
  BY <1>1, <1>6, WorkerFrame DEF mainVars
<1>7. CASE WriterStep
  BY <1>1, <1>7, WriterFrame DEF mainVars
<1>8. CASE TeardownStep
  <2>1. CASE ShutdownWait \/ ShutdownWriter \/ Drain \/ DrainWait
    BY <2>1 DEF ShutdownWait, ShutdownWriter, Drain, DrainWait
  <2>2. CASE DrainWriter
    BY <2>2 DEF DrainWriter, Cleanup
  <2>3. CASE FinalizeIndex
    BY <2>3 DEF FinalizeIndex
  <2> QED BY <1>8, <2>1, <2>2, <2>3 DEF TeardownStep
<1>9. CASE UNCHANGED vars
  BY <1>1, <1>9 DEF vars, poolVars, mainVars
<1> QED BY <1>2, <1>3, <1>4, <1>5, <1>6, <1>7, <1>8, <1>9 DEF Next, Returned

(* What only the readers and the finishing goroutine change. *)
LEMMA PoolFrame ==
  ASSUME [Next]_vars, ~FinishStep, ~CancelBuild, \A r \in Readers : ~ReaderStep(r),
         \A s \in Fences : ~SlotReusable(s)
  PROVE  UNCHANGED <<inputVars, partsOpen, readerVars, loopVars>>
BY DEF Next, UnchangedHere, Returned, vars

LEMMA FilesInvStep ==
  ASSUME TypeOK, FilesInv, [Next]_vars
  PROVE  FilesInv'
<1> USE DEF FilesInv, inputVars, readerVars, loopVars
<1>1. ASSUME NEW r \in Readers, ReaderStep(r) PROVE FilesInv'
  <2>1. rpc[r] # "exit" /\ UNCHANGED <<path, partsOpen>>
    BY <1>1 DEF ReaderStep, ReaderTakeSlot, ReaderRead, ReaderSend, ReaderExit, TypeOK
  <2> QED BY <2>1 DEF TypeOK
<1>2. CASE \E s \in Fences : SlotReusable(s)
  BY <1>2 DEF SlotReusable, poolVars, mainVars
<1>3. CASE FinishStep
  BY <1>3 DEF FinishStep, ReceivePartition, ReceiveGivesUp, PollGivesUp, PrepareBlock,
     PartitionDispatched, SelectSend, DispatchSend, SelectGivesUp, AllPartitionsDispatched,
     AllBlocksDispatched, FailWait, Fail, Cleanup, TypeOK
<1>4. CASE CancelBuild
  BY <1>4 DEF CancelBuild, UserCancel, mainVars
<1>5. ASSUME UNCHANGED <<inputVars, partsOpen, readerVars, loopVars>>, pc' # "partition" \/ pc' = pc
      PROVE FilesInv'
  BY <1>5
<1>6. CASE \E w \in Workers : WorkerStep(w) /\ UnchangedHere
  BY <1>5, <1>6, WorkerFrame DEF mainVars, UnchangedHere
<1>7. CASE WriterStep /\ UnchangedHere
  BY <1>5, <1>7, WriterFrame DEF mainVars, UnchangedHere
<1>8. CASE TeardownStep /\ UnchangedHere
  BY <1>5, <1>8 DEF UnchangedHere, TeardownStep, ShutdownWait, ShutdownWriter, Drain, DrainWait,
     DrainWriter, FinalizeIndex, Cleanup
<1>9. CASE UNCHANGED vars
  BY <1>5, <1>9 DEF vars, poolVars, mainVars
<1> QED BY <1>1, <1>2, <1>3, <1>4, <1>6, <1>7, <1>8, <1>9 DEF Next, Returned

--------------------------------------------------------------------------------
(* The loop over the blocks, and the items it has dispatched. *)

LEMMA TeardownFrame ==
  ASSUME TeardownStep
  PROVE  pc' \notin {"partition", "block", "select"} /\ pc \notin {"partition", "block", "select"}
         /\ UNCHANGED workerVars
BY DEF TeardownStep, ShutdownWait, ShutdownWriter, Drain, DrainWait, DrainWriter, FinalizeIndex,
       Cleanup

(* What a step that is not the finishing goroutine's leaves alone. *)
LEMMA LoopFrame ==
  ASSUME [Next]_vars, ~FinishStep
  PROVE  /\ UNCHANGED <<inputVars, loopVars>>
         /\ pc' = pc \/ TeardownStep
<1>1. CASE \E r \in Readers : ReaderStep(r)
  BY <1>1 DEF ReaderStep, ReaderTakeSlot, ReaderRead, ReaderSend, ReaderExit, poolVars, mainVars
<1>2. CASE \E s \in Fences : SlotReusable(s)
  BY <1>2 DEF SlotReusable, poolVars, mainVars
<1>3. CASE CancelBuild
  BY <1>3 DEF CancelBuild, UserCancel, mainVars
<1>4. CASE \E w \in Workers : WorkerStep(w) /\ UnchangedHere
  BY <1>4, WorkerFrame DEF mainVars, UnchangedHere
<1>5. CASE WriterStep /\ UnchangedHere
  BY <1>5, WriterFrame DEF mainVars, UnchangedHere
<1>6. CASE TeardownStep /\ UnchangedHere
  BY <1>6 DEF UnchangedHere
<1>7. CASE UNCHANGED vars
  BY <1>7 DEF vars, poolVars, mainVars
<1> QED BY <1>1, <1>2, <1>3, <1>4, <1>5, <1>6, <1>7 DEF Next, Returned

(* A partition ends where the next one, or the end of the index, begins. *)
LEMMA PartitionEnds ==
  ASSUME NEW p \in Nat, NEW b \in Nat, p * blocksPerPart <= b, b <= (p + 1) * blocksPerPart,
         b \in Blocks => PartitionOf(b) # p
  PROVE  b = (p + 1) * blocksPerPart \/ NumBlocks <= b
<1>1. b \in Blocks => ~(b < (p + 1) * blocksPerPart)
  BY QuotientInterval, ConstantTypes DEF PartitionOf
<1>2. PICK e \in Nat : e = (p + 1) * blocksPerPart
  BY ConstantTypes
<1> QED BY <1>1, <1>2, ConstantTypes

LEMMA PartitionGoesOn ==
  ASSUME NEW p \in Nat, NEW b \in Nat, PartitionOf(b) = p
  PROVE  p * blocksPerPart <= b + 1 /\ b + 1 <= (p + 1) * blocksPerPart
<1>1. p * blocksPerPart <= b /\ b < (p + 1) * blocksPerPart
  BY QuotientInterval, ConstantTypes DEF PartitionOf
<1>2. PICK d \in Nat : d = p * blocksPerPart
  BY ConstantTypes
<1>3. PICK e \in Nat : e = (p + 1) * blocksPerPart
  BY ConstantTypes
<1> QED BY <1>1, <1>2, <1>3

LEMMA LoopInvStep ==
  ASSUME TypeOK, FilesInv, LoopInv, [Next]_vars
  PROVE  LoopInv'
<1> USE DEF inputVars, loopVars
<1>1. ASSUME UNCHANGED <<path, part, slotIdx, blockID, job>>,
             pc' = pc \/ pc' \notin {"partition", "block", "select"}
      PROVE  LoopInv'
  BY <1>1 DEF LoopInv, Loading, PartitionOf
<1>2. CASE ~FinishStep
  BY <1>1, <1>2, LoopFrame, TeardownFrame
<1>3. CASE GivesUp \/ AllPartitionsDispatched \/ AllBlocksDispatched \/ FailWait
  BY <1>1, <1>3 DEF GivesUp, ReceiveGivesUp, PollGivesUp, SelectGivesUp, AllPartitionsDispatched,
     AllBlocksDispatched, FailWait, Fail, Cleanup
<1>4. CASE ReceivePartition
  <2>1. PICK p \in Nat : p = part /\ p < numPartitions
    BY <1>4 DEF ReceivePartition, TypeOK
  <2>2. path = "files" /\ UNCHANGED <<path, part, job>>
    BY <1>4 DEF ReceivePartition, FilesInv, TypeOK
  <2>3. CASE pc' = "failWait"
    BY <2>2, <2>3 DEF LoopInv, Loading
  <2>4. CASE pc' = "block" /\ blockID' = p * blocksPerPart
    <3>1. p * blocksPerPart <= p * blocksPerPart /\ p * blocksPerPart <= (p + 1) * blocksPerPart
      <4>1. PICK m \in Nat : m = p * blocksPerPart
        BY ConstantTypes
      <4>2. (p + 1) * blocksPerPart = m + blocksPerPart
        BY <4>1, ConstantTypes
      <4> QED BY <4>1, <4>2, ConstantTypes
    <3> QED BY <2>1, <2>2, <2>4, <3>1 DEF LoopInv, Loading
  <2> QED BY <1>4, <2>1, <2>3, <2>4 DEF ReceivePartition, Fail
<1>5. CASE PrepareBlock
  <2>1. /\ UNCHANGED <<path, part, slotIdx, blockID>> /\ pc = "block" /\ pc' = "select"
        /\ blockID \in Blocks /\ (path = "files" => PartitionOf(blockID) = part)
        /\ job'.blockID = blockID
        /\ job'.fence # NoFence => path = "files" /\ job'.fence = slotIdx
    BY <1>5 DEF PrepareBlock, BlockLeft
  <2> QED BY <2>1 DEF LoopInv, Loading, PartitionOf
<1>6. CASE PartitionDispatched
  <2>1. PICK p \in Nat, b \in Nat : p = part /\ b = blockID
    BY DEF TypeOK
  <2>2. p * blocksPerPart <= b /\ b <= (p + 1) * blocksPerPart /\ (b \in Blocks => PartitionOf(b) # p)
    BY <1>6, <2>1 DEF PartitionDispatched, LoopInv, Loading, BlockLeft
  <2>3. b = (p + 1) * blocksPerPart \/ NumBlocks <= b
    BY <2>2, PartitionEnds
  <2>4. path' = path /\ blockID' = b /\ part' = p + 1 /\ pc' = "partition"
    BY <1>6, <2>1 DEF PartitionDispatched
  <2> QED BY <2>2, <2>3, <2>4 DEF LoopInv, Loading
<1>7. CASE SelectSend
  <2>1. UNCHANGED <<path, part>> /\ pc = "select" /\ pc' = "block" /\ blockID' = blockID + 1
    BY <1>7 DEF SelectSend
  <2>2. PICK p \in Nat, b \in Nat : p = part /\ b = blockID
    BY DEF TypeOK
  <2>3. path = "files" => p * blocksPerPart <= b + 1 /\ b + 1 <= (p + 1) * blocksPerPart
    BY <2>1, <2>2, PartitionGoesOn DEF LoopInv
  <2>4. path = "files" => p < numPartitions
    BY <2>1, <2>2 DEF LoopInv, Loading
  <2> QED BY <2>1, <2>2, <2>3, <2>4 DEF LoopInv, Loading
<1> QED BY <1>2, <1>3, <1>4, <1>5, <1>6, <1>7 DEF FinishStep, GivesUp

(* blockID only grows. *)
LEMMA BlockIDGrows ==
  ASSUME TypeOK, FilesInv, LoopInv, [Next]_vars
  PROVE  blockID <= blockID'
<1>1. CASE ReceivePartition
  <2>1. PICK b \in Nat : b = blockID
    BY DEF TypeOK
  <2>2. PICK m \in Nat : m = part * blocksPerPart
    BY ConstantTypes DEF TypeOK
  <2>3. b <= m
    BY <1>1, <2>1, <2>2 DEF ReceivePartition, FilesInv, LoopInv, TypeOK
  <2> QED BY <1>1, <2>1, <2>2, <2>3 DEF ReceivePartition
<1>2. CASE SelectSend
  BY <1>2 DEF SelectSend, TypeOK
<1>3. CASE FinishStep /\ ~ReceivePartition /\ ~SelectSend
  BY <1>3 DEF FinishStep, ReceiveGivesUp, PollGivesUp, SelectGivesUp, AllPartitionsDispatched,
     AllBlocksDispatched, FailWait, PrepareBlock, PartitionDispatched, loopVars, TypeOK
<1>4. CASE ~FinishStep
  BY <1>4, LoopFrame DEF loopVars, TypeOK
<1> QED BY <1>1, <1>2, <1>3, <1>4

LEMMA ItemsInvStep ==
  ASSUME TypeOK, FilesInv, LoopInv, ItemsInv, [Next]_vars
  PROVE  ItemsInv'
<1>0. PICK b \in Nat, c \in Nat : b = blockID /\ c = blockID' /\ b <= c
  <2>1. blockID' \in Nat
    <3>1. CASE ReceivePartition
      <4>1. part * blocksPerPart \in Nat
        BY ConstantTypes DEF TypeOK
      <4> QED BY <3>1, <4>1 DEF ReceivePartition, TypeOK
    <3>2. CASE SelectSend
      BY <3>2 DEF SelectSend, TypeOK
    <3>3. CASE FinishStep /\ ~ReceivePartition /\ ~SelectSend
      BY <3>3 DEF FinishStep, ReceiveGivesUp, PollGivesUp, SelectGivesUp, AllPartitionsDispatched,
         AllBlocksDispatched, FailWait, PrepareBlock, PartitionDispatched, loopVars, TypeOK
    <3>4. CASE ~FinishStep
      BY <3>4, LoopFrame DEF loopVars, TypeOK
    <3> QED BY <3>1, <3>2, <3>3, <3>4
  <2> QED BY <2>1, BlockIDGrows DEF TypeOK
<1>1. /\ workChan \in Seq(Job) /\ wjob \in [Workers -> Job]
      /\ wpc \in [Workers -> {"recv", "check", "build", "send", "return", "exit"}]
      /\ \A i \in DOMAIN workChan : workChan[i].blockID \in Nat
      /\ \A w \in Workers : wjob[w].blockID \in Nat
  <2>1. \A j \in Job : j.blockID \in Nat
    BY ConstantTypes DEF Job
  <2>2. /\ workChan \in Seq(Job) /\ wjob \in [Workers -> Job]
        /\ wpc \in [Workers -> {"recv", "check", "build", "send", "return", "exit"}]
    BY DEF TypeOK, PoolTypeOK
  <2>3. \A i \in DOMAIN workChan : workChan[i] \in Job
    BY <2>2
  <2> QED BY <2>1, <2>2, <2>3
<1>2. ASSUME workChan' = workChan, wjob' = wjob,
             \A w \in Workers : wpc'[w] = "check" => wpc[w] = "check"
      PROVE  ItemsInv'
  BY <1>0, <1>1, <1>2 DEF ItemsInv
<1>3. CASE (\E r \in Readers : ReaderStep(r)) \/ (\E s \in Fences : SlotReusable(s)) \/ CancelBuild
           \/ WriterStep \/ UNCHANGED vars
  <2>1. UNCHANGED <<workChan, wjob, wpc>>
    BY <1>3, WriterFrame DEF ReaderStep, ReaderTakeSlot, ReaderRead, ReaderSend, ReaderExit, SlotReusable,
       CancelBuild, UserCancel, vars, poolVars, chanVars, workerVars
  <2> QED BY <1>2, <2>1
<1>4. CASE FinishStep /\ ~SelectSend
  <2>1. UNCHANGED <<workChan, wjob, wpc>>
    BY <1>4 DEF FinishStep, ReceivePartition, ReceiveGivesUp, PollGivesUp, SelectGivesUp, AllPartitionsDispatched,
     AllBlocksDispatched, FailWait, PrepareBlock, PartitionDispatched, chanVars, workerVars
  <2> QED BY <1>2, <2>1
<1>5. CASE SelectSend
  <2>1. /\ workChan' = Append(workChan, job) /\ job \in Job /\ job.blockID = b /\ c = b + 1
        /\ UNCHANGED <<wjob, wpc>>
    BY <1>0, <1>5 DEF SelectSend, DispatchSend, workerVars, LoopInv, TypeOK
  <2>2. ASSUME NEW i \in DOMAIN workChan'
        PROVE  \/ i \in DOMAIN workChan /\ workChan'[i] = workChan[i]
               \/ i = Len(workChan) + 1 /\ workChan'[i] = job
    BY <1>1, <2>1
  <2>3. \A i \in DOMAIN workChan' : workChan'[i].blockID < blockID'
    BY <1>0, <1>1, <2>1, <2>2 DEF ItemsInv
  <2>4. ASSUME NEW i \in DOMAIN workChan', NEW j \in DOMAIN workChan', i < j
        PROVE  workChan'[i].blockID < workChan'[j].blockID
    <3>1. i \in DOMAIN workChan
      BY <1>1, <2>1, <2>4
    <3> QED BY <1>0, <1>1, <2>1, <2>2, <2>4, <3>1 DEF ItemsInv
  <2>5. ASSUME NEW w \in Workers, wpc'[w] = "check"
        PROVE  /\ wjob'[w].blockID < blockID'
               /\ \A i \in DOMAIN workChan' : wjob'[w].blockID < workChan'[i].blockID
               /\ \A v \in Workers : wpc'[v] = "check" /\ wjob'[v].blockID = wjob'[w].blockID => v = w
    BY <1>0, <1>1, <2>1, <2>2, <2>5 DEF ItemsInv
  <2> QED BY <2>3, <2>4, <2>5 DEF ItemsInv
<1>6. ASSUME NEW w \in Workers, WorkerStep(w) PROVE ItemsInv'
  <2>1. CASE WorkerReceive(w)
    <3>1. /\ workChan # <<>> /\ workChan' = Tail(workChan) /\ wjob' = [wjob EXCEPT ![w] = Head(workChan)]
          /\ wpc' = [wpc EXCEPT ![w] = "check"]
      BY <2>1 DEF WorkerReceive
    <3>2. PICK n \in Nat : n = Len(workChan) /\ n > 0 /\ DOMAIN workChan = 1 .. n
      BY <1>1, <3>1
    <3>3. DOMAIN workChan' = 1 .. n - 1 /\ \A i \in 1 .. n - 1 : workChan'[i] = workChan[i + 1]
      BY <1>1, <3>1, <3>2
    <3>4. wjob'[w] = workChan[1] /\ 1 \in DOMAIN workChan
      BY <1>1, <3>1, <3>2
    <3>9. \A i \in 1 .. n - 1 : i + 1 \in DOMAIN workChan /\ 1 < i + 1
      BY <3>2
    <3>10. \A i \in DOMAIN workChan : workChan[i].blockID < b
      BY <1>0 DEF ItemsInv
    <3>11. \A i, j \in DOMAIN workChan : i < j => workChan[i].blockID < workChan[j].blockID
      BY DEF ItemsInv
    <3>5. \A i \in DOMAIN workChan' : workChan'[i].blockID < blockID'
      BY <1>0, <1>1, <3>3, <3>9, <3>10
    <3>6. \A i, j \in DOMAIN workChan' : i < j => workChan'[i].blockID < workChan'[j].blockID
      <4>1. ASSUME NEW i \in 1 .. n - 1, NEW j \in 1 .. n - 1, i < j
            PROVE  workChan'[i].blockID < workChan'[j].blockID
        <5>1. i + 1 \in DOMAIN workChan /\ j + 1 \in DOMAIN workChan /\ i + 1 < j + 1
          BY <3>9, <4>1
        <5>2. workChan[i + 1].blockID < workChan[j + 1].blockID
          BY ONLY <3>11, <5>1
        <5> QED BY ONLY <3>3, <5>2, i \in 1 .. n - 1, j \in 1 .. n - 1
      <4> QED BY <3>3, <4>1
    <3>7. ASSUME NEW v \in Workers, wpc'[v] = "check"
          PROVE  /\ wjob'[v].blockID < blockID'
                 /\ \A i \in DOMAIN workChan' : wjob'[v].blockID < workChan'[i].blockID
      <4>1. CASE v = w
        <5>1. wjob'[v] = workChan[1]
          BY <3>4, <4>1
        <5>2. workChan[1].blockID < c
          BY <1>0, <1>1, <3>4, <3>10
        <5>3. ASSUME NEW i \in 1 .. n - 1 PROVE workChan[1].blockID < workChan'[i].blockID
          <6>1. i + 1 \in DOMAIN workChan /\ 1 < i + 1
            BY <3>9
          <6>2. workChan[1].blockID < workChan[i + 1].blockID
            BY ONLY <3>4, <3>11, <6>1
          <6> QED BY ONLY <3>3, <6>2, i \in 1 .. n - 1
        <5> QED BY <1>0, <3>3, <5>1, <5>2, <5>3
      <4>2. CASE v # w
        <5>1. wjob'[v] = wjob[v] /\ wpc[v] = "check"
          BY <1>1, <3>1, <3>7, <4>2
        <5>2. wjob[v].blockID < b /\ \A i \in DOMAIN workChan : wjob[v].blockID < workChan[i].blockID
          BY <1>0, <5>1 DEF ItemsInv
        <5> QED BY <1>0, <1>1, <3>3, <3>9, <5>1, <5>2
      <4> QED BY <4>1, <4>2
    <3>8. ASSUME NEW v \in Workers, NEW u \in Workers, wpc'[v] = "check", wpc'[u] = "check",
                 wjob'[v].blockID = wjob'[u].blockID
          PROVE  v = u
      BY <1>1, <3>1, <3>4, <3>8 DEF ItemsInv
    <3> QED BY <3>5, <3>6, <3>7, <3>8 DEF ItemsInv
  <2>2. CASE ~WorkerReceive(w)
    <3>1. workChan' = workChan /\ wjob' = wjob
      BY <1>6, <2>2 DEF WorkerStep, WorkerFinish, WorkerExit, WorkerCancelled, WorkerAddKeys,
         WorkerBuild, WorkerSend, WorkerSendCancelled, WorkerReturnErr, chanVars
    <3>2. \A v \in Workers : wpc'[v] = "check" => wpc[v] = "check"
      BY <1>1, <1>6, <2>2 DEF WorkerStep, WorkerFinish, WorkerExit, WorkerCancelled, WorkerAddKeys,
         WorkerBuild, WorkerSend, WorkerSendCancelled, WorkerReturnErr
    <3> QED BY <1>2, <3>1, <3>2
  <2> QED BY <2>1, <2>2
<1>7. CASE TeardownStep
  <2>1. UNCHANGED <<wjob, wpc>>
    BY <1>7, TeardownFrame DEF workerVars
  <2>2. CASE ShutdownWait
    <3>1. workChan' = <<>>
      BY <2>2 DEF ShutdownWait
    <3> QED BY <1>0, <1>1, <2>1, <3>1 DEF ItemsInv
  <2>3. CASE ~ShutdownWait
    <3>1. workChan' = workChan
      BY <1>7, <2>3 DEF TeardownStep, ShutdownWriter, Drain, DrainWait, DrainWriter, FinalizeIndex, chanVars
    <3> QED BY <1>2, <2>1, <3>1
  <2> QED BY <2>2, <2>3
<1> QED BY <1>3, <1>4, <1>5, <1>6, <1>7 DEF Next, Returned

--------------------------------------------------------------------------------
(* The fences count the items that refer to their slots. *)

LEMMA BorrowersFinite ==
  \A s : IsFiniteSet(Borrowers(s)) /\ Cardinality(Borrowers(s)) \in Nat
<1>1. IsFiniteSet(Blocks)
  BY ConstantTypes, FS_Interval
<1> QED BY <1>1, FS_Subset, FS_CardinalityType DEF Borrowers

(* Only PrepareBlock makes an item refer to a slot. *)
FenceStep ==
  /\ FenceOK' /\ FenceInv'
  /\ PrepareBlock \/ \A s \in Fences, b \in Blocks : Borrows(b, s)' => Borrows(b, s)

LEMMA FenceKept ==
  ASSUME FenceOK, FenceInv, fence' = fence,
         \A s \in Fences, b \in Blocks : Borrows(b, s)' <=> Borrows(b, s)
  PROVE  FenceStep
<1>1. \A s \in Fences : Borrowers(s)' = Borrowers(s)
  BY DEF Borrowers
<1> QED BY <1>1 DEF FenceInv, FenceOK, FenceStep

LEMMA FenceTaken ==
  ASSUME FenceOK, FenceInv, PrepareBlock, NEW f \in Fences, NEW c \in Blocks, ~Borrows(c, f),
         fence' = [fence EXCEPT ![f] = @ + 1],
         \A s \in Fences, b \in Blocks : Borrows(b, s)' <=> Borrows(b, s) \/ (b = c /\ s = f)
  PROVE  FenceStep
<1>1. Borrowers(f)' = Borrowers(f) \cup {c} /\ c \notin Borrowers(f)
  BY DEF Borrowers
<1>2. ASSUME NEW s \in Fences \ {f} PROVE Borrowers(s)' = Borrowers(s)
  <2>1. \A b \in Blocks : Borrows(b, s)' <=> Borrows(b, s)
    OBVIOUS
  <2> QED BY <2>1 DEF Borrowers
<1>3. Cardinality(Borrowers(f) \cup {c}) = Cardinality(Borrowers(f)) + 1
  BY <1>1, BorrowersFinite, FS_AddElement
<1>4. fence' \in [Fences -> Nat] /\ fence'[f] = fence[f] + 1
      /\ \A s \in Fences \ {f} : fence'[s] = fence[s]
  <2>1. fence \in [Fences -> Nat]
    BY DEF FenceOK
  <2>2. fence[f] + 1 \in Nat
    BY <2>1
  <2> QED BY <2>1, <2>2
<1>5. fence[f] = Cardinality(Borrowers(f))
  BY DEF FenceInv
<1>6. fence'[f] = Cardinality(Borrowers(f)')
  BY ONLY <1>1, <1>3, <1>4, <1>5
<1>7. \A s \in Fences \ {f} : fence'[s] = Cardinality(Borrowers(s)')
  BY <1>2, <1>4 DEF FenceInv
<1> QED BY <1>4, <1>6, <1>7 DEF FenceInv, FenceOK, FenceStep

LEMMA FenceReleased ==
  ASSUME FenceOK, FenceInv, NEW f \in Fences \cup {NoFence}, NEW c \in Blocks, Borrows(c, f),
         fence' = Released(f),
         \A s \in Fences, b \in Blocks : Borrows(b, s)' <=> Borrows(b, s) /\ ~(b = c /\ s = f)
  PROVE  FenceStep
<1>1. CASE f = NoFence
  <2>1. fence' = fence
    BY <1>1, ConstantTypes DEF Released, FenceOK
  <2> QED BY <1>1, <2>1, FenceKept, ConstantTypes
<1>2. CASE f \in Fences
  <2>1. Borrowers(f)' = Borrowers(f) \ {c} /\ c \in Borrowers(f)
    BY <1>2 DEF Borrowers
  <2>2. \A s \in Fences \ {f} : Borrowers(s)' = Borrowers(s)
    BY DEF Borrowers
  <2>3. Cardinality(Borrowers(f) \ {c}) = Cardinality(Borrowers(f)) - 1
        /\ Cardinality(Borrowers(f) \ {c}) \in Nat
    BY <2>1, BorrowersFinite, FS_RemoveElement, FS_CardinalityType
  <2>4. fence[f] = Cardinality(Borrowers(f))
    BY <1>2 DEF FenceInv
  <2>5. DOMAIN fence' = Fences /\ fence'[f] = fence[f] - 1
        /\ \A s \in Fences \ {f} : fence'[s] = fence[s]
    BY <1>2 DEF Released
  <2>6. fence'[f] = Cardinality(Borrowers(f)') /\ fence'[f] \in Nat
    BY <2>1, <2>3, <2>4, <2>5
  <2>7. \A s \in Fences \ {f} : fence'[s] = Cardinality(Borrowers(s)') /\ fence'[s] \in Nat
    BY <2>2, <2>5 DEF FenceInv, FenceOK
  <2>8. \A s \in Fences : fence'[s] \in Nat
    BY <2>6, <2>7
  <2>9. fence' \in [Fences -> Nat]
    BY <2>8 DEF Released
  <2> QED BY <2>6, <2>7, <2>9 DEF FenceInv, FenceOK, FenceStep
<1> QED BY <1>1, <1>2

(* Shutting down releases what is left in workChan, when no worker holds an item. *)
LEMMA FenceDrained ==
  ASSUME TypeOK, ItemsInv, FenceInv, ShutdownWait, job' = job
  PROVE  FenceStep
<1>1. /\ workChan' = <<>> /\ pc' = "shutWriter" /\ UNCHANGED wpc
      /\ fence' = [s \in Fences |->
                     fence[s] - Cardinality({i \in DOMAIN workChan : workChan[i].fence = s})]
      /\ \A w \in Workers : wpc[w] = "exit"
      /\ pc = "shutWait"
  BY DEF ShutdownWait, AllWorkersExited, workerVars
<1>2. \A s \in Fences : Borrowers(s)' = {}
  BY <1>1 DEF Borrowers, Borrows
<1>3. ASSUME NEW s \in Fences PROVE fence'[s] = 0
  <2> DEFINE items == {i \in DOMAIN workChan : workChan[i].fence = s}
             block == [i \in items |-> workChan[i].blockID]
  <2>1. workChan \in Seq(Job) /\ \A i \in DOMAIN workChan : workChan[i].blockID \in Blocks
    <3>1. workChan \in Seq(Job) /\ \A j \in Job : j.blockID \in Blocks
      BY DEF TypeOK, PoolTypeOK, Job
    <3>2. \A i \in DOMAIN workChan : workChan[i] \in Job
      BY <3>1
    <3> QED BY <3>1, <3>2
  <2>2. Borrowers(s) = {workChan[i].blockID : i \in items}
    BY <1>1, <2>1 DEF Borrowers, Borrows
  <2>3. \A i, j \in items : block[i] = block[j] => i = j
    <3>1. \A i \in DOMAIN workChan : workChan[i].blockID \in Nat /\ i \in Nat
      BY <2>1, ConstantTypes
    <3>2. \A i, j \in DOMAIN workChan : i < j => workChan[i].blockID < workChan[j].blockID
      BY DEF ItemsInv
    <3> QED BY <3>1, <3>2
  <2>4. block \in Bijection(items, Borrowers(s))
    BY <2>2, <2>3 DEF Bijection, Injection, Surjection, IsInjective
  <2>5. IsFiniteSet(items)
    <3>1. DOMAIN workChan = 1 .. Len(workChan) /\ Len(workChan) \in Nat
      BY <2>1
    <3>2. IsFiniteSet(DOMAIN workChan)
      BY <3>1, FS_Interval
    <3> QED BY <3>2, FS_Subset
  <2>6. Cardinality(items) = Cardinality(Borrowers(s))
    BY <2>4, <2>5, FS_Bijection DEF ExistsBijection
  <2>7. fence[s] = Cardinality(Borrowers(s)) /\ fence[s] \in Nat
    BY DEF FenceInv, TypeOK, PoolTypeOK
  <2>8. fence'[s] = fence[s] - Cardinality(items)
    BY <1>1
  <2> HIDE DEF items
  <2> QED BY <2>6, <2>7, <2>8
<1>4. \A s \in Fences : fence'[s] = Cardinality(Borrowers(s)')
  BY <1>2, <1>3, FS_EmptySet
<1>5. fence' \in [Fences -> Nat]
  BY <1>1, <1>3
<1>6. \A s \in Fences, b \in Blocks : ~Borrows(b, s)'
  BY <1>2 DEF Borrowers
<1> QED BY <1>4, <1>5, <1>6 DEF FenceInv, FenceOK, FenceStep

LEMMA FenceInvStep ==
  ASSUME TypeOK, FilesInv, LoopInv, ItemsInv, FenceInv, [Next]_vars
  PROVE  FenceStep
<1>0. /\ FenceOK /\ workChan \in Seq(Job) /\ wjob \in [Workers -> Job] /\ job \in Job
      /\ wpc \in [Workers -> {"recv", "check", "build", "send", "return", "exit"}]
  BY DEF TypeOK, PoolTypeOK, FenceOK
<1>1. /\ \A j \in Job : j.blockID \in Blocks /\ j.blockID \in Nat /\ j.fence \in Fences \cup {NoFence}
      /\ \A i \in DOMAIN workChan : workChan[i] \in Job
  <2>1. \A j \in Job : j.blockID \in Blocks /\ j.blockID \in Nat /\ j.fence \in Fences \cup {NoFence}
    BY ConstantTypes DEF Job
  <2>2. \A i \in DOMAIN workChan : workChan[i] \in Job
    BY <1>0
  <2> QED BY <2>1, <2>2
<1>2. ASSUME fence' = fence, workChan' = workChan, wjob' = wjob,
             \A w \in Workers : wpc'[w] = "check" <=> wpc[w] = "check",
             pc' = "select" <=> pc = "select", pc = "select" => job' = job
      PROVE  FenceStep
  <2>1. \A s \in Fences, b \in Blocks : Borrows(b, s)' <=> Borrows(b, s)
    BY <1>2 DEF Borrows
  <2> QED BY <1>0, <1>2, <2>1, FenceKept
<1>3. CASE (\E r \in Readers : ReaderStep(r)) \/ (\E s \in Fences : SlotReusable(s)) \/ CancelBuild
           \/ (WriterStep /\ UnchangedHere) \/ UNCHANGED vars
  <2>1. UNCHANGED <<fence, workChan, wjob, wpc, pc, job>>
    BY <1>3, WriterFrame DEF ReaderStep, ReaderTakeSlot, ReaderRead, ReaderSend, ReaderExit, SlotReusable,
       CancelBuild, UserCancel, vars, poolVars, chanVars, workerVars, mainVars, loopVars, UnchangedHere
  <2> QED BY <1>2, <2>1
<1>4. CASE ReceivePartition \/ ReceiveGivesUp \/ PollGivesUp \/ PartitionDispatched
           \/ AllPartitionsDispatched \/ AllBlocksDispatched \/ FailWait
  <2>1. UNCHANGED <<fence, workChan, wjob, wpc>> /\ pc # "select" /\ pc' # "select"
    BY <1>4 DEF ReceivePartition, ReceiveGivesUp, PollGivesUp, AllPartitionsDispatched,
       AllBlocksDispatched, FailWait, PartitionDispatched, chanVars, workerVars, Fail, Cleanup
  <2> QED BY <1>2, <2>1
<1>5. CASE PrepareBlock
  <2>1. /\ UNCHANGED <<workChan, wjob, wpc>> /\ pc = "block" /\ pc' = "select"
        /\ job'.blockID = blockID /\ blockID \in Blocks
    BY <1>5 DEF PrepareBlock, chanVars, workerVars, BlockLeft
  <2>2. CASE path = "files" /\ size[blockID] > 0
    <3>1. job'.fence = slotIdx /\ fence' = [fence EXCEPT ![slotIdx] = @ + 1] /\ slotIdx \in Fences
      BY <1>5, <2>2 DEF PrepareBlock, TypeOK
    <3>2. PICK f \in Fences, c \in Blocks : f = slotIdx /\ c = blockID /\ c \in Nat
      BY <2>1, <3>1, ConstantTypes
    <3>3. ~Borrows(c, f)
      BY <1>0, <1>1, <2>1, <3>2 DEF Borrows, ItemsInv
    <3>4. \A s \in Fences, b \in Blocks : Borrows(b, s)' <=> Borrows(b, s) \/ (b = c /\ s = f)
      BY <2>1, <3>1, <3>2 DEF Borrows
    <3> QED BY <1>0, <1>5, <3>1, <3>2, <3>3, <3>4, FenceTaken
  <2>3. CASE ~(path = "files" /\ size[blockID] > 0)
    <3>1. job'.fence = NoFence /\ fence' = fence
      BY <1>5, <2>3 DEF PrepareBlock
    <3>2. \A s \in Fences, b \in Blocks : Borrows(b, s)' <=> Borrows(b, s)
      BY <2>1, <3>1, ConstantTypes DEF Borrows
    <3> QED BY <1>0, <3>1, <3>2, FenceKept
  <2> QED BY <2>2, <2>3
<1>6. CASE SelectSend
  <2>1. /\ fence' = fence /\ workChan' = Append(workChan, job)
        /\ UNCHANGED <<wjob, wpc, job>> /\ pc = "select" /\ pc' = "block"
    BY <1>6 DEF SelectSend, DispatchSend, workerVars
  <2>2. PICK n \in Nat : /\ DOMAIN workChan = 1 .. n /\ DOMAIN workChan' = 1 .. n + 1
                         /\ workChan'[n + 1] = job /\ \A i \in 1 .. n : workChan'[i] = workChan[i]
    BY <1>0, <2>1
  <2>3. ASSUME NEW s \in Fences, NEW b \in Blocks PROVE Borrows(b, s)' <=> Borrows(b, s)
    <3>1. (\E i \in 1 .. n + 1 : workChan'[i].blockID = b /\ workChan'[i].fence = s)
            <=> \/ \E i \in 1 .. n : workChan[i].blockID = b /\ workChan[i].fence = s
                \/ job.blockID = b /\ job.fence = s
      <4>1. 1 .. n + 1 = 1 .. n \cup {n + 1}
        OBVIOUS
      <4> QED BY <2>2, <4>1
    <3> QED BY <2>1, <2>2, <3>1 DEF Borrows
  <2> QED BY <1>0, <2>1, <2>3, FenceKept
<1>7. CASE SelectGivesUp
  <2>1. /\ fence' = Released(job.fence) /\ UNCHANGED <<workChan, wjob, wpc, job>>
        /\ pc = "select" /\ pc' = "failWait"
    BY <1>7 DEF SelectGivesUp, workerVars, Fail, loopVars
  <2>2. PICK f \in Fences \cup {NoFence}, c \in Blocks : f = job.fence /\ c = job.blockID /\ c = blockID
    BY <1>0, <1>1, <2>1 DEF LoopInv
  <2>3. Borrows(c, f)
    BY <2>1, <2>2 DEF Borrows
  <2>4. ASSUME NEW s \in Fences, NEW b \in Blocks
        PROVE  Borrows(b, s)' <=> Borrows(b, s) /\ ~(b = c /\ s = f)
    <3>1. \A i \in DOMAIN workChan : workChan[i].blockID # c
      BY <1>1, <2>2 DEF ItemsInv
    <3>2. \A w \in Workers : wpc[w] = "check" => wjob[w].blockID # c
      BY <1>0, <1>1, <2>2 DEF ItemsInv
    <3> QED BY <2>1, <2>2, <3>1, <3>2 DEF Borrows
  <2> QED BY <1>0, <2>1, <2>2, <2>3, <2>4, FenceReleased
<1>8. ASSUME NEW w \in Workers, WorkerStep(w), UnchangedHere PROVE FenceStep
  <2>0. pc' = pc /\ job' = job
    BY <1>8, WorkerFrame DEF mainVars, UnchangedHere, loopVars
  <2>1. CASE WorkerReceive(w)
    <3>1. /\ workChan # <<>> /\ workChan' = Tail(workChan) /\ wjob' = [wjob EXCEPT ![w] = Head(workChan)]
          /\ wpc' = [wpc EXCEPT ![w] = "check"] /\ wpc[w] = "recv" /\ fence' = fence
      BY <2>1 DEF WorkerReceive
    <3>2. PICK n \in Nat : /\ DOMAIN workChan = 1 .. n + 1 /\ DOMAIN workChan' = 1 .. n
                           /\ wjob'[w] = workChan[1] /\ \A i \in 1 .. n : workChan'[i] = workChan[i + 1]
      <4>1. PICK m \in Nat : m = Len(workChan) /\ m > 0 /\ DOMAIN workChan = 1 .. m
        BY <1>0, <3>1
      <4>2. DOMAIN workChan' = 1 .. m - 1 /\ \A i \in 1 .. m - 1 : workChan'[i] = workChan[i + 1]
        BY <1>0, <3>1, <4>1
      <4>3. wjob'[w] = workChan[1]
        BY <1>0, <3>1, <4>1
      <4>4. m - 1 \in Nat /\ m = (m - 1) + 1
        BY <4>1
      <4> QED BY <4>1, <4>2, <4>3, <4>4
    <3>3. ASSUME NEW s \in Fences, NEW b \in Blocks PROVE Borrows(b, s)' <=> Borrows(b, s)
      <4>1. (\E i \in 1 .. n + 1 : workChan[i].blockID = b /\ workChan[i].fence = s)
              <=> \/ \E i \in 1 .. n : workChan'[i].blockID = b /\ workChan'[i].fence = s
                  \/ workChan[1].blockID = b /\ workChan[1].fence = s
        <5>1. ASSUME NEW i \in 1 .. n + 1 PROVE i = 1 \/ \E j \in 1 .. n : i = j + 1
          <6>1. i # 1 => i - 1 \in 1 .. n /\ i = (i - 1) + 1
            OBVIOUS
          <6> QED BY <6>1
        <5>2. ASSUME NEW i \in 1 .. n + 1, workChan[i].blockID = b /\ workChan[i].fence = s
              PROVE  \/ \E j \in 1 .. n : workChan'[j].blockID = b /\ workChan'[j].fence = s
                     \/ workChan[1].blockID = b /\ workChan[1].fence = s
          <6>1. CASE i = 1
            BY <5>2, <6>1
          <6>2. ASSUME NEW j \in 1 .. n, i = j + 1
                PROVE  workChan'[j].blockID = b /\ workChan'[j].fence = s
            BY ONLY <3>2, <5>2, <6>2, j \in 1 .. n
          <6> QED BY <5>1, <6>1, <6>2
        <5>3. ASSUME NEW j \in 1 .. n, workChan'[j].blockID = b /\ workChan'[j].fence = s
              PROVE  \E i \in 1 .. n + 1 : workChan[i].blockID = b /\ workChan[i].fence = s
          <6>1. j + 1 \in 1 .. n + 1
            OBVIOUS
          <6> QED BY ONLY <3>2, <5>3, <6>1, j \in 1 .. n
        <5>4. 1 \in 1 .. n + 1
          OBVIOUS
        <5> QED BY <5>2, <5>3, <5>4
      <4>2. (\E v \in Workers : wpc'[v] = "check" /\ wjob'[v].blockID = b /\ wjob'[v].fence = s)
              <=> \/ \E v \in Workers : wpc[v] = "check" /\ wjob[v].blockID = b /\ wjob[v].fence = s
                  \/ workChan[1].blockID = b /\ workChan[1].fence = s
        <5>1. /\ wpc'[w] = "check" /\ wjob'[w] = workChan[1] /\ wpc[w] = "recv"
              /\ \A v \in Workers \ {w} : wpc'[v] = wpc[v] /\ wjob'[v] = wjob[v]
          BY <1>0, <3>1, <3>2
        <5> QED BY <5>1
      <4> QED BY <2>0, <3>2, <4>1, <4>2 DEF Borrows
    <3> QED BY <1>0, <3>1, <3>3, FenceKept
  <2>2. CASE WorkerCancelled(w) \/ WorkerAddKeys(w)
    <3>1. /\ fence' = Released(wjob[w].fence) /\ UNCHANGED <<workChan, wjob>> /\ wpc[w] = "check"
          /\ wpc'[w] # "check" /\ \A v \in Workers \ {w} : wpc'[v] = wpc[v]
      BY <1>0, <2>2 DEF WorkerCancelled, WorkerAddKeys, WorkerExit, chanVars
    <3>2. PICK f \in Fences \cup {NoFence}, c \in Blocks : f = wjob[w].fence /\ c = wjob[w].blockID
      BY <1>0, <1>1
    <3>3. Borrows(c, f)
      BY <3>1, <3>2 DEF Borrows
    <3>4. ASSUME NEW s \in Fences, NEW b \in Blocks
          PROVE  Borrows(b, s)' <=> Borrows(b, s) /\ ~(b = c /\ s = f)
      <4>1. \A i \in DOMAIN workChan : workChan[i].blockID # c
        BY <1>0, <1>1, <3>1, <3>2 DEF ItemsInv
      <4>2. \A v \in Workers \ {w} : wpc[v] = "check" => wjob[v].blockID # c
        BY <3>1, <3>2 DEF ItemsInv
      <4>3. pc = "select" => job.blockID # c
        <5>1. wjob[w].blockID < blockID /\ (pc = "select" => job.blockID = blockID)
          BY <3>1 DEF ItemsInv, LoopInv
        <5> QED BY <1>0, <1>1, <3>2, <5>1
      <4> QED BY <2>0, <3>1, <3>2, <4>1, <4>2, <4>3 DEF Borrows
    <3> QED BY <1>0, <3>1, <3>2, <3>3, <3>4, FenceReleased
  <2>3. CASE WorkerFinish(w) \/ WorkerBuild(w) \/ WorkerSend(w) \/ WorkerSendCancelled(w) \/ WorkerReturnErr(w)
    <3>1. /\ fence' = fence /\ UNCHANGED <<workChan, wjob>>
          /\ \A v \in Workers : wpc'[v] = "check" <=> wpc[v] = "check"
      BY <1>0, <2>3 DEF WorkerFinish, WorkerBuild, WorkerSend, WorkerSendCancelled, WorkerReturnErr,
         WorkerExit, chanVars
    <3> QED BY <1>2, <2>0, <3>1
  <2> QED BY <1>8, <2>1, <2>2, <2>3 DEF WorkerStep
<1>9. CASE TeardownStep /\ UnchangedHere
  <2>1. CASE ShutdownWait
    BY <1>9, <2>1, FenceDrained DEF UnchangedHere, loopVars
  <2>2. CASE ~ShutdownWait
    <3>1. UNCHANGED <<workChan, fence>>
      BY <1>9, <2>2 DEF TeardownStep, ShutdownWriter, Drain, DrainWait, DrainWriter, FinalizeIndex, chanVars
    <3>2. UNCHANGED <<wpc, wjob>> /\ pc # "select" /\ pc' # "select"
      BY <1>9, TeardownFrame DEF workerVars
    <3> QED BY <1>2, <3>1, <3>2
  <2> QED BY <2>1, <2>2
<1> QED BY <1>3, <1>4, <1>5, <1>6, <1>7, <1>8, <1>9 DEF Next, Returned, FinishStep

--------------------------------------------------------------------------------
(* The slots: who may use one, and what it holds. *)

(* Nothing changes for the slots that are in use. *)
LEMMA SlotsKept ==
  ASSUME SlotInv, UNCHANGED <<rpc, rpart, resultCh, slotReady, slotHolds, waiters>>,
         Loading' => Loading /\ slotIdx' = slotIdx /\ part' = part,
         \A s \in Fences, b \in Blocks : Borrows(b, s)' => Borrows(b, s)
  PROVE  SlotInv'
<1>1. \A s, p : InUse(s, p)' <=> InUse(s, p)
  BY DEF InUse
<1>2. \A r \in Readers : /\ Filling(r)' <=> Filling(r)
                         /\ Queued(r)' <=> Queued(r)
                         /\ SlotOf(r, rpart[r])' = SlotOf(r, rpart[r])
  BY DEF Filling, Queued, SlotOf
<1>3. \A r \in Readers : Filling(r)' => rpart'[r] < numPartitions /\ InUse(SlotOf(r, rpart[r]), rpart[r])'
  BY <1>2 DEF SlotInv, InUse, SlotOf
<1>4. \A r \in Readers : Queued(r)' => InUse(resultCh[r][1].slotIdx, resultCh[r][1].part)'
  BY <1>2 DEF SlotInv, InUse
<1>5. Loading' => InUse(slotIdx, part)'
  BY DEF SlotInv, InUse
<1>6. \A s \in Fences, b \in Blocks : Borrows(b, s)' => ~slotReady'[s] /\ slotHolds'[s] = PartitionOf(b)
  BY DEF SlotInv
<1>7. \A s \in waiters' : ~slotReady'[s]
  BY DEF SlotInv
<1> QED BY <1>3, <1>4, <1>5, <1>6, <1>7 DEF SlotInv

LEMMA ReaderSlots ==
  ASSUME TypeOK, SlotInv, NEW r \in Readers, ReaderStep(r),
         \A s \in Fences, b \in Blocks : Borrows(b, s)' => Borrows(b, s)
  PROVE  SlotInv'
<1>0. /\ LoaderTypeOK
      /\ UNCHANGED <<path, pc, slotIdx, part, waiters>>
      /\ Loading' = Loading
  BY TypeParts DEF ReaderStep, ReaderTakeSlot, ReaderRead, ReaderSend, ReaderExit, Loading, inputVars,
     loopVars, poolVars, mainVars
<1>1. CASE ReaderTakeSlot(r)
  <2>1. rpart[r] \in Partitions
    BY <1>0, <1>1, ConstantTypes DEF ReaderTakeSlot, LoaderTypeOK
  <2>2. PICK f \in Fences : f = SlotOf(r, rpart[r])
    BY <2>1, SlotsExist
  <2>3. PICK p \in Partitions : p = rpart[r] /\ p < numPartitions
    BY <1>1, <2>1 DEF ReaderTakeSlot
  <2>4. /\ slotReady[f] /\ slotReady' = [slotReady EXCEPT ![f] = FALSE]
        /\ slotHolds' = [slotHolds EXCEPT ![f] = p]
        /\ rpc' = [rpc EXCEPT ![r] = "read"] /\ UNCHANGED <<rpart, resultCh>>
    BY <1>1, <2>2, <2>3 DEF ReaderTakeSlot
  <2>5. \A s, q : InUse(s, q) => InUse(s, q)'
    BY <1>0, <2>4 DEF InUse, LoaderTypeOK
  <2>6. InUse(f, p)'
    <3>1. f \notin waiters
      BY <2>4 DEF SlotInv
    <3> QED BY <1>0, <2>4, <3>1 DEF InUse, LoaderTypeOK
  <2>7. ASSUME NEW q \in Readers, Filling(q)'
        PROVE  rpart'[q] < numPartitions /\ InUse(SlotOf(q, rpart[q]), rpart[q])'
    <3>1. PICK m : m = SlotOf(q, rpart[q]) /\ m = SlotOf(q, rpart[q])'
      BY <2>4 DEF SlotOf
    <3>2. PICK k : k = rpart[q] /\ k = rpart'[q]
      BY <2>4
    <3>3. CASE q = r
      <4>1. m = f /\ k = p /\ p < numPartitions
        BY <2>2, <2>3, <3>1, <3>2, <3>3
      <4> QED BY <2>6, <3>1, <3>2, <4>1
    <3>4. CASE q # r
      <4>1. Filling(q)
        BY <1>0, <2>4, <2>7, <3>4 DEF Filling, LoaderTypeOK
      <4>2. InUse(m, k) /\ k < numPartitions
        BY <3>1, <3>2, <4>1 DEF SlotInv
      <4> QED BY <2>5, <3>1, <3>2, <4>2
    <3> QED BY <3>3, <3>4
  <2>8. \A q \in Readers : Queued(q)' => InUse(resultCh[q][1].slotIdx, resultCh[q][1].part)'
    BY <2>4, <2>5 DEF SlotInv, Queued
  <2>9. Loading' => InUse(slotIdx, part)'
    BY <1>0, <2>5 DEF SlotInv
  <2>10. \A s \in waiters' : ~slotReady'[s]
    BY <1>0, <2>4 DEF SlotInv, LoaderTypeOK
  <2>11. \A s \in Fences, b \in Blocks : Borrows(b, s)' => ~slotReady'[s] /\ slotHolds'[s] = PartitionOf(b)
    BY <1>0, <2>4 DEF SlotInv, LoaderTypeOK
  <2> QED BY <2>7, <2>8, <2>9, <2>10, <2>11 DEF SlotInv
<1>2. CASE ReaderRead(r) \/ ReaderExit(r)
  <2>1. UNCHANGED <<rpart, resultCh, slotReady, slotHolds, waiters>>
    BY <1>2 DEF ReaderRead, ReaderExit
  <2>2. \A q \in Readers : Filling(q)' => Filling(q)
    BY <1>0, <1>2 DEF Filling, LoaderTypeOK, ReaderRead, ReaderExit
  <2>3. \A q \in Readers : Filling(q)' => rpart'[q] < numPartitions /\ InUse(SlotOf(q, rpart[q]), rpart[q])'
    BY <2>1, <2>2 DEF SlotInv, InUse, SlotOf
  <2>4. \A q \in Readers : Queued(q)' => InUse(resultCh[q][1].slotIdx, resultCh[q][1].part)'
    BY <2>1 DEF SlotInv, InUse, Queued
  <2>5. Loading' => InUse(slotIdx, part)'
    BY <1>0, <2>1 DEF SlotInv, InUse
  <2>6. \A s \in Fences, b \in Blocks : Borrows(b, s)' => ~slotReady'[s] /\ slotHolds'[s] = PartitionOf(b)
    BY <2>1 DEF SlotInv
  <2>7. \A s \in waiters' : ~slotReady'[s]
    BY <2>1 DEF SlotInv
  <2> QED BY <2>3, <2>4, <2>5, <2>6, <2>7 DEF SlotInv
<1>3. CASE ReaderSend(r)
  <2>1. PICK p : p = rpart[r]
    OBVIOUS
  <2>2. PICK f : f = SlotOf(r, rpart[r])
    OBVIOUS
  <2>3. InUse(f, p)
    BY <1>3, <2>1, <2>2 DEF SlotInv, ReaderSend, Filling
  <2>4. /\ UNCHANGED <<slotReady, slotHolds, waiters>>
        /\ resultCh' = [resultCh EXCEPT ![r] = <<[slotIdx |-> f, part |-> p, err |-> rerr[r]]>>]
        /\ \A q \in Readers \ {r} : rpart'[q] = rpart[q] /\ rpc'[q] = rpc[q] /\ resultCh'[q] = resultCh[q]
        /\ rpc'[r] \notin {"read", "send"}
    BY <1>0, <1>3, <2>1, <2>2 DEF ReaderSend, LoaderTypeOK
  <2>5. \A s, q : InUse(s, q) => InUse(s, q)'
    BY <2>4 DEF InUse
  <2>6. ASSUME NEW q \in Readers, Filling(q)'
        PROVE  rpart'[q] < numPartitions /\ InUse(SlotOf(q, rpart[q]), rpart[q])'
    <3>1. q # r
      BY <2>4, <2>6 DEF Filling
    <3>2. PICK m : m = SlotOf(q, rpart[q]) /\ m = SlotOf(q, rpart[q])'
      BY <2>4, <3>1 DEF SlotOf
    <3>3. PICK k : k = rpart[q] /\ k = rpart'[q]
      BY <2>4, <3>1
    <3>4. InUse(m, k) /\ k < numPartitions
      BY <2>4, <2>6, <3>1, <3>2, <3>3 DEF SlotInv, Filling
    <3> QED BY <2>5, <3>2, <3>3, <3>4
  <2>7. ASSUME NEW q \in Readers, Queued(q)'
        PROVE  InUse(resultCh[q][1].slotIdx, resultCh[q][1].part)'
    <3>1. PICK m : m = resultCh'[q][1].slotIdx
      OBVIOUS
    <3>2. PICK k : k = resultCh'[q][1].part
      OBVIOUS
    <3>3. CASE q = r
      <4>1. m = f /\ k = p
        BY <1>0, <2>4, <3>1, <3>2, <3>3 DEF LoaderTypeOK
      <4> QED BY <2>3, <2>5, <3>1, <3>2, <4>1
    <3>4. CASE q # r
      <4>1. InUse(m, k)
        BY <2>4, <2>7, <3>1, <3>2, <3>4 DEF SlotInv, Queued
      <4> QED BY <2>5, <3>1, <3>2, <4>1
    <3> QED BY <3>3, <3>4
  <2>8. Loading' => InUse(slotIdx, part)'
    BY <1>0, <2>5 DEF SlotInv
  <2>9. \A s \in Fences, b \in Blocks : Borrows(b, s)' => ~slotReady'[s] /\ slotHolds'[s] = PartitionOf(b)
    BY <2>4 DEF SlotInv
  <2>10. \A s \in waiters' : ~slotReady'[s]
    BY <2>4 DEF SlotInv
  <2> QED BY <2>6, <2>7, <2>8, <2>9, <2>10 DEF SlotInv
<1> QED BY <1>1, <1>2, <1>3 DEF ReaderStep

(* The result that is received is the one of the partition that is due. *)
LEMMA ReceivedInOrder ==
  ASSUME TypeOK, StrideInv, path = "files", pc = "partition",
         NEW r \in Readers, r = part % numReaders, Queued(r)
  PROVE  resultCh[r][1].part = part
<1>1. PICK p \in Nat : p = part
  BY DEF TypeOK
<1>2. PICK q \in Nat : q = resultCh[r][1].part
  <2>1. resultCh[r] \in Seq(ResultSet) /\ resultCh[r] # <<>>
    BY TypeParts DEF LoaderTypeOK, Queued
  <2>2. resultCh[r][1] \in ResultSet
    BY <2>1
  <2> QED BY <2>2, ConstantTypes DEF ResultSet
<1>3. q % numReaders = p % numReaders /\ p <= q /\ q < p + numReaders
  BY <1>1, <1>2 DEF StrideInv, Dispatching, Pending, nextPart
<1>4. q = p
  BY ONLY <1>3, RemainderWindow, ReaderOf, p \in Nat, q \in Nat
<1> QED BY <1>1, <1>2, <1>4

(* While a partition is dispatched, no reader is filling it, or has it queued, again. *)
LEMMA ReadersAhead ==
  ASSUME TypeOK, StrideInv, Loading, NEW r \in Readers
  PROVE  rpart[r] # part /\ (Queued(r) => resultCh[r][1].part # part)
<1>1. PICK p \in Nat : p = part
  BY DEF TypeOK
<1>2. PICK m \in Nat : m = numReaders
  BY ReaderOf
<1>3. PICK k \in Nat : k = rpart[r]
  BY DEF TypeOK
<1>4. CASE Queued(r)
  <2>1. PICK q \in Nat : q = resultCh[r][1].part
    <3>1. resultCh[r] \in Seq(ResultSet) /\ resultCh[r] # <<>>
      BY <1>4, TypeParts DEF LoaderTypeOK, Queued
    <3>2. resultCh[r][1] \in ResultSet
      BY <3>1
    <3> QED BY <3>2, ConstantTypes DEF ResultSet
  <2>2. p + 1 <= q /\ k = q + m
    BY <1>1, <1>2, <1>3, <1>4, <2>1 DEF StrideInv, Dispatching, Loading, Pending, nextPart
  <2> QED BY <1>1, <1>3, <2>1, <2>2
<1>5. CASE ~Queued(r)
  <2>1. p + 1 <= k
    BY <1>1, <1>3, <1>5 DEF StrideInv, Dispatching, Loading, Pending, nextPart
  <2> QED BY <1>1, <1>3, <1>5, <2>1
<1> QED BY <1>4, <1>5

LEMMA SlotInvStep ==
  ASSUME TypeOK, FilesInv, LoopInv, FenceInv, SlotInv, StrideInv, FenceStep, [Next]_vars
  PROVE  SlotInv'
<1>0. LoaderTypeOK
  BY TypeParts
<1>1. CASE PrepareBlock
  <2>1. /\ UNCHANGED <<path, rpc, rpart, resultCh, slotReady, slotHolds, waiters, slotIdx, part>>
        /\ UNCHANGED <<workChan, wpc, wjob>>
        /\ pc = "block" /\ pc' = "select" /\ blockID \in Blocks
        /\ job'.blockID = blockID /\ (path = "files" => PartitionOf(blockID) = part)
        /\ job'.fence # NoFence => path = "files" /\ job'.fence = slotIdx
    BY <1>1 DEF PrepareBlock, BlockLeft, inputVars, readerVars, chanVars, workerVars
  <2>2. Loading' <=> Loading
    BY <2>1 DEF Loading
  <2>3. ASSUME NEW f \in Fences, NEW b \in Blocks, Borrows(b, f)'
        PROVE  ~slotReady'[f] /\ slotHolds'[f] = PartitionOf(b)
    <3>1. CASE Borrows(b, f)
      BY <2>1, <3>1 DEF SlotInv
    <3>2. CASE ~Borrows(b, f)
      <4>1. job'.blockID = b /\ job'.fence = f
        BY <2>1, <2>3, <3>2 DEF Borrows
      <4>2. Loading /\ f = slotIdx /\ PartitionOf(b) = part
        BY <2>1, <4>1, ConstantTypes DEF Loading
      <4> QED BY <2>1, <4>2 DEF SlotInv, InUse
    <3> QED BY <3>1, <3>2
  <2>4. \A q \in Readers : Filling(q)' => rpart'[q] < numPartitions /\ InUse(SlotOf(q, rpart[q]), rpart[q])'
    BY <2>1 DEF SlotInv, InUse, SlotOf, Filling
  <2>5. \A q \in Readers : Queued(q)' => InUse(resultCh[q][1].slotIdx, resultCh[q][1].part)'
    BY <2>1 DEF SlotInv, InUse, Queued
  <2>6. Loading' => InUse(slotIdx, part)'
    BY <2>1, <2>2 DEF SlotInv, InUse
  <2>7. \A s \in waiters' : ~slotReady'[s]
    BY <2>1 DEF SlotInv
  <2> QED BY <2>3, <2>4, <2>5, <2>6, <2>7 DEF SlotInv
<1>2. ASSUME ~PrepareBlock
      PROVE  \A s \in Fences, b \in Blocks : Borrows(b, s)' => Borrows(b, s)
  BY <1>2 DEF FenceStep
<1>3. CASE \E r \in Readers : ReaderStep(r)
  <2>1. ~PrepareBlock
    BY <1>3 DEF ReaderStep, ReaderTakeSlot, ReaderRead, ReaderSend, ReaderExit, PrepareBlock, poolVars, mainVars
  <2> QED BY <1>2, <1>3, <2>1, ReaderSlots
<1>4. ASSUME NEW f \in Fences, SlotReusable(f) PROVE SlotInv'
  <2>1. /\ slotReady' = [slotReady EXCEPT ![f] = TRUE] /\ waiters' = waiters \ {f} /\ f \in waiters
        /\ UNCHANGED <<path, pc, rpc, rpart, resultCh, slotHolds, slotIdx, part, workChan, wpc, wjob, job>>
    BY <1>4 DEF SlotReusable, inputVars, loopVars, poolVars, mainVars, chanVars, workerVars
  <2>2. \A b \in Blocks : ~Borrows(b, f)
    <3>1. fence[f] = 0 /\ fence[f] = Cardinality(Borrowers(f))
      BY <1>4 DEF SlotReusable, FenceInv
    <3>2. Borrowers(f) = {}
      BY <3>1, BorrowersFinite, FS_EmptySet
    <3> QED BY <3>2 DEF Borrowers
  <2>3. \A s, p : InUse(s, p) => InUse(s, p)'
    BY <1>0, <2>1 DEF InUse, LoaderTypeOK
  <2>4. ASSUME NEW q \in Readers, Filling(q)'
        PROVE  rpart'[q] < numPartitions /\ InUse(SlotOf(q, rpart[q]), rpart[q])'
    <3>1. PICK m : m = SlotOf(q, rpart[q]) /\ m = SlotOf(q, rpart[q])'
      BY <2>1 DEF SlotOf
    <3>2. PICK k : k = rpart[q] /\ k = rpart'[q]
      BY <2>1
    <3>3. InUse(m, k) /\ k < numPartitions
      BY <2>1, <2>4, <3>1, <3>2 DEF SlotInv, Filling
    <3> QED BY <2>3, <3>1, <3>2, <3>3
  <2>5. ASSUME NEW q \in Readers, Queued(q)'
        PROVE  InUse(resultCh[q][1].slotIdx, resultCh[q][1].part)'
    <3>1. PICK m : m = resultCh[q][1].slotIdx /\ m = resultCh'[q][1].slotIdx
      BY <2>1
    <3>2. PICK k : k = resultCh[q][1].part /\ k = resultCh'[q][1].part
      BY <2>1
    <3>3. InUse(m, k)
      BY <2>1, <2>5, <3>1, <3>2 DEF SlotInv, Queued
    <3> QED BY <2>3, <3>1, <3>2, <3>3
  <2>6. Loading' => InUse(slotIdx, part)'
    BY <2>1, <2>3 DEF SlotInv, Loading
  <2>7. \A s \in waiters' : ~slotReady'[s]
    BY <1>0, <2>1 DEF SlotInv, LoaderTypeOK
  <2>8. \A s \in Fences, b \in Blocks : Borrows(b, s)' => ~slotReady'[s] /\ slotHolds'[s] = PartitionOf(b)
    <3>1. \A s \in Fences, b \in Blocks : Borrows(b, s)' => Borrows(b, s)
      BY <2>1 DEF Borrows
    <3> QED BY <1>0, <2>1, <2>2, <3>1 DEF SlotInv, LoaderTypeOK
  <2> QED BY <2>4, <2>5, <2>6, <2>7, <2>8 DEF SlotInv
<1>5. CASE ReceivePartition
  <2>1. path = "files" /\ pc = "partition"
    BY <1>5 DEF ReceivePartition, FilesInv, TypeOK
  <2>2. PICK r \in Readers : r = part % numReaders
    BY ReaderOf DEF TypeOK
  <2>3. /\ Queued(r) /\ resultCh' = [resultCh EXCEPT ![r] = <<>>]
        /\ UNCHANGED <<path, rpc, rpart, slotReady, slotHolds, waiters, part>>
        /\ pc' = "block" => slotIdx' = Head(resultCh[r]).slotIdx
        /\ pc' \in {"block", "failWait"}
    BY <1>5, <2>2 DEF ReceivePartition, Queued, inputVars, Fail
  <2>4. Head(resultCh[r]) = resultCh[r][1]
    OBVIOUS
  <2>5. resultCh[r][1].part = part
    BY <2>1, <2>2, <2>3, ReceivedInOrder
  <2>6. Loading' => InUse(slotIdx, part)'
    <3>1. InUse(resultCh[r][1].slotIdx, part)
      BY <2>3, <2>5 DEF SlotInv
    <3> QED BY <2>3, <2>4, <3>1 DEF Loading, InUse
  <2>7. \A q \in Readers : Filling(q)' => rpart'[q] < numPartitions /\ InUse(SlotOf(q, rpart[q]), rpart[q])'
    BY <2>3 DEF SlotInv, InUse, SlotOf, Filling
  <2>8. ASSUME NEW q \in Readers, Queued(q)'
        PROVE  InUse(resultCh[q][1].slotIdx, resultCh[q][1].part)'
    <3>1. resultCh'[q] = resultCh[q] /\ Queued(q)
      BY <1>0, <2>3, <2>8 DEF Queued, LoaderTypeOK
    <3> QED BY <2>3, <3>1 DEF SlotInv, InUse
  <2>9. \A s \in waiters' : ~slotReady'[s]
    BY <2>3 DEF SlotInv
  <2>10. \A s \in Fences, b \in Blocks : Borrows(b, s)' => ~slotReady'[s] /\ slotHolds'[s] = PartitionOf(b)
    <3>1. ~PrepareBlock
      BY <1>5 DEF ReceivePartition, PrepareBlock
    <3> QED BY <1>2, <2>3, <3>1 DEF SlotInv
  <2> QED BY <2>6, <2>7, <2>8, <2>9, <2>10 DEF SlotInv
<1>6. CASE PartitionDispatched
  <2>1. /\ UNCHANGED <<path, rpc, rpart, resultCh, slotReady, slotHolds>>
        /\ waiters' = waiters \cup {slotIdx} /\ pc = "block" /\ pc' = "partition" /\ Loading
    BY <1>6 DEF PartitionDispatched, Loading, inputVars
  <2>2. InUse(slotIdx, part)
    BY <2>1 DEF SlotInv
  <2>3. \A s, p : InUse(s, p) /\ p # part => InUse(s, p)'
    BY <2>1, <2>2 DEF InUse
  <2>4. ASSUME NEW q \in Readers, Filling(q)'
        PROVE  rpart'[q] < numPartitions /\ InUse(SlotOf(q, rpart[q]), rpart[q])'
    <3>1. PICK m : m = SlotOf(q, rpart[q]) /\ m = SlotOf(q, rpart[q])'
      BY <2>1 DEF SlotOf
    <3>2. PICK k : k = rpart[q] /\ k = rpart'[q] /\ k # part
      BY <2>1, ReadersAhead
    <3>3. InUse(m, k) /\ k < numPartitions
      BY <2>1, <2>4, <3>1, <3>2 DEF SlotInv, Filling
    <3> QED BY <2>3, <3>1, <3>2, <3>3
  <2>5. ASSUME NEW q \in Readers, Queued(q)'
        PROVE  InUse(resultCh[q][1].slotIdx, resultCh[q][1].part)'
    <3>0. Queued(q)
      BY <2>1, <2>5 DEF Queued
    <3>1. PICK m : m = resultCh[q][1].slotIdx /\ m = resultCh'[q][1].slotIdx
      BY <2>1
    <3>2. PICK k : k = resultCh[q][1].part /\ k = resultCh'[q][1].part /\ k # part
      BY <2>1, <3>0, ReadersAhead
    <3>3. InUse(m, k)
      BY <3>0, <3>1, <3>2 DEF SlotInv
    <3> QED BY <2>3, <3>1, <3>2, <3>3
  <2>6. ~Loading'
    BY <2>1 DEF Loading
  <2>7. \A s \in waiters' : ~slotReady'[s]
    BY <2>1, <2>2 DEF SlotInv, InUse
  <2>8. \A s \in Fences, b \in Blocks : Borrows(b, s)' => ~slotReady'[s] /\ slotHolds'[s] = PartitionOf(b)
    <3>1. ~PrepareBlock
      BY <1>6 DEF PartitionDispatched, PrepareBlock
    <3> QED BY <1>2, <2>1, <3>1 DEF SlotInv
  <2> QED BY <2>4, <2>5, <2>6, <2>7, <2>8 DEF SlotInv
<1>7. CASE GivesUp \/ SelectSend \/ AllPartitionsDispatched \/ AllBlocksDispatched \/ FailWait
  <2>1. /\ UNCHANGED <<path, rpc, rpart, resultCh, slotReady, slotHolds, waiters, slotIdx, part>>
        /\ (pc' = "block" /\ pc = "select") \/ pc' \notin {"block", "select"}
        /\ pc' # "select"
    BY <1>7 DEF GivesUp, ReceiveGivesUp, PollGivesUp, SelectGivesUp, SelectSend, DispatchSend, Fail, Cleanup,
       AllPartitionsDispatched, AllBlocksDispatched, FailWait, inputVars, readerVars, loopVars
  <2>2. ~PrepareBlock
    BY <2>1 DEF PrepareBlock
  <2> QED BY <1>2, <2>1, <2>2, SlotsKept DEF Loading
<1>8. CASE ~FinishStep /\ (\A r \in Readers : ~ReaderStep(r)) /\ (\A s \in Fences : ~SlotReusable(s))
  <2>1. UNCHANGED <<path, rpc, rpart, resultCh, slotReady, slotHolds, waiters, slotIdx, part>>
    <3>1. CASE CancelBuild
      BY <3>1 DEF CancelBuild, inputVars, loopVars
    <3>2. CASE ~CancelBuild
      BY <1>8, <3>2, PoolFrame DEF inputVars, readerVars, loopVars
    <3> QED BY <3>1, <3>2
  <2>2. pc' = pc \/ pc' \notin {"block", "select"}
    BY <1>8, LoopFrame, TeardownFrame
  <2>3. ~PrepareBlock
    BY <1>8 DEF FinishStep
  <2> QED BY <1>2, <2>1, <2>2, <2>3, SlotsKept DEF Loading
<1> QED BY <1>1, <1>3, <1>4, <1>5, <1>6, <1>7, <1>8 DEF FinishStep, GivesUp

--------------------------------------------------------------------------------
(* The readers' strides, and how they end. *)

(* Nobody starts to dispatch again. *)
LEMMA StillDispatching ==
  ASSUME [Next]_vars, Dispatching', path' = "files"
  PROVE  Dispatching /\ path = "files"
<1>1. CASE FinishStep
  BY <1>1 DEF FinishStep, ReceivePartition, ReceiveGivesUp, PollGivesUp, PrepareBlock,
     PartitionDispatched, SelectSend, SelectGivesUp, AllPartitionsDispatched,
     AllBlocksDispatched, FailWait, Fail, Cleanup, Dispatching, inputVars
<1>2. CASE ~FinishStep
  BY <1>2, LoopFrame, TeardownFrame DEF Dispatching, inputVars
<1> QED BY <1>1, <1>2

LEMMA StrideInvStep ==
  ASSUME TypeOK, FilesInv, StrideInv, [Next]_vars
  PROVE  StrideInv'
<1>1. SUFFICES ASSUME Dispatching', path' = "files" PROVE StrideInv'
  BY DEF StrideInv
<1>2. /\ Dispatching /\ path = "files" /\ LoaderTypeOK
      /\ \A r \in Readers :
            /\ Pending(r) % numReaders = r
            /\ nextPart <= Pending(r) /\ Pending(r) < nextPart + numReaders
            /\ Queued(r) => rpart[r] = resultCh[r][1].part + numReaders
  BY <1>1, StillDispatching, TypeParts DEF StrideInv
<1>3. ASSUME UNCHANGED <<rpart, resultCh>>, nextPart' = nextPart
      PROVE  StrideInv'
  BY <1>2, <1>3 DEF StrideInv, Pending, Queued
<1>4. ASSUME NEW r \in Readers, ReaderStep(r) PROVE StrideInv'
  <2>1. nextPart' = nextPart
    BY <1>4 DEF ReaderStep, ReaderTakeSlot, ReaderRead, ReaderSend, ReaderExit, nextPart, loopVars,
       poolVars, mainVars
  <2>2. CASE ReaderSend(r)
    <3>1. PICK p : p = rpart[r]
      OBVIOUS
    <3>2. /\ resultCh' = [resultCh EXCEPT ![r] = <<[slotIdx |-> SlotOf(r, p), part |-> p, err |-> rerr[r]]>>]
          /\ rpart' = [rpart EXCEPT ![r] = p + numReaders] /\ resultCh[r] = <<>>
      BY <2>2, <3>1 DEF ReaderSend
    <3>3. Queued(r)' /\ resultCh'[r][1].part = p /\ rpart'[r] = p + numReaders
      BY <1>2, <3>2 DEF Queued, LoaderTypeOK
    <3>4. Pending(r)' = p /\ Pending(r) = p
      BY <3>1, <3>2, <3>3 DEF Pending, Queued
    <3>5. \A q \in Readers \ {r} : rpart'[q] = rpart[q] /\ resultCh'[q] = resultCh[q]
      BY <1>2, <3>2 DEF LoaderTypeOK
    <3>6. \A q \in Readers \ {r} : Pending(q)' = Pending(q) /\ (Queued(q)' <=> Queued(q))
      BY <3>5 DEF Pending, Queued
    <3> QED BY <1>2, <2>1, <3>3, <3>4, <3>5, <3>6 DEF StrideInv
  <2>3. CASE ~ReaderSend(r)
    <3>1. UNCHANGED <<rpart, resultCh>>
      BY <1>4, <2>3 DEF ReaderStep, ReaderTakeSlot, ReaderRead, ReaderExit
    <3> QED BY <1>3, <2>1, <3>1
  <2> QED BY <2>2, <2>3
<1>5. CASE ReceivePartition
  <2>1. PICK r \in Readers : r = part % numReaders
    BY <1>2, ReaderOf DEF LoaderTypeOK
  <2>2. /\ pc = "partition" /\ pc' = "block" /\ Queued(r)
        /\ resultCh' = [resultCh EXCEPT ![r] = <<>>] /\ UNCHANGED <<rpart, part>>
    BY <1>1, <1>5, <2>1 DEF ReceivePartition, Fail, Dispatching, Queued
  <2>3. resultCh[r][1].part = part
    BY <1>2, <2>1, <2>2, ReceivedInOrder
  <2>4. PICK p \in Nat, m \in Nat \ {0} : p = part /\ m = numReaders
    BY <1>2, ReaderOf DEF LoaderTypeOK
  <2>5. nextPart = p /\ nextPart' = p + 1
    BY <2>2, <2>4 DEF nextPart
  <2>6. ~Queued(r)' /\ Pending(r)' = p + m
    BY <1>2, <2>2, <2>3, <2>4 DEF Pending, Queued, LoaderTypeOK
  <2>7. (p + m) % m = r
    BY ONLY <2>1, <2>4, RemainderShift, p \in Nat, m \in Nat \ {0}
  <2>8. p + 1 <= p + m /\ p + m < p + 1 + m
    BY ONLY p \in Nat, m \in Nat \ {0}
  <2>9. ASSUME NEW q \in Readers \ {r}
        PROVE  /\ Pending(q)' = Pending(q) /\ (Queued(q)' <=> Queued(q))
               /\ resultCh'[q] = resultCh[q] /\ rpart'[q] = rpart[q]
               /\ p + 1 <= Pending(q) /\ Pending(q) < p + 1 + m
    <3>1. resultCh'[q] = resultCh[q] /\ rpart'[q] = rpart[q]
      BY <1>2, <2>2 DEF LoaderTypeOK
    <3>2. PICK k : k = Pending(q) /\ k % m = q /\ p <= k /\ k < p + m
      BY <1>2, <2>4, <2>5
    <3>3. k \in Nat
      <4>1. Queued(q) => resultCh[q][1] \in ResultSet
        BY <1>2 DEF Queued, LoaderTypeOK
      <4> QED BY <1>2, <3>2, <4>1, ConstantTypes DEF Pending, LoaderTypeOK, ResultSet
    <3>4. k # p
      BY ONLY <2>1, <2>4, <3>2, q \in Readers \ {r}
    <3>5. p + 1 <= k /\ k < p + 1 + m
      BY ONLY <3>2, <3>3, <3>4, p \in Nat, m \in Nat
    <3> QED BY <3>1, <3>2, <3>5 DEF Pending, Queued
  <2>10. ASSUME NEW q \in Readers
         PROVE  /\ Pending(q)' % numReaders = q
                /\ nextPart' <= Pending(q)' /\ Pending(q)' < nextPart' + numReaders
                /\ Queued(q)' => rpart'[q] = resultCh'[q][1].part + numReaders
    <3>1. CASE q = r
      BY ONLY <2>4, <2>5, <2>6, <2>7, <2>8, <3>1
    <3>2. CASE q # r
      BY ONLY <1>2, <2>4, <2>5, <2>9, <3>2, q \in Readers
    <3> QED BY <3>1, <3>2
  <2> QED BY <2>10 DEF StrideInv
<1>6. CASE PartitionDispatched
  <2>1. UNCHANGED <<rpart, resultCh>> /\ pc = "block" /\ pc' = "partition" /\ part' = part + 1
    BY <1>6 DEF PartitionDispatched
  <2>2. nextPart' = nextPart
    BY <2>1 DEF nextPart
  <2> QED BY ONLY <1>3, <2>1, <2>2
<1>7. CASE FinishStep /\ ~ReceivePartition /\ ~PartitionDispatched
  <2>1. UNCHANGED <<rpart, resultCh, part>> /\ pc \in {"block", "select"} /\ pc' \in {"block", "select"}
    BY <1>1, <1>7 DEF FinishStep, ReceiveGivesUp, PollGivesUp, PrepareBlock, SelectSend, SelectGivesUp,
       AllPartitionsDispatched, AllBlocksDispatched, FailWait, Fail, Cleanup, Dispatching, loopVars, readerVars
  <2>2. nextPart' = nextPart
    BY <2>1 DEF nextPart
  <2> QED BY ONLY <1>3, <2>1, <2>2
<1>8. CASE (~FinishStep) /\ (\A r \in Readers : ~ReaderStep(r))
  <2>1. UNCHANGED <<rpart, resultCh, part>>
    <3>1. CASE CancelBuild \/ \E s \in Fences : SlotReusable(s)
      BY <3>1 DEF CancelBuild, SlotReusable, loopVars
    <3>2. CASE ~(CancelBuild \/ \E s \in Fences : SlotReusable(s))
      BY <1>8, <3>2, PoolFrame DEF readerVars, loopVars
    <3> QED BY <3>1, <3>2
  <2>2. pc' = pc
    BY <1>1, <1>8, LoopFrame, TeardownFrame DEF Dispatching
  <2>3. nextPart' = nextPart
    BY <2>1, <2>2 DEF nextPart
  <2> QED BY ONLY <1>3, <2>1, <2>3
<1> QED BY <1>4, <1>5, <1>6, <1>7, <1>8

LEMMA LeaveInvStep ==
  ASSUME TypeOK, FilesInv, LeaveInv, [Next]_vars
  PROVE  LeaveInv'
<1>1. SUFFICES ASSUME Dispatching', path' = "files" PROVE LeaveInv'
  BY DEF LeaveInv
<1>2. /\ Dispatching /\ path = "files" /\ LoaderTypeOK
      /\ readerDone => ctxDone
      /\ \A r \in Readers :
            /\ rpc[r] = "stop" => Queued(r) /\ resultCh[r][1].err
            /\ resultChClosed[r] => \/ ctxDone \/ rpart[r] >= numPartitions
                                    \/ Queued(r) /\ resultCh[r][1].err
  BY <1>1, StillDispatching, TypeParts DEF LeaveInv
<1>3. ASSUME UNCHANGED <<rpc, rpart, resultCh, resultChClosed>>, ctxDone => ctxDone', readerDone' => ctxDone'
      PROVE  LeaveInv'
  BY <1>2, <1>3 DEF LeaveInv, Queued
<1>4. ASSUME NEW r \in Readers, ReaderStep(r) PROVE LeaveInv'
  <2>1. UNCHANGED <<readerDone, ctxDone>>
    BY <1>4 DEF ReaderStep, ReaderTakeSlot, ReaderRead, ReaderSend, ReaderExit, poolVars, ctxVars
  <2>2. CASE ReaderTakeSlot(r) \/ ReaderRead(r)
    <3>1. /\ UNCHANGED <<rpart, resultCh, resultChClosed>>
          /\ \A q \in Readers : rpc'[q] = "stop" => rpc[q] = "stop"
      BY <1>2, <2>2 DEF ReaderTakeSlot, ReaderRead, LoaderTypeOK
    <3> QED BY <1>2, <2>1, <3>1 DEF LeaveInv, Queued
  <2>3. CASE ReaderSend(r)
    <3>1. PICK res : res = [slotIdx |-> SlotOf(r, rpart[r]), part |-> rpart[r], err |-> rerr[r]]
      OBVIOUS
    <3>2. /\ resultCh' = [resultCh EXCEPT ![r] = <<res>>] /\ resultCh[r] = <<>>
          /\ rpart' = [rpart EXCEPT ![r] = @ + numReaders]
          /\ rpc' = [rpc EXCEPT ![r] = IF rerr[r] THEN "stop" ELSE "wait"]
          /\ resultChClosed' = resultChClosed
      BY <2>3, <3>1 DEF ReaderSend
    <3>3. Queued(r)' /\ resultCh'[r][1] = res /\ res.err = rerr[r]
      BY <1>2, <3>1, <3>2 DEF Queued, LoaderTypeOK
    <3>4. rpc'[r] = "stop" => rerr[r]
      BY <1>2, <3>2 DEF LoaderTypeOK
    <3>5. resultChClosed[r] => ctxDone \/ rpart'[r] >= numPartitions
      <4>1. PICK k \in Nat, m \in Nat : k = rpart[r] /\ m = numReaders
        BY <1>2, ReaderOf DEF LoaderTypeOK
      <4>2. rpart'[r] = k + m
        BY <1>2, <3>2, <4>1 DEF LoaderTypeOK
      <4>3. resultChClosed[r] => ctxDone \/ k >= numPartitions
        BY <1>2, <3>2, <4>1 DEF Queued
      <4> QED BY <4>2, <4>3, ConstantTypes
    <3>6. \A q \in Readers \ {r} : rpart'[q] = rpart[q] /\ resultCh'[q] = resultCh[q] /\ rpc'[q] = rpc[q]
      BY <1>2, <3>2 DEF LoaderTypeOK
    <3>7. ASSUME NEW q \in Readers
          PROVE  /\ rpc'[q] = "stop" => Queued(q)' /\ resultCh'[q][1].err
                 /\ resultChClosed'[q] => \/ ctxDone' \/ rpart'[q] >= numPartitions
                                          \/ Queued(q)' /\ resultCh'[q][1].err
      <4>1. CASE q = r
        BY <2>1, <3>2, <3>3, <3>4, <3>5, <4>1
      <4>2. CASE q # r
        BY <1>2, <2>1, <3>2, <3>6, <4>2 DEF Queued
      <4> QED BY <4>1, <4>2
    <3> QED BY <1>2, <2>1, <3>7 DEF LeaveInv
  <2>4. CASE ReaderExit(r)
    <3>1. /\ UNCHANGED <<rpart, resultCh>> /\ rpc' = [rpc EXCEPT ![r] = "exit"]
          /\ resultChClosed' = [resultChClosed EXCEPT ![r] = TRUE]
          /\ \/ readerDone \/ rpc[r] = "stop" \/ rpart[r] >= numPartitions
      BY <2>4 DEF ReaderExit
    <3>2. \A q \in Readers : rpc'[q] = "stop" => rpc[q] = "stop"
      BY <1>2, <3>1 DEF LoaderTypeOK
    <3>3. \A q \in Readers : resultChClosed'[q] => resultChClosed[q] \/ q = r
      BY <1>2, <3>1 DEF LoaderTypeOK
    <3> QED BY <1>2, <2>1, <3>1, <3>2, <3>3 DEF LeaveInv, Queued
  <2> QED BY <1>4, <2>2, <2>3, <2>4 DEF ReaderStep
<1>5. CASE ReceivePartition
  <2>1. PICK r \in Readers : r = part % numReaders
    BY <1>2, ReaderOf DEF LoaderTypeOK
  <2>2. /\ Queued(r) /\ ~Head(resultCh[r]).err /\ resultCh' = [resultCh EXCEPT ![r] = <<>>]
        /\ UNCHANGED <<rpc, rpart, resultChClosed, readerDone, ctxDone>>
    BY <1>1, <1>5, <2>1 DEF ReceivePartition, Fail, Dispatching, Queued, ctxVars
  <2>3. ~resultCh[r][1].err
    BY <2>2
  <2>4. \A q \in Readers \ {r} : resultCh'[q] = resultCh[q]
    BY <1>2, <2>2 DEF LoaderTypeOK
  <2> QED BY <1>2, <2>2, <2>3, <2>4 DEF LeaveInv, Queued
<1>6. CASE FinishStep /\ ~ReceivePartition
  <2>1. UNCHANGED <<rpc, rpart, resultCh, resultChClosed, ctxDone, readerDone>>
    BY <1>1, <1>6 DEF FinishStep, ReceiveGivesUp, PollGivesUp, PrepareBlock, SelectSend, SelectGivesUp,
       AllPartitionsDispatched, AllBlocksDispatched, FailWait, Fail, Cleanup, Dispatching, readerVars,
       PartitionDispatched, DispatchSend, ctxVars
  <2> QED BY <1>2, <1>3, <2>1
<1>7. CASE ~FinishStep /\ \A r \in Readers : ~ReaderStep(r)
  <2>1. CASE CancelBuild
    BY <1>3, <2>1 DEF CancelBuild, UserCancel
  <2>2. CASE \E s \in Fences : SlotReusable(s)
    BY <1>2, <1>3, <2>2 DEF SlotReusable, poolVars, ctxVars
  <2>3. CASE ~(CancelBuild \/ \E s \in Fences : SlotReusable(s))
    <3>1. UNCHANGED <<rpc, rpart, resultCh, resultChClosed, readerDone>>
      BY <1>7, <2>3, PoolFrame DEF readerVars
    <3>2. ctxDone' = ctxDone
      <4>1. ~TeardownStep
        BY <1>1, TeardownFrame DEF Dispatching
      <4> QED BY <1>7, <2>3, <4>1, WorkerFrame, WriterFrame DEF Next, Returned, vars, poolVars, ctxVars
    <3> QED BY <1>2, <1>3, <3>1, <3>2
  <2> QED BY <2>1, <2>2, <2>3
<1> QED BY <1>4, <1>5, <1>6, <1>7

--------------------------------------------------------------------------------
(* The theorems. *)

LEMMA InitReadersInv == Init => ReadersInv
<1> SUFFICES ASSUME Init PROVE ReadersInv
  OBVIOUS
<1>1. TypeOK
  BY InitTypes
<1>2. ChannelInv /\ CauseInv
  BY DEF Init, PoolInit, ChannelInv, CauseInv, Dispatching, WriterStopped
<1>3. FilesInv
  BY DEF Init, FilesInv
<1>4. LoopInv
  <2>1. /\ part = 0 /\ blockID = 0 /\ pc # "select" /\ ~Loading
    BY DEF Init, Loading
  <2>2. 0 * blocksPerPart = 0
    BY ConstantTypes
  <2> QED BY <2>1, <2>2 DEF LoopInv
<1>5. ItemsInv
  BY DEF Init, PoolInit, ItemsInv
<1>6. \A s \in Fences, b \in Blocks : ~Borrows(b, s)
  BY DEF Init, PoolInit, Borrows
<1>7. FenceInv
  <2>1. \A s \in Fences : Borrowers(s) = {}
    BY <1>6 DEF Borrowers
  <2> QED BY <2>1, FS_EmptySet DEF FenceInv, Init, PoolInit
<1>8. \A r \in Readers : ~Queued(r)
  BY DEF Init, Queued
<1>9. SlotInv
  <2>1. ~Loading /\ waiters = {} /\ \A r \in Readers : ~Filling(r)
    BY DEF Init, Loading, Filling
  <2> QED BY <1>6, <1>8, <2>1 DEF SlotInv
<1>10. StrideInv
  <2>1. SUFFICES ASSUME Dispatching, path = "files", NEW r \in Readers
        PROVE  /\ Pending(r) % numReaders = r
               /\ nextPart <= Pending(r) /\ Pending(r) < nextPart + numReaders
    BY <1>8 DEF StrideInv
  <2>2. Pending(r) = r /\ nextPart = 0
    BY <1>8, <2>1 DEF Init, Pending, nextPart
  <2>3. numReaders \in Nat \ {0} /\ r \in 0 .. numReaders - 1
    BY ReaderOf
  <2>4. r % numReaders = r
    BY ONLY <2>3
  <2> QED BY ONLY <2>2, <2>3, <2>4
<1>11. LeaveInv
  BY DEF Init, LeaveInv
<1> QED BY <1>1, <1>2, <1>3, <1>4, <1>5, <1>7, <1>9, <1>10, <1>11 DEF ReadersInv

LEMMA NextReadersInv == ReadersInv /\ [Next]_vars => ReadersInv'
<1> SUFFICES ASSUME ReadersInv, [Next]_vars PROVE ReadersInv'
  OBVIOUS
<1>0. TypeOK /\ ChannelInv /\ CauseInv /\ FilesInv /\ LoopInv /\ ItemsInv /\ FenceInv
      /\ SlotInv /\ StrideInv /\ LeaveInv
  BY DEF ReadersInv
<1>1. FenceStep
  BY <1>0, FenceInvStep
<1>2. FenceOK' /\ FenceInv'
  BY <1>1 DEF FenceStep
<1>3. TypeOK'
  BY <1>0, <1>2, NextTypes
<1>4. ChannelInv' /\ CauseInv' /\ FilesInv'
  BY <1>0, ChannelInvStep, CauseInvStep, FilesInvStep
<1>5. LoopInv' /\ ItemsInv'
  BY <1>0, LoopInvStep, ItemsInvStep
<1>6. SlotInv'
  BY <1>0, <1>1, SlotInvStep
<1>7. StrideInv' /\ LeaveInv'
  BY <1>0, StrideInvStep, LeaveInvStep
<1> QED BY <1>2, <1>3, <1>4, <1>5, <1>6, <1>7 DEF ReadersInv

LEMMA ReadersInvariant == Spec => []ReadersInv
BY InitReadersInv, NextReadersInv, PTL DEF Spec

(* TypeOK holds throughout Finish (builder_unsorted_finish.go), for any number of
   readers, slots and workers: in particular no fence is Done more often than it was
   Added, which would panic, no reader queues a second result in its channel of
   capacity 1, and every slot index a reader computes is one of the slots. *)
THEOREM ReadersTypeCorrect == Spec => []TypeOK
<1>1. ReadersInv => TypeOK
  BY DEF ReadersInv
<1> QED BY <1>1, ReadersInvariant, PTL

(* No slot is overwritten while a work item still refers to it: the slot a queued or
   just received item borrows its entries from holds that block's partition, although
   readers reuse slots in a ring without ever looking at the work channel. *)
THEOREM SlotsFenced == Spec => []SlotsNotOverwritten
<1>1. ReadersInv => SlotsNotOverwritten
  <2> SUFFICES ASSUME ReadersInv PROVE SlotsNotOverwritten
    OBVIOUS
  <2>1. /\ workChan \in Seq(Job) /\ wjob \in [Workers -> Job]
        /\ \A s \in Fences, b \in Blocks : Borrows(b, s) => slotHolds[s] = PartitionOf(b)
    BY DEF ReadersInv, TypeOK, PoolTypeOK, SlotInv
  <2>2. ASSUME NEW i \in DOMAIN workChan, workChan[i].fence # NoFence
        PROVE  slotHolds[workChan[i].fence] = PartitionOf(workChan[i].blockID)
    <3>0. workChan[i] \in Job
      BY <2>1
    <3>1. workChan[i].fence \in Fences /\ workChan[i].blockID \in Blocks
      BY <2>2, <3>0 DEF Job
    <3>2. Borrows(workChan[i].blockID, workChan[i].fence)
      BY <2>2 DEF Borrows
    <3> QED BY <2>1, <3>1, <3>2
  <2>3. ASSUME NEW w \in Workers, wpc[w] = "check", wjob[w].fence # NoFence
        PROVE  slotHolds[wjob[w].fence] = PartitionOf(wjob[w].blockID)
    <3>1. wjob[w].fence \in Fences /\ wjob[w].blockID \in Blocks
      BY <2>1, <2>3 DEF Job
    <3>2. Borrows(wjob[w].blockID, wjob[w].fence)
      BY <2>3 DEF Borrows
    <3> QED BY <2>1, <3>1, <3>2
  <2> QED BY <2>2, <2>3 DEF SlotsNotOverwritten
<1> QED BY <1>1, ReadersInvariant, PTL

(* The partition files are closed and removed only after every reader has returned,
   on the successful path and on every failure path of Finish. *)
THEOREM FilesOutliveReaders == Spec => []NoReadFromRemovedFiles
<1>1. ReadersInv => NoReadFromRemovedFiles
  BY DEF ReadersInv, FilesInv, NoReadFromRemovedFiles
<1> QED BY <1>1, ReadersInvariant, PTL

(* A Finish that gives up returns an error: the nil it could read from a closed
   writerDone, or find in ctx.Err() when a result channel is closed early, never
   reaches fail. *)
THEOREM GivingUpIsReported == Spec => []FailureIsReported
<1>1. ReadersInv => FailureIsReported
  BY DEF ReadersInv, CauseInv, FailureIsReported
<1> QED BY <1>1, ReadersInvariant, PTL
=================================================================================
