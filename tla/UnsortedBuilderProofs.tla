-------------------------- MODULE UnsortedBuilderProofs --------------------------
(***************************************************************************)
(* Proofs about the unsorted builder with one build worker, for any number *)
(* of blocks, partitions, writers and keys, any buffer and region size and *)
(* any width of the counts: entries are neither lost nor doubled nor       *)
(* overtaken between addKey and the partition files, and files and buffers *)
(* are left alone by everybody but their owner.                            *)
(***************************************************************************)
EXTENDS UnsortedBuilder, FiniteSetTheorems, SequenceTheorems, WellFoundedInduction, TLAPS

(* Where calls, writers and flushes stand to each other: who can still start a
   flush, and which files are open then. *)
ControlInv ==
    /\ \A w \in Writers : wpc[w] \in {"done", "failed"} => FlushDone(w)
    /\ closed /\ pc # "flushAll" => \A w \in Writers : wpc[w] \in {"idle", "done", "failed"}
    /\ pc = "flushAll" => /\ flushed
                          /\ mode = "AddKey" => wpc[0] \in {"closing", "flushAll", "done", "failed"}
                          /\ mode = "AddKeys" => \A w \in Writers : wpc[w] = "done"
    /\ pc \notin {"idle", "ingest"} => closed
    /\ pc = "ingest" => mode = "AddKeys" /\ ~closed /\ initialized
    /\ mode # "AddKeys" => \A w \in Writers \ {0} : wpc[w] = "idle" /\ FlushDone(w)
    /\ ~closed /\ pc = "idle" /\ mode = "AddKeys" => ~initialized
    /\ ~initialized => ~flushed /\ \A w \in Writers : wpc[w] = "idle"
    /\ mode = "none" => ~initialized
    /\ ~flushed => \A w \in Writers : FlushDone(w)

(* The writer files are open while anybody uses them. *)
FilesInv ==
    /\ initialized /\ ~closed => filesOpen
    /\ pc \in {"flushAll", "read", "blocks", "abort"} => filesOpen
    /\ pc \in {"fast", "empty", "read", "blocks", "abort", "finalize"} =>
          \A w \in Writers : FlushDone(w)
    /\ ahead = "reading" => pc \in {"blocks", "abort"}
    /\ NoIOOnClosedFiles

(* Which blocks have been built, as far as the bounds need it. *)
BuiltInv ==
    /\ built \in Seq(Range(built))
    /\ ~closed \/ pc \in {"flushAll", "read"} => built = <<>>
    /\ pc = "blocks" => Len(built) <= FirstBlock(part) + local
    /\ DOMAIN slots = 0 .. 1

(* The buffer being flushed is not the active one, buffered entries are in the region
   of their partition, and a call that waits for a flush has an entry to store. *)
BufferInv ==
    /\ \A w \in Writers : ~FlushDone(w) => wpc[w] = "flushAll" \/ flushBuf[w] # activeBuf[w]
    /\ \A w \in Writers, i \in 0 .. 1, p \in Partitions : \A k \in DOMAIN bufs[w][i][p] :
          PartitionOf(bufs[w][i][p][k].block) = p
    /\ \A w \in Writers : wpc[w] \in {"region", "cap"} =>
          pending[w] \in Entry /\ pending[w].w = w /\ pending[w].call = calls[w]

(* The cells before a partition's cursor have been written. *)
FileInv ==
    /\ RegionsHoldTheirPartition
    /\ \A w \in Writers, p \in Partitions : \A k \in 0 .. cursors[w][p] - 1 :
          file[w][p * regionEntries + k] \in Entry

(* EntriesHeldOnce without regard to the files being open, and the newest entry. *)
Sound(w) == ~flushErr[w] /\ wpc[w] # "failed"
Waiting(w) == IF wpc[w] = "cap" THEN {pending[w]} ELSE {}
lastCall(w) == IF wpc[w] = "region" THEN calls[w] - 1 ELSE calls[w]
Increasing(s) == \A i \in 1 .. Len(s) - 1 : s[i].call < s[i + 1].call
(* The entries of writer w that addKey has accepted or will once a flush is through. *)
Mine(w) == {e \in accepted \cup Waiting(w) : e.w = w}

(* The sequence holds partition p of the entries S, in order, up to the call last. *)
HoldsExactly(h, S, p, last) ==
    /\ ToSet(h) = {e \in S : PartitionOf(e.block) = p}
    /\ Increasing(h)
    /\ \A e \in ToSet(h) : e.call <= last
HeldOK(w) == \A p \in Partitions : HoldsExactly(Held(w, p), Mine(w), p, lastCall(w))
HeldInv == \A w \in Writers : Sound(w) => HeldOK(w)

UnsortedInv ==
    TypeOK /\ ControlInv /\ FilesInv /\ BuiltInv /\ BufferInv /\ FileInv /\ HeldInv

--------------------------------------------------------------------------------
(* Constants and partitions. *)

(* The quotient by R is p exactly in the p-th interval of length R. *)
LEMMA QuotientInterval ==
    ASSUME NEW R \in Nat \ {0}, NEW b \in Nat, NEW p \in Nat
    PROVE  b \div R = p <=> p * R <= b /\ b < (p + 1) * R
<1>1. PICK q \in Nat, m \in 0 .. R - 1 : q = b \div R /\ m = b % R /\ b = R * q + m
  <2>1. PICK q \in Nat : q = b \div R
    OBVIOUS
  <2>2. PICK m \in 0 .. R - 1 : m = b % R
    OBVIOUS
  <2> QED BY <2>1, <2>2
<1>2. CASE q = p
  BY <1>1, <1>2
<1>3. CASE q > p
  <2>1. PICK d \in Nat : q = p + 1 + d
    BY <1>3
  <2>2. R * q = (p + 1) * R + R * d /\ R * d >= 0 /\ (p + 1) * R \in Nat
    BY <2>1
  <2> QED BY <1>1, <1>3, <2>2
<1>4. CASE q < p
  <2>1. PICK d \in Nat : p = q + 1 + d
    BY <1>4
  <2>2. p * R = R * q + R + R * d /\ R * d >= 0 /\ R * q \in Nat
    BY <2>1
  <2> QED BY <1>1, <1>4, <2>2
<1> QED BY <1>1, <1>2, <1>3, <1>4

LEMMA ConstantTypes ==
  /\ NumBlocks \in Nat \ {0} /\ Blocks = 0 .. NumBlocks - 1
  /\ numPartitions \in Nat \ {0} /\ Partitions = 0 .. numPartitions - 1
  /\ numWriters \in Nat \ {0} /\ Writers = 0 .. numWriters - 1 /\ 0 \in Writers
  /\ regionCap \in Nat \ {0} /\ regionEntries \in Nat \ {0} /\ countLimit \in Nat \ {0}
  /\ contextCheckInterval \in Nat \ {0}
  /\ NoEntry \notin Entry
  BY UnsortedWriterAssumption DEF Blocks, Partitions, Writers, Entry, NoEntry

(* Every block belongs to a partition, although the last partitions may have none. *)
LEMMA PartitionsCover ==
  /\ blocksPerPart \in Nat \ {0}
  /\ \A b \in Blocks : PartitionOf(b) \in Partitions
<1>0. /\ NumBlocks \in Nat \ {0} /\ Blocks = 0 .. NumBlocks - 1
      /\ numPartitions \in Nat \ {0} /\ Partitions = 0 .. numPartitions - 1
  BY ConstantTypes
<1>1. PICK n \in Nat : n = NumBlocks + numPartitions - 1
  BY <1>0
<1>2. PICK Q \in Nat : Q = n \div numPartitions
  BY <1>0
<1>3. blocksPerPart = Q
  BY <1>1, <1>2 DEF blocksPerPart
<1>4. n < (Q + 1) * numPartitions
  BY <1>0, <1>2, QuotientInterval
<1>5. (Q + 1) * numPartitions = Q * numPartitions + numPartitions /\ Q * numPartitions \in Nat
  BY <1>0
<1>6. NumBlocks <= Q * numPartitions
  BY ONLY <1>0, <1>1, <1>4, <1>5, n \in Nat
<1>7. Q # 0
  BY <1>0, <1>6
<1>8. ASSUME NEW b \in Blocks PROVE b \div Q < numPartitions
  <2>1. PICK q \in Nat : q = b \div Q
    BY <1>0, <1>7
  <2>2. q * Q <= b
    BY <1>0, <1>7, <2>1, QuotientInterval
  <2>3. SUFFICES ASSUME q >= numPartitions PROVE FALSE
    BY <1>0, <2>1
  <2>4. PICK d \in Nat : q = numPartitions + d
    BY <1>0, <2>3
  <2>5. q * Q = Q * numPartitions + d * Q /\ d * Q \in Nat
    BY <1>0, <2>4
  <2> QED BY ONLY <1>0, <1>5, <1>6, <2>2, <2>5, b \in Blocks
<1>9. ASSUME NEW b \in Blocks PROVE PartitionOf(b) \in Partitions
  <2>1. PICK q \in Nat : q = b \div Q
    BY <1>0, <1>7
  <2>2. q \in Partitions
    BY ONLY <1>0, <1>8, <2>1, b \in Blocks
  <2> QED BY <1>3, <2>1, <2>2 DEF PartitionOf
<1> QED BY ONLY <1>3, <1>7, <1>9, Q \in Nat

--------------------------------------------------------------------------------
(* What a step does to the writers. *)

(* A callback has returned, or Finish starts to flush what AddKey has buffered. *)
CloseWriter(w) ==
    /\ wpc[w] = "idle" /\ wpc' = [wpc EXCEPT ![w] = "closing"]
    /\ UNCHANGED <<bufs, activeBuf, flushBuf, flushTodo, flushErr, file, cursors,
                   blockCounts, flushed, pending, calls, keyCounter, keysAdded, accepted>>

WritersStep ==
    \/ \E w \in Writers, b \in Blocks : AddKey(w, b, ctxDone)
    \/ \E w \in Writers : FlushStep(w)
    \/ \E w \in Writers : CloseWriter(w)
    \/ UNCHANGED writeVars

LEMMA StartFinishWriters ==
  ASSUME StartFinish, wpc[0] # "idle" => mode # "AddKey", WriterTypeOK
  PROVE  CloseWriter(0) \/ UNCHANGED writeVars
<1>1. UNCHANGED <<bufs, activeBuf, flushBuf, flushTodo, flushErr, file, cursors,
                  blockCounts, flushed, pending, calls, keyCounter, keysAdded, accepted>>
  BY DEF StartFinish
<1>2. (wpc' = [wpc EXCEPT ![0] = "closing"] /\ mode = "AddKey") \/ wpc' = wpc
  BY DEF StartFinish
<1> QED BY <1>1, <1>2 DEF CloseWriter, writeVars

LEMMA WriterCases ==
  ASSUME TypeOK, ControlInv, [Next]_vars
  PROVE  WritersStep
<1>0. WriterTypeOK /\ 0 \in Writers
  BY ConstantTypes DEF TypeOK
<1>1. CASE CallerStep
  <2>1. ASSUME NEW b \in Blocks, AddKeyCall(b) PROVE WritersStep
    BY <1>0, <2>1 DEF AddKeyCall, WritersStep
  <2>2. CASE Finish
    BY <1>0, <2>2, StartFinishWriters DEF Finish, WritersStep
  <2>3. CASE (\E m \in {"AddKey", "AddKeys"} : InitBufferFails(m)) \/ AddKeys \/ Close \/ CallAfterClose \/ UserCancel
    BY <2>3 DEF InitBufferFails, AddKeys, Close, CallAfterClose, UserCancel, WritersStep, vars
  <2> QED BY <1>1, <2>1, <2>2, <2>3 DEF CallerStep
<1>2. CASE BuilderStep
  <2>1. CASE WritersJoined
    <3>1. CASE WritersSucceeded
      <4>1. StartFinish /\ mode # "AddKey"
        BY <2>1, <3>1 DEF WritersJoined, ControlInv
      <4> QED BY <1>0, <4>1, StartFinishWriters DEF WritersStep
    <3>2. CASE ~WritersSucceeded
      BY <2>1, <3>2 DEF WritersJoined, WritersStep
    <3> QED BY <3>1, <3>2
  <2>2. CASE CleanupAll \/ MergeBlockCounts \/ ReadFirst \/ BuildBlock \/ PartitionDone \/ Abort
             \/ BuildFromMemory \/ FinalizeIndex
    BY <2>2 DEF CleanupAll, MergeBlockCounts, ReadFirst, BuildBlock, PartitionDone, Abort,
       BuildFromMemory, FinalizeIndex, WritersStep
  <2> QED BY <1>2, <2>1, <2>2 DEF BuilderStep
<1>3. CASE ReadAhead
  BY <1>3 DEF ReadAhead, WritersStep
<1>4. ASSUME NEW w \in Writers, WriterStep(w) \/ CallbackStep(w) PROVE WritersStep
  <2>1. CASE WriterStep(w)
    BY <2>1 DEF WriterStep, WritersStep
  <2>2. CASE CallbackReturns(w)
    <3>1. CloseWriter(w)
      BY <2>2 DEF CallbackReturns, CloseWriter
    <3> QED BY <3>1 DEF WritersStep
  <2>3. ASSUME NEW b \in Blocks, CallbackAddKey(w, b) PROVE WritersStep
    BY <2>3 DEF CallbackAddKey, WritersStep
  <2> QED BY <1>4, <2>1, <2>2, <2>3 DEF CallbackStep
<1>5. CASE UNCHANGED vars
  BY <1>5 DEF vars, WritersStep
<1> QED BY <1>1, <1>2, <1>3, <1>4, <1>5 DEF Next

--------------------------------------------------------------------------------
(* Types. *)

WriterPcs == {"idle", "region", "cap", "closing", "flushAll", "done", "failed"}
Buffer == [Partitions -> Seq(Entry)]
BufsOK == bufs \in [Writers -> [0 .. 1 -> Buffer]]
LensOK == \A w \in Writers, i \in 0 .. 1, p \in Partitions : Len(bufs[w][i][p]) <= regionCap
FlushOK ==
    /\ activeBuf \in [Writers -> 0 .. 1] /\ flushBuf \in [Writers -> 0 .. 1]
    /\ flushTodo \in [Writers -> SUBSET Partitions]
    /\ flushErr \in [Writers -> BOOLEAN] /\ flushed \in BOOLEAN
DiskOK ==
    /\ file \in [Writers -> [0 .. numPartitions * regionEntries - 1 -> Entry \cup {NoEntry}]]
    /\ cursors \in [Writers -> [Partitions -> Nat]]
    /\ blockCounts \in [Writers -> [Blocks -> 0 .. countLimit - 1]]
CallsOK ==
    /\ wpc \in [Writers -> WriterPcs]
    /\ pending \in [Writers -> Entry \cup {NoEntry}]
    /\ calls \in [Writers -> Nat] /\ keysAdded \in [Writers -> Nat]
    /\ keyCounter \in [Writers -> 0 .. contextCheckInterval - 1]
    /\ accepted \subseteq Entry

LEMMA TypeParts ==
  WriterTypeOK <=> BufsOK /\ LensOK /\ FlushOK /\ DiskOK /\ CallsOK
BY DEF WriterTypeOK, BufsOK, LensOK, FlushOK, DiskOK, CallsOK, WriterPcs, Buffer

LEMMA TypePartsNext ==
  WriterTypeOK' <=> BufsOK' /\ LensOK' /\ FlushOK' /\ DiskOK' /\ CallsOK'
BY DEF WriterTypeOK, BufsOK, LensOK, FlushOK, DiskOK, CallsOK, WriterPcs, Buffer

LEMMA BufferReplaced ==
  ASSUME BufsOK, NEW w \in Writers, NEW i \in 0 .. 1, NEW buf \in Buffer,
         bufs' = [bufs EXCEPT ![w][i] = buf]
  PROVE  /\ BufsOK' /\ bufs'[w][i] = buf
         /\ \A v \in Writers, j \in 0 .. 1 : v # w \/ j # i => bufs'[v][j] = bufs[v][j]
BY DEF BufsOK

Stored(buf, e) == [buf EXCEPT ![PartitionOf(e.block)] = Append(@, e)]

LEMMA EntryStored ==
  ASSUME NEW e \in Entry, NEW buf \in Buffer
  PROVE  /\ PartitionOf(e.block) \in Partitions
         /\ Stored(buf, e) \in Buffer
         /\ \A p \in Partitions : Stored(buf, e)[p] =
               IF p = PartitionOf(e.block) THEN Append(buf[p], e) ELSE buf[p]
<1>1. PICK p \in Partitions : p = PartitionOf(e.block)
  BY PartitionsCover DEF Entry
<1>2. Append(buf[p], e) \in Seq(Entry)
  BY DEF Buffer
<1> QED BY <1>1, <1>2 DEF Stored, Buffer

LEMMA NoEntriesBuffer == NoEntries \in Buffer /\ \A p \in Partitions : NoEntries[p] = <<>>
BY DEF NoEntries, Buffer

(* How addKey goes on once its entry e is stored. *)
AfterStore(w, e) ==
    \/ /\ wpc' = [wpc EXCEPT ![w] = "cap"]
       /\ UNCHANGED <<keysAdded, accepted>>
    \/ Accept(w, e)

(* Store, spelled out: the buffer it changes and how the call goes on. *)
LEMMA StoreEffect ==
  ASSUME BufsOK, NEW w \in Writers, NEW e \in Entry, NEW i \in 0 .. 1, NEW buf \in Buffer,
         Store(w, e, i, buf)
  PROVE  /\ BufsOK' /\ bufs'[w][i] = Stored(buf, e)
         /\ \A v \in Writers, j \in 0 .. 1 : v # w \/ j # i => bufs'[v][j] = bufs[v][j]
         /\ pending' = [pending EXCEPT ![w] = e]
         /\ AfterStore(w, e)
<1>1. PICK st \in Buffer : st = Stored(buf, e)
  BY EntryStored
<1>2. bufs' = [bufs EXCEPT ![w][i] = st]
  BY <1>1 DEF Store, Stored
<1>3. /\ BufsOK' /\ bufs'[w][i] = st
      /\ \A v \in Writers, j \in 0 .. 1 : v # w \/ j # i => bufs'[v][j] = bufs[v][j]
  BY <1>2 DEF BufsOK
<1>4. pending' = [pending EXCEPT ![w] = e]
  BY DEF Store
<1>5. AfterStore(w, e)
  BY DEF Store, AfterStore
<1> QED BY <1>1, <1>3, <1>4, <1>5

LEMMA AcceptTypes ==
  ASSUME CallsOK, NEW w \in Writers, NEW e \in Entry, Accept(w, e)
  PROVE  /\ wpc' \in [Writers -> WriterPcs] /\ keysAdded' \in [Writers -> Nat]
         /\ accepted' \subseteq Entry
<1>1. wpc' \in [Writers -> WriterPcs]
  BY DEF Accept, CallsOK, WriterPcs
<1>2. keysAdded' \in [Writers -> Nat]
  BY DEF Accept, CallsOK
<1>3. accepted' \subseteq Entry
  BY DEF Accept, CallsOK
<1> QED BY <1>1, <1>2, <1>3

LEMMA StoreTypes ==
  ASSUME BufsOK, LensOK, CallsOK,
         NEW w \in Writers, NEW e \in Entry, NEW i \in 0 .. 1, NEW buf \in Buffer,
         \A p \in Partitions : Len(buf[p]) <= regionCap,
         Len(buf[PartitionOf(e.block)]) < regionCap,
         Store(w, e, i, buf)
  PROVE  /\ BufsOK' /\ LensOK'
         /\ wpc' \in [Writers -> WriterPcs]
         /\ pending' \in [Writers -> Entry \cup {NoEntry}]
         /\ keysAdded' \in [Writers -> Nat]
         /\ accepted' \subseteq Entry
<1>1. PICK st \in Buffer : st = Stored(buf, e)
  BY EntryStored
<1>2. /\ BufsOK' /\ bufs'[w][i] = st
      /\ \A v \in Writers, j \in 0 .. 1 : v # w \/ j # i => bufs'[v][j] = bufs[v][j]
      /\ pending' = [pending EXCEPT ![w] = e]
      /\ AfterStore(w, e)
  BY <1>1, StoreEffect
<1>3. \A p \in Partitions : Len(st[p]) <= regionCap
  <2> TAKE p \in Partitions
  <2>1. buf[p] \in Seq(Entry) /\ Len(buf[p]) \in Nat
    BY DEF Buffer
  <2>2. CASE p = PartitionOf(e.block)
    <3>1. st[p] = Append(buf[p], e)
      BY <1>1, <2>2, EntryStored
    <3>2. Len(st[p]) = Len(buf[p]) + 1
      BY <2>1, <3>1
    <3> QED BY <2>1, <2>2, <3>2, ConstantTypes
  <2>3. CASE p # PartitionOf(e.block)
    BY <1>1, <2>3, EntryStored
  <2> QED BY <2>2, <2>3
<1>4. LensOK'
  <2> SUFFICES ASSUME NEW v \in Writers, NEW j \in 0 .. 1, NEW p \in Partitions
               PROVE  Len(bufs'[v][j][p]) <= regionCap
    BY DEF LensOK
  <2>1. CASE v = w /\ j = i
    BY <1>2, <1>3, <2>1
  <2>2. CASE v # w \/ j # i
    BY <1>2, <2>2 DEF LensOK
  <2> QED BY <2>1, <2>2
<1>5. pending' \in [Writers -> Entry \cup {NoEntry}]
  BY <1>2 DEF CallsOK
<1>6. CASE Accept(w, e)
  BY <1>2, <1>4, <1>5, <1>6, AcceptTypes
<1>7. CASE wpc' = [wpc EXCEPT ![w] = "cap"] /\ UNCHANGED <<keysAdded, accepted>>
  BY <1>2, <1>4, <1>5, <1>7 DEF CallsOK, WriterPcs
<1> QED BY <1>2, <1>6, <1>7 DEF AfterStore

(* The entry an addKey call makes. *)
LEMMA NewEntry ==
  ASSUME CallsOK, NEW w \in Writers, NEW b \in Blocks
  PROVE  [w |-> w, call |-> calls[w] + 1, block |-> b] \in Entry
BY DEF CallsOK, Entry

LEMMA ActiveBuffer ==
  ASSUME BufsOK, FlushOK, NEW w \in Writers
  PROVE  activeBuf[w] \in 0 .. 1 /\ 1 - activeBuf[w] \in 0 .. 1 /\ Active(w) \in Buffer
BY DEF BufsOK, FlushOK, Active

LEMMA AddKeyTypes ==
  ASSUME WriterTypeOK, NEW w \in Writers, NEW b \in Blocks, NEW c, AddKey(w, b, c)
  PROVE  WriterTypeOK'
<1>0. BufsOK /\ LensOK /\ FlushOK /\ DiskOK /\ CallsOK
  BY TypeParts
<1>1. FlushOK' /\ DiskOK'
  BY <1>0 DEF AddKey, FlushOK, DiskOK
<1>2. calls' \in [Writers -> Nat]
  BY <1>0 DEF AddKey, CallsOK
<1>3. keyCounter' \in [Writers -> 0 .. contextCheckInterval - 1]
  <2>1. keyCounter' = [keyCounter EXCEPT ![w] =
                         IF keyCounter[w] + 1 >= contextCheckInterval THEN 0 ELSE keyCounter[w] + 1]
    BY DEF AddKey
  <2>2. /\ keyCounter[w] \in 0 .. contextCheckInterval - 1 /\ contextCheckInterval \in Nat \ {0}
        /\ keyCounter \in [Writers -> 0 .. contextCheckInterval - 1]
    BY <1>0, ConstantTypes DEF CallsOK
  <2> QED BY ONLY <2>1, <2>2, w \in Writers
<1>4. PICK e \in Entry : e = [w |-> w, call |-> calls[w] + 1, block |-> b]
  BY <1>0, NewEntry
<1>5. CASE UNCHANGED <<bufs, wpc, pending, keysAdded, accepted>>
  <2>1. BufsOK' /\ LensOK'
    BY <1>0, <1>5 DEF BufsOK, LensOK
  <2>2. CallsOK'
    BY <1>0, <1>2, <1>3, <1>5 DEF CallsOK
  <2> QED BY <1>1, <2>1, <2>2, TypePartsNext
<1>6. CASE Len(Active(w)[PartitionOf(b)]) < regionCap /\ Store(w, e, activeBuf[w], Active(w))
  <2>1. PICK i \in 0 .. 1, buf \in Buffer : i = activeBuf[w] /\ buf = Active(w) /\ buf = bufs[w][i]
    BY <1>0, ActiveBuffer DEF Active
  <2>2. \A p \in Partitions : Len(buf[p]) <= regionCap
    BY <1>0, <2>1 DEF LensOK
  <2>3. Len(buf[PartitionOf(e.block)]) < regionCap /\ Store(w, e, i, buf)
    BY <1>4, <1>6, <2>1
  <2>4. /\ BufsOK' /\ LensOK'
        /\ wpc' \in [Writers -> WriterPcs]
        /\ pending' \in [Writers -> Entry \cup {NoEntry}]
        /\ keysAdded' \in [Writers -> Nat]
        /\ accepted' \subseteq Entry
    BY ONLY <1>0, <2>2, <2>3, StoreTypes, w \in Writers, e \in Entry, i \in 0 .. 1, buf \in Buffer
  <2>5. CallsOK'
    BY <1>2, <1>3, <2>4 DEF CallsOK
  <2> QED BY <1>1, <2>4, <2>5, TypePartsNext
<1>7. CASE /\ wpc' = [wpc EXCEPT ![w] = "region"]
           /\ pending' = [pending EXCEPT ![w] = e]
           /\ UNCHANGED <<bufs, keysAdded, accepted>>
  <2>1. BufsOK' /\ LensOK'
    BY <1>0, <1>7 DEF BufsOK, LensOK
  <2>2. wpc' \in [Writers -> WriterPcs] /\ pending' \in [Writers -> Entry \cup {NoEntry}]
    BY <1>0, <1>7 DEF CallsOK, WriterPcs
  <2>3. CallsOK'
    BY <1>0, <1>2, <1>3, <1>7, <2>2 DEF CallsOK
  <2> QED BY <1>1, <2>1, <2>3, TypePartsNext
<1> QED BY <1>4, <1>5, <1>6, <1>7 DEF AddKey

LEMMA FlushTypes ==
  ASSUME WriterTypeOK, NEW w \in Writers, Flush(w), pending[w] \in Entry
  PROVE  WriterTypeOK'
<1>0. BufsOK /\ LensOK /\ FlushOK /\ DiskOK /\ CallsOK
  BY TypeParts
<1>1. PICK n \in 0 .. 1, todo \in SUBSET Partitions :
         n = 1 - activeBuf[w] /\ todo = Filled(Active(w))
  BY <1>0, ActiveBuffer DEF Filled
<1>2. FlushOK'
  <2>1. /\ flushed' = TRUE /\ flushErr' = flushErr
        /\ activeBuf' = [activeBuf EXCEPT ![w] = n]
        /\ flushBuf' = [flushBuf EXCEPT ![w] = activeBuf[w]]
        /\ flushTodo' = [flushTodo EXCEPT ![w] = todo]
    BY <1>1 DEF Flush
  <2> QED BY <1>0, <2>1 DEF FlushOK
<1>3. DiskOK'
  BY <1>0 DEF Flush, DiskOK
<1>4. PICK e \in Entry : e = pending[w]
  OBVIOUS
<1>5. NoEntries \in Buffer /\ \A p \in Partitions : NoEntries[p] = <<>> /\ Len(NoEntries[p]) = 0
  BY NoEntriesBuffer
<1>6. UNCHANGED <<calls, keyCounter>>
  BY DEF Flush
<1>7. CASE Store(w, e, n, NoEntries)
  <2>1. /\ \A p \in Partitions : Len(NoEntries[p]) <= regionCap
        /\ Len(NoEntries[PartitionOf(e.block)]) < regionCap
    <3>1. Len(<<>>) = 0 /\ 0 <= regionCap /\ 0 < regionCap
      BY ConstantTypes
    <3>2. PartitionOf(e.block) \in Partitions
      BY NoEntriesBuffer, EntryStored
    <3> QED BY <3>1, <3>2, NoEntriesBuffer
  <2>2. /\ BufsOK' /\ LensOK'
        /\ wpc' \in [Writers -> WriterPcs]
        /\ pending' \in [Writers -> Entry \cup {NoEntry}]
        /\ keysAdded' \in [Writers -> Nat]
        /\ accepted' \subseteq Entry
    BY ONLY <1>0, <1>5, <1>7, <2>1, StoreTypes, w \in Writers, e \in Entry, n \in 0 .. 1
  <2>3. CallsOK'
    BY <1>0, <1>6, <2>2 DEF CallsOK
  <2> QED BY <1>2, <1>3, <2>2, <2>3, TypePartsNext
<1>8. CASE /\ bufs' = [bufs EXCEPT ![w][n] = NoEntries]
           /\ Accept(w, e) /\ UNCHANGED pending
  <2>1. BufsOK' /\ bufs'[w][n] = NoEntries
        /\ \A v \in Writers, j \in 0 .. 1 : v # w \/ j # n => bufs'[v][j] = bufs[v][j]
    BY <1>0, <1>5, <1>8 DEF BufsOK
  <2>2. LensOK'
    <3> SUFFICES ASSUME NEW v \in Writers, NEW j \in 0 .. 1, NEW p \in Partitions
                 PROVE  Len(bufs'[v][j][p]) <= regionCap
      BY DEF LensOK
    <3>1. CASE v = w /\ j = n
      BY <1>5, <2>1, <3>1, ConstantTypes
    <3>2. CASE v # w \/ j # n
      BY <1>0, <2>1, <3>2 DEF LensOK
    <3> QED BY <3>1, <3>2
  <2>3. CallsOK'
    BY <1>0, <1>6, <1>8, AcceptTypes DEF CallsOK
  <2> QED BY <1>2, <1>3, <2>1, <2>2, <2>3, TypePartsNext
<1> QED BY <1>1, <1>4, <1>7, <1>8 DEF Flush, Cleared

(* doFlush visits partitions it still has to visit. *)
LEMMA NextPartition ==
  ASSUME NEW todo \in SUBSET Partitions, todo # {}
  PROVE  Min(todo) \in todo
<1> DEFINE R == OpToRel(<, Nat)
<1>1. todo \subseteq Nat
  BY ConstantTypes
<1>2. PICK m \in todo : \A y \in todo : ~(<<y, m>> \in R)
  <2>1. IsWellFoundedOn(R, Nat)
    BY NatLessThanWellFounded DEF R
  <2> QED BY <1>1, <2>1, WFMin
<1>3. ASSUME NEW y \in todo PROVE m <= y
  <2>1. ~(<<y, m>> \in R)
    BY <1>2
  <2>2. m \in Nat /\ y \in Nat
    BY <1>1
  <2>3. ~(y < m)
    BY <2>1, <2>2 DEF OpToRel
  <2> QED BY <2>2, <2>3
<1> QED BY <1>3 DEF Min

(* A cell of a region is a cell of the file, of this partition alone. *)
LEMMA CellOf ==
  ASSUME NEW p \in Partitions, NEW k \in 0 .. regionEntries - 1
  PROVE  /\ p * regionEntries + k \in 0 .. numPartitions * regionEntries - 1
         /\ (p * regionEntries + k) \div regionEntries = p
<1> DEFINE R == regionEntries
<1>0. /\ R \in Nat \ {0} /\ numPartitions \in Nat \ {0} /\ Partitions = 0 .. numPartitions - 1
  BY ConstantTypes
<1>1. PICK c \in Nat : c = p * R + k
  BY <1>0
<1>2. p \in Nat /\ p < numPartitions /\ k \in Nat /\ k < R
  BY <1>0
<1> HIDE DEF R
<1>3. p * R <= c /\ c < (p + 1) * R
  <2>1. (p + 1) * R = p * R + R /\ p * R \in Nat
    BY <1>0, <1>2
  <2> QED BY <1>0, <1>1, <1>2, <2>1
<1>4. c \div R = p
  BY <1>0, <1>2, <1>3, QuotientInterval
<1>5. (p + 1) * R <= numPartitions * R
  <2>1. PICK d \in Nat : numPartitions = p + 1 + d
    BY <1>0, <1>2
  <2>2. numPartitions * R = (p + 1) * R + d * R /\ d * R \in Nat /\ (p + 1) * R \in Nat
    BY <1>0, <1>2, <2>1
  <2> QED BY <2>2
<1>6. c \in 0 .. numPartitions * R - 1
  <2>1. PICK a \in Nat, z \in Nat : a = (p + 1) * R /\ z = numPartitions * R
    BY <1>0, <1>2
  <2> QED BY <1>1, <1>3, <1>5, <2>1
<1> QED BY <1>1, <1>4, <1>6 DEF R

Cells == 0 .. numPartitions * regionEntries - 1

LEMMA CellsDisjoint ==
  ASSUME NEW p \in Partitions, NEW q \in Partitions, p # q,
         NEW k \in 0 .. regionEntries - 1, NEW l \in 0 .. regionEntries - 1
  PROVE  p * regionEntries + k # q * regionEntries + l
BY CellOf

(* The file after a write that fits: the partition's region has grown by the entries, and
   nothing else has changed. *)
(* In the file g the n entries of partition p are followed by m more; this is f. *)
RegionFilled(f, g, p, entries, n, m) ==
    /\ f \in [Cells -> Entry \cup {NoEntry}]
    /\ \A k \in 0 .. n - 1 : f[p * regionEntries + k] = g[p * regionEntries + k]
    /\ \A k \in 1 .. m : f[p * regionEntries + (n + k - 1)] = entries[k]
    /\ \A q \in Partitions \ {p}, k \in 0 .. regionEntries - 1 :
          f[q * regionEntries + k] = g[q * regionEntries + k]
    /\ \A c \in Cells : \/ f[c] = g[c]
                        \/ /\ c \div regionEntries = p
                           /\ \E k \in 1 .. m : f[c] = entries[k]

LEMMA FileWritten ==
  ASSUME DiskOK, NEW w \in Writers, NEW p \in Partitions, NEW entries \in Seq(Entry),
         NEW n \in Nat, n = cursors[w][p], NEW m \in Nat, m = Len(entries), n + m <= regionEntries,
         NEW f, f = FileWith(w, p, entries)
  PROVE  RegionFilled(f, file[w], p, entries, n, m)
<1>0. /\ regionEntries \in Nat \ {0} /\ p \in Nat /\ Partitions \subseteq Nat
  BY ConstantTypes
<1>1. PICK a \in Nat : a = p * regionEntries
  BY <1>0
<1>2. m = Len(entries)
  OBVIOUS
<1>3. file[w] \in [Cells -> Entry \cup {NoEntry}] /\ DOMAIN file[w] = Cells
  BY DEF DiskOK, Cells
<1>4. f = [i \in Cells |-> IF a + n <= i /\ i < a + n + m THEN entries[i - (a + n) + 1] ELSE file[w][i]]
  BY <1>1, <1>2, <1>3 DEF FileWith
<1>5. \A k \in 0 .. regionEntries - 1 : a + k \in Cells /\ (a + k) \div regionEntries = p
  BY <1>1, CellOf DEF Cells
<1>6. Cells \subseteq Nat
  BY <1>0, ConstantTypes DEF Cells
<1>7. \A k \in 1 .. m : entries[k] \in Entry
  BY <1>2
<1>8. f \in [Cells -> Entry \cup {NoEntry}]
  <2>1. ASSUME NEW i \in Cells, a + n <= i, i < a + n + m PROVE i - (a + n) + 1 \in 1 .. m
    BY ONLY <1>6, <2>1, i \in Cells, a \in Nat, n \in Nat, m \in Nat
  <2> QED BY <1>3, <1>4, <1>7, <2>1
<1>9. ASSUME NEW k \in 0 .. n - 1 PROVE f[a + k] = file[w][a + k]
  <2>1. k \in 0 .. regionEntries - 1
    BY <1>0
  <2>2. a + k \in Cells /\ ~(a + n <= a + k)
    BY <1>5, <2>1
  <2> QED BY <1>4, <2>2
<1>10. ASSUME NEW k \in 1 .. m PROVE f[a + (n + k - 1)] = entries[k]
  <2>1. n + k - 1 \in 0 .. regionEntries - 1
    BY ONLY <1>0, n \in Nat, m \in Nat, k \in 1 .. m, n + m <= regionEntries
  <2>2. PICK i \in Cells : i = a + (n + k - 1)
    BY <1>5, <2>1
  <2>3. a + n <= i /\ i < a + n + m /\ i - (a + n) + 1 = k
    BY ONLY <2>2, a \in Nat, n \in Nat, m \in Nat, k \in 1 .. m
  <2> QED BY <1>4, <2>2, <2>3
<1>11. ASSUME NEW q \in Partitions, q # p, NEW k \in 0 .. regionEntries - 1
       PROVE  f[q * regionEntries + k] = file[w][q * regionEntries + k]
  <2>1. PICK i \in Cells : i = q * regionEntries + k
    BY CellOf DEF Cells
  <2>2. ASSUME a + n <= i, i < a + n + m PROVE FALSE
    <3>1. PICK l \in Nat : i = a + l
      BY <1>6, <2>2
    <3>2. l \in 0 .. regionEntries - 1
      BY ONLY <1>0, <2>2, <3>1, a \in Nat, n \in Nat, m \in Nat, l \in Nat, n + m <= regionEntries
    <3> QED BY <1>1, <1>11, <2>1, <3>1, <3>2, CellsDisjoint
  <2> QED BY <1>4, <2>1, <2>2
<1>12. ASSUME NEW c \in Cells, f[c] # file[w][c]
       PROVE  c \div regionEntries = p /\ \E k \in 1 .. m : f[c] = entries[k]
  <2>1. a + n <= c /\ c < a + n + m
    BY <1>4, <1>12
  <2>2. PICK l \in Nat : c = a + l
    <3>1. c \in Nat /\ c - a \in Nat /\ c = a + (c - a)
      BY ONLY <1>6, <2>1, c \in Cells, a \in Nat, n \in Nat
    <3> QED BY <3>1
  <2>3. l \in 0 .. regionEntries - 1
    BY ONLY <1>0, <2>1, <2>2, a \in Nat, n \in Nat, m \in Nat, l \in Nat, n + m <= regionEntries
  <2>4. c - (a + n) + 1 \in 1 .. m
    BY ONLY <1>6, <2>1, c \in Cells, a \in Nat, n \in Nat, m \in Nat
  <2> QED BY <1>4, <1>5, <2>1, <2>2, <2>3, <2>4
<1> QED BY <1>1, <1>8, <1>9, <1>10, <1>11, <1>12 DEF RegionFilled

LEMMA CountsTyped ==
  ASSUME DiskOK, NEW w \in Writers, NEW entries \in Seq(Entry)
  PROVE  CountsWith(w, entries) \in [Blocks -> 0 .. countLimit - 1]
<1>1. ASSUME NEW b \in Blocks
      PROVE  (blockCounts[w][b] + Cardinality({i \in DOMAIN entries : entries[i].block = b}))
                % countLimit \in 0 .. countLimit - 1
  <2>1. blockCounts[w][b] \in Nat
    BY ConstantTypes DEF DiskOK
  <2>2. DOMAIN entries = 1 .. Len(entries) /\ IsFiniteSet(1 .. Len(entries))
    BY FS_Interval
  <2>3. IsFiniteSet({i \in DOMAIN entries : entries[i].block = b})
    BY <2>2, FS_Subset
  <2>4. PICK c \in Nat : c = Cardinality({i \in DOMAIN entries : entries[i].block = b})
    BY <2>3, FS_CardinalityType
  <2>5. PICK n \in Nat : n = blockCounts[w][b] + c
    BY <2>1
  <2>6. countLimit \in Nat \ {0}
    BY ConstantTypes
  <2>7. n % countLimit \in 0 .. countLimit - 1
    BY ONLY <2>6, n \in Nat
  <2> QED BY <2>4, <2>5, <2>7
<1> QED BY <1>1 DEF CountsWith

(* doFlush of one partition: the entries it writes, and what becomes of the writer. *)
(* doFlush has written the entries of partition p: only its region grows. *)
Wrote(w, p, entries) ==
    /\ cursors[w][p] + Len(entries) <= regionEntries
    /\ file' = [file EXCEPT ![w] = FileWith(w, p, entries)]
    /\ cursors' = [cursors EXCEPT ![w][p] = @ + Len(entries)]

(* doFlush has visited partition p. *)
Visited(w, p, entries) ==
    /\ blockCounts' = [blockCounts EXCEPT ![w] = CountsWith(w, entries)]
    /\ \/ /\ Wrote(w, p, entries)
          /\ flushTodo' = [flushTodo EXCEPT ![w] = @ \ {p}]
          /\ UNCHANGED <<flushErr, wpc>>
       \/ FlushError(w) /\ UNCHANGED <<file, cursors>>

LEMMA FlushPartitionCases ==
  ASSUME WriterTypeOK, NEW w \in Writers, FlushPartition(w)
  PROVE  \E p \in Partitions, entries \in Seq(Entry) :
            p \in flushTodo[w] /\ entries = bufs[w][flushBuf[w]][p] /\ Visited(w, p, entries)
<1>1. flushTodo[w] \in SUBSET Partitions /\ flushTodo[w] # {} /\ flushBuf[w] \in 0 .. 1
  BY DEF FlushPartition, FlushDone, WriterTypeOK
<1>2. PICK p \in Partitions : p \in flushTodo[w] /\ p = Min(flushTodo[w])
  BY <1>1, NextPartition
<1>3. PICK entries \in Seq(Entry) : entries = bufs[w][flushBuf[w]][p]
  BY <1>1 DEF WriterTypeOK
<1>4. Visited(w, p, entries)
  BY <1>2, <1>3 DEF FlushPartition, FitsRegion, Visited, Wrote
<1> QED BY <1>2, <1>3, <1>4

LEMMA FlushErrorTypes ==
  ASSUME FlushOK, CallsOK, NEW w \in Writers, FlushError(w)
  PROVE  /\ flushTodo' \in [Writers -> SUBSET Partitions] /\ flushErr' \in [Writers -> BOOLEAN]
         /\ wpc' \in [Writers -> WriterPcs]
<1>1. flushTodo' \in [Writers -> SUBSET Partitions]
  BY DEF FlushError, FlushOK
<1>2. CASE wpc[w] = "flushAll"
  BY <1>1, <1>2 DEF FlushError, FlushOK, CallsOK, WriterPcs
<1>3. CASE wpc[w] # "flushAll"
  BY <1>1, <1>3 DEF FlushError, FlushOK, CallsOK, WriterPcs
<1> QED BY <1>2, <1>3

LEMMA FlushPartitionTypes ==
  ASSUME WriterTypeOK, NEW w \in Writers, FlushPartition(w)
  PROVE  WriterTypeOK'
<1>0. BufsOK /\ LensOK /\ FlushOK /\ DiskOK /\ CallsOK
  BY TypeParts
<1>1. BufsOK' /\ LensOK'
  BY <1>0 DEF FlushPartition, BufsOK, LensOK
<1>2. UNCHANGED <<bufs, activeBuf, flushBuf, flushed, pending, calls, keyCounter, keysAdded,
                  accepted>>
  BY DEF FlushPartition
<1>3. PICK p \in Partitions, entries \in Seq(Entry) : Visited(w, p, entries)
  BY FlushPartitionCases
<1>4. PICK m \in Nat : m = Len(entries)
  OBVIOUS
<1>5. blockCounts' \in [Writers -> [Blocks -> 0 .. countLimit - 1]]
  <2>1. CountsWith(w, entries) \in [Blocks -> 0 .. countLimit - 1]
    BY <1>0, CountsTyped
  <2> QED BY <1>0, <1>3, <2>1 DEF DiskOK, Visited
<1>6. CASE /\ Wrote(w, p, entries)
           /\ flushTodo' = [flushTodo EXCEPT ![w] = @ \ {p}]
           /\ UNCHANGED <<flushErr, wpc>>
  <2>0. PICK f : f = FileWith(w, p, entries)
    OBVIOUS
  <2>1. PICK n \in Nat : n = cursors[w][p] /\ f = FileWith(w, p, entries)
    BY <1>0, <1>3, <2>0 DEF DiskOK
  <2>2. f \in [Cells -> Entry \cup {NoEntry}]
    <3>1. n + m <= regionEntries
      BY <1>4, <1>6, <2>1 DEF Wrote
    <3> QED BY <1>0, <1>4, <2>1, <3>1, FileWritten DEF RegionFilled
  <2>3. file' \in [Writers -> [Cells -> Entry \cup {NoEntry}]]
    BY <1>0, <1>6, <2>1, <2>2 DEF DiskOK, Cells, Wrote
  <2>4. cursors' \in [Writers -> [Partitions -> Nat]]
    <3>1. cursors' = [cursors EXCEPT ![w] = [@ EXCEPT ![p] = n + m]]
      BY <1>4, <1>6, <2>1 DEF Wrote
    <3>2. n + m \in Nat /\ cursors \in [Writers -> [Partitions -> Nat]]
      BY <1>0 DEF DiskOK
    <3> QED BY ONLY <3>1, <3>2, w \in Writers, p \in Partitions
  <2>5. DiskOK'
    BY <1>5, <2>3, <2>4 DEF DiskOK, Cells
  <2>6. FlushOK'
    BY <1>0, <1>2, <1>6 DEF FlushOK
  <2>7. CallsOK'
    BY <1>0, <1>2, <1>6 DEF CallsOK
  <2> QED BY <1>1, <2>5, <2>6, <2>7, TypePartsNext
<1>7. CASE FlushError(w) /\ UNCHANGED <<file, cursors>>
  <2>1. DiskOK'
    BY <1>0, <1>5, <1>7 DEF DiskOK
  <2>2. /\ flushTodo' \in [Writers -> SUBSET Partitions] /\ flushErr' \in [Writers -> BOOLEAN]
        /\ wpc' \in [Writers -> WriterPcs]
    BY <1>0, <1>7, FlushErrorTypes
  <2>3. FlushOK'
    BY <1>0, <1>2, <2>2 DEF FlushOK
  <2>4. CallsOK'
    BY <1>0, <1>2, <2>2 DEF CallsOK
  <2> QED BY <1>1, <2>1, <2>3, <2>4, TypePartsNext
<1> QED BY <1>3, <1>6, <1>7 DEF Visited

LEMMA WriterTypesStep ==
  ASSUME WriterTypeOK, BufferInv, WritersStep
  PROVE  WriterTypeOK'
<1>1. ASSUME NEW w \in Writers, NEW b \in Blocks, AddKey(w, b, ctxDone) PROVE WriterTypeOK'
  BY <1>1, AddKeyTypes
<1>2. ASSUME NEW w \in Writers, Flush(w) PROVE WriterTypeOK'
  <2>1. pending[w] \in Entry
    BY <1>2 DEF Flush, BufferInv
  <2> QED BY <1>2, <2>1, FlushTypes
<1>3. ASSUME NEW w \in Writers, FlushPartition(w) PROVE WriterTypeOK'
  BY <1>3, FlushPartitionTypes
<1>4. ASSUME NEW w \in Writers, FlushFails(w) \/ FlushAllDone(w) \/ CloseWriter(w)
      PROVE  WriterTypeOK'
  <2>1. /\ UNCHANGED <<bufs, activeBuf, flushBuf, flushTodo, flushErr, file, cursors,
                       blockCounts, flushed, pending, calls, keyCounter, keysAdded, accepted>>
        /\ \E q \in WriterPcs : wpc' = [wpc EXCEPT ![w] = q]
    BY <1>4 DEF FlushFails, FlushAllDone, CloseWriter, WriterPcs
  <2>2. wpc' \in [Writers -> WriterPcs]
    BY <2>1, TypeParts DEF CallsOK
  <2> QED BY <2>1, <2>2 DEF WriterTypeOK, WriterPcs
<1>5. ASSUME NEW w \in Writers, FlushAll(w) PROVE WriterTypeOK'
  <2>0. BufsOK /\ LensOK /\ FlushOK /\ DiskOK /\ CallsOK
    BY TypeParts
  <2>1. BufsOK' /\ LensOK' /\ DiskOK'
    BY <1>5, <2>0 DEF FlushAll, BufsOK, LensOK, DiskOK
  <2>2. PICK q \in WriterPcs : wpc' = [wpc EXCEPT ![w] = q]
    BY <1>5 DEF FlushAll, WriterPcs
  <2>3. CallsOK'
    BY <1>5, <2>0, <2>2 DEF FlushAll, CallsOK
  <2>4. \/ UNCHANGED <<flushBuf, flushTodo, flushed>>
        \/ /\ flushBuf' = [flushBuf EXCEPT ![w] = activeBuf[w]]
           /\ flushTodo' = [flushTodo EXCEPT ![w] = Filled(Active(w))]
           /\ flushed' = TRUE
    BY <1>5 DEF FlushAll
  <2>5. UNCHANGED <<activeBuf, flushErr>> /\ Filled(Active(w)) \in SUBSET Partitions
    BY <1>5 DEF FlushAll, Filled
  <2>6. FlushOK'
    BY <2>0, <2>4, <2>5 DEF FlushOK
  <2> QED BY <2>1, <2>3, <2>6, TypePartsNext
<1>6. CASE UNCHANGED writeVars
  BY <1>6 DEF writeVars, WriterTypeOK
<1> QED BY <1>1, <1>2, <1>3, <1>4, <1>5, <1>6 DEF WritersStep, FlushStep

--------------------------------------------------------------------------------
(* The blocks of a partition and the blocks built so far. *)

LEMMA LocalBlocksBound ==
  ASSUME NEW p \in Partitions
  PROVE  /\ FirstBlock(p) \in Nat /\ FirstBlock(p + 1) = FirstBlock(p) + blocksPerPart
         /\ LocalBlocks(p) \in 0 .. blocksPerPart
         /\ LocalBlocks(p) > 0 => FirstBlock(p) + LocalBlocks(p) <= NumBlocks
<1>0. /\ blocksPerPart \in Nat \ {0} /\ p \in Nat /\ NumBlocks \in Nat
  BY ConstantTypes, PartitionsCover
<1>1. PICK a \in Nat : a = FirstBlock(p)
  BY <1>0 DEF FirstBlock
<1>2. (p + 1) * blocksPerPart = p * blocksPerPart + blocksPerPart
  BY <1>0
<1>3. FirstBlock(p + 1) = FirstBlock(p) + blocksPerPart
  BY <1>2 DEF FirstBlock
<1>4. PICK m \in Nat : /\ m = Min({a + blocksPerPart, NumBlocks})
                       /\ m <= a + blocksPerPart /\ m <= NumBlocks
  <2>1. CASE a + blocksPerPart <= NumBlocks
    <3>1. \E x \in {a + blocksPerPart, NumBlocks} : \A y \in {a + blocksPerPart, NumBlocks} : x <= y
      BY <1>0, <2>1
    <3> QED BY <1>0, <3>1 DEF Min
  <2>2. CASE NumBlocks < a + blocksPerPart
    <3>1. \E x \in {a + blocksPerPart, NumBlocks} : \A y \in {a + blocksPerPart, NumBlocks} : x <= y
      BY <1>0, <2>2
    <3> QED BY <1>0, <3>1 DEF Min
  <2> QED BY <1>0, <2>1, <2>2
<1>5. PICK d \in Int : d = m - a
  OBVIOUS
<1>6. Max({0, d}) \in {0, d} /\ Max({0, d}) >= 0 /\ Max({0, d}) >= d
  <2>1. \E x \in {0, d} : \A y \in {0, d} : x >= y
    <3>1. CASE d >= 0
      BY <3>1
    <3>2. CASE d < 0
      BY <3>2
    <3> QED BY <3>1, <3>2
  <2> QED BY <2>1 DEF Max
<1>7. LocalBlocks(p) = Max({0, d})
  BY <1>1, <1>4, <1>5 DEF LocalBlocks
<1>8. PICK l \in Int : l = Max({0, d})
  BY <1>6
<1>9. l \in 0 .. blocksPerPart /\ (l > 0 => a + l <= NumBlocks)
  BY ONLY <1>0, <1>4, <1>5, <1>6, <1>8, a \in Nat, m \in Nat, d \in Int, l \in Int
<1> QED BY <1>1, <1>3, <1>7, <1>8, <1>9

LEMMA BuiltGrows ==
  ASSUME NEW s, s \in Seq(Range(s)), NEW x
  PROVE  /\ Append(s, x) \in Seq(Range(Append(s, x)))
         /\ Len(s) \in Nat /\ Len(Append(s, x)) = Len(s) + 1
<1>1. PICK S : S = Range(s) \cup {x}
  OBVIOUS
<1>2. s \in Seq(S) /\ x \in S
  <2>1. Range(s) \subseteq S
    BY <1>1
  <2> QED BY <1>1, <2>1, SeqMonotonic
<1>3. Append(s, x) \in Seq(S) /\ Len(Append(s, x)) = Len(s) + 1
  BY <1>2, AppendProperties
<1>4. PICK t \in Seq(S) : t = Append(s, x)
  BY <1>3
<1>5. t \in Seq(Range(t))
  BY SeqOfRange
<1>6. Len(s) \in Nat
  BY <1>2, LenProperties
<1> QED BY <1>3, <1>4, <1>5, <1>6

(* What a step may do to the built blocks: nothing, or build one more. *)
LEMMA BuiltCases ==
  ASSUME [Next]_vars
  PROVE  built' = built \/ \E x : built' = Append(built, x)
<1>1. CASE BuildBlock
  BY <1>1 DEF BuildBlock, Commit
<1>2. CASE BuildFromMemory
  BY <1>2 DEF BuildFromMemory, Commit
<1> USE DEF finishVars
<1>3. CASE CallerStep
  BY <1>3 DEF CallerStep, AddKeyCall, InitBufferFails, AddKeys, Finish, StartFinish, Close,
     CallAfterClose, UserCancel, vars
<1>4. CASE WritersJoined \/ CleanupAll \/ MergeBlockCounts \/ ReadFirst \/ PartitionDone \/ Abort
           \/ FinalizeIndex \/ ReadAhead
  BY <1>4 DEF WritersJoined, StartFinish, CleanupAll, MergeBlockCounts, ReadFirst, PartitionDone,
     Abort, FinalizeIndex, ReadAhead
<1>5. CASE \E w \in Writers : WriterStep(w) \/ CallbackStep(w)
  BY <1>5 DEF WriterStep, CallbackStep, CallbackReturns, CallbackAddKey
<1>6. CASE UNCHANGED vars
  BY <1>6 DEF vars
<1> QED BY <1>1, <1>2, <1>3, <1>4, <1>5, <1>6 DEF Next, BuilderStep

SlotsOK == DOMAIN slots = 0 .. 1

LEMMA SlotsStep ==
  ASSUME SlotsOK, [Next]_vars
  PROVE  SlotsOK'
<1>1. CASE ReadFirst \/ ReadAhead
  BY <1>1 DEF ReadFirst, ReadAhead, SlotsOK
<1> USE DEF finishVars
<1>2. CASE CallerStep
  BY <1>2 DEF CallerStep, AddKeyCall, InitBufferFails, AddKeys, Finish, StartFinish, Close,
     CallAfterClose, UserCancel, vars, SlotsOK
<1>3. CASE WritersJoined \/ CleanupAll \/ MergeBlockCounts \/ BuildBlock \/ PartitionDone \/ Abort
           \/ BuildFromMemory \/ FinalizeIndex
  BY <1>3 DEF WritersJoined, StartFinish, CleanupAll, MergeBlockCounts, BuildBlock, PartitionDone,
     Abort, BuildFromMemory, FinalizeIndex, SlotsOK
<1>4. CASE \E w \in Writers : WriterStep(w) \/ CallbackStep(w)
  BY <1>4 DEF WriterStep, CallbackStep, CallbackReturns, CallbackAddKey, SlotsOK
<1>5. CASE UNCHANGED vars
  BY <1>5 DEF vars, SlotsOK
<1> QED BY <1>1, <1>2, <1>3, <1>4, <1>5 DEF Next, BuilderStep

(* The step leaves the call in progress and the blocks it builds alone. *)
FinishIdle == UNCHANGED <<pc, closed, part, local, built>>

LEMMA BuiltInvStep ==
  ASSUME TypeOK, ControlInv, BuiltInv, [Next]_vars
  PROVE  BuiltInv' /\ Len(built') <= NumBlocks
<1> USE DEF finishVars
<1>0. /\ built \in Seq(Range(built)) /\ Len(built) \in Nat /\ Len(built) <= NumBlocks
      /\ NumBlocks \in Nat /\ part \in Partitions /\ local \in 0 .. blocksPerPart
      /\ blocksPerPart \in Nat /\ part \in Nat
  BY ConstantTypes, PartitionsCover DEF BuiltInv, TypeOK
<1>1. built' \in Seq(Range(built'))
  <2>1. CASE built' = built
    BY <1>0, <2>1
  <2>2. ASSUME NEW x, built' = Append(built, x) PROVE built' \in Seq(Range(built'))
    BY <1>0, <2>2, BuiltGrows
  <2> QED BY <2>1, <2>2, BuiltCases
<1>2. DOMAIN slots' = 0 .. 1
  BY SlotsStep DEF SlotsOK, BuiltInv
<1>3. SUFFICES /\ (~closed \/ pc \in {"flushAll", "read"} => built = <<>>)'
               /\ (pc = "blocks" => Len(built) <= FirstBlock(part) + local)'
               /\ Len(built') <= NumBlocks
  BY <1>1, <1>2 DEF BuiltInv
<1> DEFINE Goal == /\ (~closed \/ pc \in {"flushAll", "read"} => built = <<>>)'
                   /\ (pc = "blocks" => Len(built) <= FirstBlock(part) + local)'
                   /\ Len(built') <= NumBlocks
<1>4. CASE FinishIdle
  BY <1>0, <1>4 DEF FinishIdle, BuiltInv
<1>5. ASSUME pc' \notin {"blocks", "flushAll", "read"}, closed', built' = built PROVE Goal
  BY <1>0, <1>5
<1>6. CASE StartFinish /\ ~closed
  <2>1. built' = <<>> /\ built = <<>>
    BY <1>6 DEF StartFinish, BuiltInv
  <2>2. pc' # "blocks"
    BY <1>6 DEF StartFinish, FinishPath
  <2> QED BY <1>0, <2>1, <2>2
<1>7. CASE CallerStep
  <2>1. CASE Finish
    BY <1>6, <2>1 DEF Finish
  <2>2. CASE AddKeys
    BY <1>0, <2>2 DEF AddKeys, BuiltInv
  <2>3. CASE Close
    BY <1>5, <2>3 DEF Close
  <2>4. CASE (\E b \in Blocks : AddKeyCall(b)) \/ (\E m \in {"AddKey", "AddKeys"} : InitBufferFails(m))
             \/ CallAfterClose \/ UserCancel
    BY <1>4, <2>4 DEF AddKeyCall, InitBufferFails, CallAfterClose, UserCancel, FinishIdle, vars
  <2> QED BY <1>7, <2>1, <2>2, <2>3, <2>4 DEF CallerStep
<1>8. CASE BuilderStep
  <2>1. CASE WritersJoined
    <3>1. ~closed
      BY <2>1 DEF WritersJoined, ControlInv
    <3> QED BY <1>5, <1>6, <2>1, <3>1 DEF WritersJoined
  <2>2. CASE CleanupAll \/ Abort \/ FinalizeIndex
    <3>1. closed
      BY <2>2 DEF CleanupAll, Abort, FinalizeIndex, ControlInv
    <3> QED BY <1>5, <2>2, <3>1 DEF CleanupAll, Abort, FinalizeIndex
  <2>3. CASE MergeBlockCounts
    <3>1. built = <<>> /\ built' = built
      BY <2>3 DEF MergeBlockCounts, BuiltInv
    <3>2. pc' # "blocks"
      BY <2>3 DEF MergeBlockCounts
    <3> QED BY <1>0, <3>1, <3>2
  <2>4. CASE ReadFirst
    <3>1. built = <<>> /\ built' = built /\ closed /\ closed' = closed
      BY <2>4 DEF ReadFirst, BuiltInv, ControlInv
    <3>2. CASE StartPartition(0)
      <4>1. part' = 0 /\ local' = 0 /\ pc' = "blocks"
        BY <3>2 DEF StartPartition
      <4>2. Len(built') = 0 /\ FirstBlock(part') = 0
        BY <1>0, <3>1, <4>1 DEF FirstBlock
      <4> QED BY <1>0, <3>1, <4>1, <4>2 DEF FirstBlock
    <3>3. CASE pc' = "cleanup"
      BY <1>5, <3>1, <3>3
    <3> QED BY <2>4, <3>2, <3>3 DEF ReadFirst
  <2>5. CASE BuildBlock
    <3>1. /\ closed /\ closed' = closed /\ pc = "blocks" /\ part' = part
          /\ local < LocalBlocks(part) /\ pc' \in {"blocks", "abort"}
          /\ Len(built) <= FirstBlock(part) + local
      BY <2>5 DEF BuildBlock, ControlInv, Commit, BuiltInv
    <3>2. CASE built' = built /\ pc' = "abort"
      BY <1>0, <3>1, <3>2
    <3>3. ASSUME NEW x, built' = Append(built, x), local' = local + 1 PROVE Goal
      <4>1. PICK a \in Nat, l \in Nat : a = FirstBlock(part) /\ l = LocalBlocks(part) /\ a + l <= NumBlocks
        BY <1>0, <3>1, LocalBlocksBound
      <4>2. Len(built') = Len(built) + 1
        BY <1>0, <3>3, BuiltGrows
      <4>3. FirstBlock(part)' = a
        BY <3>1, <4>1 DEF FirstBlock
      <4>4. Len(built') <= a + local' /\ Len(built') <= NumBlocks
        BY ONLY <1>0, <3>1, <3>3, <4>1, <4>2, SMTT(30)
      <4> QED BY <3>1, <4>3, <4>4
    <3>4. (built' = built /\ pc' = "abort") \/ (local' = local + 1 /\ \E x : built' = Append(built, x))
      BY <2>5 DEF BuildBlock, Commit
    <3> QED BY <3>2, <3>3, <3>4
  <2>6. CASE PartitionDone
    <3>1. closed /\ closed' = closed /\ pc = "blocks" /\ built' = built
          /\ Len(built) <= FirstBlock(part) + local
      BY <2>6 DEF PartitionDone, ControlInv, BuiltInv
    <3>2. CASE StartPartition(part + 1)
      <4>1. part' = part + 1 /\ local' = 0 /\ pc' = "blocks"
        BY <3>2 DEF StartPartition
      <4>2. PICK a \in Nat : a = FirstBlock(part) /\ FirstBlock(part + 1) = a + blocksPerPart
        BY <1>0, LocalBlocksBound
      <4>3. FirstBlock(part)' = a + blocksPerPart
        BY <4>1, <4>2 DEF FirstBlock
      <4>4. Len(built) <= a + blocksPerPart + 0
        BY ONLY <1>0, <3>1, <4>2
      <4> QED BY <1>0, <3>1, <4>1, <4>3, <4>4
    <3>3. CASE pc' \in {"cleanup", "finalize"}
      BY <1>5, <3>1, <3>3
    <3> QED BY <2>6, <3>2, <3>3 DEF PartitionDone
  <2>7. CASE BuildFromMemory
    <3>1. closed /\ closed' = closed /\ pc' \in {"fast", "empty", "cleanup", "finalize"}
      BY <2>7 DEF BuildFromMemory, ControlInv, Commit
    <3>2. built' = built \/ (Len(built) # NumBlocks /\ \E x : built' = Append(built, x))
      BY <2>7 DEF BuildFromMemory, Commit
    <3>3. ASSUME NEW x, built' = Append(built, x), Len(built) # NumBlocks PROVE Len(built') <= NumBlocks
      BY <1>0, <3>3, BuiltGrows
    <3> QED BY <1>0, <3>1, <3>2, <3>3
  <2> QED BY <1>8, <2>1, <2>2, <2>3, <2>4, <2>5, <2>6, <2>7 DEF BuilderStep
<1>9. CASE ReadAhead \/ UNCHANGED vars
  BY <1>4, <1>9 DEF ReadAhead, vars, FinishIdle
<1>10. CASE \E w \in Writers : WriterStep(w) \/ CallbackStep(w)
  BY <1>4, <1>10 DEF WriterStep, CallbackStep, CallbackReturns, CallbackAddKey, FinishIdle
<1> QED BY <1>7, <1>8, <1>9, <1>10 DEF Next

(* TypeOK without the writers and the blocks built. *)
BuilderOK ==
    /\ totalKeys \in Totals
    /\ mode \in {"none", "AddKey", "AddKeys"}
    /\ initialized \in BOOLEAN /\ filesOpen \in BOOLEAN /\ closed \in BOOLEAN
    /\ ctxDone \in BOOLEAN /\ callbackErr \subseteq Writers
    /\ pc \in {"idle", "ingest", "flushAll", "fast", "empty", "read", "blocks", "abort",
               "cleanup", "finalize"}
    /\ part \in Partitions /\ local \in 0 .. blocksPerPart
    /\ ahead \in {"none", "reading", "ok", "failed"}
    /\ fileOpen \in BOOLEAN
    /\ output \in {"partial", "final", "removed"}
    /\ outcome \in {"building", "ok", "failed"}

LEMMA BuilderOKStep ==
  ASSUME BuilderOK, [Next]_vars
  PROVE  BuilderOK'
<1> USE DEF finishVars, fileVars, BuilderOK
<1>0. /\ numPartitions \in Nat \ {0} /\ Partitions = 0 .. numPartitions - 1 /\ part \in Nat
      /\ blocksPerPart \in Nat \ {0} /\ 0 \in 0 .. blocksPerPart
  BY ConstantTypes, PartitionsCover
<1>1. CASE CallerStep
  <2>1. CASE Finish
    BY <2>1 DEF Finish, StartFinish, FinishPath
  <2>2. CASE \E b \in Blocks : AddKeyCall(b)
    BY <2>2 DEF AddKeyCall
  <2>3. CASE \E m \in {"AddKey", "AddKeys"} : InitBufferFails(m)
    BY <2>3 DEF InitBufferFails
  <2>4. CASE AddKeys
    BY <2>4 DEF AddKeys
  <2>5. CASE Close
    BY <2>5 DEF Close
  <2>6. CASE CallAfterClose
    BY <2>6 DEF CallAfterClose, vars
  <2>7. CASE UserCancel
    BY <2>7 DEF UserCancel
  <2> QED BY <1>1, <2>1, <2>2, <2>3, <2>4, <2>5, <2>6, <2>7 DEF CallerStep
<1>2. CASE BuilderStep
  <2>1. CASE WritersJoined
    <3>1. CASE StartFinish
      BY <3>1 DEF StartFinish, FinishPath
    <3>2. CASE ~StartFinish
      BY <2>1, <3>2 DEF WritersJoined
    <3> QED BY <3>1, <3>2
  <2>2. CASE CleanupAll \/ Abort \/ FinalizeIndex
    BY <2>2 DEF CleanupAll, Abort, FinalizeIndex
  <2>3. CASE MergeBlockCounts
    BY <2>3 DEF MergeBlockCounts
  <2>4. CASE ReadFirst
    BY <1>0, <2>4 DEF ReadFirst, StartPartition
  <2>5. CASE BuildBlock
    <3>1. /\ UNCHANGED <<mode, initialized, filesOpen, closed, totalKeys, ctxDone, callbackErr,
                         part, ahead, fileVars>>
          /\ pc' \in {"blocks", "abort"}
      BY <2>5 DEF BuildBlock, Commit
    <3>2. local' \in 0 .. blocksPerPart
      <4>1. local' = local \/ (local' = local + 1 /\ local < LocalBlocks(part))
        BY <2>5 DEF BuildBlock
      <4>2. LocalBlocks(part) \in 0 .. blocksPerPart
        BY LocalBlocksBound
      <4>3. local \in 0 .. blocksPerPart
        OBVIOUS
      <4> QED BY ONLY <1>0, <4>1, <4>2, <4>3
    <3> QED BY <3>1, <3>2
  <2>6. CASE PartitionDone
    <3>1. CASE part + 1 < numPartitions /\ StartPartition(part + 1) /\ UNCHANGED filesOpen
      <4>1. part + 1 \in Partitions
        BY <1>0, <3>1
      <4> QED BY <1>0, <2>6, <3>1, <4>1 DEF PartitionDone, StartPartition
    <3>2. CASE pc' \in {"cleanup", "finalize"} /\ filesOpen' \in BOOLEAN /\ UNCHANGED <<part, local, ahead>>
      BY <2>6, <3>2 DEF PartitionDone
    <3> QED BY <2>6, <3>1, <3>2 DEF PartitionDone
  <2>7. CASE BuildFromMemory
    <3>1. UNCHANGED <<mode, initialized, closed, totalKeys, ctxDone, callbackErr, part, local,
                      ahead, fileVars>>
      BY <2>7 DEF BuildFromMemory
    <3>2. filesOpen' \in BOOLEAN /\ pc' \in {"fast", "empty", "cleanup", "finalize"}
      BY <2>7 DEF BuildFromMemory, Commit
    <3> QED BY <3>1, <3>2
  <2> QED BY <1>2, <2>1, <2>2, <2>3, <2>4, <2>5, <2>6, <2>7 DEF BuilderStep
<1>3. CASE ReadAhead
  BY <1>3 DEF ReadAhead
<1>4. ASSUME NEW w \in Writers, WriterStep(w) \/ CallbackStep(w) PROVE BuilderOK'
  BY <1>4 DEF WriterStep, CallbackStep, CallbackReturns, CallbackAddKey
<1>5. CASE UNCHANGED vars
  BY <1>5 DEF vars
<1> QED BY <1>1, <1>2, <1>3, <1>4, <1>5 DEF Next

LEMMA TypeStep ==
  ASSUME TypeOK, ControlInv, BuiltInv, BufferInv, [Next]_vars
  PROVE  TypeOK'
<1>1. WriterTypeOK' 
  BY WriterCases, WriterTypesStep DEF TypeOK
<1>2. BuilderOK'
  <2>1. BuilderOK
    BY DEF TypeOK, BuilderOK
  <2> QED BY <2>1, BuilderOKStep
<1>3. Len(built') <= NumBlocks
  BY BuiltInvStep
<1> QED BY <1>1, <1>2, <1>3 DEF TypeOK, BuilderOK

--------------------------------------------------------------------------------
(* Control: what a writer's step does to its place in the call and to its flush. *)

LEMMA AddKeyControl ==
  ASSUME NEW w \in Writers, NEW b \in Blocks, NEW c, AddKey(w, b, c), CallsOK
  PROVE  /\ \E q \in {"idle", "region", "cap"} : wpc' = [wpc EXCEPT ![w] = q]
         /\ wpc[w] = "idle" /\ UNCHANGED <<flushTodo, flushed>>
<1>1. wpc[w] = "idle" /\ UNCHANGED <<flushTodo, flushed>>
  BY DEF AddKey
<1>2. wpc = [wpc EXCEPT ![w] = "idle"]
  BY <1>1 DEF CallsOK
<1>3. CASE wpc' = wpc
  BY <1>1, <1>2, <1>3
<1>4. wpc' = wpc \/ \E q \in {"idle", "region", "cap"} : wpc' = [wpc EXCEPT ![w] = q]
  BY DEF AddKey, Store, Accept
<1> QED BY <1>1, <1>3, <1>4

(* One step of a flush: from and to which place in the call it may go. *)
FlushMove(w, q, T) ==
    /\ wpc' = [wpc EXCEPT ![w] = q] /\ flushTodo' = [flushTodo EXCEPT ![w] = T]
    /\ (flushed => flushed') /\ (T # {} => flushed' \/ flushTodo[w] # {})
    /\ q \in {"done", "failed"} => T = {} \/ wpc[w] = q
    /\ wpc[w] \in {"region", "cap"} => q \in {"idle", "region", "cap"}
    /\ wpc[w] = "closing" => q \in {"closing", "flushAll", "done", "failed"}
    /\ wpc[w] = "flushAll" => q \in {"flushAll", "done", "failed"}
    /\ wpc[w] \in {"idle", "done", "failed"} => q = wpc[w] /\ flushTodo[w] # {}

LEMMA FlushControl ==
  ASSUME WriterTypeOK, NEW w \in Writers, FlushStep(w)
  PROVE  \E q \in WriterPcs, T \in SUBSET Partitions : FlushMove(w, q, T)
<1>0. /\ wpc \in [Writers -> WriterPcs] /\ flushTodo \in [Writers -> SUBSET Partitions]
      /\ wpc = [wpc EXCEPT ![w] = wpc[w]] /\ flushTodo = [flushTodo EXCEPT ![w] = flushTodo[w]]
  BY TypeParts DEF FlushOK, CallsOK
<1>1. Filled(Active(w)) \in SUBSET Partitions
  BY DEF Filled
<1>2. CASE Flush(w)
  <2>1. PICK q \in {"idle", "cap"} : wpc' = [wpc EXCEPT ![w] = q]
    BY <1>2 DEF Flush, Store, Accept
  <2>2. /\ flushTodo' = [flushTodo EXCEPT ![w] = Filled(Active(w))] /\ flushed' = TRUE
        /\ wpc[w] \in {"region", "cap"}
    BY <1>2 DEF Flush
  <2>3. FlushMove(w, q, Filled(Active(w)))
    BY <2>1, <2>2 DEF FlushMove
  <2> QED BY <1>1, <2>1, <2>3 DEF WriterPcs
<1>3. CASE FlushFails(w)
  <2>1. FlushMove(w, "idle", flushTodo[w])
    BY <1>0, <1>3 DEF FlushFails, FlushDone, FlushMove
  <2> QED BY <1>0, <2>1 DEF WriterPcs
<1>4. CASE FlushPartition(w)
  <2>1. flushTodo[w] # {} /\ flushed' = flushed
    BY <1>4 DEF FlushPartition, FlushDone
  <2>2. CASE FlushError(w)
    <3>1. CASE wpc[w] = "flushAll"
      <4>1. FlushMove(w, "failed", {})
        BY <2>1, <2>2, <3>1 DEF FlushError, FlushMove
      <4> QED BY <4>1 DEF WriterPcs
    <3>2. CASE wpc[w] # "flushAll"
      <4>1. FlushMove(w, wpc[w], {})
        BY <1>0, <2>1, <2>2, <3>2 DEF FlushError, FlushMove
      <4> QED BY <1>0, <4>1
    <3> QED BY <3>1, <3>2
  <2>3. ASSUME NEW p, flushTodo' = [flushTodo EXCEPT ![w] = @ \ {p}], UNCHANGED wpc
        PROVE  \E q \in WriterPcs, T \in SUBSET Partitions : FlushMove(w, q, T)
    <3>1. FlushMove(w, wpc[w], flushTodo[w] \ {p})
      BY <1>0, <2>1, <2>3 DEF FlushMove
    <3> QED BY <1>0, <3>1
  <2> QED BY <1>4, <2>2, <2>3 DEF FlushPartition
<1>5. CASE FlushAll(w)
  <2>1. wpc[w] = "closing" /\ flushTodo[w] = {}
    BY <1>5 DEF FlushAll, FlushDone
  <2>2. CASE \E q \in {"failed", "done"} : wpc' = [wpc EXCEPT ![w] = q] /\ UNCHANGED <<flushTodo, flushed>>
    <3>1. PICK q \in {"failed", "done"} : wpc' = [wpc EXCEPT ![w] = q] /\ UNCHANGED <<flushTodo, flushed>>
      BY <2>2
    <3>2. FlushMove(w, q, {})
      BY <1>0, <2>1, <3>1 DEF FlushMove
    <3> QED BY <3>1, <3>2 DEF WriterPcs
  <2>3. CASE /\ wpc' = [wpc EXCEPT ![w] = "flushAll"] /\ flushed' = TRUE
             /\ flushTodo' = [flushTodo EXCEPT ![w] = Filled(Active(w))]
    <3>1. FlushMove(w, "flushAll", Filled(Active(w)))
      BY <2>1, <2>3 DEF FlushMove
    <3> QED BY <1>1, <3>1 DEF WriterPcs
  <2> QED BY <1>5, <2>2, <2>3 DEF FlushAll
<1>6. CASE FlushAllDone(w)
  <2>1. FlushMove(w, "done", flushTodo[w])
    BY <1>0, <1>6 DEF FlushAllDone, FlushDone, FlushMove
  <2> QED BY <1>0, <2>1 DEF WriterPcs
<1> QED BY <1>2, <1>3, <1>4, <1>5, <1>6 DEF FlushStep

LEMMA FinishPathCases ==
  ASSUME TypeOK
  PROVE  /\ FinishPath \in {"cleanup", "empty", "fast", "flushAll"}
         /\ FinishPath = "flushAll" => initialized /\ flushed
         /\ FinishPath = "fast" => ~flushed
         /\ FinishPath = "empty" => ~initialized
<1>1. initialized \in BOOLEAN /\ flushed \in BOOLEAN
  BY DEF TypeOK, WriterTypeOK
<1> QED BY <1>1 DEF FinishPath

(* Before Finish starts, no call on a writer is in progress. *)
LEMMA FinishFromIdle ==
  ASSUME TypeOK, ControlInv, Finish
  PROVE  (\A w \in Writers : wpc[w] = "idle") /\ (initialized => mode = "AddKey")
<1>1. /\ mode \in {"none", "AddKey", "AddKeys"} /\ 0 \in Writers
      /\ pc = "idle" /\ ~closed /\ wpc[0] = "idle"
  BY ConstantTypes DEF TypeOK, Finish
<1>2. CASE mode = "AddKeys"
  BY <1>1, <1>2 DEF ControlInv
<1>3. CASE mode # "AddKeys"
  BY <1>1, <1>3 DEF ControlInv
<1> QED BY <1>2, <1>3

LEMMA StartFinishControl ==
  ASSUME TypeOK, ControlInv, Finish \/ (WritersJoined /\ WritersSucceeded)
  PROVE  ControlInv'
<1>0. StartFinish /\ ~closed
  BY DEF Finish, WritersJoined, ControlInv
<1>1. /\ closed' = TRUE /\ pc' = FinishPath
      /\ UNCHANGED <<mode, initialized, flushed, flushTodo>>
      /\ wpc' = IF FinishPath = "flushAll" /\ mode = "AddKey" THEN [wpc EXCEPT ![0] = "closing"] ELSE wpc
  BY <1>0 DEF StartFinish
<1>2. wpc \in [Writers -> WriterPcs] /\ 0 \in Writers
  BY TypeParts, ConstantTypes DEF TypeOK, CallsOK
<1>3. CASE Finish
  <2>1. (\A w \in Writers : wpc[w] = "idle") /\ (initialized => mode = "AddKey")
    BY <1>3, FinishFromIdle
  <2>2. CASE FinishPath = "flushAll"
    <3>1. initialized /\ flushed /\ mode = "AddKey"
      BY <2>1, <2>2, FinishPathCases
    <3>2. wpc'[0] = "closing" /\ \A w \in Writers \ {0} : wpc'[w] = "idle"
      BY <1>1, <1>2, <2>1, <2>2, <3>1
    <3>3. \A w \in Writers : wpc'[w] \in {"idle", "closing"}
      BY <3>2
    <3> QED BY <1>1, <2>2, <3>1, <3>2, <3>3 DEF ControlInv, FlushDone
  <2>3. CASE FinishPath # "flushAll"
    BY <1>1, <2>1, <2>3, FinishPathCases DEF ControlInv, FlushDone
  <2> QED BY <2>2, <2>3
<1>4. CASE WritersJoined /\ WritersSucceeded
  <2>1. (\A w \in Writers : wpc[w] = "done") /\ mode = "AddKeys" /\ initialized
    BY <1>4 DEF WritersJoined, WritersSucceeded, ControlInv
  <2>2. wpc' = wpc
    BY <1>1, <2>1
  <2> QED BY <1>1, <2>1, <2>2, FinishPathCases DEF ControlInv, FlushDone
<1> QED BY <1>3, <1>4

LEMMA AddKeyControlStep ==
  ASSUME TypeOK, ControlInv, NEW w \in Writers, NEW b \in Blocks,
         (AddKeyCall(b) /\ w = 0) \/ CallbackAddKey(w, b)
  PROVE  ControlInv'
<1>1. AddKey(w, b, ctxDone) /\ CallsOK
  BY TypeParts DEF AddKeyCall, CallbackAddKey, TypeOK
<1>2. PICK q \in {"idle", "region", "cap"} : wpc' = [wpc EXCEPT ![w] = q]
  BY <1>1, AddKeyControl
<1>3. /\ \A v \in Writers : wpc'[v] = IF v = w THEN q ELSE wpc[v]
      /\ wpc[w] = "idle" /\ UNCHANGED <<flushTodo, flushed>>
  BY <1>1, <1>2, AddKeyControl DEF CallsOK
<1>4. CASE AddKeyCall(b) /\ w = 0
  <2>1. pc = "idle" /\ pc' = pc /\ ~closed /\ closed' = closed /\ mode # "AddKeys"
        /\ mode' = "AddKey" /\ initialized'
    BY <1>4 DEF AddKeyCall
  <2> QED BY <1>3, <1>4, <2>1 DEF ControlInv, FlushDone
<1>5. CASE CallbackAddKey(w, b)
  <2>1. pc = "ingest" /\ UNCHANGED <<pc, closed, mode, initialized>>
    BY <1>5 DEF CallbackAddKey
  <2> QED BY <1>3, <2>1 DEF ControlInv, FlushDone
<1> QED BY <1>4, <1>5

LEMMA FlushControlStep ==
  ASSUME TypeOK, ControlInv, NEW w \in Writers, FlushStep(w),
         UNCHANGED <<pc, closed, mode, initialized>>
  PROVE  ControlInv'
<1>0. WriterTypeOK /\ CallsOK /\ FlushOK
  BY TypeParts DEF TypeOK
<1>1. PICK q \in WriterPcs, T \in SUBSET Partitions : FlushMove(w, q, T)
  BY <1>0, FlushControl
<1>2. /\ \A v \in Writers : wpc'[v] = IF v = w THEN q ELSE wpc[v]
      /\ \A v \in Writers : flushTodo'[v] = IF v = w THEN T ELSE flushTodo[v]
  BY <1>0, <1>1 DEF FlushMove, CallsOK, FlushOK
<1>3. wpc[w] \in WriterPcs /\ flushed \in BOOLEAN
  BY <1>0 DEF CallsOK, FlushOK
<1>4. wpc[w] \notin {"done", "failed"} /\ initialized
  BY <1>1, <1>3 DEF FlushMove, ControlInv, FlushDone
<1>5. mode # "AddKeys" => w = 0
  BY <1>1, <1>4 DEF FlushMove, ControlInv, FlushDone
<1>6. \A v \in Writers : wpc'[v] \in {"done", "failed"} => FlushDone(v)'
  BY <1>1, <1>2, <1>4 DEF FlushMove, ControlInv, FlushDone
<1>7. closed' /\ pc' # "flushAll" => \A v \in Writers : wpc'[v] \in {"idle", "done", "failed"}
  BY <1>1, <1>2 DEF FlushMove, ControlInv
<1>8. pc' = "flushAll" => /\ flushed'
                          /\ mode' = "AddKey" => wpc'[0] \in {"closing", "flushAll", "done", "failed"}
                          /\ mode' = "AddKeys" => \A v \in Writers : wpc'[v] = "done"
  BY <1>1, <1>2, <1>4, <1>5 DEF FlushMove, ControlInv
<1>9. mode' # "AddKeys" => \A v \in Writers \ {0} : wpc'[v] = "idle" /\ FlushDone(v)'
  BY <1>2, <1>5 DEF ControlInv, FlushDone
<1>10. ~flushed' => \A v \in Writers : FlushDone(v)'
  BY <1>1, <1>2 DEF FlushMove, ControlInv, FlushDone
<1> QED BY <1>4, <1>6, <1>7, <1>8, <1>9, <1>10 DEF ControlInv

LEMMA ControlStep ==
  ASSUME TypeOK, ControlInv, [Next]_vars
  PROVE  ControlInv'
<1> USE DEF finishVars, fileVars, writeVars
<1>0. CallsOK /\ FlushOK /\ 0 \in Writers
  BY TypeParts, ConstantTypes DEF TypeOK
<1>1. ASSUME UNCHANGED <<wpc, flushTodo, flushed, pc, closed, mode, initialized>> PROVE ControlInv'
  BY <1>1 DEF ControlInv, FlushDone
<1>2. ASSUME UNCHANGED <<wpc, flushTodo, flushed, closed, mode, initialized>>,
             pc \notin {"idle", "ingest", "flushAll"}, pc' \notin {"ingest", "flushAll"}
      PROVE  ControlInv'
  BY <1>2 DEF ControlInv, FlushDone
<1>3. CASE CallerStep
  <2>1. CASE \E b \in Blocks : AddKeyCall(b)
    BY <1>0, <2>1, AddKeyControlStep
  <2>2. CASE \E m \in {"AddKey", "AddKeys"} : InitBufferFails(m)
    BY <1>0, <2>2 DEF InitBufferFails, ControlInv, FlushDone
  <2>3. CASE AddKeys
    BY <1>0, <2>3 DEF AddKeys, ControlInv, FlushDone
  <2>4. CASE Close
    <3>1. \A w \in Writers : wpc[w] = "idle"
      <4>1. pc = "idle" /\ ~closed /\ wpc[0] = "idle"
        BY <2>4 DEF Close
      <4>2. CASE mode = "AddKeys"
        BY <4>1, <4>2 DEF ControlInv
      <4>3. CASE mode # "AddKeys"
        BY <4>1, <4>3 DEF ControlInv
      <4> QED BY <4>2, <4>3
    <3>2. UNCHANGED <<wpc, flushTodo, flushed, mode, initialized>> /\ closed' /\ pc' = "cleanup"
      BY <2>4 DEF Close
    <3> QED BY <3>1, <3>2 DEF ControlInv, FlushDone
  <2>5. CASE CallAfterClose \/ UserCancel
    BY <1>1, <2>5 DEF CallAfterClose, UserCancel, vars
  <2>6. CASE Finish
    BY <2>6, StartFinishControl
  <2> QED BY <1>3, <2>1, <2>2, <2>3, <2>4, <2>5, <2>6 DEF CallerStep
<1>4. CASE BuilderStep
  <2>1. CASE WritersJoined
    <3>1. CASE WritersSucceeded
      BY <2>1, <3>1, StartFinishControl
    <3>2. CASE ~WritersSucceeded
      <4>1. /\ UNCHANGED <<wpc, flushTodo, flushed, mode, initialized>> /\ closed' /\ pc' = "cleanup"
            /\ pc = "ingest" /\ \A w \in Writers : wpc[w] \in {"done", "failed"}
        BY <2>1, <3>2 DEF WritersJoined, WriterReturned
      <4> QED BY <4>1 DEF ControlInv, FlushDone
    <3> QED BY <3>1, <3>2
  <2>2. CASE CleanupAll \/ ReadFirst \/ PartitionDone \/ Abort \/ FinalizeIndex
    <3>1. /\ UNCHANGED <<wpc, flushTodo, flushed, closed, mode, initialized>>
          /\ pc \notin {"idle", "ingest", "flushAll"} /\ pc' \notin {"ingest", "flushAll"}
      BY <2>2 DEF CleanupAll, ReadFirst, StartPartition, PartitionDone, Abort, FinalizeIndex
    <3> QED BY <1>2, <3>1
  <2>3. CASE BuildBlock \/ BuildFromMemory
    <3>1. /\ UNCHANGED <<wpc, flushTodo, flushed, closed, mode, initialized>>
          /\ pc \notin {"idle", "ingest", "flushAll"} /\ pc' \notin {"ingest", "flushAll"}
      BY <2>3 DEF BuildBlock, BuildFromMemory, Commit
    <3> QED BY <1>2, <3>1
  <2>4. CASE MergeBlockCounts
    <3>1. /\ UNCHANGED <<wpc, flushTodo, flushed, closed, mode, initialized>>
          /\ pc = "flushAll" /\ pc' \in {"read", "cleanup"}
          /\ mode = "AddKey" => wpc[0] \in {"done", "failed"}
      BY <2>4 DEF MergeBlockCounts
    <3>2. mode \in {"none", "AddKey", "AddKeys"}
      BY DEF TypeOK
    <3>3. \A w \in Writers : wpc[w] \in {"idle", "done", "failed"}
      <4>1. CASE mode = "AddKeys"
        BY <3>1, <4>1 DEF ControlInv
      <4>2. CASE mode = "AddKey"
        BY <3>1, <4>2 DEF ControlInv
      <4>3. CASE mode = "none"
        BY <3>1, <4>3 DEF ControlInv
      <4> QED BY <3>2, <4>1, <4>2, <4>3
    <3> QED BY <3>1, <3>3 DEF ControlInv, FlushDone
  <2> QED BY <1>4, <2>1, <2>2, <2>3, <2>4 DEF BuilderStep
<1>5. CASE ReadAhead \/ UNCHANGED vars
  BY <1>1, <1>5 DEF ReadAhead, vars
<1>6. ASSUME NEW w \in Writers, WriterStep(w) \/ CallbackStep(w) PROVE ControlInv'
  <2>1. CASE WriterStep(w)
    BY <2>1, FlushControlStep DEF WriterStep
  <2>2. CASE CallbackReturns(w)
    <3>1. /\ pc = "ingest" /\ wpc[w] = "idle" /\ wpc' = [wpc EXCEPT ![w] = "closing"]
          /\ UNCHANGED <<flushTodo, flushed, pc, closed, mode, initialized>>
      BY <2>2 DEF CallbackReturns
    <3>2. \A v \in Writers : wpc'[v] = IF v = w THEN "closing" ELSE wpc[v]
      BY <1>0, <3>1 DEF CallsOK
    <3> QED BY <3>1, <3>2 DEF ControlInv, FlushDone
  <2>3. CASE \E b \in Blocks : CallbackAddKey(w, b)
    BY <2>3, AddKeyControlStep
  <2> QED BY <1>6, <2>1, <2>2, <2>3 DEF CallbackStep
<1> QED BY <1>3, <1>4, <1>5, <1>6 DEF Next

--------------------------------------------------------------------------------
(* Files stay open under the goroutines that use them. *)

LEMMA FlushFilesStep ==
  ASSUME TypeOK, ControlInv, FilesInv, NEW w \in Writers, FlushStep(w),
         UNCHANGED <<pc, closed, initialized, filesOpen, ahead>>
  PROVE  FilesInv'
<1>0. WriterTypeOK /\ FlushOK
  BY TypeParts DEF TypeOK
<1>1. PICK q \in WriterPcs, T \in SUBSET Partitions : FlushMove(w, q, T)
  BY <1>0, FlushControl
<1>2. \A v \in Writers : flushTodo'[v] = IF v = w THEN T ELSE flushTodo[v]
  BY <1>0, <1>1 DEF FlushMove, FlushOK
<1>3. initialized
  BY <1>1 DEF FlushMove, ControlInv, FlushDone
<1>4. filesOpen
  <2>1. CASE flushTodo[w] # {}
    BY <2>1 DEF FilesInv, NoIOOnClosedFiles, FlushDone
  <2>2. CASE flushTodo[w] = {}
    <3>1. wpc[w] \notin {"idle", "done", "failed"}
      BY <1>1, <2>2 DEF FlushMove
    <3> QED BY <1>3, <3>1 DEF ControlInv, FilesInv
  <2> QED BY <2>1, <2>2
<1>5. pc \notin {"fast", "empty", "read", "blocks", "abort", "finalize"}
  <2>1. SUFFICES ASSUME pc \in {"fast", "empty", "read", "blocks", "abort", "finalize"} PROVE FALSE
    OBVIOUS
  <2>2. closed /\ pc # "flushAll" /\ flushTodo[w] = {}
    BY <2>1 DEF ControlInv, FilesInv, FlushDone
  <2>3. wpc[w] \in {"idle", "done", "failed"}
    BY <2>2 DEF ControlInv
  <2> QED BY <1>1, <2>2, <2>3 DEF FlushMove
<1> QED BY <1>4, <1>5 DEF FilesInv, NoIOOnClosedFiles, FlushDone

LEMMA FilesStep ==
  ASSUME TypeOK, ControlInv, FilesInv, [Next]_vars
  PROVE  FilesInv'
<1> USE DEF finishVars, fileVars, writeVars
<1>0. 0 \in Writers
  BY ConstantTypes
<1>1. ASSUME UNCHANGED <<flushTodo, pc, closed, initialized, filesOpen, ahead>> PROVE FilesInv'
  BY <1>1 DEF FilesInv, NoIOOnClosedFiles, FlushDone
<1>2. ASSUME StartFinish, ~closed, pc \in {"idle", "ingest"} PROVE FilesInv'
  <2>1. /\ closed' = TRUE /\ pc' = FinishPath
        /\ UNCHANGED <<flushTodo, initialized, filesOpen, ahead>>
    BY <1>2 DEF StartFinish
  <2>2. pc' \in {"fast", "empty"} => \A w \in Writers : FlushDone(w)
    BY <2>1, FinishPathCases DEF ControlInv
  <2>3. pc' = "flushAll" => filesOpen
    BY <1>2, <2>1, FinishPathCases DEF FilesInv
  <2>4. pc' \in {"cleanup", "empty", "fast", "flushAll"}
    BY <2>1, FinishPathCases
  <2>5. ahead # "reading" /\ NoIOOnClosedFiles
    BY <1>2 DEF FilesInv
  <2> QED BY <2>1, <2>2, <2>3, <2>4, <2>5 DEF FilesInv, NoIOOnClosedFiles, FlushDone
<1>3. CASE CallerStep
  <2>1. ASSUME NEW b \in Blocks, AddKeyCall(b) PROVE FilesInv'
    <3>1. /\ pc = "idle" /\ ~closed /\ UNCHANGED <<pc, closed, ahead>>
          /\ initialized' = TRUE /\ filesOpen' = (filesOpen \/ ~initialized)
      BY <2>1 DEF AddKeyCall
    <3>2. flushTodo' = flushTodo
      BY <2>1 DEF AddKeyCall, AddKey
    <3>3. filesOpen'
      BY <3>1 DEF FilesInv
    <3> QED BY <3>1, <3>2, <3>3 DEF FilesInv, NoIOOnClosedFiles, FlushDone
  <2>2. CASE \E m \in {"AddKey", "AddKeys"} : InitBufferFails(m)
    BY <1>1, <2>2 DEF InitBufferFails
  <2>3. CASE AddKeys
    <3>1. /\ pc = "idle" /\ pc' = "ingest" /\ filesOpen' = TRUE /\ initialized' = TRUE
          /\ UNCHANGED <<flushTodo, closed, ahead>>
      BY <2>3 DEF AddKeys
    <3> QED BY <3>1 DEF FilesInv, NoIOOnClosedFiles, FlushDone
  <2>4. CASE Close
    <3>1. /\ pc = "idle" /\ pc' = "cleanup" /\ closed' = TRUE
          /\ UNCHANGED <<flushTodo, initialized, filesOpen, ahead>>
      BY <2>4 DEF Close
    <3> QED BY <3>1 DEF FilesInv, NoIOOnClosedFiles, FlushDone
  <2>5. CASE CallAfterClose \/ UserCancel
    BY <1>1, <2>5 DEF CallAfterClose, UserCancel, vars
  <2>6. CASE Finish
    BY <1>2, <2>6 DEF Finish
  <2> QED BY <1>3, <2>1, <2>2, <2>3, <2>4, <2>5, <2>6 DEF CallerStep
<1>4. CASE BuilderStep
  <2>0. ASSUME closed, UNCHANGED <<flushTodo, closed, initialized>>,
               pc' \notin {"flushAll", "read", "blocks", "abort"},
               \/ UNCHANGED filesOpen
               \/ \A w \in Writers : FlushDone(w),
               pc' \in {"fast", "empty", "finalize"} => \A w \in Writers : FlushDone(w),
               ahead # "reading", ahead' = ahead
        PROVE  FilesInv'
    BY <2>0 DEF FilesInv, NoIOOnClosedFiles, FlushDone
  <2>1. CASE WritersJoined
    <3>1. ~closed /\ pc = "ingest"
      BY <2>1 DEF WritersJoined, ControlInv
    <3>2. CASE ~WritersSucceeded
      <4>1. /\ pc' = "cleanup" /\ closed' = TRUE
            /\ UNCHANGED <<flushTodo, initialized, filesOpen, ahead>>
        BY <2>1, <3>2 DEF WritersJoined
      <4> QED BY <3>1, <4>1 DEF FilesInv, NoIOOnClosedFiles, FlushDone
    <3> QED BY <1>2, <2>1, <3>1, <3>2 DEF WritersJoined
  <2>2. CASE CleanupAll
    <3>1. /\ pc = "cleanup" /\ pc' = "idle" /\ Drained
          /\ UNCHANGED <<flushTodo, closed, initialized, ahead>>
      BY <2>2 DEF CleanupAll
    <3>2. closed /\ ahead # "reading" /\ \A w \in Writers : FlushDone(w)
      BY <3>1 DEF ControlInv, FilesInv, Drained
    <3> QED BY <2>0, <3>1, <3>2
  <2>3. CASE MergeBlockCounts
    <3>1. /\ pc = "flushAll" /\ pc' \in {"read", "cleanup"}
          /\ UNCHANGED <<flushTodo, closed, initialized, filesOpen, ahead>>
          /\ mode = "AddKey" => wpc[0] \in {"done", "failed"}
      BY <2>3 DEF MergeBlockCounts
    <3>2. \A w \in Writers : FlushDone(w)
      <4>0. mode \in {"AddKey", "AddKeys"}
        BY <3>1 DEF ControlInv, TypeOK
      <4>1. CASE mode = "AddKeys"
        BY <3>1, <4>1 DEF ControlInv
      <4>2. CASE mode = "AddKey"
        BY <3>1, <4>2 DEF ControlInv
      <4> QED BY <4>0, <4>1, <4>2
    <3>3. closed /\ filesOpen /\ ahead # "reading"
      BY <3>1 DEF ControlInv, FilesInv
    <3> QED BY <3>1, <3>2, <3>3 DEF FilesInv, NoIOOnClosedFiles, FlushDone
  <2>4. CASE ReadFirst
    <3>1. /\ pc = "read" /\ UNCHANGED <<flushTodo, closed, initialized, filesOpen>>
          /\ closed /\ filesOpen /\ ahead # "reading" /\ \A w \in Writers : FlushDone(w)
      BY <2>4 DEF ReadFirst, ControlInv, FilesInv
    <3>2. CASE pc' = "blocks"
      BY <3>1, <3>2 DEF FilesInv, NoIOOnClosedFiles, FlushDone
    <3>3. CASE pc' = "cleanup" /\ ahead' = ahead
      BY <2>0, <3>1, <3>3
    <3> QED BY <2>4, <3>2, <3>3 DEF ReadFirst, StartPartition
  <2>5. CASE BuildBlock
    <3>1. /\ pc = "blocks" /\ pc' \in {"blocks", "abort"}
          /\ UNCHANGED <<flushTodo, closed, initialized, filesOpen, ahead>>
      BY <2>5 DEF BuildBlock, Commit
    <3> QED BY <3>1 DEF FilesInv, NoIOOnClosedFiles, FlushDone
  <2>6. CASE PartitionDone
    <3>1. /\ pc = "blocks" /\ UNCHANGED <<flushTodo, closed, initialized>>
          /\ closed /\ filesOpen /\ ahead # "reading" /\ \A w \in Writers : FlushDone(w)
      BY <2>6 DEF PartitionDone, ReadAheadJoined, ControlInv, FilesInv
    <3>2. CASE pc' = "blocks" /\ UNCHANGED filesOpen
      BY <3>1, <3>2 DEF FilesInv, NoIOOnClosedFiles, FlushDone
    <3>3. CASE pc' \in {"cleanup", "finalize"} /\ ahead' = ahead
      BY <2>0, <3>1, <3>3
    <3> QED BY <2>6, <3>2, <3>3 DEF PartitionDone, StartPartition
  <2>7. CASE Abort
    <3>1. /\ pc = "abort" /\ pc' = "cleanup" /\ ahead # "reading"
          /\ UNCHANGED <<flushTodo, closed, initialized, filesOpen, ahead>>
      BY <2>7 DEF Abort, ReadAheadJoined
    <3> QED BY <2>0, <3>1 DEF ControlInv
  <2>8. CASE BuildFromMemory
    <3>1. /\ pc \in {"fast", "empty"} /\ pc' \in {"fast", "empty", "cleanup", "finalize"}
          /\ UNCHANGED <<flushTodo, closed, initialized, ahead>>
      BY <2>8 DEF BuildFromMemory, Commit
    <3>2. closed /\ ahead # "reading" /\ \A w \in Writers : FlushDone(w)
      BY <3>1 DEF ControlInv, FilesInv
    <3> QED BY <2>0, <3>1, <3>2
  <2>9. CASE FinalizeIndex
    <3>1. /\ pc = "finalize" /\ pc' = "idle"
          /\ UNCHANGED <<flushTodo, closed, initialized, filesOpen, ahead>>
      BY <2>9 DEF FinalizeIndex
    <3>2. closed /\ ahead # "reading" /\ \A w \in Writers : FlushDone(w)
      BY <3>1 DEF ControlInv, FilesInv
    <3> QED BY <2>0, <3>1, <3>2
  <2> QED BY <1>4, <2>1, <2>2, <2>3, <2>4, <2>5, <2>6, <2>7, <2>8, <2>9 DEF BuilderStep
<1>5. CASE ReadAhead
  <2>1. /\ ahead = "reading" /\ ahead' # "reading"
        /\ UNCHANGED <<flushTodo, pc, closed, initialized, filesOpen>>
    BY <1>5 DEF ReadAhead
  <2> QED BY <2>1 DEF FilesInv, NoIOOnClosedFiles, FlushDone
<1>6. ASSUME NEW w \in Writers, WriterStep(w) \/ CallbackStep(w) PROVE FilesInv'
  <2>1. CASE WriterStep(w)
    BY <2>1, FlushFilesStep DEF WriterStep
  <2>2. CASE CallbackStep(w)
    BY <1>1, <2>2 DEF CallbackStep, CallbackReturns, CallbackAddKey, AddKey
  <2> QED BY <1>6, <2>1, <2>2
<1>7. CASE UNCHANGED vars
  BY <1>1, <1>7 DEF vars
<1> QED BY <1>3, <1>4, <1>5, <1>6, <1>7 DEF Next

--------------------------------------------------------------------------------
(* A writer's step is nobody else's: buffers, files and entries, writer by writer. *)

WriterAct(w) ==
    \/ \E b \in Blocks : AddKey(w, b, ctxDone)
    \/ FlushStep(w)
    \/ CloseWriter(w)

SameWriter(v) ==
    /\ bufs'[v] = bufs[v] /\ activeBuf'[v] = activeBuf[v] /\ flushBuf'[v] = flushBuf[v]
    /\ flushTodo'[v] = flushTodo[v] /\ flushErr'[v] = flushErr[v]
    /\ file'[v] = file[v] /\ cursors'[v] = cursors[v]
    /\ wpc'[v] = wpc[v] /\ pending'[v] = pending[v] /\ calls'[v] = calls[v]

(* Only the acting writer has an entry accepted. *)
LEMMA AcceptedBy ==
  ASSUME WriterTypeOK, BufferInv, NEW w \in Writers, WriterAct(w)
  PROVE  accepted' = accepted \/ \E e \in Entry : e.w = w /\ accepted' = accepted \cup {e}
<1>0. CallsOK
  BY TypeParts
<1>1. ASSUME NEW b \in Blocks, AddKey(w, b, ctxDone)
      PROVE  accepted' = accepted \/ \E e \in Entry : e.w = w /\ accepted' = accepted \cup {e}
  <2>1. PICK e \in Entry : e = [w |-> w, call |-> calls[w] + 1, block |-> b]
    BY <1>0, NewEntry
  <2>2. accepted' = accepted \/ accepted' = accepted \cup {e}
    BY <1>1, <2>1 DEF AddKey, Store, Accept
  <2> QED BY <2>1, <2>2
<1>2. CASE Flush(w)
  <2>1. pending[w] \in Entry /\ pending[w].w = w
    BY <1>2 DEF Flush, BufferInv
  <2>2. accepted' = accepted \/ accepted' = accepted \cup {pending[w]}
    BY <1>2 DEF Flush, Store, Accept
  <2> QED BY <2>1, <2>2
<1>3. CASE FlushFails(w) \/ FlushPartition(w) \/ FlushAll(w) \/ FlushAllDone(w) \/ CloseWriter(w)
  BY <1>3 DEF FlushFails, FlushPartition, FlushAll, FlushAllDone, CloseWriter
<1> QED BY <1>1, <1>2, <1>3 DEF WriterAct, FlushStep

LEMMA StoreOthers ==
  ASSUME BufsOK, CallsOK, NEW w \in Writers, NEW v \in Writers, v # w, NEW e, NEW i, NEW buf,
         Store(w, e, i, buf)
  PROVE  bufs'[v] = bufs[v] /\ wpc'[v] = wpc[v] /\ pending'[v] = pending[v]
<1>1. bufs'[v] = bufs[v]
  BY DEF Store, BufsOK
<1>2. wpc'[v] = wpc[v] /\ pending'[v] = pending[v]
  BY DEF Store, Accept, CallsOK
<1> QED BY <1>1, <1>2

LEMMA OthersSame ==
  ASSUME WriterTypeOK, NEW w \in Writers, WriterAct(w), NEW v \in Writers, v # w
  PROVE  SameWriter(v)
<1>0. BufsOK /\ LensOK /\ FlushOK /\ DiskOK /\ CallsOK
  BY TypeParts
<1>1. ASSUME NEW b \in Blocks, AddKey(w, b, ctxDone) PROVE SameWriter(v)
  <2>1. UNCHANGED <<activeBuf, flushBuf, flushTodo, flushErr, file, cursors>> /\ calls'[v] = calls[v]
    BY <1>0, <1>1 DEF AddKey, CallsOK
  <2>2. bufs'[v] = bufs[v] /\ wpc'[v] = wpc[v] /\ pending'[v] = pending[v]
    <3>1. CASE UNCHANGED <<bufs, wpc, pending>>
      BY <3>1
    <3>2. ASSUME NEW e, NEW i, NEW buf, Store(w, e, i, buf)
          PROVE  bufs'[v] = bufs[v] /\ wpc'[v] = wpc[v] /\ pending'[v] = pending[v]
      BY <1>0, <3>2, StoreOthers
    <3>3. ASSUME NEW e, wpc' = [wpc EXCEPT ![w] = "region"], pending' = [pending EXCEPT ![w] = e],
                 UNCHANGED bufs
          PROVE  bufs'[v] = bufs[v] /\ wpc'[v] = wpc[v] /\ pending'[v] = pending[v]
      BY <1>0, <3>3 DEF CallsOK
    <3> QED BY <1>1, <3>1, <3>2, <3>3 DEF AddKey
  <2> QED BY <2>1, <2>2 DEF SameWriter
<1>2. CASE Flush(w)
  <2>1. /\ activeBuf'[v] = activeBuf[v] /\ flushBuf'[v] = flushBuf[v] /\ flushTodo'[v] = flushTodo[v]
        /\ UNCHANGED <<flushErr, file, cursors, calls>>
    BY <1>0, <1>2 DEF Flush, FlushOK
  <2>2. bufs'[v] = bufs[v] /\ wpc'[v] = wpc[v] /\ pending'[v] = pending[v]
    <3>1. ASSUME NEW e, NEW i, NEW buf, Store(w, e, i, buf)
          PROVE  bufs'[v] = bufs[v] /\ wpc'[v] = wpc[v] /\ pending'[v] = pending[v]
      BY <1>0, <3>1, StoreOthers
    <3>2. ASSUME NEW e, NEW i, bufs' = [bufs EXCEPT ![w][i] = Cleared(w)], Accept(w, e), UNCHANGED pending
          PROVE  bufs'[v] = bufs[v] /\ wpc'[v] = wpc[v] /\ pending'[v] = pending[v]
      BY <1>0, <3>2 DEF BufsOK, CallsOK, Accept
    <3> QED BY <1>2, <3>1, <3>2 DEF Flush
  <2> QED BY <2>1, <2>2 DEF SameWriter
<1>3. CASE FlushPartition(w)
  <2>1. UNCHANGED <<bufs, activeBuf, flushBuf, pending, calls>>
    BY <1>3 DEF FlushPartition
  <2>2. /\ flushTodo'[v] = flushTodo[v] /\ flushErr'[v] = flushErr[v] /\ wpc'[v] = wpc[v]
        /\ file'[v] = file[v] /\ cursors'[v] = cursors[v]
    <3>1. CASE FlushError(w) /\ UNCHANGED <<file, cursors>>
      BY <1>0, <3>1 DEF FlushError, FlushOK, CallsOK
    <3>2. ASSUME NEW f, NEW p, NEW n, file' = [file EXCEPT ![w] = f],
                 cursors' = [cursors EXCEPT ![w][p] = @ + n],
                 flushTodo' = [flushTodo EXCEPT ![w] = @ \ {p}], UNCHANGED <<flushErr, wpc>>
          PROVE  /\ flushTodo'[v] = flushTodo[v] /\ flushErr'[v] = flushErr[v] /\ wpc'[v] = wpc[v]
                 /\ file'[v] = file[v] /\ cursors'[v] = cursors[v]
      BY <1>0, <3>2 DEF FlushOK, DiskOK
    <3> QED BY <1>3, <3>1, <3>2 DEF FlushPartition
  <2> QED BY <2>1, <2>2 DEF SameWriter
<1>4. CASE FlushAll(w)
  BY <1>0, <1>4 DEF FlushAll, SameWriter, FlushOK, CallsOK
<1>5. CASE FlushFails(w) \/ FlushAllDone(w) \/ CloseWriter(w)
  BY <1>0, <1>5 DEF FlushFails, FlushAllDone, CloseWriter, SameWriter, CallsOK
<1> QED BY <1>1, <1>2, <1>3, <1>4, <1>5 DEF WriterAct, FlushStep

(* BufferInv, for one writer. *)
InRegion(buf) == \A p \in Partitions : \A k \in DOMAIN buf[p] : PartitionOf(buf[p][k].block) = p
BuffersApart(w) == ~FlushDone(w) => wpc[w] = "flushAll" \/ flushBuf[w] # activeBuf[w]
PendingOK(w) ==
    wpc[w] \in {"region", "cap"} =>
        pending[w] \in Entry /\ pending[w].w = w /\ pending[w].call = calls[w]

LEMMA BufferParts ==
  BufferInv <=> \A w \in Writers : /\ BuffersApart(w) /\ PendingOK(w)
                                   /\ \A i \in 0 .. 1 : InRegion(bufs[w][i])
BY DEF BufferInv, BuffersApart, PendingOK, InRegion

LEMMA BufferPartsNext ==
  BufferInv' <=> \A w \in Writers : /\ BuffersApart(w)' /\ PendingOK(w)'
                                    /\ \A i \in 0 .. 1 : InRegion(bufs'[w][i])
BY DEF BufferInv, BuffersApart, PendingOK, InRegion

LEMMA StoredInRegion ==
  ASSUME NEW e \in Entry, NEW buf \in Buffer, InRegion(buf)
  PROVE  InRegion(Stored(buf, e))
<1> SUFFICES ASSUME NEW p \in Partitions, NEW k \in DOMAIN Stored(buf, e)[p]
             PROVE  PartitionOf(Stored(buf, e)[p][k].block) = p
  BY DEF InRegion
<1>1. buf[p] \in Seq(Entry)
  BY DEF Buffer
<1>2. CASE p = PartitionOf(e.block)
  <2>1. Stored(buf, e)[p] = Append(buf[p], e)
    BY <1>2, EntryStored
  <2>2. CASE k \in 1 .. Len(buf[p])
    <3>1. Append(buf[p], e)[k] = buf[p][k] /\ k \in DOMAIN buf[p]
      BY <1>1, <2>2
    <3> QED BY <2>1, <3>1 DEF InRegion
  <2>3. CASE k = Len(buf[p]) + 1
    <3>1. Append(buf[p], e)[k] = e
      BY <1>1, <2>3
    <3> QED BY <1>2, <2>1, <3>1
  <2>4. k \in 1 .. Len(buf[p]) \/ k = Len(buf[p]) + 1
    BY <1>1, <2>1
  <2> QED BY <2>2, <2>3, <2>4
<1>3. CASE p # PartitionOf(e.block)
  BY <1>3, EntryStored DEF InRegion
<1> QED BY <1>2, <1>3

LEMMA NoEntriesInRegion == InRegion(NoEntries)
<1>1. \A p \in Partitions : DOMAIN NoEntries[p] = {}
  BY NoEntriesBuffer
<1> QED BY <1>1 DEF InRegion

LEMMA BufferActor ==
  ASSUME WriterTypeOK, BufferInv, NEW w \in Writers, WriterAct(w)
  PROVE  BuffersApart(w)' /\ PendingOK(w)' /\ \A i \in 0 .. 1 : InRegion(bufs'[w][i])
<1>0. /\ BufsOK /\ LensOK /\ FlushOK /\ DiskOK /\ CallsOK
      /\ BuffersApart(w) /\ PendingOK(w) /\ \A i \in 0 .. 1 : InRegion(bufs[w][i])
  BY TypeParts, BufferParts
<1>1. ASSUME NEW b \in Blocks, AddKey(w, b, ctxDone)
      PROVE  BuffersApart(w)' /\ PendingOK(w)' /\ \A i \in 0 .. 1 : InRegion(bufs'[w][i])
  <2>0. PICK e \in Entry : e = [w |-> w, call |-> calls[w] + 1, block |-> b]
    BY <1>0, NewEntry
  <2>1. /\ wpc[w] = "idle" /\ UNCHANGED <<activeBuf, flushBuf, flushTodo>>
        /\ calls' = [calls EXCEPT ![w] = @ + 1]
    BY <1>1 DEF AddKey
  <2>2. BuffersApart(w)'
    BY <1>0, <2>1 DEF BuffersApart, FlushDone
  <2>3. calls'[w] = calls[w] + 1 /\ e.call = calls'[w] /\ e.w = w
    BY <1>0, <2>0, <2>1 DEF CallsOK
  <2>4. CASE UNCHANGED <<bufs, wpc, pending>>
    BY <1>0, <2>1, <2>2, <2>4 DEF PendingOK
  <2>5. CASE Store(w, e, activeBuf[w], Active(w))
    <3>1. PICK i \in 0 .. 1, buf \in Buffer : i = activeBuf[w] /\ buf = bufs[w][i] /\ Active(w) = buf
      BY <1>0, ActiveBuffer DEF Active
    <3>2. /\ bufs'[w][i] = Stored(buf, e) /\ pending' = [pending EXCEPT ![w] = e]
          /\ \A j \in 0 .. 1 : j # i => bufs'[w][j] = bufs[w][j]
      BY <1>0, <2>5, <3>1, StoreEffect
    <3>3. InRegion(bufs'[w][i])
      BY <1>0, <3>1, <3>2, StoredInRegion
    <3>4. \A j \in 0 .. 1 : InRegion(bufs'[w][j])
      BY <1>0, <3>2, <3>3
    <3>5. PendingOK(w)'
      BY <1>0, <2>3, <3>2 DEF PendingOK, CallsOK
    <3> QED BY <2>2, <3>4, <3>5
  <2>6. CASE UNCHANGED bufs /\ pending' = [pending EXCEPT ![w] = e]
    <3>1. PendingOK(w)'
      BY <1>0, <2>3, <2>6 DEF PendingOK, CallsOK
    <3> QED BY <1>0, <2>2, <2>6, <3>1
  <2> QED BY <1>1, <2>0, <2>4, <2>5, <2>6 DEF AddKey
<1>2. CASE Flush(w)
  <2>0. PICK e \in Entry : e = pending[w] /\ e.w = w /\ e.call = calls[w]
    BY <1>0, <1>2 DEF Flush, PendingOK
  <2>1. PICK n \in 0 .. 1 : n = 1 - activeBuf[w] /\ n # activeBuf[w]
    BY <1>0, ActiveBuffer
  <2>2. /\ activeBuf'[w] = n /\ flushBuf'[w] = activeBuf[w] /\ calls' = calls
    BY <1>0, <1>2, <2>1 DEF Flush, FlushOK
  <2>3. BuffersApart(w)'
    BY <2>1, <2>2 DEF BuffersApart
  <2>4. CASE Store(w, e, n, NoEntries)
    <3>1. NoEntries \in Buffer /\ InRegion(NoEntries)
      BY NoEntriesBuffer, NoEntriesInRegion
    <3>2. /\ bufs'[w][n] = Stored(NoEntries, e) /\ pending' = [pending EXCEPT ![w] = e]
          /\ \A j \in 0 .. 1 : j # n => bufs'[w][j] = bufs[w][j]
      BY <1>0, <2>4, <3>1, StoreEffect
    <3>3. InRegion(bufs'[w][n])
      BY <3>1, <3>2, StoredInRegion
    <3>4. \A j \in 0 .. 1 : InRegion(bufs'[w][j])
      BY <1>0, <3>2, <3>3
    <3>5. PendingOK(w)'
      BY <1>0, <2>0, <2>2, <3>2 DEF PendingOK, CallsOK
    <3> QED BY <2>3, <3>4, <3>5
  <2>5. CASE bufs' = [bufs EXCEPT ![w][n] = NoEntries] /\ UNCHANGED pending
    <3>1. bufs'[w][n] = NoEntries /\ \A j \in 0 .. 1 : j # n => bufs'[w][j] = bufs[w][j]
      BY <1>0, <2>5 DEF BufsOK
    <3>2. \A j \in 0 .. 1 : InRegion(bufs'[w][j])
      BY <1>0, <3>1, NoEntriesInRegion
    <3>3. PendingOK(w)'
      BY <2>0, <2>2, <2>5 DEF PendingOK
    <3> QED BY <2>3, <3>2, <3>3
  <2> QED BY <1>2, <2>0, <2>1, <2>4, <2>5 DEF Flush, Cleared
<1>3. ASSUME FlushStep(w) \/ CloseWriter(w), ~Flush(w)
      PROVE  BuffersApart(w)' /\ PendingOK(w)' /\ \A i \in 0 .. 1 : InRegion(bufs'[w][i])
  <2>1. UNCHANGED <<bufs, pending, calls, activeBuf>>
    BY <1>3 DEF FlushStep, FlushFails, FlushPartition, FlushAll, FlushAllDone, CloseWriter
  <2>2. wpc'[w] \in {"region", "cap"} => wpc[w] = wpc'[w]
    BY <1>0, <1>3 DEF FlushStep, FlushFails, FlushPartition, FlushError, FlushAll, FlushAllDone,
       CloseWriter, CallsOK
  <2>3. PendingOK(w)'
    BY <1>0, <2>1, <2>2 DEF PendingOK
  <2>4. CASE FlushPartition(w)
    <3>1. flushBuf' = flushBuf /\ ~FlushDone(w)
      BY <2>4 DEF FlushPartition
    <3>2. flushTodo'[w] = {} \/ wpc'[w] = wpc[w]
      BY <1>0, <2>4 DEF FlushPartition, FlushError, FlushOK
    <3>3. BuffersApart(w)'
      BY <1>0, <2>1, <3>1, <3>2 DEF BuffersApart, FlushDone
    <3> QED BY <1>0, <2>1, <2>3, <3>3
  <2>5. CASE FlushFails(w) \/ FlushAllDone(w)
    <3>1. FlushDone(w)'
      BY <2>5 DEF FlushFails, FlushAllDone, FlushDone
    <3> QED BY <1>0, <2>1, <2>3, <3>1 DEF BuffersApart
  <2>6. CASE CloseWriter(w)
    <3>1. BuffersApart(w)'
      BY <1>0, <2>6 DEF CloseWriter, BuffersApart, FlushDone
    <3> QED BY <1>0, <2>1, <2>3, <3>1
  <2>7. CASE FlushAll(w)
    <3>1. FlushDone(w)' \/ wpc'[w] = "flushAll"
      BY <1>0, <2>7 DEF FlushAll, FlushDone, CallsOK
    <3> QED BY <1>0, <2>1, <2>3, <3>1 DEF BuffersApart
  <2> QED BY <1>3, <2>4, <2>5, <2>6, <2>7 DEF FlushStep
<1> QED BY <1>1, <1>2, <1>3 DEF WriterAct

LEMMA BufferStep ==
  ASSUME WriterTypeOK, BufferInv, WritersStep
  PROVE  BufferInv'
<1>1. ASSUME NEW w \in Writers, WriterAct(w) PROVE BufferInv'
  <2>1. ASSUME NEW v \in Writers, v # w
        PROVE  BuffersApart(v)' /\ PendingOK(v)' /\ \A i \in 0 .. 1 : InRegion(bufs'[v][i])
    <3>1. SameWriter(v)
      BY <1>1, <2>1, OthersSame
    <3> QED BY <3>1, BufferParts DEF SameWriter, BuffersApart, PendingOK, FlushDone
  <2> QED BY <1>1, <2>1, BufferActor, BufferPartsNext
<1>2. CASE UNCHANGED writeVars
  BY <1>2 DEF writeVars, BufferInv, FlushDone
<1> QED BY <1>1, <1>2 DEF WritersStep, WriterAct

(* While doFlush runs, the buffer it encodes stays as it is. *)
LEMMA FlushedBufferKept ==
  ASSUME WriterTypeOK, BufferInv, WritersStep, NEW v \in Writers, ~FlushDone(v)
  PROVE  bufs'[v][flushBuf[v]] = bufs[v][flushBuf[v]]
<1>0. BufsOK /\ FlushOK /\ CallsOK /\ flushBuf[v] \in 0 .. 1 /\ BuffersApart(v)
  BY TypeParts, BufferParts DEF FlushOK
<1>1. ASSUME NEW w \in Writers, WriterAct(w), w # v PROVE bufs'[v][flushBuf[v]] = bufs[v][flushBuf[v]]
  BY <1>1, OthersSame DEF SameWriter
<1>2. ASSUME NEW b \in Blocks, AddKey(v, b, ctxDone) PROVE bufs'[v][flushBuf[v]] = bufs[v][flushBuf[v]]
  <2>1. flushBuf[v] # activeBuf[v]
    BY <1>0, <1>2 DEF AddKey, BuffersApart
  <2>2. CASE UNCHANGED bufs
    BY <2>2
  <2>3. ASSUME NEW e \in Entry, Store(v, e, activeBuf[v], Active(v))
        PROVE  bufs'[v][flushBuf[v]] = bufs[v][flushBuf[v]]
    BY <1>0, <2>1, <2>3, StoreEffect, ActiveBuffer
  <2>4. [w |-> v, call |-> calls[v] + 1, block |-> b] \in Entry
    BY <1>0, NewEntry
  <2> QED BY <1>2, <2>2, <2>3, <2>4 DEF AddKey
<1>3. CASE FlushStep(v) \/ CloseWriter(v)
  BY <1>3 DEF FlushStep, Flush, FlushReady, FlushFails, FlushPartition, FlushAll, FlushAllDone,
     CloseWriter
<1>4. CASE UNCHANGED writeVars
  BY <1>4 DEF writeVars
<1> QED BY <1>1, <1>2, <1>3, <1>4 DEF WritersStep, WriterAct

--------------------------------------------------------------------------------
(* The regions of the files. *)

(* FileInv, for one writer. *)
CursorsOK(w) == \A p \in Partitions : cursors[w][p] <= regionEntries
CellsOK(w) ==
    \A i \in DOMAIN file[w] : file[w][i] # NoEntry => PartitionOf(file[w][i].block) = i \div regionEntries
WrittenOK(w) ==
    \A p \in Partitions : \A k \in 0 .. cursors[w][p] - 1 : file[w][p * regionEntries + k] \in Entry

LEMMA FileParts ==
  FileInv <=> \A w \in Writers : CursorsOK(w) /\ CellsOK(w) /\ WrittenOK(w)
BY DEF FileInv, RegionsHoldTheirPartition, CursorsOK, CellsOK, WrittenOK

LEMMA FilePartsNext ==
  FileInv' <=> \A w \in Writers : CursorsOK(w)' /\ CellsOK(w)' /\ WrittenOK(w)'
BY DEF FileInv, RegionsHoldTheirPartition, CursorsOK, CellsOK, WrittenOK

(* Of the n + m cells partition p has now, the last m hold the entries; the other regions
   are as they were. *)
RegionGrew(w, p, entries, n, m) ==
    /\ n + m <= regionEntries
    /\ cursors'[w][p] = n + m
    /\ \A q \in Partitions \ {p} : cursors'[w][q] = cursors[w][q]
    /\ \A k \in 0 .. n - 1 : file'[w][p * regionEntries + k] = file[w][p * regionEntries + k]
    /\ \A k \in 1 .. m : file'[w][p * regionEntries + (n + k - 1)] = entries[k]
    /\ \A q \in Partitions \ {p}, k \in 0 .. regionEntries - 1 :
          file'[w][q * regionEntries + k] = file[w][q * regionEntries + k]
    /\ DOMAIN file'[w] = Cells
    /\ \A c \in Cells : \/ file'[w][c] = file[w][c]
                        \/ /\ c \div regionEntries = p
                           /\ \E k \in 1 .. m : file'[w][c] = entries[k]

LEMMA WroteEffect ==
  ASSUME DiskOK, NEW w \in Writers, NEW p \in Partitions, NEW entries \in Seq(Entry),
         Wrote(w, p, entries), CursorsOK(w),
         NEW n \in Nat, n = cursors[w][p], NEW m \in Nat, m = Len(entries)
  PROVE  RegionGrew(w, p, entries, n, m)
<1>1. n + m <= regionEntries
  BY DEF Wrote
<1>2. /\ cursors'[w][p] = n + m
      /\ \A q \in Partitions \ {p} : cursors'[w][q] = cursors[w][q]
  BY DEF Wrote, DiskOK
<1>3. PICK f : f = FileWith(w, p, entries)
  OBVIOUS
<1>4. file'[w] = f
  BY <1>3 DEF Wrote, DiskOK
<1>5. RegionFilled(f, file[w], p, entries, n, m)
  BY <1>1, <1>3, FileWritten
<1>6. DOMAIN f = Cells
  BY <1>5 DEF RegionFilled
<1> QED BY ONLY <1>1, <1>2, <1>4, <1>5, <1>6 DEF RegionGrew, RegionFilled

LEMMA WroteFile ==
  ASSUME DiskOK, NEW w \in Writers, NEW p \in Partitions, NEW entries \in Seq(Entry),
         Wrote(w, p, entries), CursorsOK(w), CellsOK(w), WrittenOK(w),
         \A k \in DOMAIN entries : PartitionOf(entries[k].block) = p
  PROVE  CursorsOK(w)' /\ CellsOK(w)' /\ WrittenOK(w)'
<1>0. PICK n \in Nat : n = cursors[w][p]
  BY DEF DiskOK
<1>1. PICK m \in Nat : m = Len(entries) /\ DOMAIN entries = 1 .. m
  OBVIOUS
<1>2. RegionGrew(w, p, entries, n, m)
  BY <1>0, <1>1, WroteEffect
<1>3. CursorsOK(w)'
  BY <1>2 DEF RegionGrew, CursorsOK
<1>4. CellsOK(w)'
  <2> SUFFICES ASSUME NEW c \in Cells, file'[w][c] # NoEntry
               PROVE  PartitionOf(file'[w][c].block) = c \div regionEntries
    BY <1>2 DEF RegionGrew, CellsOK
  <2>1. CASE file'[w][c] = file[w][c]
    <3>1. c \in DOMAIN file[w]
      BY DEF DiskOK, Cells
    <3> QED BY <2>1, <3>1 DEF CellsOK
  <2>2. ASSUME NEW k \in 1 .. m, file'[w][c] = entries[k], c \div regionEntries = p
        PROVE  PartitionOf(file'[w][c].block) = c \div regionEntries
    BY <1>1, <2>2
  <2> QED BY <1>2, <2>1, <2>2 DEF RegionGrew
<1>5. WrittenOK(w)'
  <2> SUFFICES ASSUME NEW q \in Partitions, NEW k \in 0 .. cursors'[w][q] - 1
               PROVE  file'[w][q * regionEntries + k] \in Entry
    BY DEF WrittenOK
  <2>1. CASE q # p
    <3>0. cursors[w][q] \in Nat /\ regionEntries \in Nat
      BY ConstantTypes DEF DiskOK
    <3>1. cursors[w][q] \in Nat /\ cursors[w][q] <= regionEntries /\ regionEntries \in Nat
          /\ cursors'[w][q] = cursors[w][q]
      BY <1>2, <2>1, <3>0 DEF RegionGrew, CursorsOK
    <3>2. k \in 0 .. regionEntries - 1 /\ k \in 0 .. cursors[w][q] - 1
      BY <3>1
    <3>3. file'[w][q * regionEntries + k] = file[w][q * regionEntries + k]
      BY <1>2, <2>1, <3>2 DEF RegionGrew
    <3> QED BY <3>2, <3>3 DEF WrittenOK
  <2>2. CASE q = p /\ k < n
    <3>1. k \in 0 .. n - 1
      BY <1>2, <2>2 DEF RegionGrew
    <3> QED BY <1>0, <1>2, <2>2, <3>1 DEF RegionGrew, WrittenOK
  <2>3. CASE q = p /\ ~(k < n)
    <3>1. PICK l \in 1 .. m : k = n + l - 1
      <4>1. k \in 0 .. (n + m) - 1
        BY <1>2, <2>3 DEF RegionGrew
      <4>2. k - n + 1 \in 1 .. m /\ k = n + (k - n + 1) - 1
        BY ONLY <2>3, <4>1, n \in Nat, m \in Nat
      <4> QED BY <4>2
    <3>2. file'[w][p * regionEntries + k] = entries[l]
      BY <1>2, <3>1 DEF RegionGrew
    <3>3. entries[l] \in Entry
      BY <1>1
    <3> QED BY <2>3, <3>2, <3>3
  <2> QED BY <2>1, <2>2, <2>3
<1> QED BY <1>3, <1>4, <1>5

(* What FlushPartition does, in these terms. *)
LEMMA FlushPartitionWrites ==
  ASSUME WriterTypeOK, BufferInv, NEW w \in Writers, FlushPartition(w)
  PROVE  \/ FlushError(w) /\ UNCHANGED <<file, cursors>>
         \/ \E p \in flushTodo[w], entries \in Seq(Entry) :
              /\ p \in Partitions /\ entries = bufs[w][flushBuf[w]][p]
              /\ \A k \in DOMAIN entries : PartitionOf(entries[k].block) = p
              /\ Wrote(w, p, entries)
              /\ flushTodo' = [flushTodo EXCEPT ![w] = @ \ {p}]
              /\ UNCHANGED <<flushErr, wpc>>
<1>1. PICK p \in Partitions, entries \in Seq(Entry) :
           p \in flushTodo[w] /\ entries = bufs[w][flushBuf[w]][p] /\ Visited(w, p, entries)
  BY FlushPartitionCases
<1>3. flushBuf[w] \in 0 .. 1
  BY DEF WriterTypeOK
<1>4. \A k \in DOMAIN entries : PartitionOf(entries[k].block) = p
  BY <1>1, <1>3, BufferParts DEF InRegion
<1> QED BY <1>1, <1>4 DEF Visited

LEMMA FileStep ==
  ASSUME WriterTypeOK, BufferInv, FileInv, WritersStep
  PROVE  FileInv'
<1>0. DiskOK
  BY TypeParts
<1>1. CASE UNCHANGED <<file, cursors>>
  BY <1>1 DEF FileInv, RegionsHoldTheirPartition
<1>2. ASSUME NEW w \in Writers, NEW p \in Partitions, NEW entries \in Seq(Entry),
             \A k \in DOMAIN entries : PartitionOf(entries[k].block) = p,
             Wrote(w, p, entries), WriterAct(w)
      PROVE  FileInv'
  <2>1. CursorsOK(w)' /\ CellsOK(w)' /\ WrittenOK(w)'
    BY <1>0, <1>2, FileParts, WroteFile
  <2>2. ASSUME NEW v \in Writers, v # w PROVE CursorsOK(v)' /\ CellsOK(v)' /\ WrittenOK(v)'
    <3>1. file'[v] = file[v] /\ cursors'[v] = cursors[v]
      BY <1>2, <2>2, OthersSame DEF SameWriter
    <3> QED BY <3>1, FileParts DEF CursorsOK, CellsOK, WrittenOK
  <2> QED BY <2>1, <2>2, FilePartsNext
<1>3. ASSUME NEW w \in Writers, FlushPartition(w) PROVE FileInv'
  <2>1. WriterAct(w)
    BY <1>3 DEF WriterAct, FlushStep
  <2> QED BY <1>1, <1>2, <1>3, <2>1, FlushPartitionWrites
<1>4. ASSUME NEW w \in Writers, Flush(w) \/ FlushFails(w) \/ FlushAll(w) \/ FlushAllDone(w) \/ CloseWriter(w)
      PROVE  FileInv'
  BY <1>1, <1>4 DEF Flush, FlushFails, FlushAll, FlushAllDone, CloseWriter
<1>5. ASSUME NEW w \in Writers, NEW b \in Blocks, AddKey(w, b, ctxDone) PROVE FileInv'
  BY <1>1, <1>5 DEF AddKey
<1>6. CASE UNCHANGED writeVars
  BY <1>1, <1>6 DEF writeVars
<1> QED BY <1>3, <1>4, <1>5, <1>6 DEF WritersStep, FlushStep

--------------------------------------------------------------------------------
(* The entries a writer holds. *)

Flushing(w, p) == IF p \in flushTodo[w] THEN bufs[w][flushBuf[w]][p] ELSE <<>>
Buffered(w, p) == IF wpc[w] \in {"flushAll", "done"} THEN <<>> ELSE Active(w)[p]

LEMMA HeldIs == \A w, p : Held(w, p) = (Region(w, p) \o Flushing(w, p)) \o Buffered(w, p)
BY DEF Held, Flushing, Buffered

LEMMA HeldIsNext ==
  ASSUME NEW w \in Writers, NEW p \in Partitions
  PROVE  Held(w, p)' = (Region(w, p)' \o Flushing(w, p)') \o Buffered(w, p)'
BY DEF Held, Flushing, Buffered

LEMMA RegionSeq ==
  ASSUME DiskOK, NEW w \in Writers, WrittenOK(w), NEW p \in Partitions
  PROVE  /\ Region(w, p) \in Seq(Entry) /\ Len(Region(w, p)) = cursors[w][p]
         /\ \A i \in 1 .. cursors[w][p] : Region(w, p)[i] = file[w][p * regionEntries + (i - 1)]
<1>1. PICK n \in Nat : n = cursors[w][p]
  BY DEF DiskOK
<1>2. PICK a \in Nat : a = p * regionEntries
  BY ConstantTypes
<1>3. PICK f : f = file[w]
  OBVIOUS
<1>4. PICK s : s = Region(w, p)
  OBVIOUS
<1>5. s = [i \in 1 .. n |-> f[a + i - 1]] /\ \A k \in 0 .. n - 1 : f[a + k] \in Entry
  BY <1>1, <1>2, <1>3, <1>4 DEF Region, WrittenOK
<1>6. s \in Seq(Entry) /\ Len(s) = n /\ \A i \in 1 .. n : s[i] = f[a + (i - 1)]
  <2>1. ASSUME NEW i \in 1 .. n PROVE a + i - 1 = a + (i - 1) /\ i - 1 \in 0 .. n - 1
    BY ONLY a \in Nat, n \in Nat, i \in 1 .. n
  <2>2. ASSUME NEW i \in 1 .. n PROVE s[i] = f[a + (i - 1)] /\ s[i] \in Entry
    BY <1>5, <2>1
  <2>3. s \in Seq(Entry)
    BY <1>5, <2>2, IsASeq
  <2>4. Len(s) = n
    BY <1>5, <2>3
  <2> QED BY <2>2, <2>3, <2>4
<1> QED BY <1>1, <1>2, <1>3, <1>4, <1>6

LEMMA RegionSeqNext ==
  ASSUME DiskOK', NEW w \in Writers, WrittenOK(w)', NEW p \in Partitions
  PROVE  /\ Region(w, p)' \in Seq(Entry) /\ Len(Region(w, p)') = cursors'[w][p]
         /\ \A i \in 1 .. cursors'[w][p] : Region(w, p)'[i] = file'[w][p * regionEntries + (i - 1)]
<1>1. PICK n \in Nat : n = cursors'[w][p]
  BY DEF DiskOK
<1>2. PICK a \in Nat : a = p * regionEntries
  BY ConstantTypes
<1>3. PICK f : f = file'[w]
  OBVIOUS
<1>4. PICK s : s = Region(w, p)'
  OBVIOUS
<1>5. s = [i \in 1 .. n |-> f[a + i - 1]] /\ \A k \in 0 .. n - 1 : f[a + k] \in Entry
  BY <1>1, <1>2, <1>3, <1>4 DEF Region, WrittenOK
<1>6. s \in Seq(Entry) /\ Len(s) = n /\ \A i \in 1 .. n : s[i] = f[a + (i - 1)]
  <2>1. ASSUME NEW i \in 1 .. n PROVE a + i - 1 = a + (i - 1) /\ i - 1 \in 0 .. n - 1
    BY ONLY a \in Nat, n \in Nat, i \in 1 .. n
  <2>2. ASSUME NEW i \in 1 .. n PROVE s[i] = f[a + (i - 1)] /\ s[i] \in Entry
    BY <1>5, <2>1
  <2>3. s \in Seq(Entry)
    BY <1>5, <2>2, IsASeq
  <2>4. Len(s) = n
    BY <1>5, <2>3
  <2> QED BY <2>2, <2>3, <2>4
<1> QED BY <1>1, <1>2, <1>3, <1>4, <1>6

LEMMA HeldTypes ==
  ASSUME WriterTypeOK, FileInv, NEW w \in Writers, NEW p \in Partitions
  PROVE  /\ Region(w, p) \in Seq(Entry) /\ Flushing(w, p) \in Seq(Entry)
         /\ Buffered(w, p) \in Seq(Entry) /\ Held(w, p) \in Seq(Entry)
<1>1. Region(w, p) \in Seq(Entry)
  BY RegionSeq, TypeParts, FileParts
<1>2. Flushing(w, p) \in Seq(Entry)
  BY DEF Flushing, WriterTypeOK
<1>3. Buffered(w, p) \in Seq(Entry)
  BY DEF Buffered, Active, WriterTypeOK
<1>4. Held(w, p) \in Seq(Entry)
  BY <1>1, <1>2, <1>3, HeldIs, ConcatProperties
<1> QED BY <1>1, <1>2, <1>3, <1>4

LEMMA RegionWrote ==
  ASSUME DiskOK, NEW w \in Writers, NEW p \in Partitions, NEW entries \in Seq(Entry),
         Wrote(w, p, entries), CursorsOK(w), WrittenOK(w), DiskOK', WrittenOK(w)'
  PROVE  /\ Region(w, p)' = Region(w, p) \o entries
         /\ \A q \in Partitions \ {p} : Region(w, q)' = Region(w, q)
<1>0. PICK n \in Nat, m \in Nat : n = cursors[w][p] /\ m = Len(entries)
  BY DEF DiskOK
<1>1. RegionGrew(w, p, entries, n, m)
  BY <1>0, WroteEffect
<1>2. PICK r \in Seq(Entry) : r = Region(w, p)
  BY RegionSeq
<1>3. Len(r) = n /\ \A i \in 1 .. n : r[i] = file[w][p * regionEntries + (i - 1)]
  BY <1>0, <1>2, RegionSeq
<1>4. ASSUME NEW q \in Partitions
      PROVE  /\ Region(w, q)' \in Seq(Entry) /\ Len(Region(w, q)') = cursors'[w][q]
             /\ \A i \in 1 .. cursors'[w][q] : Region(w, q)'[i] = file'[w][q * regionEntries + (i - 1)]
  BY RegionSeqNext
<1>5. PICK t \in Seq(Entry) : t = Region(w, p)'
  BY <1>4
<1>6. Len(t) = n + m /\ \A i \in 1 .. n + m : t[i] = file'[w][p * regionEntries + (i - 1)]
  BY <1>1, <1>4, <1>5 DEF RegionGrew
<1>7. PICK u \in Seq(Entry) : u = r \o entries
  BY ConcatProperties
<1>8. Len(u) = n + m /\ \A i \in 1 .. n + m : u[i] = IF i <= n THEN r[i] ELSE entries[i - n]
  <2>1. /\ Len(r \o entries) = Len(r) + Len(entries)
        /\ \A i \in 1 .. Len(r) + Len(entries) :
              (r \o entries)[i] = IF i <= Len(r) THEN r[i] ELSE entries[i - Len(r)]
    BY ONLY ConcatProperties, r \in Seq(Entry), entries \in Seq(Entry)
  <2>2. Len(r) = n /\ Len(entries) = m
    BY <1>0, <1>3
  <2> QED BY ONLY <1>7, <2>1, <2>2
<1>9. ASSUME NEW i \in 1 .. n + m PROVE t[i] = u[i]
  <2>1. CASE i <= n
    <3>1. i \in 1 .. n /\ i - 1 \in 0 .. n - 1
      BY <2>1
    <3>2. file'[w][p * regionEntries + (i - 1)] = file[w][p * regionEntries + (i - 1)]
      BY <1>1, <3>1 DEF RegionGrew
    <3> QED BY <1>3, <1>6, <1>8, <2>1, <3>1, <3>2
  <2>2. CASE ~(i <= n)
    <3>1. PICK k \in 1 .. m : k = i - n /\ i - 1 = n + k - 1
      BY <2>2
    <3>2. file'[w][p * regionEntries + (n + k - 1)] = entries[k]
      BY <1>1 DEF RegionGrew
    <3> QED BY <1>6, <1>8, <2>2, <3>1, <3>2
  <2> QED BY <2>1, <2>2
<1>10. t = u
  BY <1>6, <1>8, <1>9, SeqEqual
<1>11. ASSUME NEW q \in Partitions \ {p} PROVE Region(w, q)' = Region(w, q)
  <2>1. PICK x \in Seq(Entry), y \in Seq(Entry) : x = Region(w, q) /\ y = Region(w, q)'
    BY <1>4, RegionSeq
  <2>2. PICK c \in Nat : c = cursors[w][q] /\ c = cursors'[w][q] /\ c <= regionEntries
    <3>1. cursors[w][q] \in Nat
      BY DEF DiskOK
    <3>2. cursors'[w][q] = cursors[w][q] /\ cursors[w][q] <= regionEntries
      BY <1>1 DEF RegionGrew, CursorsOK
    <3> QED BY <3>1, <3>2
  <2>3. Len(x) = c /\ \A i \in 1 .. c : x[i] = file[w][q * regionEntries + (i - 1)]
    <3>1. /\ Len(Region(w, q)) = cursors[w][q]
          /\ \A i \in 1 .. cursors[w][q] : Region(w, q)[i] = file[w][q * regionEntries + (i - 1)]
      BY RegionSeq
    <3> QED BY <2>1, <2>2, <3>1
  <2>4. Len(y) = c /\ \A i \in 1 .. c : y[i] = file'[w][q * regionEntries + (i - 1)]
    BY <1>4, <2>1, <2>2
  <2>5. regionEntries \in Nat
    BY ConstantTypes
  <2>6. ASSUME NEW i \in 1 .. c PROVE x[i] = y[i]
    <3>1. i - 1 \in 0 .. regionEntries - 1
      BY ONLY <2>2, <2>5, c \in Nat, i \in 1 .. c
    <3>2. file'[w][q * regionEntries + (i - 1)] = file[w][q * regionEntries + (i - 1)]
      BY <1>1, <3>1 DEF RegionGrew
    <3> QED BY <2>3, <2>4, <3>2
  <2> QED BY <2>1, <2>3, <2>4, <2>6, SeqEqual
<1> QED BY <1>2, <1>5, <1>7, <1>10, <1>11

LEMMA ToSetAppend ==
  ASSUME NEW s \in Seq(Entry), NEW e \in Entry
  PROVE  ToSet(Append(s, e)) = ToSet(s) \cup {e}
<1>1. /\ Len(Append(s, e)) = Len(s) + 1 /\ Append(s, e) \in Seq(Entry)
      /\ \A i \in 1 .. Len(s) : Append(s, e)[i] = s[i]
      /\ Append(s, e)[Len(s) + 1] = e
  BY AppendProperties
<1>2. DOMAIN s = 1 .. Len(s) /\ DOMAIN Append(s, e) = 1 .. Len(s) + 1 /\ Len(s) \in Nat
  BY <1>1
<1>3. ASSUME NEW x \in ToSet(s) PROVE x \in ToSet(Append(s, e))
  <2>1. PICK i \in 1 .. Len(s) : x = s[i]
    BY <1>2 DEF ToSet
  <2>2. x = Append(s, e)[i] /\ i \in 1 .. Len(s) + 1
    BY <1>1, <1>2, <2>1
  <2> QED BY <1>2, <2>2 DEF ToSet
<1>4. e \in ToSet(Append(s, e))
  <2>1. Len(s) + 1 \in 1 .. Len(s) + 1
    BY <1>2
  <2> QED BY <1>1, <1>2, <2>1 DEF ToSet
<1>5. ASSUME NEW x \in ToSet(Append(s, e)), x # e PROVE x \in ToSet(s)
  <2>1. PICK i \in 1 .. Len(s) + 1 : x = Append(s, e)[i]
    BY <1>2 DEF ToSet
  <2>2. i \in 1 .. Len(s)
    BY <1>1, <1>2, <1>5, <2>1
  <2> QED BY <1>1, <1>2, <2>1, <2>2 DEF ToSet
<1> QED BY <1>3, <1>4, <1>5

LEMMA IncreasingAppend ==
  ASSUME NEW s \in Seq(Entry), NEW e \in Entry, Increasing(s), \A x \in ToSet(s) : x.call < e.call
  PROVE  Increasing(Append(s, e))
<1>1. /\ Len(Append(s, e)) = Len(s) + 1
      /\ \A i \in 1 .. Len(s) : Append(s, e)[i] = s[i]
      /\ Append(s, e)[Len(s) + 1] = e
  BY AppendProperties
<1>2. PICK n \in Nat : n = Len(s) /\ DOMAIN s = 1 .. n
  OBVIOUS
<1> SUFFICES ASSUME NEW i \in 1 .. n PROVE Append(s, e)[i].call < Append(s, e)[i + 1].call
  <2>1. Len(Append(s, e)) - 1 = n
    BY ONLY <1>1, <1>2, n \in Nat
  <2> QED BY <2>1 DEF Increasing
<1>3. CASE i = n
  <2>1. s[n] \in ToSet(s)
    BY <1>2, <1>3 DEF ToSet
  <2> QED BY <1>1, <1>2, <1>3, <2>1
<1>4. CASE i # n
  <2>1. i \in 1 .. n - 1 /\ i + 1 \in 1 .. n
    BY ONLY <1>4, i \in 1 .. n, n \in Nat
  <2>2. s[i].call < s[i + 1].call
    BY <1>2, <2>1 DEF Increasing
  <2> QED BY <1>1, <1>2, <2>1, <2>2
<1> QED BY <1>3, <1>4

LEMMA LastCallType ==
  ASSUME CallsOK, NEW w \in Writers
  PROVE  lastCall(w) \in Int
BY DEF CallsOK, lastCall

LEMMA LastCallTypeNext ==
  ASSUME CallsOK', NEW w \in Writers
  PROVE  lastCall(w)' \in Int
BY DEF CallsOK, lastCall

LEMMA ToSetType ==
  ASSUME NEW h \in Seq(Entry)
  PROVE  \A e \in ToSet(h) : e \in Entry /\ e.call \in Nat
<1> SUFFICES ASSUME NEW e \in ToSet(h) PROVE e \in Entry /\ e.call \in Nat
  OBVIOUS
<1>1. PICK i \in DOMAIN h : e = h[i]
  BY DEF ToSet
<1>2. e \in Entry
  BY <1>1, ElementOfSeq
<1> QED BY <1>2 DEF Entry

LEMMA ExactlyLater ==
  ASSUME NEW h \in Seq(Entry), NEW S, NEW p, NEW l \in Int, NEW m \in Int, l <= m,
         HoldsExactly(h, S, p, l)
  PROVE  HoldsExactly(h, S, p, m)
<1>a. \A e \in ToSet(h) : e.call \in Nat
  BY ToSetType
<1>b. \A e \in ToSet(h) : e.call <= l
  BY DEF HoldsExactly
<1>1. \A e \in ToSet(h) : e.call \in Nat /\ e.call <= l
  BY <1>a, <1>b
<1>2. \A e \in ToSet(h) : e.call <= m
  BY ONLY <1>1, l \in Int, m \in Int, l <= m
<1> QED BY <1>2 DEF HoldsExactly

LEMMA ExactlyAppended ==
  ASSUME NEW h \in Seq(Entry), NEW S, NEW e \in Entry, NEW l \in Int, l < e.call,
         HoldsExactly(h, S, PartitionOf(e.block), l)
  PROVE  HoldsExactly(Append(h, e), S \cup {e}, PartitionOf(e.block), e.call)
<1> DEFINE p == PartitionOf(e.block)
<1>a. \A x \in ToSet(h) : x.call \in Nat
  BY ToSetType
<1>b. \A x \in ToSet(h) : x.call <= l
  BY DEF HoldsExactly
<1>1. \A x \in ToSet(h) : x.call \in Nat /\ x.call <= l
  BY <1>a, <1>b
<1>2. e.call \in Nat
  BY DEF Entry
<1>3. \A x \in ToSet(h) : x.call < e.call /\ x.call <= e.call
  BY ONLY <1>1, <1>2, l \in Int, l < e.call
<1>4. ToSet(Append(h, e)) = ToSet(h) \cup {e}
  BY ToSetAppend
<1>5. Increasing(Append(h, e))
  BY <1>3, IncreasingAppend DEF HoldsExactly
<1>6. {x \in S \cup {e} : PartitionOf(x.block) = p} = {x \in S : PartitionOf(x.block) = p} \cup {e}
  OBVIOUS
<1>7. ToSet(Append(h, e)) = {x \in S \cup {e} : PartitionOf(x.block) = p}
  BY <1>4, <1>6 DEF HoldsExactly
<1>8. e.call <= e.call
  BY <1>2
<1>9. \A x \in ToSet(Append(h, e)) : x.call <= e.call
  BY <1>3, <1>4, <1>8
<1> QED BY <1>5, <1>7, <1>9 DEF HoldsExactly

LEMMA ExactlyElsewhere ==
  ASSUME NEW h, NEW S, NEW p, NEW e, NEW l, p # PartitionOf(e.block), HoldsExactly(h, S, p, l)
  PROVE  HoldsExactly(h, S \cup {e}, p, l)
<1>1. {x \in S \cup {e} : PartitionOf(x.block) = p} = {x \in S : PartitionOf(x.block) = p}
  OBVIOUS
<1> QED BY <1>1 DEF HoldsExactly

(* The writer holds what it held. *)
LEMMA HeldKept ==
  ASSUME WriterTypeOK, WriterTypeOK', FileInv, NEW w \in Writers, HeldOK(w),
         \A p \in Partitions : Held(w, p)' = Held(w, p),
         Mine(w)' = Mine(w), lastCall(w) <= lastCall(w)'
  PROVE  HeldOK(w)'
<1>1. PICK l \in Int, m \in Int : l = lastCall(w) /\ m = lastCall(w)' /\ l <= m
  BY LastCallType, LastCallTypeNext, TypeParts, TypePartsNext
<1>2. ASSUME NEW p \in Partitions PROVE HoldsExactly(Held(w, p)', Mine(w)', p, lastCall(w)')
  <2>1. PICK h \in Seq(Entry) : h = Held(w, p)
    BY HeldTypes
  <2>2. HoldsExactly(h, Mine(w), p, l)
    BY <1>1, <2>1 DEF HeldOK
  <2>3. HoldsExactly(h, Mine(w), p, m)
    BY <1>1, <2>2, ExactlyLater
  <2> QED BY <1>1, <2>1, <2>3
<1> QED BY <1>2 DEF HeldOK

(* The writer holds one entry more, newer than the others. *)
LEMMA HeldAppended ==
  ASSUME WriterTypeOK, WriterTypeOK', FileInv, NEW w \in Writers, HeldOK(w), NEW e \in Entry,
         \A p \in Partitions : Held(w, p)' = IF p = PartitionOf(e.block)
                                               THEN Append(Held(w, p), e) ELSE Held(w, p),
         Mine(w)' = Mine(w) \cup {e}, lastCall(w) < e.call, lastCall(w)' = e.call
  PROVE  HeldOK(w)'
<1>1. PICK l \in Int, m \in Int : l = lastCall(w) /\ m = lastCall(w)' /\ l < m /\ m = e.call
  BY LastCallType, LastCallTypeNext, TypeParts, TypePartsNext
<1>0. l <= m
  BY <1>1
<1>2. ASSUME NEW p \in Partitions PROVE HoldsExactly(Held(w, p)', Mine(w)', p, lastCall(w)')
  <2>1. PICK h \in Seq(Entry) : h = Held(w, p)
    BY HeldTypes
  <2>2. HoldsExactly(h, Mine(w), p, l)
    BY <1>1, <2>1 DEF HeldOK
  <2>3. CASE p = PartitionOf(e.block)
    <3>1. HoldsExactly(Append(h, e), Mine(w) \cup {e}, p, e.call)
      BY <1>1, <2>2, <2>3, ExactlyAppended
    <3> QED BY <2>1, <2>3, <3>1
  <2>4. CASE p # PartitionOf(e.block)
    <3>1. HoldsExactly(h, Mine(w), p, m)
      BY <1>0, <2>2, ExactlyLater
    <3>2. HoldsExactly(h, Mine(w) \cup {e}, p, m)
      BY <2>4, <3>1, ExactlyElsewhere
    <3> QED BY <1>1, <2>1, <2>4, <3>2
  <2> QED BY <2>3, <2>4
<1> QED BY <1>2 DEF HeldOK

(* What a step that leaves the files alone does to the entries held. *)
LEMMA RegionKept ==
  ASSUME NEW w \in Writers, file'[w] = file[w], cursors'[w] = cursors[w], NEW p \in Partitions
  PROVE  Region(w, p)' = Region(w, p)
BY DEF Region

(* Moving the border between two parts of a sequence does not change it. *)
LEMMA BorderMoved ==
  ASSUME NEW r \in Seq(Entry), NEW s \in Seq(Entry), NEW t \in Seq(Entry)
  PROVE  /\ (r \o <<>>) \o s = (r \o s) \o <<>>
         /\ ((r \o s) \o <<>>) \o t = (r \o s) \o t
<1>1. r \o <<>> = r /\ r \o s \in Seq(Entry) /\ (r \o s) \o <<>> = r \o s
  BY ConcatProperties, ConcatEmptySeq
<1> QED BY <1>1

LEMMA AppendLast ==
  ASSUME NEW r \in Seq(Entry), NEW s \in Seq(Entry), NEW t \in Seq(Entry), NEW e \in Entry
  PROVE  (r \o s) \o Append(t, e) = Append((r \o s) \o t, e)
<1>1. PICK q \in Seq(Entry) : q = r \o s
  BY ConcatProperties
<1>2. q \o t \in Seq(Entry) /\ <<e>> \in Seq(Entry)
  BY ConcatProperties
<1>3. Append(t, e) = t \o <<e>> /\ Append(q \o t, e) = (q \o t) \o <<e>>
  BY <1>2, AppendIsConcat
<1>4. q \o (t \o <<e>>) = (q \o t) \o <<e>>
  BY <1>2, ConcatAssociative
<1> QED BY <1>1, <1>3, <1>4

LEMMA OwnEntry ==
  ASSUME NEW A, NEW w, NEW e, e.w = w
  PROVE  {x \in A \cup {e} : x.w = w} = {x \in A : x.w = w} \cup {e}
OBVIOUS

(* Only addKey's own entry is new among the entries of a writer. *)
LEMMA MineStored ==
  ASSUME CallsOK, NEW w \in Writers, NEW e \in Entry, e.w = w, wpc[w] \in {"idle", "region"},
         \/ wpc' = [wpc EXCEPT ![w] = "cap"] /\ pending' = [pending EXCEPT ![w] = e] /\ accepted' = accepted
         \/ wpc' = [wpc EXCEPT ![w] = "idle"] /\ accepted' = accepted \cup {e}
  PROVE  Mine(w)' = Mine(w) \cup {e}
<1>1. Waiting(w) = {} /\ Mine(w) = {x \in accepted : x.w = w}
  BY DEF Waiting, Mine
<1>2. CASE wpc' = [wpc EXCEPT ![w] = "cap"] /\ pending' = [pending EXCEPT ![w] = e] /\ accepted' = accepted
  <2>1. Waiting(w)' = {e}
    BY <1>2 DEF Waiting, CallsOK
  <2>2. Mine(w)' = {x \in accepted \cup {e} : x.w = w}
    BY <1>2, <2>1 DEF Mine
  <2> QED BY <1>1, <2>2, OwnEntry
<1>3. CASE wpc' = [wpc EXCEPT ![w] = "idle"] /\ accepted' = accepted \cup {e}
  <2>1. Waiting(w)' = {}
    BY <1>3 DEF Waiting, CallsOK
  <2>2. Mine(w)' = {x \in accepted \cup {e} : x.w = w}
    BY <1>3, <2>1 DEF Mine
  <2> QED BY <1>1, <2>2, OwnEntry
<1> QED BY <1>2, <1>3

LEMMA AddKeyHeld ==
  ASSUME WriterTypeOK, WriterTypeOK', BufferInv, FileInv, NEW w \in Writers, HeldOK(w),
         NEW b \in Blocks, AddKey(w, b, ctxDone)
  PROVE  HeldOK(w)'
<1>0. BufsOK /\ LensOK /\ FlushOK /\ DiskOK /\ CallsOK /\ BuffersApart(w)
  BY TypeParts, BufferParts
<1>1. PICK e \in Entry : e = [w |-> w, call |-> calls[w] + 1, block |-> b]
  BY <1>0, NewEntry
<1>2. PICK c \in Nat : c = calls[w]
  BY <1>0 DEF CallsOK
<1>3. wpc[w] = "idle" /\ calls'[w] = c + 1
  BY <1>0, <1>2 DEF AddKey, CallsOK
<1>4. lastCall(w) = c
  BY <1>2, <1>3 DEF lastCall
<1>5. UNCHANGED <<activeBuf, flushBuf, flushTodo, file, cursors>>
  BY DEF AddKey
<1>6. \A p \in Partitions : Region(w, p)' = Region(w, p)
  BY <1>5, RegionKept
<1>7. c <= c + 1 /\ c < c + 1 /\ c + 1 - 1 = c /\ c <= c
  OBVIOUS
<1>8. CASE UNCHANGED <<bufs, accepted>> /\ wpc'[w] \in {"idle", "region"}
  <2>1. \A p \in Partitions : Flushing(w, p)' = Flushing(w, p) /\ Buffered(w, p)' = Buffered(w, p)
    BY <1>3, <1>5, <1>8 DEF Flushing, Buffered, Active
  <2>2. \A p \in Partitions : Held(w, p)' = Held(w, p)
    BY <1>6, <2>1, HeldIs, HeldIsNext
  <2>3. Mine(w)' = Mine(w)
    BY <1>3, <1>8 DEF Mine, Waiting
  <2>4. lastCall(w) <= lastCall(w)'
    BY <1>3, <1>4, <1>7, <1>8 DEF lastCall
  <2> QED BY <2>2, <2>3, <2>4, HeldKept
<1>9. CASE Store(w, e, activeBuf[w], Active(w))
  <2>1. PICK i \in 0 .. 1, buf \in Buffer : i = activeBuf[w] /\ buf = bufs[w][i] /\ Active(w) = buf
    BY <1>0, ActiveBuffer DEF Active
  <2>2. /\ bufs'[w][i] = Stored(buf, e) /\ pending' = [pending EXCEPT ![w] = e]
        /\ \A j \in 0 .. 1 : j # i => bufs'[w][j] = bufs[w][j]
        /\ AfterStore(w, e)
    BY <1>0, <1>9, <2>1, StoreEffect
  <2>3. Mine(w)' = Mine(w) \cup {e} /\ wpc'[w] \in {"cap", "idle"}
    <3>1. e.w = w
      BY <1>1
    <3>2. \/ wpc' = [wpc EXCEPT ![w] = "cap"] /\ pending' = [pending EXCEPT ![w] = e] /\ accepted' = accepted
          \/ wpc' = [wpc EXCEPT ![w] = "idle"] /\ accepted' = accepted \cup {e}
      BY <2>2 DEF AfterStore, Accept
    <3>3. wpc'[w] \in {"cap", "idle"}
      BY <1>0, <3>2 DEF CallsOK
    <3> QED BY <1>0, <1>3, <3>1, <3>2, <3>3, MineStored
  <2>4. \A p \in Partitions : Flushing(w, p)' = Flushing(w, p)
    <3>1. flushTodo[w] # {} => flushBuf[w] # i
      BY <1>0, <1>3, <2>1 DEF BuffersApart, FlushDone
    <3>2. flushBuf[w] \in 0 .. 1
      BY <1>0 DEF FlushOK
    <3> QED BY <1>5, <2>2, <3>1, <3>2 DEF Flushing
  <2>5. \A p \in Partitions : Buffered(w, p) = buf[p] /\ Buffered(w, p)' = Stored(buf, e)[p]
    BY <1>3, <1>5, <2>1, <2>2, <2>3 DEF Buffered, Active
  <2>6. ASSUME NEW p \in Partitions
        PROVE  Held(w, p)' = IF p = PartitionOf(e.block) THEN Append(Held(w, p), e) ELSE Held(w, p)
    <3>1. PICK r \in Seq(Entry), f \in Seq(Entry), t \in Seq(Entry) :
               r = Region(w, p) /\ f = Flushing(w, p) /\ t = buf[p]
      BY <2>5, HeldTypes
    <3>2. Held(w, p) = (r \o f) \o t
      BY <2>5, <3>1, HeldIs
    <3>3. Held(w, p)' = (r \o f) \o Stored(buf, e)[p]
      BY <1>6, <2>4, <2>5, <3>1, HeldIsNext
    <3>4. Stored(buf, e)[p] = IF p = PartitionOf(e.block) THEN Append(t, e) ELSE t
      BY <3>1, EntryStored
    <3>5. (r \o f) \o Append(t, e) = Append((r \o f) \o t, e)
      BY AppendLast
    <3> QED BY <3>2, <3>3, <3>4, <3>5
  <2>7. e.call = c + 1 /\ lastCall(w)' = c + 1
    BY <1>1, <1>2, <1>3, <2>3 DEF lastCall
  <2> QED BY <1>4, <1>7, <2>3, <2>6, <2>7, HeldAppended
<1>10. CASE wpc' = [wpc EXCEPT ![w] = "region"] /\ UNCHANGED <<bufs, accepted>>
  BY <1>0, <1>8, <1>10 DEF CallsOK
<1>11. CASE UNCHANGED <<bufs, wpc, accepted>>
  BY <1>3, <1>8, <1>11
<1> QED BY <1>1, <1>9, <1>10, <1>11 DEF AddKey

LEMMA FlushHeld ==
  ASSUME WriterTypeOK, WriterTypeOK', BufferInv, FileInv, NEW w \in Writers, HeldOK(w), Flush(w)
  PROVE  HeldOK(w)'
<1>0. BufsOK /\ LensOK /\ FlushOK /\ DiskOK /\ CallsOK /\ PendingOK(w)
  BY TypeParts, BufferParts
<1>1. PICK e \in Entry : e = pending[w] /\ e.w = w /\ e.call = calls[w]
  BY <1>0 DEF Flush, PendingOK
<1>2. PICK a \in 0 .. 1, n \in 0 .. 1, buf \in Buffer :
           a = activeBuf[w] /\ n = 1 - activeBuf[w] /\ n # a /\ buf = Active(w) /\ buf = bufs[w][a]
  BY <1>0, ActiveBuffer DEF Active
<1>3. /\ wpc[w] \in {"region", "cap"} /\ flushTodo[w] = {} /\ activeBuf'[w] = n /\ flushBuf'[w] = a
      /\ flushTodo'[w] = Filled(buf) /\ UNCHANGED <<file, cursors, calls>>
  BY <1>0, <1>2 DEF Flush, FlushReady, FlushDone, FlushOK
<1>4. \A p \in Partitions : Region(w, p)' = Region(w, p)
  BY <1>3, RegionKept
<1>5. \A p \in Partitions : Flushing(w, p) = <<>> /\ Buffered(w, p) = buf[p]
  BY <1>2, <1>3 DEF Flushing, Buffered
<1>6. ASSUME bufs'[w][a] = bufs[w][a] PROVE \A p \in Partitions : Flushing(w, p)' = buf[p]
  BY <1>2, <1>3, <1>6 DEF Flushing, Filled
<1>7. PICK c \in Nat : c = calls[w] /\ c = e.call
  BY <1>0, <1>1 DEF CallsOK
<1>8. CASE wpc[w] = "region" /\ Store(w, e, n, NoEntries)
  <2>1. /\ bufs'[w][n] = Stored(NoEntries, e) /\ pending' = [pending EXCEPT ![w] = e]
        /\ \A j \in 0 .. 1 : j # n => bufs'[w][j] = bufs[w][j]
        /\ AfterStore(w, e)
    BY <1>0, <1>8, NoEntriesBuffer, StoreEffect
  <2>2. \/ wpc' = [wpc EXCEPT ![w] = "cap"] /\ pending' = [pending EXCEPT ![w] = e] /\ accepted' = accepted
        \/ wpc' = [wpc EXCEPT ![w] = "idle"] /\ accepted' = accepted \cup {e}
    BY <2>1 DEF AfterStore, Accept
  <2>3. wpc'[w] \in {"cap", "idle"}
    BY <1>0, <2>2 DEF CallsOK
  <2>4. Mine(w)' = Mine(w) \cup {e}
    BY <1>0, <1>1, <1>8, <2>2, MineStored
  <2>5. \A p \in Partitions : Flushing(w, p)' = buf[p] /\ Buffered(w, p)' = Stored(NoEntries, e)[p]
    <3>1. \A p \in Partitions : Flushing(w, p)' = buf[p]
      BY <1>2, <1>6, <2>1
    <3>2. \A p \in Partitions : Buffered(w, p)' = Stored(NoEntries, e)[p]
      BY <1>3, <2>1, <2>3 DEF Buffered, Active
    <3> QED BY <3>1, <3>2
  <2>6. ASSUME NEW p \in Partitions
        PROVE  Held(w, p)' = IF p = PartitionOf(e.block) THEN Append(Held(w, p), e) ELSE Held(w, p)
    <3>1. PICK r \in Seq(Entry), t \in Seq(Entry) : r = Region(w, p) /\ t = buf[p]
      BY <1>5, HeldTypes
    <3>2. Held(w, p) = (r \o <<>>) \o t
      BY <1>5, <3>1, HeldIs
    <3>3. Held(w, p)' = (r \o t) \o Stored(NoEntries, e)[p]
      BY <1>4, <2>5, <3>1, HeldIsNext
    <3>4. Stored(NoEntries, e)[p] = IF p = PartitionOf(e.block) THEN Append(<<>>, e) ELSE <<>>
      <4>1. NoEntries \in Buffer /\ NoEntries[p] = <<>>
        BY NoEntriesBuffer
      <4>2. Stored(NoEntries, e)[p] = IF p = PartitionOf(e.block) THEN Append(NoEntries[p], e) ELSE NoEntries[p]
        BY <4>1, EntryStored
      <4> QED BY <4>1, <4>2
    <3>5. /\ (r \o t) \o Append(<<>>, e) = Append((r \o t) \o <<>>, e)
          /\ (r \o <<>>) \o t = (r \o t) \o <<>>
      <4>1. <<>> \in Seq(Entry)
        OBVIOUS
      <4> QED BY <4>1, AppendLast, BorderMoved
    <3> QED BY <3>2, <3>3, <3>4, <3>5
  <2>7. lastCall(w) = c - 1 /\ lastCall(w)' = c /\ c - 1 < c
    BY <1>3, <1>7, <1>8, <2>3 DEF lastCall
  <2> QED BY <1>7, <2>4, <2>6, <2>7, HeldAppended
<1>9. CASE wpc[w] = "cap" /\ bufs' = [bufs EXCEPT ![w][n] = NoEntries] /\ Accept(w, e)
  <2>1. bufs'[w][n] = NoEntries /\ bufs'[w][a] = bufs[w][a]
    BY <1>0, <1>2, <1>9 DEF BufsOK
  <2>2. wpc'[w] = "idle" /\ accepted' = accepted \cup {e}
    BY <1>0, <1>9 DEF Accept, CallsOK
  <2>3. Mine(w)' = Mine(w)
    BY <1>1, <1>9, <2>2 DEF Mine, Waiting
  <2>4. \A p \in Partitions : Flushing(w, p)' = buf[p] /\ Buffered(w, p)' = <<>>
    <3>1. \A p \in Partitions : Buffered(w, p)' = NoEntries[p]
      BY <1>3, <2>1, <2>2 DEF Buffered, Active
    <3> QED BY <1>6, <2>1, <3>1, NoEntriesBuffer
  <2>5. ASSUME NEW p \in Partitions PROVE Held(w, p)' = Held(w, p)
    <3>1. PICK r \in Seq(Entry), t \in Seq(Entry) : r = Region(w, p) /\ t = buf[p]
      BY <1>5, HeldTypes
    <3>2. Held(w, p) = (r \o <<>>) \o t
      BY <1>5, <3>1, HeldIs
    <3>3. Held(w, p)' = (r \o t) \o <<>>
      BY <1>4, <2>4, <3>1, HeldIsNext
    <3> QED BY <3>2, <3>3, BorderMoved
  <2>6. lastCall(w) = c /\ lastCall(w)' = c /\ c <= c
    BY <1>3, <1>7, <1>9, <2>2 DEF lastCall
  <2> QED BY <2>3, <2>5, <2>6, HeldKept
<1> QED BY <1>1, <1>2, <1>8, <1>9 DEF Flush, Cleared

LEMMA FlushPartitionHeld ==
  ASSUME WriterTypeOK, WriterTypeOK', BufferInv, FileInv, FileInv', NEW w \in Writers, HeldOK(w),
         FlushPartition(w), Sound(w)'
  PROVE  HeldOK(w)'
<1>0. BufsOK /\ FlushOK /\ DiskOK /\ CallsOK /\ DiskOK'
  BY TypeParts, TypePartsNext
<1>1. ~FlushError(w)
  BY <1>0 DEF FlushError, Sound, FlushOK, CallsOK
<1>2. PICK p \in Partitions, entries \in Seq(Entry) :
           /\ p \in flushTodo[w] /\ entries = bufs[w][flushBuf[w]][p] /\ Wrote(w, p, entries)
           /\ flushTodo' = [flushTodo EXCEPT ![w] = @ \ {p}] /\ UNCHANGED <<flushErr, wpc>>
  BY <1>1, FlushPartitionWrites
<1>3. UNCHANGED <<bufs, activeBuf, flushBuf, pending, calls, accepted>>
  BY DEF FlushPartition
<1>4. flushTodo'[w] = flushTodo[w] \ {p}
  BY <1>0, <1>2 DEF FlushOK
<1>5. CursorsOK(w) /\ WrittenOK(w) /\ WrittenOK(w)'
  BY FileParts, FilePartsNext
<1>6. Region(w, p)' = Region(w, p) \o entries /\ \A q \in Partitions \ {p} : Region(w, q)' = Region(w, q)
  BY <1>0, <1>2, <1>5, RegionWrote
<1>7. \A q \in Partitions : Buffered(w, q)' = Buffered(w, q)
  BY <1>2, <1>3 DEF Buffered, Active
<1>8. /\ Flushing(w, p) = entries /\ Flushing(w, p)' = <<>>
      /\ \A q \in Partitions \ {p} : Flushing(w, q)' = Flushing(w, q)
  BY <1>2, <1>3, <1>4 DEF Flushing
<1>9. ASSUME NEW q \in Partitions PROVE Held(w, q)' = Held(w, q)
  <2>1. CASE q = p
    <3>1. PICK r \in Seq(Entry), t \in Seq(Entry) : r = Region(w, p) /\ t = Buffered(w, p)
      BY HeldTypes
    <3>2. Held(w, p) = (r \o entries) \o t
      BY <1>8, <3>1, HeldIs
    <3>3. Held(w, p)' = ((r \o entries) \o <<>>) \o t
      BY <1>6, <1>7, <1>8, <3>1, HeldIsNext
    <3> QED BY <2>1, <3>2, <3>3, BorderMoved
  <2>2. CASE q # p
    BY <1>6, <1>7, <1>8, <2>2, HeldIs, HeldIsNext
  <2> QED BY <2>1, <2>2
<1>10. Mine(w)' = Mine(w) /\ lastCall(w)' = lastCall(w)
  BY <1>2, <1>3 DEF Mine, Waiting, lastCall
<1>11. lastCall(w) <= lastCall(w)'
  BY <1>0, <1>10, LastCallType
<1> QED BY <1>9, <1>10, <1>11, HeldKept

(* The end of a writer: what it holds is in its file. *)
LEMMA CloseHeld ==
  ASSUME WriterTypeOK, WriterTypeOK', FileInv, NEW w \in Writers, HeldOK(w), Sound(w)',
         FlushAll(w) \/ FlushAllDone(w) \/ CloseWriter(w)
  PROVE  HeldOK(w)'
<1>0. BufsOK /\ FlushOK /\ DiskOK /\ CallsOK
  BY TypeParts
<1>1. UNCHANGED <<bufs, activeBuf, file, cursors, pending, calls, accepted>>
  BY DEF FlushAll, FlushAllDone, CloseWriter
<1>2. wpc[w] \notin {"cap", "region"} /\ wpc'[w] \notin {"cap", "region"}
  BY <1>0 DEF FlushAll, FlushAllDone, CloseWriter, CallsOK
<1>3. Mine(w)' = Mine(w) /\ lastCall(w)' = lastCall(w)
  BY <1>1, <1>2 DEF Mine, Waiting, lastCall
<1>4. lastCall(w) <= lastCall(w)'
  BY <1>0, <1>3, LastCallType
<1>5. \A p \in Partitions : Region(w, p)' = Region(w, p)
  BY <1>1, RegionKept
<1>6. CASE FlushAllDone(w) \/ CloseWriter(w)
  <2>1. /\ UNCHANGED <<flushTodo, flushBuf>>
        /\ wpc[w] \in {"flushAll", "done"} <=> wpc'[w] \in {"flushAll", "done"}
    BY <1>0, <1>6 DEF FlushAllDone, CloseWriter, CallsOK
  <2>2. \A p \in Partitions : Flushing(w, p)' = Flushing(w, p) /\ Buffered(w, p)' = Buffered(w, p)
    BY <1>1, <2>1 DEF Flushing, Buffered, Active
  <2>3. \A p \in Partitions : Held(w, p)' = Held(w, p)
    BY <1>5, <2>2, HeldIs, HeldIsNext
  <2> QED BY <1>3, <1>4, <2>3, HeldKept
<1>7. CASE FlushAll(w)
  <2>1. wpc[w] = "closing" /\ flushTodo[w] = {}
    BY <1>7 DEF FlushAll, FlushDone
  <2>2. \/ wpc'[w] = "done" /\ Filled(Active(w)) = {} /\ flushTodo' = flushTodo
        \/ wpc'[w] = "flushAll" /\ flushBuf'[w] = activeBuf[w] /\ flushTodo'[w] = Filled(Active(w))
    BY <1>0, <1>7 DEF FlushAll, CallsOK, FlushOK, Sound
  <2>3. \A p \in Partitions : Flushing(w, p) = <<>> /\ Buffered(w, p) = Active(w)[p]
    BY <2>1 DEF Flushing, Buffered
  <2>4. \A p \in Partitions : Buffered(w, p)' = <<>>
    BY <2>2 DEF Buffered
  <2>5. \A p \in Partitions : Flushing(w, p)' = Active(w)[p]
    <3>1. CASE wpc'[w] = "done" /\ Filled(Active(w)) = {} /\ flushTodo' = flushTodo
      BY <2>1, <3>1 DEF Flushing, Filled
    <3>2. CASE wpc'[w] = "flushAll" /\ flushBuf'[w] = activeBuf[w] /\ flushTodo'[w] = Filled(Active(w))
      BY <1>1, <3>2 DEF Flushing, Filled, Active
    <3> QED BY <2>2, <3>1, <3>2
  <2>6. ASSUME NEW p \in Partitions PROVE Held(w, p)' = Held(w, p)
    <3>1. PICK r \in Seq(Entry), t \in Seq(Entry) : r = Region(w, p) /\ t = Active(w)[p]
      BY <2>3, HeldTypes
    <3>2. Held(w, p) = (r \o <<>>) \o t
      BY <2>3, <3>1, HeldIs
    <3>3. Held(w, p)' = (r \o t) \o <<>>
      BY <1>5, <2>4, <2>5, <3>1, HeldIsNext
    <3> QED BY <3>2, <3>3, BorderMoved
  <2> QED BY <1>3, <1>4, <2>6, HeldKept
<1> QED BY <1>6, <1>7

LEMMA HeldActor ==
  ASSUME WriterTypeOK, WriterTypeOK', BufferInv, FileInv, FileInv', HeldInv,
         NEW w \in Writers, WriterAct(w), Sound(w)'
  PROVE  HeldOK(w)'
<1>0. FlushOK /\ CallsOK
  BY TypeParts
<1>1. HeldOK(w)
  <2>1. flushErr[w] => flushErr'[w]
    BY <1>0 DEF WriterAct, AddKey, FlushStep, Flush, FlushFails, FlushPartition, FlushError, FlushAll,
       FlushAllDone, CloseWriter, FlushOK
  <2>2. CASE FlushPartition(w)
    BY <1>0, <2>1, <2>2 DEF FlushPartition, FlushError, FlushOK, Sound, HeldInv
  <2>3. CASE ~FlushPartition(w)
    <3>1. wpc[w] # "failed"
      BY <2>3 DEF WriterAct, AddKey, FlushStep, Flush, FlushFails, FlushAll, FlushAllDone, CloseWriter
    <3> QED BY <2>1, <3>1 DEF Sound, HeldInv
  <2> QED BY <2>2, <2>3
<1>2. ~FlushFails(w)
  BY DEF FlushFails, Sound
<1> QED BY <1>1, <1>2, AddKeyHeld, FlushHeld, FlushPartitionHeld, CloseHeld DEF WriterAct, FlushStep

LEMMA HeldOther ==
  ASSUME WriterTypeOK, WriterTypeOK', BufferInv, FileInv, HeldInv,
         NEW w \in Writers, WriterAct(w), NEW v \in Writers, v # w, Sound(v)'
  PROVE  HeldOK(v)'
<1>1. SameWriter(v)
  BY OthersSame
<1>2. Sound(v) /\ lastCall(v)' = lastCall(v) /\ Waiting(v)' = Waiting(v)
  BY <1>1 DEF SameWriter, Sound, lastCall, Waiting
<1>3. \A p \in Partitions : Region(v, p)' = Region(v, p)
  BY <1>1, RegionKept DEF SameWriter
<1>4. \A p \in Partitions : Flushing(v, p)' = Flushing(v, p) /\ Buffered(v, p)' = Buffered(v, p)
  BY <1>1 DEF SameWriter, Flushing, Buffered, Active
<1>5. \A p \in Partitions : Held(v, p)' = Held(v, p)
  BY <1>3, <1>4, HeldIs, HeldIsNext
<1>6. Mine(v)' = Mine(v)
  <2>1. CASE accepted' = accepted
    BY <1>2, <2>1 DEF Mine
  <2>2. ASSUME NEW e \in Entry, e.w = w, accepted' = accepted \cup {e} PROVE Mine(v)' = Mine(v)
    BY <1>2, <2>2 DEF Mine
  <2> QED BY <2>1, <2>2, AcceptedBy
<1>7. lastCall(v) <= lastCall(v)'
  <2>1. lastCall(v) \in Int
    BY LastCallType, TypeParts
  <2> QED BY <1>2, <2>1
<1> QED BY <1>2, <1>5, <1>6, <1>7, HeldKept DEF HeldInv

LEMMA HeldStep ==
  ASSUME WriterTypeOK, WriterTypeOK', BufferInv, FileInv, FileInv', HeldInv, WritersStep
  PROVE  HeldInv'
<1>1. ASSUME NEW w \in Writers, WriterAct(w), NEW v \in Writers, Sound(v)' PROVE HeldOK(v)'
  BY <1>1, HeldActor, HeldOther
<1>2. CASE UNCHANGED writeVars
  <2>1. \A w \in Writers, p \in Partitions :
           /\ Region(w, p)' = Region(w, p) /\ Flushing(w, p)' = Flushing(w, p)
           /\ Buffered(w, p)' = Buffered(w, p)
    BY <1>2, RegionKept DEF writeVars, Flushing, Buffered, Active
  <2>2. \A w \in Writers, p \in Partitions : Held(w, p)' = Held(w, p)
    BY <2>1, HeldIs, HeldIsNext
  <2>3. \A w \in Writers : Mine(w)' = Mine(w) /\ lastCall(w)' = lastCall(w) /\ Sound(w)' = Sound(w)
    BY <1>2 DEF writeVars, Mine, Waiting, lastCall, Sound
  <2> QED BY <2>2, <2>3 DEF HeldInv, HeldOK
<1>3. CASE \E w \in Writers : WriterAct(w)
  BY <1>1, <1>3 DEF HeldInv
<1> QED BY <1>2, <1>3 DEF WritersStep, WriterAct

--------------------------------------------------------------------------------
(* The inductive invariant. *)

LEMMA InitTypes ==
  ASSUME Init
  PROVE  TypeOK
<1>1. BufsOK /\ LensOK
  <2>1. NoEntries \in Buffer /\ \A p \in Partitions : NoEntries[p] = <<>>
    BY NoEntriesBuffer
  <2>2. bufs = [w \in Writers |-> [i \in 0 .. 1 |-> NoEntries]]
    BY DEF Init, WriterInit
  <2>3. BufsOK
    BY <2>1, <2>2 DEF BufsOK
  <2>4. \A w \in Writers, i \in 0 .. 1, p \in Partitions : bufs[w][i][p] = <<>>
    BY <2>1, <2>2
  <2>5. Len(<<>>) = 0 /\ 0 <= regionCap
    BY ConstantTypes
  <2> QED BY <2>3, <2>4, <2>5 DEF LensOK
<1>2. FlushOK
  <2>1. activeBuf \in [Writers -> 0 .. 1] /\ flushBuf \in [Writers -> 0 .. 1]
    BY DEF Init, WriterInit
  <2>2. flushTodo \in [Writers -> SUBSET Partitions]
    BY DEF Init, WriterInit
  <2>3. flushErr \in [Writers -> BOOLEAN] /\ flushed \in BOOLEAN
    BY DEF Init, WriterInit
  <2> QED BY <2>1, <2>2, <2>3 DEF FlushOK
<1>3. DiskOK
  <2>1. 0 \in 0 .. countLimit - 1
    BY ConstantTypes
  <2> QED BY <2>1 DEF Init, WriterInit, DiskOK
<1>4. CallsOK
  <2>1. 0 \in 0 .. contextCheckInterval - 1
    BY ConstantTypes
  <2> QED BY <2>1 DEF Init, WriterInit, CallsOK, WriterPcs
<1>5. BuilderOK
  <2>1. 0 \in Partitions /\ 0 \in 0 .. blocksPerPart
    BY ConstantTypes, PartitionsCover
  <2> QED BY <2>1 DEF Init, BuilderOK
<1>6. Len(built) <= NumBlocks
  BY ConstantTypes DEF Init
<1> QED BY <1>1, <1>2, <1>3, <1>4, <1>5, <1>6, TypeParts DEF TypeOK, BuilderOK

LEMMA InitHeld ==
  ASSUME Init
  PROVE  HeldInv
<1> SUFFICES ASSUME NEW w \in Writers, NEW p \in Partitions
             PROVE  HoldsExactly(Held(w, p), Mine(w), p, lastCall(w))
  BY DEF HeldInv, HeldOK
<1>1. Region(w, p) = <<>>
  <2>1. cursors[w][p] = 0
    BY DEF Init, WriterInit
  <2> QED BY <2>1 DEF Region
<1>2. Flushing(w, p) = <<>> /\ Buffered(w, p) = <<>>
  <2>1. /\ flushTodo[w] = {} /\ activeBuf[w] = 0 /\ bufs[w][0] = NoEntries /\ wpc[w] = "idle"
    BY DEF Init, WriterInit
  <2> QED BY <2>1, NoEntriesBuffer DEF Flushing, Buffered, Active
<1>3. Held(w, p) = <<>>
  BY <1>1, <1>2, HeldIs
<1>4. Mine(w) = {}
  BY DEF Init, WriterInit, Mine, Waiting
<1>5. ToSet(<<>>) = {} /\ Increasing(<<>>)
  BY DEF ToSet, Increasing
<1> QED BY <1>3, <1>4, <1>5 DEF HoldsExactly

LEMMA InitUnsortedInv == Init => UnsortedInv
<1> SUFFICES ASSUME Init PROVE UnsortedInv
  OBVIOUS
<1>1. /\ \A w \in Writers : flushTodo[w] = {} /\ wpc[w] = "idle" /\ file[w] = [i \in Cells |-> NoEntry]
      /\ \A w \in Writers, p \in Partitions : cursors[w][p] = 0
      /\ \A w \in Writers, i \in 0 .. 1 : bufs[w][i] = NoEntries
  BY DEF Init, WriterInit, Cells
<1>2. ControlInv
  BY <1>1 DEF Init, WriterInit, ControlInv, FlushDone
<1>3. FilesInv
  BY <1>1 DEF Init, FilesInv, NoIOOnClosedFiles, FlushDone
<1>4. BuiltInv
  BY DEF Init, BuiltInv
<1>5. BufferInv
  <2>1. \A w \in Writers : \A i \in 0 .. 1 : InRegion(bufs[w][i])
    BY <1>1, NoEntriesInRegion
  <2> QED BY <1>1, <2>1, BufferParts DEF BuffersApart, PendingOK, FlushDone
<1>6. FileInv
  <2>1. 0 <= regionEntries /\ 0 .. 0 - 1 = {}
    BY ConstantTypes
  <2> QED BY <1>1, <2>1, FileParts DEF CursorsOK, CellsOK, WrittenOK
<1> QED BY <1>2, <1>3, <1>4, <1>5, <1>6, InitTypes, InitHeld DEF UnsortedInv

LEMMA NextUnsortedInv == UnsortedInv /\ [Next]_vars => UnsortedInv'
<1> SUFFICES ASSUME UnsortedInv, [Next]_vars PROVE UnsortedInv'
  OBVIOUS
<1>1. TypeOK /\ ControlInv /\ FilesInv /\ BuiltInv /\ BufferInv /\ FileInv /\ HeldInv
  BY DEF UnsortedInv
<1>2. TypeOK' /\ ControlInv' /\ FilesInv' /\ BuiltInv'
  BY <1>1, TypeStep, ControlStep, FilesStep, BuiltInvStep
<1>3. WritersStep /\ WriterTypeOK /\ WriterTypeOK'
  BY <1>1, <1>2, WriterCases DEF TypeOK
<1>4. BufferInv' /\ FileInv'
  BY <1>1, <1>3, BufferStep, FileStep
<1>5. HeldInv'
  BY <1>1, <1>3, <1>4, HeldStep
<1> QED BY <1>2, <1>4, <1>5 DEF UnsortedInv

LEMMA UnsortedInvariant == Spec => []UnsortedInv
BY InitUnsortedInv, NextUnsortedInv, PTL DEF Spec

--------------------------------------------------------------------------------
(* What it implies. *)

(* TypeOK holds throughout: no region of a buffer overflows before flush empties it, a
   block count stays a uint16, and Finish commits at most one block per block number,
   whatever path it takes and wherever it fails. *)
THEOREM UnsortedTypeCorrect == Spec => []TypeOK
<1>1. UnsortedInv => TypeOK
  BY DEF UnsortedInv
<1> QED BY <1>1, UnsortedInvariant, PTL

(* The writer files stay open under every doFlush and under the read-ahead goroutine:
   every path that closes them has drained or joined those first. *)
THEOREM FilesOpenUnderIO == Spec => []NoIOOnClosedFiles
<1>1. UnsortedInv => NoIOOnClosedFiles
  BY DEF UnsortedInv, FilesInv
<1> QED BY <1>1, UnsortedInvariant, PTL

(* doFlush keeps every entry inside the region of its partition, whatever the buffer and
   region sizes. *)
THEOREM RegionsSeparate == Spec => []RegionsHoldTheirPartition
<1>1. UnsortedInv => RegionsHoldTheirPartition
  BY DEF UnsortedInv, FileInv
<1> QED BY <1>1, UnsortedInvariant, PTL

(* Between addKey and the partition files no entry is lost, doubled or overtaken: as long
   as no write has failed, a writer holds exactly the accepted entries, in order. *)
THEOREM NothingLostOnTheWay == Spec => []EntriesHeldOnce
<1>1. UnsortedInv => EntriesHeldOnce
  <2> SUFFICES ASSUME UnsortedInv, NEW w \in Writers, ~flushErr[w] /\ wpc[w] # "failed",
                      NEW p \in Partitions
               PROVE  /\ ToSet(Held(w, p)) = {e \in accepted \cup Waiting(w) :
                                                 e.w = w /\ PartitionOf(e.block) = p}
                      /\ Increasing(Held(w, p))
    BY DEF EntriesHeldOnce, Waiting, Increasing
  <2>1. HoldsExactly(Held(w, p), Mine(w), p, lastCall(w))
    BY DEF UnsortedInv, HeldInv, HeldOK, Sound
  <2>2. {e \in accepted \cup Waiting(w) : e.w = w /\ PartitionOf(e.block) = p}
          = {e \in Mine(w) : PartitionOf(e.block) = p}
    BY DEF Mine
  <2> QED BY <2>1, <2>2 DEF HoldsExactly
<1> QED BY <1>1, UnsortedInvariant, PTL

(* While the background doFlush runs, no call of the writer and no other goroutine changes
   the buffer it encodes. *)
THEOREM FlushUndisturbed == Spec => FlushedBufferStable
<1>1. UnsortedInv /\ [Next]_vars =>
        [\A w \in Writers : ~FlushDone(w) => bufs'[w][flushBuf[w]] = bufs[w][flushBuf[w]]]_vars
  <2> SUFFICES ASSUME UnsortedInv, [Next]_vars, NEW w \in Writers, ~FlushDone(w)
               PROVE  bufs'[w][flushBuf[w]] = bufs[w][flushBuf[w]]
    OBVIOUS
  <2>1. WriterTypeOK /\ BufferInv /\ WritersStep
    BY WriterCases DEF UnsortedInv, TypeOK
  <2> QED BY <2>1, FlushedBufferKept
<1> QED BY <1>1, UnsortedInvariant, PTL DEF Spec, FlushedBufferStable

(* The slot the blocks of the current partition are sliced from is left alone. *)
LEMMA SlotInUseKept ==
  ASSUME TypeOK, BuiltInv, [Next]_vars, pc = "blocks"
  PROVE  part' = part => slots'[part % 2] = slots[part % 2]
<1> USE DEF finishVars
<1>1. CASE ReadAhead
  <2>1. PICK n \in Nat : n = part
    BY ConstantTypes DEF TypeOK
  <2>2. (n + 1) % 2 # n % 2 /\ (n + 1) % 2 \in 0 .. 1 /\ n % 2 \in 0 .. 1
    BY ONLY n \in Nat
  <2>3. DOMAIN slots = 0 .. 1
    BY DEF BuiltInv
  <2>4. ASSUME NEW x, slots' = [slots EXCEPT ![(n + 1) % 2] = x] PROVE slots'[n % 2] = slots[n % 2]
    BY <2>2, <2>4
  <2> QED BY <1>1, <2>1, <2>4 DEF ReadAhead, AheadSlot
<1>2. CASE CallerStep
  BY <1>2 DEF CallerStep, AddKeyCall, InitBufferFails, AddKeys, Finish, StartFinish, Close,
     CallAfterClose, UserCancel, vars
<1>3. CASE WritersJoined \/ CleanupAll \/ MergeBlockCounts \/ ReadFirst \/ BuildBlock \/ PartitionDone
           \/ Abort \/ BuildFromMemory \/ FinalizeIndex
  BY <1>3 DEF WritersJoined, StartFinish, CleanupAll, MergeBlockCounts, ReadFirst, BuildBlock,
     PartitionDone, Abort, BuildFromMemory, FinalizeIndex
<1>4. CASE \E w \in Writers : WriterStep(w) \/ CallbackStep(w)
  BY <1>4 DEF WriterStep, CallbackStep, CallbackReturns, CallbackAddKey
<1>5. CASE UNCHANGED vars
  BY <1>5 DEF vars
<1> QED BY <1>1, <1>2, <1>3, <1>4, <1>5 DEF Next, BuilderStep

(* The read-ahead goroutine never touches the entries the current blocks are built from. *)
THEOREM ReadAheadApart == Spec => BlocksInUseStable
<1>1. UnsortedInv /\ [Next]_vars =>
        [pc = "blocks" /\ pc' = "blocks" /\ part' = part /\ local' = local =>
            \A b \in Blocks : PartitionOf(b) = part => BlockEntries(b)' = BlockEntries(b)]_vars
  <2> SUFFICES ASSUME UnsortedInv, [Next]_vars, pc = "blocks", pc' = "blocks", part' = part,
                      NEW b \in Blocks
               PROVE  BlockEntries(b)' = BlockEntries(b)
    OBVIOUS
  <2>1. slots'[part % 2] = slots[part % 2]
    BY SlotInUseKept DEF UnsortedInv
  <2> QED BY <2>1 DEF BlockEntries
<1> QED BY <1>1, UnsortedInvariant, PTL DEF Spec, BlocksInUseStable
=================================================================================
