----------------------------- MODULE PtrHashSolver -----------------------------
(***************************************************************************)
(* The PTRHash solver (internal/ptrhash): it gives every bucket of a block *)
(* a pilot such that all keys of the block land in different slots, by     *)
(* placing the largest buckets first and evicting smaller ones, and maps   *)
(* the slots beyond the number of keys to the holes left below it.         *)
(*                                                                         *)
(* The hash is arbitrary: slotOf[k][p] is the slot of key k under pilot p. *)
(* One solver solves block after block (and retries a block), and clears   *)
(* its slot tables by moving to another generation. Its pilots and its     *)
(* remap buffer are the metadata of the block, and still hold those of the *)
(* block before when the next one starts.                                  *)
(***************************************************************************)
EXTENDS Integers, Sequences, FiniteSets, FiniteSetsExt

CONSTANTS MaxKeys,          \* bound: the keys of a block, and of all blocks together
          numBuckets,       \* bucketsPerBlock
          numPilotValues,
          overflow,         \* computeNumSlots(n) - n, constant for small blocks
          pinnedSize,
          maxEvictionMultiplier,
          maxGlobalRetries,
          genLimit,         \* the generation that makes reset start over
          smallBucket       \* buckets above it use hasNoDuplicateSlots

ASSUME PtrHashSolverAssumption ==
    /\ MaxKeys \in Nat \ {0}
    /\ numBuckets \in Nat \ {0} /\ numPilotValues \in Nat \ {0}
    /\ overflow \in Nat /\ pinnedSize \in Nat \ {0}
    /\ maxEvictionMultiplier \in Nat /\ maxGlobalRetries \in Nat \ {0}
    /\ genLimit \in Nat /\ genLimit >= 3 /\ smallBucket \in Nat

Keys == 1 .. MaxKeys
Buckets == 0 .. numBuckets - 1
Pilots == 0 .. numPilotValues - 1
maxNumSlots == MaxKeys + overflow
AllSlots == 0 .. maxNumSlots - 1
Overflow == 0 .. overflow - 1
NoBucket == -1

VARIABLES buckets,      \* the keys of every bucket of the block
          slotOf,       \* the hash: pilotSlotFolded under every pilot
          pilots,       \* s.pilots
          slotOwner, slotGen,          \* valid where slotGen[s] = generation
          processedGen, generation,
          pinned, pinnedIdx, pinnedBits,
          evictions,
          pendingHeap,  \* evicted buckets; a max-heap by size (BucketOrder)
          next,         \* position in bucketOrder
          attempt,      \* of maxGlobalRetries
          solved,       \* keys of all blocks begun
          pc,           \* solve, drain (the heap), limit, or how the block ended
          remap         \* remapBuffer: overflow slot - numKeys -> hole

tableVars == <<pilots, slotOwner, slotGen, processedGen, generation>>
pinVars == <<pinned, pinnedIdx, pinnedBits>>
blockVars == <<buckets, slotOf, solved>>
vars == <<blockVars, tableVars, pinVars, evictions, pendingHeap, next, attempt, pc, remap>>

(* How a block can end: built; ErrDuplicateKey; ErrIndistinguishableHashes;
   ErrBlockOverflow or the eviction limit exceeded in every attempt. *)
Failures == {"duplicate", "indistinguishable", "failed"}
Ended == {"done"} \cup Failures

BlockKeys == UNION {buckets[b] : b \in Buckets}
numKeys == Cardinality(BlockKeys)
numSlots == numKeys + overflow
bucketSize(b) == Cardinality(buckets[b])
BucketOf(k) == CHOOSE b \in Buckets : k \in buckets[b]

(* Type invariant; a generation never reaches genLimit, so that generation + 1, the
   mark of hasNoDuplicateSlots, still fits its byte. *)
TypeOK ==
    /\ \A b \in Buckets : buckets[b] \subseteq Keys
    /\ slotOf \in [Keys -> [Pilots -> AllSlots]]
    /\ pilots \in [Buckets -> Pilots]
    /\ slotOwner \in [AllSlots -> Buckets]
    /\ generation \in 1 .. genLimit - 1
    /\ slotGen \in [AllSlots -> 0 .. genLimit - 1]
    /\ processedGen \in [Buckets -> 0 .. genLimit - 1]
    /\ pinned \in [0 .. pinnedSize - 1 -> Buckets \cup {NoBucket}]
    /\ pinnedIdx \in 0 .. pinnedSize - 1 /\ pinnedBits \subseteq Buckets
    /\ evictions \in Nat /\ pendingHeap \subseteq Buckets
    /\ next \in 1 .. numBuckets + 1 /\ attempt \in 0 .. maxGlobalRetries - 1
    /\ pc \in {"idle", "solve", "drain", "limit", "panic"} \cup Ended
    /\ remap \in [Overflow -> AllSlots]

(* newSolver. *)
Init ==
    /\ buckets = [b \in Buckets |-> {}]
    /\ slotOf = [k \in Keys |-> [p \in Pilots |-> 0]]
    /\ pilots = [b \in Buckets |-> 0]
    /\ slotOwner = [s \in AllSlots |-> 0] /\ slotGen = [s \in AllSlots |-> 0]
    /\ processedGen = [b \in Buckets |-> 0] /\ generation = 1
    /\ pinned = [i \in 0 .. pinnedSize - 1 |-> NoBucket] /\ pinnedIdx = 0 /\ pinnedBits = {}
    /\ evictions = 0 /\ pendingHeap = {} /\ next = 1 /\ attempt = 0 /\ solved = 0
    /\ pc = "idle" /\ remap = [i \in Overflow |-> 0]

--------------------------------------------------------------------------------
(* Seeded fault: the generation starts over without clearing the tables. *)
NextGenerationUncleared ==
    /\ generation' = IF generation + 1 >= genLimit THEN 1 ELSE generation + 1
    /\ UNCHANGED <<slotGen, processedGen>>

(* The tables are cleared by moving to the next generation, and really cleared
   when the generations start over. *)
NextGeneration ==
    IF generation + 1 >= genLimit
      THEN /\ generation' = 1
           /\ slotGen' = [s \in AllSlots |-> 0]
           /\ processedGen' = [b \in Buckets |-> 0]
      ELSE /\ generation' = generation + 1
           /\ UNCHANGED <<slotGen, processedGen>>

(* reset, and what solve clears before it starts. *)
Reset ==
    /\ NextGeneration
    /\ pinned' = [i \in 0 .. pinnedSize - 1 |-> NoBucket] /\ pinnedIdx' = 0 /\ pinnedBits' = {}
    /\ evictions' = 0 /\ pendingHeap' = {} /\ next' = 1
    /\ pc' = "solve"
    /\ UNCHANGED <<pilots, slotOwner, remap>>

(* Builder.solve for the next block: any number of keys in any buckets, under any
   hash into the block's slots. Keys have no identity of their own, so they are
   numbered bucket by bucket. *)
SolveBlock ==
    /\ pc \in {"idle"} \cup Ended
    /\ \E n \in 1 .. MaxKeys - solved :
          /\ \E f \in [1 .. n -> Buckets] :
                /\ \A k \in 1 .. n - 1 : f[k] <= f[k + 1]
                /\ buckets' = [b \in Buckets |-> {k \in 1 .. n : f[k] = b}]
          /\ \E h \in [1 .. n -> [Pilots -> 0 .. n + overflow - 1]] :
                slotOf' = [k \in Keys |-> IF k <= n THEN h[k] ELSE [p \in Pilots |-> 0]]
          /\ solved' = solved + n
    /\ attempt' = 0
    /\ Reset

(* BuildSeparatedInto of a block without keys: buildEmptyMetadataInto. *)
BuildEmpty ==
    /\ pc \in {"idle"} \cup Ended /\ solved < MaxKeys
    /\ buckets' = [b \in Buckets |-> {}]
    /\ pilots' = [b \in Buckets |-> 0]
    /\ pc' = "done"
    /\ UNCHANGED <<slotOf, solved, slotOwner, slotGen, processedGen, generation, pinVars,
                   evictions, pendingHeap, next, attempt, remap>>

(* ErrBlockOverflow: a block of more than maxKeysPerBlock keys is refused before any
   of them is looked at. *)
BuildOverflow ==
    /\ pc \in {"idle"} \cup Ended /\ solved < MaxKeys
    /\ pc' = "failed"
    /\ UNCHANGED <<blockVars, tableVars, pinVars, evictions, pendingHeap, next, attempt, remap>>

(* Seeded fault: an attempt that ran into the limit does not count. *)
NextAttemptSame == attempt

NextAttempt == attempt + 1

(* Only an exceeded eviction limit is tried again, with other pilots to start from. *)
Retry ==
    /\ pc = "limit"
    /\ \/ /\ NextAttempt < maxGlobalRetries
          /\ attempt' = NextAttempt
          /\ Reset
       \/ /\ NextAttempt >= maxGlobalRetries
          /\ pc' = "failed"
          /\ UNCHANGED <<tableVars, pinVars, evictions, pendingHeap, next, attempt, remap>>
    /\ UNCHANGED blockVars

--------------------------------------------------------------------------------
isProcessed(b) == processedGen[b] = generation
Taken(s) == slotGen[s] = generation
SlotsOf(b, p) == {slotOf[k][p] : k \in buckets[b]}

(* Largest first, ties by index: countingSortBucketsInto and the heap's less. *)
Before(a, b) == bucketSize(a) > bucketSize(b) \/ (bucketSize(a) = bucketSize(b) /\ a < b)
bucketOrder ==
    [i \in 1 .. numBuckets |->
        CHOOSE b \in Buckets : Cardinality({a \in Buckets : Before(a, b)}) = i - 1]

(* hasNoDuplicateSlots marks the slots with the next generation, and is misled by
   a slot that carries this mark already. *)
NoDuplicateSlots(b, p) ==
    /\ Cardinality(SlotsOf(b, p)) = bucketSize(b)
    /\ bucketSize(b) > smallBucket => \A s \in SlotsOf(b, p) : slotGen[s] # generation + 1

AllFree(b, p) == \A s \in SlotsOf(b, p) : ~Taken(s)
FreePilots(b) == {p \in Pilots : AllFree(b, p) /\ NoDuplicateSlots(b, p)}

(* The pilots findFreePilot looks at: up to the first that fits. *)
TriedPilots(b) ==
    LET fits == FreePilots(b)
    IN  IF fits = {} THEN Pilots ELSE 0 .. Min(fits)

(* The slots hasNoDuplicateSlots marks: those of the keys before the first whose slot is
   marked already. *)
MarkedSlots(b, p) ==
    LET alike(j, k) == slotOf[j][p] = slotOf[k][p]
        stops(k) == \/ slotGen[slotOf[k][p]] = generation + 1
                    \/ \E j \in buckets[b] : j < k /\ alike(j, k)
    IN  {slotOf[k][p] : k \in {i \in buckets[b] : \A l \in buckets[b] : l <= i => ~stops(l)}}

(* slotGen after findFreePilot: a large bucket's duplicate check has reset the
   slots it marked, all of them free, to generation 0. *)
Unmarked(b) ==
    LET marked == UNION {MarkedSlots(b, p) : p \in {q \in TriedPilots(b) : AllFree(b, q)}}
    IN  IF bucketSize(b) <= smallBucket THEN slotGen
        ELSE [s \in AllSlots |-> IF s \in marked THEN 0 ELSE slotGen[s]]

(* placeBucket, when gen is what slotGen has become by then. *)
PlaceBucket(b, p, gen) ==
    LET slots == SlotsOf(b, p)
    IN  /\ pilots' = [pilots EXCEPT ![b] = p]
        /\ slotOwner' = [s \in AllSlots |-> IF s \in slots THEN b ELSE slotOwner[s]]
        /\ slotGen' = [s \in AllSlots |-> IF s \in slots THEN generation ELSE gen[s]]

(* Phase 1: the first pilot that needs no eviction. *)
PlaceFree(b, heap) ==
    /\ FreePilots(b) # {}
    /\ PlaceBucket(b, Min(FreePilots(b)), Unmarked(b))
    /\ processedGen' = [processedGen EXCEPT ![b] = generation]
    /\ pendingHeap' = heap
    /\ UNCHANGED <<generation, pinVars, evictions>>

--------------------------------------------------------------------------------
(* Phase 2. *)

Owners(b, p) == {slotOwner[s] : s \in {t \in SlotsOf(b, p) : Taken(t)}}

(* The collision score counts the owner of every taken slot with the square of its
   size: the pairs of its keys. *)
Score(b, p) ==
    Cardinality({t \in SlotsOf(b, p) \X (Keys \X Keys) :
                    /\ Taken(t[1])
                    /\ t[2] \in buckets[slotOwner[t[1]]] \X buckets[slotOwner[t[1]]]})

ViablePilots(b) ==
    {p \in Pilots : /\ Owners(b, p) \cap pinnedBits = {}
                    /\ Cardinality(SlotsOf(b, p)) = bucketSize(b)}

(* The pilot the scan from p0 ends with: the first cheap enough to stop at, or
   else the first of the cheapest. *)
BestPilot(b, p0) ==
    LET distance(p) == (p - p0) % numPilotValues
        viable == ViablePilots(b)
        cheap == {p \in viable : Score(b, p) <= bucketSize(b) * bucketSize(b)}
        cheapest == {p \in viable : \A q \in viable : Score(b, p) <= Score(b, q)}
        candidates == IF cheap # {} THEN cheap ELSE cheapest
    IN  CHOOSE p \in candidates : \A q \in candidates : distance(p) <= distance(q)

(* slotGen after evictBucket for every evicted bucket: the slots its pilot gives
   its keys, as far as it still owns them. *)
EvictedGen(b, evicted) ==
    LET gen == Unmarked(b)
    IN  [s \in AllSlots |->
            IF /\ Taken(s) /\ slotOwner[s] \in evicted
               /\ s \in SlotsOf(slotOwner[s], pilots[slotOwner[s]])
              THEN 0 ELSE gen[s]]

(* Seeded fault: an evicted bucket still counts as placed. *)
ProcessedAfterKept(b, evicted) == [processedGen EXCEPT ![b] = generation]

(* clearProcessed for the evicted buckets, setProcessed for b. *)
ProcessedAfter(b, evicted) ==
    [c \in Buckets |-> IF c = b THEN generation ELSE IF c \in evicted THEN 0 ELSE processedGen[c]]

(* Seeded fault: the bucket that leaves the ring stays marked. *)
PinKept(b) ==
    /\ pinned' = [pinned EXCEPT ![pinnedIdx] = b]
    /\ pinnedBits' = pinnedBits \cup {b}
    /\ pinnedIdx' = (pinnedIdx + 1) % pinnedSize

(* pin: the ring and the bit vector move together. *)
Pin(b) ==
    /\ pinned' = [pinned EXCEPT ![pinnedIdx] = b]
    /\ pinnedBits' = (pinnedBits \ {pinned[pinnedIdx]}) \cup {b}
    /\ pinnedIdx' = (pinnedIdx + 1) % pinnedSize

PlaceEvicting(b, heap) ==
    /\ FreePilots(b) = {} /\ ViablePilots(b) # {}
    /\ \E p0 \in Pilots :
          LET p == BestPilot(b, p0)
              evicted == Owners(b, p) \ {b}
          IN  /\ PlaceBucket(b, p, EvictedGen(b, evicted))
              /\ processedGen' = ProcessedAfter(b, evicted)
              /\ pendingHeap' = heap \cup evicted
              /\ evictions' = evictions + Cardinality(evicted)
    /\ Pin(b)
    /\ UNCHANGED generation

NoPilot(b) == FreePilots(b) = {} /\ ViablePilots(b) = {}

(* hasDuplicateSlotInput tells the error: keys of equal slot input have equal slots under
   every pilot. Keys with equal slots need not have equal inputs, so it may not find any. *)
FailuresOf(b) ==
    IF \E j, k \in buckets[b] : j # k /\ slotOf[j] = slotOf[k]
    THEN {"duplicate", "indistinguishable"} ELSE {"indistinguishable"}

--------------------------------------------------------------------------------
maxEvictions == maxEvictionMultiplier * numSlots

LimitExceeded == evictions' > maxEvictions

(* After a step of solve: drain the heap, go on with bucketOrder, or give up. *)
Continue ==
    pc' = IF LimitExceeded /\ (pc = "drain" \/ pendingHeap' = {}) THEN "limit"
          ELSE IF pendingHeap' # {} THEN "drain" ELSE "solve"

Fail(b, heap) ==
    /\ pc' \in FailuresOf(b)
    /\ slotGen' = Unmarked(b)
    /\ pendingHeap' = heap
    /\ UNCHANGED <<pilots, slotOwner, processedGen, generation, pinVars, evictions>>

(* processBucketWithHeap, with the heap as it is when b has been taken from it. *)
ProcessBucket(b, heap) ==
    \/ /\ PlaceFree(b, heap) \/ PlaceEvicting(b, heap)
       /\ Continue
    \/ /\ NoPilot(b)
       /\ Fail(b, heap)

(* The next bucket of bucketOrder: an empty one gets pilot 0. *)
ProcessNext ==
    /\ pc = "solve" /\ next <= numBuckets
    /\ next' = next + 1
    /\ LET b == bucketOrder[next]
       IN  \/ /\ bucketSize(b) = 0
              /\ pilots' = [pilots EXCEPT ![b] = 0]
              /\ processedGen' = [processedGen EXCEPT ![b] = generation]
              /\ UNCHANGED <<slotOwner, slotGen, generation, pinVars, evictions, pendingHeap, pc>>
           \/ /\ bucketSize(b) > 0
              /\ IF isProcessed(b)
                   THEN UNCHANGED <<tableVars, pinVars, evictions, pendingHeap, pc>>
                   ELSE ProcessBucket(b, pendingHeap)
    /\ UNCHANGED <<blockVars, attempt, remap>>

(* pendingHeap.pop. *)
Popped == CHOOSE b \in pendingHeap : \A c \in pendingHeap \ {b} : Before(b, c)

(* The largest evicted bucket is placed again. *)
DrainHeap ==
    /\ pc = "drain"
    /\ LET b == Popped
           heap == pendingHeap \ {b}
       IN  IF isProcessed(b)
             THEN /\ pendingHeap' = heap
                  /\ pc' = IF heap # {} THEN "drain"
                           ELSE IF evictions > maxEvictions THEN "limit" ELSE "solve"
                  /\ UNCHANGED <<tableVars, pinVars, evictions>>
             ELSE ProcessBucket(b, heap)
    /\ UNCHANGED <<blockVars, next, attempt, remap>>

(* Seeded fault: the cursor does not skip taken slots. *)
HoleForUnchecked(o, holes) == Cardinality({t \in numKeys .. o - 1 : Taken(t)})

(* The hole an overflow slot is mapped to: as many holes further on as there are
   taken overflow slots before it. *)
HoleFor(o, holes) ==
    LET before == Cardinality({t \in numKeys .. o - 1 : Taken(t)})
    IN  CHOOSE h \in holes : Cardinality({g \in holes : g < h}) = before

(* Seeded fault: entries nobody sets keep what an earlier block left in them. *)
RemapUncleared == remap

(* The buffer before the holes are entered: entries of overflow slots nobody uses
   stay 0. *)
RemapCleared == [i \in Overflow |-> 0]

(* buildRemap; it panics when it runs out of holes. *)
BuildRemap ==
    /\ pc = "solve" /\ next > numBuckets
    /\ LET holes == {s \in 0 .. numKeys - 1 : ~Taken(s)}
           used == {o \in numKeys .. numSlots - 1 : Taken(o)}
       IN  IF Cardinality(used) > Cardinality(holes)
             THEN pc' = "panic" /\ UNCHANGED remap
             ELSE /\ remap' = [i \in Overflow |->
                                  IF numKeys + i \in used THEN HoleFor(numKeys + i, holes)
                                  ELSE RemapCleared[i]]
                  /\ pc' = "done"
    /\ UNCHANGED <<blockVars, tableVars, pinVars, evictions, pendingHeap, next, attempt>>

(* The block builder has no more blocks. *)
Finished ==
    /\ pc \in Ended
    /\ UNCHANGED vars

Step == Retry \/ ProcessNext \/ DrainHeap \/ BuildRemap

Next == SolveBlock \/ BuildEmpty \/ BuildOverflow \/ Step \/ Finished

Spec == Init /\ [][Next]_vars

--------------------------------------------------------------------------------
(* The stored metadata: a byte for every pilot, the remap table's count and entries. *)
remapTableHeaderSize == 2
remapTableEntrySize == 2
metadataLenOf(keysInBlock) ==
    numBuckets + remapTableHeaderSize
      + (IF keysInBlock = 0 THEN 0 ELSE overflow * remapTableEntrySize)

(* What QuerySlot returns besides a slot. *)
NotFound == -1
Corrupted == -2
OutOfBounds == -3    \* the slice expression panics

RemapTooShort(len) ==
    len - numBuckets < remapTableHeaderSize + overflow * remapTableEntrySize

(* lookupRemap of overflow slot numKeys + idx, in metadata of len bytes. *)
lookupRemap(idx, len) ==
    LET offset == numBuckets + remapTableHeaderSize + idx * remapTableEntrySize
    IN  IF offset + remapTableEntrySize <= len THEN remap[idx] ELSE OutOfBounds

(* Decoder.QuerySlot, for a key of bucket b that pilot p sends to hash[p], when len bytes
   of the metadata are there. *)
QuerySlot(b, hash, keysInBlock, len) ==
    LET slot == hash[pilots[b]]
    IN  IF keysInBlock = 0 THEN NotFound
        ELSE IF len < numBuckets THEN Corrupted
        ELSE IF slot < keysInBlock THEN slot
        ELSE IF RemapTooShort(len) THEN Corrupted
        ELSE lookupRemap(slot - keysInBlock, len)

(* Properties. *)

(* A solved block is a minimal perfect hash: buildRemap finds a hole for every key in
   an overflow slot, and QuerySlot gives the block's keys the ranks 0 to numKeys - 1,
   each exactly once. *)
MinimalPerfect ==
    /\ pc # "panic"
    /\ pc = "done" =>
         LET n == numKeys
         IN  {QuerySlot(BucketOf(k), slotOf[k], n, metadataLenOf(n)) : k \in BlockKeys} = 0 .. n - 1

(* Any key, in the block or not, is answered from the metadata of a built block with one
   of the block's slots: not one a larger block left in the remap table. When the end of
   the metadata is missing the answer is the same or ErrCorruptedIndex, and nothing
   beyond the end is read. *)
QueriesStayInBlock ==
    pc = "done" =>
        LET n == numKeys
            metadataLen == metadataLenOf(n)
        IN  \A b \in Buckets : \A s \in 0 .. n + overflow - 1 :
              LET hash == [p \in Pilots |-> s]
                  intact == QuerySlot(b, hash, n, metadataLen)
              IN  /\ intact \in (IF n = 0 THEN {NotFound} ELSE 0 .. n - 1)
                  /\ \A len \in 0 .. metadataLen :
                       QuerySlot(b, hash, n, len) \in {Corrupted, intact}

(* While a block is solved, the taken slots are exactly the slots of the buckets
   counted as placed, each owned by its bucket: no eviction leaves a slot behind
   or takes one from a placed bucket, and no entry of an earlier block shows. *)
SlotsMatchPilots ==
    pc \in {"solve", "drain"} =>
        \A s \in AllSlots :
            /\ Taken(s) => /\ isProcessed(slotOwner[s])
                           /\ s \in SlotsOf(slotOwner[s], pilots[slotOwner[s]])
            /\ \A b \in Buckets : isProcessed(b) /\ s \in SlotsOf(b, pilots[b])
                                    => Taken(s) /\ slotOwner[s] = b

(* The buckets solve has come past are placed or wait in the heap, never both, and
   those to come are not placed: no eviction is forgotten and none queued twice,
   so the isProcessed tests of solve never skip a bucket. *)
NothingForgotten ==
    pc \in {"solve", "drain"} =>
        /\ \A i \in 1 .. next - 1 : isProcessed(bucketOrder[i]) # (bucketOrder[i] \in pendingHeap)
        /\ \A i \in next .. numBuckets : ~isProcessed(bucketOrder[i])

(* The bit vector isPinned reads holds exactly the buckets of the ring, all placed:
   a pinned bucket is never evicted, so none enters the ring twice. *)
PinnedMatchesRing ==
    /\ pinnedBits = {pinned[i] : i \in 0 .. pinnedSize - 1} \ {NoBucket}
    /\ pc \in {"solve", "drain"} => \A b \in pinnedBits : isProcessed(b)
    /\ \A i, j \in 0 .. pinnedSize - 1 : pinned[i] = pinned[j] /\ pinned[i] # NoBucket => i = j

(* Every solve ends, although evicted buckets evict others and failed attempts start
   again: each step ends the block, starts one of the remaining attempts, spends
   evictions of a limited number (exceeded by at most two steps), or leaves fewer
   buckets to place without spending any. *)
unplaced == numBuckets - next + 1 + Cardinality(pendingHeap)
SolveProgresses ==
    [][Step => \/ pc' \in Ended
               \/ attempt' > attempt /\ attempt' < maxGlobalRetries
               \/ /\ attempt' = attempt
                  /\ \/ evictions' > evictions /\ evictions' <= maxEvictions + 2 * numBuckets
                     \/ evictions' = evictions /\ unplaced' < unplaced]_vars
================================================================================
