--------------------------- MODULE BijectionBlock ----------------------------
(***************************************************************************)
(* The Bijection algorithm as a block builder and decoder                  *)
(* (internal/bijection/builder.go, config.go, QuerySlot of decode.go).     *)
(*                                                                         *)
(* One builder makes a block after another out of the same buffers; what   *)
(* it writes is kept to the bit: checkpoints, Elias-Fano code, seed stream *)
(* and fallback list, and the entries at their slots.                      *)
(***************************************************************************)
EXTENDS BijectionSolver, EntryEncoding, Bags

CONSTANTS bucketsPerBlock, checkpointInterval,
          maxKeysPerBlock,     \* expected keys per block + 7 sigma
          efUpperBound, seedsUpperBound, fallbackUpperBound,
          EntrySizes,          \* the pairs <<fingerprintSize, payloadSize>> considered
          Inputs,              \* Inputs[i][b]: what may be added to bucket b of block i
          PayloadOf(_)         \* the payload that goes with a key

ASSUME BijectionBlockAssumption ==
    /\ bucketsPerBlock \in Nat \ {0} /\ checkpointInterval \in Nat \ {0}
    /\ bucketsPerBlock % checkpointInterval = 0 /\ bucketsPerBlock <= 2^blockBits
    /\ maxKeysPerBlock \in 0 .. Uint16Max
    /\ {efUpperBound, seedsUpperBound, fallbackUpperBound} \subseteq Nat
    /\ EntrySizes \subseteq (0 .. HashBits \div (2 * ByteBits)) \X (0 .. WordBytes)
    /\ \A i \in DOMAIN Inputs :
         Inputs[i] \in [0 .. bucketsPerBlock - 1 -> SUBSET Seq(Keys)]

Buckets == 0 .. bucketsPerBlock - 1
numCheckpoints == bucketsPerBlock \div checkpointInterval - 1
checkpointsSize == numCheckpoints * 2 * Uint16Bytes

(* Seeded fault: the bound leaves out the fallback list. *)
EstimateWithoutFallbackList(numKeys) ==
    IF numKeys = 0 THEN checkpointsSize + CeilBytes(bucketsPerBlock) + 1
    ELSE checkpointsSize + efUpperBound + seedsUpperBound

(* The bound the metadata buffers are allocated by. *)
estimateMetadataSize(numKeys) ==
    IF numKeys = 0 THEN checkpointsSize + CeilBytes(bucketsPerBlock) + 1
    ELSE checkpointsSize + efUpperBound + seedsUpperBound + fallbackUpperBound

VARIABLES fingerprintSize, payloadSize,
          block,         \* the number of the block being built
          filled,        \* input: buckets of the block whose keys have been added
          buckets, keysInBlock,
          cumulative, seeds, fallbackList,   \* of the block last built
          seedEncoder, efBuffer,             \* reused from block to block
          metadataBuf, payloadsBuf,          \* the caller's buffers, reused too
          result         \* what BuildSeparatedInto returned

config == <<fingerprintSize, payloadSize>>
builder == <<buckets, keysInBlock, cumulative, seeds, fallbackList, seedEncoder, efBuffer>>
vars == <<config, block, filled, builder, metadataBuf, payloadsBuf, result>>

entrySize == payloadSize + fingerprintSize
MaxIndexMetadataSize == estimateMetadataSize(maxKeysPerBlock)
NoResult == [status |-> "open", metadataLen |-> 0]

-----------------------------------------------------------------------------
(* The metadata. *)

computeCumulativeCounts ==
    [i \in Buckets |-> Uint16(MapThenSumSet(LAMBDA b : Len(buckets[b]), 0 .. i))]

(* The position in the high bits where a segment starts, after the bits of all the
   elements before it. *)
EFBitPos(cumul, i) ==
    LET bucketIdx == (i + 1) * checkpointInterval
    IN  bucketIdx + cumul[bucketIdx - 1] \div 2^computeEFLowBits(bucketsPerBlock, keysInBlock)

encodeBucketSeeds(bw, size, pair) ==
    LET put(w, seed, n) ==
            IF seed = fallbackMarker THEN encodeFallbackMarker(w) ELSE encodeSeed(w, seed, n)
    IN  IF size <= 1 THEN bw
        ELSE IF size >= splitThreshold
        THEN put(put(bw, pair[1], size \div 2), pair[2], size - size \div 2)
        ELSE put(bw, pair[1], size)

(* The writer after all buckets, and its position at the start of every segment. *)
encodeSeedsWithCheckpoints(bucketSeeds) ==
    LET Body(x, b) ==
            LET i == b \div checkpointInterval - 1
            IN  [bw |-> encodeBucketSeeds(x.bw, Len(buckets[b]), bucketSeeds[b]),
                 at |-> IF b > 0 /\ b % checkpointInterval = 0 /\ i < numCheckpoints
                        THEN [x.at EXCEPT ![i] = bitsWritten(x.bw)] ELSE x.at]
    IN  ForRange(Body, [bw |-> reset(seedEncoder), at |-> [i \in 0 .. numCheckpoints - 1 |-> 0]],
                 bucketsPerBlock)

(* checkpoints.encode: the positions in the high bits, then those in the seed stream. *)
encodeCheckpoints(efBitPos, seedBitPos) ==
    LET Body(s, i) == Concat(s, PutUint(IF i < numCheckpoints THEN efBitPos[i]
                                        ELSE seedBitPos[i - numCheckpoints], Uint16Bytes))
    IN  ForRange(Body, Empty, 2 * numCheckpoints)

(* Checkpoints, Elias-Fano code, seed stream and fallback list, with the errors in the
   order in which they are found. *)
AssembledMetadata(solution, ef, efBitPos, stream) ==
    LET efData == UpTo(ef, eliasFanoSize(bucketsPerBlock, keysInBlock))
        bw == flush(stream.bw)
        parts == Concat(Concat(encodeCheckpoints(efBitPos, stream.at), efData), bw.buf)
        data == Concat(parts, encodeFallbackListIntoWithB(solution.fallbackList))
        TooFar(at) == \E i \in DOMAIN at : at[i] > Uint16Max
        out(err, encoder) == [err |-> err, data |-> IF err = NoErr THEN data ELSE Empty,
                              efBuffer |-> ef, seedEncoder |-> encoder]
    IN  IF TooFar(efBitPos) THEN out("EF bit position overflow", seedEncoder)
        ELSE IF TooFar(stream.at) THEN out("seed bit position overflow", stream.bw)
        ELSE IF Len(solution.fallbackList) > maxFallbackEntries THEN out(ErrBlockOverflow, bw)
        ELSE IF data.len > metadataBuf.len THEN out("metadata buffer too small", bw)
        ELSE out(NoErr, bw)

encodeSeparatedMetadata(cumul, solution) ==
    AssembledMetadata(solution,
                      encodeEliasFanoInto(cumul, bucketsPerBlock, keysInBlock, efBuffer),
                      [i \in 0 .. numCheckpoints - 1 |-> EFBitPos(cumul, i)],
                      encodeSeedsWithCheckpoints(solution.seeds))

(* The block without keys: no counts, no seeds, and no fallback list. *)
buildEmptyMetadata(dst) ==
    LET efBytes == eliasFanoSize(bucketsPerBlock, 0)
        clean == Store(Store(dst, 0, Slice(checkpointsSize, {})), checkpointsSize, Slice(efBytes, {}))
        ef == [clean EXCEPT !.ones = @ \cup {ByteBits * checkpointsSize + i : i \in Buckets}]
    IN  Store(ef, checkpointsSize + efBytes, Slice(1, {}))
emptyMetadataLen == checkpointsSize + eliasFanoSize(bucketsPerBlock, 0) + 1

-----------------------------------------------------------------------------
(* The entries. *)

(* The first entry of the list for the bucket and half; the search never fails on a
   solved block. *)
resolveFallbackSeed(solution, b, sub) ==
    LET list == solution.fallbackList
        found == {i \in DOMAIN list : list[i].bucketIndex = b /\ list[i].subBucket = sub}
    IN  IF solution.seeds[b][sub + 1] # fallbackMarker THEN solution.seeds[b][sub + 1]
        ELSE list[Min(found)].seed

(* The slot within the bucket that the builder writes an entry to. *)
slotWritten(key, size, pair) ==
    LET splitPoint == size \div 2
        h == mixFromParts(key, pair[1], size)
    IN  IF size >= splitThreshold
        THEN IF h < splitPoint THEN h
             ELSE splitPoint + mixFromParts(key, pair[2], size - splitPoint)
        ELSE IF size > 1 THEN h ELSE 0

(* Bucket after bucket, each at the slots that follow those of the buckets before. *)
encodePayloadsInto(dst, cumul, solution) ==
    LET start(b) == IF b = 0 THEN 0 ELSE cumul[b - 1]
        pair(b) == <<resolveFallbackSeed(solution, b, 0), resolveFallbackSeed(solution, b, 1)>>
        Put(s, b, e) ==
            WriteAnyEntry(s, start(b) + slotWritten(KeyOf(e), Len(buckets[b]), pair(b)),
                          fingerprintSize, payloadSize, e.fingerprint, e.payload)
        Bucket(s, b) == ForRange(LAMBDA t, i : Put(t, b, buckets[b][i + 1]), s, Len(buckets[b]))
    IN  IF entrySize = 0 THEN dst ELSE ForRange(Bucket, dst, bucketsPerBlock)

(* The worker's payload buffer grows to the block and keeps its old contents otherwise. *)
PayloadsBuf ==
    LET needed == keysInBlock * entrySize
    IN  IF payloadsBuf.len < needed THEN Slice(needed, {}) ELSE payloadsBuf

-----------------------------------------------------------------------------
(* The decoder. *)

ErrNotFound == [err |-> "not found", slot |-> 0]
ErrCorruptedIndex == [err |-> "corrupted index", slot |-> 0]

Checkpoint(metadata, i) == ValueOf(Load(metadata, i * Uint16Bytes, Uint16Bytes))
efBitPosAt(metadata, segment) == IF segment = 0 THEN 0 ELSE Checkpoint(metadata, segment - 1)
seedBitPosAt(metadata, segment) ==
    IF segment = 0 THEN 0 ELSE Checkpoint(metadata, numCheckpoints + segment - 1)

(* The counts of the buckets from the start of the segment to the bucket, and the count
   before the segment, which its checkpoint and the low bits of the bucket before give. *)
decodeCounts(metadata, numKeys, b) ==
    LET segment == b \div checkpointInterval
        segmentStart == segment * checkpointInterval
        efData == From(metadata, checkpointsSize)
        lowBits == computeEFLowBits(bucketsPerBlock, numKeys)
        at == efBitPosAt(metadata, segment)
        highVal == Max({at - segmentStart, 0})
        before == IF segment = 0 THEN 0
                  ELSE Uint16(highVal * 2^lowBits) + readEFLowBits(efData, segmentStart - 1, lowBits)
        counts == IF efData.len < WordBytes
                  THEN decodeEliasFanoUnrolled(efData, bucketsPerBlock, numKeys)
                  ELSE decodeEFRangeInline(efData, bucketsPerBlock, numKeys, segmentStart, b, at)
        start == [i \in segmentStart .. b |-> IF i > segmentStart THEN counts[i - 1] ELSE before]
    IN  [start |-> start, size |-> [i \in segmentStart .. b |-> Uint16(counts[i] - start[i])]]

(* The seeds of a bucket: the codes between the checkpoint and the bucket are skipped. *)
SkipBucketSeeds(br, n) ==
    IF n >= splitThreshold THEN skipSeed(skipSeed(br, n \div 2), n - n \div 2)
    ELSE skipSeed(br, n)

BucketReader(metadata, seedStreamOffset, b, size) ==
    LET segment == b \div checkpointInterval
        segmentStart == segment * checkpointInterval
    IN  ForRange(LAMBDA br, i : SkipBucketSeeds(br, size[segmentStart + i]),
                 skipBits(newBitReaderFast(From(metadata, seedStreamOffset)),
                          seedBitPosAt(metadata, segment)),
                 b - segmentStart)

SecondSeed(first, n) ==
    <<first.seed, IF n >= splitThreshold THEN decodeGRSeedFast(first.br, n - n \div 2).seed ELSE 0>>

StoredSeeds(br, n) ==
    SecondSeed(decodeGRSeedFast(br, IF n >= splitThreshold THEN n \div 2 ELSE n), n)

ResolvedSeeds(metadata, seedStreamOffset, b, pair) ==
    IF fallbackMarker \in {pair[1], pair[2]}
    THEN resolveFallbackSeeds(metadata, seedStreamOffset, b, pair[1], pair[2])
    ELSE pair

decodeSeeds(metadata, seedStreamOffset, b, size) ==
    ResolvedSeeds(metadata, seedStreamOffset, b,
                  StoredSeeds(BucketReader(metadata, seedStreamOffset, b, size), size[b]))

(* Seeded fault: the second half is spread over as many slots as the whole bucket. *)
SecondHalfOverWholeBucket(key, size, pair) ==
    LET h == mixFromParts(key, pair[1], size)
    IN  IF size < splitThreshold \/ h < size \div 2 THEN h
        ELSE size \div 2 + mixFromParts(key, pair[2], size)

(* The slot within the bucket, as the decoder computes it from the seeds it has read. *)
localSlot(key, size, pair) ==
    LET splitPoint == size \div 2
        h == mixFromParts(key, pair[1], size)
    IN  IF size >= splitThreshold /\ h >= splitPoint
        THEN splitPoint + mixFromParts(key, pair[2], size - splitPoint)
        ELSE IF size >= 2 THEN h ELSE 0

SlotInBucket(key, metadata, seedStreamOffset, b, counts) ==
    IF counts.size[b] = 0 THEN ErrNotFound
    ELSE IF metadata.len <= seedStreamOffset THEN ErrCorruptedIndex
    ELSE [err |-> NoErr,
          slot |-> counts.start[b]
                     + localSlot(key, counts.size[b],
                                 decodeSeeds(metadata, seedStreamOffset, b, counts.size))]

QuerySlot(key, metadata, numKeys) ==
    LET b == FastRange32(key[1], bucketsPerBlock)
    IN  IF numKeys = 0 THEN ErrNotFound
        ELSE IF metadata.len <= checkpointsSize THEN ErrCorruptedIndex
        ELSE SlotInBucket(key, metadata,
                          checkpointsSize + eliasFanoSize(bucketsPerBlock, numKeys), b,
                          decodeCounts(metadata, numKeys, b))

-----------------------------------------------------------------------------
Init ==
    /\ \E sizes \in EntrySizes : fingerprintSize = sizes[1] /\ payloadSize = sizes[2]
    /\ block = 1 /\ filled = 0
    /\ buckets = [b \in Buckets |-> <<>>] /\ keysInBlock = 0
    /\ cumulative = [b \in Buckets |-> 0]
    /\ seeds = [b \in Buckets |-> <<0, 0>>] /\ fallbackList = <<>>
    /\ seedEncoder = NewBitWriter /\ efBuffer = Empty
    /\ metadataBuf = Slice(MaxIndexMetadataSize, {}) /\ payloadsBuf = Empty
    /\ result = NoResult

Entry(key) ==
    [k0 |-> key[1], k1 |-> key[2], payload |-> PayloadOf(key) % 2^(ByteBits * payloadSize),
     fingerprint |-> extractFingerprint(key[1], key[2], fingerprintSize, HashBits)]

(* AddKey for every key of one bucket's input: each goes to the bucket k0 selects. *)
AddKey(bs, e) ==
    [bs EXCEPT ![FastRange32(e.k0, bucketsPerBlock)] = Append(@, e)]

AddKeys ==
    /\ filled < bucketsPerBlock /\ result.status = "open"
    /\ \E keys \in Inputs[block][filled] :
         /\ buckets' = ForRange(LAMBDA bs, i : AddKey(bs, Entry(keys[i + 1])), buckets, Len(keys))
         /\ keysInBlock' = keysInBlock + Len(keys)
    /\ filled' = filled + 1
    /\ UNCHANGED <<config, block, cumulative, seeds, fallbackList, seedEncoder, efBuffer,
                   metadataBuf, payloadsBuf, result>>

(* BuildSeparatedInto *)
BuildEmpty ==
    /\ keysInBlock = 0
    /\ metadataBuf' = buildEmptyMetadata(metadataBuf)
    /\ result' = [status |-> "built", metadataLen |-> emptyMetadataLen]
    /\ UNCHANGED <<builder, payloadsBuf>>

BuildOverflow ==
    /\ keysInBlock > maxKeysPerBlock
    /\ result' = [status |-> ErrBlockOverflow, metadataLen |-> 0]
    /\ UNCHANGED <<builder, metadataBuf, payloadsBuf>>

(* Steps 3 and 4: the metadata, then the entries. *)
EncodeBlock(cumul, solution) ==
    \E encoded \in {encodeSeparatedMetadata(cumul, solution)} :
      /\ efBuffer' = encoded.efBuffer /\ seedEncoder' = encoded.seedEncoder
      /\ metadataBuf' = Store(metadataBuf, 0, encoded.data)
      /\ IF encoded.err # NoErr
         THEN /\ result' = [status |-> encoded.err, metadataLen |-> 0]
              /\ UNCHANGED payloadsBuf
         ELSE /\ payloadsBuf' = encodePayloadsInto(PayloadsBuf, cumul, solution)
              /\ result' = [status |-> "built", metadataLen |-> encoded.data.len]

BuildBlock ==
    /\ keysInBlock \in 1 .. maxKeysPerBlock
    /\ \E cumul \in {computeCumulativeCounts}, solution \in {solveBijections(buckets, bucketsPerBlock)} :
         /\ cumulative' = cumul
         /\ seeds' = solution.seeds /\ fallbackList' = solution.fallbackList
         /\ IF solution.err = NoErr THEN EncodeBlock(cumul, solution)
            ELSE /\ result' = [status |-> solution.err, metadataLen |-> 0]
                 /\ UNCHANGED <<seedEncoder, efBuffer, metadataBuf, payloadsBuf>>
    /\ UNCHANGED <<buckets, keysInBlock>>

BuildSeparatedInto ==
    /\ filled = bucketsPerBlock /\ result.status = "open"
    /\ BuildEmpty \/ BuildOverflow \/ BuildBlock
    /\ UNCHANGED <<config, block, filled>>

(* Seeded fault: the bucket slices are not truncated. *)
ResetKeepsBuckets ==
    /\ result.status # "open" /\ block < Len(Inputs)
    /\ block' = block + 1 /\ filled' = 0
    /\ keysInBlock' = 0
    /\ cumulative' = [b \in Buckets |-> 0]
    /\ seeds' = [b \in Buckets |-> <<0, 0>>] /\ fallbackList' = <<>>
    /\ result' = NoResult
    /\ UNCHANGED <<config, buckets, seedEncoder, efBuffer, metadataBuf, payloadsBuf>>

(* Reset before the next block; it leaves the encoder and the buffers as they are. *)
Reset ==
    /\ result.status # "open" /\ block < Len(Inputs)
    /\ block' = block + 1 /\ filled' = 0
    /\ buckets' = [b \in Buckets |-> <<>>] /\ keysInBlock' = 0
    /\ cumulative' = [b \in Buckets |-> 0]
    /\ seeds' = [b \in Buckets |-> <<0, 0>>] /\ fallbackList' = <<>>
    /\ result' = NoResult
    /\ UNCHANGED <<config, seedEncoder, efBuffer, metadataBuf, payloadsBuf>>

Next == AddKeys \/ BuildSeparatedInto \/ Reset

Spec == Init /\ [][Next]_vars

-----------------------------------------------------------------------------
Built == result.status = "built" /\ keysInBlock > 0
Metadata == UpTo(metadataBuf, result.metadataLen)

AddedEntries == UNION {{buckets[b][i] : i \in DOMAIN buckets[b]} : b \in Buckets}
AddedBag ==
    [e \in AddedEntries |->
        MapThenSumSet(LAMBDA b : Cardinality({i \in DOMAIN buckets[b] : buckets[b][i] = e}), Buckets)]

StoredAt(slot) ==
    <<unpackFingerprintFromBytes(payloadsBuf, slot * entrySize, fingerprintSize),
      unpackPayloadFromBytes(payloadsBuf, slot * entrySize + fingerprintSize, payloadSize)>>

BuiltKeys == IF Built THEN {KeyOf(e) : e \in AddedEntries} ELSE {}
SlotOf == [k \in BuiltKeys |-> QuerySlot(k, Metadata, keysInBlock).slot]

Interface == INSTANCE BlockBuilder WITH
    added <- AddedBag, status <- result.status, slotOf <- SlotOf,
    stored <- [k \in BuiltKeys |-> StoredAt(SlotOf[k])]

(* The Bijection builder and decoder keep the promise of the block interface: through the
   bits of the metadata, and however the reused buffers were left by an earlier block, the
   keys of a built block are sent one to one onto its slots and find their own entries
   there; a duplicate key is never built in, and is blamed only when there is one. *)
ImplementsBlockBuilder == Interface!Spec

(* A key that is not in the block is answered with "not found" or with a slot of the
   block, never with a slot beyond it and never with an error (QuerySlot's "[0,
   keysInBlock)"): whichever bucket it meets, also one whose seeds are in the fallback
   list. *)
StrangersStayInBlock ==
    result.status = "built" =>
        \A q \in {QuerySlot(k, Metadata, keysInBlock) : k \in Keys} :
            q.err = "not found" \/ (q.err = NoErr /\ q.slot < keysInBlock)

(* From the checkpoint before it, every bucket's start and size are decoded exactly as the
   builder counted them, also by the fallback decoder that reads the whole code from its
   start; and the reader that skips the codes before the bucket arrives at the bucket's
   own: its seeds, or the markers that lead to them in the fallback list. *)
BucketsDecodedExactly ==
    Built =>
        LET offset == checkpointsSize + eliasFanoSize(bucketsPerBlock, keysInBlock)
            solution == [seeds |-> seeds, fallbackList |-> fallbackList]
        IN  /\ decodeEliasFanoUnrolled(From(Metadata, checkpointsSize), bucketsPerBlock, keysInBlock)
                 = cumulative
            /\ \A b \in Buckets :
                 LET counts == decodeCounts(Metadata, keysInBlock, b)
                 IN  /\ counts.start[b] = IF b = 0 THEN 0 ELSE cumulative[b - 1]
                     /\ counts.size[b] = Len(buckets[b])
                     /\ Len(buckets[b]) > 1 =>
                          decodeSeeds(Metadata, offset, b, counts.size)
                            = <<resolveFallbackSeed(solution, b, 0),
                                resolveFallbackSeed(solution, b, 1)>>

(* When the search for seeds fails, the error tells a duplicate key from keys that another
   global seed could separate: it is ErrDuplicateKey exactly when the bucket that stopped
   the search holds one key twice, whichever of the searches met it. *)
FailureNamesItsCause ==
    result.status \in {ErrDuplicateKey, ErrIndistinguishableHashes, ErrSplitBucketSeedSearchFailed} =>
        LET unsolved == {b \in Buckets : solveBucket(b, buckets[b]).err # NoErr}
        IN  (result.status = ErrDuplicateKey) = hasDuplicateMixParts(buckets[Min(unsolved)])

(* The bound the buffers are sized by (estimateMetadataSize) is enough for every block
   that can be built, and the 16-bit checkpoints reach every position. *)
MetadataFits ==
    /\ result.status \in {"open", "built", ErrDuplicateKey, ErrIndistinguishableHashes,
                          ErrSplitBucketSeedSearchFailed, ErrBlockOverflow}
    /\ result.metadataLen <= estimateMetadataSize(keysInBlock)
=============================================================================
