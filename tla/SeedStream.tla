----------------------------- MODULE SeedStream ------------------------------
(***************************************************************************)
(* How a block stores its bucket seeds: a stream of Golomb-Rice codes, in  *)
(* which a run of grMaxQuotient ones stands for a seed kept elsewhere, and *)
(* the fallback list those seeds are kept in, at the end of the metadata   *)
(* (internal/bijection/encoding.go, decode.go).                            *)
(***************************************************************************)
EXTENDS EliasFano, Sequences

CONSTANTS blockBits,                 \* bits of a bucket index in a fallback entry (10)
          golombParameterTable,      \* Golomb-Rice parameter of the sizes 0 .. grMaxSize
          grMaxSize,                 \* the largest (half) bucket with a code (8)
          compactFallbackEntrySize,  \* bytes of a fallback entry (4)
          fallbackValidationXOR,     \* 0x55
          maxFallbackEntries         \* 255

ASSUME SeedStreamAssumption ==
    /\ blockBits \in Nat /\ grMaxSize \in Nat /\ compactFallbackEntrySize \in Nat
    /\ golombParameterTable \in [0 .. grMaxSize -> Nat]
    /\ compactFallbackEntrySize * ByteBits > blockBits + 1
    /\ fallbackValidationXOR \in 0 .. 2^ByteBits - 1
    /\ maxFallbackEntries \in 0 .. 2^ByteBits - 1

fallbackMarker == -1
seedBits == compactFallbackEntrySize * ByteBits - 1 - blockBits

golombParameter(bucketSize) ==
    IF bucketSize <= grMaxSize THEN golombParameterTable[bucketSize]
    ELSE golombParameterTable[grMaxSize]

maxEncodableSeed(bucketSize) ==
    LET k == golombParameter(bucketSize)
    IN  IF k = 0 THEN 0 ELSE grMaxQuotient * 2^k

maxExtendedSeed == 2^seedBits

-----------------------------------------------------------------------------
(* A seed too large for the code, or for a bucket too large to have one, leaves the
   marker behind as encodeFallbackMarker does. *)
encodeFallbackMarker(bw) == writeOnes(bw, grMaxQuotient)

encodeSeed(bw, seed, bucketSize) ==
    LET k == golombParameter(bucketSize)
        q == seed \div 2^k
    IN  IF bucketSize <= 1 THEN bw
        ELSE IF q >= grMaxQuotient \/ bucketSize > grMaxSize THEN writeOnes(bw, grMaxQuotient)
        ELSE writeBits(writeBit(writeOnes(bw, q), 0), BitsOf(seed, k), k)

(* The reader after one code, and the seed. *)
CodedSeed(q, k, rest) == [br |-> rest.br, seed |-> q * 2^k + ValueOf(rest.value)]
SeedAfterUnary(unary, k) ==
    IF unary.count >= grMaxQuotient THEN [br |-> unary.br, seed |-> fallbackMarker]
    ELSE CodedSeed(unary.count, k, readBits(unary.br, k))

decodeGRSeedFast(br, bucketSize) ==
    IF bucketSize <= 1 THEN [br |-> br, seed |-> 0]
    ELSE SeedAfterUnary(readUnaryMax16(br), golombParameter(bucketSize))

(* QuerySlot skips the codes of the buckets before its own without decoding them. *)
SkipAfterUnary(unary, k) ==
    IF unary.count >= grMaxQuotient THEN unary.br ELSE skipBits(unary.br, k)

skipSeed(br, bucketSize) ==
    IF bucketSize <= 1 THEN br
    ELSE SkipAfterUnary(readUnaryMax16(br), golombParameter(bucketSize))

-----------------------------------------------------------------------------
(* [count][entries][count XOR 0x55]; an entry is its seed, then the half, then the
   bucket, from the least significant bit up. *)
PackEntry(e) ==
    BitsOf(e.seed, seedBits)
      \cup Shl(BitsOf(e.subBucket, 1), seedBits, ByteBits * compactFallbackEntrySize)
      \cup Shl(BitsOf(e.bucketIndex, ByteBits * Uint16Bytes), 1 + seedBits,
               ByteBits * compactFallbackEntrySize)

UnpackEntry(packed) ==
    [bucketIndex |-> ValueOf(Shr(packed, 1 + seedBits) \cap Ones(blockBits)),
     subBucket |-> ValueOf(Shr(packed, seedBits) \cap Ones(1)),
     seed |-> ValueOf(packed \cap Ones(seedBits))]

encodeFallbackListIntoWithB(entries) ==
    LET count == BitsOf(Len(entries), ByteBits)
        Body(s, i) == Concat(s, Slice(compactFallbackEntrySize, PackEntry(entries[i + 1])))
        list == ForRange(Body, Slice(1, count), Len(entries))
    IN  Concat(list, Slice(1, Xor(count, BitsOf(fallbackValidationXOR, ByteBits))))

decodeFallbackListWithB(data) ==
    LET count == ValueOf(ByteAt(data, 0))
        at(i) == 1 + (i - 1) * compactFallbackEntrySize
    IN  IF data.len < 2 \/ count = 0 \/ data.len < 2 + count * compactFallbackEntrySize THEN <<>>
        ELSE [i \in 1 .. count |-> UnpackEntry(Load(data, at(i), compactFallbackEntrySize))]

(* The list ends the metadata but nothing says where it starts: an offset will do when its
   byte is a count that makes the list end where the metadata ends, and the last byte
   confirms that count. The offsets are tried from the end. *)
FallbackOffsets(metadata, seedStreamOffset) ==
    LET longest == 2 + maxFallbackEntries * compactFallbackEntrySize
        first == Max({seedStreamOffset, metadata.len - longest})
        fits(at) ==
            LET count == ByteAt(metadata, at)
            IN  /\ 2 + ValueOf(count) * compactFallbackEntrySize = metadata.len - at
                /\ ByteAt(metadata, metadata.len - 1)
                     = Xor(count, BitsOf(fallbackValidationXOR, ByteBits))
    IN  {at \in first .. metadata.len - 2 : fits(at)}

(* The seeds of a bucket with the markers replaced; a marker without an entry stays. An
   entry of the second half is not taken for the first, and the first match wins. *)
FromList(list, bucketIdx, seed0, seed1) ==
    LET entries(sub) == {i \in DOMAIN list : list[i].bucketIndex = bucketIdx
                                                /\ list[i].subBucket = sub}
        pick(seed, found) ==
            IF seed # fallbackMarker \/ found = {} THEN seed ELSE list[Min(found)].seed
    IN  <<pick(seed0, entries(0)), pick(seed1, entries(1))>>

resolveFallbackSeeds(metadata, seedStreamOffset, bucketIdx, seed0, seed1) ==
    LET offsets == FallbackOffsets(metadata, seedStreamOffset)
    IN  FromList(IF offsets = {} THEN <<>>
                 ELSE decodeFallbackListWithB(From(metadata, Max(offsets))),
                 bucketIdx, seed0, seed1)
=============================================================================
