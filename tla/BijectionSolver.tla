--------------------------- MODULE BijectionSolver ---------------------------
(***************************************************************************)
(* The seed searches of the Bijection algorithm: one seed for a bucket,    *)
(* or, from splitThreshold keys on, one that sends exactly half of them to *)
(* distinct slots of the first half and one for the second half            *)
(* (internal/bijection/solver.go, solver_build.go, mix.go).                *)
(*                                                                         *)
(* An entry is [k0, k1, payload, fingerprint]; entries with the same k0    *)
(* and k1 are the same key.                                                *)
(***************************************************************************)
EXTENDS SeedStream

CONSTANTS HashBits,          \* bits of a hash half (64)
          globalSeed,
          Keys,              \* the pairs <<k0, k1>> that are added or asked for
          splitThreshold     \* 8

(* Half of the extended budget. *)
splitBucketMaxSeed == maxExtendedSeed \div 2

ASSUME BijectionSolverAssumption ==
    /\ HashBits \in Nat /\ globalSeed \in 0 .. 2^HashBits - 1
    /\ Keys \subseteq (0 .. 2^HashBits - 1) \X (0 .. 2^HashBits - 1)
    /\ splitThreshold \in Nat /\ splitThreshold \div 2 > 1
    /\ splitThreshold - 1 <= grMaxSize
    /\ \A size \in 0 .. grMaxSize : maxEncodableSeed(size) <= splitBucketMaxSeed

XorHash(a, b) == ValueOf(Xor(BitsOf(a, HashBits), BitsOf(b, HashBits)))

(* FastRange32: the high word of hash * n. *)
FastRange32(hash, n) == (hash * n) \div 2^HashBits

wymix(a, b) == XorHash((a * b) \div 2^HashBits, (a * b) % 2^HashBits)

(* The mixed hash of every key under every seed; both halves of the key are xored with
   the global seed first. *)
Mixed ==
    [key \in Keys |->
        LET xoredK0 == XorHash(key[1], globalSeed)
            xoredK1 == XorHash(key[2], globalSeed)
        IN  [seed \in 0 .. maxExtendedSeed - 1 |-> wymix(XorHash(xoredK0, seed), xoredK1)]]

mixFromParts(key, seed, bucketSize) ==
    IF bucketSize <= 1 THEN 0 ELSE FastRange32(Mixed[key][seed], bucketSize)

KeyOf(entry) == <<entry.k0, entry.k1>>
KeysOf(bucket) == {KeyOf(bucket[i]) : i \in DOMAIN bucket}

hasDuplicateMixParts(bucket) == Cardinality(KeysOf(bucket)) < Len(bucket)

-----------------------------------------------------------------------------
ErrDuplicateKey == "duplicate key"
ErrIndistinguishableHashes == "indistinguishable hashes"
ErrSplitBucketSeedSearchFailed == "split bucket seed search failed"
ErrBlockOverflow == "block overflow"
NoErr == "none"

(* Seeds under which the entries of the bucket take different slots. Two entries of one
   key share a slot under every seed. *)
Separates(bucket, seed) ==
    Cardinality({mixFromParts(k, seed, Len(bucket)) : k \in KeysOf(bucket)}) = Len(bucket)

FirstSeed(seeds) == IF seeds = {} THEN fallbackMarker ELSE Min(seeds)

(* The first seed within the reach of the Golomb-Rice code, or the marker: solveBucket2
   to solveBucket8 and the bitmask and array variants differ in how they look for it. *)
solveDirectBucket(bucket) ==
    IF Len(bucket) <= 1 THEN 0
    ELSE FirstSeed({s \in 0 .. maxEncodableSeed(Len(bucket)) - 1 : Separates(bucket, s)})

(* Seeded fault: keys that no seed separates are not checked for duplicates. *)
ExtendedWithoutDuplicateCheck(bucket) ==
    LET seed == FirstSeed({s \in 0 .. maxExtendedSeed - 1 : Separates(bucket, s)})
    IN  IF seed = fallbackMarker THEN [err |-> ErrIndistinguishableHashes, seed |-> 0]
        ELSE [err |-> NoErr, seed |-> seed]

(* The longer search, for a seed that goes to the fallback list; a duplicate is looked for
   before it. *)
solveExtended(bucket) ==
    LET seed == FirstSeed({s \in 0 .. maxExtendedSeed - 1 : Separates(bucket, s)})
    IN  IF Len(bucket) <= 1 THEN [err |-> NoErr, seed |-> 0]
        ELSE IF hasDuplicateMixParts(bucket) THEN [err |-> ErrDuplicateKey, seed |-> 0]
        ELSE IF seed = fallbackMarker THEN [err |-> ErrIndistinguishableHashes, seed |-> 0]
        ELSE [err |-> NoErr, seed |-> seed]

(* What a search leaves for a bucket: its seeds, with the marker for those that went to
   the fallback list. *)
Solved(err, seeds, fallback) == [err |-> err, seeds |-> seeds, fallback |-> fallback]
Fallback(b, sub, seed) == [bucketIndex |-> b, subBucket |-> sub, seed |-> seed]
Failed(err) == Solved(err, <<0, 0>>, <<>>)

(* The half that starts the bucket is filled by the hash itself: exactly splitPoint
   entries fall into it, on different slots. *)
Splits(bucket, seed) ==
    LET splitPoint == Len(bucket) \div 2
        h(i) == mixFromParts(KeyOf(bucket[i]), seed, Len(bucket))
        first == {i \in DOMAIN bucket : h(i) < splitPoint}
    IN  Cardinality(first) = splitPoint /\ Cardinality({h(i) : i \in first}) = splitPoint

SecondHalf(bucket, seed) ==
    SelectSeq(bucket, LAMBDA e : mixFromParts(KeyOf(e), seed, Len(bucket)) >= Len(bucket) \div 2)

(* The search for the second half's seed, when the first half has its own. *)
solveSecondHalf(b, splitPoint, seed0, half) ==
    LET far0 == splitPoint > grMaxSize \/ seed0 >= maxEncodableSeed(splitPoint)
        first == IF far0 THEN fallbackMarker ELSE seed0
        list0 == IF far0 THEN <<Fallback(b, 0, seed0)>> ELSE <<>>
        extended(ext) ==
            IF ext.err # NoErr THEN Solved(ext.err, <<0, 0>>, list0)
            ELSE Solved(NoErr, <<first, fallbackMarker>>, Append(list0, Fallback(b, 1, ext.seed)))
        direct(seed1) ==
            IF seed1 = fallbackMarker THEN extended(solveExtended(half))
            ELSE Solved(NoErr, <<first, seed1>>, list0)
    IN  direct(IF Len(half) > grMaxSize THEN fallbackMarker ELSE solveDirectBucket(half))

solveSplitBucket(b, bucket) ==
    LET seed0 == FirstSeed({s \in 0 .. splitBucketMaxSeed - 1 : Splits(bucket, s)})
    IN  IF seed0 = fallbackMarker
        THEN Failed(IF hasDuplicateMixParts(bucket) THEN ErrDuplicateKey
                    ELSE ErrSplitBucketSeedSearchFailed)
        ELSE solveSecondHalf(b, Len(bucket) \div 2, seed0, SecondHalf(bucket, seed0))

solveBucket(b, bucket) ==
    LET seed == solveDirectBucket(bucket)
        ext == solveExtended(bucket)
    IN  IF Len(bucket) >= splitThreshold THEN solveSplitBucket(b, bucket)
        ELSE IF seed # fallbackMarker THEN Solved(NoErr, <<seed, 0>>, <<>>)
        ELSE IF ext.err # NoErr THEN Failed(ext.err)
        ELSE Solved(NoErr, <<fallbackMarker, 0>>, <<Fallback(b, 0, ext.seed)>>)

(* The buckets in turn, up to the first error. *)
solveBijections(buckets, n) ==
    LET With(x, b, r) ==
            IF r.err # NoErr THEN [x EXCEPT !.err = r.err, !.fallbackList = @ \o r.fallback]
            ELSE [err |-> NoErr, seeds |-> [x.seeds EXCEPT ![b] = r.seeds],
                  fallbackList |-> x.fallbackList \o r.fallback]
        Body(x, b) == IF x.err # NoErr THEN x ELSE With(x, b, solveBucket(b, buckets[b]))
    IN  ForRange(Body, [err |-> NoErr, seeds |-> [b \in 0 .. n - 1 |-> <<0, 0>>],
                        fallbackList |-> <<>>], n)
=============================================================================
