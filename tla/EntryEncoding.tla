--------------------------- MODULE EntryEncoding -----------------------------
(***************************************************************************)
(* What is stored for a key beside its slot: a fingerprint and a payload,  *)
(* packed into one entry of the payload region (internal/encoding, key.go).*)
(***************************************************************************)
EXTENDS BitIO

CONSTANTS inlineEntrySizes,   \* entry sizes WriteEntry handles ({1, 4, 5, 8})
          fingerprintMixer    \* odd multiplier

ASSUME EntryEncodingAssumption ==
    /\ \A size \in inlineEntrySizes : size \in 1 .. WordBytes
    /\ fingerprintMixer \in Nat /\ fingerprintMixer % 2 = 1

(* The upper half of k0 ^ (k1 * C), cut to the bytes that are stored. *)
extractFingerprint(k0, k1, fpSize, hashBits) ==
    LET h == Xor(BitsOf(k0, hashBits), BitsOf((k1 * fingerprintMixer) % 2^hashBits, hashBits))
    IN  ValueOf(Shr(h, hashBits \div 2) \cap Ones(ByteBits * fpSize))

(* One word, the payload above the fingerprint; and the two written separately. *)
WriteEntry(buf, pos, fpSize, payloadSize, fp, payload) ==
    LET entrySize == fpSize + payloadSize
        val == BitsOf(fp, WordBits) \cup Shl(BitsOf(payload, WordBits), ByteBits * fpSize, WordBits)
    IN  Store(buf, pos * entrySize, UpTo(Slice(WordBytes, val), entrySize))

WriteEntryGeneric(buf, pos, fpSize, payloadSize, fp, payload) ==
    LET at == pos * (fpSize + payloadSize)
    IN  Store(Store(buf, at, PutUint(fp, fpSize)), at + fpSize, PutUint(payload, payloadSize))

WriteAnyEntry(buf, pos, fpSize, payloadSize, fp, payload) ==
    IF fpSize + payloadSize \in inlineEntrySizes
    THEN WriteEntry(buf, pos, fpSize, payloadSize, fp, payload)
    ELSE WriteEntryGeneric(buf, pos, fpSize, payloadSize, fp, payload)

(* What a query reads back at a slot. *)
unpackFingerprintFromBytes(buf, at, size) == ValueOf(Load(buf, at, size))
unpackPayloadFromBytes(buf, at, size) == ValueOf(Load(buf, at, size))
=============================================================================
