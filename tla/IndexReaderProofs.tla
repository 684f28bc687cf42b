-------------------------- MODULE IndexReaderProofs --------------------------
(***************************************************************************)
(* Proofs about reading an index, for any set of keys, any number of       *)
(* blocks, any section and entry sizes and any numbers found in a damaged  *)
(* file: what was not damaged is answered as it was built, Verify accepts  *)
(* it and rejects damaged payloads, metadata and lengths, and no operation *)
(* on an index that Open accepted reads outside of the file.               *)
(***************************************************************************)
EXTENDS IndexReader, FiniteSetTheorems, TLAPS

(* What the builders have left, which no operation changes. *)
BuiltInv ==
    /\ members \subseteq Keys /\ route \in [Keys -> Blocks]
    /\ slot \in [Keys -> NoSlot .. Cardinality(Keys) - 1] /\ fingerprint \in [Keys -> 0 .. 1]
    /\ metaOffset \in [0 .. numBlocks -> 0 .. MaxMetadata]
    /\ \A k \in Keys : k \in members <=> slot[k] # NoSlot
    /\ \A b \in Blocks : {slot[k] : k \in keysIn(b)} = 0 .. Cardinality(keysIn(b)) - 1
    /\ metaOffset[0] = 0
    /\ \A b, c \in 0 .. numBlocks : b < c => metaOffset[b] + MinMetadata <= metaOffset[c]

--------------------------------------------------------------------------------
(* Products of sizes. *)

(* A product of natural numbers is one. *)
LEMMA ProductType ==
    ASSUME NEW a \in Nat, NEW c \in Nat
    PROVE  a * c \in Nat
  BY SMT

(* A larger count of equal parts is no shorter. *)
LEMMA ProductMono ==
    ASSUME NEW a \in Nat, NEW b \in Nat, NEW c \in Nat, a <= b
    PROVE  a * c <= b * c
  <1>1. PICK d \in Nat : b = a + d
    <2>1. b - a \in Nat /\ b = a + (b - a)
      OBVIOUS
    <2> QED BY <2>1
  <1>2. (a + d) * c = a * c + d * c
    BY SMT
  <1>3. a * c \in Nat /\ d * c \in Nat
    BY ProductType
  <1> QED BY <1>1, <1>2, <1>3

(* Parts are adjacent: one more part is one part longer. *)
LEMMA ProductNext ==
    ASSUME NEW a \in Nat, NEW c \in Nat
    PROVE  (a + 1) * c = a * c + c
  BY SMT

(* So part r of n ends no later than the parts do. *)
LEMMA ProductWithin ==
    ASSUME NEW r \in Nat, NEW n \in Nat, NEW c \in Nat, r < n
    PROVE  r * c + c <= n * c
  BY ProductNext, ProductMono, r + 1 \in Nat, r + 1 <= n

(* Longer parts make a longer whole. *)
LEMMA ProductLonger ==
    ASSUME NEW a \in Nat, NEW c \in Nat, NEW d \in Nat, c <= d
    PROVE  a * c <= a * d
  <1>1. a * c = c * a /\ a * d = d * a
    BY SMT
  <1>2. c * a <= d * a
    BY ProductMono
  <1> QED BY <1>1, <1>2

--------------------------------------------------------------------------------
(* Ranks. *)

(* The number of keys before a block and in it. *)
LEMMA CountsType ==
    ASSUME BuiltInv
    PROVE  /\ IsFiniteSet(members) /\ Cardinality(members) \in 0 .. Cardinality(Keys)
           /\ \A b : IsFiniteSet(keysIn(b)) /\ Cardinality(keysIn(b)) \in Nat
           /\ \A b : KeysBefore(b) \in 0 .. Cardinality(members)
  <1>0. IsFiniteSet(Keys)
    BY IndexReaderAssumption
  <1>1. IsFiniteSet(members) /\ Cardinality(members) <= Cardinality(Keys)
    BY <1>0, FS_Subset DEF BuiltInv
  <1>2. ASSUME NEW T, T \subseteq members
        PROVE  IsFiniteSet(T) /\ Cardinality(T) \in 0 .. Cardinality(members)
    BY <1>1, <1>2, FS_Subset, FS_CardinalityType
  <1>3. Cardinality(members) \in Nat /\ Cardinality(Keys) \in Nat
    BY <1>0, <1>1, FS_CardinalityType
  <1>4. ASSUME NEW b
        PROVE  /\ keysIn(b) \subseteq members
               /\ {k \in members : route[k] < b} \subseteq members
    BY DEF keysIn
  <1>5. ASSUME NEW b
        PROVE  IsFiniteSet(keysIn(b)) /\ Cardinality(keysIn(b)) \in Nat
    BY <1>2, <1>3, <1>4
  <1>6. ASSUME NEW b
        PROVE  KeysBefore(b) \in 0 .. Cardinality(members)
    BY <1>2, <1>4 DEF KeysBefore
  <1> QED BY <1>1, <1>3, <1>5, <1>6

(* The keys of a block follow those of the blocks before it. *)
LEMMA CountsAdd ==
    ASSUME BuiltInv, NEW b \in Blocks
    PROVE  KeysBefore(b + 1) = KeysBefore(b) + Cardinality(keysIn(b))
  <1> DEFINE Earlier == {k \in members : route[k] < b}
  <1>0. b \in Int /\ \A k \in members : route[k] \in Int
    BY IndexReaderAssumption DEF BuiltInv, Blocks
  <1>1. {k \in members : route[k] < b + 1} = Earlier \cup keysIn(b) /\ Earlier \cap keysIn(b) = {}
    BY <1>0 DEF keysIn
  <1>2. IsFiniteSet(Earlier) /\ IsFiniteSet(keysIn(b))
    BY CountsType, FS_Subset, Earlier \subseteq members
  <1>3. Cardinality(Earlier) \in Nat /\ Cardinality(keysIn(b)) \in Nat
    BY <1>2, FS_CardinalityType
  <1>4. Cardinality(Earlier \cup keysIn(b)) = Cardinality(Earlier) + Cardinality(keysIn(b))
    <2>1. Cardinality(Earlier \cap keysIn(b)) = 0
      BY <1>1, FS_EmptySet
    <2>2. Cardinality(Earlier \cup keysIn(b))
            = Cardinality(Earlier) + Cardinality(keysIn(b)) - Cardinality(Earlier \cap keysIn(b))
      BY <1>2, FS_Union
    <2> QED BY <1>3, <2>1, <2>2
  <1> QED BY <1>1, <1>4 DEF KeysBefore

LEMMA CountsMonotonic ==
    ASSUME BuiltInv, NEW b \in 0 .. numBlocks, NEW c \in 0 .. numBlocks, b <= c
    PROVE  KeysBefore(b) <= KeysBefore(c)
  <1>1. {k \in members : route[k] < b} \subseteq {k \in members : route[k] < c}
    BY IndexReaderAssumption DEF BuiltInv, Blocks
  <1>2. IsFiniteSet({k \in members : route[k] < c})
    BY CountsType, FS_Subset, {k \in members : route[k] < c} \subseteq members
  <1> QED BY <1>1, <1>2, FS_Subset DEF KeysBefore

(* Before the first block there is no key, and the sentinel counts all of them. *)
LEMMA CountsEnds ==
    ASSUME BuiltInv
    PROVE  KeysBefore(0) = 0 /\ KeysBefore(numBlocks) = Cardinality(members)
  <1>1. {k \in members : route[k] < 0} = {} /\ {k \in members : route[k] < numBlocks} = members
    BY IndexReaderAssumption DEF BuiltInv, Blocks
  <1> QED BY <1>1, FS_EmptySet DEF KeysBefore

(* A key has a rank among those of its block. *)
LEMMA RankInBlock ==
    ASSUME BuiltInv, NEW k \in members
    PROVE  /\ route[k] \in Blocks /\ slot[k] \in 0 .. Cardinality(keysIn(route[k])) - 1
           /\ Rank(k) \in KeysBefore(route[k]) .. KeysBefore(route[k] + 1) - 1
           /\ Rank(k) \in 0 .. Cardinality(members) - 1
  <1>1. route[k] \in Blocks /\ k \in keysIn(route[k])
    BY DEF BuiltInv, keysIn
  <1>2. slot[k] \in {slot[j] : j \in keysIn(route[k])}
    BY <1>1
  <1>3. slot[k] \in 0 .. Cardinality(keysIn(route[k])) - 1
    BY <1>1, <1>2 DEF BuiltInv
  <1>4. KeysBefore(route[k] + 1) = KeysBefore(route[k]) + Cardinality(keysIn(route[k]))
    BY <1>1, CountsAdd
  <1>5. /\ KeysBefore(route[k]) \in 0 .. Cardinality(members) /\ Cardinality(members) \in Nat
        /\ KeysBefore(route[k] + 1) \in 0 .. Cardinality(members)
        /\ Cardinality(keysIn(route[k])) \in Nat
    BY CountsType, FS_CardinalityType
  <1> QED BY <1>1, <1>3, <1>4, <1>5 DEF Rank

(* No two keys have the same rank: in a block, the slots are as many as the keys. *)
LEMMA RankInjective ==
    ASSUME BuiltInv, NEW k \in members, NEW m \in members, Rank(k) = Rank(m)
    PROVE  k = m
  <1>1. ASSUME NEW x \in members, NEW y \in members, route[x] < route[y]
        PROVE  Rank(x) < Rank(y)
    <2>1. route[x] \in Blocks /\ route[y] \in Blocks
      BY RankInBlock
    <2>2. route[x] + 1 \in 0 .. numBlocks /\ route[y] \in 0 .. numBlocks /\ route[x] + 1 <= route[y]
      BY <1>1, <2>1, IndexReaderAssumption DEF Blocks
    <2>3. KeysBefore(route[x] + 1) <= KeysBefore(route[y])
      BY <2>2, CountsMonotonic
    <2>4. /\ Rank(x) \in KeysBefore(route[x]) .. KeysBefore(route[x] + 1) - 1
          /\ Rank(y) \in KeysBefore(route[y]) .. KeysBefore(route[y] + 1) - 1
      BY RankInBlock
    <2>5. /\ KeysBefore(route[x]) \in Nat /\ KeysBefore(route[x] + 1) \in Nat
          /\ KeysBefore(route[y]) \in Nat /\ KeysBefore(route[y] + 1) \in Nat
      BY CountsType
    <2> QED BY <2>3, <2>4, <2>5
  <1>2. /\ route[k] \in Blocks /\ route[m] \in Blocks
        /\ Rank(k) \in 0 .. Cardinality(members) - 1 /\ Rank(m) \in 0 .. Cardinality(members) - 1
    BY RankInBlock
  <1>3. route[k] = route[m]
    BY <1>1, <1>2, IndexReaderAssumption DEF Blocks
  <1> DEFINE b == route[k]
             B == keysIn(b)
             T == 0 .. Cardinality(B) - 1
             f == [j \in B |-> slot[j]]
  <1>4. IsFiniteSet(B) /\ Cardinality(B) \in Nat
    BY CountsType
  <1>5. {slot[j] : j \in B} = T
    BY <1>2 DEF BuiltInv
  <1>6. f \in Surjection(B, T)
    BY <1>5 DEF Surjection
  <1>7. Cardinality(T) = Cardinality(B)
    BY <1>4, FS_Interval
  <1>8. f \in Injection(B, T)
    BY <1>4, <1>6, <1>7, FS_Surjection
  <1>9. k \in B /\ m \in B
    BY <1>3 DEF keysIn
  <1>10. slot[k] = slot[m]
    <2>1. KeysBefore(b) \in Nat
      BY CountsType
    <2>2. slot[k] \in Nat /\ slot[m] \in Nat
      BY RankInBlock
    <2> QED BY <1>3, <2>1, <2>2 DEF Rank
  <1>11. f[k] = f[m]
    BY <1>9, <1>10
  <1>12. \A x, y \in B : f[x] = f[y] => x = y
    BY <1>8 DEF Injection, IsInjective
  <1> QED BY <1>9, <1>11, <1>12

(* The ranks are the numbers below the number of keys. *)
LEMMA RanksPerfect ==
    ASSUME BuiltInv
    PROVE  {Rank(k) : k \in members} = 0 .. Cardinality(members) - 1
  <1> DEFINE f == [k \in members |-> Rank(k)]
             T == 0 .. Cardinality(members) - 1
  <1>1. f \in [members -> T]
    BY RankInBlock
  <1>2. f \in Injection(members, T)
    <2>1. \A x, y \in members : f[x] = f[y] => x = y
      BY RankInjective
    <2> QED BY <1>1, <2>1 DEF Injection, IsInjective
  <1>3. IsFiniteSet(members) /\ Cardinality(members) \in Nat
    BY CountsType, FS_CardinalityType
  <1>4. IsFiniteSet(T) /\ Cardinality(T) = Cardinality(members)
    <2>1. Cardinality(members) - 1 \in Int /\ 0 \in Int
      BY <1>3
    <2>2. IsFiniteSet(T) /\ Cardinality(T) = IF 0 > Cardinality(members) - 1 THEN 0
                                               ELSE Cardinality(members) - 1 - 0 + 1
      BY <2>1, FS_Interval
    <2> QED BY <1>3, <2>2
  <1>5. f \in Surjection(members, T)
    BY <1>2, <1>4, FS_Injection
  <1>6. {f[k] : k \in members} = T
    BY <1>1, <1>5 DEF Surjection
  <1> QED BY <1>6

--------------------------------------------------------------------------------
(* The file. *)

(* The sections are where the reader looks for them, as they were written; payloads
   and metadata may have been damaged in their places. *)
LaidOut ==
    /\ file.validMagic /\ file.decoder = "built"
    /\ file.TotalKeys = Cardinality(members) /\ file.NumBlocks = numBlocks
    /\ file.sizes = <<file.PayloadSize, file.FingerprintSize>>
    /\ file.userLen = userLen /\ file.algoLen = 0
    /\ \A b \in 0 .. numBlocks :
          file.ram[b].KeysBefore = KeysBefore(b) /\ file.ram[b].MetadataOffset = metaOffset[b]
    /\ file.ramAt = ramIndexOffset /\ file.payloadAt = payloadRegionOffset
    /\ file.metadataAt = payloadRegionOffset + Cardinality(members) * entrySize
    /\ file.footerAt = file.metadataAt + metaOffset[numBlocks]
    /\ file.size = file.footerAt + footerSize

FileInv ==
    /\ file \in FileType
    /\ file.damage = {} \/ \E d \in Damages : file.damage = {d}
    /\ file.damage \subseteq {"payload", "metadata"} => LaidOut
    /\ file.damage = {} => file.badRanks = {} /\ file.badBlocks = {}
    /\ "payload" \in file.damage => \E k \in members : file.badRanks = {Rank(k)}
    /\ "metadata" \in file.damage => file.badBlocks # {}
    /\ "size" \in file.damage => file.size < file.footerAt + footerSize

(* What Open asks for. *)
Acceptable == file.size >= minFileSize /\ HeaderValid /\ SectionsFit /\ DecoderValid

OpenInv ==
    /\ state \in {"unopened", "rejected", "open", "closed"} /\ stray \in BadSlot .. MaxSlot
    /\ state = "unopened" => last = Idle
    /\ state = "open" => Acceptable
    /\ state = "rejected" => ~Acceptable

(* What is below the modulus is not changed by it. *)
LEMMA SmallMod ==
    ASSUME NEW n \in Nat, NEW w \in Nat, n < w
    PROVE  n % w = n
  BY SMT

(* The sizes of the sections of a written file, and that they can be addressed. *)
LEMMA SectionSizes ==
    ASSUME BuiltInv, NEW p \in 0 .. maxPayloadSize, NEW f \in 0 .. maxFingerprintSize
    PROVE  /\ (numBlocks + 1) % BlockWord = numBlocks + 1
           /\ (numBlocks + 1) * ramIndexEntrySize \in Nat
           /\ Cardinality(members) * (p + f) \in Nat /\ metaOffset[numBlocks] \in Nat
           /\ headerSize + lenSize + userLen + lenSize + (numBlocks + 1) * ramIndexEntrySize
                 + Cardinality(members) * (p + f) + metaOffset[numBlocks] + footerSize < Word
  <1> DEFINE N == Cardinality(members)
             E == maxPayloadSize + maxFingerprintSize
             X == MaxNumber + MaxSlot + 1
  <1>1. /\ numBlocks \in Nat /\ BlockWord \in Nat /\ numBlocks + 1 < BlockWord
        /\ headerSize \in Nat /\ lenSize \in Nat /\ ramIndexEntrySize \in Nat /\ footerSize \in Nat
        /\ E \in Nat /\ p + f \in Nat /\ p + f <= E /\ MaxNumber \in Nat /\ X \in Nat /\ MaxMetadata \in Nat
    BY IndexReaderAssumption
  <1>2. (numBlocks + 1) % BlockWord = numBlocks + 1
    BY <1>1, SmallMod
  <1>3. /\ (numBlocks + 1) * ramIndexEntrySize \in Nat /\ BlockWord * ramIndexEntrySize \in Nat
        /\ (numBlocks + 1) * ramIndexEntrySize <= BlockWord * ramIndexEntrySize
    BY <1>1, ProductType, ProductMono
  <1>4. N \in Nat /\ N <= X
    BY <1>1, CountsType, FS_CardinalityType, IndexReaderAssumption, WrittenNumbersFit
  <1>5. N * (p + f) \in Nat /\ N * E \in Nat /\ X * E \in Nat /\ N * (p + f) <= N * E /\ N * E <= X * E
    BY <1>1, <1>4, ProductType, ProductMono, ProductLonger
  <1>6. metaOffset[numBlocks] \in Nat /\ metaOffset[numBlocks] <= MaxNumber
    BY <1>1, WrittenNumbersFit DEF BuiltInv
  <1>7. userLen \in Nat /\ userLen <= MaxNumber
    BY <1>1, WrittenNumbersFit
  <1>8. /\ Word \in Nat
        /\ Word > headerSize + 2 * lenSize + 3 * MaxNumber + BlockWord * ramIndexEntrySize + footerSize + X * E
    BY AddressesFit
  <1> HIDE DEF N, E, X
  <1>9. headerSize + lenSize + userLen + lenSize + (numBlocks + 1) * ramIndexEntrySize
          + N * (p + f) + metaOffset[numBlocks] + footerSize < Word
    BY <1>1, <1>3, <1>5, <1>6, <1>7, <1>8
  <1> QED BY <1>2, <1>3, <1>5, <1>6, <1>9 DEF N

(* finalize writes such a file. *)
LEMMA WrittenLaidOut ==
    ASSUME BuiltInv, NEW p \in 0 .. maxPayloadSize, NEW f \in 0 .. maxFingerprintSize,
           file = WrittenFile(p, f)
    PROVE  FileInv
  <1> DEFINE R == (numBlocks + 1) * ramIndexEntrySize
             P == Cardinality(members) * (p + f)
  <1>1. /\ (numBlocks + 1) % BlockWord = numBlocks + 1 /\ R \in Nat /\ P \in Nat
        /\ metaOffset[numBlocks] \in Nat
        /\ headerSize + lenSize + userLen + lenSize + R + P + metaOffset[numBlocks] + footerSize < Word
    BY SectionSizes
  <1>2. /\ numBlocks \in Nat /\ BlockWord \in Nat /\ numBlocks < BlockWord /\ Word \in Nat
        /\ headerSize \in Nat /\ lenSize \in Nat /\ footerSize \in Nat /\ maxPayloadSize \in Nat
        /\ maxFingerprintSize \in Nat /\ MaxNumber \in Nat /\ userLen \in 0 .. MaxNumber
    BY IndexReaderAssumption, WrittenNumbersFit, AddressesFit
  <1>3. Cardinality(members) \in Nat /\ Cardinality(members) <= MaxNumber /\ Cardinality(members) < Word
    <2>1. MaxNumber < Word
      <3>1. /\ BlockWord * ramIndexEntrySize \in Nat
            /\ (MaxNumber + MaxSlot + 1) * (maxPayloadSize + maxFingerprintSize) \in Nat
        BY IndexReaderAssumption, ProductType
      <3> QED BY <1>2, <3>1, AddressesFit
    <2> QED BY <1>2, <2>1, CountsType, FS_CardinalityType, IndexReaderAssumption, WrittenNumbersFit
  <1>4. \A b \in 0 .. numBlocks : KeysBefore(b) \in 0 .. MaxNumber /\ metaOffset[b] \in 0 .. MaxNumber
    <2> TAKE b \in 0 .. numBlocks
    <2>1. KeysBefore(b) \in 0 .. Cardinality(members)
      BY CountsType
    <2>2. metaOffset[b] \in 0 .. MaxMetadata /\ MaxMetadata \in Nat /\ MaxMetadata <= MaxNumber
      BY WrittenNumbersFit, IndexReaderAssumption DEF BuiltInv
    <2> QED BY <1>2, <1>3, <2>1, <2>2
  <1> HIDE DEF R, P
  <1>5. /\ file.validMagic = TRUE /\ file.decoder = "built"
        /\ file.TotalKeys = Cardinality(members) /\ file.NumBlocks = numBlocks
        /\ file.PayloadSize = p /\ file.FingerprintSize = f /\ file.sizes = <<p, f>>
        /\ file.userLen = userLen /\ file.algoLen = 0
        /\ file.ram = [b \in 0 .. numBlocks |->
                         [KeysBefore |-> KeysBefore(b), MetadataOffset |-> metaOffset[b]]]
        /\ file.ramAt = headerSize + lenSize + userLen + lenSize
        /\ file.payloadAt = headerSize + lenSize + userLen + lenSize + R
        /\ file.metadataAt = headerSize + lenSize + userLen + lenSize + R + P
        /\ file.size = headerSize + lenSize + userLen + lenSize + R + P + metaOffset[numBlocks] + footerSize
        /\ file.footerAt = headerSize + lenSize + userLen + lenSize + R + P + metaOffset[numBlocks]
        /\ file.badRanks = {} /\ file.badBlocks = {} /\ file.damage = {}
    BY DEF WrittenFile, R, P
  <1>6. file \in FileType
    <2>1. [KeysBefore |-> 0, MetadataOffset |-> 0] \in RamEntry
      BY <1>2 DEF RamEntry
    <2>2. [b \in 0 .. numBlocks |-> [KeysBefore |-> KeysBefore(b), MetadataOffset |-> metaOffset[b]]]
            \in [0 .. numBlocks -> RamEntry]
      BY <1>4 DEF RamEntry
    <2> DEFINE A == headerSize + lenSize + userLen + lenSize
               G == [b \in 0 .. numBlocks |-> [KeysBefore |-> KeysBefore(b), MetadataOffset |-> metaOffset[b]]]
    <2>3. /\ A \in Nat /\ A + R \in Nat /\ A + R + P \in Nat /\ A + R + P + metaOffset[numBlocks] \in Nat
          /\ A + R + P + metaOffset[numBlocks] + footerSize \in 0 .. Word - 1
      BY <1>1, <1>2
    <2>4. /\ Cardinality(members) \in 0 .. Word - 1 /\ numBlocks \in 0 .. BlockWord - 1
          /\ userLen \in 0 .. MaxNumber /\ 0 \in 0 .. MaxNumber /\ {} \in SUBSET Damages
          /\ {} \in SUBSET Nat /\ {} \in SUBSET Blocks
          /\ <<p, f>> \in (0 .. maxPayloadSize) \X (0 .. maxFingerprintSize)
      BY <1>2, <1>3
    <2>5. file = [validMagic |-> TRUE, decoder |-> "built",
                  TotalKeys |-> Cardinality(members), NumBlocks |-> numBlocks,
                  PayloadSize |-> p, FingerprintSize |-> f, sizes |-> <<p, f>>,
                  userLen |-> userLen, algoLen |-> 0, ram |-> G, ramAt |-> A, payloadAt |-> A + R,
                  metadataAt |-> A + R + P, size |-> A + R + P + metaOffset[numBlocks] + footerSize,
                  footerAt |-> A + R + P + metaOffset[numBlocks],
                  badRanks |-> {}, badBlocks |-> {},
                  strayEntry |-> [KeysBefore |-> 0, MetadataOffset |-> 0], damage |-> {}]
      BY DEF WrittenFile, R, P
    <2> HIDE DEF A, G
    <2> QED BY <2>1, <2>2, <2>3, <2>4, <2>5 DEF FileType, G
  <1>7. LaidOut
    <2>1. /\ ramIndexOffset = headerSize + lenSize + userLen + lenSize /\ numRAMEntries = numBlocks + 1
          /\ payloadRegionOffset = headerSize + lenSize + userLen + lenSize + R /\ entrySize = p + f
      BY <1>1, <1>2, <1>5
         DEF ramIndexOffset, numRAMEntries, ramIndexEnd, payloadRegionOffset, entrySize, R
    <2> QED BY <1>5, <2>1 DEF LaidOut, P
  <1> QED BY <1>5, <1>6, <1>7 DEF FileInv

(* Damage leaves a file of the same type, and what it does not reach in place. *)
LEMMA DamageKeepsFileInv ==
    ASSUME BuiltInv, FileInv, Damage
    PROVE  FileInv'
  <1>1. file.damage = {} /\ LaidOut /\ file.badRanks = {} /\ file.badBlocks = {} /\ file \in FileType
    BY DEF FileInv, Damage
  <1>2. UNCHANGED built
    BY DEF Damage
  <1>3. PICK d \in Damages :
          \/ d = "size" /\ \E n \in 0 .. file.size - 1 : file' = [file EXCEPT !.size = n, !.damage = {d}]
          \/ d \in {"header", "lengths", "ram"} /\ file' \in FileType /\ file'.damage = {d}
          \/ /\ d = "payload"
             /\ \E r \in {Rank(k) : k \in members} :
                   file' = [file EXCEPT !.badRanks = {r}, !.damage = {d}]
          \/ /\ d = "metadata"
             /\ \E b \in Blocks : file' = [file EXCEPT !.badBlocks = {b}, !.damage = {d}]
    <2>1. Entries \subseteq RamEntry
      BY IndexReaderAssumption DEF Entries, RamEntry
    <2>2. Totals \subseteq 0 .. Word - 1 /\ BlockCounts \subseteq 0 .. BlockWord - 1 /\ Lengths \subseteq 0 .. MaxNumber
      BY IndexReaderAssumption, AddressesFit
    <2>3. ASSUME NEW d \in Damages PROVE {d} \in SUBSET Damages
      OBVIOUS
    <2>4. PICK d \in Damages :
          \/ /\ d = "size"
             /\ \E n \in 0 .. file.size - 1 :
                   file' = [file EXCEPT !.size = n, !.damage = {d}]
          \/ /\ d = "header"
             /\ \/ file' = [file EXCEPT !.validMagic = FALSE, !.damage = {d}]
                \/ \E a \in {"other", "unknown"} : file' = [file EXCEPT !.decoder = a, !.damage = {d}]
                \/ \E p \in 0 .. maxPayloadSize, f \in 0 .. maxFingerprintSize :
                      file' = [file EXCEPT !.PayloadSize = p, !.FingerprintSize = f, !.damage = {d}]
                \/ \E t \in Totals : file' = [file EXCEPT !.TotalKeys = t, !.damage = {d}]
                \/ \E n \in BlockCounts, e \in Entries :
                      file' = [file EXCEPT !.NumBlocks = n, !.strayEntry = e, !.damage = {d}]
          \/ /\ d = "lengths"
             /\ \/ \E n \in Lengths, e \in Entries :
                      file' = [file EXCEPT !.userLen = n, !.strayEntry = e, !.damage = {d}]
                \/ \E n \in Lengths : file' = [file EXCEPT !.algoLen = n, !.damage = {d}]
          \/ /\ d = "ram"
             /\ \E b \in 0 .. numBlocks, e \in Entries :
                   file' = [file EXCEPT !.ram[b] = e, !.damage = {d}]
          \/ /\ d = "payload"
             /\ \E r \in {Rank(k) : k \in members} :
                   file' = [file EXCEPT !.badRanks = {r}, !.damage = {d}]
          \/ /\ d = "metadata"
             /\ \E b \in Blocks : file' = [file EXCEPT !.badBlocks = {b}, !.damage = {d}]
      BY Zenon DEF Damage
    <2>5. CASE d = "header"
      <3>1. file' \in FileType /\ file'.damage = {d}
        <4>1. CASE file' = [file EXCEPT !.validMagic = FALSE, !.damage = {d}]
          BY <1>1, <2>3, <4>1 DEF FileType
        <4>2. ASSUME NEW p \in 0 .. maxPayloadSize, NEW f \in 0 .. maxFingerprintSize,
                     file' = [file EXCEPT !.PayloadSize = p, !.FingerprintSize = f, !.damage = {d}]
              PROVE  file' \in FileType /\ file'.damage = {d}
          BY <1>1, <2>3, <4>2 DEF FileType
        <4>3. ASSUME NEW t \in Totals, file' = [file EXCEPT !.TotalKeys = t, !.damage = {d}]
              PROVE  file' \in FileType /\ file'.damage = {d}
          <5>1. t \in 0 .. Word - 1
            BY <2>2
          <5> QED BY <1>1, <2>3, <4>3, <5>1 DEF FileType
        <4>4. ASSUME NEW n \in BlockCounts, NEW e \in Entries,
                     file' = [file EXCEPT !.NumBlocks = n, !.strayEntry = e, !.damage = {d}]
              PROVE  file' \in FileType /\ file'.damage = {d}
          <5>1. n \in 0 .. BlockWord - 1 /\ e \in RamEntry
            BY <2>1, <2>2
          <5> QED BY <1>1, <2>3, <4>4, <5>1 DEF FileType
        <4>5. ASSUME NEW a \in {"other", "unknown"}, file' = [file EXCEPT !.decoder = a, !.damage = {d}]
              PROVE  file' \in FileType /\ file'.damage = {d}
          BY <1>1, <2>3, <4>5 DEF FileType
        <4> QED BY <2>4, <2>5, <4>1, <4>2, <4>3, <4>4, <4>5
      <3> QED BY <2>5, <3>1
    <2>6. CASE d = "lengths"
      <3>1. file' \in FileType /\ file'.damage = {d}
        <4>1. ASSUME NEW n \in Lengths, NEW e \in Entries,
                     file' = [file EXCEPT !.userLen = n, !.strayEntry = e, !.damage = {d}]
              PROVE  file' \in FileType /\ file'.damage = {d}
          <5>1. n \in 0 .. MaxNumber /\ e \in RamEntry
            BY <2>1, <2>2
          <5> QED BY <1>1, <2>3, <4>1, <5>1 DEF FileType
        <4>2. ASSUME NEW n \in Lengths, file' = [file EXCEPT !.algoLen = n, !.damage = {d}]
              PROVE  file' \in FileType /\ file'.damage = {d}
          <5>1. n \in 0 .. MaxNumber
            BY <2>2
          <5> QED BY <1>1, <2>3, <4>2, <5>1 DEF FileType
        <4> QED BY <2>4, <2>6, <4>1, <4>2
      <3> QED BY <2>6, <3>1
    <2>7. CASE d = "ram"
      <3>1. file' \in FileType /\ file'.damage = {d}
        <4>1. PICK b \in 0 .. numBlocks, e \in Entries : file' = [file EXCEPT !.ram[b] = e, !.damage = {d}]
          BY <2>4, <2>7
        <4>2. file.ram \in [0 .. numBlocks -> RamEntry] /\ e \in RamEntry
          BY <1>1, <2>1 DEF FileType
        <4> DEFINE G == [file.ram EXCEPT ![b] = e]
        <4>3. G \in [0 .. numBlocks -> RamEntry]
          BY <4>2
        <4>4. file' = [file EXCEPT !.ram = G, !.damage = {d}]
          BY <1>1, <4>1 DEF FileType
        <4> HIDE DEF G
        <4> QED BY <1>1, <2>3, <4>3, <4>4 DEF FileType
      <3> QED BY <2>7, <3>1
    <2> QED BY <2>4, <2>5, <2>6, <2>7
  <1>4. d \in {"size", "header", "lengths", "ram", "payload", "metadata"} /\ {d} \in SUBSET Damages
    BY IndexReaderAssumption
  <1>5. CASE d = "size"
    <2>1. PICK n \in 0 .. file.size - 1 : file' = [file EXCEPT !.size = n, !.damage = {d}]
      BY <1>3, <1>5
    <2>2. file.size \in 0 .. Word - 1 /\ Word \in Nat /\ file.footerAt \in Nat /\ footerSize \in Nat
      BY <1>1, AddressesFit, IndexReaderAssumption DEF FileType
    <2>3. file' \in FileType /\ file'.damage = {d}
      <3>1. n \in 0 .. Word - 1
        BY <2>2
      <3> QED BY <1>1, <1>4, <2>1, <3>1 DEF FileType
    <2>4. file'.size = n /\ file'.footerAt = file.footerAt
      BY <1>1, <2>1 DEF FileType
    <2>5. file'.size < file'.footerAt + footerSize
      BY <1>1, <2>2, <2>4 DEF LaidOut
    <2> QED BY <1>5, <2>3, <2>5 DEF FileInv
  <1>6. CASE d \in {"header", "lengths", "ram"}
    BY <1>3, <1>6 DEF FileInv
  <1>7. CASE d \in {"payload", "metadata"}
    <2>1. /\ file'.validMagic = file.validMagic /\ file'.decoder = file.decoder
          /\ file'.TotalKeys = file.TotalKeys
          /\ file'.NumBlocks = file.NumBlocks /\ file'.sizes = file.sizes
          /\ file'.PayloadSize = file.PayloadSize /\ file'.FingerprintSize = file.FingerprintSize
          /\ file'.userLen = file.userLen /\ file'.algoLen = file.algoLen /\ file'.ram = file.ram
          /\ file'.ramAt = file.ramAt /\ file'.payloadAt = file.payloadAt
          /\ file'.metadataAt = file.metadataAt /\ file'.size = file.size
          /\ file'.footerAt = file.footerAt /\ file'.damage = {d}
      <3>1. CASE d = "payload"
        <4>1. PICK r \in {Rank(k) : k \in members} : file' = [file EXCEPT !.badRanks = {r}, !.damage = {d}]
          BY <1>3, <3>1
        <4> QED BY <1>1, <4>1 DEF FileType
      <3>2. CASE d = "metadata"
        <4>1. PICK b \in Blocks : file' = [file EXCEPT !.badBlocks = {b}, !.damage = {d}]
          BY <1>3, <3>2
        <4> QED BY <1>1, <4>1 DEF FileType
      <3> QED BY <1>7, <3>1, <3>2
    <2>2. LaidOut'
      BY <1>1, <1>2, <2>1
         DEF LaidOut, built, ramIndexOffset, numRAMEntries, ramIndexEnd, payloadRegionOffset, entrySize,
             KeysBefore
    <2>3. CASE d = "payload"
      <3>1. PICK r \in {Rank(k) : k \in members} : file' = [file EXCEPT !.badRanks = {r}, !.damage = {d}]
        BY <1>3, <2>3
      <3>2. PICK k \in members : r = Rank(k)
        OBVIOUS
      <3>3. r \in Nat
        BY <3>2, RankInBlock
      <3>4. file' \in FileType /\ file'.badRanks = {r}
        BY <1>1, <1>4, <3>1, <3>3 DEF FileType
      <3>5. members' = members /\ Rank(k)' = Rank(k)
        BY <1>2 DEF built, Rank, KeysBefore
      <3> QED BY <2>1, <2>2, <2>3, <3>2, <3>4, <3>5 DEF FileInv
    <2>4. CASE d = "metadata"
      <3>1. PICK b \in Blocks : file' = [file EXCEPT !.badBlocks = {b}, !.damage = {d}]
        BY <1>3, <2>4
      <3>2. file' \in FileType /\ file'.badBlocks = {b}
        <4>1. {b} \in SUBSET Blocks
          OBVIOUS
        <4> QED BY <1>1, <1>4, <3>1, <4>1 DEF FileType
      <3> QED BY <2>1, <2>2, <2>4, <3>2 DEF FileInv
    <2> QED BY <1>7, <2>3, <2>4
  <1> QED BY <1>4, <1>5, <1>6, <1>7

--------------------------------------------------------------------------------
(* Reads, of an accepted file. *)

Inside(r) == 0 <= r.start /\ r.start <= r.end /\ r.end <= r.limit

(* The offsets the reader has computed; the RAM index ends before the footer. *)
LEMMA AcceptedOffsets ==
    ASSUME FileInv, Acceptable
    PROVE  /\ file.size \in Nat /\ footerOffset \in Nat /\ footerOffset <= file.size
           /\ file.NumBlocks \in Nat /\ numRAMEntries = file.NumBlocks + 1
           /\ ramIndexOffset \in Nat /\ numRAMEntries * ramIndexEntrySize \in Nat
           /\ payloadRegionOffset \in Nat /\ metadataRegionOffset \in 0 .. Word - 1
           /\ entrySize \in Nat /\ file.FingerprintSize \in Nat /\ file.PayloadSize \in Nat
  <1>1. /\ file.size \in Nat /\ file.NumBlocks \in 0 .. BlockWord - 1 /\ file.userLen \in Nat
        /\ file.algoLen \in Nat /\ file.PayloadSize \in Nat /\ file.FingerprintSize \in Nat
        /\ file.TotalKeys \in Nat
    BY DEF FileInv, FileType
  <1>2. /\ BlockWord \in Nat /\ headerSize \in Nat /\ lenSize \in Nat /\ ramIndexEntrySize \in Nat
        /\ footerSize \in Nat /\ minFileSize \in Nat /\ minFileSize >= headerSize + footerSize
        /\ Word \in Nat
    BY IndexReaderAssumption, AddressesFit
  <1>3. file.NumBlocks # BlockWord - 1 /\ file.size >= minFileSize
    BY DEF Acceptable, HeaderValid
  <1>4. numRAMEntries = file.NumBlocks + 1 /\ numRAMEntries \in Nat
    BY <1>1, <1>2, <1>3, SmallMod DEF numRAMEntries
  <1>5. numRAMEntries * ramIndexEntrySize \in Nat
    BY <1>2, <1>4, ProductType
  <1>6. ramIndexOffset \in Nat /\ entrySize \in Nat
    BY <1>1, <1>2 DEF ramIndexOffset, entrySize
  <1>7. payloadRegionOffset \in Nat
    BY <1>5, <1>6 DEF payloadRegionOffset, ramIndexEnd
  <1>8. metadataRegionOffset \in 0 .. Word - 1
    <2>1. Word > 0
      <3>1. /\ BlockWord * ramIndexEntrySize \in Nat /\ MaxNumber \in Nat
            /\ (MaxNumber + MaxSlot + 1) * (maxPayloadSize + maxFingerprintSize) \in Nat
        BY IndexReaderAssumption, ProductType
      <3> QED BY <1>2, <3>1, AddressesFit
    <2>2. file.TotalKeys * entrySize \in Nat
      BY <1>1, <1>6, ProductType
    <2>3. (file.TotalKeys * entrySize) % Word \in Nat
      BY <1>2, <2>1, <2>2
    <2> QED BY <1>2, <1>7, <2>1, <2>3 DEF metadataRegionOffset, W
  <1>9. footerOffset \in Nat /\ footerOffset <= file.size
    BY <1>1, <1>2, <1>3 DEF footerOffset
  <1> QED BY <1>1, <1>4, <1>5, <1>6, <1>7, <1>8, <1>9

(* An entry is decoded within the RAM index. *)
LEMMA RamRangeInside ==
    ASSUME FileInv, Acceptable, NEW b \in Nat, b < numRAMEntries
    PROVE  Inside(RamRange(b))
  <1>1. ramIndexOffset \in Nat /\ numRAMEntries \in Nat /\ ramIndexEntrySize \in Nat
    BY AcceptedOffsets, IndexReaderAssumption
  <1>2. b * ramIndexEntrySize \in Nat /\ numRAMEntries * ramIndexEntrySize \in Nat
    BY <1>1, ProductType
  <1>3. (b + 1) * ramIndexEntrySize = b * ramIndexEntrySize + ramIndexEntrySize
    BY <1>1, ProductNext
  <1>4. b * ramIndexEntrySize + ramIndexEntrySize <= numRAMEntries * ramIndexEntrySize
    BY <1>1, ProductWithin
  <1>5. /\ RamRange(b).start = ramIndexOffset + b * ramIndexEntrySize
        /\ RamRange(b).end = ramIndexOffset + (b + 1) * ramIndexEntrySize
        /\ RamRange(b).limit = ramIndexOffset + numRAMEntries * ramIndexEntrySize
    BY DEF RamRange, ramIndexEnd
  <1> QED BY <1>1, <1>2, <1>3, <1>4, <1>5 DEF Inside

LEMMA RamEntryType ==
    ASSUME FileInv, NEW b \in Nat
    PROVE  /\ ramEntry(b).KeysBefore \in 0 .. MaxNumber
           /\ ramEntry(b).MetadataOffset \in 0 .. MaxNumber
  <1>1. file.strayEntry \in RamEntry /\ \A c \in 0 .. numBlocks : file.ram[c] \in RamEntry
    BY DEF FileInv, FileType
  <1>2. numBlocks \in Nat
    BY IndexReaderAssumption
  <1>3. ramEntry(b) \in RamEntry
    BY <1>1, <1>2 DEF ramEntry
  <1> QED BY <1>3 DEF RamEntry

LEMMA BlockIdxType ==
    ASSUME BuiltInv, FileInv, NEW k \in Keys
    PROVE  blockIdx(k) \in Nat
  <1>1. route[k] \in Nat /\ file.NumBlocks \in Nat
    BY IndexReaderAssumption DEF BuiltInv, Blocks, FileInv, FileType
  <1> QED BY <1>1 DEF blockIdx

(* A block that is not empty has a positive number of keys, whatever is damaged. *)
LEMMA KeysInBlockType ==
    ASSUME FileInv, NEW b \in Nat
    PROVE  keysInBlock(b) \in Nat
  <1>1. ramEntry(b).KeysBefore \in Int /\ ramEntry(b + 1).KeysBefore \in Int
    BY RamEntryType
  <1>2. Word \in Nat /\ Word > 0
    <2>1. /\ BlockWord * ramIndexEntrySize \in Nat /\ MaxNumber \in Nat /\ headerSize \in Nat
          /\ lenSize \in Nat /\ footerSize \in Nat
          /\ (MaxNumber + MaxSlot + 1) * (maxPayloadSize + maxFingerprintSize) \in Nat
      BY IndexReaderAssumption, ProductType
    <2> QED BY <2>1, AddressesFit
  <1> QED BY <1>1, <1>2 DEF keysInBlock, W

(* A decoded slot is one that decoders return, or none. *)
LEMMA QuerySlotType ==
    ASSUME BuiltInv, FileInv, stray \in BadSlot .. MaxSlot, NEW k \in Keys, ReadsMetadata(k)
    PROVE  QuerySlot(k) \in BadSlot .. MaxSlot
  <1>1. keysInBlock(blockIdx(k)) \in Nat \ {0}
    BY BlockIdxType, KeysInBlockType DEF ReadsMetadata
  <1>2. MaxSlot \in Nat /\ Cardinality(Keys) \in Nat /\ Cardinality(Keys) <= MaxSlot + 1
    BY IndexReaderAssumption, WrittenNumbersFit, FS_CardinalityType
  <1>3. slot[k] \in NoSlot .. Cardinality(Keys) - 1
    BY DEF BuiltInv
  <1>4. slot[k] \in BadSlot .. MaxSlot /\ NoSlot \in BadSlot .. MaxSlot
    BY <1>2, <1>3 DEF NoSlot, BadSlot
  <1>5. stray \notin {NoSlot, BadSlot} => stray % keysInBlock(blockIdx(k)) \in BadSlot .. MaxSlot
    BY <1>1, <1>2 DEF NoSlot, BadSlot
  <1> QED BY <1>4, <1>5 DEF QuerySlot

(* A key that was located was decoded from metadata in the file. *)
LEMMA Located ==
    ASSUME BuiltInv, FileInv, stray \in BadSlot .. MaxSlot, NEW k \in Keys, LocateError(k) = "none"
    PROVE  /\ ReadsMetadata(k) /\ QuerySlot(k) \notin {NoSlot, BadSlot}
           /\ QuerySlot(k) \in 0 .. MaxSlot /\ globalRank(k) \in 0 .. MaxNumber + MaxSlot
  <1>1. ReadsMetadata(k) /\ QuerySlot(k) \notin {NoSlot, BadSlot}
    BY DEF LocateError
  <1>2. QuerySlot(k) \in 0 .. MaxSlot /\ MaxSlot \in Nat /\ MaxNumber \in Nat
    BY <1>1, QuerySlotType, IndexReaderAssumption DEF NoSlot, BadSlot
  <1>3. ramEntry(blockIdx(k)).KeysBefore \in 0 .. MaxNumber
    BY BlockIdxType, RamEntryType
  <1> QED BY <1>1, <1>2, <1>3 DEF globalRank

LEMMA EntryAtType ==
    ASSUME FileInv, Acceptable, NEW r \in Nat
    PROVE  EntryAt(r) \in Nat
  BY AcceptedOffsets, ProductType DEF EntryAt

(* Every range a query reads is inside. *)
LEMMA QueryReadsInside ==
    ASSUME BuiltInv, FileInv, Acceptable, stray \in BadSlot .. MaxSlot, NEW k \in Keys,
           NEW r \in QueryReads(k)
    PROVE  Inside(r)
  <1> DEFINE b == blockIdx(k)
  <1>1. b \in Nat /\ b + 1 \in Nat
    BY BlockIdxType
  <1>2. CASE Routed(k) /\ r \in {RamRange(b), RamRange(b + 1)}
    <2>1. b < numRAMEntries /\ b + 1 < numRAMEntries
      BY <1>1, <1>2, AcceptedOffsets DEF Routed
    <2> QED BY <1>1, <1>2, <2>1, RamRangeInside
  <1>3. CASE ReadsMetadata(k) /\ r = byteRange(metaStart(b), metaEnd(b))
    <2>1. metaStart(b) < metaEnd(b) /\ metaEnd(b) <= file.size
      BY <1>3 DEF ReadsMetadata, MetadataFits
    <2>2. metaStart(b) \in Nat /\ metaEnd(b) \in Nat
      <3>1. /\ ramEntry(b).MetadataOffset \in Nat /\ ramEntry(b + 1).MetadataOffset \in Nat
            /\ metadataRegionOffset \in 0 .. Word - 1 /\ Word \in Nat
        BY <1>1, RamEntryType, AcceptedOffsets, AddressesFit
      <3> QED BY <3>1 DEF metaStart, metaEnd, W
    <2>3. r.start = metaStart(b) /\ r.end = metaEnd(b) /\ r.limit = file.size
      BY <1>3 DEF byteRange
    <2> QED BY <2>1, <2>2, <2>3 DEF Inside
  <1>4. CASE ChecksFingerprint(k) /\ FingerprintRange(k).end <= file.size /\ r = FingerprintRange(k)
    <2>1. EntryAt(globalRank(k)) \in Nat /\ file.FingerprintSize \in Nat
      BY <1>4, Located, EntryAtType, AcceptedOffsets DEF ChecksFingerprint
    <2>2. /\ r.start = EntryAt(globalRank(k)) /\ r.limit = file.size
          /\ r.end = EntryAt(globalRank(k)) + file.FingerprintSize
      BY <1>4 DEF FingerprintRange, byteRange
    <2> QED BY <1>4, <2>1, <2>2 DEF Inside
  <1>5. CASE LookupError(k) = "none" /\ PayloadFits(k) /\ r = PayloadRange(k)
    <2>1. LocateError(k) = "none"
      BY <1>5 DEF LookupError, ChecksFingerprint
    <2>2. EntryAt(globalRank(k)) \in Nat /\ file.FingerprintSize \in Nat /\ file.PayloadSize \in Nat
      BY <2>1, Located, EntryAtType, AcceptedOffsets
    <2>3. /\ r.start = EntryAt(globalRank(k)) + file.FingerprintSize /\ r.limit = file.size
          /\ r.end = EntryAt(globalRank(k)) + file.FingerprintSize + file.PayloadSize
      BY <1>5 DEF PayloadRange, byteRange
    <2> QED BY <1>5, <2>2, <2>3 DEF Inside, PayloadFits
  <1> QED BY <1>2, <1>3, <1>4, <1>5 DEF QueryReads, LocateReads

(* Every range Verify reads is inside. *)
LEMMA VerifyReadsInside ==
    ASSUME FileInv, Acceptable, NEW r \in VerifyReads
    PROVE  Inside(r)
  <1>1. CASE r = byteRange(footerOffset, file.size)
    BY <1>1, AcceptedOffsets DEF Inside, byteRange
  <1>2. ASSUME NEW b \in BlocksVerified
        PROVE  b \in Nat /\ b + 1 \in Nat /\ b + 1 < numRAMEntries /\ b < numRAMEntries
    BY AcceptedOffsets DEF BlocksVerified
  <1>3. ASSUME NEW b \in BlocksVerified, r = RamRange(b) \/ r = RamRange(b + 1)
        PROVE  Inside(r)
    BY <1>2, <1>3, RamRangeInside
  <1>4. ASSUME NEW b \in BlocksVerified, BlockReadable(b), keysInBlock(b) # 0, entrySize > 0,
               r = BlockRange(b)
        PROVE  Inside(r)
    <2> DEFINE s == ramEntry(b).KeysBefore
               e == ramEntry(b + 1).KeysBefore
    <2>1. s \in Nat /\ e \in Nat /\ s <= e
      BY <1>2, <1>4, RamEntryType DEF BlockReadable, Monotonic
    <2>2. entrySize \in Nat /\ payloadRegionOffset \in Nat
      BY AcceptedOffsets
    <2>3. s * entrySize \in Nat /\ e * entrySize \in Nat /\ s * entrySize <= e * entrySize
      BY <2>1, <2>2, ProductType, ProductMono
    <2>4. /\ r.start = payloadRegionOffset + s * entrySize /\ r.end = payloadRegionOffset + e * entrySize
          /\ r.limit = file.size
      BY <1>4 DEF BlockRange, byteRange, EntryAt
    <2>5. r.end <= file.size
      BY <1>4 DEF BlockReadable
    <2> QED BY <2>2, <2>3, <2>4, <2>5 DEF Inside
  <1>5. CASE MetadataReached /\ r = byteRange(metadataRegionOffset, footerOffset)
    BY <1>5, AcceptedOffsets, AddressesFit DEF Inside, byteRange, MetadataReached
  <1> QED BY <1>1, <1>3, <1>4, <1>5 DEF VerifyReads

--------------------------------------------------------------------------------
(* Queries, of a file whose sections are where they were written. *)

(* The reader computes the offsets the writer wrote at, and nothing wraps. *)
LEMMA LaidOutOffsets ==
    ASSUME BuiltInv, FileInv, LaidOut
    PROVE  /\ ramIndexOffset = file.ramAt /\ numRAMEntries = numBlocks + 1
           /\ ramIndexOffset \in Nat /\ payloadRegionOffset \in Nat /\ entrySize \in Nat
           /\ payloadRegionOffset = ramIndexOffset + (numBlocks + 1) * ramIndexEntrySize
           /\ Cardinality(members) * entrySize \in Nat /\ metadataRegionOffset = file.metadataAt
           /\ metadataRegionOffset = payloadRegionOffset + Cardinality(members) * entrySize
           /\ metaOffset[numBlocks] \in Nat
           /\ file.size = metadataRegionOffset + metaOffset[numBlocks] + footerSize
           /\ file.size < Word
  <1> DEFINE p == file.PayloadSize
             f == file.FingerprintSize
             P == Cardinality(members) * (p + f)
             R == (numBlocks + 1) * ramIndexEntrySize
  <1>1. p \in 0 .. maxPayloadSize /\ f \in 0 .. maxFingerprintSize
    BY DEF FileInv, FileType
  <1>2. /\ (numBlocks + 1) % BlockWord = numBlocks + 1 /\ R \in Nat /\ P \in Nat
        /\ metaOffset[numBlocks] \in Nat
        /\ headerSize + lenSize + userLen + lenSize + R + P + metaOffset[numBlocks] + footerSize < Word
    BY <1>1, SectionSizes
  <1>3. /\ headerSize \in Nat /\ lenSize \in Nat /\ userLen \in Nat /\ footerSize \in Nat /\ Word \in Nat
        /\ maxPayloadSize \in Nat /\ maxFingerprintSize \in Nat
    BY IndexReaderAssumption, WrittenNumbersFit, AddressesFit
  <1>4. entrySize = p + f /\ entrySize \in Nat
    BY <1>1, <1>3 DEF entrySize
  <1> HIDE DEF P, R
  <1>5. numRAMEntries = numBlocks + 1 /\ ramIndexOffset = headerSize + lenSize + userLen + lenSize
    BY <1>2, <1>3 DEF LaidOut, numRAMEntries, ramIndexOffset
  <1>6. payloadRegionOffset = ramIndexOffset + R
    BY <1>5 DEF payloadRegionOffset, ramIndexEnd, R
  <1>7. metadataRegionOffset = payloadRegionOffset + P
    <2>1. file.TotalKeys * entrySize = P
      BY <1>4 DEF LaidOut, P
    <2>2. P < Word /\ payloadRegionOffset + P \in Nat /\ payloadRegionOffset + P < Word
      BY <1>2, <1>3, <1>5, <1>6
    <2>3. W(file.TotalKeys * entrySize) = P
      BY <1>2, <1>3, <2>1, <2>2, SmallMod DEF W
    <2> QED BY <1>3, <2>2, <2>3, SmallMod DEF metadataRegionOffset, W
  <1>8. file.metadataAt = payloadRegionOffset + P
    BY <1>4 DEF LaidOut, P
  <1>9. /\ file.size = metadataRegionOffset + metaOffset[numBlocks] + footerSize
        /\ file.ramAt = ramIndexOffset
    BY <1>7, <1>8 DEF LaidOut
  <1>10. file.size < Word
    BY <1>2, <1>3, <1>5, <1>6, <1>7, <1>9
  <1>11. payloadRegionOffset \in Nat /\ ramIndexOffset \in Nat
    BY <1>2, <1>3, <1>5, <1>6
  <1> QED BY <1>2, <1>4, <1>5, <1>6, <1>7, <1>8, <1>9, <1>10, <1>11 DEF P, R

(* Open accepts it. *)
LEMMA LaidOutAccepted ==
    ASSUME BuiltInv, FileInv, LaidOut
    PROVE  Acceptable
  <1> DEFINE P == Cardinality(members) * entrySize
             R == (numBlocks + 1) * ramIndexEntrySize
             M == metaOffset[numBlocks]
  <1>1. /\ numRAMEntries = numBlocks + 1 /\ P \in Nat /\ M \in Nat /\ ramIndexOffset \in Nat
        /\ payloadRegionOffset = ramIndexOffset + R /\ payloadRegionOffset \in Nat
        /\ file.size = payloadRegionOffset + P + M + footerSize
    BY LaidOutOffsets
  <1>2. /\ headerSize \in Nat /\ lenSize \in Nat /\ userLen \in Nat /\ footerSize \in Nat
        /\ numBlocks \in Nat /\ numBlocks >= 2 /\ ramIndexEntrySize \in Nat /\ MinMetadata \in Nat
        /\ minFileSize \in Nat /\ BlockWord \in Nat /\ numBlocks + 1 < BlockWord /\ MaxMetadata \in Nat
    BY IndexReaderAssumption, WrittenNumbersFit
  <1>3. 2 * MinMetadata <= M
    <2>1. /\ metaOffset[0] + MinMetadata <= metaOffset[1]
          /\ metaOffset[1] + MinMetadata <= metaOffset[numBlocks]
      BY <1>2 DEF BuiltInv
    <2>2. metaOffset[1] \in Nat /\ metaOffset[0] = 0
      BY <1>2 DEF BuiltInv
    <2> QED BY <1>1, <1>2, <2>1, <2>2
  <1>4. R \in Nat /\ 3 * ramIndexEntrySize <= R
    BY <1>2, ProductType, ProductMono
  <1>5. ramIndexOffset = headerSize + lenSize + userLen + lenSize
    BY <1>2 DEF LaidOut, ramIndexOffset
  <1> HIDE DEF P, R, M
  <1>6. file.size >= minFileSize
    BY <1>1, <1>2, <1>3, <1>4, <1>5, SmallestFileAccepted
  <1>7. HeaderValid
    BY <1>2 DEF LaidOut, HeaderValid
  <1>8. SectionsFit
    <2>1. ramIndexEnd = ramIndexOffset + R
      BY <1>1 DEF ramIndexEnd, payloadRegionOffset
    <2> QED BY <1>1, <1>2, <1>4, <1>5, <2>1 DEF SectionsFit, LaidOut
  <1>9. DecoderValid
    BY DEF LaidOut, DecoderValid
  <1> QED BY <1>6, <1>7, <1>8, <1>9 DEF Acceptable

(* A block is located by the numbers its builder has left. *)
LEMMA BlockAsWritten ==
    ASSUME BuiltInv, FileInv, LaidOut, NEW b \in Blocks
    PROVE  /\ ramEntry(b).KeysBefore = KeysBefore(b) /\ ramEntry(b + 1).KeysBefore = KeysBefore(b + 1)
           /\ Monotonic(b) /\ keysInBlock(b) = Cardinality(keysIn(b))
           /\ metaStart(b) = file.metadataAt + metaOffset[b]
           /\ metaEnd(b) = file.metadataAt + metaOffset[b + 1] /\ MetadataFits(b)
  <1>1. numBlocks \in Nat /\ b \in 0 .. numBlocks /\ b + 1 \in 0 .. numBlocks /\ b < b + 1
    BY IndexReaderAssumption DEF Blocks
  <1>2. /\ ramEntry(b) = file.ram[b] /\ ramEntry(b + 1) = file.ram[b + 1]
    BY <1>1, LaidOutOffsets DEF ramEntry
  <1>3. /\ ramEntry(b).KeysBefore = KeysBefore(b) /\ ramEntry(b + 1).KeysBefore = KeysBefore(b + 1)
        /\ ramEntry(b).MetadataOffset = metaOffset[b] /\ ramEntry(b + 1).MetadataOffset = metaOffset[b + 1]
    BY <1>1, <1>2 DEF LaidOut
  <1>4. /\ KeysBefore(b) \in Nat /\ KeysBefore(b + 1) = KeysBefore(b) + Cardinality(keysIn(b))
        /\ Cardinality(keysIn(b)) \in Nat
    BY CountsType, CountsAdd
  <1>5. Monotonic(b)
    BY <1>3, <1>4 DEF Monotonic
  <1>6. Cardinality(keysIn(b)) < Word /\ Word \in Nat
    <2>1. Cardinality(keysIn(b)) <= Cardinality(Keys) /\ Cardinality(Keys) \in Nat
      <3>1. IsFiniteSet(Keys) /\ keysIn(b) \subseteq Keys
        BY IndexReaderAssumption DEF keysIn, BuiltInv
      <3> QED BY <3>1, FS_Subset, FS_CardinalityType
    <2>2. MaxNumber < Word /\ Word \in Nat
      <3>1. /\ BlockWord * ramIndexEntrySize \in Nat /\ MaxNumber \in Nat /\ headerSize \in Nat
            /\ lenSize \in Nat /\ footerSize \in Nat
            /\ (MaxNumber + MaxSlot + 1) * (maxPayloadSize + maxFingerprintSize) \in Nat
        BY IndexReaderAssumption, ProductType
      <3> QED BY <3>1, AddressesFit
    <2> QED BY <1>4, <2>1, <2>2, WrittenNumbersFit, IndexReaderAssumption
  <1>7. keysInBlock(b) = Cardinality(keysIn(b))
    <2>1. KeysBefore(b + 1) - KeysBefore(b) = Cardinality(keysIn(b))
      BY <1>4
    <2> QED BY <1>3, <1>4, <1>6, <2>1, SmallMod DEF keysInBlock, W
  <1>8. /\ metaOffset[b] \in Nat /\ metaOffset[b + 1] \in Nat /\ metaOffset[numBlocks] \in Nat
        /\ metaOffset[b] < metaOffset[b + 1] /\ metaOffset[b + 1] <= metaOffset[numBlocks]
    <2>1. MinMetadata \in Nat \ {0} /\ MaxMetadata \in Nat
      BY IndexReaderAssumption
    <2>2. metaOffset[b] \in Nat /\ metaOffset[b + 1] \in Nat /\ metaOffset[numBlocks] \in Nat
      BY <1>1, <2>1 DEF BuiltInv
    <2>3. metaOffset[b] + MinMetadata <= metaOffset[b + 1]
      BY <1>1 DEF BuiltInv
    <2>4. b + 1 = numBlocks \/ metaOffset[b + 1] + MinMetadata <= metaOffset[numBlocks]
      BY <1>1 DEF BuiltInv
    <2> QED BY <2>1, <2>2, <2>3, <2>4
  <1>9. /\ metadataRegionOffset = file.metadataAt /\ metadataRegionOffset \in Nat /\ footerSize \in Nat
        /\ file.size = metadataRegionOffset + metaOffset[numBlocks] + footerSize /\ file.size < Word
    BY LaidOutOffsets, IndexReaderAssumption
  <1>10. metaStart(b) = file.metadataAt + metaOffset[b] /\ metaEnd(b) = file.metadataAt + metaOffset[b + 1]
    <2> DEFINE X == metadataRegionOffset + metaOffset[b]
               Y == metadataRegionOffset + metaOffset[b + 1]
    <2>1. X \in Nat /\ Y \in Nat /\ X < Word /\ Y < Word
      BY <1>6, <1>8, <1>9
    <2>2. metaStart(b) = X % Word /\ metaEnd(b) = Y % Word
      BY <1>3 DEF metaStart, metaEnd, W
    <2> HIDE DEF X, Y
    <2>3. metaStart(b) = X /\ metaEnd(b) = Y
      BY <1>6, <2>1, <2>2, SmallMod
    <2> QED BY <1>9, <2>3 DEF X, Y
  <1>11. MetadataFits(b)
    BY <1>8, <1>9, <1>10 DEF MetadataFits
  <1> QED BY <1>3, <1>5, <1>7, <1>10, <1>11

(* A query decodes the block its key belongs to, if it holds any key. *)
LEMMA BlockLocated ==
    ASSUME BuiltInv, FileInv, LaidOut, NEW k \in Keys
    PROVE  /\ blockIdx(k) = route[k] /\ route[k] \in Blocks /\ Routed(k)
           /\ keysIn(route[k]) # {} => ReadsMetadata(k)
           /\ file.badBlocks = {} => DecodesAsWritten(k)
  <1> DEFINE b == route[k]
  <1>1. b \in Blocks /\ blockIdx(k) = b
    BY DEF BuiltInv, blockIdx, LaidOut
  <1>2. Routed(k)
    BY <1>1, LaidOutOffsets, IndexReaderAssumption DEF Routed, Blocks
  <1>3. keysIn(b) # {} => ReadsMetadata(k)
    <2> SUFFICES ASSUME keysIn(b) # {} PROVE ReadsMetadata(k)
      OBVIOUS
    <2>1. Cardinality(keysIn(b)) # 0
      BY CountsType, FS_EmptySet
    <2> QED BY <1>1, <1>2, <2>1, BlockAsWritten DEF ReadsMetadata
  <1>4. file.badBlocks = {} => DecodesAsWritten(k)
    BY <1>1, BlockAsWritten DEF DecodesAsWritten, LaidOut
  <1> QED BY <1>1, <1>2, <1>3, <1>4

(* There is an entry for every rank. *)
LEMMA EntryInFile ==
    ASSUME BuiltInv, FileInv, LaidOut, NEW r \in Nat, r < Cardinality(members)
    PROVE  EntryAt(r) \in Nat /\ EntryAt(r) + entrySize <= file.size
  <1>1. Cardinality(members) \in Nat
    BY CountsType, FS_CardinalityType
  <1>2. /\ payloadRegionOffset \in Nat /\ footerSize \in Nat /\ metaOffset[numBlocks] \in Nat
        /\ file.size = payloadRegionOffset + Cardinality(members) * entrySize
                          + metaOffset[numBlocks] + footerSize
        /\ entrySize \in Nat
    BY LaidOutOffsets, IndexReaderAssumption
  <1>3. /\ r * entrySize \in Nat /\ Cardinality(members) * entrySize \in Nat
        /\ r * entrySize + entrySize <= Cardinality(members) * entrySize
    BY <1>1, <1>2, ProductType, ProductWithin
  <1> QED BY <1>2, <1>3 DEF EntryAt

(* A key of the set is answered as it was built. *)
LEMMA MemberAnswered ==
    ASSUME BuiltInv, FileInv, LaidOut, file.badBlocks = {}, file.badRanks = {}, NEW k \in members
    PROVE  /\ Answer(k).err = "none" /\ Answer(k).rank = Rank(k)
           /\ file.PayloadSize > 0 => Answer(k).payload = {k}
  <1>0. k \in Keys /\ k \in keysIn(route[k])
    BY DEF BuiltInv, keysIn
  <1>1. blockIdx(k) = route[k] /\ route[k] \in Blocks /\ ReadsMetadata(k) /\ DecodesAsWritten(k)
    BY <1>0, BlockLocated
  <1>2. QuerySlot(k) = slot[k] /\ slot[k] \in Nat /\ QuerySlot(k) \notin {NoSlot, BadSlot}
    BY <1>1, RankInBlock DEF QuerySlot, NoSlot, BadSlot
  <1>3. LocateError(k) = "none"
    BY <1>1, <1>2 DEF LocateError, ReadsMetadata
  <1>4. globalRank(k) = Rank(k)
    BY <1>1, <1>2, BlockAsWritten DEF globalRank, Rank
  <1>5. EntryAt(Rank(k)) \in Nat /\ EntryAt(Rank(k)) + entrySize <= file.size
    BY RankInBlock, EntryInFile, CountsType, FS_CardinalityType
  <1>6. /\ file.PayloadSize \in Nat /\ file.FingerprintSize \in Nat /\ file.size \in Nat
        /\ entrySize = file.PayloadSize + file.FingerprintSize
    BY DEF FileInv, FileType, entrySize
  <1>7. KeyAt(Rank(k)) = {k}
    <2>1. payloadRegionOffset = file.payloadAt /\ file.sizes = <<file.PayloadSize, file.FingerprintSize>>
      BY DEF LaidOut
    <2>2. entrySize = file.sizes[1] + file.sizes[2] /\ file.FingerprintSize = file.sizes[2]
      BY <1>6, <2>1
    <2>3. \A m \in members : Rank(m) = Rank(k) => m = k
      BY RankInjective
    <2> QED BY <2>1, <2>2, <2>3 DEF KeyAt, EntryOf
  <1>8. FingerprintRange(k).end = EntryAt(Rank(k)) + file.FingerprintSize
    BY <1>4 DEF FingerprintRange, byteRange
  <1>9. FingerprintMatches(k)
    BY <1>4, <1>7 DEF FingerprintMatches
  <1>10. LookupError(k) = "none"
    BY <1>3, <1>5, <1>6, <1>8, <1>9 DEF LookupError
  <1>11. PayloadRange(k).end = EntryAt(Rank(k)) + file.FingerprintSize + file.PayloadSize
    BY <1>4 DEF PayloadRange, byteRange
  <1>12. PayloadFits(k)
    BY <1>5, <1>6, <1>11 DEF PayloadFits
  <1> QED BY <1>4, <1>7, <1>10, <1>12 DEF Answer

(* Any other key is not found, or gets the rank of some key of the set. *)
LEMMA StrangerBounded ==
    ASSUME BuiltInv, FileInv, LaidOut, file.badBlocks = {}, stray \in BadSlot .. MaxSlot,
           NEW k \in Keys \ members
    PROVE  \/ Answer(k).err = "NotFound"
           \/ Answer(k).err = "none" /\ Answer(k).rank < Cardinality(members)
  <1> DEFINE b == route[k]
  <1>1. blockIdx(k) = b /\ b \in Blocks /\ DecodesAsWritten(k) /\ Routed(k)
    BY BlockLocated
  <1>2. /\ keysInBlock(b) = Cardinality(keysIn(b)) /\ keysInBlock(b) \in Nat
        /\ ramEntry(b).KeysBefore = KeysBefore(b) /\ Monotonic(b)
    BY <1>1, BlockAsWritten, CountsType
  <1>3. ASSUME LocateError(k) = "NotFound" PROVE Answer(k).err = "NotFound"
    BY <1>3 DEF Answer, LookupError, ChecksFingerprint
  <1>4. CASE keysIn(b) = {}
    <2>1. keysInBlock(b) = 0
      BY <1>2, <1>4, FS_EmptySet
    <2>2. LocateError(k) = "NotFound"
      BY <1>1, <1>2, <2>1 DEF LocateError, ReadsMetadata
    <2> QED BY <1>3, <2>2
  <1>5. CASE keysIn(b) # {}
    <2>1. ReadsMetadata(k) /\ keysInBlock(b) # 0
      BY <1>1, <1>5, BlockLocated DEF ReadsMetadata
    <2>2. CASE stray \in {NoSlot, BadSlot}
      <3>1. QuerySlot(k) = NoSlot
        BY <1>1, <2>2 DEF QuerySlot
      <3>2. LocateError(k) = "NotFound"
        BY <2>1, <3>1 DEF LocateError, ReadsMetadata
      <3> QED BY <1>3, <3>2
    <2>3. CASE stray \notin {NoSlot, BadSlot}
      <3>1. QuerySlot(k) = stray % keysInBlock(b)
        BY <1>1, <2>3 DEF QuerySlot
      <3>2. QuerySlot(k) \in Nat /\ QuerySlot(k) < Cardinality(keysIn(b))
        BY <1>2, <2>1, <2>3, <3>1, IndexReaderAssumption DEF NoSlot, BadSlot
      <3>3. LocateError(k) = "none"
        <4>1. QuerySlot(k) \notin {NoSlot, BadSlot}
          BY <3>2 DEF NoSlot, BadSlot
        <4> QED BY <1>1, <2>1, <4>1 DEF LocateError, ReadsMetadata
      <3>4. globalRank(k) \in Nat /\ globalRank(k) < Cardinality(members)
        <4>1. /\ KeysBefore(b + 1) = KeysBefore(b) + Cardinality(keysIn(b))
              /\ KeysBefore(b) \in Nat /\ KeysBefore(b + 1) <= Cardinality(members)
              /\ Cardinality(members) \in Nat /\ Cardinality(keysIn(b)) \in Nat
          BY <1>1, CountsAdd, CountsType, FS_CardinalityType
        <4>2. globalRank(k) = KeysBefore(b) + QuerySlot(k)
          BY <1>1, <1>2 DEF globalRank
        <4> QED BY <3>2, <4>1, <4>2
      <3>5. /\ EntryAt(globalRank(k)) \in Nat
            /\ EntryAt(globalRank(k)) + file.FingerprintSize <= file.size
            /\ EntryAt(globalRank(k)) + file.FingerprintSize + file.PayloadSize <= file.size
        <4>1. /\ file.PayloadSize \in Nat /\ file.FingerprintSize \in Nat /\ file.size \in Nat
              /\ entrySize = file.PayloadSize + file.FingerprintSize
          BY DEF FileInv, FileType, entrySize
        <4>2. EntryAt(globalRank(k)) \in Nat /\ EntryAt(globalRank(k)) + entrySize <= file.size
          BY <3>4, EntryInFile
        <4> QED BY <4>1, <4>2
      <3>6. /\ FingerprintRange(k).end = EntryAt(globalRank(k)) + file.FingerprintSize
            /\ PayloadRange(k).end = EntryAt(globalRank(k)) + file.FingerprintSize + file.PayloadSize
        BY DEF FingerprintRange, PayloadRange, byteRange
      <3>7. FingerprintRange(k).end <= file.size /\ PayloadFits(k)
        BY <3>5, <3>6 DEF PayloadFits
      <3>8. ~(FingerprintRange(k).end > file.size)
        <4>1. /\ file.FingerprintSize \in Nat /\ file.size \in Nat
          BY DEF FileInv, FileType
        <4> QED BY <3>5, <3>6, <4>1
      <3>9. LookupError(k) \in {"none", "NotFound"}
        BY <3>3, <3>8 DEF LookupError
      <3>10. CASE LookupError(k) = "none"
        BY <3>4, <3>7, <3>10 DEF Answer
      <3>11. CASE LookupError(k) = "NotFound"
        BY <3>11 DEF Answer
      <3> QED BY <3>9, <3>10, <3>11
    <2> QED BY <2>2, <2>3
  <1> QED BY <1>4, <1>5

--------------------------------------------------------------------------------
(* Verify. *)

(* The entries of a block are found as they were written, but for the damaged ones. *)
LEMMA EntriesAsWritten ==
    ASSUME FileInv, LaidOut, NEW r
    PROVE  EntryOf(r) = {k \in members : Rank(k) = r /\ r \notin file.badRanks}
  <1>1. file.PayloadSize \in Nat /\ file.FingerprintSize \in Nat
    BY DEF FileInv, FileType
  <1>2. payloadRegionOffset = file.payloadAt /\ entrySize = file.sizes[1] + file.sizes[2]
    BY <1>1 DEF LaidOut, entrySize
  <1> QED BY <1>2 DEF EntryOf

(* Verify hashes a block just when its builder did. *)
LEMMA HashedAlike ==
    ASSUME BuiltInv, FileInv, LaidOut, NEW b \in Blocks
    PROVE  (keysInBlock(b) = 0 \/ entrySize = 0) <=> (keysIn(b) = {} \/ file.sizes = <<0, 0>>)
  <1>1. keysInBlock(b) = 0 <=> keysIn(b) = {}
    BY BlockAsWritten, CountsType, FS_EmptySet
  <1>2. entrySize = 0 <=> file.sizes = <<0, 0>>
    <2>1. file.PayloadSize \in Nat /\ file.FingerprintSize \in Nat
      BY DEF FileInv, FileType
    <2>2. entrySize = 0 <=> file.PayloadSize = 0 /\ file.FingerprintSize = 0
      BY <2>1 DEF entrySize
    <2>3. file.sizes = <<file.PayloadSize, file.FingerprintSize>>
      BY DEF LaidOut
    <2> QED BY <2>2, <2>3
  <1> QED BY <1>1, <1>2

LEMMA UndamagedVerified ==
    ASSUME BuiltInv, FileInv, LaidOut, file.badRanks = {}, file.badBlocks = {}
    PROVE  MetadataReached /\ MetadataHashMatches
  <1>1. file.NumBlocks = numBlocks /\ numBlocks \in Nat /\ footerSize \in Nat
    BY IndexReaderAssumption DEF LaidOut
  <1>2. ASSUME NEW b \in Blocks PROVE BlockReadable(b)
    <2>1. Monotonic(b) /\ ramEntry(b + 1).KeysBefore = KeysBefore(b + 1)
      BY BlockAsWritten
    <2>2. BlockRange(b).end = payloadRegionOffset + KeysBefore(b + 1) * entrySize
      BY <2>1 DEF BlockRange, byteRange, EntryAt
    <2>3. /\ KeysBefore(b + 1) \in Nat /\ Cardinality(members) \in Nat
          /\ KeysBefore(b + 1) <= Cardinality(members)
      BY CountsType, FS_CardinalityType
    <2>4. /\ payloadRegionOffset \in Nat /\ entrySize \in Nat /\ metaOffset[numBlocks] \in Nat
          /\ file.size = payloadRegionOffset + Cardinality(members) * entrySize
                            + metaOffset[numBlocks] + footerSize
      BY LaidOutOffsets
    <2>5. /\ KeysBefore(b + 1) * entrySize <= Cardinality(members) * entrySize
          /\ KeysBefore(b + 1) * entrySize \in Nat /\ Cardinality(members) * entrySize \in Nat
      BY <2>3, <2>4, ProductMono, ProductType
    <2>6. BlockRange(b).end <= file.size
      BY <1>1, <2>2, <2>4, <2>5
    <2> QED BY <2>1, <2>6 DEF BlockReadable
  <1>3. ASSUME NEW b \in Blocks PROVE BlockContent(b) = WrittenContent(b)
    <2>1. /\ ramEntry(b).KeysBefore = KeysBefore(b) /\ ramEntry(b + 1).KeysBefore = KeysBefore(b + 1)
      BY BlockAsWritten
    <2>2. \A r : EntryOf(r) = {k \in members : Rank(k) = r}
      BY EntriesAsWritten
    <2>3. (keysInBlock(b) = 0 \/ entrySize = 0) <=> (keysIn(b) = {} \/ file.sizes = <<0, 0>>)
      BY HashedAlike
    <2> QED BY <2>1, <2>2, <2>3 DEF BlockContent, WrittenContent
  <1>4. PayloadHashMatches
    BY <1>1, <1>3 DEF PayloadHashMatches, FooterFound, LaidOut
  <1>5. footerOffset >= metadataRegionOffset
    BY <1>1, LaidOutOffsets DEF footerOffset
  <1>6. metadataRegionOffset = file.metadataAt
    BY LaidOutOffsets
  <1> QED BY <1>1, <1>2, <1>4, <1>5, <1>6 DEF MetadataReached, MetadataHashMatches, Blocks

(* A damaged entry is not what its block's hash was taken of. *)
LEMMA DamagedPayloadNoticed ==
    ASSUME BuiltInv, FileInv, LaidOut, NEW k \in members, file.badRanks = {Rank(k)}, entrySize # 0
    PROVE  ~PayloadHashMatches
  <1> DEFINE b == route[k]
             D == KeysBefore(b) .. KeysBefore(b + 1) - 1
  <1>1. b \in Blocks /\ Rank(k) \in D
    BY RankInBlock
  <1>2. keysIn(b) # {}
    BY DEF keysIn
  <1>3. /\ ramEntry(b).KeysBefore = KeysBefore(b) /\ ramEntry(b + 1).KeysBefore = KeysBefore(b + 1)
        /\ keysInBlock(b) = Cardinality(keysIn(b))
    BY <1>1, BlockAsWritten
  <1>4. keysInBlock(b) # 0
    BY <1>2, <1>3, CountsType, FS_EmptySet
  <1>5. BlockContent(b) = [r \in D |-> EntryOf(r)]
    BY <1>3, <1>4 DEF BlockContent
  <1>6. WrittenContent(b) = [r \in D |-> {m \in members : Rank(m) = r}]
    BY <1>1, <1>2, <1>4, HashedAlike DEF WrittenContent
  <1>7. BlockContent(b)[Rank(k)] = EntryOf(Rank(k))
    BY <1>1, <1>5
  <1>8. WrittenContent(b)[Rank(k)] = {m \in members : Rank(m) = Rank(k)}
    BY <1>1, <1>6
  <1>9. EntryOf(Rank(k)) = {}
    BY EntriesAsWritten
  <1>10. BlockContent(b) # WrittenContent(b)
    BY <1>7, <1>8, <1>9
  <1> QED BY <1>1, <1>10 DEF PayloadHashMatches

(* Damaged metadata is hashed: there always is some. *)
LEMMA DamagedMetadataNoticed ==
    ASSUME BuiltInv, FileInv, LaidOut, file.badBlocks # {}
    PROVE  ~MetadataHashMatches
  <1>1. metaOffset[numBlocks] \in Nat /\ metaOffset[numBlocks] # 0
    <2>1. numBlocks \in Nat /\ 0 < numBlocks /\ MinMetadata \in Nat \ {0} /\ MaxMetadata \in Nat
      BY IndexReaderAssumption
    <2>2. metaOffset[0] = 0 /\ metaOffset[0] + MinMetadata <= metaOffset[numBlocks]
      BY <2>1 DEF BuiltInv
    <2>3. metaOffset[numBlocks] \in Nat
      BY LaidOutOffsets
    <2> QED BY <2>1, <2>2, <2>3
  <1>2. /\ metadataRegionOffset \in Nat /\ footerSize \in Nat
        /\ file.size = metadataRegionOffset + metaOffset[numBlocks] + footerSize
    BY LaidOutOffsets, IndexReaderAssumption
  <1>3. footerOffset # metadataRegionOffset
    BY <1>1, <1>2 DEF footerOffset
  <1> QED BY <1>3 DEF MetadataHashMatches

--------------------------------------------------------------------------------
(* The inductive invariant. *)

(* What QueriesCorrect says of the answers. *)
AnswersInv ==
    Intact =>
        /\ \A k \in last.keys \cap members :
              /\ last.answers[k].err = "none" /\ last.answers[k].rank = Rank(k)
              /\ file.PayloadSize > 0 => last.answers[k].payload = {k}
        /\ last.op = "query" /\ members \subseteq last.keys =>
              {last.answers[k].rank : k \in members} = 0 .. Cardinality(members) - 1
        /\ \A k \in last.keys :
              \/ last.answers[k].err = "NotFound"
              \/ last.answers[k].err = "none" /\ last.answers[k].rank < Cardinality(members)

(* The last operation has read inside the file and answered what it should. *)
ResultInv ==
    /\ \A k \in last.keys : last.answers[k].rank \in 0 .. MaxNumber + MaxSlot
    /\ ReadsStayInFile /\ AnswersInv /\ VerifyExact

ReaderInv == BuiltInv /\ FileInv /\ OpenInv /\ ResultInv

(* The rank in an answer, for whatever was damaged. *)
LEMMA AnswerRank ==
    ASSUME BuiltInv, FileInv, stray \in BadSlot .. MaxSlot, NEW k \in Keys
    PROVE  Answer(k).rank \in 0 .. MaxNumber + MaxSlot
  <1>1. MaxNumber \in Nat /\ MaxSlot \in Nat
    BY IndexReaderAssumption
  <1>2. CASE LookupError(k) = "none"
    <2>1. LocateError(k) = "none"
      BY <1>2 DEF LookupError, ChecksFingerprint
    <2>2. globalRank(k) \in 0 .. MaxNumber + MaxSlot
      BY <2>1, Located
    <2> QED BY <1>1, <1>2, <2>2 DEF Answer
  <1>3. CASE LookupError(k) # "none"
    BY <1>1, <1>3 DEF Answer
  <1> QED BY <1>2, <1>3

(* Batches. *)
LEMMA QueryResults ==
    ASSUME ReaderInv, NEW ks \in SUBSET Keys, Query(ks)
    PROVE  ResultInv'
  <1>1. /\ BuiltInv /\ FileInv /\ Acceptable /\ stray \in BadSlot .. MaxSlot
    BY DEF ReaderInv, OpenInv, Query
  <1>2. file' = file /\ members' = members /\ UNCHANGED built
    BY DEF Query, built
  <1>3. \A k : Rank(k)' = Rank(k)
    BY <1>2 DEF built, Rank, KeysBefore
  <1>4. /\ last'.op = "query" /\ last'.keys = ks
        /\ last'.answers = [k \in ks |-> Answer(k)]
        /\ last'.reads = UNION {QueryReads(k) : k \in ks}
    BY DEF Query
  <1>5. \A k \in last'.keys : last'.answers[k] = Answer(k) /\ k \in Keys
    BY <1>4
  <1>6. \A k \in last'.keys : last'.answers[k].rank \in 0 .. MaxNumber + MaxSlot
    BY <1>1, <1>5, AnswerRank
  <1>7. ReadsStayInFile'
    <2>1. \A r \in last'.reads : Inside(r)
      BY <1>1, <1>4, QueryReadsInside
    <2> QED BY <2>1 DEF ReadsStayInFile, Inside
  <1>8. AnswersInv'
    <2> SUFFICES ASSUME Intact PROVE
          /\ \A k \in last'.keys \cap members :
                /\ last'.answers[k].err = "none" /\ last'.answers[k].rank = Rank(k)
                /\ file.PayloadSize > 0 => last'.answers[k].payload = {k}
          /\ members \subseteq last'.keys =>
                {last'.answers[k].rank : k \in members} = 0 .. Cardinality(members) - 1
          /\ \A k \in last'.keys :
                \/ last'.answers[k].err = "NotFound"
                \/ last'.answers[k].err = "none" /\ last'.answers[k].rank < Cardinality(members)
      BY <1>2, <1>3 DEF AnswersInv, Intact
    <2>1. LaidOut /\ file.badRanks = {} /\ file.badBlocks = {}
      BY <1>1 DEF FileInv, Intact
    <2>2. \A k \in members : /\ Answer(k).err = "none" /\ Answer(k).rank = Rank(k)
                             /\ file.PayloadSize > 0 => Answer(k).payload = {k}
      BY <1>1, <2>1, MemberAnswered
    <2>3. \A k \in last'.keys \cap members :
                /\ last'.answers[k].err = "none" /\ last'.answers[k].rank = Rank(k)
                /\ file.PayloadSize > 0 => last'.answers[k].payload = {k}
      BY <1>5, <2>2
    <2>4. ASSUME members \subseteq last'.keys
          PROVE  {last'.answers[k].rank : k \in members} = 0 .. Cardinality(members) - 1
      <3>1. \A k \in members : last'.answers[k].rank = Rank(k)
        BY <2>3, <2>4
      <3>2. {last'.answers[k].rank : k \in members} = {Rank(k) : k \in members}
        BY <3>1
      <3> QED BY <1>1, <3>2, RanksPerfect
    <2>5. ASSUME NEW k \in last'.keys
          PROVE  \/ last'.answers[k].err = "NotFound"
                 \/ last'.answers[k].err = "none" /\ last'.answers[k].rank < Cardinality(members)
      <3>1. CASE k \in members
        <4>1. /\ last'.answers[k].err = "none" /\ last'.answers[k].rank = Rank(k)
              /\ Rank(k) \in 0 .. Cardinality(members) - 1
          BY <1>1, <2>3, <3>1, RankInBlock
        <4>2. Cardinality(members) \in Nat
          BY <1>1, CountsType, FS_CardinalityType
        <4> QED BY <4>1, <4>2
      <3>2. CASE k \notin members
        BY <1>1, <1>5, <2>1, <3>2, StrangerBounded
      <3> QED BY <3>1, <3>2
    <2> QED BY <2>3, <2>4, <2>5
  <1>9. VerifyExact'
    BY <1>4 DEF VerifyExact
  <1> QED BY <1>6, <1>7, <1>8, <1>9 DEF ResultInv

(* Verify. *)
LEMMA VerifyResults ==
    ASSUME ReaderInv, Verify
    PROVE  ResultInv'
  <1>1. /\ BuiltInv /\ FileInv /\ Acceptable
    BY DEF ReaderInv, OpenInv, Verify
  <1>2. file' = file
    BY DEF Verify
  <1>3. /\ last'.op = "verify" /\ last'.keys = {} /\ last'.reads = VerifyReads
        /\ last'.ok = (MetadataReached /\ MetadataHashMatches)
    BY DEF Verify
  <1>4. ReadsStayInFile'
    <2>1. \A r \in last'.reads : Inside(r)
      BY <1>1, <1>3, VerifyReadsInside
    <2> QED BY <2>1 DEF ReadsStayInFile, Inside
  <1>5. AnswersInv'
    BY <1>3 DEF AnswersInv
  <1>6. VerifyExact'
    <2>1. ASSUME file.damage = {} PROVE last'.ok
      <3>1. LaidOut /\ file.badRanks = {} /\ file.badBlocks = {}
        BY <1>1, <2>1 DEF FileInv
      <3> QED BY <1>1, <1>3, <3>1, UndamagedVerified
    <2>2. ASSUME "size" \in file.damage PROVE ~last'.ok
      <3>1. file.size < file.footerAt + footerSize
        BY <1>1, <2>2 DEF FileInv
      <3>2. file.size \in Nat /\ file.footerAt \in Nat /\ footerSize \in Nat
        BY <1>1, IndexReaderAssumption DEF FileInv, FileType
      <3>3. ~FooterFound
        BY <3>1, <3>2 DEF FooterFound
      <3> QED BY <1>3, <3>3 DEF MetadataReached, PayloadHashMatches
    <2>3. ASSUME "metadata" \in file.damage PROVE ~last'.ok
      <3>1. LaidOut /\ file.badBlocks # {}
        BY <1>1, <2>3 DEF FileInv
      <3> QED BY <1>1, <1>3, <3>1, DamagedMetadataNoticed
    <2>4. ASSUME "payload" \in file.damage
          PROVE  ~last'.ok \/ (file.damage = {"payload"} /\ entrySize = 0)
      <3>1. file.damage = {"payload"} /\ LaidOut
        BY <1>1, <2>4 DEF FileInv
      <3>2. PICK k \in members : file.badRanks = {Rank(k)}
        BY <1>1, <2>4 DEF FileInv
      <3>3. CASE entrySize # 0
        BY <1>1, <1>3, <3>1, <3>2, <3>3, DamagedPayloadNoticed DEF MetadataReached
      <3> QED BY <3>1, <3>3
    <2>5. entrySize' = entrySize
      BY <1>2 DEF entrySize
    <2> QED BY <1>2, <2>1, <2>2, <2>3, <2>4, <2>5 DEF VerifyExact, Intact
  <1> QED BY <1>3, <1>4, <1>5, <1>6 DEF ResultInv

(* No operation since Open or Close has nothing to answer for. *)
LEMMA IdleResults ==
    ASSUME last' = Idle
    PROVE  ResultInv'
  BY DEF ResultInv, Idle, ReadsStayInFile, AnswersInv, VerifyExact

(* Results are kept with the file they were read from. *)
LEMMA ResultsKept ==
    ASSUME ResultInv, UNCHANGED <<built, file, last>>
    PROVE  ResultInv'
  BY DEF ResultInv, ReadsStayInFile, AnswersInv, VerifyExact, Intact, Rank, KeysBefore, entrySize, built

LEMMA BuiltKept ==
    ASSUME BuiltInv, UNCHANGED built
    PROVE  BuiltInv'
  BY DEF BuiltInv, built, keysIn

LEMMA FileKept ==
    ASSUME FileInv, UNCHANGED <<built, file>>
    PROVE  FileInv'
  <1>1. file' = file /\ members' = members
    BY DEF built
  <1>2. LaidOut => LaidOut'
    BY DEF LaidOut, built, KeysBefore, ramIndexOffset, numRAMEntries, ramIndexEnd, payloadRegionOffset,
           entrySize
  <1>3. \A k : Rank(k)' = Rank(k)
    BY DEF built, Rank, KeysBefore
  <1> QED BY <1>1, <1>2, <1>3 DEF FileInv, FileType, Blocks, RamEntry

LEMMA AcceptableKept ==
    ASSUME UNCHANGED file
    PROVE  Acceptable' = Acceptable
  BY DEF Acceptable, HeaderValid, SectionsFit, DecoderValid, ramIndexOffset, ramIndexEnd, numRAMEntries

LEMMA ReaderInit ==
    ASSUME Init
    PROVE  ReaderInv
  <1>1. BuiltInv
    BY DEF Init, BuiltInv
  <1>2. FileInv
    <2>1. PICK p \in 0 .. maxPayloadSize, f \in 0 .. maxFingerprintSize : file = WrittenFile(p, f)
      BY DEF Init
    <2> QED BY <1>1, <2>1, WrittenLaidOut
  <1>3. OpenInv
    <2>1. stray \in Slots \cup {NoSlot, BadSlot} /\ state = "unopened" /\ last = Idle
      BY DEF Init
    <2>2. Slots \subseteq 0 .. MaxSlot /\ MaxSlot \in Nat
      BY IndexReaderAssumption
    <2>3. stray \in BadSlot .. MaxSlot
      BY <2>1, <2>2 DEF NoSlot, BadSlot
    <2> QED BY <2>1, <2>3 DEF OpenInv
  <1>4. ResultInv
    BY DEF Init, ResultInv, Idle, ReadsStayInFile, AnswersInv, VerifyExact
  <1> QED BY <1>1, <1>2, <1>3, <1>4 DEF ReaderInv

LEMMA ReaderStep ==
    ASSUME ReaderInv, [Next]_vars
    PROVE  ReaderInv'
  <1> USE DEF ReaderInv
  <1>1. CASE Damage
    <2>1. UNCHANGED <<built, stray, state, last>> /\ state = "unopened"
      BY <1>1 DEF Damage
    <2>2. BuiltInv' /\ FileInv'
      BY <1>1, <2>1, BuiltKept, DamageKeepsFileInv
    <2>3. OpenInv'
      BY <2>1 DEF OpenInv
    <2>4. ResultInv'
      BY <2>1, IdleResults DEF OpenInv
    <2> QED BY <2>2, <2>3, <2>4
  <1>2. CASE Open
    <2>1. UNCHANGED <<built, file, stray, last>> /\ state = "unopened"
      BY <1>2 DEF Open
    <2>2. BuiltInv' /\ FileInv' /\ ResultInv'
      BY <2>1, BuiltKept, FileKept, ResultsKept
    <2>3. OpenInv'
      <3>1. state' = IF Acceptable THEN "open" ELSE "rejected"
        BY <1>2 DEF Open, Acceptable
      <3> QED BY <2>1, <3>1, AcceptableKept DEF OpenInv
    <2> QED BY <2>2, <2>3
  <1>3. CASE Verify
    <2>1. UNCHANGED <<built, file, stray, state>> /\ state = "open"
      BY <1>3 DEF Verify
    <2>2. BuiltInv' /\ FileInv'
      BY <2>1, BuiltKept, FileKept
    <2>3. OpenInv'
      BY <2>1, AcceptableKept DEF OpenInv
    <2> QED BY <1>3, <2>2, <2>3, VerifyResults
  <1>4. CASE Close
    <2>1. UNCHANGED <<built, file, stray>> /\ state' = "closed" /\ last' = Idle
      BY <1>4 DEF Close
    <2>2. BuiltInv' /\ FileInv' /\ ResultInv'
      BY <2>1, BuiltKept, FileKept, IdleResults
    <2>3. OpenInv'
      BY <2>1 DEF OpenInv
    <2> QED BY <2>2, <2>3
  <1>5. CASE CallAfterClose \/ UNCHANGED vars
    <2>1. UNCHANGED <<built, file, stray, state, last>>
      BY <1>5 DEF CallAfterClose, vars
    <2>2. BuiltInv' /\ FileInv' /\ ResultInv'
      BY <2>1, BuiltKept, FileKept, ResultsKept
    <2>3. OpenInv'
      BY <2>1, AcceptableKept DEF OpenInv
    <2> QED BY <2>2, <2>3
  <1>6. ASSUME NEW ks \in SUBSET Keys \ {{}}, Query(ks)
        PROVE  ReaderInv'
    <2>1. UNCHANGED <<built, file, stray, state>> /\ state = "open" /\ ks \in SUBSET Keys
      BY <1>6 DEF Query
    <2>2. BuiltInv' /\ FileInv'
      BY <2>1, BuiltKept, FileKept
    <2>3. OpenInv'
      BY <2>1, AcceptableKept DEF OpenInv
    <2>4. ResultInv'
      BY <1>6, <2>1, QueryResults
    <2> QED BY <2>2, <2>3, <2>4
  <1> QED BY <1>1, <1>2, <1>3, <1>4, <1>5, <1>6 DEF Next

THEOREM ReaderInvariant == Spec => []ReaderInv
  <1>1. Init => ReaderInv
    BY ReaderInit
  <1>2. ReaderInv /\ [Next]_vars => ReaderInv'
    BY ReaderStep
  <1> QED BY <1>1, <1>2, PTL DEF Spec

--------------------------------------------------------------------------------
(* Theorems. *)

(* The state of the reader keeps its types, and ranks stay those an entry of the RAM
   index and a decoder can add up to, whatever a damaged file holds. *)
THEOREM ReaderTypeCorrect == Spec => []TypeOK
  <1>1. ReaderInv => TypeOK
    BY DEF ReaderInv, BuiltInv, FileInv, OpenInv, ResultInv, TypeOK
  <1> QED BY <1>1, ReaderInvariant, PTL

(* lookup, QueryPayload and Verify never slice outside of the file or of the RAM index,
   for any damage that Open lets pass. *)
THEOREM ReadsInBounds == Spec => []ReadsStayInFile
  <1>1. ReaderInv => ReadsStayInFile
    BY DEF ReaderInv, ResultInv
  <1> QED BY <1>1, ReaderInvariant, PTL

(* An index that was not damaged opens and answers as it was built: the ranks of the
   keys are 0 to the number of keys - 1, each with its own payload, and other keys are
   never answered ErrCorruptedIndex. *)
THEOREM IntactIndexAnswers == Spec => []QueriesCorrect
  <1>1. ReaderInv => QueriesCorrect
    <2> SUFFICES ASSUME ReaderInv, Intact PROVE state # "rejected" /\ AnswersInv
      BY DEF QueriesCorrect, AnswersInv
    <2>1. LaidOut
      BY DEF ReaderInv, FileInv, Intact
    <2>2. Acceptable
      BY <2>1, LaidOutAccepted DEF ReaderInv
    <2> QED BY <2>2 DEF ReaderInv, OpenInv, ResultInv
  <1> QED BY <1>1, ReaderInvariant, PTL

(* Verify accepts an index that was not damaged and notices damaged payloads, damaged
   metadata and a changed length. *)
THEOREM VerifyNoticesDamage == Spec => []VerifyExact
  <1>1. ReaderInv => VerifyExact
    BY DEF ReaderInv, ResultInv
  <1> QED BY <1>1, ReaderInvariant, PTL
================================================================================
