----------------------------- MODULE IndexReader -----------------------------
(***************************************************************************)
(* Reading an index file (index.go, header.go): Open, QueryRank,           *)
(* QueryPayload, QueryBatch with its prefetch, Verify and Close, over an   *)
(* index as finalize leaves it and over one damaged afterwards.            *)
(*                                                                         *)
(* The file is its layout: where the sections are, how long they are and   *)
(* which part of them is as written. Sizes are counted in small units, and *)
(* addresses wrap at Word as uint64 does. What a slice expression reads is *)
(* a range; Go panics where it leaves the slice.                           *)
(***************************************************************************)
EXTENDS Integers, Sequences, FiniteSets, FiniteSetsExt, SequencesExt

CONSTANTS Keys,               \* the keys that are asked for
          numBlocks,          \* blocks of the index
          userLen,            \* length of the user metadata
          headerSize, lenSize, ramIndexEntrySize, footerSize, minFileSize,
          gap,                \* ranges of willNeed this close are joined
          Word,               \* 2^64
          BlockWord,          \* 2^32
          maxPayloadSize, maxFingerprintSize,
          MinMetadata,        \* the shortest metadata of a block, an empty one's
          MaxMetadata,        \* bound: the metadata of all blocks
          MaxNumber,          \* the largest count, offset or length in a file
          MaxSlot,            \* the largest slot a decoder returns
          Damages,            \* the kinds of damage considered, and what is found then
          Totals,             \* as the number of keys
          BlockCounts,        \* as the number of blocks
          Lengths,            \* as the length of a section
          Counts,             \* in an entry of the RAM index
          Slots               \* as a slot decoded from damaged metadata

ASSUME IndexReaderAssumption ==
    /\ IsFiniteSet(Keys) /\ numBlocks \in Nat \ {0, 1}
    /\ headerSize \in Nat /\ lenSize \in Nat /\ ramIndexEntrySize \in Nat /\ footerSize \in Nat
    /\ minFileSize \in Nat /\ minFileSize >= headerSize + footerSize
    /\ gap \in Nat /\ BlockWord \in Nat /\ BlockWord > numBlocks + 1
    /\ maxPayloadSize \in Nat /\ maxFingerprintSize \in Nat
    /\ MinMetadata \in Nat \ {0} /\ MaxMetadata \in Nat /\ MaxNumber \in Nat /\ MaxSlot \in Nat
    /\ Damages \subseteq {"size", "header", "lengths", "ram", "payload", "metadata"}
    /\ BlockCounts \subseteq 0 .. BlockWord - 1 /\ Slots \subseteq 0 .. MaxSlot
    /\ Lengths \subseteq 0 .. MaxNumber /\ Counts \subseteq 0 .. MaxNumber

(* What the builders write has its numbers in their fields. *)
ASSUME WrittenNumbersFit ==
    /\ Cardinality(Keys) <= MaxNumber /\ Cardinality(Keys) <= MaxSlot + 1
    /\ MaxMetadata <= MaxNumber /\ userLen \in 0 .. MaxNumber

(* The fixed parts and two blocks' metadata are no less than Open asks for. *)
ASSUME SmallestFileAccepted ==
    minFileSize <= headerSize + 2 * lenSize + 3 * ramIndexEntrySize + 2 * MinMetadata + footerSize

(* The fields of a file are much narrower than an address: of what is computed from
   them, only sums with the product of a damaged TotalKeys wrap. *)
ASSUME AddressesFit ==
    /\ Word \in Nat /\ Totals \subseteq 0 .. Word - 1
    /\ Word > headerSize + 2 * lenSize + 3 * MaxNumber + BlockWord * ramIndexEntrySize + footerSize
                 + (MaxNumber + MaxSlot + 1) * (maxPayloadSize + maxFingerprintSize)

Blocks == 0 .. numBlocks - 1
NoSlot == -1      \* no slot: ErrNotFound
BadSlot == -2     \* no slot: ErrCorruptedIndex

VARIABLES members,      \* the keys the index was built from
          route,        \* FastRange32 of the key prefix over numBlocks
          slot,         \* the slot the block's solver gave each member
          fingerprint,  \* extractFingerprint
          metaOffset,   \* where each block's metadata starts, and where the last ends
          file,         \* the file: header, sections and what is damaged
          stray,        \* what a decoder returns when it cannot know better
          state,        \* unopened, rejected, open, closed
          last          \* the last operation, its answers and what it read

built == <<members, route, slot, fingerprint, metaOffset>>
vars == <<built, file, stray, state, last>>

W(n) == n % Word

keysIn(b) == {k \in members : route[k] = b}
KeysBefore(b) == Cardinality({k \in members : route[k] < b})
Rank(k) == KeysBefore(route[k]) + slot[k]

Idle == [op |-> "none", keys |-> {}, answers |-> <<>>, reads |-> {}, advised |-> {}, ok |-> TRUE]

(* The file finalize writes. The two lengths are stored before the variable sections;
   neither algorithm has a global configuration. *)
WrittenFile(payloadSize, fpSize) ==
    LET ramStart == headerSize + lenSize + userLen + lenSize
        payloadStart == ramStart + (numBlocks + 1) * ramIndexEntrySize
        metaStart == payloadStart + Cardinality(members) * (payloadSize + fpSize)
    IN  [validMagic |-> TRUE, decoder |-> "built",
         TotalKeys |-> Cardinality(members), NumBlocks |-> numBlocks,
         PayloadSize |-> payloadSize, FingerprintSize |-> fpSize, sizes |-> <<payloadSize, fpSize>>,
         userLen |-> userLen, algoLen |-> 0,
         ram |-> [b \in 0 .. numBlocks |->
                    [KeysBefore |-> KeysBefore(b), MetadataOffset |-> metaOffset[b]]],
         ramAt |-> ramStart, payloadAt |-> payloadStart, metadataAt |-> metaStart,
         size |-> metaStart + metaOffset[numBlocks] + footerSize,
         footerAt |-> metaStart + metaOffset[numBlocks],
         badRanks |-> {}, badBlocks |-> {}, strayEntry |-> [KeysBefore |-> 0, MetadataOffset |-> 0],
         damage |-> {}]

(* Every index the builders can have produced from these keys. *)
Init ==
    /\ members \in SUBSET Keys
    /\ route \in [Keys -> Blocks]
    /\ slot \in {s \in [Keys -> NoSlot .. Cardinality(Keys) - 1] :
                    /\ \A k \in Keys : k \in members <=> s[k] # NoSlot
                    /\ \A b \in Blocks : {s[k] : k \in keysIn(b)} = 0 .. Cardinality(keysIn(b)) - 1}
    /\ fingerprint \in [Keys -> 0 .. 1]
    /\ metaOffset \in {m \in [0 .. numBlocks -> 0 .. MaxMetadata] :
                          /\ m[0] = 0
                          /\ \A b, c \in 0 .. numBlocks : b < c => m[b] + MinMetadata <= m[c]}
    /\ \E p \in 0 .. maxPayloadSize, f \in 0 .. maxFingerprintSize :
          /\ f = 0 => fingerprint = [k \in Keys |-> 0]
          /\ file = WrittenFile(p, f)
    /\ stray \in Slots \cup {NoSlot, BadSlot}
    /\ state = "unopened"
    /\ last = Idle

(* One kind of damage between writing and opening. Bytes found where a section was
   not written decode to an arbitrary entry. *)
Entries == [KeysBefore : Counts, MetadataOffset : Counts]

Damage ==
    /\ state = "unopened" /\ file.damage = {}
    /\ \E d \in Damages :
          \/ /\ d = "size"
             /\ \E n \in 0 .. file.size - 1 :
                   file' = [file EXCEPT !.size = n, !.damage = {d}]
          \/ /\ d = "header"
             /\ \/ file' = [file EXCEPT !.validMagic = FALSE, !.damage = {d}]
                \/ \E a \in {"other", "unknown"} :
                      file' = [file EXCEPT !.decoder = a, !.damage = {d}]
                \/ \E p \in 0 .. maxPayloadSize, f \in 0 .. maxFingerprintSize :
                      /\ <<p, f>> # file.sizes
                      /\ file' = [file EXCEPT !.PayloadSize = p, !.FingerprintSize = f, !.damage = {d}]
                \/ \E t \in Totals :
                      file' = [file EXCEPT !.TotalKeys = t, !.damage = {d}]
                \/ \E n \in BlockCounts \ {numBlocks}, e \in Entries :
                      file' = [file EXCEPT !.NumBlocks = n, !.strayEntry = e, !.damage = {d}]
          \/ /\ d = "lengths"
             /\ \/ \E n \in Lengths \ {userLen}, e \in Entries :
                      file' = [file EXCEPT !.userLen = n, !.strayEntry = e, !.damage = {d}]
                \/ \E n \in Lengths \ {0} :
                      file' = [file EXCEPT !.algoLen = n, !.damage = {d}]
          \/ /\ d = "ram"
             /\ \E b \in 0 .. numBlocks, e \in Entries :
                   /\ e # file.ram[b]
                   /\ file' = [file EXCEPT !.ram[b] = e, !.damage = {d}]
          \/ /\ d = "payload"
             /\ \E r \in {Rank(k) : k \in members} :
                   file' = [file EXCEPT !.badRanks = {r}, !.damage = {d}]
          \/ /\ d = "metadata"
             /\ \E b \in Blocks :
                   file' = [file EXCEPT !.badBlocks = {b}, !.damage = {d}]
    /\ UNCHANGED <<built, stray, state, last>>

--------------------------------------------------------------------------------
(* Open. *)

entrySize == file.PayloadSize + file.FingerprintSize

(* Seeded fault: a header that counts 2^32 - 1 blocks is taken. *)
HeaderValidWrapping == file.validMagic /\ ~(file.NumBlocks = 0 /\ file.TotalKeys > 0)

(* decodeHeader; validMagic stands for the magic number, the version and the limits
   on the two sizes. *)
HeaderValid ==
    /\ file.validMagic
    /\ ~(file.NumBlocks = 0 /\ file.TotalKeys > 0)
    /\ file.NumBlocks # BlockWord - 1

numRAMEntries == (file.NumBlocks + 1) % BlockWord
ramIndexOffset == headerSize + lenSize + file.userLen + lenSize + file.algoLen
ramIndexEnd == ramIndexOffset + numRAMEntries * ramIndexEntrySize

(* The bounds initFromData checks, in its order: the two lengths, their sections
   and the RAM index, which ends before the footer. *)
SectionsFit ==
    /\ headerSize + lenSize + file.userLen <= file.size
    /\ headerSize + lenSize + file.userLen + lenSize <= file.size
    /\ ramIndexOffset <= file.size
    /\ ramIndexEnd <= file.size - footerSize

payloadRegionOffset == ramIndexEnd
metadataRegionOffset == W(payloadRegionOffset + W(file.TotalKeys * entrySize))

(* newBlockDecoder: the algorithm must be known, and neither takes a configuration. *)
DecoderValid == file.decoder # "unknown" /\ file.algoLen = 0

Open ==
    /\ state = "unopened"
    /\ state' = IF file.size >= minFileSize /\ HeaderValid /\ SectionsFit /\ DecoderValid
                  THEN "open" ELSE "rejected"
    /\ UNCHANGED <<built, file, stray, last>>

--------------------------------------------------------------------------------
(* lookup, one operator per stage: each stage reads what the one before located. *)

(* Bytes start to end - 1 of a slice that ends at limit, by default the file's. *)
byteRange(s, e) == [start |-> s, end |-> e, limit |-> file.size]

(* FastRange32 over the header's block count, which is below that count. *)
blockIdx(k) ==
    IF file.NumBlocks = numBlocks THEN route[k]
    ELSE IF file.NumBlocks = 0 THEN 0 ELSE route[k] % file.NumBlocks

Routed(k) == blockIdx(k) + 1 < numRAMEntries

(* Where sections are not where they were written, the bytes are not theirs. *)
ramEntry(b) ==
    IF ramIndexOffset = file.ramAt /\ b <= numBlocks THEN file.ram[b] ELSE file.strayEntry

RamRange(b) ==
    [start |-> ramIndexOffset + b * ramIndexEntrySize,
     end |-> ramIndexOffset + (b + 1) * ramIndexEntrySize, limit |-> ramIndexEnd]

Monotonic(b) == ramEntry(b + 1).KeysBefore >= ramEntry(b).KeysBefore

keysInBlock(b) == W(ramEntry(b + 1).KeysBefore - ramEntry(b).KeysBefore)

metaStart(b) == W(metadataRegionOffset + ramEntry(b).MetadataOffset)
metaEnd(b) == W(metadataRegionOffset + ramEntry(b + 1).MetadataOffset)

MetadataFits(b) == metaStart(b) < metaEnd(b) /\ metaEnd(b) <= file.size

(* The block's metadata is what its builder wrote, and is read as such: with the
   algorithm and the seed it was built with. *)
DecodesAsWritten(k) ==
    LET b == blockIdx(k)
    IN  /\ file.decoder = "built" /\ b = route[k] /\ b \notin file.badBlocks
        /\ metaStart(b) = file.metadataAt + metaOffset[b]
        /\ metaEnd(b) = file.metadataAt + metaOffset[b + 1]
        /\ keysInBlock(b) = Cardinality(keysIn(b))

(* decoder.QuerySlot: exact for the keys of the block, some slot of the block or
   ErrNotFound for other keys, anything for other metadata. *)
QuerySlot(k) ==
    IF ~DecodesAsWritten(k) THEN stray
    ELSE IF k \in members THEN slot[k]
    ELSE IF stray \in {NoSlot, BadSlot} THEN NoSlot ELSE stray % keysInBlock(blockIdx(k))

ReadsMetadata(k) ==
    /\ Routed(k) /\ Monotonic(blockIdx(k)) /\ keysInBlock(blockIdx(k)) # 0
    /\ MetadataFits(blockIdx(k))

(* The outcome of lookup before the fingerprint check: an error, which may be the
   decoder's, or none. *)
LocateError(k) ==
    LET b == blockIdx(k)
    IN  CASE ~Routed(k) -> "NotFound"
          [] Routed(k) /\ ~Monotonic(b) -> "CorruptedIndex"
          [] Routed(k) /\ Monotonic(b) /\ keysInBlock(b) = 0 -> "NotFound"
          [] ReadsMetadata(k) /\ QuerySlot(k) = NoSlot -> "NotFound"
          [] ReadsMetadata(k) /\ QuerySlot(k) \notin {NoSlot, BadSlot} -> "none"
          [] OTHER -> "CorruptedIndex"

(* Seeded fault: a rank counts from the start of the next block. *)
globalRankNext(k) == ramEntry(blockIdx(k) + 1).KeysBefore + QuerySlot(k)

globalRank(k) == ramEntry(blockIdx(k)).KeysBefore + QuerySlot(k)
EntryAt(r) == payloadRegionOffset + r * entrySize
FingerprintRange(k) == byteRange(EntryAt(globalRank(k)), EntryAt(globalRank(k)) + file.FingerprintSize)
PayloadRange(k) ==
    byteRange(EntryAt(globalRank(k)) + file.FingerprintSize,
          EntryAt(globalRank(k)) + file.FingerprintSize + file.PayloadSize)

(* The key whose entry the bytes at a rank are, if they are one as written. *)
EntryOf(r) == {k \in members : /\ payloadRegionOffset = file.payloadAt
                               /\ entrySize = file.sizes[1] + file.sizes[2]
                               /\ Rank(k) = r /\ r \notin file.badRanks}

(* The same, if its two parts are told apart as they were written. *)
KeyAt(r) == {k \in EntryOf(r) : file.FingerprintSize = file.sizes[2]}

(* verifyFingerprintSeparated; bytes that are no entry as written match or do not. *)
FingerprintMatches(k) ==
    LET found == KeyAt(globalRank(k))
    IN  IF found = {} THEN stray = 0 ELSE \E m \in found : fingerprint[m] = fingerprint[k]

ChecksFingerprint(k) == LocateError(k) = "none" /\ file.FingerprintSize > 0

(* queryInternal. *)
LookupError(k) ==
    IF ~ChecksFingerprint(k) THEN LocateError(k)
    ELSE IF FingerprintRange(k).end > file.size THEN "CorruptedIndex"
    ELSE IF FingerprintMatches(k) THEN "none" ELSE "NotFound"

PayloadFits(k) == PayloadRange(k).end <= file.size

(* QueryRank, or QueryPayload where there are payloads: the rank, and the key whose
   payload is returned; neither of them with an error. *)
Answer(k) ==
    LET found == LookupError(k) = "none"
        cutOff == found /\ file.PayloadSize > 0 /\ ~PayloadFits(k)
    IN  [err |-> IF cutOff THEN "CorruptedIndex" ELSE LookupError(k),
         rank |-> IF found /\ ~cutOff THEN globalRank(k) ELSE 0,
         payload |-> IF found /\ ~cutOff /\ file.PayloadSize > 0 THEN KeyAt(globalRank(k)) ELSE {}]

(* What the query for a key reads, as far as it gets. *)
LocateReads(k) ==
    LET b == blockIdx(k)
    IN  (IF Routed(k) THEN {RamRange(b), RamRange(b + 1)} ELSE {})
            \cup (IF ReadsMetadata(k) THEN {byteRange(metaStart(b), metaEnd(b))} ELSE {})

QueryReads(k) ==
    LocateReads(k)
        \cup (IF ChecksFingerprint(k) /\ FingerprintRange(k).end <= file.size
                THEN {FingerprintRange(k)} ELSE {})
        \cup (IF LookupError(k) = "none" /\ file.PayloadSize > 0 /\ PayloadFits(k)
                THEN {PayloadRange(k)} ELSE {})

--------------------------------------------------------------------------------
(* prefetch. *)

(* Seeded fault: a joined range keeps the end of its first range. *)
JoinRangesShort(joined, r) ==
    IF joined # <<>> /\ r.start <= joined[Len(joined)].end + gap THEN joined
    ELSE Append(joined, r)

(* willNeed: ranges no further apart than gap are read as one. *)
JoinRanges(joined, r) ==
    IF joined # <<>> /\ r.start <= joined[Len(joined)].end + gap
      THEN [joined EXCEPT ![Len(joined)].end = Max({@, r.end})]
      ELSE Append(joined, r)

willNeed(ranges) == ToSet(FoldLeft(JoinRanges, <<>>, ranges))

(* The blocks of the batch in order, each once. *)
BatchBlocks(ks) ==
    SetToSortSeq({blockIdx(k) : k \in {j \in ks : Routed(j)}}, <)

RamRanges(ks) ==
    LET bs == BatchBlocks(ks)
    IN  [i \in 1 .. Len(bs) |-> byteRange(RamRange(bs[i]).start, RamRange(bs[i] + 1).end)]

MetadataRanges(ks) ==
    LET worth(b) == /\ ramEntry(b).KeysBefore < ramEntry(b + 1).KeysBefore
                    /\ MetadataFits(b)
        bs == SelectSeq(BatchBlocks(ks), worth)
    IN  [i \in 1 .. Len(bs) |-> byteRange(metaStart(bs[i]), metaEnd(bs[i]))]

EntryRanges(ks) ==
    LET worth == {k \in ks : /\ LocateError(k) = "none" /\ globalRank(k) < file.TotalKeys
                             /\ EntryAt(globalRank(k)) + entrySize <= file.size}
        ranges == {byteRange(EntryAt(globalRank(k)), EntryAt(globalRank(k)) + entrySize) : k \in worth}
    IN  IF entrySize = 0 THEN <<>>
        ELSE SetToSortSeq(ranges, LAMBDA a, b : a.start < b.start)

Advised(ks) ==
    willNeed(RamRanges(ks)) \cup willNeed(MetadataRanges(ks)) \cup willNeed(EntryRanges(ks))

(* A batch: prefetch, which locates the keys itself, then one query after the
   other. A batch of one key without prefetch is QueryRank or QueryPayload. No
   operation changes the index, so one is looked at for every opening. *)
Query(ks) ==
    /\ state = "open" /\ last = Idle
    /\ last' = [op |-> "query", keys |-> ks, answers |-> [k \in ks |-> Answer(k)],
                reads |-> UNION {QueryReads(k) : k \in ks}, advised |-> Advised(ks), ok |-> TRUE]
    /\ UNCHANGED <<built, file, stray, state>>

--------------------------------------------------------------------------------
(* Verify. *)

(* The payloads of a block as far as they are as written, which its hash stands for. *)
BlockContent(b) ==
    IF keysInBlock(b) = 0 \/ entrySize = 0 THEN <<>>
    ELSE [r \in ramEntry(b).KeysBefore .. ramEntry(b + 1).KeysBefore - 1 |-> EntryOf(r)]

WrittenContent(b) ==
    IF keysIn(b) = {} \/ file.sizes = <<0, 0>> THEN <<>>
    ELSE [r \in KeysBefore(b) .. KeysBefore(b + 1) - 1 |-> {k \in members : Rank(k) = r}]

FooterFound == file.size = file.footerAt + footerSize

BlockRange(b) == byteRange(EntryAt(ramEntry(b).KeysBefore), EntryAt(ramEntry(b + 1).KeysBefore))
BlockReadable(b) ==
    /\ Monotonic(b)
    /\ keysInBlock(b) # 0 /\ entrySize > 0 => BlockRange(b).end <= file.size

(* The blocks Verify comes to: it stops at the first it cannot read. *)
BlocksVerified == {b \in 0 .. file.NumBlocks - 1 : \A c \in 0 .. b - 1 : BlockReadable(c)}

PayloadHashMatches ==
    /\ FooterFound /\ file.NumBlocks = numBlocks
    /\ \A b \in Blocks : BlockContent(b) = WrittenContent(b)

footerOffset == file.size - footerSize
MetadataReached ==
    /\ \A b \in 0 .. file.NumBlocks - 1 : BlockReadable(b)
    /\ PayloadHashMatches /\ footerOffset >= metadataRegionOffset

(* Seeded fault: only the place of the metadata is compared, not its bytes. *)
MetadataHashMatchesLength == metadataRegionOffset = file.metadataAt

MetadataHashMatches ==
    \/ footerOffset = metadataRegionOffset
    \/ metadataRegionOffset = file.metadataAt /\ file.badBlocks = {}

VerifyReads ==
    {byteRange(footerOffset, file.size)}
        \cup {RamRange(b) : b \in BlocksVerified} \cup {RamRange(b + 1) : b \in BlocksVerified}
        \cup {BlockRange(b) : b \in {c \in BlocksVerified :
                                BlockReadable(c) /\ keysInBlock(c) # 0 /\ entrySize > 0}}
        \cup (IF MetadataReached THEN {byteRange(metadataRegionOffset, footerOffset)} ELSE {})

Verify ==
    /\ state = "open" /\ last = Idle
    /\ last' = [op |-> "verify", keys |-> {}, answers |-> <<>>, reads |-> VerifyReads,
                advised |-> {}, ok |-> MetadataReached /\ MetadataHashMatches]
    /\ UNCHANGED <<built, file, stray, state>>

(* Close unmaps the file once; OpenFile does it itself for a file it rejects. *)
Close ==
    /\ state = "open"
    /\ state' = "closed"
    /\ last' = Idle
    /\ UNCHANGED <<built, file, stray>>

(* Later calls answer ErrIndexClosed; a rejected file leaves no index to call. *)
CallAfterClose ==
    /\ state \in {"closed", "rejected"}
    /\ UNCHANGED vars

Next ==
    \/ Damage \/ Open \/ Verify \/ Close \/ CallAfterClose
    \/ \E ks \in SUBSET Keys \ {{}} : Query(ks)

Spec == Init /\ [][Next]_vars

--------------------------------------------------------------------------------
(* Properties. *)

RamEntry == [KeysBefore : 0 .. MaxNumber, MetadataOffset : 0 .. MaxNumber]

FileType ==
    [validMagic : BOOLEAN, decoder : {"built", "other", "unknown"},
     TotalKeys : 0 .. Word - 1, NumBlocks : 0 .. BlockWord - 1,
     PayloadSize : 0 .. maxPayloadSize, FingerprintSize : 0 .. maxFingerprintSize,
     sizes : (0 .. maxPayloadSize) \X (0 .. maxFingerprintSize),
     userLen : 0 .. MaxNumber, algoLen : 0 .. MaxNumber,
     ram : [0 .. numBlocks -> RamEntry], ramAt : Nat, payloadAt : Nat, metadataAt : Nat,
     size : 0 .. Word - 1, footerAt : Nat, badRanks : SUBSET Nat, badBlocks : SUBSET Blocks,
     strayEntry : RamEntry, damage : SUBSET Damages]

(* Type invariant; also, whatever is damaged, a rank is one that an entry of the RAM
   index and a decoder can add up to. *)
TypeOK ==
    /\ members \subseteq Keys /\ route \in [Keys -> Blocks]
    /\ slot \in [Keys -> NoSlot .. Cardinality(Keys) - 1] /\ fingerprint \in [Keys -> 0 .. 1]
    /\ metaOffset \in [0 .. numBlocks -> 0 .. MaxMetadata]
    /\ file \in FileType /\ stray \in BadSlot .. MaxSlot
    /\ state \in {"unopened", "rejected", "open", "closed"}
    /\ \A k \in last.keys : last.answers[k].rank \in 0 .. MaxNumber + MaxSlot

Intact == file.damage = {}

(* An index that was not damaged opens, and answers every key of the set with the
   rank and the payload it was built with; the ranks are 0 to the number of keys - 1.
   Any other key gets ErrNotFound or a rank in that range, never ErrCorruptedIndex. *)
QueriesCorrect ==
    Intact =>
        /\ state # "rejected"
        /\ \A k \in last.keys \cap members :
              /\ last.answers[k].err = "none" /\ last.answers[k].rank = Rank(k)
              /\ file.PayloadSize > 0 => last.answers[k].payload = {k}
        /\ last.op = "query" /\ members \subseteq last.keys =>
              {last.answers[k].rank : k \in members} = 0 .. Cardinality(members) - 1
        /\ \A k \in last.keys :
              \/ last.answers[k].err = "NotFound"
              \/ last.answers[k].err = "none" /\ last.answers[k].rank < Cardinality(members)

(* Whatever is damaged, no operation on an index that Open has accepted reads outside
   of the file, or decodes an entry outside of the RAM index: queries and Verify return
   an error instead. *)
ReadsStayInFile ==
    \A r \in last.reads : 0 <= r.start /\ r.start <= r.end /\ r.end <= r.limit

(* Nor does prefetch, which locates entries by the same numbers before a query has
   checked them, advise outside of the file, however its ranges are joined; and with
   no damage it asks for everything the queries of the batch then read. *)
PrefetchCorrect ==
    /\ \A a \in last.advised : 0 <= a.start /\ a.start <= a.end /\ a.end <= a.limit
    /\ last.op = "query" /\ Intact =>
          \A r \in last.reads : \E a \in last.advised : a.start <= r.start /\ r.end <= a.end

(* Verify accepts an index that was not damaged, and rejects one whose payloads or
   metadata were. *)
VerifyExact ==
    last.op = "verify" =>
        /\ Intact => last.ok
        /\ file.damage \cap {"payload", "metadata", "size"} # {} =>
              ~last.ok \/ (file.damage = {"payload"} /\ entrySize = 0)
================================================================================
