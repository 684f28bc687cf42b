------------------------------ MODULE EliasFano ------------------------------
(***************************************************************************)
(* The Elias-Fano code of a block's cumulative bucket counts: the low bits *)
(* of every count, then a bit vector in which element i with high part h   *)
(* sets bit h + i (internal/bijection/encoding.go, decode.go).             *)
(***************************************************************************)
EXTENDS BitIO

Uint16Bytes == 2
Uint16(v) == v % 2^(ByteBits * Uint16Bytes)
Uint16Max == 2^(ByteBits * Uint16Bytes) - 1

(* bits.Len *)
BitLen(v) == CHOOSE i \in 0 .. v : 2^i > v /\ \A j \in 0 .. i - 1 : 2^j <= v

computeEFLowBits(n, U) == IF U <= n \/ n = 0 THEN 0 ELSE BitLen(U \div n) - 1

EFBits(n, U) ==
    LET lowBits == computeEFLowBits(n, U)
        highBound == IF lowBits < ByteBits * Uint16Bytes THEN U \div 2^lowBits ELSE 0
    IN  n + highBound + n * lowBits

eliasFanoSize(n, U) == IF n = 0 THEN 0 ELSE CeilBytes(EFBits(n, U))

-----------------------------------------------------------------------------
(* Encoding. The low bits are packed into a word that is stored when the next value does
   not fit; that value's first bits go into the word, the rest starts the next one. *)
PackLowBits(b, cumulative, n, lowBits) ==
    LET Body(x, i) ==
            LET lowVal == BitsOf(cumulative[i], lowBits)
                room == WordBits - x.wordBitPos
                word == x.word \cup Shl(lowVal, x.wordBitPos, WordBits)
            IN  IF x.wordBitPos + lowBits <= WordBits
                THEN [x EXCEPT !.word = word, !.wordBitPos = @ + lowBits]
                ELSE [b |-> Store(x.b, x.bytePos, Slice(WordBytes, word)),
                      bytePos |-> x.bytePos + WordBytes,
                      word |-> Shr(lowVal, room), wordBitPos |-> lowBits - room]
        end == ForRange(Body, [b |-> b, bytePos |-> 0, word |-> {}, wordBitPos |-> 0], n)
        last == CeilBytes(end.wordBitPos)
    IN  IF end.wordBitPos = 0 THEN end.b
        ELSE Store(end.b, end.bytePos, UpTo(Slice(WordBytes, end.word), last))

(* Seeded fault: the bits of the block before stay in the buffer. *)
EFBufferNotCleared(buf, total) == IF buf.len < total THEN Slice(total, {}) ELSE buf

(* The buffer is kept from block to block: it is replaced when it is too small, and its
   first bytes are cleared otherwise. *)
EFBuffer(buf, total) ==
    IF buf.len < total THEN Slice(total, {}) ELSE Store(buf, 0, Slice(total, {}))

(* The buffer after the encoding; the code is its first eliasFanoSize(n, U) bytes. *)
encodeEliasFanoInto(cumulative, n, U, buf) ==
    LET lowBits == computeEFLowBits(n, U)
        b == PackLowBits(EFBuffer(buf, eliasFanoSize(n, U)), cumulative, n, lowBits)
        highs == {n * lowBits + cumulative[i] \div 2^lowBits + i : i \in 0 .. n - 1}
    IN  [b EXCEPT !.ones = @ \cup highs]

-----------------------------------------------------------------------------
(* Decoding a range from a known position in the high bits. *)

(* A word is loaded when it lies within the data, else up to three bytes. *)
readEFLowBits(efData, element, lowBits) ==
    LET bitPos == element * lowBits
        byteIdx == bitPos \div ByteBits
        bitIdx == bitPos % ByteBits
        bytes == IF byteIdx + WordBytes <= efData.len THEN WordBytes
                 ELSE IF lowBits + bitIdx > ByteBits THEN 3 ELSE 2
    IN  IF lowBits = 0 \/ element < 0 \/ byteIdx >= efData.len THEN 0
        ELSE ValueOf(Shr(Load(efData, byteIdx, bytes), bitIdx) \cap Ones(lowBits))

(* Beyond the data the window is all ones, so that the scan for the next one bit ends. *)
loadWindow64Safe(data, byteIdx) ==
    LET remaining == data.len - byteIdx
    IN  Load(data, byteIdx, WordBytes) \cup (ByteBits * remaining .. WordBits - 1)

(* The next one bit of the high bits: every zero before it raises the high part. *)
NextHigh(efData, lowBitsTotal, x) ==
    LET Body(y) ==
            LET absBitPos == lowBitsTotal + y.bitPos
                byteIdx == absBitPos \div ByteBits
                bitInByte == absBitPos % ByteBits
                window == Shr(loadWindow64Safe(efData, byteIdx), bitInByte)
                skipped == IF window = {} THEN WordBits - bitInByte ELSE TrailingZeros(window)
            IN  IF y.done \/ byteIdx >= efData.len THEN [y EXCEPT !.done = TRUE]
                ELSE [high |-> Uint16(y.high + skipped), done |-> window # {},
                      bitPos |-> y.bitPos + skipped + IF window = {} THEN 0 ELSE 1]
    IN  Repeat(Body, [x EXCEPT !.done = FALSE], efData.len + 1)

(* The values of the elements start .. end. Nothing is decoded from data shorter than a
   word. *)
decodeEFRangeInline(efData, n, U, start, end, startBit) ==
    LET lowBits == computeEFLowBits(n, U)
        from == [high |-> IF start > 0 /\ startBit >= start THEN Uint16(startBit - start) ELSE 0,
                 bitPos |-> startBit, done |-> FALSE]
        Body(x, i) ==
            LET y == NextHigh(efData, n * lowBits, x.scan)
                value == Uint16(y.high * 2^lowBits) + readEFLowBits(efData, start + i, lowBits)
            IN  [scan |-> y, out |-> [x.out EXCEPT ![start + i] = value]]
    IN  IF start > end \/ start >= n \/ efData.len < WordBytes THEN [i \in 0 .. n - 1 |-> 0]
        ELSE ForRange(Body, [scan |-> from, out |-> [i \in 0 .. n - 1 |-> 0]],
                      end - start + 1).out

-----------------------------------------------------------------------------
(* Decoding everything from the start, as one stream of words: the low bits of all the
   elements, then their high bits. The code reads eight elements at a time where their
   low bits lie in one word. *)
Refilled(br) == IF br.bitPos >= WordBits THEN refill(br) ELSE br

UnrolledLowBits(data, n, lowBits) ==
    LET Put(x, i, read) == [br |-> read.br, out |-> [x.out EXCEPT ![i] = ValueOf(read.value)]]
        Body(x, i) == Put(x, i, readBits(Refilled(x.br), lowBits))
    IN  ForRange(Body, [br |-> newBitReaderFast(data), out |-> [i \in 0 .. n - 1 |-> 0]], n)

(* The zeros before the next one bit, a word at a time; the loop gives up at the end of
   the data. *)
GapInWord(x) ==
    LET atEnd == x.br.bitPos >= WordBits /\ x.br.bytePos + WordBytes > x.br.data.len
        br == Refilled(x.br)
        zeros == TrailingZeros(Shr(br.current, br.bitPos))
        available == WordBits - br.bitPos
    IN  IF x.done THEN x
        ELSE IF atEnd /\ br.current = {}
        THEN [x EXCEPT !.br = [br EXCEPT !.bitPos = x.br.bitPos], !.done = TRUE]
        ELSE IF zeros < available
        THEN [br |-> [br EXCEPT !.bitPos = @ + zeros + 1], gap |-> x.gap + zeros, done |-> TRUE]
        ELSE [br |-> [br EXCEPT !.bitPos = WordBits], gap |-> x.gap + available, done |-> FALSE]

UnrolledGap(br) ==
    Repeat(GapInWord, [br |-> br, gap |-> 0, done |-> FALSE], br.data.len \div WordBytes + 3)

UnrolledHighBits(low, n, lowBits) ==
    LET Put(x, i, scan, high) ==
            [br |-> scan.br, currentHigh |-> high,
             out |-> [x.out EXCEPT ![i] = @ + Uint16(high * 2^lowBits)]]
        Add(x, i, scan) == Put(x, i, scan, Uint16(x.currentHigh + scan.gap))
        Body(x, i) == Add(x, i, UnrolledGap(x.br))
    IN  ForRange(Body, [br |-> low.br, currentHigh |-> 0, out |-> low.out], n)

(* Nothing is decoded from data shorter than a word. *)
decodeEliasFanoUnrolled(data, n, U) ==
    LET lowBits == computeEFLowBits(n, U)
    IN  IF data.len < WordBytes THEN [i \in 0 .. n - 1 |-> 0]
        ELSE UnrolledHighBits(UnrolledLowBits(data, n, lowBits), n, lowBits).out
=============================================================================
