-------------------------------- MODULE BitIO --------------------------------
(***************************************************************************)
(* Words, byte slices and the two bit streams of the Bijection algorithm   *)
(* (internal/bijection/bitio.go).                                          *)
(*                                                                         *)
(* A word is the set of the positions of its one bits, so that | is union, *)
(* & intersection and << a shift of every position; a byte slice is its    *)
(* length and the positions of its one bits, byte 0 first and the least    *)
(* significant bit of a byte first, as little-endian loads see it. The     *)
(* sizes are parameters: 8 bits and 8 bytes in the code.                   *)
(***************************************************************************)
EXTENDS Integers, FiniteSets, FiniteSetsExt

CONSTANTS ByteBits,        \* bits of a byte (8)
          WordBytes,       \* bytes of a uint64 (8)
          grMaxQuotient    \* the longest unary code (16)

ASSUME BitIOAssumption ==
    /\ ByteBits \in Nat \ {0} /\ WordBytes \in Nat \ {0}
    /\ grMaxQuotient \in Nat \ {0}

WordBits == ByteBits * WordBytes

-----------------------------------------------------------------------------
(* Words. *)

Ones(n) == 0 .. n - 1
Shl(w, n, width) == {i + n : i \in {j \in w : j + n < width}}
Shr(w, n) == {i - n : i \in {j \in w : j >= n}}
Xor(v, w) == (v \ w) \cup (w \ v)
BitsOf(v, width) == {i \in 0 .. width - 1 : (v \div 2^i) % 2 = 1}
ValueOf(w) == MapThenSumSet(LAMBDA i : 2^i, w)

(* bits.TrailingZeros64 *)
TrailingZeros(w) == IF w = {} THEN WordBits ELSE Min(w)

(* The loop over 0 .. n - 1, and a loop that runs its body at most n times: the body
   leaves a finished state alone. *)
ForRange(Body(_, _), x, n) ==
    LET after[i \in 0 .. n] == IF i = 0 THEN x ELSE Body(after[i - 1], i - 1)
    IN  after[n]
Repeat(Body(_), x, n) == ForRange(LAMBDA y, i : Body(y), x, n)

-----------------------------------------------------------------------------
(* Byte slices. *)

Empty == [len |-> 0, ones |-> {}]
Slice(n, w) == [len |-> n, ones |-> w]
CeilBytes(n) == (n + ByteBits - 1) \div ByteBits

Concat(s, t) == Slice(s.len + t.len, s.ones \cup {i + ByteBits * s.len : i \in t.ones})
From(s, n) == Slice(s.len - n, Shr(s.ones, ByteBits * n))
UpTo(s, n) == Slice(n, s.ones \cap Ones(ByteBits * n))
ByteAt(s, n) == Shr(s.ones, ByteBits * n) \cap Ones(ByteBits)

(* copy(s[at:], t) *)
Store(s, at, t) ==
    [s EXCEPT !.ones = (@ \ (ByteBits * at .. ByteBits * (at + t.len) - 1))
                         \cup {i + ByteBits * at : i \in t.ones}]

(* PutUintN of a value in n bytes, and the load of n bytes at a byte offset. *)
PutUint(v, n) == Slice(n, BitsOf(v, ByteBits * n))
Load(s, at, n) == Shr(s.ones, ByteBits * at) \cap Ones(ByteBits * n)

-----------------------------------------------------------------------------
(* bitWriter *)

NewBitWriter == [buf |-> Empty, current |-> {}, bitPos |-> 0]

flushWord(bw) ==
    [buf |-> Concat(bw.buf, Slice(WordBytes, bw.current)), current |-> {}, bitPos |-> 0]

(* bits n long or'ed into the current word, which is flushed when it is full. *)
FillWord(bw, w, n) ==
    LET filled == [bw EXCEPT !.current = @ \cup Shl(w, bw.bitPos, WordBits), !.bitPos = @ + n]
    IN  IF filled.bitPos = WordBits THEN flushWord(filled) ELSE filled

writeBit(bw, bit) == FillWord(bw, IF bit = 0 THEN {} ELSE {0}, 1)

writeBits(bw, v, n) ==
    LET w == v \cap Ones(n)
        room == WordBits - bw.bitPos
        full == flushWord([bw EXCEPT !.current = @ \cup Shl(w \cap Ones(room), bw.bitPos, WordBits)])
    IN  IF n <= room
        THEN IF n = 0 THEN bw ELSE FillWord(bw, w, n)
        ELSE [full EXCEPT !.current = Shr(w, room), !.bitPos = n - room]

writeOnes(bw, n) ==
    LET room == WordBits - bw.bitPos
        full == flushWord([bw EXCEPT !.current = @ \cup (bw.bitPos .. WordBits - 1)])
        rest == n - room
        words == rest \div WordBits
        run == Slice(words * WordBytes, Ones(words * WordBits))
    IN  IF n <= room
        THEN IF n = 0 THEN bw ELSE FillWord(bw, Ones(n), n)
        ELSE [buf |-> Concat(full.buf, run),
              current |-> Ones(rest % WordBits), bitPos |-> rest % WordBits]

(* flush leaves the writer empty-handed but keeps buf; only reset clears it. *)
flush(bw) ==
    IF bw.bitPos > 0
    THEN LET n == CeilBytes(bw.bitPos)
         IN  [buf |-> Concat(bw.buf, UpTo(Slice(WordBytes, bw.current), n)),
              current |-> {}, bitPos |-> 0]
    ELSE bw

reset(bw) == NewBitWriter

bitsWritten(bw) == bw.buf.len * ByteBits + bw.bitPos

-----------------------------------------------------------------------------
(* bitReaderFast: past the end of the data it reads zeros. *)

refill(br) ==
    LET remaining == br.data.len - br.bytePos
    IN  [br EXCEPT !.current = Load(br.data, br.bytePos, WordBytes),
                   !.bytePos = @ + Min({WordBytes, remaining}), !.bitPos = 0]

newBitReaderFast(data) == refill([data |-> data, current |-> {}, bitPos |-> 0, bytePos |-> 0])

(* Reads return the reader after the read and the value; a read may go on in the next
   word, here with n of its bits. *)
ReadAcross(br, next, n) ==
    [br |-> [next EXCEPT !.bitPos = n],
     value |-> Shr(br.current, br.bitPos)
                 \cup Shl(next.current \cap Ones(n), WordBits - br.bitPos, WordBits)]

readBits(br, n) ==
    IF n > WordBits - br.bitPos
    THEN ReadAcross(br, refill(br), n - (WordBits - br.bitPos))
    ELSE [br |-> [br EXCEPT !.bitPos = @ + n],
          value |-> Shr(br.current, br.bitPos) \cap Ones(n)]

SkipInWord(x) ==
    IF x.n <= WordBits - x.br.bitPos
    THEN [br |-> [x.br EXCEPT !.bitPos = @ + x.n], n |-> 0]
    ELSE [br |-> refill(x.br), n |-> x.n - (WordBits - x.br.bitPos)]

skipBits(br, n) == Repeat(SkipInWord, [br |-> br, n |-> n], n \div WordBits + 2).br

(* The unary code is read a word at a time: the ones that end the current word count
   towards a code that goes on in the next. *)
UnaryInWord(r, count, zeros, available) ==
    IF count + Min({zeros, available}) >= grMaxQuotient
    THEN [br |-> [r EXCEPT !.bitPos = @ + grMaxQuotient - count],
          count |-> grMaxQuotient, done |-> TRUE]
    ELSE IF zeros < available
    THEN [br |-> [r EXCEPT !.bitPos = @ + zeros + 1], count |-> count + zeros, done |-> TRUE]
    ELSE [br |-> [r EXCEPT !.bitPos = WordBits], count |-> count + available, done |-> FALSE]

UnaryFrom(r, count) ==
    UnaryInWord(r, count, TrailingZeros(Ones(WordBits) \ Shr(r.current, r.bitPos)),
                WordBits - r.bitPos)

UnaryStep(x) ==
    IF x.done THEN x
    ELSE UnaryFrom(IF x.br.bitPos >= WordBits THEN refill(x.br) ELSE x.br, x.count)

readUnaryMax16(br) ==
    Repeat(UnaryStep, [br |-> br, count |-> 0, done |-> FALSE], grMaxQuotient \div WordBits + 2)
=============================================================================
