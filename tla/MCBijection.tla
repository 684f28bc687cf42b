---------------------------- MODULE MCBijection ------------------------------
(***************************************************************************)
(* A small instance of BijectionBlock: bytes of 3 bits, words of 3 bytes,  *)
(* hash halves of 6 bits, six buckets in segments of two. The key sets     *)
(* were searched for so that, under wymix at this width, every bucket has  *)
(* the outcome it is named for.                                            *)
(***************************************************************************)
EXTENDS BijectionBlock, TLC

one(k) == <<k>>
nothing == <<>>

(* Solved by a small seed, and by one with a longer code. *)
direct3b == <<<<21, 58>>, <<13, 57>>, <<12, 41>>>>
direct2c == <<<<29, 60>>, <<30, 32>>>>
direct3e == <<<<44, 42>>, <<50, 45>>, <<53, 9>>>>
direct2f == <<<<61, 51>>, <<61, 29>>>>

(* Solved by a seed beyond the code. *)
fallback2b == <<<<17, 22>>, <<11, 50>>>>
fallback3d == <<<<36, 20>>, <<39, 37>>, <<42, 40>>>>

(* Split: both seeds coded; the first, the second, both in the fallback list; halves of
   3 and 4, of 4 and 4 keys. *)
split4a == <<<<1, 62>>, <<3, 36>>, <<10, 5>>, <<10, 2>>>>
split5c == <<<<31, 19>>, <<31, 8>>, <<25, 0>>, <<27, 61>>, <<23, 35>>>>
split7d == <<<<36, 29>>, <<38, 41>>, <<37, 47>>, <<42, 59>>, <<38, 5>>, <<35, 44>>, <<34, 26>>>>
split8e == <<<<53, 9>>, <<47, 2>>, <<48, 35>>, <<52, 40>>, <<48, 52>>, <<50, 37>>,
             <<44, 61>>, <<44, 54>>>>
split4f == <<<<62, 42>>, <<62, 2>>, <<59, 17>>, <<57, 36>>>>

(* Without a solution: keys no seed separates, in a bucket and in the second half of one;
   keys no seed splits; a duplicate key, also in a bucket that splits and in one that does
   not. *)
alike2a == <<<<3, 37>>, <<2, 37>>>>
alike4f == <<<<60, 19>>, <<54, 23>>, <<58, 50>>, <<58, 55>>>>
unsplit4f == <<<<63, 20>>, <<54, 59>>, <<62, 7>>, <<57, 27>>>>
twice2b == <<<<17, 22>>, <<17, 22>>>>
twice5f == <<<<57, 46>>, <<55, 22>>, <<63, 23>>, <<62, 29>>, <<57, 46>>>>
stuck5f == <<<<56, 20>>, <<54, 44>>, <<62, 13>>, <<60, 55>>, <<56, 20>>>>

(* A block with every buffer filled, or one that fails, and then any other block. *)
FirstBlocks == <<{split4a}, {direct3b, twice2b}, {direct2c}, {split7d}, {split8e}, {direct2f}>>
SecondBlocks ==
    <<{nothing, one(<<8, 36>>), split4a, alike2a},
      {nothing, fallback2b, direct3b},
      {nothing, direct2c, split5c},
      {nothing, fallback3d, split7d},
      {nothing, direct3e, split8e},
      {nothing, direct2f, split4f, alike4f, unsplit4f, twice5f, stuck5f}>>

MCInputs == <<[b \in 0 .. 5 |-> FirstBlocks[b + 1]], [b \in 0 .. 5 |-> SecondBlocks[b + 1]]>>

(* The keys above, and one stranger for every bucket. *)
MCKeys ==
    UNION {UNION {{keys[i] : i \in DOMAIN keys} : keys \in FirstBlocks[b] \cup SecondBlocks[b]} :
           b \in 1 .. 6}
      \cup {<<7, 40>>, <<19, 3>>, <<26, 50>>, <<33, 61>>, <<52, 12>>, <<63, 24>>}

MCGolomb == 0 :> 0 @@ 1 :> 0 @@ 2 :> 1 @@ 3 :> 2
MCEntrySizes == {<<1, 1>>, <<1, 2>>}
MCPayloadOf(key) == 5 * key[1] + 3 * key[2]
=============================================================================
