-------------------------- MODULE PtrHashSolverProofs --------------------------
(***************************************************************************)
(* Proofs about the PTRHash solver, for any number of keys, buckets and    *)
(* pilots and for every hash.                                              *)
(***************************************************************************)
EXTENDS PtrHashSolver, FiniteSetTheorems, WellFoundedInduction, TLAPS

(* The sets of outcomes are expanded everywhere. *)
USE DEF Failures, Ended

Solving == pc \in {"solve", "drain"}

(* No slot and no bucket carries the mark of a generation to come. *)
GenInv ==
    /\ \A s \in AllSlots : slotGen[s] <= generation
    /\ \A b \in Buckets : processedGen[b] <= generation

(* The block being solved: every key is in one bucket and is hashed into the block's
   slots, and a block without keys is never solved. *)
BlockInv ==
    /\ buckets \in [Buckets -> SUBSET Keys] /\ solved \in Nat
    /\ \A a, b \in Buckets : a # b => buckets[a] \cap buckets[b] = {}
    /\ \A k \in BlockKeys : \A p \in Pilots : slotOf[k][p] < numSlots
    /\ pc \in {"solve", "drain", "limit"} => BlockKeys # {}

(* Only buckets solve has come past wait in the heap, and it is drained before solve
   goes on. *)
QueueInv ==
    /\ pc = "solve" => pendingHeap = {}
    /\ pc = "drain" => pendingHeap # {}
    /\ Solving => \A b \in pendingHeap : \E i \in 1 .. next - 1 : b = bucketOrder[i]

(* The pilot of a placed bucket sends its keys to different slots. *)
PlacedInv ==
    Solving => \A b \in Buckets :
                  isProcessed(b) => Cardinality(SlotsOf(b, pilots[b])) = bucketSize(b)

(* By how much the eviction limit can be exceeded. *)
EvictInv ==
    /\ pc = "solve" => evictions <= maxEvictions
    /\ pc = "drain" => evictions <= maxEvictions + numBuckets

PlacementInv == SlotsMatchPilots /\ PlacedInv /\ NothingForgotten /\ QueueInv

CoreInv == TypeOK /\ GenInv /\ BlockInv /\ PlacementInv /\ EvictInv /\ PinnedMatchesRing

SolverInv == CoreInv /\ MinimalPerfect /\ QueriesStayInBlock

--------------------------------------------------------------------------------
(* Counting. *)

(* A function into the naturals takes a smallest value: the scan of findPilotWithEviction
   ends with a cheapest pilot, and the heap has a largest bucket. *)
LEMMA ArgMin ==
    ASSUME NEW S, S # {}, NEW f \in [S -> Nat]
    PROVE  \E x \in S : \A y \in S : f[x] <= f[y]
<1> DEFINE T == {f[x] : x \in S}
           R == OpToRel(<, Nat)
<1>1. T \subseteq Nat /\ T # {}
  OBVIOUS
<1>2. PICK m \in T : \A n \in T : ~ (<<n, m>> \in R)
  <2> HIDE DEF T, R
  <2>1. IsWellFoundedOn(R, Nat)
    BY NatLessThanWellFounded DEF R
  <2> QED BY <1>1, <2>1, WFMin
<1>3. ASSUME NEW n \in T PROVE m <= n
  <2>1. ~(<<n, m>> \in R)
    BY <1>2
  <2>2. m \in Nat /\ n \in Nat
    BY <1>1
  <2>3. ~(n < m)
    BY <2>1, <2>2 DEF OpToRel
  <2> QED BY <2>2, <2>3
<1>4. PICK x \in S : m = f[x]
  OBVIOUS
<1> QED BY <1>3, <1>4

(* Some element of a nonempty set of numbers is its minimum. *)
LEMMA MinOf ==
    ASSUME NEW S \in SUBSET Nat, S # {}
    PROVE  Min(S) \in S /\ \A y \in S : Min(S) <= y
<1> DEFINE f == [x \in S |-> x]
<1>1. f \in [S -> Nat]
  OBVIOUS
<1>2. PICK x \in S : \A y \in S : f[x] <= f[y]
  <2> HIDE DEF f
  <2> QED BY <1>1, ArgMin
<1>3. \E z \in S : \A y \in S : z =< y
  BY <1>2
<1> QED BY <1>3 DEF Min

(* R orders S strictly and totally; the rank of an element is how many come before it. *)
StrictOrder(S, R) ==
    /\ \A x \in S : ~(<<x, x>> \in R)
    /\ \A x, y, z \in S : <<x, y>> \in R /\ <<y, z>> \in R => <<x, z>> \in R
    /\ \A x, y \in S : x # y => <<x, y>> \in R \/ <<y, x>> \in R
Rank(x, S, R) == Cardinality({y \in S : <<y, x>> \in R})

(* In a strict total order of a finite set, the number of smaller elements counts the
   elements from 0: countingSortBucketsInto has a bucket for every position, and
   buildRemap's cursor a hole for every overflow slot. *)
LEMMA Ranks ==
    ASSUME NEW S, IsFiniteSet(S), NEW R, StrictOrder(S, R)
    PROVE  /\ \A x \in S : Rank(x, S, R) \in 0 .. Cardinality(S) - 1
           /\ \A x, y \in S : <<x, y>> \in R => Rank(x, S, R) < Rank(y, S, R)
           /\ \A x, y \in S : Rank(x, S, R) = Rank(y, S, R) => x = y
           /\ \A i \in 0 .. Cardinality(S) - 1 : \E x \in S : Rank(x, S, R) = i
<1> USE DEF StrictOrder
<1> DEFINE below(x) == {y \in S : <<y, x>> \in R}
           rank(x) == Cardinality(below(x))
           N == Cardinality(S)
           r == [x \in S |-> rank(x)]
<1>0. N \in Nat
  BY FS_CardinalityType
<1>1. ASSUME NEW x \in S PROVE IsFiniteSet(below(x)) /\ rank(x) \in 0 .. N - 1
  <2>1. IsFiniteSet(S \ {x}) /\ Cardinality(S \ {x}) = N - 1
    BY FS_RemoveElement
  <2>2. below(x) \in SUBSET (S \ {x})
    OBVIOUS
  <2>3. IsFiniteSet(below(x)) /\ Cardinality(below(x)) <= Cardinality(S \ {x})
    BY <2>1, <2>2, FS_Subset
  <2>4. rank(x) \in Nat
    BY <2>3, FS_CardinalityType
  <2> HIDE DEF below
  <2> QED BY <1>0, <2>1, <2>3, <2>4
<1>2. ASSUME NEW x \in S, NEW y \in S, <<x, y>> \in R PROVE rank(x) < rank(y)
  <2>1. below(x) \cup {x} \in SUBSET below(y)
    BY <1>2
  <2>2. x \notin below(x)
    OBVIOUS
  <2> HIDE DEF below
  <2>3. Cardinality(below(x) \cup {x}) = rank(x) + 1
    BY <1>1, <2>2, FS_AddElement
  <2>4. Cardinality(below(x) \cup {x}) <= rank(y)
    BY <1>1, <2>1, FS_Subset
  <2>5. rank(x) \in Nat /\ rank(y) \in Nat
    BY <1>0, <1>1
  <2> QED BY <2>3, <2>4, <2>5
<1>3. ASSUME NEW x \in S, NEW y \in S, rank(x) = rank(y) PROVE x = y
  <2>1. rank(x) \in 0 .. N - 1 /\ rank(y) \in 0 .. N - 1
    BY <1>1
  <2>2. ~(rank(x) < rank(y)) /\ ~(rank(y) < rank(x))
    BY <2>1, <1>3
  <2> HIDE DEF rank
  <2> QED BY <1>2, <2>2
<1>4. ASSUME NEW i \in 0 .. N - 1 PROVE \E x \in S : rank(x) = i
  <2> HIDE DEF rank
  <2>1. r \in Injection(S, 0 .. N - 1)
    BY <1>1, <1>3 DEF Injection, IsInjective
  <2>2. IsFiniteSet(0 .. N - 1) /\ Cardinality(0 .. N - 1) = N
    BY <1>0, FS_Interval
  <2>3. r \in Surjection(S, 0 .. N - 1)
    <3> HIDE DEF r
    <3> QED BY <2>1, <2>2, FS_Injection
  <2> QED BY <2>3 DEF Surjection
<1>5. \A x : Rank(x, S, R) = rank(x)
  BY DEF Rank
<1> HIDE DEF rank
<1>6. \A x \in S : Rank(x, S, R) \in 0 .. Cardinality(S) - 1
  BY ONLY <1>1, <1>5
<1>7. \A x, y \in S : <<x, y>> \in R => Rank(x, S, R) < Rank(y, S, R)
  BY ONLY <1>2, <1>5
<1>8. \A x, y \in S : Rank(x, S, R) = Rank(y, S, R) => x = y
  BY ONLY <1>3, <1>5
<1>9. \A i \in 0 .. Cardinality(S) - 1 : \E x \in S : Rank(x, S, R) = i
  BY ONLY <1>4, <1>5
<1> QED BY ONLY <1>6, <1>7, <1>8, <1>9

(* In a strict total order, a nonempty finite set has a first element. *)
LEMMA FirstOf ==
    ASSUME NEW S, IsFiniteSet(S), S # {}, NEW R, StrictOrder(S, R)
    PROVE  \E x \in S : \A y \in S \ {x} : <<x, y>> \in R
<1> DEFINE rank(x) == Rank(x, S, R)
           N == Cardinality(S)
<1>1. /\ \A x \in S : rank(x) \in 0 .. N - 1
      /\ \A x, y \in S : <<x, y>> \in R => rank(x) < rank(y)
      /\ \A i \in 0 .. N - 1 : \E x \in S : rank(x) = i
  BY Ranks
<1>2. N \in Nat /\ N # 0
  BY FS_CardinalityType, FS_EmptySet
<1> HIDE DEF rank
<1>3. PICK x \in S : rank(x) = 0
  BY <1>1, <1>2
<1>4. ASSUME NEW y \in S \ {x} PROVE <<x, y>> \in R
  <2>1. <<y, x>> \notin R
    BY <1>1, <1>2, <1>3
  <2> QED BY <2>1 DEF StrictOrder
<1> QED BY <1>4

--------------------------------------------------------------------------------
(* The block and the order of its buckets. *)

(* Everything the solver counts is finite. *)
LEMMA Finiteness ==
    ASSUME buckets \in [Buckets -> SUBSET Keys]
    PROVE  /\ IsFiniteSet(Keys) /\ IsFiniteSet(Buckets) /\ Cardinality(Buckets) = numBuckets
           /\ IsFiniteSet(AllSlots)
           /\ \A b \in Buckets : IsFiniteSet(buckets[b]) /\ bucketSize(b) \in Nat
           /\ BlockKeys \subseteq Keys /\ IsFiniteSet(BlockKeys)
           /\ numKeys \in Nat /\ numSlots \in Nat /\ numKeys <= MaxKeys
<1> USE PtrHashSolverAssumption
<1>1. IsFiniteSet(Keys) /\ Cardinality(Keys) = MaxKeys
  BY FS_Interval DEF Keys
<1>2. IsFiniteSet(Buckets) /\ Cardinality(Buckets) = numBuckets
  <2>1. numBuckets - 1 \in Int
    OBVIOUS
  <2> QED BY <2>1, FS_Interval DEF Buckets
<1>3. IsFiniteSet(AllSlots)
  <2>1. maxNumSlots - 1 \in Int
    BY DEF maxNumSlots
  <2> QED BY <2>1, FS_Interval DEF AllSlots
<1>4. ASSUME NEW b \in Buckets PROVE IsFiniteSet(buckets[b]) /\ bucketSize(b) \in Nat
  <2>1. buckets[b] \in SUBSET Keys
    OBVIOUS
  <2>2. IsFiniteSet(buckets[b])
    BY <1>1, <2>1, FS_Subset
  <2> QED BY <2>2, FS_CardinalityType DEF bucketSize
<1>5. BlockKeys \in SUBSET Keys
  BY DEF BlockKeys
<1>6. IsFiniteSet(BlockKeys) /\ numKeys <= MaxKeys
  BY <1>1, <1>5, FS_Subset DEF numKeys
<1>7. numKeys \in Nat
  BY <1>6, FS_CardinalityType DEF numKeys
<1>8. numSlots \in Nat
  BY <1>7 DEF numSlots
<1> QED BY <1>1, <1>2, <1>3, <1>4, <1>5, <1>6, <1>7, <1>8

(* The order of countingSortBucketsInto and of the heap, as a relation. *)
BeforeRel == {t \in Buckets \X Buckets : Before(t[1], t[2])}

(* Sizes with ties broken by the index order the buckets totally. *)
LEMMA BeforeOrders ==
    ASSUME buckets \in [Buckets -> SUBSET Keys]
    PROVE  /\ StrictOrder(Buckets, BeforeRel)
           /\ \A a, b \in Buckets : <<a, b>> \in BeforeRel <=> Before(a, b)
<1>1. \A b \in Buckets : bucketSize(b) \in Nat
  BY Finiteness
<1>2. Buckets \subseteq Int
  BY PtrHashSolverAssumption DEF Buckets
<1>3. \A a, b \in Buckets : <<a, b>> \in BeforeRel <=> Before(a, b)
  BY DEF BeforeRel
<1>4. \A x \in Buckets : ~Before(x, x)
  BY <1>1, <1>2 DEF Before
<1>5. \A x, y, z \in Buckets : Before(x, y) /\ Before(y, z) => Before(x, z)
  BY <1>1, <1>2 DEF Before
<1>6. \A x, y \in Buckets : x # y => Before(x, y) \/ Before(y, x)
  BY <1>1, <1>2 DEF Before
<1> QED BY <1>3, <1>4, <1>5, <1>6 DEF StrictOrder

(* bucketOrder lists every bucket exactly once. *)
LEMMA OrderListsBuckets ==
    ASSUME buckets \in [Buckets -> SUBSET Keys]
    PROVE  /\ \A i \in 1 .. numBuckets : bucketOrder[i] \in Buckets
           /\ \A i, j \in 1 .. numBuckets : bucketOrder[i] = bucketOrder[j] => i = j
           /\ \A b \in Buckets : \E i \in 1 .. numBuckets : b = bucketOrder[i]
<1> USE PtrHashSolverAssumption
<1> DEFINE rank(b) == Rank(b, Buckets, BeforeRel)
<1>1. IsFiniteSet(Buckets) /\ Cardinality(Buckets) = numBuckets
  BY Finiteness
<1>2. StrictOrder(Buckets, BeforeRel)
  BY BeforeOrders
<1>3. /\ \A x \in Buckets : rank(x) \in 0 .. numBuckets - 1
      /\ \A x, y \in Buckets : rank(x) = rank(y) => x = y
      /\ \A i \in 0 .. numBuckets - 1 : \E x \in Buckets : rank(x) = i
  BY <1>1, <1>2, Ranks
<1>4. ASSUME NEW b \in Buckets PROVE Cardinality({a \in Buckets : Before(a, b)}) = rank(b)
  <2>1. {a \in Buckets : Before(a, b)} = {a \in Buckets : <<a, b>> \in BeforeRel}
    BY BeforeOrders
  <2> QED BY <2>1 DEF Rank
<1> HIDE DEF rank
<1>5. ASSUME NEW i \in 1 .. numBuckets
      PROVE  bucketOrder[i] \in Buckets /\ rank(bucketOrder[i]) = i - 1
  <2> DEFINE P(b) == Cardinality({a \in Buckets : Before(a, b)}) = i - 1
  <2>1. i - 1 \in 0 .. numBuckets - 1
    OBVIOUS
  <2>2. PICK x \in Buckets : rank(x) = i - 1
    BY <1>3, <2>1
  <2>3. P(x)
    BY <1>4, <2>2
  <2>4. bucketOrder[i] = CHOOSE b \in Buckets : P(b)
    BY DEF bucketOrder
  <2> HIDE DEF P
  <2>5. bucketOrder[i] \in Buckets /\ P(bucketOrder[i])
    BY <2>3, <2>4
  <2> QED BY <1>4, <2>5 DEF P
<1>6. ASSUME NEW i \in 1 .. numBuckets, NEW j \in 1 .. numBuckets,
             bucketOrder[i] = bucketOrder[j]
      PROVE  i = j
  <2>1. rank(bucketOrder[i]) = i - 1 /\ rank(bucketOrder[j]) = j - 1
    BY <1>5
  <2>2. i - 1 = j - 1
    BY <1>6, <2>1
  <2> QED BY <2>2
<1>7. ASSUME NEW b \in Buckets PROVE \E i \in 1 .. numBuckets : b = bucketOrder[i]
  <2>1. rank(b) \in 0 .. numBuckets - 1
    BY <1>3
  <2>2. PICK i \in 1 .. numBuckets : i - 1 = rank(b)
    BY <2>1
  <2>3. bucketOrder[i] \in Buckets /\ rank(bucketOrder[i]) = rank(b)
    BY <1>5, <2>2
  <2> QED BY <1>3, <2>3
<1> QED BY <1>5, <1>6, <1>7

(* pop takes a bucket out of the heap. *)
LEMMA PoppedFromHeap ==
    ASSUME buckets \in [Buckets -> SUBSET Keys],
           pendingHeap \in SUBSET Buckets, pendingHeap # {}
    PROVE  Popped \in pendingHeap
<1>1. IsFiniteSet(pendingHeap)
  BY Finiteness, FS_Subset
<1>2. StrictOrder(pendingHeap, BeforeRel)
  BY BeforeOrders DEF StrictOrder
<1>3. PICK x \in pendingHeap : \A y \in pendingHeap \ {x} : <<x, y>> \in BeforeRel
  BY <1>1, <1>2, FirstOf
<1>4. \A y \in pendingHeap \ {x} : Before(x, y)
  BY <1>3, BeforeOrders
<1> QED BY <1>4 DEF Popped

(* The slots of a bucket are slots of the table, and of the block. *)
LEMMA SlotsInTable ==
    ASSUME TypeOK, BlockInv, NEW b \in Buckets, NEW p \in Pilots
    PROVE  /\ SlotsOf(b, p) \in SUBSET AllSlots /\ IsFiniteSet(SlotsOf(b, p))
           /\ \A s \in SlotsOf(b, p) : s < numSlots
<1>1. \A k \in buckets[b] : k \in Keys /\ k \in BlockKeys
  BY DEF BlockInv, BlockKeys
<1>2. SlotsOf(b, p) \in SUBSET AllSlots
  BY <1>1 DEF TypeOK, SlotsOf
<1>3. IsFiniteSet(SlotsOf(b, p))
  BY <1>2, Finiteness, FS_Subset DEF BlockInv
<1>4. \A s \in SlotsOf(b, p) : s < numSlots
  BY <1>1 DEF BlockInv, SlotsOf
<1> QED BY <1>2, <1>3, <1>4

--------------------------------------------------------------------------------
(* What placing a bucket does, with or without evicting others. *)

(* The duplicate check of a large bucket leaves no mark on a taken slot. *)
LEMMA UnmarkedKeepsTaken ==
    ASSUME TypeOK, GenInv, NEW b \in Buckets
    PROVE  /\ Unmarked(b) \in [AllSlots -> 0 .. generation]
           /\ \A s \in AllSlots : Unmarked(b)[s] = generation <=> Taken(s)
<1> DEFINE marked == UNION {MarkedSlots(b, p) : p \in {q \in TriedPilots(b) : AllFree(b, q)}}
<1>1. generation \in Nat /\ generation >= 1
  BY PtrHashSolverAssumption DEF TypeOK
<1>2. slotGen \in [AllSlots -> 0 .. generation]
  BY <1>1, PtrHashSolverAssumption DEF TypeOK, GenInv
<1>3. \A s \in marked : ~Taken(s)
  <2>1. \A p \in TriedPilots(b) : MarkedSlots(b, p) \subseteq SlotsOf(b, p)
    BY DEF MarkedSlots, SlotsOf
  <2> QED BY <2>1 DEF AllFree
<1> HIDE DEF marked
<1>4. CASE bucketSize(b) <= smallBucket
  <2>1. Unmarked(b) = slotGen
    BY <1>4 DEF Unmarked
  <2> QED BY <1>2, <2>1 DEF Taken
<1>5. CASE ~(bucketSize(b) <= smallBucket)
  <2>1. Unmarked(b) = [s \in AllSlots |-> IF s \in marked THEN 0 ELSE slotGen[s]]
    BY <1>5 DEF Unmarked, marked
  <2> QED BY <1>1, <1>2, <1>3, <2>1 DEF Taken
<1> QED BY <1>4, <1>5

(* A score is a number, and the scan of the pilots stops at one of the viable ones. *)
LEMMA BestPilotViable ==
    ASSUME TypeOK, BlockInv, NEW b \in Buckets, NEW p0 \in Pilots, ViablePilots(b) # {}
    PROVE  BestPilot(b, p0) \in ViablePilots(b)
<1> DEFINE distance(p) == (p - p0) % numPilotValues
           viable == ViablePilots(b)
           cheap == {p \in viable : Score(b, p) <= bucketSize(b) * bucketSize(b)}
           cheapest == {p \in viable : \A q \in viable : Score(b, p) <= Score(b, q)}
           candidates == IF cheap # {} THEN cheap ELSE cheapest
<1>1. viable \subseteq Pilots
  BY DEF ViablePilots
<1>2. ASSUME NEW p \in Pilots PROVE Score(b, p) \in Nat
  <2> DEFINE All == SlotsOf(b, p) \X (Keys \X Keys)
             Hit == {t \in All : /\ Taken(t[1])
                                 /\ t[2] \in buckets[slotOwner[t[1]]] \X buckets[slotOwner[t[1]]]}
  <2>1. IsFiniteSet(Keys) /\ IsFiniteSet(SlotsOf(b, p))
    BY Finiteness, SlotsInTable DEF BlockInv
  <2>2. IsFiniteSet(Keys \X Keys)
    BY <2>1, FS_Product
  <2>3. IsFiniteSet(All)
    BY <2>1, <2>2, FS_Product
  <2>4. Hit \in SUBSET All
    OBVIOUS
  <2>5. Score(b, p) = Cardinality(Hit)
    BY DEF Score
  <2> HIDE DEF All, Hit
  <2>6. IsFiniteSet(Hit)
    BY <2>3, <2>4, FS_Subset
  <2> QED BY <2>5, <2>6, FS_CardinalityType
<1>3. candidates # {} /\ candidates \subseteq viable
  <2> DEFINE f == [p \in viable |-> Score(b, p)]
  <2>1. f \in [viable -> Nat]
    BY <1>1, <1>2
  <2>2. \E x \in viable : \A y \in viable : f[x] <= f[y]
    <3> HIDE DEF f, viable
    <3>1. viable # {}
      BY DEF viable
    <3> QED BY <2>1, <3>1, ArgMin
  <2>3. cheapest # {}
    <3>1. PICK x \in viable : \A y \in viable : f[x] <= f[y]
      BY <2>2
    <3>2. \A y \in viable : Score(b, x) <= Score(b, y)
      BY <3>1
    <3> QED BY <3>2
  <2> HIDE DEF f
  <2> QED BY <2>3
<1>4. \E p \in candidates : \A q \in candidates : distance(p) <= distance(q)
  <2> DEFINE g == [p \in candidates |-> distance(p)]
  <2>1. ASSUME NEW p \in candidates PROVE distance(p) \in Nat
    <3>1. p \in Int /\ p0 \in Int /\ numPilotValues \in Nat \ {0}
      BY <1>1, <1>3, PtrHashSolverAssumption DEF Pilots
    <3> QED BY <3>1
  <2> HIDE DEF candidates, distance
  <2>2. g \in [candidates -> Nat]
    BY <2>1
  <2>3. PICK x \in candidates : \A y \in candidates : g[x] <= g[y]
    <3> HIDE DEF g
    <3> QED BY <1>3, <2>2, ArgMin
  <2>4. \A y \in candidates : distance(x) <= distance(y)
    BY <2>3
  <2> QED BY <2>4
<1>5. BestPilot(b, p0) = CHOOSE p \in candidates : \A q \in candidates : distance(p) <= distance(q)
  BY DEF BestPilot
<1> HIDE DEF candidates, distance, viable
<1>6. BestPilot(b, p0) \in candidates
  BY <1>4, <1>5
<1>7. BestPilot(b, p0) \in viable
  BY <1>3, <1>6
<1> QED BY <1>7 DEF viable

(* Bucket b gets pilot p and takes its slots from the buckets of evicted, which go to
   the heap. *)
Placed(b, p, evicted, heap) ==
    /\ Cardinality(SlotsOf(b, p)) = bucketSize(b)
    /\ evicted = Owners(b, p) /\ evicted \cap pinnedBits = {} /\ b \notin evicted
    /\ pilots' = [pilots EXCEPT ![b] = p]
    /\ slotOwner' = [s \in AllSlots |-> IF s \in SlotsOf(b, p) THEN b ELSE slotOwner[s]]
    /\ slotGen' \in [AllSlots -> 0 .. generation]
    /\ \A s \in AllSlots :
          slotGen'[s] = generation <=>
            s \in SlotsOf(b, p) \/ (Taken(s) /\ slotOwner[s] \notin evicted)
    /\ processedGen' = ProcessedAfter(b, evicted)
    /\ generation' = generation
    /\ pendingHeap' = heap \cup evicted
    /\ evictions' = evictions + Cardinality(evicted)
    /\ (evicted = {} /\ UNCHANGED pinVars) \/ Pin(b)

(* The owners of taken slots are placed buckets, so b is not one of them. *)
LEMMA OwnersPlaced ==
    ASSUME TypeOK, BlockInv, SlotsMatchPilots, Solving,
           NEW b \in Buckets, ~isProcessed(b), NEW p \in Pilots
    PROVE  /\ Owners(b, p) \in SUBSET Buckets /\ b \notin Owners(b, p)
           /\ \A c \in Owners(b, p) : isProcessed(c)
<1>1. SlotsOf(b, p) \subseteq AllSlots
  BY SlotsInTable
<1>2. \A s \in AllSlots : Taken(s) => slotOwner[s] \in Buckets /\ isProcessed(slotOwner[s])
  BY DEF SlotsMatchPilots, Solving, TypeOK
<1> QED BY <1>1, <1>2 DEF Owners

(* Phase 1 evicts nothing. *)
LEMMA PlaceFreePlaces ==
    ASSUME TypeOK, GenInv, BlockInv, SlotsMatchPilots, Solving,
           NEW b \in Buckets, ~isProcessed(b), NEW heap, PlaceFree(b, heap)
    PROVE  \E p \in Pilots : Placed(b, p, {}, heap)
<1> DEFINE p == Min(FreePilots(b))
<1>1. p \in FreePilots(b)
  <2>1. FreePilots(b) \in SUBSET Nat /\ FreePilots(b) # {}
    BY PtrHashSolverAssumption DEF PlaceFree, FreePilots, Pilots
  <2> QED BY <2>1, MinOf
<1>2. p \in Pilots /\ AllFree(b, p) /\ Cardinality(SlotsOf(b, p)) = bucketSize(b)
  BY <1>1 DEF FreePilots, NoDuplicateSlots
<1>3. PlaceBucket(b, p, Unmarked(b))
  BY DEF PlaceFree
<1> HIDE DEF p
<1>4. Owners(b, p) = {}
  BY <1>2 DEF Owners, AllFree
<1>5. generation \in Nat /\ SlotsOf(b, p) \subseteq AllSlots
  BY <1>2, SlotsInTable, PtrHashSolverAssumption, SMTT(30) DEF TypeOK
<1>6. slotGen' = [s \in AllSlots |-> IF s \in SlotsOf(b, p) THEN generation ELSE Unmarked(b)[s]]
  BY <1>3 DEF PlaceBucket
<1>7. /\ slotGen' \in [AllSlots -> 0 .. generation]
      /\ \A s \in AllSlots : slotGen'[s] = generation <=> s \in SlotsOf(b, p) \/ Taken(s)
  BY <1>5, <1>6, UnmarkedKeepsTaken
<1>8. processedGen' = ProcessedAfter(b, {})
  BY DEF PlaceFree, ProcessedAfter, TypeOK
<1>9. evictions' = evictions + Cardinality({})
  <2>1. evictions' = evictions /\ evictions \in Nat
    BY DEF PlaceFree, TypeOK
  <2> QED BY <2>1, FS_EmptySet
<1>10. /\ pilots' = [pilots EXCEPT ![b] = p]
       /\ slotOwner' = [s \in AllSlots |-> IF s \in SlotsOf(b, p) THEN b ELSE slotOwner[s]]
  BY <1>3 DEF PlaceBucket
<1>11. generation' = generation /\ pendingHeap' = heap \cup {} /\ UNCHANGED pinVars
  BY DEF PlaceFree
<1>12. Placed(b, p, {}, heap)
  BY <1>2, <1>4, <1>7, <1>8, <1>9, <1>10, <1>11 DEF Placed
<1> QED BY <1>2, <1>12

(* Phase 2 evicts the owners of the slots it takes, and none of them is pinned. *)
LEMMA PlaceEvictingPlaces ==
    ASSUME TypeOK, GenInv, BlockInv, SlotsMatchPilots, Solving,
           NEW b \in Buckets, ~isProcessed(b), NEW heap, PlaceEvicting(b, heap)
    PROVE  \E p \in Pilots : Placed(b, p, Owners(b, p), heap)
<1>1. PICK p0 \in Pilots :
        LET p == BestPilot(b, p0)
            evicted == Owners(b, p) \ {b}
        IN  /\ PlaceBucket(b, p, EvictedGen(b, evicted))
            /\ processedGen' = ProcessedAfter(b, evicted)
            /\ pendingHeap' = heap \cup evicted
            /\ evictions' = evictions + Cardinality(evicted)
  BY DEF PlaceEvicting
<1> DEFINE p == BestPilot(b, p0)
           evicted == Owners(b, p)
<1>2. p \in ViablePilots(b)
  BY BestPilotViable DEF PlaceEvicting
<1>3. p \in Pilots /\ evicted \cap pinnedBits = {} /\ Cardinality(SlotsOf(b, p)) = bucketSize(b)
  BY <1>2 DEF ViablePilots
<1>4. evicted \in SUBSET Buckets /\ b \notin evicted /\ evicted \ {b} = evicted
  BY <1>3, OwnersPlaced
<1>5. /\ PlaceBucket(b, p, EvictedGen(b, evicted))
      /\ processedGen' = ProcessedAfter(b, evicted)
      /\ pendingHeap' = heap \cup evicted
      /\ evictions' = evictions + Cardinality(evicted)
  BY <1>1, <1>4
<1> HIDE DEF p
<1>6. generation \in Nat /\ generation # 0 /\ SlotsOf(b, p) \subseteq AllSlots
  BY <1>3, SlotsInTable, PtrHashSolverAssumption DEF TypeOK
<1>7. slotGen' = [s \in AllSlots |->
                    IF s \in SlotsOf(b, p) THEN generation ELSE EvictedGen(b, evicted)[s]]
  BY <1>5 DEF PlaceBucket
<1> HIDE DEF evicted
<1>8. /\ EvictedGen(b, evicted) \in [AllSlots -> 0 .. generation]
      /\ \A s \in AllSlots : EvictedGen(b, evicted)[s] = generation
                              <=> Taken(s) /\ slotOwner[s] \notin evicted
  <2>1. ASSUME NEW s \in AllSlots
        PROVE  /\ EvictedGen(b, evicted)[s] = IF Taken(s) /\ slotOwner[s] \in evicted
                                              THEN 0 ELSE Unmarked(b)[s]
    <3>1. Taken(s) => s \in SlotsOf(slotOwner[s], pilots[slotOwner[s]])
      BY DEF SlotsMatchPilots, Solving
    <3> QED BY <3>1 DEF EvictedGen
  <2>2. EvictedGen(b, evicted) = [s \in AllSlots |-> EvictedGen(b, evicted)[s]]
    BY DEF EvictedGen
  <2>3. /\ \A s \in AllSlots : Unmarked(b)[s] \in 0 .. generation
        /\ \A s \in AllSlots : Unmarked(b)[s] = generation <=> Taken(s)
    BY UnmarkedKeepsTaken
  <2>4. ASSUME NEW s \in AllSlots PROVE EvictedGen(b, evicted)[s] \in 0 .. generation
    BY <1>6, <2>1, <2>3
  <2>5. ASSUME NEW s \in AllSlots
        PROVE  EvictedGen(b, evicted)[s] = generation <=> Taken(s) /\ slotOwner[s] \notin evicted
    BY <1>6, <2>1, <2>3
  <2> QED BY <2>2, <2>4, <2>5
<1>9. slotGen' \in [AllSlots -> 0 .. generation]
  BY <1>6, <1>7, <1>8
<1>10. \A s \in AllSlots :
          slotGen'[s] = generation <=>
            s \in SlotsOf(b, p) \/ (Taken(s) /\ slotOwner[s] \notin evicted)
  BY <1>6, <1>7, <1>8
<1>11. /\ pilots' = [pilots EXCEPT ![b] = p]
       /\ slotOwner' = [s \in AllSlots |-> IF s \in SlotsOf(b, p) THEN b ELSE slotOwner[s]]
  BY <1>5 DEF PlaceBucket
<1>12. generation' = generation /\ Pin(b)
  BY DEF PlaceEvicting
<1>13. evicted = Owners(b, p)
  BY DEF evicted
<1>14. Placed(b, p, evicted, heap)
  BY <1>3, <1>4, <1>5, <1>9, <1>10, <1>11, <1>12, <1>13 DEF Placed
<1> QED BY <1>3, <1>13, <1>14

(* The buckets counted as placed afterwards. *)
LEMMA PlacedProcessed ==
    ASSUME TypeOK, NEW b \in Buckets, NEW p, NEW evicted, NEW heap,
           Placed(b, p, evicted, heap)
    PROVE  \A c \in Buckets : isProcessed(c)' <=> c = b \/ (c \notin evicted /\ isProcessed(c))
<1>1. generation \in Nat /\ generation # 0
  BY PtrHashSolverAssumption DEF TypeOK
<1>2. processedGen' = ProcessedAfter(b, evicted) /\ generation' = generation
  BY DEF Placed
<1> QED BY <1>1, <1>2 DEF ProcessedAfter, isProcessed

(* The tables keep their types, and no mark is from a generation to come. *)
LEMMA PlacedTypes ==
    ASSUME TypeOK, GenInv, BlockInv, NEW b \in Buckets, NEW p \in Pilots,
           NEW evicted \in SUBSET Buckets, NEW heap \in SUBSET Buckets,
           Placed(b, p, evicted, heap)
    PROVE  /\ pilots' \in [Buckets -> Pilots] /\ slotOwner' \in [AllSlots -> Buckets]
           /\ generation' \in 1 .. genLimit - 1
           /\ slotGen' \in [AllSlots -> 0 .. genLimit - 1]
           /\ processedGen' \in [Buckets -> 0 .. genLimit - 1]
           /\ pendingHeap' \subseteq Buckets
           /\ Cardinality(evicted) \in Nat /\ Cardinality(evicted) <= numBuckets
           /\ evictions' \in Nat
           /\ GenInv'
<1> USE PtrHashSolverAssumption
<1>1. generation \in 1 .. genLimit - 1 /\ generation' = generation
  BY DEF TypeOK, Placed
<1>2. pilots' \in [Buckets -> Pilots] /\ slotOwner' \in [AllSlots -> Buckets]
  BY DEF TypeOK, Placed
<1>3. slotGen' \in [AllSlots -> 0 .. generation]
  BY DEF Placed
<1>4. processedGen' \in [Buckets -> 0 .. generation]
  <2>1. \A c \in Buckets : processedGen[c] \in 0 .. generation
    BY <1>1 DEF TypeOK, GenInv
  <2>2. processedGen' = ProcessedAfter(b, evicted)
    BY DEF Placed
  <2> QED BY <1>1, <2>1, <2>2 DEF ProcessedAfter
<1>5. Cardinality(evicted) \in Nat /\ Cardinality(evicted) <= numBuckets
  <2>1. IsFiniteSet(evicted) /\ Cardinality(evicted) <= Cardinality(Buckets)
    BY Finiteness, FS_Subset DEF BlockInv
  <2>2. Cardinality(Buckets) = numBuckets
    BY Finiteness DEF BlockInv
  <2> QED BY <2>1, <2>2, FS_CardinalityType
<1>6. evictions' \in Nat
  BY <1>5 DEF TypeOK, Placed
<1>7. pendingHeap' \subseteq Buckets
  BY DEF Placed
<1>8. slotGen' \in [AllSlots -> 0 .. genLimit - 1] /\ processedGen' \in [Buckets -> 0 .. genLimit - 1]
  BY <1>1, <1>3, <1>4
<1>9. GenInv'
  BY <1>1, <1>3, <1>4 DEF GenInv
<1> QED BY <1>1, <1>2, <1>5, <1>6, <1>7, <1>8, <1>9

(* The heart of the solver: after b has taken its slots, the taken slots are again
   exactly those of the placed buckets. *)
LEMMA PlacedSlots ==
    ASSUME TypeOK, BlockInv, SlotsMatchPilots, Solving,
           NEW b \in Buckets, ~isProcessed(b), NEW p \in Pilots, NEW evicted, NEW heap,
           Placed(b, p, evicted, heap), UNCHANGED <<buckets, slotOf>>
    PROVE  SlotsMatchPilots'
<1>1. \A c \in Buckets : isProcessed(c)' <=> c = b \/ (c \notin evicted /\ isProcessed(c))
  BY PlacedProcessed
<1>2. ASSUME NEW s \in AllSlots
      PROVE  Taken(s)' <=> s \in SlotsOf(b, p) \/ (Taken(s) /\ slotOwner[s] \notin evicted)
  BY DEF Placed, Taken
<1>3. pilots' = [pilots EXCEPT ![b] = p] /\ pilots \in [Buckets -> Pilots]
  BY DEF Placed, TypeOK
<1>4. ASSUME NEW s \in AllSlots
      PROVE slotOwner'[s] = IF s \in SlotsOf(b, p) THEN b ELSE slotOwner[s]
  BY DEF Placed
<1>5. ASSUME NEW c, NEW q PROVE SlotsOf(c, q)' = SlotsOf(c, q)
  BY DEF SlotsOf
<1>6. ASSUME NEW c \in Buckets
      PROVE {slotOf'[k][pilots'[c]] : k \in buckets'[c]}
              = IF c = b THEN SlotsOf(b, p) ELSE SlotsOf(c, pilots[c])
  BY <1>3 DEF SlotsOf
<1>7. ASSUME NEW s \in AllSlots, Taken(s)'
      PROVE  isProcessed(slotOwner[s])' /\ s \in SlotsOf(slotOwner[s], pilots[slotOwner[s]])'
  <2>1. slotOwner' [s] \in Buckets
    BY <1>4 DEF TypeOK
  <2>2. CASE s \in SlotsOf(b, p)
    <3>1. slotOwner'[s] = b
      BY <1>4, <2>2
    <3>2. processedGen'[b] = generation'
      BY <1>1 DEF isProcessed
    <3> QED BY <1>6, <2>2, <3>1, <3>2 DEF isProcessed, SlotsOf
  <2>3. CASE s \notin SlotsOf(b, p)
    <3>1. Taken(s) /\ slotOwner[s] \notin evicted /\ slotOwner'[s] = slotOwner[s]
      BY <1>2, <1>4, <1>7, <2>3
    <3>2. /\ slotOwner[s] \in Buckets /\ isProcessed(slotOwner[s])
          /\ s \in SlotsOf(slotOwner[s], pilots[slotOwner[s]])
      BY <3>1 DEF SlotsMatchPilots, Solving, TypeOK
    <3>3. slotOwner[s] # b
      BY <3>2
    <3>4. PICK c \in Buckets : c = slotOwner[s]
      BY <3>2
    <3>5. isProcessed(c)'
      BY <1>1, <3>1, <3>2, <3>4
    <3>6. slotOwner'[s] = c /\ processedGen'[c] = generation'
      BY <3>1, <3>4, <3>5 DEF isProcessed
    <3>7. s \in {slotOf'[k][pilots'[c]] : k \in buckets'[c]}
      BY <1>6, <3>2, <3>3, <3>4
    <3> QED BY <3>6, <3>7 DEF isProcessed, SlotsOf
  <2> QED BY <2>2, <2>3
<1>8. ASSUME NEW s \in AllSlots, NEW c \in Buckets, isProcessed(c)',
             s \in {slotOf'[k][pilots'[c]] : k \in buckets'[c]}
      PROVE  Taken(s)' /\ slotOwner'[s] = c
  <2>1. CASE c = b
    BY <1>2, <1>4, <1>6, <1>8, <2>1
  <2>2. CASE c # b
    <3>1. c \notin evicted /\ isProcessed(c)
      BY <1>1, <1>8, <2>2
    <3>2. s \in SlotsOf(c, pilots[c])
      BY <1>6, <1>8, <2>2
    <3>3. Taken(s) /\ slotOwner[s] = c
      BY <3>1, <3>2 DEF SlotsMatchPilots, Solving
    <3>4. s \notin SlotsOf(b, p)
      <4>1. evicted = Owners(b, p)
        BY DEF Placed
      <4> QED BY <3>1, <3>3, <4>1 DEF Owners
    <3> QED BY <1>2, <1>4, <3>1, <3>3, <3>4
  <2> QED BY <2>1, <2>2
<1>9. ASSUME NEW s \in AllSlots
      PROVE  /\ Taken(s)' => /\ isProcessed(slotOwner[s])'
                             /\ s \in SlotsOf(slotOwner[s], pilots[slotOwner[s]])'
             /\ \A c \in Buckets : isProcessed(c)' /\ s \in SlotsOf(c, pilots[c])'
                                      => Taken(s)' /\ slotOwner'[s] = c
  BY <1>7, <1>8 DEF SlotsOf
<1> QED BY <1>9 DEF SlotsMatchPilots

(* A bucket's pilot changes only when the bucket is placed. *)
LEMMA PlacedDistinct ==
    ASSUME TypeOK, PlacedInv, Solving, NEW b \in Buckets, NEW p \in Pilots,
           NEW evicted, NEW heap, Placed(b, p, evicted, heap), UNCHANGED <<buckets, slotOf>>
    PROVE  PlacedInv'
<1>1. SUFFICES ASSUME NEW c \in Buckets, isProcessed(c)'
               PROVE  (Cardinality(SlotsOf(c, pilots[c])) = bucketSize(c))'
  BY DEF PlacedInv
<1>2. pilots' = [pilots EXCEPT ![b] = p] /\ pilots \in [Buckets -> Pilots]
  BY DEF Placed, TypeOK
<1>3. {slotOf'[k][pilots'[c]] : k \in buckets'[c]}
        = IF c = b THEN SlotsOf(b, p) ELSE SlotsOf(c, pilots[c])
  BY <1>2 DEF SlotsOf
<1>4. bucketSize(c)' = bucketSize(c)
  BY DEF bucketSize
<1>5. c # b => isProcessed(c)
  BY <1>1, PlacedProcessed
<1>6. Cardinality(IF c = b THEN SlotsOf(b, p) ELSE SlotsOf(c, pilots[c])) = bucketSize(c)
  BY <1>5 DEF Placed, PlacedInv
<1> QED BY <1>3, <1>4, <1>6 DEF SlotsOf

(* What depends on the block alone does not change while it is solved. *)
LEMMA BlockKept ==
    ASSUME UNCHANGED <<buckets, slotOf>>
    PROVE  /\ bucketOrder' = bucketOrder /\ BlockKeys' = BlockKeys
           /\ numKeys' = numKeys /\ numSlots' = numSlots /\ maxEvictions' = maxEvictions
<1>1. BlockKeys' = BlockKeys
  BY DEF BlockKeys
<1>2. numKeys' = numKeys
  BY <1>1 DEF numKeys
<1>3. numSlots' = numSlots
  BY <1>2 DEF numSlots
<1>4. maxEvictions' = maxEvictions
  BY <1>3 DEF maxEvictions
<1>5. bucketOrder' = bucketOrder
  BY DEF bucketOrder, Before, bucketSize
<1> QED BY <1>1, <1>2, <1>3, <1>4, <1>5

(* The evicted buckets were placed, so solve has come past them, and they are not in
   the heap yet. *)
LEMMA PlacedQueue ==
    ASSUME TypeOK, BlockInv, PlacementInv, Solving, UNCHANGED <<buckets, slotOf>>,
           NEW b \in Buckets, NEW p, NEW evicted \in SUBSET Buckets, NEW heap,
           \A c \in evicted : isProcessed(c),
           Placed(b, p, evicted, heap), heap = pendingHeap \ {b},
           NEW n \in next .. numBuckets + 1, next' = n,
           \A i \in 1 .. n - 1 : i < next \/ bucketOrder[i] = b,
           \E j \in 1 .. n - 1 : b = bucketOrder[j]
    PROVE  /\ NothingForgotten'
           /\ \A c \in pendingHeap' : \E i \in 1 .. n - 1 : c = bucketOrder'[i]
<1> USE PtrHashSolverAssumption
<1>1. \A c \in Buckets : isProcessed(c)' <=> c = b \/ (c \notin evicted /\ isProcessed(c))
  BY PlacedProcessed
<1>2. pendingHeap' = (pendingHeap \ {b}) \cup evicted /\ b \notin evicted
  BY DEF Placed
<1>3. bucketOrder' = bucketOrder
  BY BlockKept
<1>4. /\ \A i \in 1 .. numBuckets : bucketOrder[i] \in Buckets
      /\ \A i, j \in 1 .. numBuckets : bucketOrder[i] = bucketOrder[j] => i = j
      /\ \A c \in Buckets : \E i \in 1 .. numBuckets : c = bucketOrder[i]
  BY OrderListsBuckets DEF BlockInv
<1>5. /\ next \in Nat /\ 1 <= next /\ n \in Nat /\ numBuckets \in Nat
      /\ next <= n /\ n <= numBuckets + 1
  BY DEF TypeOK
<1>6. /\ \A i \in 1 .. next - 1 : isProcessed(bucketOrder[i]) # (bucketOrder[i] \in pendingHeap)
      /\ \A i \in next .. numBuckets : ~isProcessed(bucketOrder[i])
      /\ \A c \in pendingHeap : \E i \in 1 .. next - 1 : c = bucketOrder[i]
  BY DEF PlacementInv, NothingForgotten, QueueInv, Solving
<1>7. ASSUME NEW i \in 1 .. n - 1
      PROVE  isProcessed(bucketOrder[i])' # (bucketOrder[i] \in pendingHeap')
  <2>0. i \in 1 .. numBuckets
    BY <1>5
  <2>1. PICK c \in Buckets : c = bucketOrder[i]
    BY <1>4, <2>0
  <2>2. isProcessed(bucketOrder[i])' <=> isProcessed(c)'
    BY <1>3, <2>1 DEF isProcessed
  <2>3. CASE c = b
    BY <1>1, <1>2, <2>1, <2>2, <2>3
  <2>4. CASE c # b
    <3>1. i \in 1 .. next - 1
      BY <1>5, <2>1, <2>4
    <3>2. isProcessed(c) <=> c \notin pendingHeap
      BY <1>6, <2>1, <3>1 DEF isProcessed
    <3>3. isProcessed(c)' <=> c \notin pendingHeap'
      <4>1. CASE c \in evicted
        BY <1>1, <1>2, <2>4, <4>1
      <4>2. CASE c \notin evicted
        BY <1>1, <1>2, <2>4, <3>2, <4>2
      <4> QED BY <4>1, <4>2
    <3>4. isProcessed(bucketOrder[i])' <=> bucketOrder[i] \notin pendingHeap'
      BY <2>1, <2>2, <3>3
    <3> QED BY <3>4 DEF isProcessed
  <2> QED BY <2>3, <2>4
<1>8. ASSUME NEW i \in n .. numBuckets PROVE ~isProcessed(bucketOrder[i])'
  <2>1. i \in next .. numBuckets /\ i \in 1 .. numBuckets
    BY <1>5
  <2>2. PICK c \in Buckets : c = bucketOrder[i]
    BY <1>4, <2>1
  <2>3. ~isProcessed(c)
    BY <1>6, <2>1, <2>2
  <2>4. c # b
    <3>1. PICK j \in 1 .. n - 1 : b = bucketOrder[j]
      OBVIOUS
    <3>2. j \in 1 .. numBuckets /\ j # i
      BY <1>5
    <3> QED BY <1>4, <2>1, <2>2, <3>1, <3>2
  <2>5. ~isProcessed(c)'
    BY <1>1, <2>3, <2>4
  <2> QED BY <1>3, <2>2, <2>5 DEF isProcessed
<1>9. ASSUME NEW c \in pendingHeap' PROVE \E i \in 1 .. n - 1 : c = bucketOrder[i]
  <2>1. CASE c \in pendingHeap
    BY <1>5, <1>6, <2>1
  <2>2. CASE c \in evicted
    <3>1. isProcessed(c) /\ c \in Buckets
      BY <2>2
    <3>2. PICK i \in 1 .. numBuckets : c = bucketOrder[i]
      BY <1>4, <3>1
    <3>3. i < next
      BY <1>5, <1>6, <3>1, <3>2
    <3> QED BY <1>5, <3>2, <3>3
  <2> QED BY <1>2, <1>9, <2>1, <2>2
<1>10. NothingForgotten'
  <2>1. /\ \A i \in 1 .. n - 1 : isProcessed(bucketOrder[i])' # (bucketOrder'[i] \in pendingHeap')
        /\ \A i \in n .. numBuckets : ~isProcessed(bucketOrder[i])'
    BY <1>3, <1>7, <1>8
  <2> QED BY <2>1 DEF NothingForgotten
<1> QED BY <1>3, <1>9, <1>10

(* The ring loses the bucket that leaves it and gets b, which is not in it. *)
LEMMA PlacedPins ==
    ASSUME TypeOK, PinnedMatchesRing, Solving, NEW b \in Buckets, ~isProcessed(b),
           NEW p, NEW evicted, NEW heap, Placed(b, p, evicted, heap)
    PROVE  /\ PinnedMatchesRing'
           /\ pinned' \in [0 .. pinnedSize - 1 -> Buckets \cup {NoBucket}]
           /\ pinnedIdx' \in 0 .. pinnedSize - 1 /\ pinnedBits' \subseteq Buckets
<1> USE PtrHashSolverAssumption
<1> DEFINE ring == 0 .. pinnedSize - 1
<1>1. \A c \in Buckets : isProcessed(c)' <=> c = b \/ (c \notin evicted /\ isProcessed(c))
  BY PlacedProcessed
<1>2. /\ pinned \in [ring -> Buckets \cup {NoBucket}] /\ pinnedIdx \in ring
      /\ pinnedBits \subseteq Buckets
  BY DEF TypeOK
<1>3. /\ pinnedBits = {pinned[i] : i \in ring} \ {NoBucket}
      /\ \A c \in pinnedBits : isProcessed(c)
      /\ \A i, j \in ring : pinned[i] = pinned[j] /\ pinned[i] # NoBucket => i = j
  BY DEF PinnedMatchesRing, Solving
<1>4. evicted \cap pinnedBits = {} /\ b \notin pinnedBits
  BY <1>3 DEF Placed
<1>5. b # NoBucket /\ NoBucket \notin Buckets
  BY DEF NoBucket, Buckets
<1>6. CASE UNCHANGED pinVars
  <2>1. pinned' = pinned /\ pinnedIdx' = pinnedIdx /\ pinnedBits' = pinnedBits
    BY <1>6 DEF pinVars
  <2>2. \A c \in pinnedBits' : isProcessed(c)'
    BY <1>1, <1>2, <1>3, <1>4, <2>1
  <2> QED BY <1>2, <1>3, <2>1, <2>2 DEF PinnedMatchesRing
<1>7. CASE Pin(b)
  <2>1. /\ pinned' = [pinned EXCEPT ![pinnedIdx] = b]
        /\ pinnedBits' = (pinnedBits \ {pinned[pinnedIdx]}) \cup {b}
        /\ pinnedIdx' = (pinnedIdx + 1) % pinnedSize
    BY <1>7 DEF Pin
  <2>2. pinnedIdx' \in ring
    BY <1>2, <2>1
  <2> HIDE DEF ring
  <2>3. ASSUME NEW i \in ring PROVE pinned'[i] = IF i = pinnedIdx THEN b ELSE pinned[i]
    BY <1>2, <2>1
  <2>4. \A c \in pinnedBits' : isProcessed(c)'
    BY <1>1, <1>2, <1>3, <1>4, <2>1
  <2>5. pinned' \in [ring -> Buckets \cup {NoBucket}] /\ pinnedBits' \subseteq Buckets
    BY <1>2, <2>1
  <2>6. \A i \in ring : pinned[i] # b
    BY <1>3, <1>4, <1>5
  <2>7. ASSUME NEW i \in ring, NEW j \in ring, pinned'[i] = pinned'[j], pinned'[i] # NoBucket
        PROVE  i = j
    BY <1>2, <1>3, <2>3, <2>6, <2>7
  <2>8. pinnedBits' = {pinned'[i] : i \in ring} \ {NoBucket}
    <3>1. ASSUME NEW c \in pinnedBits' PROVE c \in {pinned'[i] : i \in ring} \ {NoBucket}
      <4>1. CASE c = b
        BY <1>2, <1>5, <2>3, <4>1
      <4>2. CASE c # b
        <5>1. c \in pinnedBits /\ c # pinned[pinnedIdx]
          BY <2>1, <3>1, <4>2
        <5>2. PICK i \in ring : c = pinned[i] /\ c # NoBucket
          BY <1>3, <5>1
        <5>3. pinned'[i] = c
          BY <2>3, <5>1, <5>2
        <5> QED BY <5>2, <5>3
      <4> QED BY <4>1, <4>2
    <3>2. ASSUME NEW i \in ring, pinned'[i] # NoBucket PROVE pinned'[i] \in pinnedBits'
      <4>1. CASE i = pinnedIdx
        BY <2>1, <2>3, <4>1
      <4>2. CASE i # pinnedIdx
        <5>1. pinned'[i] = pinned[i] /\ pinned[i] \in pinnedBits
          BY <1>3, <2>3, <3>2, <4>2
        <5>2. pinned[i] # pinned[pinnedIdx]
          BY <1>2, <1>3, <3>2, <4>2, <5>1
        <5> QED BY <2>1, <5>1, <5>2
      <4> QED BY <4>1, <4>2
    <3> QED BY <3>1, <3>2
  <2>9. PinnedMatchesRing'
    BY <2>4, <2>7, <2>8 DEF PinnedMatchesRing, ring
  <2> QED BY <2>2, <2>5, <2>9 DEF ring
<1> QED BY <1>6, <1>7 DEF Placed

--------------------------------------------------------------------------------
(* The steps that place buckets. *)

LEMMA LimitType ==
    ASSUME BlockInv PROVE maxEvictions \in Nat
<1>1. numSlots \in Nat /\ maxEvictionMultiplier \in Nat
  BY Finiteness, PtrHashSolverAssumption DEF BlockInv
<1> QED BY <1>1 DEF maxEvictions

(* A block that stays as it is keeps its shape. *)
LEMMA BlockInvKept ==
    ASSUME BlockInv, UNCHANGED blockVars,
           pc' \in {"solve", "drain", "limit"} => pc \in {"solve", "drain", "limit"}
    PROVE  BlockInv'
<1>1. buckets' = buckets /\ slotOf' = slotOf /\ solved' = solved
  BY DEF blockVars
<1>2. BlockKeys' = BlockKeys /\ numSlots' = numSlots
  BY <1>1, BlockKept
<1>3. /\ buckets \in [Buckets -> SUBSET Keys] /\ solved \in Nat
      /\ \A a, b \in Buckets : a # b => buckets[a] \cap buckets[b] = {}
      /\ \A k \in BlockKeys : \A p \in Pilots : slotOf[k][p] < numSlots
      /\ pc' \in {"solve", "drain", "limit"} => BlockKeys # {}
  BY DEF BlockInv
<1>4. /\ buckets' \in [Buckets -> SUBSET Keys] /\ solved' \in Nat
      /\ \A a, b \in Buckets : a # b => buckets'[a] \cap buckets'[b] = {}
      /\ \A k \in BlockKeys' : \A p \in Pilots : slotOf'[k][p] < numSlots'
      /\ pc' \in {"solve", "drain", "limit"} => BlockKeys' # {}
  BY ONLY <1>1, <1>2, <1>3
<1> QED BY <1>4 DEF BlockInv

(* Placing the next bucket, or one from the heap, keeps the invariant. *)
LEMMA PlacedStep ==
    ASSUME CoreInv, Solving, UNCHANGED <<blockVars, attempt, remap>>,
           NEW b \in Buckets, ~isProcessed(b), NEW p \in Pilots,
           NEW evicted, NEW heap \in SUBSET Buckets, Placed(b, p, evicted, heap),
           heap = pendingHeap \ {b},
           NEW n \in next .. numBuckets + 1, next' = n,
           \A i \in 1 .. n - 1 : i < next \/ bucketOrder[i] = b,
           \E j \in 1 .. n - 1 : b = bucketOrder[j],
           pc' \in {"solve", "drain", "limit"},
           pc' = "solve" => pendingHeap' = {} /\ evictions' <= maxEvictions,
           pc' = "drain" => pendingHeap' # {} /\ evictions' <= maxEvictions + numBuckets
    PROVE  CoreInv'
<1> USE DEF CoreInv
<1>1. SlotsMatchPilots /\ PlacedInv
  BY DEF PlacementInv
<1>2. buckets' = buckets /\ slotOf' = slotOf /\ UNCHANGED <<buckets, slotOf>>
  BY DEF blockVars
<1>3. evicted = Owners(b, p)
  BY DEF Placed
<1>4. evicted \in SUBSET Buckets /\ \A c \in evicted : isProcessed(c)
  BY <1>1, <1>3, OwnersPlaced
<1>5. /\ pilots' \in [Buckets -> Pilots] /\ slotOwner' \in [AllSlots -> Buckets]
      /\ generation' \in 1 .. genLimit - 1
      /\ slotGen' \in [AllSlots -> 0 .. genLimit - 1]
      /\ processedGen' \in [Buckets -> 0 .. genLimit - 1]
      /\ pendingHeap' \subseteq Buckets
      /\ evictions' \in Nat
      /\ GenInv'
  BY <1>4, PlacedTypes, ZenonT(40)
<1>6. /\ PinnedMatchesRing'
      /\ pinned' \in [0 .. pinnedSize - 1 -> Buckets \cup {NoBucket}]
      /\ pinnedIdx' \in 0 .. pinnedSize - 1 /\ pinnedBits' \subseteq Buckets
  BY PlacedPins
<1>7. TypeOK'
  <2>1. /\ \A c \in Buckets : buckets'[c] \subseteq Keys
        /\ slotOf' \in [Keys -> [Pilots -> AllSlots]]
        /\ attempt' \in 0 .. maxGlobalRetries - 1 /\ remap' \in [Overflow -> AllSlots]
    BY <1>2 DEF TypeOK
  <2>2. next' \in 1 .. numBuckets + 1
    <3>1. next \in 1 .. numBuckets + 1
      BY DEF TypeOK
    <3> QED BY <3>1, PtrHashSolverAssumption
  <2>3. pc' \in {"idle", "solve", "drain", "limit", "panic"} \cup Ended
    OBVIOUS
  <2> QED BY ONLY <1>5, <1>6, <2>1, <2>2, <2>3 DEF TypeOK
<1>8. BlockInv'
  BY BlockInvKept DEF Solving
<1>9. SlotsMatchPilots' /\ PlacedInv'
  BY <1>1, <1>2, PlacedSlots, PlacedDistinct
<1>10. /\ NothingForgotten'
       /\ \A c \in pendingHeap' : \E i \in 1 .. n - 1 : c = bucketOrder'[i]
  BY <1>2, <1>4, PlacedQueue
<1>11. QueueInv'
  BY <1>10 DEF QueueInv
<1>12. EvictInv'
  <2>1. maxEvictions' = maxEvictions
    BY <1>2, BlockKept
  <2> QED BY <2>1 DEF EvictInv
<1> QED BY <1>5, <1>6, <1>7, <1>8, <1>9, <1>10, <1>11, <1>12 DEF PlacementInv

(* When no pilot is left, solve ends and leaves the tables to the next reset. *)
LEMMA FailStep ==
    ASSUME CoreInv, Solving, UNCHANGED <<blockVars, attempt, remap>>,
           NEW b \in Buckets, NEW heap \in SUBSET Buckets, Fail(b, heap),
           next' \in 1 .. numBuckets + 1
    PROVE  CoreInv' /\ pc' \in Failures
<1> USE DEF CoreInv
<1>1. pc' \in Failures /\ slotGen' = Unmarked(b) /\ pendingHeap' = heap
  BY DEF Fail, FailuresOf, Failures
<1>2. /\ pilots' = pilots /\ slotOwner' = slotOwner /\ processedGen' = processedGen
      /\ generation' = generation /\ evictions' = evictions /\ pinned' = pinned
      /\ pinnedIdx' = pinnedIdx /\ pinnedBits' = pinnedBits
  BY DEF Fail, pinVars
<1>3. generation \in 1 .. genLimit - 1 /\ genLimit \in Nat
  BY PtrHashSolverAssumption DEF TypeOK
<1>4. Unmarked(b) \in [AllSlots -> 0 .. generation]
  BY UnmarkedKeepsTaken
<1>5. slotGen' \in [AllSlots -> 0 .. genLimit - 1]
  BY <1>1, <1>3, <1>4
<1>6. TypeOK'
  <2>1. /\ buckets' = buckets /\ slotOf' = slotOf /\ attempt' = attempt /\ remap' = remap
    BY DEF blockVars
  <2> QED BY <1>1, <1>2, <1>5, <2>1 DEF TypeOK
<1>7. GenInv'
  BY <1>1, <1>2, <1>3, <1>4 DEF GenInv
<1>8. BlockInv'
  BY <1>1, BlockInvKept
<1>9. PlacementInv' /\ EvictInv'
  BY <1>1 DEF PlacementInv, SlotsMatchPilots, PlacedInv, NothingForgotten, QueueInv, Solving, EvictInv
<1>10. PinnedMatchesRing'
  BY <1>1, <1>2 DEF PinnedMatchesRing
<1> QED BY <1>1, <1>6, <1>7, <1>8, <1>9, <1>10

(* processBucketWithHeap places the bucket or gives up. *)
LEMMA ProcessBucketCases ==
    ASSUME CoreInv, Solving, NEW b \in Buckets, ~isProcessed(b), NEW heap, ProcessBucket(b, heap)
    PROVE  \/ Fail(b, heap)
           \/ Continue /\ \E p \in Pilots, evicted \in SUBSET Buckets : Placed(b, p, evicted, heap)
<1> USE DEF CoreInv
<1>1. SlotsMatchPilots
  BY DEF PlacementInv
<1>2. CASE PlaceFree(b, heap) /\ Continue
  BY <1>1, <1>2, PlaceFreePlaces
<1>3. CASE PlaceEvicting(b, heap) /\ Continue
  <2>1. PICK p \in Pilots : Placed(b, p, Owners(b, p), heap)
    BY <1>1, <1>3, PlaceEvictingPlaces
  <2>2. Owners(b, p) \in SUBSET Buckets
    BY <1>1, OwnersPlaced
  <2> QED BY <1>3, <2>1, <2>2
<1>4. CASE Fail(b, heap)
  BY <1>4
<1> QED BY <1>2, <1>3, <1>4 DEF ProcessBucket

(* What Continue does with the eviction limit: it is looked at after a step that leaves
   the heap empty, and after every step that drains it. *)
LEMMA ContinueLimits ==
    ASSUME CoreInv, Solving, NEW e \in Nat, e <= numBuckets, evictions' = evictions + e, Continue
    PROVE  /\ pc' \in {"solve", "drain", "limit"}
           /\ pc' = "solve" => pendingHeap' = {} /\ evictions' <= maxEvictions
           /\ pc' = "drain" => pendingHeap' # {} /\ evictions' <= maxEvictions + numBuckets
           /\ evictions' <= maxEvictions + 2 * numBuckets
<1>1. maxEvictions \in Nat /\ evictions \in Nat /\ numBuckets \in Nat
  BY LimitType, PtrHashSolverAssumption DEF CoreInv, TypeOK
<1>2. /\ pc = "solve" => evictions <= maxEvictions
      /\ pc = "drain" => evictions <= maxEvictions + numBuckets
  BY DEF CoreInv, EvictInv
<1>3. PICK e2 \in Nat : e2 = evictions'
  BY <1>1
<1>4. /\ pc' \in {"solve", "drain", "limit"}
      /\ pc' = "solve" => pendingHeap' = {} /\ ~(evictions' > maxEvictions)
      /\ pc' = "drain" => pendingHeap' # {} /\ (pc = "solve" \/ ~(evictions' > maxEvictions))
  BY DEF Continue, LimitExceeded, Solving
<1>5. e2 = evictions + e
  BY <1>3
<1>6. pc = "solve" => e2 <= maxEvictions + numBuckets
  BY <1>1, <1>2, <1>5
<1>7. e2 <= maxEvictions + 2 * numBuckets
  BY <1>1, <1>2, <1>5 DEF Solving
<1>8. ~(e2 > maxEvictions) => e2 <= maxEvictions /\ e2 <= maxEvictions + numBuckets
  BY <1>1
<1> QED BY <1>3, <1>4, <1>6, <1>7, <1>8

(* Taking a bucket from bucketOrder or from the heap. *)
LEMMA ProcessBucketStep ==
    ASSUME CoreInv, Solving, UNCHANGED <<blockVars, attempt, remap>>,
           NEW b \in Buckets, ~isProcessed(b), NEW heap \in SUBSET Buckets,
           ProcessBucket(b, heap), heap = pendingHeap \ {b},
           NEW n \in next .. numBuckets + 1, next' = n,
           \A i \in 1 .. n - 1 : i < next \/ bucketOrder[i] = b,
           \E j \in 1 .. n - 1 : b = bucketOrder[j]
    PROVE  CoreInv' /\ pc' \in {"solve", "drain", "limit"} \cup Failures
<1>1. CASE Fail(b, heap)
  <2>1. next \in 1 .. numBuckets + 1
    BY DEF CoreInv, TypeOK
  <2>2. next' \in 1 .. numBuckets + 1
    BY <2>1, PtrHashSolverAssumption
  <2> QED BY <1>1, <2>2, FailStep
<1>2. CASE Continue /\ \E p \in Pilots, evicted \in SUBSET Buckets : Placed(b, p, evicted, heap)
  <2>1. PICK p \in Pilots, evicted \in SUBSET Buckets : Placed(b, p, evicted, heap)
    BY <1>2
  <2>2. Cardinality(evicted) \in Nat /\ Cardinality(evicted) <= numBuckets
    BY <2>1, PlacedTypes DEF CoreInv
  <2>3. evictions' = evictions + Cardinality(evicted)
    BY <2>1 DEF Placed
  <2>4. /\ pc' \in {"solve", "drain", "limit"}
        /\ pc' = "solve" => pendingHeap' = {} /\ evictions' <= maxEvictions
        /\ pc' = "drain" => pendingHeap' # {} /\ evictions' <= maxEvictions + numBuckets
    BY <1>2, <2>2, <2>3, ContinueLimits
  <2>5. CoreInv'
    BY <2>1, <2>4, PlacedStep
  <2> QED BY <2>4, <2>5
<1> QED BY <1>1, <1>2, ProcessBucketCases

(* An empty bucket is placed without slots. *)
LEMMA EmptyPlaced ==
    ASSUME CoreInv, NEW b \in Buckets, bucketSize(b) = 0,
           pilots' = [pilots EXCEPT ![b] = 0],
           processedGen' = [processedGen EXCEPT ![b] = generation],
           UNCHANGED <<slotOwner, slotGen, generation, pinVars, evictions, pendingHeap>>
    PROVE  0 \in Pilots /\ Placed(b, 0, {}, pendingHeap)
<1> USE DEF CoreInv
<1>1. 0 \in Pilots
  BY PtrHashSolverAssumption DEF Pilots
<1>2. buckets[b] = {}
  <2>1. IsFiniteSet(buckets[b])
    BY Finiteness DEF BlockInv
  <2> QED BY <2>1, FS_EmptySet DEF bucketSize
<1>3. SlotsOf(b, 0) = {} /\ Cardinality(SlotsOf(b, 0)) = bucketSize(b)
  <2>1. SlotsOf(b, 0) = {}
    BY <1>2 DEF SlotsOf
  <2> QED BY <2>1, FS_EmptySet
<1>4. Owners(b, 0) = {}
  BY <1>3 DEF Owners
<1>5. slotGen' \in [AllSlots -> 0 .. generation]
  BY PtrHashSolverAssumption DEF TypeOK, GenInv
<1>6. \A s \in AllSlots : slotGen'[s] = generation <=> s \in SlotsOf(b, 0) \/ (Taken(s) /\ slotOwner[s] \notin {})
  BY <1>3 DEF Taken
<1>7. processedGen' = ProcessedAfter(b, {})
  BY DEF ProcessedAfter, TypeOK
<1>8. slotOwner' = [s \in AllSlots |-> IF s \in SlotsOf(b, 0) THEN b ELSE slotOwner[s]]
  BY <1>3 DEF TypeOK
<1>9. evictions' = evictions + Cardinality({})
  BY FS_EmptySet DEF TypeOK
<1>10. UNCHANGED pinVars /\ pendingHeap' = pendingHeap \cup {} /\ generation' = generation
  OBVIOUS
<1>11. Placed(b, 0, {}, pendingHeap)
  BY <1>3, <1>4, <1>5, <1>6, <1>7, <1>8, <1>9, <1>10 DEF Placed
<1> QED BY <1>1, <1>11

(* What solve knows of the bucket it takes next. *)
LEMMA NextBucket ==
    ASSUME CoreInv, pc = "solve", next <= numBuckets
    PROVE  /\ bucketOrder[next] \in Buckets /\ ~isProcessed(bucketOrder[next])
           /\ pendingHeap = {}
           /\ next \in Nat /\ next + 1 \in next .. numBuckets + 1
           /\ \A i \in 1 .. (next + 1) - 1 : i < next \/ bucketOrder[i] = bucketOrder[next]
           /\ \E j \in 1 .. (next + 1) - 1 : bucketOrder[next] = bucketOrder[j]
<1>1. next \in Nat /\ 1 <= next /\ numBuckets \in Nat
  BY PtrHashSolverAssumption DEF CoreInv, TypeOK
<1>2. next \in 1 .. numBuckets /\ next \in next .. numBuckets
  BY <1>1
<1>3. bucketOrder[next] \in Buckets
  BY <1>2, OrderListsBuckets DEF CoreInv, BlockInv
<1>4. ~isProcessed(bucketOrder[next])
  BY <1>2 DEF CoreInv, PlacementInv, NothingForgotten
<1>5. pendingHeap = {}
  BY DEF CoreInv, PlacementInv, QueueInv
<1>6. \A i \in 1 .. (next + 1) - 1 : i < next \/ i = next
  BY <1>1
<1>7. next \in 1 .. (next + 1) - 1
  BY <1>1
<1>8. next + 1 \in next .. numBuckets + 1
  BY <1>1
<1> QED BY <1>1, <1>3, <1>4, <1>5, <1>6, <1>7, <1>8

(* What solve knows of the bucket it takes from the heap. *)
LEMMA HeapBucket ==
    ASSUME CoreInv, pc = "drain"
    PROVE  /\ Popped \in Buckets /\ Popped \in pendingHeap /\ ~isProcessed(Popped)
           /\ next \in Nat /\ next \in next .. numBuckets + 1
           /\ \A i \in 1 .. next - 1 : i < next
           /\ \E j \in 1 .. next - 1 : Popped = bucketOrder[j]
<1>1. next \in Nat /\ 1 <= next /\ next <= numBuckets + 1 /\ numBuckets \in Nat
  BY PtrHashSolverAssumption DEF CoreInv, TypeOK
<1>2. pendingHeap \in SUBSET Buckets /\ pendingHeap # {}
  BY DEF CoreInv, TypeOK, PlacementInv, QueueInv
<1>3. Popped \in pendingHeap /\ Popped \in Buckets
  BY <1>2, PoppedFromHeap DEF CoreInv, BlockInv
<1>4. PICK j \in 1 .. next - 1 : Popped = bucketOrder[j]
  BY <1>3 DEF CoreInv, PlacementInv, QueueInv, Solving
<1>5. isProcessed(bucketOrder[j]) # (bucketOrder[j] \in pendingHeap)
  BY DEF CoreInv, PlacementInv, NothingForgotten
<1>6. ~isProcessed(Popped)
  BY <1>3, <1>4, <1>5 DEF isProcessed
<1> QED BY <1>1, <1>3, <1>4, <1>6

LEMMA ProcessNextInv ==
    ASSUME CoreInv, ProcessNext
    PROVE  CoreInv' /\ pc' \in {"solve", "drain", "limit"} \cup Failures
<1> DEFINE b == bucketOrder[next]
           n == next + 1
<1>1. pc = "solve" /\ next <= numBuckets /\ next' = n /\ UNCHANGED <<blockVars, attempt, remap>>
  BY DEF ProcessNext
<1>2. /\ b \in Buckets /\ ~isProcessed(b) /\ pendingHeap = {}
      /\ n \in next .. numBuckets + 1
      /\ \A i \in 1 .. n - 1 : i < next \/ bucketOrder[i] = b
      /\ \E j \in 1 .. n - 1 : b = bucketOrder[j]
  BY <1>1, NextBucket
<1>3. pendingHeap = pendingHeap \ {b} /\ pendingHeap \in SUBSET Buckets
  BY <1>2
<1>4. Solving
  BY <1>1 DEF Solving
<1>5. \/ /\ bucketSize(b) = 0
         /\ pilots' = [pilots EXCEPT ![b] = 0]
         /\ processedGen' = [processedGen EXCEPT ![b] = generation]
         /\ UNCHANGED <<slotOwner, slotGen, generation, pinVars, evictions, pendingHeap, pc>>
      \/ ProcessBucket(b, pendingHeap)
  BY <1>2 DEF ProcessNext
<1> HIDE DEF b, n
<1>6. CASE ProcessBucket(b, pendingHeap)
  BY <1>1, <1>2, <1>3, <1>4, <1>6, ProcessBucketStep
<1>7. CASE /\ bucketSize(b) = 0
           /\ pilots' = [pilots EXCEPT ![b] = 0]
           /\ processedGen' = [processedGen EXCEPT ![b] = generation]
           /\ UNCHANGED <<slotOwner, slotGen, generation, pinVars, evictions, pendingHeap, pc>>
  <2>1. 0 \in Pilots /\ Placed(b, 0, {}, pendingHeap)
    BY <1>2, <1>7, EmptyPlaced
  <2>2. pc' = "solve" /\ pendingHeap' = {} /\ evictions' <= maxEvictions
    BY <1>1, <1>2, <1>7 DEF CoreInv, EvictInv
  <2>3. /\ pc' \in {"solve", "drain", "limit"}
        /\ pc' = "solve" => pendingHeap' = {} /\ evictions' <= maxEvictions
        /\ pc' = "drain" => pendingHeap' # {} /\ evictions' <= maxEvictions + numBuckets
    BY <2>2
  <2>4. CoreInv'
    BY <1>1, <1>2, <1>3, <1>4, <2>1, <2>3, PlacedStep
  <2> QED BY <2>2, <2>4
<1> QED BY <1>5, <1>6, <1>7

LEMMA DrainHeapInv ==
    ASSUME CoreInv, DrainHeap
    PROVE  CoreInv' /\ pc' \in {"solve", "drain", "limit"} \cup Failures
<1> DEFINE b == Popped
           heap == pendingHeap \ {b}
<1>1. pc = "drain" /\ next' = next /\ UNCHANGED <<blockVars, attempt, remap>>
  BY DEF DrainHeap
<1>2. /\ b \in Buckets /\ ~isProcessed(b)
      /\ next \in next .. numBuckets + 1
      /\ \A i \in 1 .. next - 1 : i < next \/ bucketOrder[i] = b
      /\ \E j \in 1 .. next - 1 : b = bucketOrder[j]
  BY <1>1, HeapBucket
<1>3. heap \in SUBSET Buckets
  BY DEF CoreInv, TypeOK
<1>4. Solving
  BY <1>1 DEF Solving
<1>5. ProcessBucket(b, heap)
  BY <1>2 DEF DrainHeap
<1> HIDE DEF b
<1> QED BY <1>1, <1>2, <1>3, <1>4, <1>5, ProcessBucketStep

--------------------------------------------------------------------------------
(* Starting a block, and the steps that end one without a result. *)

(* After a reset no slot is taken and no bucket is placed, although the tables keep
   the marks of the blocks before. *)
LEMMA ResetClears ==
    ASSUME TypeOK, GenInv, Reset
    PROVE  /\ generation' \in 1 .. genLimit - 1
           /\ slotGen' \in [AllSlots -> 0 .. genLimit - 1]
           /\ processedGen' \in [Buckets -> 0 .. genLimit - 1]
           /\ GenInv'
           /\ \A s \in AllSlots : slotGen'[s] # generation'
           /\ \A b \in Buckets : processedGen'[b] # generation'
<1> USE PtrHashSolverAssumption
<1>1. /\ generation \in 1 .. genLimit - 1
      /\ slotGen \in [AllSlots -> 0 .. genLimit - 1]
      /\ processedGen \in [Buckets -> 0 .. genLimit - 1]
  BY DEF TypeOK
<1>2. NextGeneration
  BY DEF Reset
<1>3. CASE generation + 1 >= genLimit
  <2>1. /\ generation' = 1 /\ slotGen' = [s \in AllSlots |-> 0]
        /\ processedGen' = [b \in Buckets |-> 0]
    BY <1>2, <1>3 DEF NextGeneration
  <2> QED BY <2>1 DEF GenInv
<1>4. CASE ~(generation + 1 >= genLimit)
  <2>1. generation' = generation + 1 /\ slotGen' = slotGen /\ processedGen' = processedGen
    BY <1>2, <1>4 DEF NextGeneration
  <2>2. /\ \A s \in AllSlots : slotGen[s] <= generation /\ slotGen[s] \in Nat
        /\ \A b \in Buckets : processedGen[b] <= generation /\ processedGen[b] \in Nat
    BY <1>1 DEF GenInv
  <2>3. generation + 1 \in 1 .. genLimit - 1
    BY <1>1, <1>4
  <2>4. /\ \A s \in AllSlots : slotGen[s] <= generation + 1 /\ slotGen[s] # generation + 1
        /\ \A b \in Buckets : processedGen[b] <= generation + 1 /\ processedGen[b] # generation + 1
    BY <1>1, <2>2
  <2> QED BY <1>1, <2>1, <2>3, <2>4 DEF GenInv
<1> QED BY <1>3, <1>4

(* The order of the buckets of the block to come. *)
LEMMA OrderOfNextBlock ==
    (buckets \in [Buckets -> SUBSET Keys]
        => \A i \in 1 .. numBuckets : bucketOrder[i] \in Buckets)'
<1>1. buckets \in [Buckets -> SUBSET Keys]
        => \A i \in 1 .. numBuckets : bucketOrder[i] \in Buckets
  BY OrderListsBuckets
<1> QED BY <1>1, PTL

LEMMA LimitOfNextBlock == (BlockInv => maxEvictions \in Nat)'
<1>1. BlockInv => maxEvictions \in Nat
  BY LimitType
<1> QED BY <1>1, PTL

(* reset, for a block with keys. *)
LEMMA ResetInv ==
    ASSUME TypeOK, GenInv, Reset, BlockInv',
           slotOf' \in [Keys -> [Pilots -> AllSlots]], attempt' \in 0 .. maxGlobalRetries - 1
    PROVE  CoreInv'
<1> USE PtrHashSolverAssumption
<1>1. /\ pinned' = [i \in 0 .. pinnedSize - 1 |-> NoBucket] /\ pinnedIdx' = 0 /\ pinnedBits' = {}
      /\ evictions' = 0 /\ pendingHeap' = {} /\ next' = 1 /\ pc' = "solve"
      /\ pilots' = pilots /\ slotOwner' = slotOwner /\ remap' = remap
  BY DEF Reset
<1>2. /\ generation' \in 1 .. genLimit - 1
      /\ slotGen' \in [AllSlots -> 0 .. genLimit - 1]
      /\ processedGen' \in [Buckets -> 0 .. genLimit - 1]
      /\ GenInv'
      /\ \A s \in AllSlots : slotGen'[s] # generation'
      /\ \A b \in Buckets : processedGen'[b] # generation'
  BY ResetClears
<1>3. TypeOK'
  <2>1. \A b \in Buckets : buckets'[b] \subseteq Keys
    BY DEF BlockInv
  <2>2. pinned' \in [0 .. pinnedSize - 1 -> Buckets \cup {NoBucket}] /\ pinnedIdx' \in 0 .. pinnedSize - 1
    BY <1>1
  <2>3. next' \in 1 .. numBuckets + 1
    BY <1>1
  <2>4. pilots' \in [Buckets -> Pilots] /\ slotOwner' \in [AllSlots -> Buckets] /\ remap' \in [Overflow -> AllSlots]
    BY <1>1 DEF TypeOK
  <2> QED BY <1>1, <1>2, <2>1, <2>2, <2>3, <2>4 DEF TypeOK
<1>4. (\A s \in AllSlots : ~Taken(s))' /\ (\A b \in Buckets : ~isProcessed(b))'
  BY <1>2 DEF Taken, isProcessed
<1>5. SlotsMatchPilots' /\ PlacedInv'
  BY <1>4 DEF SlotsMatchPilots, PlacedInv
<1>6. NothingForgotten'
  <2>1. \A i \in 1 .. numBuckets : bucketOrder'[i] \in Buckets
    BY OrderOfNextBlock DEF BlockInv
  <2>2. \A i \in next' .. numBuckets : ~isProcessed(bucketOrder[i])'
    BY <1>1, <1>2, <2>1 DEF isProcessed
  <2>3. 1 .. next' - 1 = {}
    BY <1>1
  <2> QED BY <2>2, <2>3 DEF NothingForgotten
<1>7. QueueInv'
  BY <1>1 DEF QueueInv
<1>8. EvictInv'
  <2>1. maxEvictions' \in Nat
    BY LimitOfNextBlock
  <2> QED BY <1>1, <2>1 DEF EvictInv
<1>9. PinnedMatchesRing'
  <2>1. {pinned'[i] : i \in 0 .. pinnedSize - 1} \ {NoBucket} = {}
    BY <1>1
  <2>2. \A i \in 0 .. pinnedSize - 1 : pinned'[i] = NoBucket
    BY <1>1
  <2> QED BY <1>1, <2>1, <2>2 DEF PinnedMatchesRing
<1> QED BY <1>2, <1>3, <1>5, <1>6, <1>7, <1>8, <1>9 DEF CoreInv, PlacementInv

(* Any block of n keys has the shape of BlockInv. *)
LEMMA SolveBlockInv ==
    ASSUME CoreInv, SolveBlock
    PROVE  CoreInv' /\ pc' = "solve"
<1> USE PtrHashSolverAssumption
<1>1. Reset /\ attempt' = 0 /\ pc' = "solve" /\ TypeOK /\ GenInv /\ solved \in Nat
  BY DEF SolveBlock, Reset, CoreInv, BlockInv
<1>2. PICK n \in 1 .. MaxKeys - solved :
        /\ \E f \in [1 .. n -> Buckets] :
              /\ \A k \in 1 .. n - 1 : f[k] <= f[k + 1]
              /\ buckets' = [b \in Buckets |-> {k \in 1 .. n : f[k] = b}]
        /\ \E h \in [1 .. n -> [Pilots -> 0 .. n + overflow - 1]] :
              slotOf' = [k \in Keys |-> IF k <= n THEN h[k] ELSE [p \in Pilots |-> 0]]
        /\ solved' = solved + n
  BY DEF SolveBlock
<1>3. n \in Nat /\ 1 <= n /\ n <= MaxKeys
  BY <1>1
<1>4. PICK f \in [1 .. n -> Buckets] : buckets' = [b \in Buckets |-> {k \in 1 .. n : f[k] = b}]
  BY <1>2
<1>5. PICK h \in [1 .. n -> [Pilots -> 0 .. n + overflow - 1]] :
        slotOf' = [k \in Keys |-> IF k <= n THEN h[k] ELSE [p \in Pilots |-> 0]]
  BY <1>2
<1>6. 1 .. n \subseteq Keys
  BY <1>3 DEF Keys
<1>7. /\ buckets' \in [Buckets -> SUBSET Keys]
      /\ \A a, b \in Buckets : a # b => buckets'[a] \cap buckets'[b] = {}
  BY <1>4, <1>6
<1>8. BlockKeys' = 1 .. n
  <2>1. UNION {buckets'[b] : b \in Buckets} = 1 .. n
    <3>1. \A b \in Buckets : buckets'[b] \subseteq 1 .. n
      BY <1>4
    <3>2. \A k \in 1 .. n : f[k] \in Buckets /\ k \in buckets'[f[k]]
      BY <1>4
    <3> QED BY <3>1, <3>2
  <2> QED BY <2>1 DEF BlockKeys
<1>9. numKeys' = n
  <2>1. Cardinality(1 .. n) = n
    BY <1>3, FS_Interval
  <2> QED BY <1>8, <2>1 DEF numKeys
<1>10. numSlots' = n + overflow
  BY <1>9 DEF numSlots
<1>11. n + overflow - 1 \in Nat /\ 0 .. n + overflow - 1 \subseteq AllSlots /\ 0 \in AllSlots
  BY <1>3 DEF AllSlots, maxNumSlots
<1>12. ASSUME NEW k \in Keys PROVE slotOf'[k] \in [Pilots -> AllSlots]
  <2>1. CASE k <= n
    <3>1. k \in 1 .. n
      BY <1>3, <2>1 DEF Keys
    <3>2. slotOf'[k] = h[k] /\ h[k] \in [Pilots -> 0 .. n + overflow - 1]
      BY <1>5, <2>1, <3>1
    <3> QED BY <1>11, <3>2
  <2>2. CASE ~(k <= n)
    BY <1>5, <1>11, <2>2
  <2> QED BY <2>1, <2>2
<1>13. slotOf' \in [Keys -> [Pilots -> AllSlots]]
  BY <1>5, <1>12
<1>14. ASSUME NEW k \in 1 .. n, NEW p \in Pilots PROVE slotOf'[k][p] < n + overflow
  <2>1. slotOf'[k] = h[k]
    BY <1>3, <1>5, <1>6
  <2>2. h[k][p] \in 0 .. n + overflow - 1
    OBVIOUS
  <2>3. h[k][p] < n + overflow
    BY <1>3, <2>2
  <2> QED BY <2>1, <2>3
<1>15. BlockKeys' # {}
  <2>1. 1 \in 1 .. n
    BY <1>3
  <2>2. 1 \in BlockKeys'
    BY ONLY <1>8, <2>1
  <2> QED BY <2>2
<1>16. solved' \in Nat
  BY <1>1, <1>2, <1>3
<1>17. BlockInv'
  <2>1. \A k \in BlockKeys' : \A p \in Pilots : slotOf'[k][p] < numSlots'
    BY <1>8, <1>10, <1>14
  <2> QED BY <1>7, <1>15, <1>16, <2>1 DEF BlockInv
<1>18. attempt' \in 0 .. maxGlobalRetries - 1
  BY <1>1
<1>19. CoreInv'
  BY <1>1, <1>13, <1>17, <1>18, ResetInv
<1> QED BY <1>1, <1>19

LEMMA RetryInv ==
    ASSUME CoreInv, Retry
    PROVE  CoreInv' /\ pc' \in {"solve", "failed"}
<1> USE PtrHashSolverAssumption
<1>1. pc = "limit" /\ UNCHANGED blockVars
  BY DEF Retry
<1>2. attempt \in 0 .. maxGlobalRetries - 1
  BY DEF CoreInv, TypeOK
<1>3. CASE NextAttempt < maxGlobalRetries /\ attempt' = NextAttempt /\ Reset
  <2>1. attempt' \in 0 .. maxGlobalRetries - 1
    <3>1. attempt + 1 \in 0 .. maxGlobalRetries - 1
      BY <1>2, <1>3 DEF NextAttempt
    <3> QED BY <1>3, <3>1 DEF NextAttempt
  <2>2. BlockInv'
    BY <1>1, BlockInvKept DEF CoreInv
  <2>3. slotOf' \in [Keys -> [Pilots -> AllSlots]]
    BY <1>1 DEF blockVars, CoreInv, TypeOK
  <2>4. CoreInv'
    BY <1>3, <2>1, <2>2, <2>3, ResetInv DEF CoreInv
  <2> QED BY <1>3, <2>4 DEF Reset
<1>4. CASE /\ pc' = "failed"
           /\ UNCHANGED <<tableVars, pinVars, evictions, pendingHeap, next, attempt, remap>>
  <2>1. BlockInv'
    BY <1>4, BlockInvKept, <1>1 DEF CoreInv
  <2>2. TypeOK'
    BY <1>1, <1>4 DEF CoreInv, TypeOK, tableVars, pinVars, blockVars
  <2>3. GenInv' /\ PinnedMatchesRing'
    BY <1>4 DEF CoreInv, GenInv, PinnedMatchesRing, tableVars, pinVars
  <2>4. PlacementInv' /\ EvictInv'
    BY <1>4 DEF PlacementInv, SlotsMatchPilots, PlacedInv, NothingForgotten, QueueInv, Solving, EvictInv
  <2> QED BY <1>4, <2>1, <2>2, <2>3, <2>4 DEF CoreInv
<1> QED BY <1>3, <1>4 DEF Retry

(* A block without keys, or with too many, leaves the tables alone. *)
LEMMA BuildEmptyInv ==
    ASSUME CoreInv, BuildEmpty
    PROVE  CoreInv' /\ pc' = "done" /\ BlockKeys' = {}
<1> USE PtrHashSolverAssumption
<1>1. /\ pc' = "done" /\ buckets' = [b \in Buckets |-> {}] /\ pilots' = [b \in Buckets |-> 0]
      /\ slotOf' = slotOf /\ solved' = solved /\ slotOwner' = slotOwner /\ slotGen' = slotGen
      /\ processedGen' = processedGen /\ generation' = generation /\ pinned' = pinned
      /\ pinnedIdx' = pinnedIdx /\ pinnedBits' = pinnedBits /\ evictions' = evictions
      /\ pendingHeap' = pendingHeap /\ next' = next /\ attempt' = attempt /\ remap' = remap
  BY DEF BuildEmpty, pinVars
<1>2. BlockKeys' = {}
  <2>1. UNION {buckets'[b] : b \in Buckets} = {}
    BY <1>1
  <2> QED BY <2>1 DEF BlockKeys
<1>3. BlockInv'
  BY <1>1, <1>2 DEF BlockInv, CoreInv
<1>4. TypeOK'
  <2>1. pilots' \in [Buckets -> Pilots]
    BY <1>1 DEF Pilots
  <2>2. \A b \in Buckets : buckets'[b] \subseteq Keys
    BY <1>1
  <2> QED BY <1>1, <2>1, <2>2 DEF TypeOK, CoreInv
<1>5. GenInv' /\ PinnedMatchesRing'
  BY <1>1 DEF CoreInv, GenInv, PinnedMatchesRing
<1>6. PlacementInv' /\ EvictInv'
  BY <1>1 DEF PlacementInv, SlotsMatchPilots, PlacedInv, NothingForgotten, QueueInv, Solving, EvictInv
<1> QED BY <1>1, <1>2, <1>3, <1>4, <1>5, <1>6 DEF CoreInv

(* A step that only ends the block. *)
LEMMA EndInv ==
    ASSUME CoreInv, pc' \in Ended, remap' \in [Overflow -> AllSlots],
           UNCHANGED <<blockVars, tableVars, pinVars, evictions, pendingHeap, next, attempt>>
    PROVE  CoreInv'
<1>1. BlockInv'
  BY BlockInvKept DEF CoreInv
<1>2. TypeOK'
  BY DEF CoreInv, TypeOK, tableVars, pinVars, blockVars
<1>3. GenInv'
  BY DEF CoreInv, GenInv, tableVars
<1>5. PinnedMatchesRing'
  <2>1. pinned' = pinned /\ pinnedBits' = pinnedBits
    BY DEF pinVars
  <2>2. /\ pinnedBits = {pinned[i] : i \in 0 .. pinnedSize - 1} \ {NoBucket}
        /\ \A i, j \in 0 .. pinnedSize - 1 : pinned[i] = pinned[j] /\ pinned[i] # NoBucket => i = j
    BY DEF CoreInv, PinnedMatchesRing
  <2>3. pc' \notin {"solve", "drain"}
    OBVIOUS
  <2> QED BY <2>1, <2>2, <2>3 DEF PinnedMatchesRing
<1>4. PlacementInv' /\ EvictInv'
  BY DEF PlacementInv, SlotsMatchPilots, PlacedInv, NothingForgotten, QueueInv, Solving, EvictInv
<1> QED BY <1>1, <1>2, <1>3, <1>5, <1>4 DEF CoreInv

LEMMA InitCoreInv ==
    ASSUME Init PROVE CoreInv
<1> USE PtrHashSolverAssumption DEF Init
<1>1. BlockKeys = {}
  BY DEF BlockKeys
<1>2. BlockInv
  BY <1>1 DEF BlockInv
<1>3. 0 \in Pilots /\ 0 \in Buckets /\ 0 \in AllSlots
  BY DEF Pilots, Buckets, AllSlots, maxNumSlots
<1>4. TypeOK
  <2>1. /\ \A b \in Buckets : buckets[b] \subseteq Keys
        /\ slotOf \in [Keys -> [Pilots -> AllSlots]]
        /\ pilots \in [Buckets -> Pilots]
        /\ slotOwner \in [AllSlots -> Buckets]
        /\ remap \in [Overflow -> AllSlots]
    BY <1>3
  <2>2. /\ generation \in 1 .. genLimit - 1
        /\ slotGen \in [AllSlots -> 0 .. genLimit - 1]
        /\ processedGen \in [Buckets -> 0 .. genLimit - 1]
        /\ pinned \in [0 .. pinnedSize - 1 -> Buckets \cup {NoBucket}]
        /\ pinnedIdx \in 0 .. pinnedSize - 1 /\ pinnedBits \subseteq Buckets
        /\ evictions \in Nat /\ pendingHeap \subseteq Buckets
        /\ next \in 1 .. numBuckets + 1 /\ attempt \in 0 .. maxGlobalRetries - 1
    OBVIOUS
  <2> QED BY <2>1, <2>2 DEF TypeOK
<1>5. GenInv
  BY DEF GenInv
<1>6. PlacementInv /\ EvictInv
  BY DEF PlacementInv, SlotsMatchPilots, PlacedInv, NothingForgotten, QueueInv, Solving, EvictInv
<1>7. PinnedMatchesRing
  <2>1. {pinned[i] : i \in 0 .. pinnedSize - 1} \ {NoBucket} = {}
    OBVIOUS
  <2> QED BY <2>1 DEF PinnedMatchesRing
<1> QED BY <1>2, <1>4, <1>5, <1>6, <1>7 DEF CoreInv

--------------------------------------------------------------------------------
(* buildRemap: as many holes as overflow slots in use. *)

SlotOfKey(k) == slotOf[k][pilots[BucketOf(k)]]
Holes == {s \in 0 .. numKeys - 1 : ~Taken(s)}
Used == {o \in numKeys .. numSlots - 1 : Taken(o)}

(* Every key of the block is in one bucket. *)
LEMMA BucketOfKey ==
    ASSUME BlockInv, NEW k \in BlockKeys
    PROVE  /\ BucketOf(k) \in Buckets /\ k \in buckets[BucketOf(k)] /\ k \in Keys
           /\ \A b \in Buckets : k \in buckets[b] => b = BucketOf(k)
<1>1. \E b \in Buckets : k \in buckets[b]
  BY DEF BlockKeys
<1>2. BucketOf(k) \in Buckets /\ k \in buckets[BucketOf(k)]
  BY <1>1 DEF BucketOf
<1> QED BY <1>2 DEF BlockInv

(* When solve has come to the end of bucketOrder, every bucket is placed. *)
LEMMA AllPlaced ==
    ASSUME CoreInv, pc = "solve", next > numBuckets
    PROVE  \A b \in Buckets : isProcessed(b)
<1>1. next = numBuckets + 1 /\ numBuckets \in Nat
  BY PtrHashSolverAssumption DEF CoreInv, TypeOK
<1>2. TAKE b \in Buckets
<1>3. PICK i \in 1 .. numBuckets : b = bucketOrder[i]
  BY OrderListsBuckets DEF CoreInv, BlockInv
<1>4. i \in 1 .. next - 1
  BY <1>1
<1>5. isProcessed(bucketOrder[i]) # (bucketOrder[i] \in pendingHeap)
  BY <1>4 DEF CoreInv, PlacementInv, NothingForgotten
<1>6. pendingHeap = {}
  BY DEF CoreInv, PlacementInv, QueueInv
<1> QED BY <1>3, <1>5, <1>6 DEF isProcessed

(* Then the keys have the taken slots to themselves, one each. *)
LEMMA KeysTakeSlots ==
    ASSUME CoreInv, pc = "solve", next > numBuckets
    PROVE  /\ \A k \in BlockKeys : /\ SlotOfKey(k) \in AllSlots /\ Taken(SlotOfKey(k))
                                    /\ SlotOfKey(k) < numSlots
           /\ \A k, m \in BlockKeys : SlotOfKey(k) = SlotOfKey(m) => k = m
           /\ \A s \in AllSlots : Taken(s) => \E k \in BlockKeys : s = SlotOfKey(k)
<1> USE DEF CoreInv
<1>1. \A b \in Buckets : isProcessed(b) /\ pilots[b] \in Pilots
  BY AllPlaced DEF TypeOK
<1>2. /\ \A s \in AllSlots : Taken(s) => s \in SlotsOf(slotOwner[s], pilots[slotOwner[s]])
      /\ \A s \in AllSlots : \A b \in Buckets :
            isProcessed(b) /\ s \in SlotsOf(b, pilots[b]) => Taken(s) /\ slotOwner[s] = b
  BY DEF PlacementInv, SlotsMatchPilots
<1>3. ASSUME NEW k \in BlockKeys
      PROVE  /\ SlotOfKey(k) \in AllSlots /\ Taken(SlotOfKey(k)) /\ SlotOfKey(k) < numSlots
             /\ slotOwner[SlotOfKey(k)] = BucketOf(k)
  <2>1. PICK b \in Buckets : b = BucketOf(k) /\ k \in buckets[b]
    BY BucketOfKey
  <2>2. SlotOfKey(k) \in SlotsOf(b, pilots[b])
    BY <2>1 DEF SlotOfKey, SlotsOf
  <2>3. SlotOfKey(k) \in AllSlots /\ SlotOfKey(k) < numSlots
    BY <1>1, <2>2, SlotsInTable
  <2> QED BY <1>1, <1>2, <2>1, <2>2, <2>3
<1>4. ASSUME NEW k \in BlockKeys, NEW m \in BlockKeys, SlotOfKey(k) = SlotOfKey(m)
      PROVE  k = m
  <2>1. PICK b \in Buckets : b = BucketOf(k) /\ k \in buckets[b]
    BY BucketOfKey
  <2>2. b = BucketOf(m) /\ m \in buckets[b]
    BY <1>3, <1>4, <2>1, BucketOfKey
  <2> DEFINE p == pilots[b]
             f == [x \in buckets[b] |-> slotOf[x][p]]
  <2>3. f \in Surjection(buckets[b], SlotsOf(b, p))
    BY DEF Surjection, SlotsOf
  <2>4. IsFiniteSet(buckets[b])
    BY Finiteness DEF BlockInv
  <2>5. Cardinality(buckets[b]) = Cardinality(SlotsOf(b, p))
    BY <1>1 DEF PlacementInv, PlacedInv, Solving, bucketSize
  <2>6. f[k] = f[m]
    BY <1>4, <2>1, <2>2 DEF SlotOfKey
  <2>7. f \in Injection(buckets[b], SlotsOf(b, p))
    <3> HIDE DEF f, p
    <3> QED BY <2>3, <2>4, <2>5, FS_SurjSameCardinalityImpliesInj
  <2>8. IsInjective(f) /\ DOMAIN f = buckets[b]
    BY <2>7 DEF Injection
  <2> HIDE DEF f
  <2> QED BY <2>1, <2>2, <2>6, <2>8 DEF IsInjective
<1>5. ASSUME NEW s \in AllSlots, Taken(s) PROVE \E k \in BlockKeys : s = SlotOfKey(k)
  <2>1. PICK b \in Buckets : b = slotOwner[s]
    BY DEF TypeOK
  <2>2. s \in SlotsOf(b, pilots[b])
    BY <1>2, <1>5, <2>1
  <2>3. PICK k \in buckets[b] : s = slotOf[k][pilots[b]]
    BY <2>2 DEF SlotsOf
  <2>4. k \in BlockKeys
    BY <2>3 DEF BlockKeys
  <2>5. b = BucketOf(k)
    BY <2>3, <2>4, BucketOfKey
  <2> QED BY <2>3, <2>4, <2>5 DEF SlotOfKey
<1> QED BY <1>3, <1>4, <1>5

(* So buildRemap never runs out of holes. *)
LEMMA EnoughHoles ==
    ASSUME CoreInv, pc = "solve", next > numBuckets
    PROVE  /\ IsFiniteSet(Holes) /\ IsFiniteSet(Used)
           /\ Cardinality(Holes) = Cardinality(Used)
           /\ Holes \subseteq Nat /\ Used \subseteq Nat
<1> USE PtrHashSolverAssumption
<1> DEFINE n == numKeys
           low == {s \in 0 .. n - 1 : Taken(s)}
           all == {s \in AllSlots : Taken(s)}
           g == [k \in BlockKeys |-> SlotOfKey(k)]
<1>1. /\ n \in Nat /\ n <= MaxKeys /\ IsFiniteSet(BlockKeys) /\ IsFiniteSet(AllSlots)
      /\ numSlots = n + overflow
  BY Finiteness DEF CoreInv, BlockInv, numSlots
<1>2. all = low \cup Used
  <2>1. low \subseteq all
    BY <1>1 DEF AllSlots, maxNumSlots
  <2>2. Used \subseteq all
    BY <1>1 DEF AllSlots, maxNumSlots, Used
  <2>3. ASSUME NEW s \in all PROVE s \in low \cup Used
    <3>1. s \in Nat /\ Taken(s)
      BY DEF AllSlots
    <3>2. s < numSlots
      BY <2>3, KeysTakeSlots
    <3> HIDE DEF n
    <3> QED BY <1>1, <3>1, <3>2 DEF Used, n
  <2> QED BY <2>1, <2>2, <2>3
<1>3. low \cap Used = {}
  BY <1>1 DEF Used
<1>4. IsFiniteSet(all) /\ IsFiniteSet(low) /\ IsFiniteSet(Used)
  <2>1. all \in SUBSET AllSlots
    OBVIOUS
  <2>2. IsFiniteSet(all)
    BY <1>1, <2>1, FS_Subset
  <2>3. low \in SUBSET all /\ Used \in SUBSET all
    BY <1>2
  <2> HIDE DEF all, low
  <2> QED BY <2>2, <2>3, FS_Subset
<1>5. Cardinality(all) = n
  <2>1. g \in Surjection(BlockKeys, all)
    BY KeysTakeSlots DEF Surjection
  <2>2. g \in Injection(BlockKeys, all)
    BY KeysTakeSlots DEF Injection, IsInjective
  <2> HIDE DEF g, all
  <2>3. Cardinality(all) = Cardinality(BlockKeys)
    BY <1>1, <2>1, <2>2, FS_Surjection
  <2> QED BY <2>3 DEF numKeys
<1>6. Cardinality(all) = Cardinality(low) + Cardinality(Used)
  <2> HIDE DEF all, low
  <2>1. Cardinality(low \cup Used) = Cardinality(low) + Cardinality(Used) - Cardinality(low \cap Used)
    BY <1>4, FS_Union
  <2>2. Cardinality(low \cap Used) = 0
    BY <1>3, FS_EmptySet
  <2>3. Cardinality(low) \in Nat /\ Cardinality(Used) \in Nat
    BY <1>4, FS_CardinalityType
  <2> QED BY <1>2, <2>1, <2>2, <2>3
<1>7. Cardinality(Holes) = n - Cardinality(low) /\ IsFiniteSet(Holes)
  <2>1. Holes = (0 .. n - 1) \ low
    BY DEF Holes
  <2>2. (0 .. n - 1) \cap low = low
    OBVIOUS
  <2>3. n - 1 \in Int
    BY <1>1
  <2>4. IsFiniteSet(0 .. n - 1) /\ Cardinality(0 .. n - 1) = n
    BY <1>1, <2>3, FS_Interval
  <2> HIDE DEF n, low
  <2> QED BY <2>1, <2>2, <2>4, FS_Difference
<1>8. Holes \subseteq Nat /\ Used \subseteq Nat
  BY <1>1 DEF Holes, Used
<1>9. Cardinality(low) \in Nat /\ Cardinality(Used) \in Nat
  BY <1>4, FS_CardinalityType
<1> HIDE DEF low, all, n
<1>10. Cardinality(Holes) = Cardinality(Used)
  <2>1. n = Cardinality(low) + Cardinality(Used)
    BY <1>5, <1>6
  <2>2. Cardinality(Holes) = n - Cardinality(low)
    BY <1>7
  <2> QED BY ONLY <1>9, <2>1, <2>2
<1> QED BY <1>4, <1>7, <1>8, <1>10

LessRel == {t \in Nat \X Nat : t[1] < t[2]}

LEMMA LessOrders ==
    ASSUME NEW S \in SUBSET Nat
    PROVE  /\ StrictOrder(S, LessRel)
           /\ \A x \in S : {y \in S : <<y, x>> \in LessRel} = {y \in S : y < x}
<1>1. \A x, y \in S : <<x, y>> \in LessRel <=> x < y
  BY DEF LessRel
<1>2. S \subseteq Int
  OBVIOUS
<1>3. StrictOrder(S, LessRel)
  BY <1>1, <1>2 DEF StrictOrder
<1> QED BY <1>1, <1>3

(* The overflow slots in use are mapped onto the holes. *)
LEMMA HoleForFillsHoles ==
    ASSUME CoreInv, pc = "solve", next > numBuckets
    PROVE  /\ \A o \in Used : HoleFor(o, Holes) \in Holes
           /\ \A h \in Holes : \E o \in Used : HoleFor(o, Holes) = h
<1> USE PtrHashSolverAssumption
<1> DEFINE rankH(x) == Rank(x, Holes, LessRel)
           rankU(x) == Rank(x, Used, LessRel)
           N == Cardinality(Used)
<1>1. /\ IsFiniteSet(Holes) /\ IsFiniteSet(Used) /\ Cardinality(Holes) = N
      /\ Holes \in SUBSET Nat /\ Used \in SUBSET Nat
  BY EnoughHoles
<1>2. /\ \A x, y \in Holes : rankH(x) = rankH(y) => x = y
      /\ \A x \in Holes : rankH(x) \in 0 .. N - 1
      /\ \A i \in 0 .. N - 1 : \E x \in Holes : rankH(x) = i
  <2>1. StrictOrder(Holes, LessRel) /\ IsFiniteSet(Holes)
    BY <1>1, LessOrders
  <2>2. /\ \A x \in Holes : rankH(x) \in 0 .. Cardinality(Holes) - 1
        /\ \A x, y \in Holes : <<x, y>> \in LessRel => rankH(x) < rankH(y)
        /\ \A x, y \in Holes : rankH(x) = rankH(y) => x = y
        /\ \A i \in 0 .. Cardinality(Holes) - 1 : \E x \in Holes : rankH(x) = i
    BY ONLY <2>1, Ranks
  <2> HIDE DEF rankH, N
  <2> QED BY <1>1, <2>2
<1>3. /\ \A x \in Used : rankU(x) \in 0 .. N - 1
      /\ \A i \in 0 .. N - 1 : \E x \in Used : rankU(x) = i
  <2>1. StrictOrder(Used, LessRel) /\ IsFiniteSet(Used)
    BY <1>1, LessOrders
  <2>2. /\ \A x \in Used : rankU(x) \in 0 .. N - 1
        /\ \A x, y \in Used : <<x, y>> \in LessRel => rankU(x) < rankU(y)
        /\ \A x, y \in Used : rankU(x) = rankU(y) => x = y
        /\ \A i \in 0 .. N - 1 : \E x \in Used : rankU(x) = i
    BY ONLY <2>1, Ranks
  <2> HIDE DEF rankU, N
  <2> QED BY <2>2
<1>4. ASSUME NEW h \in Holes PROVE Cardinality({g \in Holes : g < h}) = rankH(h)
  <2>1. {y \in Holes : <<y, h>> \in LessRel} = {y \in Holes : y < h}
    BY <1>1, LessOrders
  <2> QED BY <2>1 DEF Rank
<1>5. ASSUME NEW o \in Used PROVE Cardinality({t \in numKeys .. o - 1 : Taken(t)}) = rankU(o)
  <2>1. {y \in Used : <<y, o>> \in LessRel} = {y \in Used : y < o}
    BY <1>1, LessOrders
  <2>2. numKeys \in Nat /\ numSlots \in Nat
    BY Finiteness DEF CoreInv, BlockInv
  <2>3. o \in Nat /\ o < numSlots
    BY <1>1, <2>2 DEF Used
  <2>4. {t \in numKeys .. o - 1 : Taken(t)} = {y \in Used : y < o}
    <3>1. \A t : t \in numKeys .. o - 1 <=> t \in numKeys .. numSlots - 1 /\ t < o
      BY <2>2, <2>3
    <3> QED BY <3>1 DEF Used
  <2> QED BY <2>1, <2>4 DEF Rank
<1> HIDE DEF rankH, rankU, N
<1>6. ASSUME NEW o \in Used
      PROVE  HoleFor(o, Holes) \in Holes /\ rankH(HoleFor(o, Holes)) = rankU(o)
  <2> DEFINE P(h) == Cardinality({g \in Holes : g < h}) = rankU(o)
  <2>1. PICK x \in Holes : rankH(x) = rankU(o)
    BY <1>2, <1>3
  <2>2. P(x)
    BY <1>4, <2>1
  <2>3. HoleFor(o, Holes) = CHOOSE h \in Holes : P(h)
    BY <1>5 DEF HoleFor
  <2> HIDE DEF P
  <2>4. HoleFor(o, Holes) \in Holes /\ P(HoleFor(o, Holes))
    BY <2>2, <2>3
  <2> QED BY <1>4, <2>4 DEF P
<1>7. ASSUME NEW h \in Holes PROVE \E o \in Used : HoleFor(o, Holes) = h
  <2>1. PICK o \in Used : rankU(o) = rankH(h)
    BY <1>2, <1>3
  <2> QED BY <1>2, <1>6, <2>1
<1> QED BY <1>6, <1>7

--------------------------------------------------------------------------------
(* What a query reads from the metadata. *)

(* The bytes QuerySlot needs for a slot beyond the keys. *)
RemapEnd == numBuckets + remapTableHeaderSize + overflow * remapTableEntrySize

(* The metadata of a block without keys is never looked at. *)
LEMMA EmptyAnswers ==
    \A b, hash, len : QuerySlot(b, hash, 0, len) = NotFound
BY DEF QuerySlot

LEMMA EmptyAnswersNext ==
    (\A b, hash, len : QuerySlot(b, hash, 0, len) = NotFound)'
BY EmptyAnswers, PTL

(* buildRemap ends with a block that is hashed perfectly. *)
LEMMA BuildRemapInv ==
    ASSUME CoreInv, BuildRemap
    PROVE  CoreInv' /\ pc' = "done" /\ MinimalPerfect' /\ QueriesStayInBlock'
<1> USE PtrHashSolverAssumption
<1>1. /\ pc = "solve" /\ next > numBuckets
      /\ UNCHANGED <<blockVars, tableVars, pinVars, evictions, pendingHeap, next, attempt>>
  BY DEF BuildRemap
<1>2. /\ buckets' = buckets /\ slotOf' = slotOf /\ pilots' = pilots
      /\ BlockKeys' = BlockKeys /\ numKeys' = numKeys
  BY <1>1, BlockKept DEF blockVars, tableVars
<1>3. PICK n \in Nat : n = numKeys
  BY Finiteness DEF CoreInv, BlockInv
<1>4. n # 0 /\ n <= MaxKeys /\ numSlots = n + overflow
  <2>1. BlockKeys # {} /\ IsFiniteSet(BlockKeys)
    BY <1>1, Finiteness DEF CoreInv, BlockInv
  <2> QED BY <1>3, <2>1, FS_EmptySet, Finiteness DEF numKeys, numSlots, CoreInv, BlockInv
<1>5. /\ remap' = [i \in Overflow |->
                      IF n + i \in Used THEN HoleFor(n + i, Holes) ELSE RemapCleared[i]]
      /\ pc' = "done"
  <2>1. Cardinality(Holes) = Cardinality(Used) /\ Cardinality(Used) \in Nat
    BY <1>1, EnoughHoles, FS_CardinalityType
  <2>2. ~(Cardinality(Used) > Cardinality(Holes))
    BY <2>1
  <2> QED BY <1>3, <2>2 DEF BuildRemap, Used, Holes
<1>6. /\ \A o \in Used : HoleFor(o, Holes) \in Holes
      /\ \A h \in Holes : \E o \in Used : HoleFor(o, Holes) = h
  BY <1>1, HoleForFillsHoles
<1>7. ASSUME NEW i \in Overflow
      PROVE  /\ n + i \in Used => remap'[i] = HoleFor(n + i, Holes)
             /\ remap'[i] \in 0 .. n - 1
  <2>1. Holes \subseteq 0 .. n - 1
    BY <1>3 DEF Holes
  <2>2. CASE n + i \in Used
    BY <1>5, <1>6, <2>1, <2>2
  <2>3. CASE n + i \notin Used
    <3>1. remap'[i] = 0
      BY <1>5, <2>3 DEF RemapCleared
    <3> QED BY <1>4, <2>3, <3>1
  <2> QED BY <2>2, <2>3
<1>8. remap' \in [Overflow -> AllSlots]
  <2>1. 0 .. n - 1 \subseteq AllSlots
    BY <1>4 DEF AllSlots, maxNumSlots
  <2> QED BY <1>5, <1>7, <2>1
<1>9. CoreInv'
  BY <1>1, <1>5, <1>8, EndInv
<1>10. PICK len \in Nat : len = metadataLenOf(n) /\ len = RemapEnd /\ ~(len < numBuckets)
  BY <1>4 DEF metadataLenOf, RemapEnd, remapTableHeaderSize, remapTableEntrySize
<1> DEFINE slotFor(s, l) == IF l < numBuckets THEN Corrupted
                            ELSE IF s < n THEN s
                            ELSE IF l < RemapEnd THEN Corrupted ELSE remap'[s - n]
<1>11. ASSUME NEW b, NEW hash, NEW s \in Nat, hash[pilots[b]] = s, s < n + overflow, NEW l \in Nat
       PROVE  QuerySlot(b, hash, n, l)' = slotFor(s, l)
  <2>1. hash[pilots'[b]] = s /\ n \in Nat \ {0}
    BY <1>2, <1>4, <1>11
  <2>2. RemapTooShort(l)' <=> l < RemapEnd
    BY DEF RemapTooShort, RemapEnd, remapTableHeaderSize, remapTableEntrySize
  <2>3. ASSUME ~(s < n), ~(l < RemapEnd) PROVE lookupRemap(s - n, l)' = remap'[s - n]
    <3>1. numBuckets + remapTableHeaderSize + (s - n) * remapTableEntrySize
            + remapTableEntrySize <= l
      BY <1>4, <1>11, <2>3 DEF RemapEnd, remapTableHeaderSize, remapTableEntrySize
    <3> QED BY <3>1 DEF lookupRemap
  <2> QED BY <2>1, <2>2, <2>3 DEF QuerySlot
<1>12. MinimalPerfect'
  <2> DEFINE answer(k) == IF SlotOfKey(k) < n THEN SlotOfKey(k) ELSE HoleFor(SlotOfKey(k), Holes)
  <2>1. /\ \A k \in BlockKeys : /\ SlotOfKey(k) \in AllSlots /\ Taken(SlotOfKey(k))
                                 /\ SlotOfKey(k) < numSlots
        /\ \A s \in AllSlots : Taken(s) => \E k \in BlockKeys : s = SlotOfKey(k)
    BY <1>1, KeysTakeSlots
  <2>2. ASSUME NEW k \in BlockKeys
        PROVE  QuerySlot(BucketOf(k), slotOf[k], n, metadataLenOf(n))' = answer(k)
    <3>1. PICK b : b = BucketOf(k)
      OBVIOUS
    <3>2. PICK hash : hash = slotOf[k]
      OBVIOUS
    <3>3. PICK s \in Nat : s = SlotOfKey(k) /\ s < n + overflow /\ Taken(s)
      BY <1>4, <2>1 DEF AllSlots
    <3>4. hash[pilots[b]] = s
      BY <3>1, <3>2, <3>3 DEF SlotOfKey
    <3>5. QuerySlot(b, hash, n, len)'
            = IF len < numBuckets THEN Corrupted
              ELSE IF s < n THEN s ELSE IF len < RemapEnd THEN Corrupted ELSE remap'[s - n]
      BY <1>11, <3>3, <3>4
    <3>6. QuerySlot(b, hash, n, len)' = IF s < n THEN s ELSE remap'[s - n]
      <4>1. ~(len < RemapEnd)
        BY <1>10
      <4> QED BY <1>10, <3>5, <4>1
    <3>7. ASSUME ~(s < n) PROVE remap'[s - n] = HoleFor(s, Holes)
      <4>1. PICK i \in Overflow : s = n + i /\ i = s - n
        BY <3>3, <3>7 DEF Overflow
      <4>2. n + i \in Used
        BY <1>3, <1>4, <3>3, <3>7, <4>1 DEF Used
      <4> QED BY <1>7, <4>1, <4>2
    <3>8. QuerySlot(b, hash, n, len)' = answer(k)
      BY <3>3, <3>6, <3>7
    <3>9. BucketOf(k)' = b /\ slotOf'[k] = hash /\ metadataLenOf(n) = len
      BY <1>2, <1>10, <3>1, <3>2 DEF BucketOf
    <3> QED BY <3>8, <3>9 DEF QuerySlot, RemapTooShort, lookupRemap, metadataLenOf
  <2>3. {answer(k) : k \in BlockKeys} = 0 .. n - 1
    <3>1. ASSUME NEW k \in BlockKeys PROVE answer(k) \in 0 .. n - 1
      <4>1. SlotOfKey(k) \in Nat /\ Taken(SlotOfKey(k)) /\ SlotOfKey(k) < n + overflow
        BY <1>4, <2>1 DEF AllSlots
      <4>2. ASSUME ~(SlotOfKey(k) < n) PROVE SlotOfKey(k) \in Used
        BY <1>3, <1>4, <4>1, <4>2 DEF Used
      <4>3. Holes \subseteq 0 .. n - 1
        BY <1>3 DEF Holes
      <4>4. CASE SlotOfKey(k) < n
        BY <4>1, <4>4
      <4>5. CASE ~(SlotOfKey(k) < n)
        BY <1>6, <4>2, <4>3, <4>5
      <4> QED BY <4>4, <4>5
    <3>2. ASSUME NEW r \in 0 .. n - 1 PROVE \E k \in BlockKeys : answer(k) = r
      <4>1. r \in AllSlots /\ r < n
        BY <1>4 DEF AllSlots, maxNumSlots
      <4>2. CASE Taken(r)
        BY <2>1, <4>1, <4>2
      <4>3. CASE ~Taken(r)
        <5>1. r \in Holes
          BY <1>3, <4>3 DEF Holes
        <5>2. PICK o \in Used : HoleFor(o, Holes) = r
          BY <1>6, <5>1
        <5>3. o \in AllSlots /\ Taken(o) /\ ~(o < n)
          BY <1>3, <1>4 DEF Used, AllSlots, maxNumSlots
        <5> QED BY <2>1, <5>2, <5>3
      <4> QED BY <4>2, <4>3
    <3> HIDE DEF answer
    <3> QED BY <3>1, <3>2
  <2> HIDE DEF answer
  <2>4. {QuerySlot(BucketOf(k), slotOf[k], n, metadataLenOf(n))' : k \in BlockKeys} = 0 .. n - 1
    BY <2>2, <2>3
  <2>5. numKeys' = n /\ BlockKeys' = BlockKeys
    BY <1>2, <1>3
  <2> QED BY <1>5, <2>4, <2>5 DEF MinimalPerfect
<1>13. QueriesStayInBlock'
  <2>1. ASSUME NEW b \in Buckets, NEW s \in 0 .. n + overflow - 1, NEW l \in Nat
        PROVE  QuerySlot(b, [p \in Pilots |-> s], n, l)' = slotFor(s, l)
    <3>1. PICK hash : hash = [p \in Pilots |-> s]
      OBVIOUS
    <3>2. hash[pilots[b]] = s
      BY <3>1 DEF CoreInv, TypeOK
    <3>3. s \in Nat /\ s < n + overflow
      <4>1. n \in Int /\ overflow \in Int
        BY <1>3
      <4> QED BY ONLY <4>1, s \in 0 .. n + overflow - 1
    <3> HIDE DEF slotFor
    <3>4. QuerySlot(b, hash, n, l)' = slotFor(s, l)
      BY ONLY <1>11, <3>2, <3>3, l \in Nat
    <3> QED BY <3>1, <3>4
  <2>2. ASSUME NEW b \in Buckets, NEW s \in 0 .. n + overflow - 1
        PROVE  /\ QuerySlot(b, [p \in Pilots |-> s], n, len)' \in 0 .. n - 1
               /\ \A l \in 0 .. len : QuerySlot(b, [p \in Pilots |-> s], n, l)'
                                         \in {Corrupted, QuerySlot(b, [p \in Pilots |-> s], n, len)'}
    <3> DEFINE intact == IF s < n THEN s ELSE remap'[s - n]
    <3>1. QuerySlot(b, [p \in Pilots |-> s], n, len)' = intact
      <4>1. ~(len < RemapEnd)
        BY <1>10
      <4> QED BY <1>10, <2>1, <4>1
    <3>2. intact \in 0 .. n - 1
      <4>1. CASE s < n
        BY <4>1
      <4>2. CASE ~(s < n)
        <5>1. s - n \in Overflow
          BY <4>2 DEF Overflow
        <5> QED BY <1>7, <4>2, <5>1
      <4> QED BY <4>1, <4>2
    <3>3. ASSUME NEW l \in 0 .. len
          PROVE  QuerySlot(b, [p \in Pilots |-> s], n, l)' \in {Corrupted, intact}
      <4>1. l \in Nat
        OBVIOUS
      <4> QED BY <2>1, <4>1
    <3> HIDE DEF intact
    <3> QED BY <3>1, <3>2, <3>3
  <2>3. numKeys' = n /\ metadataLenOf(n) = len
    BY <1>2, <1>3, <1>10
  <2>4. \A b \in Buckets : \A s \in 0 .. n + overflow - 1 :
             /\ QuerySlot(b, [p \in Pilots |-> s], n, len)' \in IF n = 0 THEN {NotFound} ELSE 0 .. n - 1
             /\ \A l \in 0 .. len : QuerySlot(b, [p \in Pilots |-> s], n, l)'
                                       \in {Corrupted, QuerySlot(b, [p \in Pilots |-> s], n, len)'}
    BY <1>4, <2>2
  <2> QED BY <2>3, <2>4, ZenonT(40) DEF QueriesStayInBlock
<1> QED BY <1>5, <1>9, <1>12, <1>13

--------------------------------------------------------------------------------
(* The theorems. *)

LEMMA InitSolverInv ==
    Init => SolverInv
<1>1. Init => CoreInv
  BY InitCoreInv
<1>2. Init => pc = "idle"
  BY DEF Init
<1> QED BY <1>1, <1>2 DEF SolverInv, MinimalPerfect, QueriesStayInBlock

LEMMA NextSolverInv ==
    SolverInv /\ [Next]_vars => SolverInv'
<1> SUFFICES ASSUME SolverInv, [Next]_vars PROVE SolverInv'
  OBVIOUS
<1>0. CoreInv
  BY DEF SolverInv
<1>1. ASSUME CoreInv', pc' \in {"idle", "solve", "drain", "limit"} \cup Failures PROVE SolverInv'
  BY <1>1 DEF SolverInv, MinimalPerfect, QueriesStayInBlock
<1>2. CASE SolveBlock
  BY <1>0, <1>1, <1>2, SolveBlockInv
<1>3. CASE BuildEmpty
  <2>1. CoreInv' /\ pc' = "done" /\ BlockKeys' = {}
    BY <1>0, <1>3, BuildEmptyInv
  <2>2. numKeys' = 0
    BY <2>1, FS_EmptySet DEF numKeys
  <2>3. MinimalPerfect'
    <3>1. {QuerySlot(BucketOf(k), slotOf[k], 0, metadataLenOf(0))' : k \in BlockKeys'} = 0 .. 0 - 1
      BY <2>1
    <3> QED BY <2>1, <2>2, <3>1 DEF MinimalPerfect
  <2>4. QueriesStayInBlock'
    <3>1. \A b, hash, len : QuerySlot(b, hash, 0, len)' = NotFound
      BY EmptyAnswersNext DEF NotFound
    <3> QED BY <2>2, <3>1 DEF QueriesStayInBlock
  <2> QED BY <2>1, <2>3, <2>4 DEF SolverInv
<1>4. CASE BuildOverflow
  <2>1. pc' = "failed" /\ remap' = remap
        /\ UNCHANGED <<blockVars, tableVars, pinVars, evictions, pendingHeap, next, attempt>>
    BY <1>4 DEF BuildOverflow
  <2>2. remap' \in [Overflow -> AllSlots]
    BY <1>0, <2>1 DEF CoreInv, TypeOK
  <2>3. CoreInv'
    BY <1>0, <2>1, <2>2, EndInv
  <2> QED BY <1>1, <2>1, <2>3
<1>5. CASE Retry
  BY <1>0, <1>1, <1>5, RetryInv
<1>6. CASE ProcessNext
  BY <1>0, <1>1, <1>6, ProcessNextInv
<1>7. CASE DrainHeap
  BY <1>0, <1>1, <1>7, DrainHeapInv
<1>8. CASE BuildRemap
  BY <1>0, <1>8, BuildRemapInv DEF SolverInv
<1>9. CASE UNCHANGED vars
  <2>1. /\ buckets' = buckets /\ slotOf' = slotOf /\ solved' = solved /\ pilots' = pilots
        /\ slotOwner' = slotOwner /\ slotGen' = slotGen /\ processedGen' = processedGen
        /\ generation' = generation /\ pinned' = pinned /\ pinnedIdx' = pinnedIdx
        /\ pinnedBits' = pinnedBits /\ evictions' = evictions /\ pendingHeap' = pendingHeap
        /\ next' = next /\ attempt' = attempt /\ pc' = pc /\ remap' = remap
    BY <1>9 DEF vars, blockVars, tableVars, pinVars
  <2>2. numKeys' = numKeys /\ numSlots' = numSlots /\ BlockKeys' = BlockKeys
        /\ bucketOrder' = bucketOrder /\ maxEvictions' = maxEvictions
    BY <2>1, BlockKept
  <2>3. TypeOK'
    BY <1>0, <2>1 DEF CoreInv, TypeOK
  <2>4. GenInv' /\ BlockInv' /\ EvictInv' /\ PinnedMatchesRing'
    <3>1. UNCHANGED blockVars
      BY <2>1 DEF blockVars
    <3>2. BlockInv'
      BY <1>0, <2>1, <3>1, BlockInvKept DEF CoreInv
    <3>3. GenInv' /\ EvictInv'
      BY <1>0, <2>1, <2>2 DEF CoreInv, GenInv, EvictInv
    <3>4. PinnedMatchesRing'
      BY <1>0, <2>1 DEF CoreInv, PinnedMatchesRing, isProcessed
    <3> QED BY <3>2, <3>3, <3>4
  <2>5. SlotsMatchPilots' /\ PlacedInv'
    BY <1>0, <2>1 DEF CoreInv, PlacementInv, SlotsMatchPilots, PlacedInv, Solving, isProcessed,
                      Taken, SlotsOf, bucketSize
  <2>6. NothingForgotten' /\ QueueInv'
    BY <1>0, <2>1, <2>2 DEF CoreInv, PlacementInv, NothingForgotten, QueueInv, Solving, isProcessed
  <2>7. MinimalPerfect' /\ QueriesStayInBlock'
    <3>1. \A b, hash, n, len : QuerySlot(b, hash, n, len)' = QuerySlot(b, hash, n, len)
      BY <2>1 DEF QuerySlot, RemapTooShort, lookupRemap
    <3>2. \A k : BucketOf(k)' = BucketOf(k) /\ slotOf'[k] = slotOf[k]
      BY <2>1 DEF BucketOf
    <3>3. ASSUME NEW k, NEW n
          PROVE  QuerySlot(BucketOf(k), slotOf[k], n, metadataLenOf(n))'
                   = QuerySlot(BucketOf(k), slotOf[k], n, metadataLenOf(n))
      <4>1. PICK b : b = BucketOf(k)
        OBVIOUS
      <4>2. PICK hash : hash = slotOf[k]
        OBVIOUS
      <4>3. QuerySlot(b, hash, n, metadataLenOf(n))' = QuerySlot(b, hash, n, metadataLenOf(n))
        BY <3>1
      <4> QED BY <3>2, <4>1, <4>2, <4>3 DEF QuerySlot, RemapTooShort, lookupRemap, metadataLenOf
    <3>4. PICK n : n = numKeys
      OBVIOUS
    <3>5. MinimalPerfect'
      <4>1. MinimalPerfect
        BY DEF SolverInv
      <4>2. CASE pc # "done"
        BY <2>1, <4>1, <4>2 DEF MinimalPerfect
      <4>3. CASE pc = "done"
        <5>1. {QuerySlot(BucketOf(k), slotOf[k], n, metadataLenOf(n)) : k \in BlockKeys} = 0 .. n - 1
          BY <3>4, <4>1, <4>3 DEF MinimalPerfect
        <5>2. {QuerySlot(BucketOf(k), slotOf[k], n, metadataLenOf(n))' : k \in BlockKeys} = 0 .. n - 1
          BY <3>3, <5>1
        <5> QED BY <2>1, <2>2, <3>4, <4>3, <5>2 DEF MinimalPerfect
      <4> QED BY <4>2, <4>3
    <3>6. QueriesStayInBlock'
      BY <2>1, <2>2, <3>1 DEF SolverInv, QueriesStayInBlock, metadataLenOf
    <3> QED BY <3>5, <3>6
  <2> QED BY <2>3, <2>4, <2>5, <2>6, <2>7 DEF SolverInv, CoreInv, PlacementInv
<1>10. CASE Finished
  BY <1>9, <1>10 DEF Finished
<1> QED BY <1>2, <1>3, <1>4, <1>5, <1>6, <1>7, <1>8, <1>9, <1>10 DEF Next, Step

LEMMA SolverInvariant == Spec => []SolverInv
BY InitSolverInv, NextSolverInv, PTL DEF Spec

(* The solver's tables keep their types for any number of blocks: in particular the
   generation, and the mark one above it, stay within a byte. *)
THEOREM SolverTypeCorrect == Spec => []TypeOK
<1>1. SolverInv => TypeOK
  BY DEF SolverInv, CoreInv
<1> QED BY <1>1, SolverInvariant, PTL

(* The taken slots are exactly those of the placed buckets, through every eviction and
   every generation. *)
THEOREM EvictionsExact == Spec => []SlotsMatchPilots
<1>1. SolverInv => SlotsMatchPilots
  BY DEF SolverInv, CoreInv, PlacementInv
<1> QED BY <1>1, SolverInvariant, PTL

(* solve forgets no evicted bucket and queues none twice. *)
THEOREM SolveForgetsNothing == Spec => []NothingForgotten
<1>1. SolverInv => NothingForgotten
  BY DEF SolverInv, CoreInv, PlacementInv
<1> QED BY <1>1, SolverInvariant, PTL

(* isPinned reads the ring: a pinned bucket is placed and is not evicted. *)
THEOREM PinsExact == Spec => []PinnedMatchesRing
<1>1. SolverInv => PinnedMatchesRing
  BY DEF SolverInv, CoreInv
<1> QED BY <1>1, SolverInvariant, PTL

(* Whatever the hash, a solved block gives its keys the ranks 0 to n - 1, each once,
   and buildRemap never panics. *)
THEOREM SolvedBlocksPerfect == Spec => []MinimalPerfect
<1>1. SolverInv => MinimalPerfect
  BY DEF SolverInv
<1> QED BY <1>1, SolverInvariant, PTL

(* Any key is answered with a slot of the block, also from metadata cut off at any byte. *)
THEOREM QueriesInBounds == Spec => []QueriesStayInBlock
<1>1. SolverInv => QueriesStayInBlock
  BY DEF SolverInv
<1> QED BY <1>1, SolverInvariant, PTL

--------------------------------------------------------------------------------
(* Progress. *)

(* Placing a bucket spends evictions, or leaves one bucket less to place. *)
LEMMA PlacedProgress ==
    ASSUME CoreInv, NEW b \in Buckets, NEW p \in Pilots, NEW evicted \in SUBSET Buckets,
           NEW heap \in SUBSET Buckets, Placed(b, p, evicted, heap), heap = pendingHeap \ {b},
           NEW n \in Nat, next' = n,
           (n = next + 1 /\ pendingHeap = {}) \/ (n = next /\ b \in pendingHeap)
    PROVE  \/ evictions' > evictions
           \/ evictions' = evictions /\ unplaced' < unplaced
<1> USE PtrHashSolverAssumption
<1>1. Cardinality(evicted) \in Nat /\ IsFiniteSet(evicted)
  <2>1. IsFiniteSet(Buckets)
    BY Finiteness DEF CoreInv, BlockInv
  <2>2. IsFiniteSet(evicted)
    BY <2>1, FS_Subset
  <2> QED BY <2>2, FS_CardinalityType
<1>2. evictions \in Nat /\ evictions' = evictions + Cardinality(evicted)
  BY DEF Placed, CoreInv, TypeOK
<1>3. CASE evicted # {}
  <2>1. Cardinality(evicted) # 0
    BY <1>1, <1>3, FS_EmptySet
  <2>2. evictions + Cardinality(evicted) > evictions
    BY <1>1, <1>2, <2>1
  <2> QED BY <1>2, <2>2
<1>4. CASE evicted = {}
  <2>1. evictions' = evictions
    BY <1>2, <1>4, FS_EmptySet
  <2>2. pendingHeap' = heap
    BY <1>4 DEF Placed
  <2>3. next \in Nat /\ numBuckets \in Nat
    BY DEF CoreInv, TypeOK
  <2>4. IsFiniteSet(pendingHeap) /\ Cardinality(pendingHeap) \in Nat
    BY Finiteness, FS_Subset, FS_CardinalityType DEF CoreInv, BlockInv, TypeOK
  <2>5. CASE n = next + 1 /\ pendingHeap = {}
    <3>1. heap = {} /\ Cardinality(heap) = 0 /\ Cardinality(pendingHeap) = 0
      BY <2>5, FS_EmptySet
    <3>2. numBuckets - n + 1 + 0 < numBuckets - next + 1 + 0
      BY <2>3, <2>5
    <3> QED BY <2>1, <2>2, <3>1, <3>2 DEF unplaced
  <2>6. CASE n = next /\ b \in pendingHeap
    <3>1. Cardinality(heap) = Cardinality(pendingHeap) - 1
      BY <2>4, <2>6, FS_RemoveElement
    <3>2. PICK c \in Int : c = Cardinality(heap)
      BY <2>4, <3>1
    <3>3. numBuckets - n + 1 + c < numBuckets - next + 1 + Cardinality(pendingHeap)
      BY <2>3, <2>4, <2>6, <3>1, <3>2
    <3> QED BY <2>1, <2>2, <3>2, <3>3 DEF unplaced
  <2> QED BY <2>5, <2>6
<1> QED BY <1>3, <1>4

(* Processing a bucket fails, or makes progress. *)
LEMMA ProcessBucketProgress ==
    ASSUME CoreInv, Solving, NEW b \in Buckets, ~isProcessed(b), NEW heap \in SUBSET Buckets,
           ProcessBucket(b, heap), heap = pendingHeap \ {b},
           NEW n \in Nat, next' = n,
           (n = next + 1 /\ pendingHeap = {}) \/ (n = next /\ b \in pendingHeap)
    PROVE  \/ pc' \in Failures
           \/ evictions' > evictions /\ evictions' <= maxEvictions + 2 * numBuckets
           \/ evictions' = evictions /\ unplaced' < unplaced
<1>1. CASE Fail(b, heap)
  BY <1>1 DEF Fail, FailuresOf
<1>2. CASE Continue /\ \E p \in Pilots, evicted \in SUBSET Buckets : Placed(b, p, evicted, heap)
  <2>1. PICK p \in Pilots, evicted \in SUBSET Buckets : Placed(b, p, evicted, heap)
    BY <1>2
  <2>2. Cardinality(evicted) \in Nat /\ Cardinality(evicted) <= numBuckets
    BY <2>1, PlacedTypes DEF CoreInv
  <2>3. evictions' = evictions + Cardinality(evicted)
    BY <2>1 DEF Placed
  <2>4. evictions' <= maxEvictions + 2 * numBuckets
    BY <1>2, <2>2, <2>3, ContinueLimits
  <2>5. \/ evictions' > evictions
        \/ evictions' = evictions /\ unplaced' < unplaced
    BY <2>1, PlacedProgress
  <2> QED BY <2>4, <2>5
<1> QED BY <1>1, <1>2, ProcessBucketCases

LEMMA StepProgresses ==
    ASSUME CoreInv, Step
    PROVE  \/ pc' \in Ended
           \/ attempt' > attempt /\ attempt' < maxGlobalRetries
           \/ /\ attempt' = attempt
              /\ \/ evictions' > evictions /\ evictions' <= maxEvictions + 2 * numBuckets
                 \/ evictions' = evictions /\ unplaced' < unplaced
<1> USE PtrHashSolverAssumption
<1>1. CASE Retry
  <2>1. attempt \in Nat
    BY DEF CoreInv, TypeOK
  <2>2. CASE NextAttempt < maxGlobalRetries /\ attempt' = NextAttempt
    <3>1. attempt + 1 > attempt
      BY <2>1
    <3> QED BY <2>2, <3>1 DEF NextAttempt
  <2>3. CASE pc' \in Failures
    BY <2>3
  <2> QED BY <1>1, <2>2, <2>3 DEF Retry
<1>2. CASE ProcessNext
  <2> DEFINE b == bucketOrder[next]
             n == next + 1
  <2>1. pc = "solve" /\ next <= numBuckets /\ next' = n /\ attempt' = attempt
    BY <1>2 DEF ProcessNext
  <2>2. b \in Buckets /\ ~isProcessed(b) /\ pendingHeap = {} /\ n \in Nat
    BY <2>1, NextBucket
  <2>3. Solving /\ pendingHeap = pendingHeap \ {b} /\ pendingHeap \in SUBSET Buckets
    BY <2>1, <2>2 DEF Solving
  <2>4. CASE ProcessBucket(b, pendingHeap)
    <3> HIDE DEF b
    <3>1. (n = next + 1 /\ pendingHeap = {}) \/ (n = next /\ b \in pendingHeap)
      BY <2>2
    <3> HIDE DEF n
    <3>2. \/ pc' \in Failures
          \/ evictions' > evictions /\ evictions' <= maxEvictions + 2 * numBuckets
          \/ evictions' = evictions /\ unplaced' < unplaced
      BY <2>1, <2>2, <2>3, <2>4, <3>1, ProcessBucketProgress
    <3> QED BY <2>1, <3>2
  <2>5. CASE /\ bucketSize(b) = 0
             /\ pilots' = [pilots EXCEPT ![b] = 0]
             /\ processedGen' = [processedGen EXCEPT ![b] = generation]
             /\ UNCHANGED <<slotOwner, slotGen, generation, pinVars, evictions, pendingHeap>>
    <3>1. 0 \in Pilots /\ Placed(b, 0, {}, pendingHeap)
      BY <2>2, <2>5, EmptyPlaced
    <3>2. evictions' = evictions /\ evictions \in Nat
      BY <2>5 DEF CoreInv, TypeOK
    <3>3. (n = next + 1 /\ pendingHeap = {}) \/ (n = next /\ b \in pendingHeap)
      BY <2>2
    <3> HIDE DEF b, n
    <3>4. {} \in SUBSET Buckets
      OBVIOUS
    <3>5. evictions' > evictions \/ (evictions' = evictions /\ unplaced' < unplaced)
      BY <2>1, <2>2, <2>3, <3>1, <3>3, <3>4, PlacedProgress
    <3> QED BY <2>1, <3>2, <3>5
  <2> QED BY <1>2, <2>2, <2>4, <2>5 DEF ProcessNext
<1>3. CASE DrainHeap
  <2> DEFINE b == Popped
             heap == pendingHeap \ {b}
  <2>1. pc = "drain" /\ next' = next /\ attempt' = attempt
    BY <1>3 DEF DrainHeap
  <2>2. b \in Buckets /\ b \in pendingHeap /\ ~isProcessed(b) /\ next \in Nat
    BY <2>1, HeapBucket
  <2>3. Solving /\ heap \in SUBSET Buckets
    BY <2>1 DEF Solving, CoreInv, TypeOK
  <2>4. ProcessBucket(b, heap)
    BY <1>3, <2>2 DEF DrainHeap
  <2> HIDE DEF b
  <2>5. \/ pc' \in Failures
        \/ evictions' > evictions /\ evictions' <= maxEvictions + 2 * numBuckets
        \/ evictions' = evictions /\ unplaced' < unplaced
    BY <2>1, <2>2, <2>3, <2>4, ProcessBucketProgress
  <2> QED BY <2>1, <2>5
<1>4. CASE BuildRemap
  BY <1>4, BuildRemapInv
<1> QED BY <1>1, <1>2, <1>3, <1>4 DEF Step

(* Every step of solve ends the block, starts one of the remaining attempts, spends
   evictions of a limited number, or leaves fewer buckets to place: solve cannot run
   for ever, for any block and any hash. *)
THEOREM SolveAlwaysProgresses == Spec => SolveProgresses
<1>1. SolverInv /\ [Next]_vars =>
        [Step => \/ pc' \in Ended
                 \/ attempt' > attempt /\ attempt' < maxGlobalRetries
                 \/ /\ attempt' = attempt
                    /\ \/ evictions' > evictions /\ evictions' <= maxEvictions + 2 * numBuckets
                       \/ evictions' = evictions /\ unplaced' < unplaced]_vars
  BY StepProgresses DEF SolverInv
<1> QED BY <1>1, SolverInvariant, PTL DEF Spec, SolveProgresses

================================================================================
