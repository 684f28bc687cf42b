----------------------------- MODULE BucketOrder -----------------------------
(***************************************************************************)
(* The two orderings of the PTRHash solver: the counting sort that gives   *)
(* bucketOrder, on buffers it reuses from block to block, and the binary   *)
(* heap of evicted buckets. PtrHashSolver uses only what they promise:     *)
(* largest bucket first, equal ones by index.                              *)
(***************************************************************************)
EXTENDS Integers, Sequences, FiniteSets, FiniteSetsExt, SequencesExt

CONSTANTS numBuckets, MaxSize,   \* bound: the size of a bucket
          MaxSorts               \* bound: blocks sorted

ASSUME BucketOrderAssumption ==
    /\ numBuckets \in Nat \ {0} /\ MaxSize \in Nat /\ MaxSorts \in Nat \ {0}

Buckets == 0 .. numBuckets - 1

VARIABLES sizes,                \* of the block's buckets
          counts, positions,    \* sortCounts and sortPositions
          bucketOrder,          \* the result, a function on Buckets
          heap,                 \* pendingHeap: bucket indices, the root first
          popped,               \* the last pop and what the heap held, or <<>>
          sorts

sortVars == <<sizes, counts, positions, bucketOrder, sorts>>
vars == <<sortVars, heap, popped>>

(* newSolver. *)
Init ==
    /\ sizes = [b \in Buckets |-> 0]
    /\ counts = [n \in 0 .. MaxSize |-> 0] /\ positions = [n \in 0 .. MaxSize |-> 0]
    /\ bucketOrder = [b \in Buckets |-> 0]
    /\ heap = <<>> /\ popped = <<>> /\ sorts = 0

--------------------------------------------------------------------------------
(* countingSortBucketsInto. *)

(* Seeded fault: the buffer is cleared below the largest size only. *)
ClearedBelow(maxSize) == [n \in 0 .. MaxSize |-> IF n < maxSize THEN 0 ELSE counts[n]]

(* The counts of larger sizes keep what an earlier block has left. *)
Cleared(maxSize) == [n \in 0 .. MaxSize |-> IF n <= maxSize THEN 0 ELSE counts[n]]

InOrder == [i \in 1 .. numBuckets |-> i - 1]

Counted(cs, sz) == FoldLeft(LAMBDA c, b : [c EXCEPT ![sz[b]] = @ + 1], cs, InOrder)

(* Where the buckets of each size start, the largest size first. *)
Starts(cs, maxSize) ==
    [n \in 0 .. MaxSize |->
        IF n <= maxSize THEN MapThenSumSet(LAMBDA m : cs[m], n + 1 .. maxSize) ELSE positions[n]]

(* One bucket after the other goes to the position of its size. *)
Placed(sz, starts) ==
    FoldLeft(LAMBDA a, b : [order |-> [a.order EXCEPT ![a.positions[sz[b]]] = b],
                            positions |-> [a.positions EXCEPT ![sz[b]] = @ + 1]],
             [order |-> bucketOrder, positions |-> starts], InOrder)

SortBuckets ==
    /\ sorts < MaxSorts /\ heap = <<>>
    /\ \E sz \in [Buckets -> 0 .. MaxSize] :
          LET maxSize == Max({sz[b] : b \in Buckets})
              cs == Counted(Cleared(maxSize), sz)
              placed == Placed(sz, Starts(cs, maxSize))
          IN  /\ sizes' = sz
              /\ IF maxSize = 0
                   THEN bucketOrder' = [b \in Buckets |-> b] /\ UNCHANGED <<counts, positions>>
                   ELSE /\ counts' = cs
                        /\ positions' = placed.positions
                        /\ bucketOrder' = placed.order
    /\ sorts' = sorts + 1 /\ popped' = <<>>
    /\ UNCHANGED heap

--------------------------------------------------------------------------------
(* bucketHeap; position i of the code is element i + 1. *)

less(a, b) == sizes[a] > sizes[b] \/ (sizes[a] = sizes[b] /\ a < b)

swap(h, i, j) == [h EXCEPT ![i + 1] = h[j + 1], ![j + 1] = h[i + 1]]

RECURSIVE up(_, _)
up(h, j) ==
    LET i == (j - 1) \div 2
    IN  IF j = 0 \/ ~less(h[j + 1], h[i + 1]) THEN h ELSE up(swap(h, i, j), i)

(* Seeded fault: the left child is never compared with the right one. *)
largerChildLeft(h, j1, n) == j1

largerChild(h, j1, n) == IF j1 + 1 < n /\ less(h[j1 + 2], h[j1 + 1]) THEN j1 + 1 ELSE j1

RECURSIVE down(_, _, _)
down(h, i, n) ==
    LET j1 == 2 * i + 1
        j == largerChild(h, j1, n)
    IN  IF j1 >= n \/ ~less(h[j + 1], h[i + 1]) THEN h ELSE down(swap(h, i, j), j, n)

Push ==
    /\ \E b \in Buckets \ ToSet(heap) :
          heap' = up(Append(heap, b), Len(heap))
    /\ popped' = <<>>
    /\ UNCHANGED sortVars

Pop ==
    /\ heap # <<>>
    /\ LET n == Len(heap) - 1
           h == down(swap(heap, 0, n), 0, n)
       IN  /\ heap' = SubSeq(h, 1, n)
           /\ popped' = <<h[n + 1], ToSet(heap)>>
    /\ UNCHANGED sortVars

Next == SortBuckets \/ Push \/ Pop

Spec == Init /\ [][Next]_vars

--------------------------------------------------------------------------------
(* Properties. *)

LargerFirst(a, b) == sizes[a] > sizes[b] \/ (sizes[a] = sizes[b] /\ a < b)

(* Whatever earlier blocks have left in the buffers, bucketOrder holds every bucket
   once, the largest first and equal ones by index. *)
OrderedBySize ==
    sorts > 0 => \A i, j \in Buckets : i < j => LargerFirst(bucketOrder[i], bucketOrder[j])

(* pop takes out the largest bucket of the heap, by index among equals, and leaves
   the others: the order in which evicted buckets are placed again does not depend
   on how they entered. *)
PopsLargest ==
    popped # <<>> =>
        /\ popped[1] \in popped[2] /\ \A b \in popped[2] \ {popped[1]} : LargerFirst(popped[1], b)
        /\ ToSet(heap) = popped[2] \ {popped[1]} /\ Len(heap) = Cardinality(popped[2]) - 1
================================================================================
