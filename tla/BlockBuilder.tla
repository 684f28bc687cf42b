---------------------------- MODULE BlockBuilder -----------------------------
(***************************************************************************)
(* What the index builder and the index reader expect of an MPHF algorithm *)
(* (the interfaces blockBuilder and blockDecoder of algorithm.go): keys    *)
(* are added, the block is built, and from then on the decoder sends the   *)
(* keys of the block one to one onto the slots 0 .. n - 1, where the entry *)
(* of each is stored. An algorithm may give up, but blames a duplicate key *)
(* only when there is one; a block with a duplicate key is never built.    *)
(***************************************************************************)
EXTENDS Integers, FiniteSets, Bags, Functions

VARIABLES added,     \* the bag of entries added since the last Reset
          status,    \* open, built or the error BuildSeparatedInto returned
          slotOf,    \* the decoder's slot of every key of a built block
          stored     \* the fingerprint and payload found at that slot

KeyOf(e) == <<e.k0, e.k1>>
AddedKeys == {KeyOf(e) : e \in BagToSet(added)}
KeysAdded == BagCardinality(added)
Duplicates == Cardinality(AddedKeys) < KeysAdded

Init == added = EmptyBag /\ status = "open"

(* One or more AddKey calls; their order does not matter. *)
AddKeys ==
    /\ status = "open" /\ status' = "open"
    /\ added \sqsubseteq added'

(* BuildSeparatedInto, which may fail: "extremely rare with good hash". *)
Build ==
    /\ status = "open" /\ status' # "open"
    /\ status' = "duplicate key" => Duplicates
    /\ UNCHANGED added

Reset == status' = "open" /\ added' = EmptyBag

Next == AddKeys \/ Build \/ Reset

(* QuerySlot on a built block, for the keys in it. *)
Answers ==
    status = "built" =>
        /\ ~Duplicates
        /\ DOMAIN slotOf = AddedKeys
        /\ Range(slotOf) = 0 .. KeysAdded - 1
        /\ \A e \in BagToSet(added) : stored[KeyOf(e)] = <<e.fingerprint, e.payload>>

Spec == Init /\ [][Next]_<<added, status>> /\ []Answers
=============================================================================
