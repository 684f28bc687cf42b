---------------------------- MODULE MCIndexReader ----------------------------
(* IndexReader for TLC. *)
EXTENDS IndexReader, TLC

\* Keys differ only in what the index holds of them.
KeySymmetry == Permutations(Keys)
=============================================================================
