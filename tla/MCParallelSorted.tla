--------------------------- MODULE MCParallelSorted ---------------------------
(* Instances of ParallelSorted for TLC. *)
EXTENDS ParallelSorted, TLC

\* Workers are interchangeable.
WorkerSymmetry == Permutations(Workers)
================================================================================
