------------------------------ MODULE BuildOutcome ------------------------------
(***************************************************************************)
(* What every build mode promises, whatever it does inside: blocks are     *)
(* committed one after another, the index file becomes complete in one     *)
(* step and only when every block has been committed, and otherwise the    *)
(* build ends with the partial file removed.  After the end nothing is     *)
(* written any more.                                                       *)
(***************************************************************************)
EXTENDS Naturals

CONSTANT NumBlocks

VARIABLES committed,  \* number of blocks in the index
          outcome,    \* "building", then "ok" or "failed"
          file        \* what is at the output path

outcomeVars == <<committed, outcome, file>>

Init ==
    /\ committed = 0
    /\ outcome = "building"
    /\ file = "partial"

Commit ==
    /\ outcome = "building"
    /\ committed < NumBlocks
    /\ committed' = committed + 1
    /\ UNCHANGED <<outcome, file>>

Succeed ==
    /\ outcome = "building"
    /\ committed = NumBlocks
    /\ outcome' = "ok"
    /\ file' = "final"
    /\ UNCHANGED committed

Abort ==
    /\ outcome = "building"
    /\ outcome' = "failed"
    /\ file' = "removed"
    /\ UNCHANGED committed

Next == Commit \/ Succeed \/ Abort

Spec == Init /\ [][Next]_outcomeVars
================================================================================
