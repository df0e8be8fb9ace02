------------------------------ MODULE MCPageTable ------------------------------
(***************************************************************************)
(* Page tables with two entries per level, in a small memory.              *)
(***************************************************************************)
EXTENDS PageTable, TLC

MCPages == {2, 4, 6, 8}

MCArrays == {101, 102}

MCTargets == {0, 2, 3}

MCFlags == {14}

(* dirty is never reset, and once it holds the properties say nothing: there
   is nothing left to check in the states that follow. *)
Clear == ~dirty

Symmetry == Permutations(Owner)

=============================================================================
