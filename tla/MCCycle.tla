------------------------------ MODULE MCCycle ------------------------------
(* Small instances of Cycle; records and sessions of one kind are alike. *)
EXTENDS Cycle

CycleSymmetry == Permutations(Sessions)
=============================================================================
