---------------------------- MODULE MCLifecycle ----------------------------
(* Small instances of Lifecycle; records and sessions of one kind are alike. *)
EXTENDS Lifecycle, TLC

LifecycleSymmetry == Permutations(Findings) \cup Permutations(Classes)
                     \cup Permutations(Sessions)
=============================================================================
