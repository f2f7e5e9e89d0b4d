---------------------------- MODULE MCDedupStore ----------------------------
(* DedupStore with interchangeable callers. *)
EXTENDS DedupStore, TLC

MCSymmetry == Permutations(Callers)
=============================================================================
