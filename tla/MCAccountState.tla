--------------------------- MODULE MCAccountState ---------------------------
(* AccountState with numbered objects, one per holder: the cached list, the *)
(* read in flight and each actor.                                          *)
EXTENDS AccountState, FiniteSets, TLC

MCSymmetry == Permutations(Requests) \cup Permutations(Marks)

MCObjects == 1..(Cardinality(Actors) + 2)
=============================================================================
