------------------------- MODULE MCAccountLifecycle -------------------------
(* Instances of AccountLifecycle for TLC. *)
EXTENDS AccountLifecycle, TLC

Symmetry == Permutations(Proc) \cup Permutations(Serial)
=============================================================================
