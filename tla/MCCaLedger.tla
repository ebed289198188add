----------------------------- MODULE MCCaLedger -----------------------------
(* Instances of CaLedger for TLC. *)
EXTENDS CaLedger, TLC

ProcSymmetry == Permutations(Proc) \cup Permutations(Serial)
=============================================================================
