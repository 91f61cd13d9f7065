----------------------------- MODULE MCFuzzLoop -----------------------------
(* Instances of FuzzLoop for TLC. *)
EXTENDS FuzzLoop, TLC

Symmetry == Permutations(Procs)
=============================================================================
