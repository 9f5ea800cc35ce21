---------------------- MODULE MCObjectRefCountRelaxed -----------------------
(* Model-checking instance of ObjectRefCountRelaxed.                       *)
EXTENDS ObjectRefCountRelaxed, TLC

Symmetry == Permutations(Thread) \cup Permutations(Handle)
=============================================================================
