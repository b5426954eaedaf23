----------------------------- MODULE MCChallenge -----------------------------
(* Model-checking instances of Challenge.                                  *)
EXTENDS Challenge, TLC

Symmetry == Permutations(Worker) \cup Permutations(Code)
==============================================================================
