------------------------------ MODULE MCIdentity -----------------------------
(* Model-checking instances of Identity.                                   *)
EXTENDS Identity, TLC

Symmetry == Permutations(Worker) \cup Permutations(User) \cup Permutations(Address)
==============================================================================
