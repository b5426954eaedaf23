------------------------------ MODULE MCLockout ------------------------------
(* Model-checking instances of Lockout.                                    *)
EXTENDS Lockout, TLC

Symmetry == Permutations(Renamer) \cup Permutations(Worker \ Renamer)
==============================================================================
