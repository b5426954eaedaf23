---------------------------- MODULE MCCredentials ----------------------------
(* Model-checking instances of Credentials.                                *)
EXTENDS Credentials, TLC

(* Requests are interchangeable, and so are the chains but the first.      *)
Symmetry == Permutations(Client) \cup Permutations(Chain \ {First})
==============================================================================
