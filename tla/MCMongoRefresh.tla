--------------------------- MODULE MCMongoRefresh ----------------------------
(* Model-checking instances of MongoRefresh.                               *)
EXTENDS MongoRefresh, TLC

(* Requests, tokens and sessions are interchangeable in the safety runs.   *)
Symmetry == Permutations(Worker) \cup Permutations(Token) \cup Permutations(Session)
==============================================================================
