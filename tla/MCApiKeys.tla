------------------------------ MODULE MCApiKeys ------------------------------
(* Model-checking instances of ApiKeys.                                    *)
EXTENDS ApiKeys, TLC

CONSTANTS v1, v2

Plain == [quota |-> Absent, refill |-> 0, every |-> 0, expires |-> 0, limit |-> 0, window |-> 0]
Quota == [Plain EXCEPT !.quota = 1, !.refill = 2, !.every = 1]
LateQuota == [Plain EXCEPT !.refill = 1, !.every = 1]
Limited == [Plain EXCEPT !.limit = 1, !.window = 2, !.expires = 1]
TheConfs == {[store |-> "memory", plan |-> Quota, ops |-> {"owner"}],
             [store |-> "mongo", plan |-> LateQuota, ops |-> {"admin"}],
             [store |-> "postgres", plan |-> Limited, ops |-> {"owner", "admin"}]}
Symmetry == Permutations(Caller)
==============================================================================
