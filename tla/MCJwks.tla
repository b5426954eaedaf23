------------------------------- MODULE MCJwks -------------------------------
(* Model-checking instances of Jwks.                                       *)
EXTENDS Jwks, TLC

CONSTANTS w1, w2, old, new

(* One secret everywhere; a rolling change of the secret, with the old one *)
(* in secret_key_rotation; a change that forgets it.                       *)
Same(g, i, o) == [seals |-> (w1 :> old @@ w2 :> old), opens |-> (w1 :> {old} @@ w2 :> {old}),
                  grace |-> g, interval |-> i, ops |-> o]
Rolling(g, o) == [seals |-> (w1 :> old @@ w2 :> new), opens |-> (w1 :> {old} @@ w2 :> {old, new}),
                  grace |-> g, interval |-> 0, ops |-> o]
Changed(g, o) == [seals |-> (w1 :> old @@ w2 :> new), opens |-> (w1 :> {old} @@ w2 :> {new}),
                  grace |-> g, interval |-> 0, ops |-> o]
TheConfs == {Same(1, 0, {"rotate", "sign", "crash"}), Same(1, 1, {"start", "sign"}),
             Rolling(2, {"start", "sign"}), Changed(2, {"sign"})}
==============================================================================
