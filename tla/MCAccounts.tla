----------------------------- MODULE MCAccounts -----------------------------
EXTENDS Accounts, TLC

CONSTANTS r1, r2, r3, a, b, n

C == [store |-> "mongo", op |-> <<>>, fails |-> {}, door |-> "http", has |-> {}, email |-> a,
      emails |-> {a}, names |-> {None}]

Stores == {"memory", "mongo", "postgres"}

Three(x, y, z) == r1 :> x @@ r2 :> y @@ r3 :> z

(* Creations race with each other, with a new name and with their faults.  *)
Creations ==
    {[C EXCEPT !.store = s, !.op = Three(x, y, z), !.emails = {b}, !.names = {n, None},
               !.fails = IF s = "memory" THEN {"cancel"} ELSE {"call", "ack", "cancel"}] :
        s \in Stores, x \in {"sign_up"}, y \in {"create_user", "otp"}, z \in {"rename", "delete"}}

(* A deletion races with everything that can be added to a user, ...       *)
Deletions ==
    {[C EXCEPT !.store = s, !.op = Three("delete", y, z), !.door = d, !.has = h, !.emails = {a},
               !.fails = {"hook"}, !.names = {n}] :
        s \in Stores, d \in {"http", "sdk"}, h \in {{"credential"}},
        y \in {"sign_in", "otp", "add_key", "forgot_password", "request_delete", "set_password", "confirm_delete"},
        z \in {"set_password", "rename", "read", "sign_up"}}

(* ... and fails halfway.                                                  *)
Failures ==
    {[C EXCEPT !.store = s, !.op = Three("delete", "confirm_delete", z), !.door = "sdk", !.has = {"credential", "api_key", "deletion"},
               !.fails = {"call", "ack"}, !.names = {n}] : s \in {"mongo", "postgres"}, z \in {"sign_in", "sign_up", "otp"}}

mc_Confs == Creations \cup Deletions \cup Failures
==============================================================================
