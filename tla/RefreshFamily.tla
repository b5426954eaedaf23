---------------------------- MODULE RefreshFamily ----------------------------
(***************************************************************************)
(* What the refresh-token store promises about ONE rotation family, the    *)
(* chain of refresh tokens rooted at a sign-in.  It is the behaviour of    *)
(* the in-memory adapter, whose lock makes each operation one atomic step: *)
(* a family has at most one live token, an exchange moves that token to    *)
(* the spent ones and puts its successor in its place, and a revocation    *)
(* ends the family together with every session it vouches for.             *)
(***************************************************************************)
CONSTANTS
    Token,      \* refresh tokens, one per document or row
    Session,    \* database sessions
    None        \* "no token"

VARIABLES
    live,       \* the token that can still be exchanged, or None
    spent,      \* the tokens already exchanged
    closed,     \* whether the family was revoked
    honoured    \* the sessions a request may still use

vars == <<live, spent, closed, honoured>>

TypeOK ==
    /\ live \in Token \cup {None}
    /\ spent \subseteq Token
    /\ closed \in BOOLEAN
    /\ honoured \subseteq Session

Init ==
    /\ live = None
    /\ spent = {}
    /\ closed = FALSE
    /\ honoured = {}

(* create_refresh_token: the root token and the session it came with.      *)
Open(t, s) ==
    /\ live = None
    /\ spent = {}
    /\ ~closed
    /\ live' = t
    /\ honoured' = {s}
    /\ UNCHANGED <<spent, closed>>

(* rotate_refresh_token: consume the live token, publish its successor.    *)
Rotate(t, s) ==
    /\ live # None
    /\ t \notin spent \cup {live}
    /\ live' = t
    /\ spent' = spent \cup {live}
    /\ honoured' = honoured \cup {s}
    /\ UNCHANGED closed

(* delete_session of a session of the family.                              *)
Forget(s) ==
    /\ honoured' = honoured \ {s}
    /\ UNCHANGED <<live, spent, closed>>

(* delete_refresh_token_family: tokens and sessions go together.           *)
Revoke ==
    /\ live # None
    /\ live' = None
    /\ spent' = spent \cup {live}
    /\ closed' = TRUE
    /\ honoured' = {}

Next ==
    \/ \E t \in Token, s \in Session : Open(t, s) \/ Rotate(t, s)
    \/ \E s \in Session : Forget(s)
    \/ Revoke

Spec == Init /\ [][Next]_vars
==============================================================================
