---------------------------- MODULE MongoRefresh -----------------------------
(***************************************************************************)
(* The refresh-token family of the MongoDB (Beanie) adapter, under the     *)
(* three requests that drive it: a sign-in that opens a family, POST       *)
(* /auth/refresh (flows/refresh.py and security/refresh_tokens.py) and     *)
(* POST /auth/sign-out.  A standalone MongoDB has no transactions, so      *)
(* every database call is a step of its own and the calls of concurrent    *)
(* requests interleave.  The coordination document of the family (active,  *)
(* revoked, famSessions, famExpires) is what makes it safe.                *)
(*                                                                         *)
(* A call may raise without having had its effect (CallFails) or after it  *)
(* (the acknowledgement is lost: the second disjunct of Call), and a       *)
(* process may die between any two calls (Crash).                          *)
(*                                                                         *)
(* Left out: the user lookup and account policy of the flow (see the       *)
(* README), the JWT strategy, and families other than the one followed.    *)
(***************************************************************************)
EXTENDS Naturals, FiniteSets, Sequences

CONSTANTS
    Worker,         \* requests in flight at the same time
    Token,          \* refresh-token documents
    Session,        \* session rows
    None,           \* the absence of a token, a session or a family
    MaxAge,         \* RefreshTokenOptions.max_age, in ticks
    AbsoluteAge,    \* RefreshTokenOptions.absolute_max_age, in ticks
    MaxClock,       \* bound on the clock
    Faulty          \* whether calls may fail and processes may die

ASSUME IdsAssumption == None \notin Token \cup Session
ASSUME AgeAssumption ==
    /\ MaxAge \in Nat \ {0} /\ AbsoluteAge \in Nat \ {0} /\ MaxClock \in Nat
    /\ Faulty \in BOOLEAN

VARIABLES
    \* the family document; active = None while it does not exist
    active, revoked, famSessions, famExpires, famCreated,
    \* the refresh_tokens collection: stored, flagged consumed_at, and the
    \* session_id and expires_at each token was minted with
    docs, consumed, docSession, expires,
    \* the sessions collection, and every session id ever generated
    sessions, minted,
    clock,
    req,        \* the requests in flight
    \* history: what clients received, which successors were given for a
    \* token, which tokens were ever active, which session rows sign-out
    \* deleted
    handed, handedS, exchanged, published, signedOut

famVars == <<active, revoked, famSessions, famExpires, famCreated>>
docVars == <<docs, consumed, docSession, expires>>
sesVars == <<sessions, minted>>
hisVars == <<handed, handedS, exchanged, published, signedOut>>
vars == <<famVars, docVars, sesVars, clock, req, hisVars>>

CreatePC == {"ci_doc", "ci_fam", "ci_undo"}
RevokePC == {"rv_mark", "rv_read", "rv_sessions", "rv_tokens"}
LosePC   == {"lose_doc", "lose_state", "lose_session"}
WonPC    == {"consume", "drop", "pull"}
LogoutPC == {"lo_fam1", "lo_row2", "lo_fam2", "lo_row3", "lo_fam3",
             "lo_delete", "lo_find1", "lo_find2", "lo_done"}
LookupPC == {"gv1_fam", "gv2_tok", "gv2_fam"}
PC == {"idle", "renew", "insert", "cas", "finish", "abort"}
      \cup CreatePC \cup RevokePC \cup LosePC \cup WonPC \cup LogoutPC \cup LookupPC

(* The local state of a request handler.                                   *)
Request ==
    [pc     : PC,
     cur    : Token \cup {None},        \* the token presented
     new    : Token \cup {None},        \* the token being created
     sid    : Session \cup {None},      \* the session created or signed out
     seen   : BOOLEAN,                  \* consumed_at was set when read
     todo   : SUBSET Session,           \* sessions left to delete
     victim : Session \cup {None},      \* the one being deleted
     stamp  : Nat,                      \* consumed_at of the rotation
     found  : SUBSET {1, 2},            \* which of sign-out's reads found the session
     ret    : {"idle", "abort", "lo_find2", "lo_done"}]  \* where a revocation returns

Idle == [pc |-> "idle", cur |-> None, new |-> None, sid |-> None, seen |-> FALSE,
         todo |-> {}, victim |-> None, stamp |-> 0, found |-> {}, ret |-> "idle"]

(* Control points that need only the session of the request: the handler   *)
(* of refresh_session, and a family revocation that returns to r.          *)
Aborting(s) == [Idle EXCEPT !.pc = "abort", !.sid = s]
Revoking(s, r) == [Idle EXCEPT !.pc = "rv_mark", !.sid = s, !.ret = r]

TypeOK ==
    /\ active \in Token \cup {None} /\ revoked \in BOOLEAN
    /\ famSessions \subseteq Session /\ famExpires \in Nat /\ famCreated \in Nat
    /\ docs \subseteq Token /\ consumed \subseteq docs
    /\ docSession \in [Token -> Session \cup {None}]
    /\ expires \in [Token -> Nat]
    /\ sessions \subseteq minted /\ minted \subseteq Session
    /\ clock \in Nat
    /\ req \in [Worker -> Request]
    /\ handed \subseteq Token /\ handedS \subseteq Session
    /\ exchanged \in [Token -> SUBSET Token]
    /\ published \subseteq Token
    /\ signedOut \subseteq Session

Init ==
    /\ active = None /\ revoked = FALSE
    /\ famSessions = {} /\ famExpires = 0 /\ famCreated = 0
    /\ docs = {} /\ consumed = {}
    /\ docSession = [t \in Token |-> None]
    /\ expires = [t \in Token |-> 0]
    /\ sessions = {} /\ minted = {}
    /\ clock = 0
    /\ req = [w \in Worker |-> Idle]
    /\ handed = {} /\ handedS = {}
    /\ exchanged = [t \in Token |-> {}]
    /\ published = {} /\ signedOut = {}
------------------------------------------------------------------------------
At(w, p) == req[w].pc = p

(* What the request does next; a request that has ended forgets its state. *)
Becomes(w, r) == req' = [req EXCEPT ![w] = IF r.pc = "idle" THEN Idle ELSE r]

(* Where control goes when the call a request is making raises.  In        *)
(* refresh_session the first lookup and renew stand before the try block,  *)
(* the rotation inside it: its handler deletes the replacement session     *)
(* (abort).  A failing call of the winner's bookkeeping revokes the family *)
(* first, and so does the deletion of the previous session (finish).       *)
Raised(r) ==
    CASE r.pc = "ci_fam" -> [r EXCEPT !.pc = "ci_undo"]
      [] r.pc \in {"gv2_tok", "gv2_fam", "insert", "cas"} \cup LosePC -> Aborting(r.sid)
      [] r.pc \in WonPC -> Revoking(r.sid, "abort")
      [] r.pc = "finish" -> Revoking(r.sid, "idle")
      [] r.pc \in RevokePC /\ r.ret = "abort" -> Aborting(r.sid)
      [] OTHER -> Idle

(* The call of the request takes effect: it goes on as r, or the call      *)
(* raises although it had its effect.                                      *)
Call(w, r) == Becomes(w, r) \/ (Faulty /\ Becomes(w, Raised(req[w])))

(* expiry_for: the sliding expiry, capped by the age of the family.        *)
expiry_for(now, created) ==
    IF now + MaxAge <= created + AbsoluteAge THEN now + MaxAge ELSE created + AbsoluteAge

FreshToken == {t \in Token : docSession[t] = None}

(* Insert the document of token t for session s.                           *)
InsertDoc(t, s, exp) ==
    /\ docs' = docs \cup {t}
    /\ docSession' = [docSession EXCEPT ![t] = s]
    /\ expires' = [expires EXCEPT ![t] = exp]
    /\ UNCHANGED consumed

DeleteDocs(ts) ==
    /\ docs' = docs \ ts
    /\ consumed' = consumed \ ts
    /\ UNCHANGED <<docSession, expires>>

InsertSession(s) ==
    /\ s \in Session \ minted
    /\ sessions' = sessions \cup {s}
    /\ minted' = minted \cup {s}

DeleteSessions(ss) ==
    /\ sessions' = sessions \ ss
    /\ UNCHANGED minted
------------------------------------------------------------------------------
(* Sign-in: session row, root token, family document, then the response.   *)
(* The first sign-in opens the family followed here.                       *)
StartSignIn(w) ==
    /\ At(w, "idle")
    /\ minted = {}
    /\ \E s \in Session :
          /\ InsertSession(s)
          /\ Becomes(w, [Idle EXCEPT !.pc = "ci_doc", !.sid = s])
    /\ UNCHANGED <<famVars, docVars, clock, hisVars>>

CreateDoc(w) ==
    /\ At(w, "ci_doc")
    /\ \E t \in FreshToken :
          /\ InsertDoc(t, req[w].sid, expiry_for(clock, clock))
          /\ Call(w, [req[w] EXCEPT !.pc = "ci_fam", !.new = t])
    /\ famCreated' = clock
    /\ UNCHANGED <<active, revoked, famSessions, famExpires, sesVars, clock, hisVars>>

CreateFamily(w) ==
    LET r == req[w]
    IN  /\ At(w, "ci_fam")
        /\ active' = r.new
        /\ famSessions' = {r.sid}
        /\ famExpires' = expires[r.new]
        /\ published' = published \cup {r.new}
        /\ \/ /\ Becomes(w, Idle)
              /\ handed' = handed \cup {r.new}
              /\ handedS' = handedS \cup {r.sid}
           \/ /\ Faulty
              /\ Becomes(w, Raised(r))
              /\ UNCHANGED <<handed, handedS>>
        /\ UNCHANGED <<revoked, famCreated, docVars, sesVars, clock, exchanged, signedOut>>

CreateUndo(w) ==
    /\ At(w, "ci_undo")
    /\ DeleteDocs({req[w].new})
    /\ Becomes(w, Idle)
    /\ UNCHANGED <<famVars, sesVars, clock, hisVars>>
------------------------------------------------------------------------------
(* POST /auth/refresh with any token a client ever received: its first     *)
(* call is the first look-up of get_valid.                                 *)
StartRefresh(w, t) ==
    /\ At(w, "idle")
    /\ t \in handed
    /\ Becomes(w, IF t \in docs
                  THEN [Idle EXCEPT !.pc = "gv1_fam", !.cur = t, !.seen = t \in consumed]
                  ELSE Idle)
    /\ UNCHANGED <<famVars, docVars, sesVars, clock, hisVars>>

(* get_valid, called once by the flow and again by rotate: a token that is *)
(* unknown, of a closed family or expired is refused; one already used is  *)
(* refused and its family revoked.  The document and the family document   *)
(* are two reads.                                                          *)
LookupToken(w) ==
    LET r == req[w]
    IN  /\ At(w, "gv2_tok")
        /\ Becomes(w, IF r.cur \in docs
                      THEN [r EXCEPT !.pc = "gv2_fam", !.seen = r.cur \in consumed]
                      ELSE Aborting(r.sid))
        /\ UNCHANGED <<famVars, docVars, sesVars, clock, hisVars>>

Refused(w, second) == IF second THEN Aborting(req[w].sid) ELSE Idle

LookupFamily(w, second) ==
    LET r == req[w]
        used == r.seen \/ active # r.cur
        outcome ==
            CASE active = None \/ revoked -> Refused(w, second)
              [] active # None /\ ~revoked /\ used ->
                    Revoking(r.sid, IF second THEN "abort" ELSE "idle")
              [] active # None /\ ~revoked /\ ~used /\ expires[r.cur] <= clock ->
                    Refused(w, second)
              [] OTHER -> [r EXCEPT !.pc = IF second THEN "insert" ELSE "renew", !.seen = FALSE]
    IN  /\ At(w, IF second THEN "gv2_fam" ELSE "gv1_fam")
        /\ Becomes(w, outcome)
        /\ UNCHANGED <<famVars, docVars, sesVars, clock, hisVars>>

(* session_strategy.renew: a fresh session row for the replacement.        *)
Renew(w) ==
    /\ At(w, "renew")
    /\ \E s \in Session :
          /\ InsertSession(s)
          /\ Call(w, [req[w] EXCEPT !.pc = "gv2_tok", !.sid = s])
    /\ UNCHANGED <<famVars, docVars, clock, hisVars>>

(* rotate_refresh_token: the candidate document, not yet published.        *)
InsertCandidate(w) ==
    /\ At(w, "insert")
    /\ \E t \in FreshToken :
          /\ InsertDoc(t, req[w].sid, expiry_for(clock, famCreated))
          /\ Call(w, [req[w] EXCEPT !.pc = "cas", !.new = t, !.stamp = clock])
    /\ UNCHANGED <<famVars, sesVars, clock, hisVars>>

(* The compare-and-set on the family document publishes the candidate and  *)
(* its session together.                                                   *)
CasMatches_AnyToken(r)     == active # None /\ ~revoked /\ famExpires > r.stamp
CasMatches_WhenRevoked(r)  == active = r.cur /\ famExpires > r.stamp
CasMatches(r) ==
    /\ active = r.cur
    /\ ~revoked
    /\ famExpires > r.stamp

SessionsWith_Unlisted(s) == famSessions
SessionsWith(s) == famSessions \cup {s}

Superseded_All(s) == famSessions \cup {s}
Superseded(s) == famSessions \ {s}

CasWins(w) ==
    LET r == req[w]
    IN  /\ At(w, "cas")
        /\ CasMatches(r)
        /\ active' = r.new
        /\ famExpires' = expires[r.new]
        /\ famSessions' = SessionsWith(r.sid)
        /\ published' = published \cup {r.new}
        /\ Call(w, [r EXCEPT !.pc = "consume", !.todo = Superseded(r.sid)])
        /\ UNCHANGED <<revoked, famCreated, docVars, sesVars, clock,
                       handed, handedS, exchanged, signedOut>>

CasLoses(w) ==
    /\ At(w, "cas")
    /\ ~CasMatches(req[w])
    /\ Becomes(w, [req[w] EXCEPT !.pc = "lose_doc"])
    /\ UNCHANGED <<famVars, docVars, sesVars, clock, hisVars>>

(* The loser withdraws its candidate and its session, then rotate revokes  *)
(* the family: losing the race means the token was used twice.             *)
LoseDoc(w) ==
    /\ At(w, "lose_doc")
    /\ DeleteDocs({req[w].new})
    /\ Call(w, [req[w] EXCEPT !.pc = "lose_state"])
    /\ UNCHANGED <<famVars, sesVars, clock, hisVars>>

LoseState(w) ==
    LET r == req[w]
    IN  /\ At(w, "lose_state")
        /\ Becomes(w, IF active = None \/ r.sid \notin famSessions
                      THEN [r EXCEPT !.pc = "lose_session"]
                      ELSE Revoking(r.sid, "abort"))
        /\ UNCHANGED <<famVars, docVars, sesVars, clock, hisVars>>

LoseSession(w) ==
    /\ At(w, "lose_session")
    /\ DeleteSessions({req[w].sid})
    /\ Call(w, Revoking(req[w].sid, "abort"))
    /\ UNCHANGED <<famVars, docVars, clock, hisVars>>

(* The winner marks the old document consumed and deletes the sessions the *)
(* family had before, each row before its reference.                       *)
Consume_Upsert(w) ==
    LET r == req[w]
    IN  /\ At(w, "consume")
        /\ consumed' = consumed \cup {r.cur}
        /\ Call(w, [r EXCEPT !.pc = IF r.todo = {} THEN "finish" ELSE "drop"])
        /\ UNCHANGED <<famVars, docs, docSession, expires, sesVars, clock, hisVars>>

Consume(w) ==
    LET r == req[w]
    IN  /\ At(w, "consume")
        /\ consumed' = consumed \cup (docs \cap {r.cur})
        /\ Call(w, [r EXCEPT !.pc = IF r.todo = {} THEN "finish" ELSE "drop"])
        /\ UNCHANGED <<famVars, docs, docSession, expires, sesVars, clock, hisVars>>

DropSession(w) ==
    LET r == req[w]
    IN  /\ At(w, "drop")
        /\ \E s \in r.todo :
              /\ DeleteSessions({s})
              /\ Call(w, [r EXCEPT !.pc = "pull", !.victim = s])
        /\ UNCHANGED <<famVars, docVars, clock, hisVars>>

PullReference(w) ==
    LET r == req[w]
        left == r.todo \ {r.victim}
    IN  /\ At(w, "pull")
        /\ famSessions' = famSessions \ {r.victim}
        /\ Call(w, [r EXCEPT !.pc = IF left = {} THEN "finish" ELSE "drop",
                             !.todo = left, !.victim = None])
        /\ UNCHANGED <<active, revoked, famExpires, famCreated, docVars, sesVars, clock, hisVars>>

(* refresh_session deletes the session the presented token belonged to and *)
(* answers with the new pair.                                              *)
Finish(w) ==
    LET r == req[w]
    IN  /\ At(w, "finish")
        /\ DeleteSessions({docSession[r.cur]})
        /\ \/ /\ Becomes(w, Idle)
              /\ handed' = handed \cup {r.new}
              /\ handedS' = handedS \cup {r.sid}
              /\ exchanged' = [exchanged EXCEPT ![r.cur] = @ \cup {r.new}]
           \/ /\ Faulty
              /\ Becomes(w, Raised(r))
              /\ UNCHANGED <<handed, handedS, exchanged>>
        /\ UNCHANGED <<famVars, docVars, clock, published, signedOut>>

(* The handler of refresh_session deletes the replacement session.         *)
Abort(w) ==
    /\ At(w, "abort")
    /\ DeleteSessions({req[w].sid})
    /\ Becomes(w, Idle)
    /\ UNCHANGED <<famVars, docVars, clock, hisVars>>
------------------------------------------------------------------------------
(* delete_refresh_token_family: close the document, then collect and       *)
(* delete the sessions, then the tokens.                                   *)
RevokeMark(w) ==
    /\ At(w, "rv_mark")
    /\ revoked' = (revoked \/ active # None)
    /\ Call(w, [req[w] EXCEPT !.pc = "rv_read", !.todo = famSessions])
    /\ UNCHANGED <<active, famSessions, famExpires, famCreated, docVars, sesVars, clock, hisVars>>

RevokeRead(w) ==
    /\ At(w, "rv_read")
    /\ Becomes(w, [req[w] EXCEPT !.pc = "rv_sessions",
                                 !.todo = @ \cup {docSession[t] : t \in docs}])
    /\ UNCHANGED <<famVars, docVars, sesVars, clock, hisVars>>

RevokeSessions(w) ==
    /\ At(w, "rv_sessions")
    /\ DeleteSessions(req[w].todo)
    /\ Call(w, [req[w] EXCEPT !.pc = "rv_tokens", !.todo = {}])
    /\ UNCHANGED <<famVars, docVars, clock, hisVars>>

RevokeTokens_UsedOnly(w) ==
    /\ At(w, "rv_tokens")
    /\ DeleteDocs(consumed)
    /\ Call(w, [Idle EXCEPT !.pc = req[w].ret, !.sid = req[w].sid])
    /\ UNCHANGED <<famVars, sesVars, clock, hisVars>>

RevokeTokens(w) ==
    /\ At(w, "rv_tokens")
    /\ DeleteDocs(docs)
    /\ Call(w, [Idle EXCEPT !.pc = req[w].ret, !.sid = req[w].sid])
    /\ UNCHANGED <<famVars, sesVars, clock, hisVars>>
------------------------------------------------------------------------------
(* POST /auth/sign-out reads the session three times: in sign_out itself,   *)
(* in PolicySessionStrategy.revoke and in the revoke of the database        *)
(* strategy, which deletes the row.  The family goes twice: revoke closes   *)
(* it if the second read found the session, sign_out if the first one did.  *)
(* Each read is get_session_by_token_hash: the row, then a revoked family   *)
(* that names it.                                                           *)
(* The first of them is the call the request arrives with.                 *)
NextRow == <<"lo_row2", "lo_row3">>     \* the row's look-up after read n
FamPC == <<"lo_fam1", "lo_fam2", "lo_fam3">>

StartSignOut(w, s) ==
    /\ At(w, "idle")
    /\ s \in handedS
    /\ Becomes(w, [Idle EXCEPT !.pc = IF s \in sessions THEN "lo_fam1" ELSE "lo_done",
                               !.sid = s])
    /\ UNCHANGED <<famVars, docVars, sesVars, clock, hisVars>>

(* The first of the two family revocations that is due.                    *)
ClosingPC(found) == IF 2 \in found THEN "lo_find1" ELSE IF 1 \in found THEN "lo_find2" ELSE "lo_done"

(* The read returned the session.                                          *)
Hit(r, n) ==
    IF n = 3 THEN [r EXCEPT !.pc = "lo_delete"]
    ELSE [r EXCEPT !.pc = NextRow[n], !.found = @ \cup {n}]

(* A revoked family refuses it: the next read, or what the earlier ones    *)
(* ask for.                                                                *)
Miss(r, n) == [r EXCEPT !.pc = IF n = 3 THEN ClosingPC(r.found) ELSE NextRow[n]]

(* A row that is gone stays gone, so the reads after it find nothing.      *)
ReadRow(w, n) ==
    LET r == req[w]
    IN  /\ At(w, NextRow[n])
        /\ Becomes(w, [r EXCEPT !.pc = IF r.sid \in sessions THEN FamPC[n + 1] ELSE ClosingPC(r.found)])
        /\ UNCHANGED <<famVars, docVars, sesVars, clock, hisVars>>

(* The second lookup of a read: no revoked family names the session.       *)
Vouched(s) == ~(revoked /\ s \in famSessions)

ReadFamily(w, n) ==
    LET r == req[w]
    IN  /\ At(w, FamPC[n])
        /\ Becomes(w, IF Vouched(r.sid) THEN Hit(r, n) ELSE Miss(r, n))
        /\ UNCHANGED <<famVars, docVars, sesVars, clock, hisVars>>

ReadSession(w) ==
    \/ \E n \in 1..2 : ReadRow(w, n)
    \/ \E n \in 1..3 : ReadFamily(w, n)

DeleteRow(w) ==
    /\ At(w, "lo_delete")
    /\ DeleteSessions({req[w].sid})
    /\ signedOut' = signedOut \cup {req[w].sid}
    /\ Call(w, [req[w] EXCEPT !.pc = ClosingPC(req[w].found)])
    /\ UNCHANGED <<famVars, docVars, clock, handed, handedS, exchanged, published>>

(* delete_refresh_tokens_for_session: if a token of the session is found,  *)
(* its family goes.                                                        *)
FindTokens_UsedOnly(w, second) ==
    LET r == req[w]
        after == ClosingPC(IF second THEN {} ELSE r.found \ {2})
    IN  /\ At(w, IF second THEN "lo_find2" ELSE "lo_find1")
        /\ Becomes(w, IF \E t \in consumed : docSession[t] = r.sid
                      THEN Revoking(r.sid, after)
                      ELSE [r EXCEPT !.pc = after])
        /\ UNCHANGED <<famVars, docVars, sesVars, clock, hisVars>>

FindTokens(w, second) ==
    LET r == req[w]
        after == ClosingPC(IF second THEN {} ELSE r.found \ {2})
    IN  /\ At(w, IF second THEN "lo_find2" ELSE "lo_find1")
        /\ Becomes(w, IF \E t \in docs : docSession[t] = r.sid
                      THEN Revoking(r.sid, after)
                      ELSE [r EXCEPT !.pc = after])
        /\ UNCHANGED <<famVars, docVars, sesVars, clock, hisVars>>

(* The answer is success, whether or not a session was found.              *)
SignOutAnswers(w) ==
    /\ At(w, "lo_done")
    /\ Becomes(w, Idle)
    /\ UNCHANGED <<famVars, docVars, sesVars, clock, hisVars>>
------------------------------------------------------------------------------
(* A call raises before it had any effect.                                 *)
CallFails(w) ==
    /\ Faulty
    /\ ~At(w, "idle")
    /\ Becomes(w, Raised(req[w]))
    /\ UNCHANGED <<famVars, docVars, sesVars, clock, hisVars>>

(* The process that serves the request dies.                               *)
Crash(w) ==
    /\ Faulty
    /\ ~At(w, "idle")
    /\ Becomes(w, Idle)
    /\ UNCHANGED <<famVars, docVars, sesVars, clock, hisVars>>

(* The TTL index and the maintenance job remove expired token documents.   *)
ExpireToken(t) ==
    /\ t \in docs
    /\ expires[t] <= clock
    /\ DeleteDocs({t})
    /\ UNCHANGED <<famVars, sesVars, clock, req, hisVars>>

Tick ==
    /\ clock < MaxClock
    /\ clock' = clock + 1
    /\ UNCHANGED <<famVars, docVars, sesVars, req, hisVars>>

SignIn(w) == CreateDoc(w) \/ CreateFamily(w) \/ CreateUndo(w)

Lookup(w) == LookupToken(w) \/ \E second \in BOOLEAN : LookupFamily(w, second)

Rotate(w) ==
    \/ Renew(w) \/ InsertCandidate(w) \/ CasWins(w) \/ CasLoses(w)
    \/ LoseDoc(w) \/ LoseState(w) \/ LoseSession(w)
    \/ Consume(w) \/ DropSession(w) \/ PullReference(w)
    \/ Finish(w) \/ Abort(w)

RevokeFamily(w) == RevokeMark(w) \/ RevokeRead(w) \/ RevokeSessions(w) \/ RevokeTokens(w)

SignOut(w) ==
    \/ ReadSession(w) \/ DeleteRow(w) \/ SignOutAnswers(w)
    \/ \E second \in BOOLEAN : FindTokens(w, second)

(* What the code does once a request has arrived.                          *)
Serve(w) == SignIn(w) \/ Lookup(w) \/ Rotate(w) \/ RevokeFamily(w) \/ SignOut(w)

Arrive(w) ==
    \/ StartSignIn(w)
    \/ \E t \in Token : StartRefresh(w, t)
    \/ \E s \in Session : StartSignOut(w, s)

Next ==
    \/ \E w \in Worker : Serve(w) \/ Arrive(w) \/ CallFails(w) \/ Crash(w)
    \/ \E t \in Token : ExpireToken(t)
    \/ Tick

Spec == Init /\ [][Next]_vars

(* A request that was accepted keeps running: the event loop resumes it    *)
(* when the database answers.  Arrivals, faults and time are not fair.     *)
FairSpec == Spec /\ \A w \in Worker : WF_vars(Serve(w))
------------------------------------------------------------------------------
(* A refresh token is exchanged at most once: whatever requests present it *)
(* at the same time and whichever calls fail, clients never receive two    *)
(* successors of one token (rotate_refresh_token's compare-and-set).       *)
ExchangedOnce ==
    \A t \in Token : \A a, b \in exchanged[t] : a = b

(* Once the family is revoked its sessions go away in later steps that may *)
(* fail, so a read relies on the family document.  The only session that   *)
(* passes the second lookup is one whose row is gone already and which a   *)
(* rotation had superseded before: every row left, and the current session *)
(* even for a reader that found its row earlier, is refused.               *)
RevocationReachesSessions ==
    revoked => \A s \in handedS \cup {docSession[active]} :
                  Vouched(s) => s \notin sessions /\ s # docSession[active]

(* What the documentation says beyond it does not hold: a session that one *)
(* read refuses is refused by the reads after it.  A winner that pulls the *)
(* old session from the revoked family between the two lookups of the next *)
(* read lets it pass.                                                      *)
RefusedStaysRefused ==
    \A w \in Worker : 2 \in req[w].found => 1 \in req[w].found

(* The clean-up of a rotation never takes away the session of the client   *)
(* that holds the live token of the family: a loser deletes only its own   *)
(* session, a winner only older ones.                                      *)
HolderKeepsSession ==
    ~revoked /\ active \in handed /\ docSession[active] \notin signedOut
        => docSession[active] \in sessions

(* A token is not exchanged after its expiry, even if it expires between   *)
(* the check of get_valid and the compare-and-set; and the expiry the      *)
(* family document carries is that of its active token, within the         *)
(* absolute age of the family.                                             *)
ExchangedInTime ==
    /\ \A w \in Worker : req[w].pc \in WonPC \cup {"finish"} => req[w].stamp < expires[req[w].cur]
    /\ active # None => /\ famExpires = expires[active]
                        /\ famExpires <= famCreated + AbsoluteAge

(* Both: what a client may expect of an exchange.                          *)
ExchangedOnceInTime == ExchangedOnce /\ ExchangedInTime

(* A late rotation cannot reopen a revoked family nor move its active      *)
(* token, and no family is ever un-revoked.                                *)
RevokedIsFinal == [][revoked => revoked' /\ active' = active]_vars

(* A revocation that was started (a token presented twice, a lost race)    *)
(* runs to its end: the family is closed and no session row that a client  *)
(* received is left.  Checked without faults.                              *)
RevocationCompletes ==
    \A w \in Worker :
        At(w, "rv_mark") ~> revoked /\ docs = {} /\ handedS \cap sessions = {}

(* Logout revokes the family of the session it ended: when sign-out is     *)
(* about to answer success and no other request is at work, the session it *)
(* names has no refresh token that can still be exchanged.  It holds when  *)
(* calls do not fail.                                                      *)
SignOutEndsFamily ==
    \A w \in Worker :
        At(w, "lo_done") /\ (\A v \in Worker \ {w} : At(v, "idle")) =>
            (active \in docs /\ docSession[active] = req[w].sid => revoked)

(* The steps of the MongoDB adapter implement the atomic family of the     *)
(* in-memory adapter: a rotation happens at the compare-and-set, a         *)
(* revocation at the update that sets the revoked flag.                    *)
Family == INSTANCE RefreshFamily WITH
    live     <- IF revoked THEN None ELSE active,
    spent    <- IF revoked THEN published ELSE published \ {active},
    closed   <- revoked,
    honoured <- IF revoked THEN {} ELSE sessions \cap famSessions

ImplementsFamily == Family!Spec
==============================================================================
