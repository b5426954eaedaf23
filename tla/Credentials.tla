----------------------------- MODULE Credentials -----------------------------
(***************************************************************************)
(* One account, the credentials issued for it and every flow that issues   *)
(* or withdraws them: sign-in with a password (and the rehash of an old    *)
(* hash), POST /auth/refresh, password reset, change and first setting of  *)
(* the password, revoking one session or all others, sign-out, and the     *)
(* administrator's suspension and reactivation.                            *)
(*                                                                         *)
(* The store is the PostgreSQL adapter: an operation is one transaction,   *)
(* except that the bulk revocation of refresh tokens first reads the       *)
(* families and then deletes them one by one under the family's lock.  The *)
(* in-memory adapter does both at once, which is one of the interleavings. *)
(* Every store call is a step; requests interleave and may die (Crash).    *)
(*                                                                         *)
(* Each sign-in starts a chain.  Its n-th pair of session and refresh      *)
(* token is the credential <<c, n>>.  Left out: lockout and challenges     *)
(* (modules of their own), expiry, the policy hook and e-mail              *)
(* verification, deletion of the account.                                  *)
(***************************************************************************)
EXTENDS Naturals, FiniteSets

CONSTANTS
    Client,         \* requests in flight at the same time
    Admin,          \* the administrator's request
    Chain,          \* sign-ins (and so refresh families); bounds their number
    First,          \* the chain of the client that is signed in at the start
    MaxGen,         \* bound on the credentials of one chain
    Password,       \* plain passwords
    Initial,        \* the first password, where the account has one
    NoPassword,     \* the account has none yet
    None,
    Mixes           \* the mixes of flows that run together, "crash" where
                    \* requests may die

AllOps == {"sign_in", "refresh", "reset", "change", "set", "revoke", "sign_out", "status"}

ASSUME IdsAssumption ==
    /\ Admin \notin Client /\ First \in Chain
    /\ Initial \in Password /\ NoPassword \notin Password
ASSUME BoundsAssumption == MaxGen \in Nat \ {0} /\ Mixes \subseteq SUBSET (AllOps \cup {"crash"})

Actor == Client \cup {Admin}
Credential == Chain \X (0 .. MaxGen - 1)
ASSUME NoneAssumption == None \notin Credential

(* A stored hash: the password it was made from, and whether it was made   *)
(* with the current parameters (needs_rehash is FALSE).                    *)
Hash == [pw : Password \cup {NoPassword}, modern : BOOLEAN]

VARIABLES
    ops,        \* the mix of flows of this behaviour
    account,    \* the stored hash
    active,     \* User.active
    sessions,   \* session rows
    tokens,     \* refresh-token rows
    used,       \* those with consumed_at set
    minted,     \* credentials generated so far in each chain
    req,        \* the requests in flight
    \* history: credentials given to a client; the password deliberately
    \* chosen last; the chains a withdrawing request must end, those it has
    \* ended, and those a suspension must end before the account is active
    \* again; whether a suspension has run to its end; the password each
    \* sign-in verified
    held, chosen, cut, ended, doomed, settled, basis

storeVars == <<account, active, sessions, tokens, used, minted>>
hisVars == <<held, chosen, cut, ended, doomed, settled, basis>>
vars == <<ops, storeVars, req, hisVars>>

SignInPC  == {"si_account", "si_rehash", "si_session", "si_check", "si_drop", "si_issue", "si_answer"}
RefreshPC == {"rf_valid", "rf_user", "rf_renew", "rf_check", "rf_drop", "rf_valid2", "rf_rotate",
              "rf_finish", "rf_abort", "rf_burn", "rf_burn2"}
WithdrawPC == {"wd_write", "wd_all", "wd_list", "wd_others", "wd_delete", "wd_one",
               "wd_find", "wd_family", "wd_done"}
StatusPC  == {"ad_write", "ad_sessions"}

Request ==
    [pc    : {"idle"} \cup SignInPC \cup RefreshPC \cup WithdrawPC \cup StatusPC,
     op    : AllOps \cup {"suspend", "activate", "none"},
     pw    : Password \cup {None},      \* the password in the request
     seen  : Hash \cup {None},          \* the account as it was read
     user  : BOOLEAN,                   \* User.active as it was read
     cur   : Credential \cup {None},    \* the caller's, or the one presented
     new   : Credential \cup {None},    \* the one being issued
     token : BOOLEAN,                   \* the client asked for a refresh token
     rows  : SUBSET Credential,         \* session rows left to delete
     fams  : SUBSET Chain]              \* families left to delete

Idle == [pc |-> "idle", op |-> "none", pw |-> None, seen |-> None, user |-> FALSE,
         cur |-> None, new |-> None, token |-> FALSE, rows |-> {}, fams |-> {}]

TypeOK ==
    /\ ops \in Mixes
    /\ account \in Hash /\ active \in BOOLEAN
    /\ sessions \subseteq Credential /\ tokens \subseteq Credential /\ used \subseteq tokens
    /\ minted \in [Chain -> 0 .. MaxGen]
    /\ req \in [Actor -> Request]
    /\ held \subseteq Credential
    /\ chosen \in Password \cup {NoPassword}
    /\ cut \in [Actor -> SUBSET Chain] /\ ended \subseteq Chain /\ doomed \subseteq Chain
    /\ settled \in BOOLEAN
    /\ basis \in [Chain -> Password \cup {NoPassword}]

(* A client has signed in, with a refresh token, before the run begins;    *)
(* without a password where the first one is yet to be set.                *)
Start == IF "set" \in ops THEN NoPassword ELSE Initial

Init ==
    /\ ops \in Mixes
    /\ account = [pw |-> Start, modern |-> FALSE]
    /\ active = TRUE
    /\ sessions = {<<First, 0>>} /\ tokens = {<<First, 0>>} /\ used = {}
    /\ minted = [c \in Chain |-> IF c = First THEN 1 ELSE 0]
    /\ req = [a \in Actor |-> Idle]
    /\ held = {<<First, 0>>}
    /\ chosen = Start
    /\ cut = [a \in Actor |-> {}] /\ ended = {} /\ doomed = {}
    /\ settled = FALSE
    /\ basis = [c \in Chain |-> Start]
------------------------------------------------------------------------------
At(w, p) == req[w].pc = p
Goto(w, p) == req' = [req EXCEPT ![w].pc = p]
Becomes(w, r) == req' = [req EXCEPT ![w] = r]
Ends(w) == Becomes(w, Idle)

(* Whether a request may start; a client's never acts for the admin.       *)
Starts(w, op) == w \in Client /\ At(w, "idle") /\ op \in ops

Held == {x[1] : x \in held}
Reading == UNCHANGED <<storeVars, hisVars>>

(* delete_refresh_token_family: the rows of the family, and the sessions   *)
(* those rows name, in one transaction under the family's lock.            *)
DeleteFamily(c) ==
    /\ tokens' = {x \in tokens : x[1] # c}
    /\ used' = {x \in used : x[1] # c}
    /\ sessions' = {x \in sessions : ~(x[1] = c /\ x \in tokens)}

DeleteRows(rows) == sessions' = sessions \ rows
------------------------------------------------------------------------------
(* complete_sign_in.  The user is read first, the account later; the       *)
(* policy is applied to the user as it was read.                           *)
SignInUser(w, pw) ==
    /\ Starts(w, "sign_in")
    /\ \E c \in Chain : minted[c] = 0
    /\ \E token \in BOOLEAN :
          Becomes(w, [Idle EXCEPT !.pc = "si_account", !.op = "sign_in", !.pw = pw,
                                  !.user = active, !.token = token])
    /\ Reading

SignInAccount(w) ==
    LET r == req[w]
    IN  /\ At(w, "si_account")
        /\ Becomes(w, IF account.pw # r.pw \/ ~r.user THEN Idle
                      ELSE [r EXCEPT !.pc = IF account.modern THEN "si_session" ELSE "si_rehash",
                                     !.seen = account])
        /\ Reading

(* replace_account_password: the new hash is stored if the old one is      *)
(* still there; otherwise a change of password won and sign-in is refused. *)
RehashMatches_Always(r) == TRUE
RehashMatches(r) == account = r.seen

SignInRehash(w) ==
    LET r == req[w]
    IN  /\ At(w, "si_rehash")
        /\ IF RehashMatches(r)
           THEN /\ account' = [pw |-> r.pw, modern |-> TRUE]
                /\ Goto(w, "si_session")
           ELSE /\ Ends(w)
                /\ UNCHANGED account
        /\ UNCHANGED <<active, sessions, tokens, used, minted, hisVars>>

SignInSession(w) ==
    LET r == req[w]
    IN  /\ At(w, "si_session")
        /\ \E c \in Chain :
              /\ minted[c] = 0
              /\ sessions' = sessions \cup {<<c, 0>>}
              /\ minted' = [minted EXCEPT ![c] = 1]
              /\ basis' = [basis EXCEPT ![c] = r.pw]
              /\ Becomes(w, [r EXCEPT !.pc = "si_check", !.new = <<c, 0>>])
        /\ UNCHANGED <<account, active, tokens, used, held, chosen, cut, ended, doomed, settled>>

(* check_issued_user: the user is read again once the session exists.      *)
IssuedUserOK_Skipped(r) == TRUE
IssuedUserOK(r) == active

SignInCheck(w) ==
    LET r == req[w]
    IN  /\ At(w, "si_check")
        /\ Goto(w, IF ~IssuedUserOK(r) THEN "si_drop"
                   ELSE IF r.token THEN "si_issue" ELSE "si_answer")
        /\ Reading

SignInDrop(w) ==
    /\ At(w, "si_drop")
    /\ DeleteRows({req[w].new})
    /\ Ends(w)
    /\ UNCHANGED <<account, active, tokens, used, minted, hisVars>>

(* maybe_issue_refresh_token.                                              *)
SignInIssue_ForCaller(w) ==
    /\ At(w, "si_issue")
    /\ tokens' = tokens \cup {req[w].cur}
    /\ Goto(w, "si_answer")
    /\ UNCHANGED <<account, active, sessions, used, minted, hisVars>>

SignInIssue(w) ==
    /\ At(w, "si_issue")
    /\ tokens' = tokens \cup {req[w].new}
    /\ Goto(w, "si_answer")
    /\ UNCHANGED <<account, active, sessions, used, minted, hisVars>>

SignInAnswer(w) ==
    /\ At(w, "si_answer")
    /\ held' = held \cup {req[w].new}
    /\ Ends(w)
    /\ UNCHANGED <<storeVars, chosen, cut, ended, doomed, settled, basis>>

SignIn(w) ==
    \/ SignInAccount(w) \/ SignInRehash(w) \/ SignInSession(w) \/ SignInCheck(w)
    \/ SignInDrop(w) \/ SignInIssue(w) \/ SignInAnswer(w)
------------------------------------------------------------------------------
(* refresh_session with a token some client was given.                     *)
RefreshStart(w, x) ==
    /\ Starts(w, "refresh")
    /\ x \in held
    /\ Becomes(w, [Idle EXCEPT !.pc = "rf_valid", !.op = "refresh", !.cur = x])
    /\ Reading

(* get_valid: unknown, used, or good.  It runs once in the flow and once   *)
(* in rotate, where a refusal also deletes the replacement session.        *)
RefreshValid(w, second) ==
    LET x == req[w].cur
    IN  /\ At(w, IF second THEN "rf_valid2" ELSE "rf_valid")
        /\ \/ /\ x \notin tokens
              /\ IF second THEN Goto(w, "rf_abort") ELSE Ends(w)
           \/ x \in used /\ Goto(w, IF second THEN "rf_burn2" ELSE "rf_burn")
           \/ x \in tokens \ used /\ Goto(w, IF second THEN "rf_rotate" ELSE "rf_user")
        /\ Reading

RefreshUser(w) ==
    /\ At(w, "rf_user")
    /\ Becomes(w, IF active THEN [req[w] EXCEPT !.pc = "rf_renew", !.user = TRUE] ELSE Idle)
    /\ Reading

RefreshRenew(w) ==
    LET r == req[w]
        c == r.cur[1]
        new == <<c, minted[c]>>
    IN  /\ At(w, "rf_renew")
        /\ minted[c] < MaxGen
        /\ sessions' = sessions \cup {new}
        /\ minted' = [minted EXCEPT ![c] = @ + 1]
        /\ Becomes(w, [r EXCEPT !.pc = "rf_check", !.new = new])
        /\ UNCHANGED <<account, active, tokens, used, hisVars>>

RefreshCheck(w) ==
    /\ At(w, "rf_check")
    /\ Goto(w, IF IssuedUserOK(req[w]) THEN "rf_valid2" ELSE "rf_drop")
    /\ Reading

(* rotate_refresh_token: one transaction under the family's lock.          *)
MayRotate_Always(x) == TRUE
MayRotate(x) == x \in tokens \ used

RefreshRotate(w) ==
    LET r == req[w]
    IN  /\ At(w, "rf_rotate")
        /\ IF MayRotate(r.cur)
           THEN /\ used' = used \cup (tokens \cap {r.cur})
                /\ tokens' = tokens \cup {r.new}
                /\ Goto(w, "rf_finish")
           ELSE /\ Goto(w, "rf_burn2")
                /\ UNCHANGED <<tokens, used>>
        /\ UNCHANGED <<account, active, sessions, minted, hisVars>>

RefreshFinish(w) ==
    LET r == req[w]
    IN  /\ At(w, "rf_finish")
        /\ DeleteRows({r.cur})
        /\ held' = held \cup {r.new}
        /\ Ends(w)
        /\ UNCHANGED <<account, active, tokens, used, minted, chosen, cut, ended, doomed,
                       settled, basis>>

(* A token presented twice ends its family.                                *)
RefreshBurn(w, second) ==
    /\ At(w, IF second THEN "rf_burn2" ELSE "rf_burn")
    /\ DeleteFamily(req[w].cur[1])
    /\ IF second THEN Goto(w, "rf_abort") ELSE Ends(w)
    /\ UNCHANGED <<account, active, minted, hisVars>>

RefreshAbort(w) ==
    /\ At(w, "rf_abort") \/ At(w, "rf_drop")
    /\ DeleteRows({req[w].new})
    /\ Ends(w)
    /\ UNCHANGED <<account, active, tokens, used, minted, hisVars>>

Refresh(w) ==
    \/ \E second \in BOOLEAN : RefreshValid(w, second) \/ RefreshBurn(w, second)
    \/ RefreshUser(w) \/ RefreshRenew(w) \/ RefreshCheck(w) \/ RefreshRotate(w)
    \/ RefreshFinish(w) \/ RefreshAbort(w)
------------------------------------------------------------------------------
(* The flows that withdraw credentials.  All but reset and sign-out run    *)
(* for a caller whose session the request has just been authenticated by.  *)
Authenticated(s) == s \in sessions \cap held /\ active

(* reset_password, once its challenge is consumed: the account is read     *)
(* (and only the password of that row changes).                            *)
ResetStart(w, pw) ==
    /\ Starts(w, "reset")
    /\ Becomes(w, [Idle EXCEPT !.pc = "wd_write", !.op = "reset", !.pw = pw, !.seen = account])
    /\ Reading

(* change_password: the current password must verify against the account.  *)
ChangeStart(w, s, pw) ==
    /\ Starts(w, "change")
    /\ Authenticated(s)
    /\ account.pw # NoPassword
    /\ Becomes(w, [Idle EXCEPT !.pc = "wd_write", !.op = "change", !.pw = pw, !.seen = account,
                               !.cur = s])
    /\ Reading

(* set_password: only for an account that has none.                        *)
SetStart(w, s, pw) ==
    /\ Starts(w, "set")
    /\ Authenticated(s)
    /\ account.pw = NoPassword
    /\ Becomes(w, [Idle EXCEPT !.pc = "wd_write", !.op = "set", !.pw = pw, !.seen = account,
                               !.cur = s])
    /\ Reading

(* update_account writes the row back, whatever it holds by now.  reset    *)
(* then drops every session, change lists them, set drops all others;      *)
(* change and set may be asked to leave them alone.                        *)
Write(w) ==
    LET r == req[w]
        next == [reset |-> "wd_all", change |-> "wd_list", set |-> "wd_others"]
    IN  /\ At(w, "wd_write")
        /\ account' = [pw |-> r.pw, modern |-> TRUE]
        /\ chosen' = r.pw
        /\ \/ /\ Goto(w, next[r.op])
              /\ cut' = [cut EXCEPT ![w] =
                            IF r.op = "reset" THEN Held ELSE Held \ {r.cur[1]}]
           \/ /\ r.op # "reset"
              /\ Ends(w)
              /\ UNCHANGED cut
        /\ UNCHANGED <<active, sessions, tokens, used, minted, held, ended, doomed, settled, basis>>

(* session_strategy.revoke_all.                                            *)
DropAll(w) ==
    /\ At(w, "wd_all")
    /\ DeleteRows(sessions)
    /\ Goto(w, "wd_find")
    /\ UNCHANGED <<account, active, tokens, used, minted, hisVars>>

(* delete_sessions_for_user except the caller's: one statement.            *)
DropOthers(w) ==
    /\ At(w, "wd_others")
    /\ DeleteRows(sessions \ {req[w].cur})
    /\ Goto(w, "wd_find")
    /\ UNCHANGED <<account, active, tokens, used, minted, hisVars>>

(* change_password lists the sessions and deletes them one by one.         *)
ListOthers(w) ==
    LET others == sessions \ {req[w].cur}
    IN  /\ At(w, "wd_list")
        /\ Becomes(w, [req[w] EXCEPT !.rows = others,
                                     !.pc = IF others = {} THEN "wd_find" ELSE "wd_delete"])
        /\ Reading

DeleteListed(w) ==
    LET r == req[w]
    IN  /\ At(w, "wd_delete")
        /\ \E s \in r.rows :
              /\ DeleteRows({s})
              /\ Becomes(w, [r EXCEPT !.rows = @ \ {s},
                                      !.pc = IF r.rows = {s} THEN "wd_find" ELSE "wd_delete"])
        /\ UNCHANGED <<account, active, tokens, used, minted, hisVars>>

(* revoke_other_sessions of flows/sessions.py.                             *)
RevokeOthersStart(w, s) ==
    /\ Starts(w, "revoke")
    /\ Authenticated(s)
    /\ Becomes(w, [Idle EXCEPT !.pc = "wd_others", !.op = "revoke", !.cur = s])
    /\ cut' = [cut EXCEPT ![w] = Held \ {s[1]}]
    /\ UNCHANGED <<storeVars, held, chosen, ended, doomed, settled, basis>>

(* revoke_session and sign_out: the session named was found by a read; it  *)
(* goes first, then the families of its tokens.  sign_out reads below the  *)
(* account policy: it also works for a suspended user.                     *)
EndSessionStart(w, s, op) ==
    /\ Starts(w, op)
    /\ op \in {"revoke", "sign_out"}
    /\ s \in sessions \cap held
    /\ op = "revoke" => active
    /\ Becomes(w, [Idle EXCEPT !.pc = "wd_one", !.op = "sign_out", !.cur = s])
    /\ cut' = [cut EXCEPT ![w] = {s[1]}]
    /\ UNCHANGED <<storeVars, held, chosen, ended, doomed, settled, basis>>

EndSession(w) ==
    /\ At(w, "wd_one")
    /\ DeleteRows({req[w].cur})
    /\ Goto(w, "wd_find")
    /\ UNCHANGED <<account, active, tokens, used, minted, hisVars>>

(* delete_refresh_tokens_for_user / _for_session: which families go.  The  *)
(* caller's family is the one with a row, consumed or not, of its session. *)
FamiliesOf(rows) == {x[1] : x \in rows}
Doomed(r) ==
    CASE r.op = "sign_out" -> FamiliesOf(tokens \cap {r.cur})
      [] OTHER -> FamiliesOf(tokens) \ FamiliesOf(tokens \cap {r.cur})

FindFamilies(w) ==
    LET fams == Doomed(req[w])
        last == IF req[w].op \in {"suspend", "activate"} THEN "ad_sessions" ELSE "wd_done"
    IN  /\ At(w, "wd_find")
        /\ Becomes(w, [req[w] EXCEPT !.fams = fams, !.pc = IF fams = {} THEN last ELSE "wd_family"])
        /\ Reading

DropFamily(w) ==
    LET r == req[w]
        last == IF r.op \in {"suspend", "activate"} THEN "ad_sessions" ELSE "wd_done"
    IN  /\ At(w, "wd_family")
        /\ \E c \in r.fams :
              /\ DeleteFamily(c)
              /\ Becomes(w, [r EXCEPT !.fams = @ \ {c},
                                      !.pc = IF r.fams = {c} THEN last ELSE "wd_family"])
        /\ UNCHANGED <<account, active, minted, hisVars>>

Answer(w) ==
    /\ At(w, "wd_done")
    /\ Ends(w)
    /\ ended' = ended \cup cut[w]
    /\ cut' = [cut EXCEPT ![w] = {}]
    /\ UNCHANGED <<storeVars, held, chosen, doomed, settled, basis>>

Withdraw(w) ==
    \/ Write(w) \/ DropAll(w) \/ DropOthers(w) \/ ListOthers(w) \/ DeleteListed(w)
    \/ EndSession(w) \/ FindFamilies(w) \/ DropFamily(w) \/ Answer(w)
------------------------------------------------------------------------------
(* set_active.  Suspension writes the flag first, then deletes what is     *)
(* stored; reactivation deletes first.                                     *)
SuspendStart ==
    /\ At(Admin, "idle") /\ "status" \in ops
    /\ Becomes(Admin, [Idle EXCEPT !.pc = "ad_write", !.op = "suspend"])
    /\ Reading

ActivateStart ==
    /\ At(Admin, "idle") /\ "status" \in ops
    /\ Becomes(Admin, [Idle EXCEPT !.op = "activate", !.user = active,
                                   !.pc = IF active THEN "ad_write" ELSE "wd_find"])
    /\ Reading

StatusWrite ==
    LET r == req[Admin]
        on == r.op = "activate"
    IN  /\ At(Admin, "ad_write")
        /\ active' = on
        /\ IF on THEN Ends(Admin) ELSE Goto(Admin, "wd_find")
        /\ doomed' = IF on THEN {} ELSE doomed \cup Held
        /\ ended' = IF on THEN ended \cup doomed ELSE ended
        /\ settled' = FALSE
        /\ UNCHANGED <<account, sessions, tokens, used, minted, held, chosen, cut, basis>>

StatusSessions ==
    LET on == req[Admin].op = "activate"
    IN  /\ At(Admin, "ad_sessions")
        /\ DeleteRows(sessions)
        /\ IF on THEN Goto(Admin, "ad_write") ELSE Ends(Admin)
        /\ settled' = ~on
        /\ UNCHANGED <<account, active, tokens, used, minted, held, chosen, cut, ended, doomed,
                       basis>>

Status ==
    \/ SuspendStart \/ ActivateStart \/ StatusWrite \/ StatusSessions
    \/ FindFamilies(Admin) \/ DropFamily(Admin)
------------------------------------------------------------------------------
(* A request dies: what it had promised to end is not promised any more.   *)
Crash(w) ==
    /\ "crash" \in ops
    /\ ~At(w, "idle")
    /\ Ends(w)
    /\ cut' = [cut EXCEPT ![w] = {}]
    /\ UNCHANGED <<storeVars, held, chosen, ended, doomed, settled, basis>>

Arrive(w) ==
    \/ \E pw \in Password : SignInUser(w, pw) \/ ResetStart(w, pw)
    \/ \E x \in Credential : RefreshStart(w, x) \/ RevokeOthersStart(w, x)
    \/ \E x \in Credential, pw \in Password : ChangeStart(w, x, pw) \/ SetStart(w, x, pw)
    \/ \E x \in Credential, op \in {"revoke", "sign_out"} : EndSessionStart(w, x, op)

Next ==
    /\ ops' = ops
    /\ \/ \E w \in Client : Arrive(w) \/ SignIn(w) \/ Refresh(w) \/ Withdraw(w)
       \/ Status
       \/ \E w \in Actor : Crash(w)

Spec == Init /\ [][Next]_vars
------------------------------------------------------------------------------
(* The stored hash always opens with the password that was deliberately    *)
(* chosen last: the rehash of a sign-in upgrades the hash and never brings *)
(* back a password that a concurrent reset or change replaced.             *)
PasswordIsChosen == account.pw = chosen

(* Once a withdrawing flow has answered, no refresh token of the chains it *)
(* had to end is stored, and no session a client was given from them, even *)
(* if a refresh of such a chain was running at any point of the flow.      *)
RevocationIsComplete ==
    /\ \A x \in tokens : x[1] \notin ended
    /\ \A x \in sessions \cap held : x[1] \notin ended

(* Once a suspension has run to its end, no client holds a stored session, *)
(* also not one that sign-in or refresh was issuing meanwhile ("close the  *)
(* issue-versus-suspension race before returning credentials").            *)
SuspendedHoldsNoSession == settled => sessions \cap held = {}

(* Changing or setting the password, or revoking all other sessions, never *)
(* ends the refresh family of the caller, even after it was rotated.       *)
CallersFamilyStays ==
    \A w \in Client :
        req[w].op \in {"change", "set", "revoke"} => req[w].fams \cap FamiliesOf({req[w].cur}) = {}

(* Both: a withdrawing flow ends all that it has to end, and not what the  *)
(* caller keeps.                                                           *)
RevocationIsExact == RevocationIsComplete /\ CallersFamilyStays

Quiet == \A w \in Actor : At(w, "idle")

(* After a password reset no credential of a sign-in that verified another *)
(* password is left ("Compromised cookies or refresh tokens cannot survive *)
(* a password change").  It fails: see the README.                         *)
OldPasswordIsGone ==
    Quiet => \A x \in (sessions \cap held) \cup tokens : basis[x[1]] = chosen

(* The session from which the password was changed, or the one that        *)
(* replaced it, is alive after the change ("The current session always     *)
(* stays alive").  It fails when that session is being refreshed.          *)
CallersSessionStays ==
    \A w \in Client :
        At(w, "wd_done") /\ req[w].op = "change" /\ (\A v \in Actor \ {w} : At(v, "idle"))
            => \E x \in sessions : x[1] = req[w].cur[1]
==============================================================================
