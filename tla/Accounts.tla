------------------------------ MODULE Accounts ------------------------------
(***************************************************************************)
(* How an identity comes to be and how it goes: persist_user_account with  *)
(* its compensation, the sessions, accounts, API keys and challenges that  *)
(* are added to a user, and delete_user, on each of the three stores.      *)
(* What a password, a challenge or an address is worth is in the modules   *)
(* Credentials, Challenge and Identity; an address never changes here.     *)
(***************************************************************************)
EXTENDS Naturals, Sequences, FiniteSets

CONSTANTS
    Request,        \* calls in flight; a user is named for the call that creates it
    Old,            \* a user there from the start, with a session
    Email, Username, None,
    Confs           \* the cases to look at, see Init

Id == Request \cup {Old}
Creators == {"sign_up", "create_user", "otp"}
Ops == Creators \cup {"sign_in", "delete", "confirm_delete", "request_delete", "add_key", "forgot_password",
                       "set_password", "rename", "read"}
Challenges == {"reset", "deletion"}
Kind == {"session", "credential", "email_otp", "api_key"} \cup Challenges
(* A challenge belongs to an address, everything else to a user.           *)
Row == [kind : Kind, of : Id \cup Email, by : Id]

(* The in-memory store has no calls that fail.                             *)
ASSUME ConfAssumption ==
    \A c \in Confs :
        /\ c.store \in {"memory", "postgres", "mongo"} /\ c.door \in {"http", "sdk"} /\ c.op \in [Request -> Ops]
        /\ c.email \in Email /\ c.emails \subseteq Email /\ c.names \subseteq Username \cup {None}
        /\ c.has \subseteq Kind /\ (c.store = "memory" => c.fails \cap {"call", "ack"} = {})
ASSUME NameAssumption ==
    /\ Old \notin Request /\ Id \cap Email = {}
    /\ None \notin Id \cup Email \cup Username \cup [email : Email, name : Username \cup {None}]
    /\ None \notin {"ok", "failed", "duplicate", "cancelled", "delete", "undo"}

VARIABLES
    conf,           \* store; op: what each request does; fails: what may fail; door: how it
                    \* comes in; has: what the old user has; emails, names: inputs
    users,          \* id -> the user's row, or None
    rows,           \* what refers to a user, but for refresh tokens, in one set
    req,
    gone,           \* history: users whose deletion was answered with success
    raced           \* history: rows added while their user was being deleted, or later

vars == <<conf, users, rows, req, gone, raced>>

(* persisted: history, persist_user_account returned.  undone: its         *)
(* compensation went through.  late: the user had gone when the call came. *)
NoRequest ==
    [pc |-> "new", user |-> None, email |-> None, name |-> None, token |-> None, todo |-> <<>>, at |-> 0,
     cause |-> None, cancelled |-> FALSE, persisted |-> FALSE, undone |-> TRUE, late |-> FALSE, answer |-> None]

Pc == {"new", "door", "find", "check", "insert", "account", "password", "verify", "has", "session", "issued",
       "revoke", "add", "lookup", "write", "sweep", "done"}

TypeOK ==
    /\ conf \in Confs
    /\ users \in [Id -> [email : Email, name : Username \cup {None}] \cup {None}]
    /\ rows \subseteq Row /\ raced \subseteq Row /\ gone \subseteq Id
    /\ \A r \in Request :
        /\ req[r].pc \in Pc /\ req[r].user \in Id \cup {None} /\ req[r].at \in 0 .. 5
        /\ req[r].answer \in {None, "ok", "failed", "duplicate", "cancelled"}
        /\ req[r].pc = "done" <=> req[r].answer # None
        /\ req[r].cause = "undo" => req[r].user = r

First == [kind |-> "session", of |-> Old, by |-> Old]

Init ==
    /\ conf \in Confs
    /\ users = [i \in Id |-> IF i = Old THEN [email |-> conf.email, name |-> None] ELSE None]
    /\ rows = {First} \cup {[kind |-> k, of |-> IF k \in Challenges THEN conf.email ELSE Old, by |-> Old] :
                            k \in conf.has}
    /\ req = [r \in Request |-> NoRequest]
    /\ gone = {} /\ raced = {}
------------------------------------------------------------------------------
Op(r) == conf.op[r]
At(r, pc) == req[r].pc = pc
Put(r, q) == req' = [req EXCEPT ![r] = q]
Go(q, pc) == [q EXCEPT !.pc = pc]
Answer(q, a) == [q EXCEPT !.pc = "done", !.answer = a]
MayFail(part) == part \in conf.fails

(* What a store call may do: succeed; fail; do its work, and fail.         *)
Outcome == {"ok"} \cup ({"call", "ack"} \cap conf.fails)

Postgres == conf.store = "postgres"
Exists(i) == users[i] # None
Owner(email) == {i \in Id : Exists(i) /\ users[i].email = email}

(* The unique keys of the users: both, in every store.                     *)
Taken(id, u) ==
    \E j \in Id \ {id} :
        Exists(j) /\ (users[j].email = u.email \/ (u.name # None /\ users[j].name = u.name))

NameTaken(id, name) == \E j \in Id \ {id} : Exists(j) /\ users[j].name = name

(* Foreign keys exist in PostgreSQL only, and not for challenges; that  *)
(* a user has one account of a kind is not checked in memory.              *)
Refused(row) ==
    \/ Postgres /\ row.kind \notin Challenges /\ ~Exists(row.of)
    \/ conf.store # "memory" /\ row.kind \in {"credential", "email_otp"}
          /\ \E w \in rows : w.kind = row.kind /\ w.of = row.of

(* The row's user is being deleted, or has been.                           *)
Owned(row) == IF row.kind \in Challenges THEN Owner(row.of) # {} ELSE Exists(row.of)

Raced(row) ==
    ~Owned(row) \/ \E q \in Request : At(q, "sweep") /\ row.of \in {req[q].user, req[q].email}

(* A challenge replaces the one for the same address.                      *)
Replaced(row) == IF row.kind \in Challenges THEN {w \in rows : w.kind = row.kind /\ w.of = row.of} ELSE {}

Add(row) ==
    /\ rows' = (rows \ Replaced(row)) \cup {row}
    /\ raced' = IF Raced(row) THEN raced \cup {row} ELSE raced
------------------------------------------------------------------------------
(* A call arrives.  The door of HTTP reads the session and then its user,  *)
(* that of the server API the user and, for set_password, its sessions.    *)
Door(op) ==
    IF conf.door = "http" THEN <<"session", "user">>
    ELSE IF op = "set_password" THEN <<"user", "session">> ELSE <<"user">>

Start(r) ==
    LET new == NoRequest
        op == Op(r)
    IN  /\ At(r, "new")
        /\ \/ op \in {"sign_up", "create_user"}
              /\ \E e \in conf.emails, n \in conf.names :
                  Put(r, [new EXCEPT !.email = e, !.name = n,
                                     !.pc = IF n # None /\ conf.store # "memory" THEN "check" ELSE "insert"])
           \/ op \in {"otp", "sign_in", "forgot_password"}
              /\ \E e \in conf.emails : Put(r, [new EXCEPT !.email = e, !.pc = "find"])
           \/ op \in {"delete", "confirm_delete", "request_delete", "add_key", "set_password", "rename", "read"}
              /\ \E w \in {First} \cup {v \in rows : v.kind = "session"}, n \in conf.names :
                  /\ op # "rename" => n = CHOOSE m \in conf.names : TRUE
                  /\ op = "rename" => n # None
                  /\ Put(r, [new EXCEPT !.token = w, !.user = w.of, !.name = n, !.todo = Door(op), !.pc = "door",
                                        !.late = w.of \in gone])
        /\ UNCHANGED <<conf, users, rows, gone, raced>>

(* Then every operation goes its own way, with the user that it has read.  *)
Begin(q, op) ==
    CASE op \in {"delete", "confirm_delete"} -> [q EXCEPT !.pc = "verify", !.email = users[q.user].email]
      [] op \in {"add_key", "request_delete"} -> [q EXCEPT !.pc = "add", !.email = users[q.user].email]
      [] op = "set_password" -> Go(q, "has")
      [] op = "rename" -> Go(q, "lookup")
      [] op = "read" -> Answer(q, "ok")

EnterDoor(r) ==
    LET q == req[r]
        found == IF Head(q.todo) = "user" THEN Exists(q.user)
                 ELSE IF conf.door = "http" THEN q.token \in rows
                 ELSE \E w \in rows : w.kind = "session" /\ w.of = q.user
    IN  /\ At(r, "door")
        /\ Put(r, IF ~found THEN Answer(q, "failed")
                  ELSE IF Len(q.todo) > 1 THEN [q EXCEPT !.todo = Tail(@)]
                  ELSE Begin(q, Op(r)))
        /\ UNCHANGED <<conf, users, rows, gone, raced>>

(* Sign-in and a challenge find the user by its address; a code for an     *)
(* address that nobody has makes a new user.                               *)
Find(r) ==
    LET q == req[r]
        found == Owner(q.email)
    IN  /\ At(r, "find")
        /\ IF found = {}
           THEN Put(r, CASE Op(r) = "otp" -> Go(q, "insert")
                         [] Op(r) = "sign_in" -> Answer(q, "failed")
                         [] Op(r) = "forgot_password" -> Answer(q, "ok"))
           ELSE \E i \in found :
                  Put(r, [q EXCEPT !.user = i, !.pc = CASE Op(r) = "otp" -> "session"
                                                        [] Op(r) = "sign_in" -> "password"
                                                        [] Op(r) = "forgot_password" -> "add"])
        /\ UNCHANGED <<conf, users, rows, gone, raced>>

Undo_Assigned(q, r) == [q EXCEPT !.pc = "sweep", !.cause = "undo"]

Undo(q, r) == [q EXCEPT !.pc = "sweep", !.cause = "undo", !.user = r]

(* create_user: outside memory the name is looked up before the insertion. *)
CheckName(r) ==
    /\ At(r, "check")
    /\ \E o \in Outcome :
        Put(r, IF o # "ok" THEN Undo(req[r], r)
               ELSE IF NameTaken(r, req[r].name) THEN Answer(req[r], "duplicate") ELSE Go(req[r], "insert"))
    /\ UNCHANGED <<conf, users, rows, gone, raced>>

InsertUser(r) ==
    LET new == [email |-> req[r].email, name |-> req[r].name]
    IN  /\ At(r, "insert")
        /\ \E o \in Outcome :
            /\ users' = IF o = "call" \/ Taken(r, new) THEN users ELSE [users EXCEPT ![r] = new]
            /\ Put(r, IF o # "ok" THEN Undo(req[r], r)
                      ELSE IF Taken(r, new) THEN Answer(req[r], "duplicate")
                      ELSE [req[r] EXCEPT !.pc = "account", !.user = r])
        /\ UNCHANGED <<conf, rows, gone, raced>>

(* A cancelled call waits for the section above and below to finish.       *)
Cancel_AtOnce(q) == Answer(q, "cancelled")

Cancel(q) == [q EXCEPT !.cancelled = TRUE]

CancelCall(r) ==
    /\ MayFail("cancel") /\ Op(r) \in Creators /\ req[r].pc \in {"check", "insert", "account"}
    /\ ~req[r].cancelled
    /\ Put(r, Cancel(req[r]))
    /\ UNCHANGED <<conf, users, rows, gone, raced>>

Persisted(q, r) ==
    LET p == [q EXCEPT !.persisted = TRUE]
    IN  IF q.cancelled THEN Answer(p, "cancelled")
        ELSE IF Op(r) = "create_user" THEN Answer(p, "ok") ELSE Go(p, "session")

InsertAccount(r) ==
    LET row == [kind |-> IF Op(r) = "otp" THEN "email_otp" ELSE "credential", of |-> r, by |-> r]
    IN  /\ At(r, "account")
        /\ \E o \in Outcome :
            /\ IF o = "call" \/ Refused(row) THEN UNCHANGED <<rows, raced>> ELSE Add(row)
            /\ Put(r, IF o # "ok" \/ Refused(row) THEN Undo(req[r], r) ELSE Persisted(req[r], r))
        /\ UNCHANGED <<conf, users, gone>>
------------------------------------------------------------------------------
(* delete_user.  In memory and in PostgreSQL it is one step; in MongoDB a  *)
(* command for each collection, the user last, none if the user is gone.   *)
(* The sweep of the refresh tokens, between the first two, is left out.    *)
Of(i, kinds) == {w \in rows : w.of = i /\ w.kind \in kinds}

Doomed(q, kinds) == Of(q.user, kinds) \cup Of(q.email, kinds)

Sweeps_UserFirst == <<{"user"}, {"session"}, {"credential", "email_otp"}, {"api_key"}, Challenges>>

Sweeps == <<{"session"}, {"credential", "email_otp"}, {"api_key"}, Challenges, {"user"}>>

(* delete_account_state after the store call, and the compensation.        *)
Swept(q, done) ==
    IF q.cause = "undo" THEN [Answer(q, "failed") EXCEPT !.undone = done]
    ELSE Answer(q, IF done THEN "ok" ELSE "failed")

Delete(r, kinds, last) ==
    LET q == req[r]
        i == q.user
    IN  \E o \in Outcome :
            /\ rows' = IF o = "call" THEN rows ELSE rows \ Doomed(q, kinds)
            /\ users' = IF o # "call" /\ "user" \in kinds THEN [users EXCEPT ![i] = None] ELSE users
            /\ Put(r, IF o # "ok" THEN Swept(q, FALSE) ELSE IF last THEN Swept(q, TRUE) ELSE [q EXCEPT !.at = @ + 1])
            /\ gone' = IF o = "ok" /\ last /\ q.cause = "delete" THEN gone \cup {i} ELSE gone
            /\ UNCHANGED <<conf, raced>>

DeleteAtOnce(r) ==
    LET all == IF Exists(req[r].user) THEN Kind ELSE Kind \ Challenges
    IN  At(r, "sweep") /\ conf.store # "mongo" /\ Delete(r, all \cup {"user"}, TRUE)

FindDeleted(r) ==
    LET i == req[r].user
    IN  /\ At(r, "sweep") /\ conf.store = "mongo" /\ req[r].at = 0
        /\ IF Exists(i) THEN Put(r, [req[r] EXCEPT !.at = 1]) /\ gone' = gone
           ELSE /\ Put(r, Swept(req[r], TRUE))
                /\ gone' = IF req[r].cause = "delete" THEN gone \cup {i} ELSE gone
        /\ UNCHANGED <<conf, users, rows, raced>>

DeleteNext(r) ==
    /\ At(r, "sweep") /\ conf.store = "mongo" /\ req[r].at # 0
    /\ Delete(r, Sweeps[req[r].at], req[r].at = Len(Sweeps))

(* A deletion needs the password, or the code that was sent, which is then *)
(* consumed, whatever becomes of the deletion.                             *)
VerifyDeletion(r) ==
    LET q == req[r]
        code == Of(q.email, {"deletion"})
    IN  /\ At(r, "verify")
        /\ \/ Put(r, Answer(q, "failed")) /\ UNCHANGED rows
           \/ /\ IF Op(r) = "delete" THEN Of(q.user, {"credential"}) # {} /\ UNCHANGED rows
                 ELSE code # {} /\ rows' = rows \ code
              /\ Put(r, [q EXCEPT !.pc = "sweep", !.cause = "delete"])
        /\ UNCHANGED <<conf, users, gone, raced>>

(* A hook before the deletion may stop it.                                 *)
Abort(r) ==
    /\ At(r, "sweep") /\ req[r].cause = "delete" /\ req[r].at = 0 /\ MayFail("hook")
    /\ Put(r, Answer(req[r], "failed"))
    /\ UNCHANGED <<conf, users, rows, gone, raced>>
------------------------------------------------------------------------------
(* PolicySessionStrategy.create: the session is inserted, and then the     *)
(* user is read again.                                                     *)
CheckPassword(r) ==
    /\ At(r, "password")
    /\ Put(r, IF Of(req[r].user, {"credential"}) = {} THEN Answer(req[r], "failed") ELSE Go(req[r], "session"))
    /\ UNCHANGED <<conf, users, rows, gone, raced>>

IssueSession(r) ==
    LET row == [kind |-> "session", of |-> req[r].user, by |-> r]
    IN  /\ At(r, "session")
        /\ \E o \in Outcome :
            /\ IF o = "call" \/ Refused(row) THEN UNCHANGED <<rows, raced>> ELSE Add(row)
            /\ Put(r, IF o # "ok" \/ Refused(row) THEN Answer(req[r], "failed") ELSE Go(req[r], "issued"))
        /\ UNCHANGED <<conf, users, gone>>

Checked(q) == IF Exists(q.user) THEN Answer(q, "ok") ELSE Go(q, "revoke")

CheckIssued(r) ==
    /\ At(r, "issued") /\ Put(r, Checked(req[r]))
    /\ UNCHANGED <<conf, users, rows, gone, raced>>

RevokeIssued(r) ==
    /\ At(r, "revoke")
    /\ rows' = rows \ {[kind |-> "session", of |-> req[r].user, by |-> r]}
    /\ Put(r, Answer(req[r], "failed"))
    /\ UNCHANGED <<conf, users, gone, raced>>

(* set_password makes the missing account of a user who has none.          *)
HasPassword(r) ==
    /\ At(r, "has")
    /\ Put(r, IF Of(req[r].user, {"credential"}) # {} THEN Answer(req[r], "failed") ELSE Go(req[r], "add"))
    /\ UNCHANGED <<conf, users, rows, gone, raced>>

Challenge(r) ==
    [kind |-> IF Op(r) = "request_delete" THEN "deletion" ELSE "reset", of |-> req[r].email, by |-> r]

AddRow(r) ==
    LET row == CASE Op(r) = "add_key" -> [kind |-> "api_key", of |-> req[r].user, by |-> r]
                 [] Op(r) = "set_password" -> [kind |-> "credential", of |-> req[r].user, by |-> r]
                 [] OTHER -> Challenge(r)
    IN  /\ At(r, "add")
        /\ IF Refused(row) THEN Put(r, Answer(req[r], "failed")) /\ UNCHANGED <<rows, raced>>
           ELSE Put(r, Answer(req[r], "ok")) /\ Add(row)
        /\ UNCHANGED <<conf, users, gone>>

(* update_user of the name: looked up first, and then written with the     *)
(* rest of the row, unless that has gone or the name is taken.             *)
LookupName(r) ==
    /\ At(r, "lookup")
    /\ Put(r, IF NameTaken(req[r].user, req[r].name) THEN Answer(req[r], "duplicate") ELSE Go(req[r], "write"))
    /\ UNCHANGED <<conf, users, rows, gone, raced>>

WriteName(r) ==
    LET i == req[r].user
        new == [users[i] EXCEPT !.name = req[r].name]
    IN  /\ At(r, "write")
        /\ IF ~Exists(i) THEN Put(r, Answer(req[r], "failed")) /\ users' = users
           ELSE IF NameTaken(i, req[r].name) THEN Put(r, Answer(req[r], "duplicate")) /\ users' = users
           ELSE Put(r, Answer(req[r], "ok")) /\ users' = [users EXCEPT ![i] = new]
        /\ UNCHANGED <<conf, rows, gone, raced>>

Step(r) ==
    \/ EnterDoor(r) \/ Find(r) \/ CheckName(r) \/ InsertUser(r) \/ CancelCall(r) \/ InsertAccount(r)
    \/ VerifyDeletion(r) \/ DeleteAtOnce(r) \/ FindDeleted(r) \/ DeleteNext(r) \/ Abort(r)
    \/ CheckPassword(r) \/ IssueSession(r) \/ CheckIssued(r) \/ RevokeIssued(r)
    \/ HasPassword(r) \/ AddRow(r) \/ LookupName(r) \/ WriteName(r)

Next == \E r \in Request : Start(r) \/ Step(r)

Spec == Init /\ [][Next]_vars
------------------------------------------------------------------------------
(* "Commit a usable identity or compensate": a creation that was committed *)
(* left a user with its account, whatever happens afterwards but its       *)
(* deletion, also when the caller was cancelled; one that was not left     *)
(* nothing, unless the compensation itself failed or somebody deleted the  *)
(* unfinished user meanwhile.  Addresses and names stay unique, though     *)
(* they are looked up before they are written.                             *)
IdentityIsWhole ==
    /\ \A r \in Request : At(r, "done") /\ Op(r) \in Creators /\ (req[r].persisted \/ req[r].user \in {r, None}) =>
        IF req[r].persisted
        THEN \/ Exists(r) /\ \E w \in Of(r, {"credential", "email_otp"}) : w.by = r
             \/ \E q \in Request : req[q].cause = "delete" /\ req[q].user = r
        ELSE req[r].undone => ~Exists(r) /\ \A w \in Of(r, Kind) \ raced : w.by # r
    /\ \A i, j \in Id : i # j /\ Exists(i) /\ Exists(j) =>
        users[i].email # users[j].email /\ (users[i].name # None => users[i].name # users[j].name)

(* A user whose deletion was answered does not come back and authenticates *)
(* no later call; of a user that has gone there are only rows that were    *)
(* added while it was being deleted, and outside MongoDB, whose deletion   *)
(* is not one step, no session that a sign-in left behind.                 *)
DeletedIsGone ==
    /\ \A i \in gone : ~Exists(i)
    /\ \A r \in Request : req[r].late => req[r].answer # "ok"
    /\ \A w \in rows : ~Owned(w) => w \in raced
    /\ conf.store # "mongo" =>
        \A w \in rows : w.kind = "session" /\ ~Exists(w.of) => w.by \in Request /\ ~At(w.by, "done")
==============================================================================
