--------------------------- MODULE Accounts_proofs ---------------------------
(***************************************************************************)
(* Proofs about how identities come and go: for any number of calls, on    *)
(* each store, with calls that fail, callers that are cancelled and        *)
(* deletions that are not one step.                                        *)
(***************************************************************************)
EXTENDS Accounts, TLAPS

------------------------------------------------------------------------------
(* What is known of a request where it is.                                 *)
Unborn == {"new", "find", "check", "insert"}

(* The user's identifier is in use: it does not become a user again.       *)
Born(i) == i = Old \/ (i \in Request /\ req[i].pc \notin Unborn)

Deleting(i) == \E q \in Request : req[q].cause = "delete" /\ req[q].user = i

Mongo == conf.store = "mongo"

DoorOps == {"delete", "confirm_delete", "request_delete", "add_key", "set_password", "rename", "read"}

Doors == {<<"session", "user">>, <<"user", "session">>, <<"user">>, <<"session">>}

Call == [pc : Pc, user : Id \cup {None}, email : Email \cup {None}, name : Username \cup {None},
         token : Row \cup {None}, todo : Doors \cup {<<>>}, at : 0 .. 5, cause : {None, "delete", "undo"},
         cancelled : BOOLEAN, persisted : BOOLEAN, undone : BOOLEAN, late : BOOLEAN,
         answer : {None, "ok", "failed", "duplicate", "cancelled"}]

(* The kinds that a deletion in MongoDB has been through.                  *)
Through(at) == {k \in Kind : \E m \in 1 .. 5 : m < at /\ k \in Sweeps[m]}

Whole(r) == Exists(r) /\ \E w \in Of(r, {"credential", "email_otp"}) : w.by = r

Basic(r, q) ==
    /\ q \in Call
    /\ q.pc = "done" <=> q.answer # None
    /\ q.cause = "undo" => q.user = r
    /\ q.pc \notin {"sweep", "done"} => q.cause = None /\ q.at = 0
    /\ q.cause = "delete" => Op(r) \notin Creators
    /\ q.pc = "sweep" => q.cause # None
    /\ q.pc \in {"check", "insert", "account"} => Op(r) \in Creators /\ q.email \in Email /\ ~q.persisted
    /\ q.pc \in Unborn => q.user = None /\ ~q.persisted
    /\ q.pc = "find" => Op(r) \in {"otp", "sign_in", "forgot_password"} /\ q.email \in Email
    /\ q.pc = "account" => q.user = r
    /\ q.pc \in {"door", "password", "verify", "has", "session", "issued", "revoke", "lookup", "write", "sweep"} => q.user # None
    /\ q.pc = "add" => q.user # None /\ Op(r) \in {"add_key", "request_delete", "set_password", "forgot_password"}
                       /\ (Op(r) \in {"request_delete", "forgot_password"} => q.email \in Email)
    /\ q.pc \in {"session", "issued", "revoke"} /\ Op(r) \in Creators => q.persisted \/ q.user # r
    /\ q.pc \in {"verify", "door", "password", "has", "add", "lookup", "write"} => Op(r) \notin Creators
    /\ q.pc \in {"lookup", "write"} => q.name # None
    /\ q.pc = "has" => Op(r) = "set_password"
    /\ q.pc = "door" => q.todo \in Doors /\ Op(r) \in DoorOps /\ (Op(r) = "rename" => q.name # None)
                        /\ (q.todo \in {<<"user", "session">>, <<"session">>} => Op(r) = "set_password")
    /\ q.cause = "undo" => ~q.persisted
    /\ q.persisted => Op(r) \in Creators

(* What it relies on in the stores.                                        *)
Relies(r, q) ==
    /\ q.user # None => q.user = r \/ Born(q.user)
    /\ q.pc \in Unborn => ~Exists(r)
    /\ q.pc \in {"account", "verify", "sweep"} /\ Exists(q.user) => users[q.user].email = q.email
    /\ q.pc = "account" => Exists(r) \/ Deleting(r)
    /\ q.persisted => Whole(r) \/ Deleting(r)
    /\ q.pc = "done" /\ Op(r) \in Creators /\ ~q.persisted /\ q.undone /\ q.user \in {r, None} => ~Exists(r)
    /\ q.late => /\ q.user \in gone
                 /\ \/ q.pc = "door" /\ q.todo # <<"session">>
                    \/ q.pc = "done" /\ q.answer # "ok"
    /\ Mongo /\ q.pc = "sweep" =>
           \A w \in rows : w.of \in {q.user, q.email} /\ w.kind \in Through(q.at) => w \in raced

Typed ==
    /\ conf \in Confs
    /\ users \in [Id -> [email : Email, name : Username \cup {None}] \cup {None}]
    /\ rows \subseteq Row /\ raced \subseteq Row /\ gone \subseteq Id
    /\ req \in [Request -> Call]

Unique ==
    \A i, j \in Id : i # j /\ Exists(i) /\ Exists(j) =>
        users[i].email # users[j].email /\ (users[i].name # None => users[i].name # users[j].name)

Rows ==
    \A w \in rows :
        /\ IF w.kind \in Challenges THEN w.of \in Email ELSE w.of \in Id /\ Born(w.of)
        /\ ~Owned(w) => w \in raced
        /\ ~Mongo /\ w.kind = "session" /\ ~Exists(w.of) =>
               w.by \in Request /\ req[w.by].pc \in {"issued", "revoke"} /\ req[w.by].user = w.of

Gone == \A i \in gone : ~Exists(i) /\ Born(i)

Inv ==
    /\ Typed /\ Unique /\ Rows /\ Gone
    /\ \A r \in Request : Basic(r, req[r]) /\ Relies(r, req[r])

(* What a step of one request promises to the others: q becomes n.         *)
Contract(r, n) ==
    /\ req' = [req EXCEPT ![r] = n] /\ conf' = conf
    /\ Basic(r, n) /\ Relies(r, n)'
    /\ (n.pc \in Unborn => req[r].pc \in Unborn)
    /\ (req[r].cause = "delete" => n.cause = "delete" /\ n.user = req[r].user)
    /\ raced \subseteq raced' /\ gone \subseteq gone'
    /\ \A i \in Id : Exists(i)' => (Exists(i) /\ users'[i].email = users[i].email) \/ (i = r /\ req[r].pc = "insert")
    /\ \A i \in Id : Exists(i) /\ ~Exists(i)' => i = r \/ (n.cause = "delete" /\ n.user = i)
    /\ \A w \in rows' \ rows : Raced(w) => w \in raced'
    /\ \A w \in rows \ rows' :
           w.kind \in {"credential", "email_otp"} => w.of = r \/ (n.cause = "delete" /\ n.user = w.of)
    /\ users' \in [Id -> [email : Email, name : Username \cup {None}] \cup {None}]
    /\ rows' \subseteq Row /\ raced' \subseteq Row /\ gone' \subseteq Id
    /\ Unique' /\ Rows' /\ Gone'

LEMMA Steady ==
    ASSUME Inv, NEW r \in Request, NEW n, req' = [req EXCEPT ![r] = n],
           n.pc \in Unborn => req[r].pc \in Unborn,
           req[r].cause = "delete" => n.cause = "delete" /\ n.user = req[r].user
    PROVE  /\ req' \in [Request -> {req[v] : v \in Request} \cup {n}]
           /\ req'[r] = n /\ \A v \in Request : v # r => req'[v] = req[v]
           /\ \A i : Born(i) => Born(i)'
           /\ \A i : Deleting(i) => Deleting(i)'
           /\ \A i : n.cause = "delete" /\ n.user = i => Deleting(i)'
<1>1. req \in [Request -> Call]
  BY DEF Inv, Typed
<1>2. req'[r] = n /\ \A v \in Request : v # r => req'[v] = req[v]
  BY <1>1
<1>3. req' \in [Request -> {req[v] : v \in Request} \cup {n}]
  BY <1>1
<1>4. ASSUME NEW i, Born(i) PROVE Born(i)'
  <2>1. CASE i = r
    BY <1>2, <1>4, <2>1 DEF Born
  <2>2. CASE i # r
    BY <1>2, <1>4, <2>2 DEF Born
  <2> QED BY <2>1, <2>2
<1>5. ASSUME NEW i, Deleting(i) PROVE Deleting(i)'
  <2>1. PICK q \in Request : req[q].cause = "delete" /\ req[q].user = i
    BY <1>5 DEF Deleting
  <2>2. req'[q].cause = "delete" /\ req'[q].user = i
    BY <1>2, <2>1
  <2> QED BY <2>2 DEF Deleting
<1>6. ASSUME NEW i, n.cause = "delete", n.user = i PROVE Deleting(i)'
  BY <1>2, <1>6 DEF Deleting
<1> QED BY <1>2, <1>3, <1>4, <1>5, <1>6

LEMMA ReliesKept ==
    ASSUME Inv, NEW r \in Request, NEW n, Contract(r, n), NEW v \in Request, v # r, NEW p, p = req[v]
    PROVE  Relies(v, p)'
<1>1. Basic(v, p) /\ Relies(v, p) /\ p \in Call
  BY DEF Inv, Basic
<1>2. /\ \A i : Born(i) => Born(i)'
      /\ \A i : Deleting(i) => Deleting(i)'
      /\ \A i : n.cause = "delete" /\ n.user = i => Deleting(i)'
  BY Steady DEF Contract
<1>3. /\ conf' = conf /\ raced \subseteq raced' /\ gone \subseteq gone'
      /\ \A i \in Id : Exists(i)' => (Exists(i) /\ users'[i].email = users[i].email) \/ (i = r /\ req[r].pc = "insert")
      /\ \A i \in Id : Exists(i) /\ ~Exists(i)' => i = r \/ (n.cause = "delete" /\ n.user = i)
      /\ \A w \in rows' \ rows : Raced(w) => w \in raced'
      /\ \A w \in rows \ rows' :
           w.kind \in {"credential", "email_otp"} => w.of = r \/ (n.cause = "delete" /\ n.user = w.of)
  BY DEF Contract
<1>4. v \in Id /\ (p.user # None => p.user \in Id) /\ (Mongo' <=> Mongo) /\ Op(v)' = Op(v)
  BY <1>1, <1>3 DEF Call, Id, Mongo, Op
<1>5. Exists(v)' => Exists(v)
  BY <1>3, <1>4
<1>6. p.user # None /\ Exists(p.user)' => Exists(p.user) /\ users'[p.user].email = users[p.user].email
  <2>1. req[r].pc = "insert" => ~Born(r)
    BY NameAssumption DEF Born, Unborn, Id
  <2>2. p.user # None => p.user = v \/ Born(p.user)
    BY <1>1 DEF Relies
  <2> QED BY <1>3, <1>4, <2>1, <2>2
<1>7. Exists(v) \/ Deleting(v) => Exists(v)' \/ Deleting(v)'
  BY <1>2, <1>3, <1>4
<1>8. Whole(v) \/ Deleting(v) => Whole(v)' \/ Deleting(v)'
  <2>1. CASE Deleting(v)
    BY <1>2, <2>1
  <2>2. CASE Whole(v) /\ ~Deleting(v)'
    <3>1. Exists(v)'
      BY <1>2, <1>7, <2>2 DEF Whole
    <3>2. PICK w \in rows : w.of = v /\ w.kind \in {"credential", "email_otp"} /\ w.by = v
      BY <2>2 DEF Whole, Of
    <3>3. w \in rows'
      BY <1>2, <1>3, <2>2, <3>2
    <3> QED BY <3>1, <3>2, <3>3 DEF Whole, Of
  <2> QED BY <2>1, <2>2
<1>9. Mongo /\ p.pc = "sweep" =>
           \A w \in rows' : w.of \in {p.user, p.email} /\ w.kind \in Through(p.at) => w \in raced'
  <2> SUFFICES ASSUME Mongo, p.pc = "sweep", NEW w \in rows', w.of \in {p.user, p.email}, w.kind \in Through(p.at)
               PROVE  w \in raced'
    OBVIOUS
  <2>1. CASE w \in rows
    BY <1>1, <1>3, <2>1 DEF Relies
  <2>2. CASE w \notin rows
    <3>1. Raced(w)
      BY DEF Raced, At
    <3> QED BY <1>3, <2>2, <3>1
  <2> QED BY <2>1, <2>2
<1>10. Through(p.at)' = Through(p.at)
  BY DEF Through
<1>11. (p.user # None => p.user = v \/ Born(p.user))' /\ (p.pc \in Unborn => ~Exists(v))'
  BY <1>1, <1>2, <1>5 DEF Relies
<1>12. (p.pc \in {"account", "verify", "sweep"} /\ Exists(p.user) => users[p.user].email = p.email)'
  <2>1. p.pc \in {"account", "verify", "sweep"} => p.user # None
    BY <1>1, NameAssumption DEF Basic, Id
  <2> QED BY <1>1, <1>6, <2>1 DEF Relies
<1>13. (p.pc = "account" => Exists(v) \/ Deleting(v))' /\ (p.persisted => Whole(v) \/ Deleting(v))'
  BY <1>1, <1>7, <1>8 DEF Relies
<1>14. (p.pc = "done" /\ Op(v) \in Creators /\ ~p.persisted /\ p.undone /\ p.user \in {v, None} => ~Exists(v))'
  BY <1>1, <1>4, <1>5 DEF Relies
<1>15. (p.late => /\ p.user \in gone
                  /\ \/ p.pc = "door" /\ p.todo # <<"session">>
                     \/ p.pc = "done" /\ p.answer # "ok")'
  BY <1>1, <1>3 DEF Relies
<1> QED BY <1>4, <1>9, <1>10, <1>11, <1>12, <1>13, <1>14, <1>15 DEF Relies

LEMMA ContractKeeps ==
    ASSUME Inv, NEW r \in Request, NEW n, Contract(r, n)
    PROVE  Inv'
<1>1. req'[r] = n /\ (\A v \in Request : v # r => req'[v] = req[v]) /\ conf' = conf
  BY Steady DEF Contract
<1>2. Basic(r, n) /\ n \in Call
  BY DEF Contract, Basic
<1>3. Typed'
  <2>1. req' \in [Request -> Call]
    BY <1>2 DEF Contract, Inv, Typed
  <2> QED BY <1>1, <2>1 DEF Contract, Inv, Typed
<1>4. ASSUME NEW v \in Request PROVE Basic(v, req[v])' /\ Relies(v, req[v])'
  <2>1. PICK p : p = req'[v]
    OBVIOUS
  <2>2. \A q : Basic(v, q) => Basic(v, q)'
    BY <1>1 DEF Basic, Op
  <2>3. CASE v = r
    <3>1. p = n
      BY <1>1, <2>1, <2>3
    <3> QED BY <1>2, <2>1, <2>2, <2>3, <3>1 DEF Contract
  <2>4. CASE v # r
    <3>1. p = req[v]
      BY <1>1, <2>1, <2>4
    <3>2. Relies(v, p)' /\ Basic(v, p)
      BY <2>4, <3>1, ReliesKept DEF Inv
    <3> QED BY <2>1, <2>2, <3>2
  <2> QED BY <2>3, <2>4
<1> QED BY <1>3, <1>4 DEF Inv, Contract
------------------------------------------------------------------------------
(* What a record becomes when some of its fields change.                   *)
Kept(n, q) ==
    /\ n.name = q.name /\ n.token = q.token /\ n.cancelled = q.cancelled /\ n.persisted = q.persisted
    /\ n.undone = q.undone /\ n.late = q.late

LEMMA GoIs ==
    ASSUME NEW q \in Call, NEW p \in Pc, NEW n, n = Go(q, p)
    PROVE  /\ n \in Call /\ n.pc = p /\ Kept(n, q)
           /\ n.user = q.user /\ n.email = q.email /\ n.todo = q.todo /\ n.at = q.at /\ n.cause = q.cause /\ n.answer = q.answer
<1>1. n = [q EXCEPT !.pc = p]
  BY DEF Go
<1>2. n \in Call
  BY <1>1 DEF Call
<1> QED BY <1>1, <1>2 DEF Call, Kept

LEMMA AnswerIs ==
    ASSUME NEW q \in Call, NEW a \in {"ok", "failed", "duplicate", "cancelled"}, NEW n, n = Answer(q, a)
    PROVE  /\ n \in Call /\ n.pc = "done" /\ n.answer = a /\ Kept(n, q)
           /\ n.user = q.user /\ n.email = q.email /\ n.todo = q.todo /\ n.at = q.at /\ n.cause = q.cause
<1>1. PICK d : d = [q EXCEPT !.pc = "done"]
  OBVIOUS
<1>2. n = [d EXCEPT !.answer = a]
  BY <1>1, Zenon DEF Answer
<1>3. d \in Call /\ d.pc = "done"
  BY <1>1 DEF Call, Pc
<1>4. n \in Call
  BY <1>2, <1>3 DEF Call
<1>5. Kept(d, q) /\ d.user = q.user /\ d.email = q.email /\ d.todo = q.todo /\ d.at = q.at /\ d.cause = q.cause
  BY <1>1 DEF Call, Kept
<1>6. n.pc = "done" /\ n.answer = a /\ Kept(n, d)
      /\ n.user = d.user /\ n.email = d.email /\ n.todo = d.todo /\ n.at = d.at /\ n.cause = d.cause
  BY <1>2, <1>3 DEF Call, Kept
<1> QED BY <1>4, <1>5, <1>6 DEF Kept

LEMMA UndoIs ==
    ASSUME NEW q \in Call, NEW r \in Request, NEW n, n = Undo(q, r)
    PROVE  /\ n \in Call /\ n.pc = "sweep" /\ n.cause = "undo" /\ n.user = r /\ Kept(n, q)
           /\ n.email = q.email /\ n.todo = q.todo /\ n.at = q.at /\ n.answer = q.answer
<1>1. PICK d, e : d = [q EXCEPT !.pc = "sweep"] /\ e = [d EXCEPT !.cause = "undo"]
  OBVIOUS
<1>2. n = [e EXCEPT !.user = r]
  BY <1>1, Zenon DEF Undo
<1>3. d \in Call /\ d.pc = "sweep" /\ d.user = q.user /\ d.cause = q.cause /\ Kept(d, q)
      /\ d.email = q.email /\ d.todo = q.todo /\ d.at = q.at /\ d.answer = q.answer
  BY <1>1 DEF Call, Pc, Kept
<1>4. e \in Call /\ e.pc = "sweep" /\ e.user = q.user /\ e.cause = "undo" /\ Kept(e, q)
      /\ e.email = q.email /\ e.todo = q.todo /\ e.at = q.at /\ e.answer = q.answer
  <2>1. e = [d EXCEPT !.cause = "undo"]
    BY <1>1
  <2> QED BY <1>3, <2>1 DEF Call, Kept
<1>5. r \in Id
  BY DEF Id
<1> QED BY <1>2, <1>4, <1>5 DEF Call, Kept

(* The request has answered.                                               *)
LEMMA Answers ==
    ASSUME Inv, NEW r \in Request, NEW q, q = req[r], q.pc # "done", NEW a \in {"ok", "failed", "duplicate", "cancelled"},
           NEW n, n = Answer(q, a), q.late => a # "ok",
           Op(r) \in Creators /\ ~q.persisted /\ q.undone /\ q.user \in {r, None} => ~Exists(r)
    PROVE  Basic(r, n) /\ Relies(r, n)
<1>1. Basic(r, q) /\ Relies(r, q) /\ q \in Call
  BY DEF Inv, Basic
<1>2. /\ n \in Call /\ n.pc = "done" /\ n.answer = a /\ Kept(n, q)
      /\ n.user = q.user /\ n.email = q.email /\ n.todo = q.todo /\ n.at = q.at /\ n.cause = q.cause
  BY <1>1, AnswerIs
<1>3. a # None
  BY NameAssumption
<1>4. Basic(r, n)
  BY <1>1, <1>2, <1>3 DEF Basic, Kept, Unborn
<1>5. Relies(r, n)
  BY <1>1, <1>2 DEF Relies, Kept, Unborn
<1> QED BY <1>4, <1>5

(* A step that changes nothing but the request itself.                     *)
LEMMA OnlyRequest ==
    ASSUME Inv, NEW r \in Request, NEW n, Put(r, n), UNCHANGED <<conf, users, rows, gone, raced>>,
           Basic(r, n), Relies(r, n),
           n.pc \in Unborn => req[r].pc \in Unborn,
           req[r].cause = "delete" => n.cause = "delete" /\ n.user = req[r].user,
           ~Mongo /\ req[r].pc \in {"issued", "revoke"} /\ ~Exists(req[r].user) => n.pc \in {"issued", "revoke"} /\ n.user = req[r].user
    PROVE  Contract(r, n)
<1>1. req' = [req EXCEPT ![r] = n]
  BY DEF Put
<1>2. /\ req'[r] = n /\ \A v \in Request : v # r => req'[v] = req[v]
      /\ \A i : Born(i) => Born(i)'
      /\ \A i : Deleting(i) => Deleting(i)'
  BY <1>1, Steady
<1>3. (\A i : Exists(i)' <=> Exists(i)) /\ (Mongo' <=> Mongo) /\ Op(r)' = Op(r) /\ (Whole(r)' <=> Whole(r))
      /\ \A w : Owned(w)' <=> Owned(w)
  BY DEF Exists, Mongo, Op, Whole, Of, Owned, Owner
<1>4. Through(n.at)' = Through(n.at)
  BY DEF Through
<1>5. Relies(r, n)'
  BY <1>2, <1>3, <1>4 DEF Relies
<1>6. Rows'
  <2> SUFFICES ASSUME NEW w \in rows
               PROVE  /\ IF w.kind \in Challenges THEN w.of \in Email ELSE w.of \in Id /\ Born(w.of)'
                      /\ ~Owned(w)' => w \in raced'
                      /\ ~Mongo' /\ w.kind = "session" /\ ~Exists(w.of)' =>
                             w.by \in Request /\ req'[w.by].pc \in {"issued", "revoke"} /\ req'[w.by].user = w.of
    BY DEF Rows
  <2>1. /\ IF w.kind \in Challenges THEN w.of \in Email ELSE w.of \in Id /\ Born(w.of)
        /\ ~Owned(w) => w \in raced
        /\ ~Mongo /\ w.kind = "session" /\ ~Exists(w.of) =>
               w.by \in Request /\ req[w.by].pc \in {"issued", "revoke"} /\ req[w.by].user = w.of
    BY DEF Inv, Rows
  <2> QED BY <1>2, <1>3, <2>1
<1>7. Unique' /\ Gone'
  BY <1>2, <1>3 DEF Inv, Unique, Gone
<1> QED BY <1>1, <1>3, <1>5, <1>6, <1>7 DEF Contract, Inv, Typed
------------------------------------------------------------------------------
(* The steps that change nothing but the request.                          *)
LEMMA OwnersAreBorn ==
    ASSUME Inv, NEW i \in Id, Exists(i)
    PROVE  Born(i)
BY DEF Inv, Relies, Born, Id

LEMMA AtIs ==
    ASSUME Inv, NEW r \in Request
    PROVE  /\ Basic(r, req[r]) /\ Relies(r, req[r]) /\ req[r] \in Call /\ r \in Id
           /\ (req[r].pc \notin {"door", "done"} => ~req[r].late)
BY DEF Inv, Basic, Relies, Id

LEMMA ConfIs ==
    ASSUME Inv
    PROVE  /\ conf.store \in {"memory", "postgres", "mongo"} /\ conf.door \in {"http", "sdk"} /\ conf.op \in [Request -> Ops]
           /\ conf.email \in Email /\ conf.emails \subseteq Email /\ conf.names \subseteq Username \cup {None}
           /\ conf.has \subseteq Kind /\ (conf.store = "memory" => conf.fails \cap {"call", "ack"} = {})
BY ConfAssumption DEF Inv, Typed

(* It only answers.                                                        *)
LEMMA OnlyAnswers ==
    ASSUME Inv, NEW r \in Request, NEW a \in {"ok", "failed", "duplicate", "cancelled"}, Put(r, Answer(req[r], a)),
           UNCHANGED <<conf, users, rows, gone, raced>>, req[r].pc # "done", req[r].late => a # "ok",
           req[r].pc \in {"issued", "revoke"} => Exists(req[r].user),
           Op(r) \in Creators /\ ~req[r].persisted /\ req[r].undone /\ req[r].user \in {r, None} => ~Exists(r)
    PROVE  \E n : Contract(r, n)
<1>1. PICK q : q = req[r]
  OBVIOUS
<1>2. PICK n : n = Answer(q, a)
  OBVIOUS
<1>3. Basic(r, n) /\ Relies(r, n)
  BY <1>1, <1>2, Answers
<1>4. n.pc = "done" /\ n.user = q.user /\ n.cause = q.cause
  BY <1>1, <1>2, AtIs, AnswerIs
<1> QED BY <1>1, <1>2, <1>3, <1>4, OnlyRequest DEF Unborn

(* It only goes on.                                                        *)
LEMMA OnlyGoes ==
    ASSUME Inv, NEW r \in Request, NEW p \in Pc, Put(r, Go(req[r], p)), UNCHANGED <<conf, users, rows, gone, raced>>,
           req[r].pc \notin {"done", "sweep", "door", "account", "revoke"}, p \notin {"done", "sweep", "door", "account", "verify"},
           \A n \in Call : Kept(n, req[r]) /\ n.pc = p /\ n.user = req[r].user /\ n.email = req[r].email /\ n.todo = req[r].todo
                          /\ n.at = req[r].at /\ n.cause = req[r].cause /\ n.answer = req[r].answer => Basic(r, n),
           p \in Unborn => req[r].pc \in Unborn,
           req[r].pc = "issued" => p = "revoke"
    PROVE  \E n : Contract(r, n)
<1>1. PICK q : q = req[r]
  OBVIOUS
<1>2. PICK n : n = Go(q, p)
  OBVIOUS
<1>3. Basic(r, q) /\ Relies(r, q) /\ q \in Call /\ r \in Id /\ ~q.late
  BY <1>1, AtIs
<1>4. /\ n \in Call /\ n.pc = p /\ Kept(n, q)
      /\ n.user = q.user /\ n.email = q.email /\ n.todo = q.todo /\ n.at = q.at /\ n.cause = q.cause /\ n.answer = q.answer
  BY <1>2, <1>3, GoIs
<1>5. Basic(r, n)
  BY <1>1, <1>4
<1>6. Relies(r, n)
  BY <1>1, <1>3, <1>4 DEF Relies, Kept, Unborn
<1> QED BY <1>1, <1>2, <1>4, <1>5, <1>6, OnlyRequest

LEMMA CheckNameGoes ==
    ASSUME Inv, NEW r \in Request, CheckName(r)
    PROVE  \E n : Contract(r, n)
<1>1. PICK q : q = req[r]
  OBVIOUS
<1>2. Basic(r, q) /\ Relies(r, q) /\ q \in Call /\ q.pc = "check" /\ r \in Id /\ ~q.late
  BY <1>1, AtIs DEF CheckName, At
<1>3. UNCHANGED <<conf, users, rows, gone, raced>>
  BY DEF CheckName
<1>4. \/ Put(r, Undo(q, r)) \/ Put(r, Answer(q, "duplicate")) \/ Put(r, Go(q, "insert"))
  BY <1>1 DEF CheckName
<1>5. ~Exists(r) /\ q.cause = None
  BY <1>2 DEF Relies, Basic, Unborn
<1>6. CASE Put(r, Undo(q, r))
  <2>1. PICK n : n = Undo(q, r)
    OBVIOUS
  <2>2. /\ n \in Call /\ n.pc = "sweep" /\ n.cause = "undo" /\ n.user = r /\ Kept(n, q)
        /\ n.email = q.email /\ n.todo = q.todo /\ n.at = q.at /\ n.answer = q.answer
    BY <1>2, <2>1, UndoIs
  <2>3. Basic(r, n)
    BY <1>2, <2>2, NameAssumption DEF Basic, Kept, Unborn
  <2>4. Through(n.at) = {}
    BY <1>2, <2>2 DEF Through, Basic
  <2>5. Relies(r, n)
    BY <1>2, <1>5, <2>2, <2>4, NameAssumption DEF Relies, Basic, Kept, Unborn
  <2> QED BY <1>1, <1>2, <1>3, <1>5, <1>6, <2>1, <2>2, <2>3, <2>5, OnlyRequest, NameAssumption DEF Unborn
<1>7. CASE Put(r, Answer(q, "duplicate"))
  BY <1>1, <1>2, <1>3, <1>5, <1>7, OnlyAnswers
<1>8. CASE Put(r, Go(q, "insert"))
  <2>1. "insert" \in Pc /\ q.pc \in Unborn /\ "insert" \in Unborn
    BY <1>2 DEF Pc, Unborn
  <2>2. ASSUME NEW n \in Call, Kept(n, q), n.pc = "insert", n.user = q.user, n.email = q.email, n.todo = q.todo,
               n.at = q.at, n.cause = q.cause, n.answer = q.answer
        PROVE  Basic(r, n)
    BY <1>2, <2>2 DEF Basic, Kept, Unborn
  <2> QED BY <1>1, <1>2, <1>3, <1>8, <2>1, <2>2, OnlyGoes
<1> QED BY <1>4, <1>6, <1>7, <1>8

LEMMA CheckPasswordGoes ==
    ASSUME Inv, NEW r \in Request, CheckPassword(r)
    PROVE  \E n : Contract(r, n)
<1>1. PICK q : q = req[r]
  OBVIOUS
<1>2. Basic(r, q) /\ q \in Call /\ q.pc = "password" /\ ~q.late /\ Op(r) \notin Creators
  BY <1>1, AtIs DEF CheckPassword, At, Basic
<1>3. UNCHANGED <<conf, users, rows, gone, raced>> /\ (Put(r, Answer(q, "failed")) \/ Put(r, Go(q, "session")))
  BY <1>1 DEF CheckPassword
<1>4. CASE Put(r, Answer(q, "failed"))
  BY <1>1, <1>2, <1>3, <1>4, OnlyAnswers
<1>5. CASE Put(r, Go(q, "session"))
  <2>1. "session" \in Pc /\ "session" \notin Unborn
    BY DEF Pc, Unborn
  <2>2. ASSUME NEW n \in Call, Kept(n, q), n.pc = "session", n.user = q.user, n.email = q.email, n.todo = q.todo,
               n.at = q.at, n.cause = q.cause, n.answer = q.answer
        PROVE  Basic(r, n)
    BY <1>2, <2>2 DEF Basic, Kept, Unborn
  <2> QED BY <1>1, <1>2, <1>3, <1>5, <2>1, <2>2, OnlyGoes
<1> QED BY <1>3, <1>4, <1>5

LEMMA CheckIssuedGoes ==
    ASSUME Inv, NEW r \in Request, CheckIssued(r)
    PROVE  \E n : Contract(r, n)
<1>1. PICK q : q = req[r]
  OBVIOUS
<1>2. Basic(r, q) /\ q \in Call /\ q.pc = "issued" /\ ~q.late /\ (Op(r) \in Creators => q.persisted \/ q.user # r) /\ q.user # None
  BY <1>1, AtIs DEF CheckIssued, At, Basic
<1>3. UNCHANGED <<conf, users, rows, gone, raced>>
      /\ ((Exists(q.user) /\ Put(r, Answer(q, "ok"))) \/ Put(r, Go(q, "revoke")))
  BY <1>1 DEF CheckIssued, Checked
<1>4. CASE Exists(q.user) /\ Put(r, Answer(q, "ok"))
  BY <1>1, <1>2, <1>3, <1>4, OnlyAnswers
<1>5. CASE Put(r, Go(q, "revoke"))
  <2>1. "revoke" \in Pc /\ "revoke" \notin Unborn
    BY DEF Pc, Unborn
  <2>2. ASSUME NEW n \in Call, Kept(n, q), n.pc = "revoke", n.user = q.user, n.email = q.email, n.todo = q.todo,
               n.at = q.at, n.cause = q.cause, n.answer = q.answer
        PROVE  Basic(r, n)
    BY <1>2, <2>2 DEF Basic, Kept, Unborn
  <2> QED BY <1>1, <1>2, <1>3, <1>5, <2>1, <2>2, OnlyGoes
<1> QED BY <1>3, <1>4, <1>5

LEMMA HasPasswordGoes ==
    ASSUME Inv, NEW r \in Request, HasPassword(r)
    PROVE  \E n : Contract(r, n)
<1>1. PICK q : q = req[r]
  OBVIOUS
<1>2. Basic(r, q) /\ q \in Call /\ q.pc = "has" /\ ~q.late /\ Op(r) \notin Creators /\ Op(r) = "set_password"
  BY <1>1, AtIs DEF HasPassword, At, Basic
<1>3. UNCHANGED <<conf, users, rows, gone, raced>> /\ (Put(r, Answer(q, "failed")) \/ Put(r, Go(q, "add")))
  BY <1>1 DEF HasPassword
<1>4. CASE Put(r, Answer(q, "failed"))
  BY <1>1, <1>2, <1>3, <1>4, OnlyAnswers
<1>5. CASE Put(r, Go(q, "add"))
  <2>1. "add" \in Pc /\ "add" \notin Unborn
    BY DEF Pc, Unborn
  <2>2. ASSUME NEW n \in Call, Kept(n, q), n.pc = "add", n.user = q.user, n.email = q.email, n.todo = q.todo,
               n.at = q.at, n.cause = q.cause, n.answer = q.answer
        PROVE  Basic(r, n)
    BY <1>2, <2>2 DEF Basic, Kept, Unborn
  <2> QED BY <1>1, <1>2, <1>3, <1>5, <2>1, <2>2, OnlyGoes
<1> QED BY <1>3, <1>4, <1>5

LEMMA LookupNameGoes ==
    ASSUME Inv, NEW r \in Request, LookupName(r)
    PROVE  \E n : Contract(r, n)
<1>1. PICK q : q = req[r]
  OBVIOUS
<1>2. Basic(r, q) /\ q \in Call /\ q.pc = "lookup" /\ ~q.late /\ Op(r) \notin Creators
  BY <1>1, AtIs DEF LookupName, At, Basic
<1>3. UNCHANGED <<conf, users, rows, gone, raced>> /\ (Put(r, Answer(q, "duplicate")) \/ Put(r, Go(q, "write")))
  BY <1>1 DEF LookupName
<1>4. CASE Put(r, Answer(q, "duplicate"))
  BY <1>1, <1>2, <1>3, <1>4, OnlyAnswers
<1>5. CASE Put(r, Go(q, "write"))
  <2>1. "write" \in Pc /\ "write" \notin Unborn
    BY DEF Pc, Unborn
  <2>2. ASSUME NEW n \in Call, Kept(n, q), n.pc = "write", n.user = q.user, n.email = q.email, n.todo = q.todo,
               n.at = q.at, n.cause = q.cause, n.answer = q.answer
        PROVE  Basic(r, n)
    BY <1>2, <2>2 DEF Basic, Kept, Unborn
  <2> QED BY <1>1, <1>2, <1>3, <1>5, <2>1, <2>2, OnlyGoes
<1> QED BY <1>3, <1>4, <1>5

LEMMA AbortGoes ==
    ASSUME Inv, NEW r \in Request, Abort(r)
    PROVE  \E n : Contract(r, n)
<1>1. req[r].pc = "sweep" /\ req[r].cause = "delete" /\ ~req[r].late /\ Op(r) \notin Creators
  BY AtIs DEF Abort, At, Basic
<1>2. UNCHANGED <<conf, users, rows, gone, raced>> /\ Put(r, Answer(req[r], "failed"))
  BY DEF Abort
<1> QED BY <1>1, <1>2, OnlyAnswers

LEMMA CancelGoes ==
    ASSUME Inv, NEW r \in Request, CancelCall(r)
    PROVE  \E n : Contract(r, n)
<1>1. PICK q : q = req[r]
  OBVIOUS
<1>2. Basic(r, q) /\ Relies(r, q) /\ q \in Call /\ q.pc \in {"check", "insert", "account"} /\ ~q.late
  BY <1>1, AtIs DEF CancelCall, At
<1>3. PICK n : n = [q EXCEPT !.cancelled = TRUE]
  OBVIOUS
<1>4. UNCHANGED <<conf, users, rows, gone, raced>> /\ Put(r, n)
  BY <1>1, <1>3 DEF CancelCall, Cancel
<1>5. /\ n \in Call /\ n.pc = q.pc /\ n.user = q.user /\ n.email = q.email /\ n.name = q.name /\ n.token = q.token
      /\ n.todo = q.todo /\ n.at = q.at /\ n.cause = q.cause /\ n.persisted = q.persisted /\ n.undone = q.undone
      /\ n.late = q.late /\ n.answer = q.answer
  BY <1>2, <1>3 DEF Call
<1>6. Basic(r, n)
  BY <1>2, <1>5 DEF Basic
<1>7. Relies(r, n)
  BY <1>2, <1>5 DEF Relies
<1> QED BY <1>1, <1>2, <1>4, <1>5, <1>6, <1>7, OnlyRequest
------------------------------------------------------------------------------
(* A call arrives, and finds its user.                                     *)
LEMMA FindGoes ==
    ASSUME Inv, NEW r \in Request, Find(r)
    PROVE  \E n : Contract(r, n)
<1>1. PICK q : q = req[r]
  OBVIOUS
<1>2. Basic(r, q) /\ Relies(r, q) /\ q \in Call /\ q.pc = "find" /\ ~q.late /\ r \in Id
  BY <1>1, AtIs DEF Find, At
<1>3. ~Exists(r) /\ q.cause = None /\ q.at = 0 /\ q.user = None /\ ~q.persisted /\ q.email \in Email
      /\ Op(r) \in {"otp", "sign_in", "forgot_password"} /\ q.answer = None
  BY <1>2 DEF Relies, Basic, Unborn
<1>4. UNCHANGED <<conf, users, rows, gone, raced>>
  BY DEF Find
<1>5. \/ Op(r) = "otp" /\ Put(r, Go(q, "insert"))
      \/ Put(r, Answer(q, "failed")) \/ Put(r, Answer(q, "ok"))
      \/ \E i \in Owner(q.email) : \E p \in Pc :
            /\ Put(r, [q EXCEPT !.user = i, !.pc = p])
            /\ p = CASE Op(r) = "otp" -> "session" [] Op(r) = "sign_in" -> "password" [] Op(r) = "forgot_password" -> "add"
  <2>1. CASE Owner(q.email) = {}
    BY <1>1, <1>3, <2>1 DEF Find
  <2>2. CASE Owner(q.email) # {}
    <3>1. PICK i \in Owner(q.email) :
             Put(r, [q EXCEPT !.user = i, !.pc = CASE Op(r) = "otp" -> "session"
                                                        [] Op(r) = "sign_in" -> "password"
                                                        [] Op(r) = "forgot_password" -> "add"])
      BY <1>1, <2>2, Zenon DEF Find
    <3>2. PICK p : p = CASE Op(r) = "otp" -> "session" [] Op(r) = "sign_in" -> "password" [] Op(r) = "forgot_password" -> "add"
      OBVIOUS
    <3>3. p \in Pc
      BY <1>3, <3>2 DEF Pc
    <3>4. Put(r, [q EXCEPT !.user = i, !.pc = p])
      BY <3>1, <3>2, Zenon
    <3> QED BY <3>2, <3>3, <3>4, Zenon
  <2> QED BY <2>1, <2>2
<1>6. CASE Op(r) = "otp" /\ Put(r, Go(q, "insert"))
  <2>1. "insert" \in Pc /\ q.pc \in Unborn /\ "insert" \in Unborn
    BY <1>2 DEF Pc, Unborn
  <2>2. ASSUME NEW n \in Call, Kept(n, q), n.pc = "insert", n.user = q.user, n.email = q.email, n.todo = q.todo,
               n.at = q.at, n.cause = q.cause, n.answer = q.answer
        PROVE  Basic(r, n)
    BY <1>2, <1>3, <1>6, <2>2 DEF Basic, Kept, Unborn, Creators
  <2> QED BY <1>1, <1>2, <1>4, <1>6, <2>1, <2>2, OnlyGoes
<1>7. CASE Put(r, Answer(q, "failed")) \/ Put(r, Answer(q, "ok"))
  BY <1>1, <1>2, <1>3, <1>4, <1>7, OnlyAnswers
<1>8. ASSUME NEW i \in Owner(q.email), NEW p \in Pc, Put(r, [q EXCEPT !.user = i, !.pc = p]),
             p = CASE Op(r) = "otp" -> "session" [] Op(r) = "sign_in" -> "password" [] Op(r) = "forgot_password" -> "add"
      PROVE  \E n : Contract(r, n)
  <2>1. i \in Id /\ Exists(i) /\ i # r /\ Born(i) /\ i # None
    BY <1>3, <1>8, OwnersAreBorn, NameAssumption DEF Owner
  <2>2. PICK d, n : d = [q EXCEPT !.user = i] /\ n = [d EXCEPT !.pc = p]
    OBVIOUS
  <2>3. /\ n \in Call /\ n.pc = p /\ n.user = i /\ Kept(n, q)
        /\ n.email = q.email /\ n.todo = q.todo /\ n.at = q.at /\ n.cause = q.cause /\ n.answer = q.answer
    <3>1. d \in Call /\ d.user = i /\ Kept(d, q)
          /\ d.email = q.email /\ d.todo = q.todo /\ d.at = q.at /\ d.cause = q.cause /\ d.answer = q.answer
      BY <1>2, <2>1, <2>2 DEF Call, Kept
    <3> QED BY <1>8, <2>2, <3>1 DEF Call, Kept
  <2>4. \/ (Op(r) = "otp" /\ p = "session")
        \/ (Op(r) = "sign_in" /\ p = "password")
        \/ (Op(r) = "forgot_password" /\ p = "add")
    BY <1>3, <1>8
  <2>5. Basic(r, n)
    BY <1>2, <1>3, <2>1, <2>3, <2>4, NameAssumption DEF Basic, Kept, Unborn, Creators
  <2>6. Relies(r, n)
    BY <1>2, <1>3, <2>1, <2>3, <2>4 DEF Relies, Kept, Unborn
  <2>7. p \notin Unborn
    BY <2>4 DEF Unborn
  <2>8. Put(r, n)
    BY <1>8, <2>2, Zenon
  <2> QED BY <1>1, <1>2, <1>3, <1>4, <2>3, <2>5, <2>6, <2>7, <2>8, OnlyRequest, NameAssumption
<1> QED BY <1>5, <1>6, <1>7, <1>8

LEMMA DoorIs ==
    ASSUME NEW t \in Doors
    PROVE  /\ Head(t) \in {"session", "user"}
           /\ Len(t) > 1 => Tail(t) \in Doors /\ (Head(t) = "session" => t = <<"session", "user">> /\ Tail(t) # <<"session">>)
                            /\ (t # <<"session", "user">> => t = <<"user", "session">> /\ Head(t) = "user")
                            /\ (t = <<"session", "user">> => Tail(t) \notin {<<"user", "session">>, <<"session">>})
           /\ ~(Len(t) > 1) => (Head(t) = "user" /\ t = <<"user">>) \/ (Head(t) = "session" /\ t = <<"session">>)
<1>1. CASE t = <<"session", "user">>
  <2>1. Head(t) = "session" /\ Len(t) = 2 /\ Tail(t) = <<"user">>
    BY <1>1
  <2>2. <<"user">> # <<"session">> /\ <<"user">> # <<"user", "session">> /\ <<"user">> \in Doors
    BY DEF Doors
  <2> QED BY <1>1, <2>1, <2>2
<1>2. CASE t = <<"user", "session">>
  <2>1. Head(t) = "user" /\ Len(t) = 2 /\ Tail(t) = <<"session">>
    BY <1>2
  <2>2. <<"user", "session">> # <<"session", "user">> /\ <<"session">> \in Doors
    BY DEF Doors
  <2> QED BY <1>2, <2>1, <2>2
<1>3. CASE t = <<"user">>
  BY <1>3
<1>4. CASE t = <<"session">>
  BY <1>4
<1> QED BY <1>1, <1>2, <1>3, <1>4 DEF Doors

LEMMA EnterDoorGoes ==
    ASSUME Inv, NEW r \in Request, EnterDoor(r)
    PROVE  \E n : Contract(r, n)
<1>1. PICK q : q = req[r]
  OBVIOUS
<1>2. Basic(r, q) /\ Relies(r, q) /\ q \in Call /\ q.pc = "door" /\ r \in Id
  BY <1>1, AtIs DEF EnterDoor, At
<1>3. /\ q.cause = None /\ q.at = 0 /\ q.user # None /\ ~q.persisted /\ q.todo \in Doors /\ q.answer = None
      /\ Op(r) \in DoorOps /\ Op(r) \notin Creators /\ (Op(r) = "rename" => q.name # None)
      /\ (q.todo \in {<<"user", "session">>, <<"session">>} => Op(r) = "set_password")
  BY <1>2 DEF Basic
<1>4. q.user \in Id /\ (Born(q.user) \/ q.user = r)
  BY <1>2, <1>3 DEF Relies, Call
<1>5. UNCHANGED <<conf, users, rows, gone, raced>>
  BY DEF EnterDoor
<1>6. q.late => q.user \in gone /\ ~Exists(q.user) /\ q.todo # <<"session">>
  BY <1>2 DEF Relies, Inv, Gone
<1>7. PICK found : found = (IF Head(q.todo) = "user" THEN Exists(q.user)
                            ELSE IF conf.door = "http" THEN q.token \in rows
                            ELSE \E w \in rows : w.kind = "session" /\ w.of = q.user)
  OBVIOUS
<1>8. Put(r, IF ~found THEN Answer(q, "failed")
             ELSE IF Len(q.todo) > 1 THEN [q EXCEPT !.todo = Tail(@)] ELSE Begin(q, Op(r)))
  BY <1>1, <1>7, Zenon DEF EnterDoor
<1>9. CASE ~found
  BY <1>1, <1>2, <1>3, <1>5, <1>8, <1>9, OnlyAnswers
<1>10. CASE found /\ Len(q.todo) > 1
  <2>1. PICK n : n = [q EXCEPT !.todo = Tail(q.todo)]
    OBVIOUS
  <2>2. Put(r, n)
    BY <1>8, <1>10, <2>1
  <2>3. Tail(q.todo) \in Doors /\ Tail(q.todo) # <<"user", "session">> /\ (q.late => Tail(q.todo) # <<"session">>)
        /\ (Tail(q.todo) = <<"session">> => Op(r) = "set_password")
    <3>1. PICK t \in Doors : t = q.todo
      BY <1>3
    <3>2. t = <<"session", "user">> \/ t = <<"user", "session">>
      BY <1>10, <3>1, DoorIs
    <3>3. CASE t = <<"session", "user">>
      <4>1. Tail(t) = <<"user">>
        BY <3>3
      <4>2. <<"user">> # <<"session">> /\ <<"user">> # <<"user", "session">> /\ <<"user">> \in Doors
        BY DEF Doors
      <4> QED BY <3>1, <4>1, <4>2
    <3>4. CASE t = <<"user", "session">>
      <4>1. Tail(t) = <<"session">> /\ Head(t) = "user"
        BY <3>4
      <4>2. <<"session">> # <<"user", "session">> /\ <<"session">> \in Doors
        BY DEF Doors
      <4>3. ~q.late
        BY <1>6, <1>7, <1>10, <3>1, <4>1
      <4> QED BY <1>3, <3>1, <3>4, <4>1, <4>2, <4>3
    <3> QED BY <3>2, <3>3, <3>4
  <2>4. n \in Call /\ n.todo = Tail(q.todo) /\ n.pc = q.pc /\ n.user = q.user /\ n.email = q.email /\ n.at = q.at
        /\ n.cause = q.cause /\ n.answer = q.answer /\ Kept(n, q)
    BY <1>2, <2>1, <2>3 DEF Call, Kept
  <2>5. Basic(r, n)
    BY <1>2, <1>3, <2>3, <2>4, NameAssumption DEF Basic, Kept, Unborn
  <2>6. Relies(r, n)
    BY <1>2, <1>3, <2>3, <2>4 DEF Relies, Kept, Unborn
  <2> QED BY <1>1, <1>2, <1>3, <1>5, <2>2, <2>4, <2>5, <2>6, OnlyRequest, NameAssumption DEF Unborn
<1>11. CASE found /\ ~(Len(q.todo) > 1)
  <2>1. ~q.late /\ (Exists(q.user) \/ Op(r) = "set_password")
    <3>1. PICK t \in Doors : t = q.todo
      BY <1>3
    <3>2. (Head(t) = "user" /\ t = <<"user">>) \/ (Head(t) = "session" /\ t = <<"session">>)
      BY <1>11, <3>1, DoorIs
    <3> QED BY <1>3, <1>6, <1>7, <1>11, <3>1, <3>2
  <2>2. q.user \in Id
    BY <1>2, <1>3 DEF Call
  <2>3. Put(r, Begin(q, Op(r)))
    BY <1>8, <1>11
  <2>4. CASE Op(r) \in {"delete", "confirm_delete", "add_key", "request_delete"}
    <3>1. PICK e : e = users[q.user].email
      OBVIOUS
    <3>2. e \in Email /\ Exists(q.user)
      BY <2>1, <2>2, <2>4, <3>1 DEF Inv, Typed, Exists
    <3>3. PICK p : p = IF Op(r) \in {"delete", "confirm_delete"} THEN "verify" ELSE "add"
      OBVIOUS
    <3>4. PICK d, n : d = [q EXCEPT !.pc = p] /\ n = [d EXCEPT !.email = e]
      OBVIOUS
    <3>5. Put(r, n)
      <4>1. CASE Op(r) \in {"delete", "confirm_delete"}
        <5>1. Put(r, [q EXCEPT !.pc = "verify", !.email = users[q.user].email])
          BY <2>3, <4>1 DEF Begin
        <5> QED BY <3>1, <3>3, <3>4, <4>1, <5>1, Zenon
      <4>2. CASE Op(r) \in {"add_key", "request_delete"}
        <5>1. Put(r, [q EXCEPT !.pc = "add", !.email = users[q.user].email])
          BY <2>3, <4>2 DEF Begin
        <5>2. p = "add"
          BY <3>3, <4>2
        <5> QED BY <3>1, <3>4, <5>1, <5>2, Zenon
      <4> QED BY <2>4, <4>1, <4>2
    <3>6. p \in {"verify", "add"} /\ (p = "verify" => Op(r) \in {"delete", "confirm_delete"})
          /\ (p = "add" => Op(r) \in {"add_key", "request_delete"})
      BY <2>4, <3>3
    <3>7. d \in Call /\ d.pc = p /\ Kept(d, q) /\ d.user = q.user /\ d.todo = q.todo /\ d.at = q.at /\ d.cause = q.cause
          /\ d.answer = q.answer
      BY <1>2, <3>4, <3>6 DEF Call, Pc, Kept
    <3>8. n \in Call /\ n.pc = p /\ Kept(n, q) /\ n.user = q.user /\ n.todo = q.todo /\ n.at = q.at /\ n.cause = q.cause
          /\ n.answer = q.answer /\ n.email = e
      BY <3>2, <3>4, <3>7 DEF Call, Kept
    <3>9. Basic(r, n)
      BY <1>2, <1>3, <3>2, <3>6, <3>8, NameAssumption DEF Basic, Kept, Unborn
    <3>10. Relies(r, n)
      BY <1>2, <1>3, <2>1, <3>1, <3>6, <3>8 DEF Relies, Kept, Unborn
    <3> QED BY <1>1, <1>2, <1>3, <1>5, <3>5, <3>6, <3>8, <3>9, <3>10, OnlyRequest, NameAssumption DEF Unborn
  <2>5. CASE Op(r) \in {"set_password", "rename"}
    <3>1. PICK p : p = IF Op(r) = "set_password" THEN "has" ELSE "lookup"
      OBVIOUS
    <3>2. PICK n : n = Go(q, p)
      OBVIOUS
    <3>3. Put(r, n) /\ p \in Pc /\ p \in {"has", "lookup"} /\ (p = "has" => Op(r) = "set_password")
          /\ (p = "lookup" => Op(r) = "rename")
      BY <2>3, <2>5, <3>1, <3>2 DEF Begin, Pc
    <3>4. /\ n \in Call /\ n.pc = p /\ Kept(n, q)
          /\ n.user = q.user /\ n.email = q.email /\ n.todo = q.todo /\ n.at = q.at /\ n.cause = q.cause /\ n.answer = q.answer
      BY <1>2, <3>2, <3>3, GoIs
    <3>5. Basic(r, n)
      BY <1>2, <1>3, <3>3, <3>4, NameAssumption DEF Basic, Kept, Unborn
    <3>6. Relies(r, n)
      BY <1>2, <1>3, <2>1, <3>3, <3>4 DEF Relies, Kept, Unborn
    <3> QED BY <1>1, <1>2, <1>3, <1>5, <3>3, <3>4, <3>5, <3>6, OnlyRequest, NameAssumption DEF Unborn
  <2>6. CASE Op(r) = "read"
    <3>1. Put(r, Answer(q, "ok"))
      BY <2>3, <2>6 DEF Begin
    <3> QED BY <1>1, <1>2, <1>3, <1>5, <2>1, <3>1, OnlyAnswers
  <2> QED BY <1>3, <2>4, <2>5, <2>6 DEF DoorOps
<1> QED BY <1>9, <1>10, <1>11

(* A call that arrives is a record in which a few fields are set.          *)
LEMMA NewIs ==
    /\ NoRequest \in Call /\ NoRequest.pc = "new" /\ NoRequest.user = None /\ NoRequest.cause = None /\ NoRequest.at = 0
    /\ ~NoRequest.persisted /\ NoRequest.undone /\ ~NoRequest.late /\ NoRequest.answer = None
<1>1. NoRequest \in Call
  BY DEF NoRequest, Call, Pc
<1> QED BY <1>1 DEF NoRequest

LEMMA DoorsOf ==
    ASSUME NEW op
    PROVE  Door(op) \in Doors /\ Door(op) # <<"session">> /\ (Door(op) = <<"user", "session">> => op = "set_password")
<1>1. CASE Door(op) = <<"session", "user">>
  <2>1. <<"session", "user">> # <<"session">> /\ <<"session", "user">> # <<"user", "session">>
    OBVIOUS
  <2> QED BY <1>1, <2>1 DEF Doors
<1>2. CASE op = "set_password" /\ Door(op) = <<"user", "session">>
  <2>1. <<"user", "session">> # <<"session">>
    OBVIOUS
  <2> QED BY <1>2, <2>1 DEF Doors
<1>3. CASE Door(op) = <<"user">>
  <2>1. <<"user">> # <<"session">> /\ <<"user">> # <<"user", "session">>
    OBVIOUS
  <2> QED BY <1>3, <2>1 DEF Doors
<1> QED BY <1>1, <1>2, <1>3 DEF Door

LEMMA StartGoes ==
    ASSUME Inv, NEW r \in Request, Start(r)
    PROVE  \E n : Contract(r, n)
<1>1. req[r].pc = "new" /\ UNCHANGED <<conf, users, rows, gone, raced>> /\ r \in Id /\ ~Exists(r) /\ req[r].cause = None
  BY AtIs DEF Start, At, Relies, Basic, Unborn
<1>2. conf.emails \subseteq Email /\ conf.names \subseteq Username \cup {None}
  BY ConfIs
<1>3. PICK q : q = NoRequest
  OBVIOUS
<1>4. /\ q \in Call /\ q.pc = "new" /\ q.user = None /\ q.cause = None /\ q.at = 0 /\ ~q.persisted /\ q.undone
      /\ ~q.late /\ q.answer = None
  BY <1>3, NewIs
<1>5. None \notin {"undo", "delete"}
  BY NameAssumption
<1>6. ASSUME NEW n, Put(r, n), Basic(r, n), Relies(r, n)
      PROVE  Contract(r, n)
  BY <1>1, <1>5, <1>6, OnlyRequest DEF Unborn
<1>7. CASE Op(r) \in {"sign_up", "create_user"} /\ \E e \in conf.emails, m \in conf.names :
             Put(r, [q EXCEPT !.email = e, !.name = m,
                              !.pc = IF m # None /\ conf.store # "memory" THEN "check" ELSE "insert"])
  <2>1. PICK e \in conf.emails, m \in conf.names :
             Put(r, [q EXCEPT !.email = e, !.name = m,
                              !.pc = IF m # None /\ conf.store # "memory" THEN "check" ELSE "insert"])
    BY <1>7
  <2>2. PICK p : p = IF m # None /\ conf.store # "memory" THEN "check" ELSE "insert"
    OBVIOUS
  <2>3. PICK c, d, n : c = [q EXCEPT !.email = e] /\ d = [c EXCEPT !.name = m] /\ n = [d EXCEPT !.pc = p]
    OBVIOUS
  <2>4. Put(r, n)
    BY <2>1, <2>2, <2>3, Zenon
  <2>5. p \in Pc /\ p \in {"check", "insert"} /\ e \in Email /\ m \in Username \cup {None}
    BY <1>2, <2>2 DEF Pc
  <2>6. /\ c \in Call /\ c.email = e /\ c.user = None /\ c.cause = None /\ c.at = 0 /\ ~c.persisted /\ c.undone
        /\ ~c.late /\ c.answer = None
    BY <1>4, <2>3, <2>5 DEF Call
  <2>7. /\ d \in Call /\ d.email = e /\ d.user = None /\ d.cause = None /\ d.at = 0 /\ ~d.persisted /\ d.undone
        /\ ~d.late /\ d.answer = None
    <3>1. d = [c EXCEPT !.name = m]
      BY <2>3
    <3> QED BY <2>5, <2>6, <3>1 DEF Call
  <2>8. /\ n \in Call /\ n.pc = p /\ n.email = e /\ n.user = None /\ n.cause = None /\ n.at = 0 /\ ~n.persisted /\ n.undone
        /\ ~n.late /\ n.answer = None
    <3>1. n = [d EXCEPT !.pc = p]
      BY <2>3
    <3> QED BY <2>5, <2>7, <3>1 DEF Call
  <2>9. Op(r) \in Creators
    BY <1>7 DEF Creators
  <2>10. Basic(r, n)
    BY <1>5, <2>5, <2>8, <2>9 DEF Basic, Unborn
  <2>11. Relies(r, n)
    BY <1>1, <1>5, <2>5, <2>8, <2>9 DEF Relies, Unborn
  <2> QED BY <1>6, <2>4, <2>10, <2>11
<1>8. CASE Op(r) \in {"otp", "sign_in", "forgot_password"} /\ \E e \in conf.emails : Put(r, [q EXCEPT !.email = e, !.pc = "find"])
  <2>1. PICK e \in conf.emails : Put(r, [q EXCEPT !.email = e, !.pc = "find"])
    BY <1>8
  <2>2. PICK c, n : c = [q EXCEPT !.email = e] /\ n = [c EXCEPT !.pc = "find"]
    OBVIOUS
  <2>3. Put(r, n)
    BY <2>1, <2>2, Zenon
  <2>4. e \in Email
    BY <1>2
  <2>5. /\ c \in Call /\ c.email = e /\ c.user = None /\ c.cause = None /\ c.at = 0 /\ ~c.persisted /\ c.undone
        /\ ~c.late /\ c.answer = None
    BY <1>4, <2>2, <2>4 DEF Call
  <2>6. /\ n \in Call /\ n.pc = "find" /\ n.email = e /\ n.user = None /\ n.cause = None /\ n.at = 0 /\ ~n.persisted /\ n.undone
        /\ ~n.late /\ n.answer = None
    <3>1. n = [c EXCEPT !.pc = "find"]
      BY <2>2
    <3> QED BY <2>5, <3>1 DEF Call, Pc
  <2>7. Basic(r, n)
    BY <1>5, <1>8, <2>4, <2>6 DEF Basic, Unborn
  <2>8. Relies(r, n)
    BY <1>1, <1>5, <2>6 DEF Relies, Unborn
  <2> QED BY <1>6, <2>3, <2>7, <2>8
<1>9. CASE Op(r) \in DoorOps /\ \E w \in {First} \cup {v \in rows : v.kind = "session"}, m \in conf.names :
             /\ Op(r) = "rename" => m # None
             /\ Put(r, [q EXCEPT !.token = w, !.user = w.of, !.name = m, !.todo = Door(Op(r)), !.pc = "door",
                                 !.late = w.of \in gone])
  <2>1. PICK w \in {First} \cup {v \in rows : v.kind = "session"}, m \in conf.names :
             /\ Op(r) = "rename" => m # None
             /\ Put(r, [q EXCEPT !.token = w, !.user = w.of, !.name = m, !.todo = Door(Op(r)), !.pc = "door",
                                 !.late = w.of \in gone])
    BY <1>9
  <2>2. w \in Row /\ w.of \in Id /\ Born(w.of) /\ m \in Username \cup {None}
    <3>1. CASE w = First
      BY <1>2, <3>1 DEF First, Row, Kind, Id, Born
    <3>2. CASE w \in rows /\ w.kind = "session"
      BY <1>2, <3>2 DEF Inv, Typed, Rows, Challenges
    <3> QED BY <3>1, <3>2
  <2>3. PICK late, todo : late = (w.of \in gone) /\ todo = Door(Op(r))
    OBVIOUS
  <2>4. todo \in Doors /\ todo # <<"session">> /\ (todo = <<"user", "session">> => Op(r) = "set_password")
    BY <2>3, DoorsOf
  <2>5. PICK a, b, c, d, e, n :
          /\ a = [q EXCEPT !.token = w] /\ b = [a EXCEPT !.user = w.of] /\ c = [b EXCEPT !.name = m]
          /\ d = [c EXCEPT !.todo = todo] /\ e = [d EXCEPT !.pc = "door"] /\ n = [e EXCEPT !.late = late]
    OBVIOUS
  <2>6. Put(r, n)
    BY <2>1, <2>3, <2>5, Zenon
  <2>7. /\ a \in Call /\ a.user = None /\ a.cause = None /\ a.at = 0 /\ ~a.persisted /\ a.undone /\ ~a.late /\ a.answer = None
    <3>1. a = [q EXCEPT !.token = w]
      BY <2>5
    <3> QED BY <1>4, <2>2, <3>1 DEF Call
  <2>8. /\ b \in Call /\ b.user = w.of /\ b.cause = None /\ b.at = 0 /\ ~b.persisted /\ b.undone /\ ~b.late /\ b.answer = None
    <3>1. b = [a EXCEPT !.user = w.of]
      BY <2>5
    <3> QED BY <2>2, <2>7, <3>1 DEF Call
  <2>9. /\ c \in Call /\ c.user = w.of /\ c.name = m /\ c.cause = None /\ c.at = 0 /\ ~c.persisted /\ c.undone /\ ~c.late
        /\ c.answer = None
    <3>1. c = [b EXCEPT !.name = m]
      BY <2>5
    <3> QED BY <2>2, <2>8, <3>1 DEF Call
  <2>10. /\ d \in Call /\ d.user = w.of /\ d.name = m /\ d.todo = todo /\ d.cause = None /\ d.at = 0 /\ ~d.persisted
         /\ d.undone /\ d.answer = None
    <3>1. d = [c EXCEPT !.todo = todo] /\ todo \in Doors
      BY <2>4, <2>5
    <3> QED BY <2>9, <3>1 DEF Call
  <2>11. /\ e \in Call /\ e.user = w.of /\ e.name = m /\ e.todo = todo /\ e.pc = "door" /\ e.cause = None /\ e.at = 0
         /\ ~e.persisted /\ e.undone /\ e.answer = None
    <3>1. e = [d EXCEPT !.pc = "door"]
      BY <2>5
    <3> QED BY <2>10, <3>1 DEF Call, Pc
  <2>12. late \in BOOLEAN
    BY <2>3
  <2>13. /\ n \in Call /\ n.user = w.of /\ n.name = m /\ n.todo = todo /\ n.pc = "door" /\ n.cause = None /\ n.at = 0
         /\ ~n.persisted /\ n.undone /\ n.answer = None /\ n.late = late
    <3>1. n = [e EXCEPT !.late = late]
      BY <2>5
    <3> QED BY <2>11, <2>12, <3>1 DEF Call
  <2>14. Op(r) \notin Creators /\ w.of # None
    BY <1>9, <2>2, NameAssumption DEF DoorOps, Creators
  <2>15. Basic(r, n)
    BY <1>5, <1>9, <2>1, <2>4, <2>13, <2>14 DEF Basic, Unborn
  <2>16. Relies(r, n)
    BY <1>5, <2>2, <2>3, <2>4, <2>13, <2>14 DEF Relies, Unborn
  <2> QED BY <1>6, <2>6, <2>15, <2>16
<1>10. \/ Op(r) \in {"sign_up", "create_user"} /\ \E e \in conf.emails, m \in conf.names :
             Put(r, [q EXCEPT !.email = e, !.name = m,
                              !.pc = IF m # None /\ conf.store # "memory" THEN "check" ELSE "insert"])
       \/ Op(r) \in {"otp", "sign_in", "forgot_password"} /\ \E e \in conf.emails : Put(r, [q EXCEPT !.email = e, !.pc = "find"])
       \/ Op(r) \in DoorOps /\ \E w \in {First} \cup {v \in rows : v.kind = "session"}, m \in conf.names :
             /\ Op(r) = "rename" => m # None
             /\ Put(r, [q EXCEPT !.token = w, !.user = w.of, !.name = m, !.todo = Door(Op(r)), !.pc = "door",
                                 !.late = w.of \in gone])
  BY <1>3, Zenon DEF Start, DoorOps
<1> QED BY <1>7, <1>8, <1>9, <1>10

------------------------------------------------------------------------------
(* What is removed.                                                        *)
LEMMA Removes ==
    ASSUME Inv, NEW r \in Request, NEW n, Put(r, n), conf' = conf, raced' = raced, gone \subseteq gone', gone' \subseteq Id,
           Basic(r, n), Relies(r, n)', n.pc \in Unborn => req[r].pc \in Unborn,
           req[r].cause = "delete" => n.cause = "delete" /\ n.user = req[r].user,
           rows' \subseteq rows,
           \A w \in rows \ rows' :
               w.kind \in {"credential", "email_otp"} => w.of = r \/ (n.cause = "delete" /\ n.user = w.of),
           users' \in [Id -> [email : Email, name : Username \cup {None}] \cup {None}],
           \A i \in Id : Exists(i)' => Exists(i) /\ users'[i] = users[i],
           \A i \in Id : Exists(i) /\ ~Exists(i)' => i = r \/ (n.cause = "delete" /\ n.user = i),
           \A w \in rows' : Owned(w) /\ ~Owned(w)' => w \in raced,
           ~Mongo => \A w \in rows' : w.kind = "session" /\ ~Exists(w.of)' => ~Exists(w.of) /\ w.by # r,
           \A i \in gone' \ gone : ~Exists(i)' /\ Born(i)
    PROVE  Contract(r, n)
<1>1. req' = [req EXCEPT ![r] = n]
  BY DEF Put
<1>2. /\ req'[r] = n /\ \A v \in Request : v # r => req'[v] = req[v]
      /\ \A i : Born(i) => Born(i)'
  BY <1>1, Steady
<1>3. Unique'
  BY DEF Inv, Unique
<1>4. Rows'
  <2> SUFFICES ASSUME NEW w \in rows'
               PROVE  /\ IF w.kind \in Challenges THEN w.of \in Email ELSE w.of \in Id /\ Born(w.of)'
                      /\ ~Owned(w)' => w \in raced
                      /\ ~Mongo /\ w.kind = "session" /\ ~Exists(w.of)' =>
                             w.by \in Request /\ req'[w.by].pc \in {"issued", "revoke"} /\ req'[w.by].user = w.of
    BY DEF Rows, Mongo
  <2>1. /\ IF w.kind \in Challenges THEN w.of \in Email ELSE w.of \in Id /\ Born(w.of)
        /\ ~Owned(w) => w \in raced
        /\ ~Mongo /\ w.kind = "session" /\ ~Exists(w.of) =>
               w.by \in Request /\ req[w.by].pc \in {"issued", "revoke"} /\ req[w.by].user = w.of
    BY DEF Inv, Rows
  <2> QED BY <1>2, <2>1
<1>5. Gone'
  <2> SUFFICES ASSUME NEW i \in gone' PROVE ~Exists(i)' /\ Born(i)'
    BY DEF Gone
  <2>1. CASE i \in gone
    BY <1>2, <2>1 DEF Inv, Gone, Typed
  <2>2. CASE i \notin gone
    BY <1>2, <2>2
  <2> QED BY <2>1, <2>2
<1>6. raced \subseteq raced' /\ rows' \subseteq Row /\ raced' \subseteq Row
  BY DEF Inv, Typed
<1> QED BY <1>1, <1>3, <1>4, <1>5, <1>6 DEF Contract

LEMMA SweptIs ==
    ASSUME NEW q \in Call, NEW done \in BOOLEAN, NEW n, n = Swept(q, done)
    PROVE  /\ n \in Call /\ n.pc = "done" /\ n.user = q.user /\ n.email = q.email /\ n.cause = q.cause /\ n.at = q.at
           /\ n.name = q.name /\ n.token = q.token /\ n.persisted = q.persisted /\ n.late = q.late
           /\ n.answer \in {"ok", "failed"} /\ (q.cause = "undo" => n.undone = done)
<1>1. CASE q.cause = "undo"
  <2>1. PICK d : d = Answer(q, "failed")
    OBVIOUS
  <2>2. n = [d EXCEPT !.undone = done]
    BY <1>1, <2>1 DEF Swept
  <2>3. /\ d \in Call /\ d.pc = "done" /\ d.answer = "failed" /\ Kept(d, q)
        /\ d.user = q.user /\ d.email = q.email /\ d.at = q.at /\ d.cause = q.cause
    BY <2>1, AnswerIs
  <2> QED BY <2>2, <2>3 DEF Call, Kept
<1>2. CASE q.cause # "undo"
  <2>1. PICK a : a = (IF done THEN "ok" ELSE "failed")
    OBVIOUS
  <2>2. n = Answer(q, a) /\ a \in {"ok", "failed"}
    BY <1>2, <2>1 DEF Swept
  <2> QED BY <1>2, <2>2, AnswerIs DEF Kept
<1> QED BY <1>1, <1>2

(* A sweep that has come to its end.                                       *)
LEMMA Ends ==
    ASSUME Inv, NEW r \in Request, req[r].pc = "sweep", NEW done \in BOOLEAN, NEW n, n = Swept(req[r], done), Put(r, n),
           conf' = conf, NEW i, i = req[r].user, done => ~Exists(i)'
    PROVE  /\ Basic(r, n) /\ Relies(r, n)' /\ n.pc = "done" /\ n.user = req[r].user /\ n.cause = req[r].cause
<1>1. PICK q : q = req[r]
  OBVIOUS
<1>2. Basic(r, q) /\ Relies(r, q) /\ q \in Call /\ q.pc = "sweep" /\ ~q.late
  BY <1>1, AtIs
<1>3. q.user # None /\ ~q.persisted /\ q.cause \in {"undo", "delete"}
  BY <1>2, NameAssumption DEF Basic, Call
<1>4. /\ n \in Call /\ n.pc = "done" /\ n.user = q.user /\ n.email = q.email /\ n.cause = q.cause /\ n.at = q.at
      /\ n.name = q.name /\ n.token = q.token /\ n.persisted = q.persisted /\ n.late = q.late
      /\ n.answer \in {"ok", "failed"} /\ (q.cause = "undo" => n.undone = done)
  BY <1>1, <1>2, SweptIs
<1>5. Basic(r, n)
  BY <1>2, <1>3, <1>4, NameAssumption DEF Basic, Unborn
<1>6. \A j : Born(j) => Born(j)'
  BY <1>1, <1>4, Steady DEF Unborn, Put
<1>7. Op(r)' = Op(r)
  BY DEF Op
<1>8. Op(r) \in Creators => q.cause = "undo" /\ q.user = r
  BY <1>2, <1>3 DEF Basic
<1>9. (n.user # None => n.user = r \/ Born(n.user))'
  BY <1>2, <1>4, <1>6 DEF Relies
<1>10. Op(r)' \in Creators /\ n.undone => ~Exists(r)'
  BY <1>1, <1>4, <1>7, <1>8
<1>11. Relies(r, n)'
  BY <1>2, <1>3, <1>4, <1>9, <1>10 DEF Relies, Unborn
<1> QED BY <1>1, <1>4, <1>5, <1>11

LEMMA FindDeletedGoes ==
    ASSUME Inv, NEW r \in Request, FindDeleted(r)
    PROVE  \E n : Contract(r, n)
<1>1. PICK q : q = req[r]
  OBVIOUS
<1>2. Basic(r, q) /\ Relies(r, q) /\ q \in Call /\ q.pc = "sweep" /\ ~q.late /\ r \in Id /\ q.at = 0
  BY <1>1, AtIs DEF FindDeleted, At
<1>3. UNCHANGED <<conf, users, rows, raced>>
  BY DEF FindDeleted
<1>4. q.user \in Id /\ Born(q.user)
  BY <1>1, <1>2, NameAssumption DEF Basic, Relies, Call, Born, Unborn
<1>5. CASE Exists(q.user)
  <2>1. PICK n : n = [q EXCEPT !.at = 1]
    OBVIOUS
  <2>2. Put(r, n) /\ gone' = gone
    BY <1>1, <1>5, <2>1 DEF FindDeleted
  <2>3. n \in Call /\ n.at = 1 /\ n.todo = q.todo /\ n.pc = q.pc /\ n.user = q.user /\ n.email = q.email
        /\ n.cause = q.cause /\ n.answer = q.answer /\ Kept(n, q)
    BY <1>2, <2>1 DEF Call, Kept
  <2>4. Basic(r, n)
    BY <1>2, <2>3 DEF Basic, Kept
  <2>5. Through(n.at) = {}
    BY <2>3 DEF Through
  <2>6. Relies(r, n)
    BY <1>2, <2>3, <2>5 DEF Relies, Kept
  <2> QED BY <1>1, <1>2, <1>3, <2>2, <2>3, <2>4, <2>6, OnlyRequest DEF Unborn
<1>6. CASE ~Exists(q.user)
  <2>1. PICK done, i, n : done \in BOOLEAN /\ done = TRUE /\ i = q.user /\ n = Swept(q, done)
    OBVIOUS
  <2>2. Put(r, n) /\ gone' = IF q.cause = "delete" THEN gone \cup {q.user} ELSE gone
    BY <1>1, <1>6, <2>1 DEF FindDeleted
  <2>3. /\ Basic(r, n) /\ Relies(r, n)' /\ n.pc = "done" /\ n.user = q.user /\ n.cause = q.cause
    <3>1. ~Exists(i)'
      BY <1>3, <1>6, <2>1 DEF Exists
    <3> QED BY <1>1, <1>2, <1>3, <2>1, <2>2, <3>1, Ends
  <2>4. \A j \in gone' \ gone : ~Exists(j)' /\ Born(j)
    BY <1>3, <1>4, <1>6, <2>2 DEF Exists
  <2>5. gone \subseteq gone' /\ gone' \subseteq Id
    BY <1>4, <2>2 DEF Inv, Typed
  <2>6. (\A j : Exists(j)' <=> Exists(j)) /\ \A w : Owned(w)' <=> Owned(w)
    BY <1>3 DEF Exists, Owned, Owner
  <2>7. ~Mongo => \A w \in rows' : w.kind = "session" /\ ~Exists(w.of)' => ~Exists(w.of) /\ w.by # r
    BY DEF FindDeleted, Mongo
  <2> QED BY <1>1, <1>3, <2>2, <2>3, <2>4, <2>5, <2>6, <2>7, Removes DEF Unborn, Inv, Typed
<1> QED BY <1>5, <1>6

LEMMA SweepsAre ==
    /\ Len(Sweeps) = 5 /\ \A m \in 1 .. 5 : "user" \in Sweeps[m] <=> m = 5
    /\ Kind \subseteq Through(5)
    /\ \A m \in 1 .. 4 : \A k \in Through(m + 1) : k \in Through(m) \/ k \in Sweeps[m]
<1>1. /\ Sweeps[1] = {"session"} /\ Sweeps[2] = {"credential", "email_otp"} /\ Sweeps[3] = {"api_key"}
      /\ Sweeps[4] = Challenges /\ Sweeps[5] = {"user"} /\ Len(Sweeps) = 5
  BY DEF Sweeps
<1>2. \A m \in 1 .. 5 : "user" \in Sweeps[m] <=> m = 5
  BY <1>1 DEF Challenges
<1>3. ASSUME NEW k \in Kind PROVE k \in Through(5)
  <2>1. \E m \in 1 .. 4 : k \in Sweeps[m]
    <3>1. CASE k \in Challenges
      BY <1>1, <3>1
    <3>2. CASE k = "session"
      BY <1>1, <3>2
    <3>3. CASE k \in {"credential", "email_otp"}
      BY <1>1, <3>3
    <3>4. CASE k = "api_key"
      BY <1>1, <3>4
    <3> QED BY <3>1, <3>2, <3>3, <3>4 DEF Kind
  <2> QED BY <2>1 DEF Through
<1>4. ASSUME NEW m \in 1 .. 4, NEW k \in Through(m + 1) PROVE k \in Through(m) \/ k \in Sweeps[m]
  <2>1. PICK l \in 1 .. 5 : l < m + 1 /\ k \in Sweeps[l] /\ k \in Kind
    BY <1>4 DEF Through
  <2>2. l < m \/ l = m
    BY <2>1
  <2> QED BY <2>1, <2>2 DEF Through
<1> QED BY <1>1, <1>2, <1>3, <1>4

(* One step of a deletion.  The user goes last, and with it or before it   *)
(* every row that refers to it, but those that were added meanwhile.       *)
LEMMA DeleteGoes ==
    ASSUME Inv, NEW r \in Request, NEW kinds, NEW last \in BOOLEAN, Delete(r, kinds, last), req[r].pc = "sweep",
           ~Mongo => last /\ "user" \in kinds /\ (Kind \ Challenges) \subseteq kinds /\ (Exists(req[r].user) => Kind \subseteq kinds),
           Mongo => req[r].at \in 1 .. 5 /\ kinds = Sweeps[req[r].at] /\ (last <=> req[r].at = 5)
    PROVE  \E n : Contract(r, n)
<1>1. PICK q, i : q = req[r] /\ i = q.user
  OBVIOUS
<1>2. Basic(r, q) /\ Relies(r, q) /\ q \in Call /\ q.pc = "sweep" /\ ~q.late /\ r \in Id
  BY <1>1, AtIs
<1>3. i \in Id /\ Born(i) /\ q.cause \in {"undo", "delete"} /\ (q.cause = "undo" => i = r)
  BY <1>1, <1>2, NameAssumption DEF Basic, Relies, Call, Born, Unborn
<1>4. PICK o \in Outcome :
         /\ rows' = IF o = "call" THEN rows ELSE rows \ Doomed(q, kinds)
         /\ users' = IF o # "call" /\ "user" \in kinds THEN [users EXCEPT ![i] = None] ELSE users
         /\ Put(r, IF o # "ok" THEN Swept(q, FALSE) ELSE IF last THEN Swept(q, TRUE) ELSE [q EXCEPT !.at = @ + 1])
         /\ gone' = IF o = "ok" /\ last /\ q.cause = "delete" THEN gone \cup {i} ELSE gone
         /\ UNCHANGED <<conf, raced>>
  BY <1>1, Zenon DEF Delete
<1>5. /\ last <=> "user" \in kinds
      /\ Exists(i) /\ last => \A w \in rows : w.of \in {i, q.email} => w.kind \in kinds \/ w \in raced
  <2>1. CASE Mongo
    <3>1. last <=> "user" \in kinds
      BY <1>1, <2>1, SweepsAre
    <3>2. last => \A w \in rows : w.of \in {i, q.email} => w \in raced
      BY <1>1, <1>2, <2>1, SweepsAre DEF Relies, Inv, Typed, Row
    <3> QED BY <3>1, <3>2
  <2>2. CASE ~Mongo
    BY <1>1, <2>2 DEF Inv, Typed, Row
  <2> QED BY <2>1, <2>2
<1>6. rows' \subseteq rows /\ \A w \in rows : w \notin rows' => w \in Doomed(q, kinds)
  BY <1>4
<1>7. \A w \in Doomed(q, kinds) : w.kind \in {"credential", "email_otp"} => w.of = i
  <2>1. q.email \notin Id
    BY <1>2, NameAssumption DEF Call
  <2>2. \A w \in rows : w.kind \in {"credential", "email_otp"} => w.of \in Id
    BY DEF Inv, Rows, Challenges
  <2> QED BY <1>1, <2>1, <2>2 DEF Doomed, Of
<1>8. \A w \in rows : w.of \in {i, q.email} /\ w.kind \in kinds => w \in Doomed(q, kinds)
  BY <1>1 DEF Doomed, Of
<1>9. users \in [Id -> [email : Email, name : Username \cup {None}] \cup {None}]
  BY DEF Inv, Typed
<1>10. /\ users' \in [Id -> [email : Email, name : Username \cup {None}] \cup {None}]
       /\ \A j \in Id : users'[j] = users[j] \/ (j = i /\ users'[j] = None /\ o # "call" /\ last)
  BY <1>3, <1>4, <1>5, <1>9
<1>11. \A j \in Id : Exists(j)' => Exists(j) /\ users'[j] = users[j]
  BY <1>10 DEF Exists
<1>12. \A j \in Id : Exists(j) /\ ~Exists(j)' => j = i /\ o # "call" /\ last
  BY <1>10 DEF Exists
<1>13. ASSUME NEW w \in rows', Owned(w), ~Owned(w)' PROVE w \in raced
  <2>1. Exists(i) /\ o # "call" /\ last /\ w.of \in {i, q.email}
    <3>1. w \in rows
      BY <1>6
    <3>2. CASE w.kind \in Challenges
      <4>1. PICK j \in Id : Exists(j) /\ users[j].email = w.of
        BY <1>13, <3>2 DEF Owned, Owner
      <4>2. ~Exists(j)'
        <5>1. ~(Exists(j)' /\ users'[j].email = w.of)
          BY <1>13, <3>2 DEF Owned, Owner
        <5> QED BY <1>11, <4>1, <5>1
      <4>3. j = i /\ o # "call" /\ last
        BY <1>12, <4>1, <4>2
      <4>4. users[i].email = q.email
        BY <1>1, <1>2, <4>1, <4>3 DEF Relies
      <4> QED BY <4>1, <4>3, <4>4
    <3>3. CASE w.kind \notin Challenges
      <4>1. Exists(w.of) /\ ~Exists(w.of)' /\ w.of \in Id
        BY <1>13, <3>1, <3>3 DEF Owned, Inv, Rows
      <4> QED BY <1>12, <4>1
    <3> QED BY <3>2, <3>3
  <2>2. w \notin Doomed(q, kinds)
    BY <1>4, <2>1
  <2> QED BY <1>5, <1>6, <1>8, <2>1, <2>2
<1>14. ASSUME ~Mongo, NEW w \in rows', w.kind = "session", ~Exists(w.of)' PROVE ~Exists(w.of) /\ w.by # r
  <2>1. w \in rows /\ w.of \in Id
    BY <1>6, <1>14 DEF Inv, Rows, Challenges
  <2>2. ~Exists(w.of)
    <3>1. SUFFICES ASSUME Exists(w.of) PROVE FALSE
      OBVIOUS
    <3>2. w.of = i /\ o # "call" /\ last
      BY <1>12, <1>14, <2>1, <3>1
    <3>3. "session" \in kinds
      BY <1>14 DEF Kind, Challenges
    <3>4. w \in Doomed(q, kinds)
      BY <1>8, <1>14, <2>1, <3>2, <3>3
    <3> QED BY <1>4, <3>2, <3>4
  <2>3. req[w.by].pc \in {"issued", "revoke"}
    BY <1>14, <2>1, <2>2 DEF Inv, Rows
  <2> QED BY <2>2, <2>3
<1>15. gone \subseteq gone' /\ gone' \subseteq Id /\ \A j \in gone' \ gone : j = i /\ o # "call" /\ last
  BY <1>3, <1>4 DEF Inv, Typed
<1>16. o # "call" /\ last => ~Exists(i)'
  BY <1>3, <1>4, <1>5, <1>9 DEF Exists
<1>17. raced' = raced /\ conf' = conf
  BY <1>4
<1>18. ASSUME NEW n, Put(r, n), Basic(r, n), Relies(r, n)', n.pc \notin Unborn, n.user = i, n.cause = q.cause
       PROVE  Contract(r, n)
  <2>1. \A w \in rows \ rows' :
            w.kind \in {"credential", "email_otp"} => w.of = r \/ (n.cause = "delete" /\ n.user = w.of)
    BY <1>3, <1>6, <1>7, <1>18
  <2>2. \A j \in Id : Exists(j) /\ ~Exists(j)' => j = r \/ (n.cause = "delete" /\ n.user = j)
    BY <1>3, <1>12, <1>18
  <2>3. \A j \in gone' \ gone : ~Exists(j)' /\ Born(j)
    BY <1>3, <1>15, <1>16
  <2>4. req[r].cause = "delete" => n.cause = "delete" /\ n.user = req[r].user
    BY <1>1, <1>18
  <2> QED BY <1>6, <1>10, <1>11, <1>13, <1>14, <1>15, <1>17, <1>18, <2>1, <2>2, <2>3, <2>4, Removes
<1>19. CASE o # "ok" \/ last
  <2>1. PICK done, n : done \in BOOLEAN /\ done = (o = "ok") /\ n = Swept(q, done)
    OBVIOUS
  <2>2. Put(r, n)
    <3>1. CASE o = "ok"
      BY <1>4, <1>19, <2>1, <3>1
    <3>2. CASE o # "ok"
      BY <1>4, <2>1, <3>2
    <3> QED BY <3>1, <3>2
  <2>3. done => ~Exists(i)'
    BY <1>16, <1>19, <2>1
  <2>4. Basic(r, n) /\ Relies(r, n)' /\ n.pc = "done" /\ n.user = i /\ n.cause = q.cause
    <3>1. i = req[r].user /\ req[r].pc = "sweep" /\ n = Swept(req[r], done) /\ conf' = conf
      BY <1>1, <1>2, <1>17, <2>1
    <3>2. Basic(r, n) /\ Relies(r, n)' /\ n.pc = "done" /\ n.user = req[r].user /\ n.cause = req[r].cause
      BY <2>1, <2>2, <2>3, <3>1, Ends
    <3> QED BY <1>1, <3>2
  <2> QED BY <1>18, <2>2, <2>4 DEF Unborn
<1>20. CASE o = "ok" /\ ~last
  <2>1. PICK n : n = [q EXCEPT !.at = q.at + 1]
    OBVIOUS
  <2>2. Put(r, n)
    BY <1>4, <1>20, <2>1
  <2>3. Mongo /\ q.at \in 1 .. 4 /\ kinds = Sweeps[q.at]
    BY <1>1, <1>20
  <2>4. n \in Call /\ n.at = q.at + 1 /\ n.todo = q.todo /\ n.pc = q.pc /\ n.user = q.user /\ n.email = q.email
        /\ n.cause = q.cause /\ n.answer = q.answer /\ Kept(n, q)
    BY <1>2, <2>1, <2>3 DEF Call, Kept
  <2>5. Basic(r, n)
    BY <1>2, <2>4 DEF Basic, Kept
  <2>6. users' = users
    BY <1>4, <1>5, <1>20
  <2>7. \A w \in rows' : w.of \in {i, q.email} /\ w.kind \in Through(n.at) => w \in raced
    <3> SUFFICES ASSUME NEW w \in rows', w.of \in {i, q.email}, w.kind \in Through(n.at) PROVE w \in raced
      OBVIOUS
    <3>1. w \in rows /\ w \notin Doomed(q, kinds)
      BY <1>4, <1>20
    <3>2. w.kind \notin kinds
      BY <1>8, <3>1
    <3>3. w.kind \in Through(q.at)
      BY <2>3, <2>4, <3>2, SweepsAre
    <3> QED BY <1>1, <1>2, <2>3, <3>1, <3>3 DEF Relies
  <2>8. \A j : Born(j) => Born(j)'
    BY <1>1, <1>2, <2>2, <2>4, Steady DEF Unborn, Put
  <2>9. Through(n.at)' = Through(n.at)
    BY DEF Through
  <2>10. Relies(r, n)'
    <3>1. n.user = i /\ n.pc = "sweep" /\ ~n.persisted /\ ~n.late /\ n.email = q.email
      BY <1>1, <1>2, <1>3, <2>4, NameAssumption DEF Basic, Kept
    <3>2. (Exists(i) => users[i].email = q.email)'
      BY <1>1, <1>2, <2>6 DEF Relies, Exists
    <3>3. (Mongo /\ n.pc = "sweep" =>
             \A w \in rows : w.of \in {n.user, n.email} /\ w.kind \in Through(n.at) => w \in raced)'
      BY <1>17, <2>7, <2>9, <3>1
    <3>4. (n.user = r \/ Born(n.user))'
      BY <1>3, <2>8, <3>1
    <3> QED BY <3>1, <3>2, <3>3, <3>4 DEF Relies, Unborn
  <2> QED BY <1>1, <1>2, <1>18, <2>2, <2>4, <2>5, <2>10 DEF Unborn
<1> QED BY <1>19, <1>20

LEMMA DeleteAtOnceGoes ==
    ASSUME Inv, NEW r \in Request, DeleteAtOnce(r)
    PROVE  \E n : Contract(r, n)
<1>1. PICK kinds : kinds = (IF Exists(req[r].user) THEN Kind ELSE Kind \ Challenges) \cup {"user"}
  OBVIOUS
<1>2. PICK last \in BOOLEAN : last = TRUE
  OBVIOUS
<1>3. Delete(r, kinds, last) /\ req[r].pc = "sweep" /\ ~Mongo
  BY <1>1, <1>2 DEF DeleteAtOnce, At, Mongo
<1> QED BY <1>1, <1>2, <1>3, DeleteGoes

LEMMA DeleteNextGoes ==
    ASSUME Inv, NEW r \in Request, DeleteNext(r)
    PROVE  \E n : Contract(r, n)
<1>1. PICK kinds : kinds = Sweeps[req[r].at]
  OBVIOUS
<1>2. PICK last \in BOOLEAN : last = (req[r].at = Len(Sweeps))
  OBVIOUS
<1>3. Delete(r, kinds, last) /\ req[r].pc = "sweep" /\ Mongo /\ req[r].at # 0
  BY <1>1, <1>2 DEF DeleteNext, At, Mongo
<1>4. req[r].at \in 1 .. 5
  BY <1>3, AtIs DEF Call
<1> QED BY <1>1, <1>2, <1>3, <1>4, DeleteGoes, SweepsAre

LEMMA VerifyDeletionGoes ==
    ASSUME Inv, NEW r \in Request, VerifyDeletion(r)
    PROVE  \E n : Contract(r, n)
<1>1. PICK q : q = req[r]
  OBVIOUS
<1>2. Basic(r, q) /\ Relies(r, q) /\ q \in Call /\ q.pc = "verify" /\ ~q.late /\ r \in Id
  BY <1>1, AtIs DEF VerifyDeletion, At
<1>3. UNCHANGED <<conf, users, gone, raced>>
  BY DEF VerifyDeletion
<1>4. \/ Put(r, Answer(q, "failed")) /\ UNCHANGED rows
      \/ /\ rows' = rows \/ rows' = rows \ Of(q.email, {"deletion"})
         /\ Put(r, [q EXCEPT !.pc = "sweep", !.cause = "delete"])
  BY <1>1, Zenon DEF VerifyDeletion
<1>5. q.user # None /\ ~q.persisted /\ q.cause = None /\ q.at = 0 /\ Op(r) \notin Creators /\ q.answer = None
  BY <1>2 DEF Basic
<1>6. CASE Put(r, Answer(q, "failed")) /\ UNCHANGED rows
  BY <1>1, <1>2, <1>3, <1>5, <1>6, OnlyAnswers
<1>7. CASE /\ rows' = rows \/ rows' = rows \ Of(q.email, {"deletion"})
           /\ Put(r, [q EXCEPT !.pc = "sweep", !.cause = "delete"])
  <2>1. PICK d, n : d = [q EXCEPT !.pc = "sweep"] /\ n = [d EXCEPT !.cause = "delete"]
    OBVIOUS
  <2>2. Put(r, n)
    BY <1>7, <2>1, Zenon
  <2>3. d \in Call /\ d.pc = "sweep" /\ Kept(d, q) /\ d.user = q.user /\ d.email = q.email /\ d.at = q.at /\ d.answer = q.answer
    BY <1>2, <2>1 DEF Call, Pc, Kept
  <2>4. n \in Call /\ n.pc = "sweep" /\ Kept(n, q) /\ n.user = q.user /\ n.email = q.email /\ n.at = q.at /\ n.answer = q.answer
        /\ n.cause = "delete"
    BY <2>1, <2>3 DEF Call, Kept
  <2>5. Basic(r, n)
    BY <1>2, <1>5, <2>4, NameAssumption DEF Basic, Kept, Unborn
  <2>6. rows' \subseteq rows /\ \A w \in rows \ rows' : w.kind = "deletion"
    BY <1>7 DEF Of
  <2>7. (\A i : Exists(i)' <=> Exists(i)) /\ (\A w : Owned(w)' <=> Owned(w)) /\ Op(r)' = Op(r)
    BY <1>3 DEF Exists, Owned, Owner, Op
  <2>8. \A i : Born(i) => Born(i)'
    BY <1>1, <1>5, <2>2, <2>4, NameAssumption, Steady DEF Unborn, Put
  <2>9. Through(n.at)' = {}
    BY <1>5, <2>4 DEF Through
  <2>10. Relies(r, n)'
    BY <1>2, <1>3, <1>5, <2>4, <2>7, <2>8, <2>9 DEF Relies, Kept, Unborn
  <2>11. ~Mongo => \A w \in rows' : w.kind = "session" /\ ~Exists(w.of)' => ~Exists(w.of) /\ w.by # r
    BY <1>1, <1>2, <2>6, <2>7 DEF Inv, Rows
  <2> QED BY <1>1, <1>3, <1>5, <2>2, <2>4, <2>5, <2>6, <2>7, <2>10, <2>11, Removes, NameAssumption DEF Unborn, Inv, Typed
<1> QED BY <1>4, <1>6, <1>7

LEMMA RevokeIssuedGoes ==
    ASSUME Inv, NEW r \in Request, RevokeIssued(r)
    PROVE  \E n : Contract(r, n)
<1>1. PICK q : q = req[r]
  OBVIOUS
<1>2. Basic(r, q) /\ Relies(r, q) /\ q \in Call /\ q.pc = "revoke" /\ ~q.late /\ r \in Id
  BY <1>1, AtIs DEF RevokeIssued, At
<1>3. PICK n : n = Answer(q, "failed")
  OBVIOUS
<1>4. UNCHANGED <<conf, users, gone, raced>> /\ Put(r, n) /\ rows' = rows \ {[kind |-> "session", of |-> q.user, by |-> r]}
  BY <1>1, <1>3 DEF RevokeIssued
<1>5. q.user # None /\ (Op(r) \in Creators => q.persisted \/ q.user # r)
  BY <1>2 DEF Basic
<1>6. /\ n \in Call /\ n.pc = "done" /\ n.answer = "failed" /\ Kept(n, q)
      /\ n.user = q.user /\ n.email = q.email /\ n.todo = q.todo /\ n.at = q.at /\ n.cause = q.cause
  BY <1>2, <1>3, AnswerIs
<1>7. Basic(r, n) /\ Relies(r, n)
  BY <1>1, <1>2, <1>3, <1>5, Answers
<1>8. rows' \subseteq rows /\ \A w \in rows \ rows' : w.kind = "session"
  BY <1>4
<1>9. (\A i : Exists(i)' <=> Exists(i)) /\ (\A w : Owned(w)' <=> Owned(w)) /\ Op(r)' = Op(r)
  BY <1>4 DEF Exists, Owned, Owner, Op
<1>10. (\A i : Born(i) => Born(i)') /\ (\A i : Deleting(i) => Deleting(i)')
  BY <1>1, <1>4, <1>6, Steady DEF Unborn, Put
<1>11. Whole(r) => Whole(r)'
  BY <1>4, <1>9 DEF Whole, Of
<1>12. Relies(r, n)'
  BY <1>2, <1>4, <1>6, <1>7, <1>9, <1>10, <1>11 DEF Relies, Kept, Unborn
<1>13. ~Mongo => \A w \in rows' : w.kind = "session" /\ ~Exists(w.of)' => ~Exists(w.of) /\ w.by # r
  <2> SUFFICES ASSUME ~Mongo, NEW w \in rows', w.kind = "session", ~Exists(w.of) PROVE w.by # r
    BY <1>9
  <2>1. w \in rows /\ w # [kind |-> "session", of |-> q.user, by |-> r]
    BY <1>4
  <2>2. w \in Row
    BY <2>1 DEF Inv, Typed
  <2>3. w.by = r => w.of = q.user
    BY <1>1, <2>1 DEF Inv, Rows
  <2> QED BY <2>1, <2>2, <2>3 DEF Row
<1> QED BY <1>1, <1>4, <1>6, <1>7, <1>8, <1>9, <1>12, <1>13, Removes DEF Unborn, Inv, Typed

(* A name is written: only the name changes, and nobody else has it.       *)
LEMMA WriteNameGoes ==
    ASSUME Inv, NEW r \in Request, WriteName(r)
    PROVE  \E n : Contract(r, n)
<1>1. PICK q, i : q = req[r] /\ i = q.user
  OBVIOUS
<1>2. Basic(r, q) /\ Relies(r, q) /\ q \in Call /\ q.pc = "write" /\ ~q.late /\ r \in Id
  BY <1>1, AtIs DEF WriteName, At
<1>3. q.user # None /\ q.user \in Id /\ q.name \in Username /\ Op(r) \notin Creators /\ ~q.persisted /\ q.cause = None
  BY <1>2 DEF Basic, Call
<1>4. UNCHANGED <<conf, rows, gone, raced>>
  BY DEF WriteName
<1>5. CASE ~Exists(i) \/ NameTaken(i, q.name)
  <2>1. \E a \in {"failed", "duplicate"} : Put(r, Answer(q, a)) /\ users' = users
    BY <1>1, <1>5 DEF WriteName
  <2> QED BY <1>1, <1>2, <1>3, <1>4, <2>1, OnlyAnswers
<1>6. CASE Exists(i) /\ ~NameTaken(i, q.name)
  <2>1. PICK n, u : n = Answer(q, "ok") /\ u = [users[i] EXCEPT !.name = q.name]
    OBVIOUS
  <2>2. Put(r, n) /\ users' = [users EXCEPT ![i] = u]
    BY <1>1, <1>6, <2>1 DEF WriteName
  <2>3. /\ n \in Call /\ n.pc = "done" /\ n.answer = "ok" /\ Kept(n, q)
        /\ n.user = q.user /\ n.email = q.email /\ n.todo = q.todo /\ n.at = q.at /\ n.cause = q.cause
    BY <1>2, <2>1, AnswerIs
  <2>4. Basic(r, n) /\ Relies(r, n)
    BY <1>1, <1>2, <1>3, <2>1, Answers
  <2>5. users \in [Id -> [email : Email, name : Username \cup {None}] \cup {None}]
    BY DEF Inv, Typed
  <2>6. users[i] \in [email : Email, name : Username \cup {None}]
    BY <1>1, <1>3, <1>6, <2>5 DEF Exists
  <2>7. u \in [email : Email, name : Username \cup {None}] /\ u.email = users[i].email /\ u.name = q.name /\ u # None
    BY <1>3, <2>1, <2>6, NameAssumption
  <2>8. /\ users' \in [Id -> [email : Email, name : Username \cup {None}] \cup {None}]
        /\ users'[i] = u /\ \A j \in Id : j # i => users'[j] = users[j]
    BY <1>1, <1>3, <2>2, <2>5, <2>7
  <2>9. \A j \in Id : (Exists(j)' <=> Exists(j)) /\ (Exists(j) => users'[j].email = users[j].email)
    BY <1>6, <2>7, <2>8 DEF Exists
  <2>10. \A w : Owned(w)' <=> IF w.kind \in Challenges THEN Owned(w) ELSE Exists(w.of)'
    BY <2>9 DEF Owned, Owner
  <2>11. Unique'
    <3> SUFFICES ASSUME NEW j \in Id, NEW k \in Id, j # k, Exists(j), Exists(k)
                 PROVE  users'[j].email # users'[k].email /\ (users'[j].name # None => users'[j].name # users'[k].name)
      BY <2>9 DEF Unique
    <3>1. users[j].email # users[k].email /\ (users[j].name # None => users[j].name # users[k].name)
      BY DEF Inv, Unique
    <3>2. \A l \in Id : l # i /\ Exists(l) => users[l].name # q.name
      BY <1>6 DEF NameTaken
    <3> QED BY <2>7, <2>8, <2>9, <3>1, <3>2
  <2>12. (\A l : Born(l) => Born(l)') /\ (\A l : Deleting(l) => Deleting(l)')
    BY <1>1, <2>2, <2>3, Steady DEF Unborn, Put
  <2>13. Rows'
    <3> SUFFICES ASSUME NEW w \in rows
                 PROVE  /\ IF w.kind \in Challenges THEN w.of \in Email ELSE w.of \in Id /\ Born(w.of)'
                        /\ ~Owned(w)' => w \in raced
                        /\ ~Mongo /\ w.kind = "session" /\ ~Exists(w.of)' =>
                               w.by \in Request /\ req'[w.by].pc \in {"issued", "revoke"} /\ req'[w.by].user = w.of
      BY <1>4 DEF Rows, Mongo
    <3>1. /\ IF w.kind \in Challenges THEN w.of \in Email ELSE w.of \in Id /\ Born(w.of)
          /\ ~Owned(w) => w \in raced
          /\ ~Mongo /\ w.kind = "session" /\ ~Exists(w.of) =>
                 w.by \in Request /\ req[w.by].pc \in {"issued", "revoke"} /\ req[w.by].user = w.of
      BY DEF Inv, Rows
    <3>2. ~Owned(w)' => ~Owned(w)
      BY <2>9, <2>10, <3>1 DEF Owned
    <3>3. w.kind = "session" => w.of \in Id
      BY <3>1 DEF Challenges
    <3>4. \A v \in Request : req[v].pc \in {"issued", "revoke"} => req'[v] = req[v]
      BY <1>1, <1>2, <2>2, <2>3, Steady DEF Unborn, Put
    <3> QED BY <2>9, <2>12, <3>1, <3>2, <3>3, <3>4
  <2>14. Gone'
    BY <1>4, <2>9, <2>12 DEF Inv, Gone, Typed
  <2>15. Relies(r, n)'
    BY <1>2, <1>3, <1>4, <2>3, <2>12 DEF Relies, Kept, Unborn, Op
  <2> QED BY <1>1, <1>3, <1>4, <2>2, <2>3, <2>4, <2>8, <2>9, <2>11, <2>13, <2>14, <2>15, NameAssumption
          DEF Contract, Inv, Typed, Put, Unborn
<1> QED BY <1>5, <1>6

------------------------------------------------------------------------------
(* What is added.  A user is inserted only when its address and its name   *)
(* are free, and its identifier has never been a user's.                   *)
LEMMA InsertUserGoes ==
    ASSUME Inv, NEW r \in Request, InsertUser(r)
    PROVE  \E n : Contract(r, n)
<1>1. PICK q, new : q = req[r] /\ new = [email |-> q.email, name |-> q.name]
  OBVIOUS
<1>2. Basic(r, q) /\ Relies(r, q) /\ q \in Call /\ q.pc = "insert" /\ ~q.late /\ r \in Id
  BY <1>1, AtIs DEF InsertUser, At
<1>3. ~Exists(r) /\ q.user = None /\ q.cause = None /\ q.at = 0 /\ ~q.persisted /\ q.email \in Email /\ q.answer = None
      /\ Op(r) \in Creators /\ ~Born(r)
  BY <1>1, <1>2, NameAssumption DEF Relies, Basic, Unborn, Born
<1>4. new \in [email : Email, name : Username \cup {None}] /\ new.email = q.email /\ new.name = q.name /\ new # None
  BY <1>1, <1>2, <1>3, NameAssumption DEF Call
<1>5. UNCHANGED <<conf, rows, gone, raced>>
  BY DEF InsertUser
<1>6. PICK o \in Outcome :
         /\ users' = IF o = "call" \/ Taken(r, new) THEN users ELSE [users EXCEPT ![r] = new]
         /\ Put(r, IF o # "ok" THEN Undo(q, r) ELSE IF Taken(r, new) THEN Answer(q, "duplicate")
                   ELSE [q EXCEPT !.pc = "account", !.user = r])
  BY <1>1, Zenon DEF InsertUser
<1>7. users \in [Id -> [email : Email, name : Username \cup {None}] \cup {None}]
  BY DEF Inv, Typed
<1>8. /\ users' \in [Id -> [email : Email, name : Username \cup {None}] \cup {None}]
      /\ \A j \in Id : users'[j] = users[j] \/ (j = r /\ users'[j] = new /\ ~Taken(r, new))
  BY <1>2, <1>4, <1>6, <1>7
<1>9. /\ \A j \in Id : Exists(j) => Exists(j)'
      /\ \A j \in Id : j # r /\ Exists(j)' => Exists(j) /\ users'[j] = users[j]
      /\ Exists(r)' => users'[r] = new /\ ~Taken(r, new)
  BY <1>2, <1>3, <1>4, <1>8 DEF Exists
<1>10. Unique'
  <2> SUFFICES ASSUME NEW j \in Id, NEW k \in Id, j # k, Exists(j)', Exists(k)'
               PROVE  users'[j].email # users'[k].email /\ (users'[j].name # None => users'[j].name # users'[k].name)
    BY DEF Unique
  <2>1. CASE j # r /\ k # r
    BY <1>9, <2>1 DEF Inv, Unique
  <2>2. CASE j = r
    BY <1>4, <1>9, <2>2 DEF Taken
  <2>3. CASE k = r
    BY <1>4, <1>9, <2>3 DEF Taken
  <2> QED BY <2>1, <2>2, <2>3
<1>11. ASSUME NEW n, Put(r, n), n.pc \notin Unborn, n.user = r, n.cause # "delete"
       PROVE  Rows' /\ Gone' /\ (\A i : Born(i) => Born(i)') /\ (\A i : Deleting(i) => Deleting(i)')
  <2>1. (\A i : Born(i) => Born(i)') /\ (\A i : Deleting(i) => Deleting(i)')
        /\ \A v \in Request : v # r => req'[v] = req[v]
    BY <1>1, <1>3, <1>11, Steady, NameAssumption DEF Put
  <2>2. Rows'
    <3> SUFFICES ASSUME NEW w \in rows
                 PROVE  /\ IF w.kind \in Challenges THEN w.of \in Email ELSE w.of \in Id /\ Born(w.of)'
                        /\ ~Owned(w)' => w \in raced
                        /\ ~Mongo /\ w.kind = "session" /\ ~Exists(w.of)' =>
                               w.by \in Request /\ req'[w.by].pc \in {"issued", "revoke"} /\ req'[w.by].user = w.of
      BY <1>5 DEF Rows, Mongo
    <3>1. /\ IF w.kind \in Challenges THEN w.of \in Email ELSE w.of \in Id /\ Born(w.of)
          /\ ~Owned(w) => w \in raced
          /\ ~Mongo /\ w.kind = "session" /\ ~Exists(w.of) =>
                 w.by \in Request /\ req[w.by].pc \in {"issued", "revoke"} /\ req[w.by].user = w.of
      BY DEF Inv, Rows
    <3>2. Owned(w) => Owned(w)'
      <4>1. CASE w.kind \in Challenges
        <5>1. \A j \in Id : Exists(j) => Exists(j)' /\ users'[j] = users[j]
          BY <1>3, <1>9
        <5> QED BY <4>1, <5>1 DEF Owned, Owner
      <4>2. CASE w.kind \notin Challenges
        BY <1>9, <3>1, <4>2 DEF Owned
      <4> QED BY <4>1, <4>2
    <3>3. w.kind = "session" => w.of \in Id
      BY <3>1 DEF Challenges
    <3>4. w.by \in Request /\ req[w.by].pc \in {"issued", "revoke"} => w.by # r
      BY <1>1, <1>2
    <3> QED BY <1>9, <2>1, <3>1, <3>2, <3>3, <3>4
  <2>3. Gone'
    BY <1>3, <1>5, <1>9, <2>1 DEF Inv, Gone, Typed
  <2> QED BY <2>1, <2>2, <2>3
<1>12. ASSUME NEW n, Put(r, n), n.pc \notin Unborn, n.user = r, n.cause # "delete", Basic(r, n), Relies(r, n)'
       PROVE  Contract(r, n)
  <2>1. \A j \in Id : Exists(j)' => (Exists(j) /\ users'[j].email = users[j].email) \/ (j = r /\ req[r].pc = "insert")
    BY <1>1, <1>2, <1>9
  <2>2. \A j \in Id : Exists(j) /\ ~Exists(j)' => j = r \/ (n.cause = "delete" /\ n.user = j)
    BY <1>9
  <2>3. Rows' /\ Gone'
    BY <1>11, <1>12
  <2>4. req[r].cause # "delete"
    BY <1>1, <1>3, NameAssumption
  <2> QED BY <1>5, <1>8, <1>10, <1>12, <2>1, <2>2, <2>3, <2>4 DEF Contract, Put, Inv, Typed
<1>13. Through(q.at)' = {}
  BY <1>3 DEF Through
<1>14. CASE o # "ok"
  <2>1. PICK n : n = Undo(q, r)
    OBVIOUS
  <2>2. Put(r, n)
    BY <1>6, <1>14, <2>1
  <2>3. /\ n \in Call /\ n.pc = "sweep" /\ n.cause = "undo" /\ n.user = r /\ Kept(n, q)
        /\ n.email = q.email /\ n.todo = q.todo /\ n.at = q.at /\ n.answer = q.answer
    BY <1>2, <2>1, UndoIs
  <2>4. Basic(r, n)
    BY <1>2, <1>3, <2>3, NameAssumption DEF Basic, Kept, Unborn
  <2>5. Relies(r, n)'
    BY <1>2, <1>3, <1>4, <1>9, <1>13, <2>3 DEF Relies, Kept, Unborn
  <2> QED BY <1>12, <2>2, <2>3, <2>4, <2>5 DEF Unborn
<1>15. CASE o = "ok" /\ Taken(r, new)
  <2>1. Put(r, Answer(q, "duplicate")) /\ users' = users
    BY <1>6, <1>15
  <2> QED BY <1>1, <1>2, <1>3, <1>5, <2>1, OnlyAnswers
<1>16. CASE o = "ok" /\ ~Taken(r, new)
  <2>1. PICK d, n : d = [q EXCEPT !.pc = "account"] /\ n = [d EXCEPT !.user = r]
    OBVIOUS
  <2>2. Put(r, n)
    <3>1. Put(r, [q EXCEPT !.pc = "account", !.user = r])
      BY <1>6, <1>16
    <3> QED BY <2>1, <3>1, Zenon
  <2>3. d \in Call /\ d.pc = "account" /\ Kept(d, q) /\ d.email = q.email /\ d.at = q.at /\ d.cause = q.cause /\ d.answer = q.answer
    BY <1>2, <2>1 DEF Call, Pc, Kept
  <2>4. n \in Call /\ n.pc = "account" /\ n.user = r /\ Kept(n, q) /\ n.email = q.email /\ n.at = q.at /\ n.cause = q.cause
        /\ n.answer = q.answer
    <3>1. n = [d EXCEPT !.user = r]
      BY <2>1
    <3> QED BY <1>2, <2>3, <3>1 DEF Call, Kept
  <2>5. Exists(r)'
    BY <1>2, <1>4, <1>6, <1>7, <1>16 DEF Exists
  <2>6. Basic(r, n)
    BY <1>2, <1>3, <2>4, NameAssumption DEF Basic, Kept, Unborn
  <2>7. Relies(r, n)'
    BY <1>2, <1>3, <1>4, <1>9, <2>4, <2>5 DEF Relies, Kept, Unborn
  <2> QED BY <1>3, <1>12, <2>2, <2>4, <2>6, <2>7, NameAssumption DEF Unborn
<1> QED BY <1>14, <1>15, <1>16

LEMMA Adds ==
    ASSUME Inv, NEW r \in Request, NEW n, Put(r, n), conf' = conf, users' = users, gone' = gone, NEW row \in Row, Add(row),
           Basic(r, n), Relies(r, n)', n.pc \notin Unborn,
           req[r].cause = "delete" => n.cause = "delete" /\ n.user = req[r].user,
           req[r].pc \notin {"issued", "revoke"},
           IF row.kind \in Challenges THEN row.of \in Email ELSE row.of \in Id /\ Born(row.of),
           ~Mongo /\ row.kind = "session" /\ ~Exists(row.of) => row.by = r /\ n.pc = "issued" /\ n.user = row.of
    PROVE  Contract(r, n)
<1>1. req' = [req EXCEPT ![r] = n]
  BY DEF Put
<1>2. /\ req'[r] = n /\ \A v \in Request : v # r => req'[v] = req[v]
      /\ \A i : Born(i) => Born(i)'
  BY <1>1, Steady
<1>3. (\A i : Exists(i)' <=> Exists(i)) /\ \A w : Owned(w)' <=> Owned(w)
  BY DEF Exists, Owned, Owner
<1>4. /\ row \in rows' /\ \A w \in rows' : w \in rows \/ w = row
      /\ \A w \in rows \ rows' : w.kind \in Challenges
      /\ raced \subseteq raced' /\ raced' \subseteq raced \cup {row} /\ (Raced(row) => row \in raced')
  BY DEF Add, Replaced
<1>5. Unique' /\ Gone'
  BY <1>2, <1>3 DEF Inv, Unique, Gone
<1>6. Rows'
  <2> SUFFICES ASSUME NEW w \in rows'
               PROVE  /\ IF w.kind \in Challenges THEN w.of \in Email ELSE w.of \in Id /\ Born(w.of)'
                      /\ ~Owned(w) => w \in raced'
                      /\ ~Mongo /\ w.kind = "session" /\ ~Exists(w.of) =>
                             w.by \in Request /\ req'[w.by].pc \in {"issued", "revoke"} /\ req'[w.by].user = w.of
    BY <1>3 DEF Rows, Mongo
  <2>1. CASE w \in rows
    <3>1. /\ IF w.kind \in Challenges THEN w.of \in Email ELSE w.of \in Id /\ Born(w.of)
          /\ ~Owned(w) => w \in raced
          /\ ~Mongo /\ w.kind = "session" /\ ~Exists(w.of) =>
                 w.by \in Request /\ req[w.by].pc \in {"issued", "revoke"} /\ req[w.by].user = w.of
      BY <2>1 DEF Inv, Rows
    <3>2. w.by \in Request /\ req[w.by].pc \in {"issued", "revoke"} => w.by # r
      OBVIOUS
    <3> QED BY <1>2, <1>4, <3>1, <3>2
  <2>2. CASE w = row
    <3>1. ~Owned(w) => w \in raced'
      BY <1>4, <2>2 DEF Raced
    <3> QED BY <1>2, <2>2, <3>1
  <2> QED BY <1>4, <2>1, <2>2
<1>7. \A w \in rows' \ rows : Raced(w) => w \in raced'
  BY <1>4
<1>8. \A w \in rows \ rows' :
           w.kind \in {"credential", "email_otp"} => w.of = r \/ (n.cause = "delete" /\ n.user = w.of)
  BY <1>4 DEF Challenges
<1>9. rows' \subseteq Row /\ raced' \subseteq Row
  BY <1>4 DEF Inv, Typed
<1> QED BY <1>1, <1>3, <1>4, <1>5, <1>6, <1>7, <1>8, <1>9 DEF Contract, Inv, Typed

(* What a request relies on is not disturbed by a row that it adds.        *)
LEMMA AddedRelies ==
    ASSUME Inv, NEW r \in Request, NEW n, Put(r, n), conf' = conf, users' = users, gone' = gone, NEW row, Add(row),
           Relies(r, n), n.pc \notin Unborn \cup {"sweep"}, req[r].cause = "delete" => n.cause = "delete" /\ n.user = req[r].user
    PROVE  Relies(r, n)'
<1>1. (\A i : Born(i) => Born(i)') /\ (\A i : Deleting(i) => Deleting(i)')
  BY Steady DEF Put
<1>2. (\A i : Exists(i)' <=> Exists(i)) /\ Op(r)' = Op(r)
  BY DEF Exists, Op
<1>3. \A w \in rows \ rows' : w.kind \in Challenges
  BY DEF Add, Replaced
<1>4. Whole(r) => Whole(r)'
  <2>1. SUFFICES ASSUME Whole(r) PROVE Whole(r)'
    OBVIOUS
  <2>2. PICK w \in rows : w.of = r /\ w.kind \in {"credential", "email_otp"} /\ w.by = r
    BY <2>1 DEF Whole, Of
  <2>3. w \in rows'
    BY <1>3, <2>2 DEF Challenges
  <2> QED BY <1>2, <2>1, <2>2, <2>3 DEF Whole, Of
<1> QED BY <1>1, <1>2, <1>4 DEF Relies

LEMMA PersistedIs ==
    ASSUME NEW q \in Call, q.answer = None, NEW r \in Request, NEW n, n = Persisted(q, r)
    PROVE  /\ n \in Call /\ n.user = q.user /\ n.email = q.email /\ n.at = q.at /\ n.cause = q.cause
           /\ n.name = q.name /\ n.persisted /\ n.late = q.late
           /\ ((n.pc = "done" /\ n.answer \in {"cancelled", "ok"}) \/ (n.pc = "session" /\ n.answer = None))
<1>1. PICK p : p = [q EXCEPT !.persisted = TRUE]
  OBVIOUS
<1>2. /\ p \in Call /\ p.user = q.user /\ p.email = q.email /\ p.at = q.at /\ p.cause = q.cause /\ p.answer = None
      /\ p.name = q.name /\ p.persisted /\ p.late = q.late
  BY <1>1 DEF Call
<1>3. n = Answer(p, "cancelled") \/ n = Answer(p, "ok") \/ n = Go(p, "session")
  BY <1>1 DEF Persisted
<1>4. CASE n = Answer(p, "cancelled")
  BY <1>2, <1>4, AnswerIs DEF Kept
<1>5. CASE n = Answer(p, "ok")
  BY <1>2, <1>5, AnswerIs DEF Kept
<1>6. CASE n = Go(p, "session")
  BY <1>2, <1>6, GoIs DEF Kept, Pc
<1> QED BY <1>3, <1>4, <1>5, <1>6

LEMMA InsertAccountGoes ==
    ASSUME Inv, NEW r \in Request, InsertAccount(r)
    PROVE  \E n : Contract(r, n)
<1>1. PICK q, row : q = req[r] /\ row = [kind |-> IF Op(r) = "otp" THEN "email_otp" ELSE "credential", of |-> r, by |-> r]
  OBVIOUS
<1>2. Basic(r, q) /\ Relies(r, q) /\ q \in Call /\ q.pc = "account" /\ ~q.late /\ r \in Id
  BY <1>1, AtIs DEF InsertAccount, At
<1>3. q.user = r /\ q.cause = None /\ q.at = 0 /\ ~q.persisted /\ q.email \in Email /\ q.answer = None
      /\ Op(r) \in Creators /\ Born(r) /\ (Exists(r) \/ Deleting(r)) /\ (Exists(r) => users[r].email = q.email) /\ r # None
  BY <1>1, <1>2, NameAssumption DEF Relies, Basic, Unborn, Born
<1>4. row \in Row /\ row.kind \in {"credential", "email_otp"} /\ row.of = r /\ row.by = r
  BY <1>1, <1>2 DEF Row, Kind
<1>5. UNCHANGED <<conf, users, gone>>
  BY DEF InsertAccount
<1>6. PICK o \in Outcome :
         /\ IF o = "call" \/ Refused(row) THEN UNCHANGED <<rows, raced>> ELSE Add(row)
         /\ Put(r, IF o # "ok" \/ Refused(row) THEN Undo(q, r) ELSE Persisted(q, r))
  BY <1>1, Zenon DEF InsertAccount
<1>7. (\A i : Exists(i)' <=> Exists(i)) /\ Op(r)' = Op(r)
  BY <1>5 DEF Exists, Op
<1>8. ASSUME NEW n, Put(r, n), n.pc \notin Unborn PROVE (\A i : Born(i) => Born(i)') /\ (\A i : Deleting(i) => Deleting(i)')
  BY <1>1, <1>3, <1>8, Steady, NameAssumption DEF Put
<1>9. CASE o # "ok" \/ Refused(row)
  <2>1. PICK n : n = Undo(q, r)
    OBVIOUS
  <2>2. Put(r, n)
    BY <1>6, <1>9, <2>1
  <2>3. /\ n \in Call /\ n.pc = "sweep" /\ n.cause = "undo" /\ n.user = r /\ Kept(n, q)
        /\ n.email = q.email /\ n.todo = q.todo /\ n.at = q.at /\ n.answer = q.answer
    BY <1>2, <2>1, UndoIs
  <2>4. Basic(r, n)
    BY <1>2, <1>3, <2>3, NameAssumption DEF Basic, Kept, Unborn
  <2>5. CASE UNCHANGED <<rows, raced>>
    <3>1. Through(n.at) = {}
      BY <1>3, <2>3 DEF Through
    <3>2. Relies(r, n)
      BY <1>2, <1>3, <2>3, <3>1 DEF Relies, Kept, Unborn
    <3> QED BY <1>1, <1>2, <1>3, <1>5, <2>2, <2>3, <2>4, <2>5, <3>2, OnlyRequest, NameAssumption DEF Unborn
  <2>6. CASE Add(row)
    <3>1. Through(n.at)' = {}
      BY <1>3, <2>3 DEF Through
    <3>2. users' = users
      BY <1>5
    <3>3. Relies(r, n)'
      BY <1>2, <1>3, <1>7, <2>3, <3>1, <3>2 DEF Relies, Kept, Unborn
    <3>4. req[r].cause # "delete"
      BY <1>1, <1>3, NameAssumption
    <3>5. n.pc \notin Unborn /\ row.kind \notin Challenges /\ row.kind # "session" /\ req[r].pc \notin {"issued", "revoke"}
      BY <1>1, <1>2, <1>4, <2>3 DEF Unborn, Challenges
    <3> QED BY <1>2, <1>3, <1>4, <1>5, <2>2, <2>4, <2>6, <3>3, <3>4, <3>5, Adds
  <2> QED BY <1>6, <2>5, <2>6
<1>10. CASE o = "ok" /\ ~Refused(row)
  <2>1. PICK n : n = Persisted(q, r)
    OBVIOUS
  <2>2. Put(r, n) /\ Add(row)
    BY <1>6, <1>10, <2>1
  <2>3. /\ n \in Call /\ n.user = q.user /\ n.email = q.email /\ n.at = q.at /\ n.cause = q.cause
        /\ n.name = q.name /\ n.persisted /\ n.late = q.late
        /\ ((n.pc = "done" /\ n.answer \in {"cancelled", "ok"}) \/ (n.pc = "session" /\ n.answer = None))
    <3>1. q \in Call /\ q.answer = None
      BY <1>2, <1>3
    <3> QED BY <2>1, <3>1, PersistedIs
  <2>4. Basic(r, n)
    BY <1>2, <1>3, <2>3, NameAssumption DEF Basic, Unborn
  <2>5. n.pc \notin Unborn
    BY <2>3 DEF Unborn
  <2>6. Whole(r)' \/ Deleting(r)'
    <3>1. CASE Deleting(r)
      BY <1>8, <2>2, <2>5, <3>1
    <3>2. CASE Exists(r)
      <4>1. row \in rows'
        BY <2>2 DEF Add
      <4> QED BY <1>4, <1>7, <3>2, <4>1 DEF Whole, Of
    <3> QED BY <1>3, <3>1, <3>2
  <2>7. Relies(r, n)'
    BY <1>2, <1>3, <2>3, <2>5, <2>6 DEF Relies, Unborn
  <2>8. req[r].cause # "delete"
    BY <1>1, <1>3, NameAssumption
  <2>9. row.kind \notin Challenges /\ row.kind # "session" /\ req[r].pc \notin {"issued", "revoke"}
    BY <1>1, <1>2, <1>4 DEF Challenges
  <2> QED BY <1>2, <1>3, <1>4, <1>5, <2>2, <2>4, <2>5, <2>7, <2>8, <2>9, Adds
<1> QED BY <1>9, <1>10

LEMMA IssueSessionGoes ==
    ASSUME Inv, NEW r \in Request, IssueSession(r)
    PROVE  \E n : Contract(r, n)
<1>1. PICK q, row : q = req[r] /\ row = [kind |-> "session", of |-> q.user, by |-> r]
  OBVIOUS
<1>2. Basic(r, q) /\ Relies(r, q) /\ q \in Call /\ q.pc = "session" /\ ~q.late /\ r \in Id
  BY <1>1, AtIs DEF IssueSession, At
<1>3. q.user \in Id /\ Born(q.user) /\ q.cause = None /\ q.at = 0 /\ q.answer = None
      /\ (Op(r) \in Creators => q.persisted \/ q.user # r) /\ q.user # None
  BY <1>1, <1>2, NameAssumption DEF Relies, Basic, Call, Unborn, Born
<1>4. row \in Row /\ row.kind = "session" /\ row.of = q.user /\ row.by = r /\ row.kind \notin Challenges
  BY <1>1, <1>2, <1>3 DEF Row, Kind, Challenges
<1>5. UNCHANGED <<conf, users, gone>>
  BY DEF IssueSession
<1>6. PICK o \in Outcome :
         /\ IF o = "call" \/ Refused(row) THEN UNCHANGED <<rows, raced>> ELSE Add(row)
         /\ Put(r, IF o # "ok" \/ Refused(row) THEN Answer(q, "failed") ELSE Go(q, "issued"))
  BY <1>1, Zenon DEF IssueSession
<1>7. req[r].cause # "delete" /\ req[r].pc \notin {"issued", "revoke"}
  BY <1>1, <1>2, <1>3, NameAssumption
(* A row that was added although the call failed has its user: MongoDB     *)
(* apart, only PostgreSQL's calls fail, and there the key is checked.      *)
<1>8. o # "ok" /\ ~Refused(row) /\ ~Mongo => Exists(row.of)
  BY <1>4, ConfIs DEF Outcome, Refused, Postgres, Mongo
<1>9. CASE UNCHANGED <<rows, raced>> /\ Put(r, Answer(q, "failed"))
  BY <1>1, <1>2, <1>3, <1>5, <1>9, OnlyAnswers
<1>10. CASE o # "ok" /\ ~Refused(row) /\ Add(row) /\ Put(r, Answer(q, "failed"))
  <2>1. PICK n : n = Answer(q, "failed")
    OBVIOUS
  <2>2. Basic(r, n) /\ Relies(r, n)
    BY <1>1, <1>2, <1>3, <2>1, Answers
  <2>3. n.pc = "done"
    BY <1>2, <2>1, AnswerIs
  <2>4. n.pc \notin Unborn \cup {"sweep"}
    BY <2>3 DEF Unborn
  <2>5. Put(r, n)
    BY <1>10, <2>1
  <2>6. Relies(r, n)'
    BY <1>5, <1>7, <1>10, <2>2, <2>4, <2>5, AddedRelies
  <2> QED BY <1>3, <1>4, <1>5, <1>7, <1>8, <1>10, <2>2, <2>4, <2>5, <2>6, Adds
<1>11. CASE o = "ok" /\ ~Refused(row) /\ Add(row) /\ Put(r, Go(q, "issued"))
  <2>1. PICK n : n = Go(q, "issued")
    OBVIOUS
  <2>2. "issued" \in Pc
    BY DEF Pc
  <2>3. /\ n \in Call /\ n.pc = "issued" /\ Kept(n, q)
        /\ n.user = q.user /\ n.email = q.email /\ n.todo = q.todo /\ n.at = q.at /\ n.cause = q.cause /\ n.answer = q.answer
    BY <1>2, <2>1, <2>2, GoIs
  <2>4. Basic(r, n)
    BY <1>2, <1>3, <2>3, NameAssumption DEF Basic, Kept, Unborn
  <2>5. Relies(r, n)
    BY <1>2, <1>3, <2>3 DEF Relies, Kept, Unborn
  <2>6. n.pc \notin Unborn \cup {"sweep"} /\ Put(r, n)
    BY <1>11, <2>1, <2>3 DEF Unborn
  <2>7. Relies(r, n)'
    BY <1>5, <1>7, <1>11, <2>5, <2>6, AddedRelies
  <2> QED BY <1>3, <1>4, <1>5, <1>7, <1>11, <2>3, <2>4, <2>6, <2>7, Adds
<1>12. \/ UNCHANGED <<rows, raced>> /\ Put(r, Answer(q, "failed"))
       \/ o # "ok" /\ ~Refused(row) /\ Add(row) /\ Put(r, Answer(q, "failed"))
       \/ o = "ok" /\ ~Refused(row) /\ Add(row) /\ Put(r, Go(q, "issued"))
  <2>1. CASE Refused(row) \/ o = "call"
    BY <1>6, <2>1
  <2>2. CASE ~Refused(row) /\ o # "call"
    BY <1>6, <2>2
  <2> QED BY <2>1, <2>2
<1> QED BY <1>9, <1>10, <1>11, <1>12

LEMMA AddRowGoes ==
    ASSUME Inv, NEW r \in Request, AddRow(r)
    PROVE  \E n : Contract(r, n)
<1>1. PICK q, row : q = req[r]
         /\ row = CASE Op(r) = "add_key" -> [kind |-> "api_key", of |-> req[r].user, by |-> r]
                    [] Op(r) = "set_password" -> [kind |-> "credential", of |-> req[r].user, by |-> r]
                    [] OTHER -> Challenge(r)
  OBVIOUS
<1>2. Basic(r, q) /\ Relies(r, q) /\ q \in Call /\ q.pc = "add" /\ ~q.late /\ r \in Id
  BY <1>1, AtIs DEF AddRow, At
<1>3. /\ q.user \in Id /\ Born(q.user) /\ q.cause = None /\ Op(r) \notin Creators
      /\ Op(r) \in {"add_key", "request_delete", "set_password", "forgot_password"}
      /\ (Op(r) \in {"request_delete", "forgot_password"} => q.email \in Email)
  BY <1>1, <1>2, NameAssumption DEF Relies, Basic, Call, Unborn, Born
<1>4. row \in Row /\ row.kind # "session" /\ IF row.kind \in Challenges THEN row.of \in Email ELSE row.of \in Id /\ Born(row.of)
  <2>1. CASE Op(r) = "add_key"
    <3>1. row = [kind |-> "api_key", of |-> q.user, by |-> r]
      BY <1>1, <2>1
    <3> QED BY <1>2, <1>3, <3>1 DEF Row, Kind, Challenges
  <2>2. CASE Op(r) = "set_password"
    <3>1. row = [kind |-> "credential", of |-> q.user, by |-> r]
      BY <1>1, <2>2
    <3> QED BY <1>2, <1>3, <3>1 DEF Row, Kind, Challenges
  <2>3. CASE Op(r) \in {"request_delete", "forgot_password"}
    <3>1. row = [kind |-> IF Op(r) = "request_delete" THEN "deletion" ELSE "reset", of |-> q.email, by |-> r]
      BY <1>1, <2>3 DEF Challenge
    <3> QED BY <1>2, <1>3, <2>3, <3>1 DEF Row, Kind, Challenges
  <2> QED BY <1>3, <2>1, <2>2, <2>3
<1>5. UNCHANGED <<conf, users, gone>>
  BY DEF AddRow
<1>6. \/ Put(r, Answer(q, "failed")) /\ UNCHANGED <<rows, raced>>
      \/ Put(r, Answer(q, "ok")) /\ Add(row)
  BY <1>1, Zenon DEF AddRow
<1>7. CASE Put(r, Answer(q, "failed")) /\ UNCHANGED <<rows, raced>>
  BY <1>1, <1>2, <1>3, <1>5, <1>7, OnlyAnswers
<1>8. CASE Put(r, Answer(q, "ok")) /\ Add(row)
  <2>1. PICK n : n = Answer(q, "ok")
    OBVIOUS
  <2>2. Basic(r, n) /\ Relies(r, n)
    BY <1>1, <1>2, <1>3, <2>1, Answers
  <2>3. n.pc = "done"
    BY <1>2, <2>1, AnswerIs
  <2>4. n.pc \notin Unborn \cup {"sweep"}
    BY <2>3 DEF Unborn
  <2>5. Put(r, n)
    BY <1>8, <2>1
  <2>6. req[r].cause # "delete" /\ req[r].pc \notin {"issued", "revoke"}
    BY <1>1, <1>2, <1>3, NameAssumption
  <2>7. Relies(r, n)'
    BY <1>5, <1>8, <2>2, <2>4, <2>5, <2>6, AddedRelies
  <2> QED BY <1>4, <1>5, <1>8, <2>2, <2>4, <2>5, <2>6, <2>7, Adds
<1> QED BY <1>6, <1>7, <1>8

------------------------------------------------------------------------------
LEMMA InitInv == Init => Inv
<1> SUFFICES ASSUME Init PROVE Inv
  OBVIOUS
<1>1. /\ conf \in Confs /\ gone = {} /\ raced = {}
      /\ users = [i \in Id |-> IF i = Old THEN [email |-> conf.email, name |-> None] ELSE None]
      /\ req = [r \in Request |-> NoRequest]
  BY DEF Init
<1>2. conf.email \in Email /\ conf.has \subseteq Kind
  BY <1>1, ConfAssumption
<1>3. Old \in Id /\ Exists(Old) /\ Born(Old) /\ users[Old].email = conf.email /\ \A i \in Id : i # Old => ~Exists(i)
  <2>1. users[Old] = [email |-> conf.email, name |-> None] /\ Old \in Id
    BY <1>1 DEF Id
  <2>2. [email |-> conf.email, name |-> None] \in [email : Email, name : Username \cup {None}]
    BY <1>2
  <2> QED BY <1>1, <2>1, <2>2, NameAssumption DEF Exists, Born
<1>4. ASSUME NEW w \in rows
      PROVE  w \in Row /\ Owned(w) /\ IF w.kind \in Challenges THEN w.of \in Email ELSE w.of = Old
  <2>1. CASE w = First
    <3>1. First.kind \notin Challenges /\ First.of = Old /\ First \in Row
      BY <1>3 DEF First, Challenges, Row, Kind
    <3> QED BY <1>3, <2>1, <3>1 DEF Owned
  <2>2. CASE w # First
    <3>1. PICK k \in conf.has : w = [kind |-> k, of |-> IF k \in Challenges THEN conf.email ELSE Old, by |-> Old]
      BY <2>2 DEF Init
    <3>2. w.kind = k /\ w.of = (IF k \in Challenges THEN conf.email ELSE Old) /\ w \in Row
      BY <1>2, <1>3, <3>1 DEF Row
    <3> QED BY <1>2, <1>3, <3>2 DEF Owned, Owner
  <2> QED BY <2>1, <2>2
<1>5. Typed
  <2>1. users \in [Id -> [email : Email, name : Username \cup {None}] \cup {None}]
    BY <1>1, <1>2
  <2>2. req \in [Request -> Call]
    BY <1>1, NewIs
  <2> QED BY <1>1, <1>4, <2>1, <2>2 DEF Typed
<1>6. Unique /\ Gone
  BY <1>1, <1>3 DEF Unique, Gone
<1>7. Rows
  BY <1>3, <1>4 DEF Rows, Owned, Challenges
<1>8. ASSUME NEW r \in Request PROVE Basic(r, req[r]) /\ Relies(r, req[r])
  <2>1. PICK q : q = req[r]
    OBVIOUS
  <2>2. /\ q \in Call /\ q.pc = "new" /\ q.user = None /\ q.cause = None /\ q.at = 0
        /\ ~q.persisted /\ q.undone /\ ~q.late /\ q.answer = None
    BY <1>1, <2>1, NewIs
  <2>3. Basic(r, q)
    BY <2>2, NameAssumption DEF Basic, Unborn
  <2>4. r \in Id /\ r # Old
    BY NameAssumption DEF Id
  <2>5. Relies(r, q)
    BY <1>3, <2>2, <2>4 DEF Relies
  <2> QED BY <2>1, <2>3, <2>5
<1> QED BY <1>5, <1>6, <1>7, <1>8 DEF Inv

LEMMA StepKeeps == Inv /\ [Next]_vars => Inv'
<1> SUFFICES ASSUME Inv, [Next]_vars PROVE Inv'
  OBVIOUS
<1>1. CASE UNCHANGED vars
  BY <1>1 DEF vars, Inv, Typed, Unique, Rows, Gone, Basic, Relies, Born, Deleting, Whole, Of, Exists, Owned, Owner, Mongo, Op, Through
<1>2. ASSUME NEW r \in Request, Start(r) \/ Step(r) PROVE \E n : Contract(r, n)
  <2>1. CASE Start(r)
    BY <2>1, StartGoes
  <2>2. CASE EnterDoor(r)
    BY <2>2, EnterDoorGoes
  <2>3. CASE Find(r)
    BY <2>3, FindGoes
  <2>4. CASE CheckName(r)
    BY <2>4, CheckNameGoes
  <2>5. CASE InsertUser(r)
    BY <2>5, InsertUserGoes
  <2>6. CASE CancelCall(r)
    BY <2>6, CancelGoes
  <2>7. CASE InsertAccount(r)
    BY <2>7, InsertAccountGoes
  <2>8. CASE VerifyDeletion(r)
    BY <2>8, VerifyDeletionGoes
  <2>9. CASE DeleteAtOnce(r)
    BY <2>9, DeleteAtOnceGoes
  <2>10. CASE FindDeleted(r)
    BY <2>10, FindDeletedGoes
  <2>11. CASE DeleteNext(r)
    BY <2>11, DeleteNextGoes
  <2>12. CASE Abort(r)
    BY <2>12, AbortGoes
  <2>13. CASE CheckPassword(r)
    BY <2>13, CheckPasswordGoes
  <2>14. CASE IssueSession(r)
    BY <2>14, IssueSessionGoes
  <2>15. CASE CheckIssued(r)
    BY <2>15, CheckIssuedGoes
  <2>16. CASE RevokeIssued(r)
    BY <2>16, RevokeIssuedGoes
  <2>17. CASE HasPassword(r)
    BY <2>17, HasPasswordGoes
  <2>18. CASE AddRow(r)
    BY <2>18, AddRowGoes
  <2>19. CASE LookupName(r)
    BY <2>19, LookupNameGoes
  <2>20. CASE WriteName(r)
    BY <2>20, WriteNameGoes
  <2> QED BY <1>2, <2>1, <2>2, <2>3, <2>4, <2>5, <2>6, <2>7, <2>8, <2>9, <2>10, <2>11, <2>12, <2>13, <2>14, <2>15, <2>16,
             <2>17, <2>18, <2>19, <2>20 DEF Step
<1>3. CASE Next
  <2>1. PICK r \in Request : Start(r) \/ Step(r)
    BY <1>3 DEF Next
  <2>2. PICK n : Contract(r, n)
    BY <1>2, <2>1
  <2> QED BY <2>2, ContractKeeps
<1> QED BY <1>1, <1>3

LEMMA Invariant == Spec => []Inv
BY InitInv, StepKeeps, PTL DEF Spec

(* Every variable keeps its type, a request that is done has an answer,    *)
(* and only the user that a request itself created is ever undone.         *)
THEOREM TypeCorrect == Spec => []TypeOK
<1>1. Inv => TypeOK
  <2> SUFFICES ASSUME Inv PROVE TypeOK
    OBVIOUS
  <2>1. ASSUME NEW r \in Request
        PROVE  /\ req[r].pc \in Pc /\ req[r].user \in Id \cup {None} /\ req[r].at \in 0 .. 5
               /\ req[r].answer \in {None, "ok", "failed", "duplicate", "cancelled"}
               /\ req[r].pc = "done" <=> req[r].answer # None
               /\ req[r].cause = "undo" => req[r].user = r
    <3>1. PICK q : q = req[r]
      OBVIOUS
    <3>2. Basic(r, q) /\ q \in Call
      BY <3>1, AtIs
    <3> QED BY <3>1, <3>2 DEF Basic, Call
  <2> QED BY <2>1 DEF TypeOK, Inv, Typed
<1> QED BY <1>1, Invariant, PTL

(* A creation that was committed left a user with its account until        *)
(* somebody deletes it, also when the caller was cancelled; one that was   *)
(* not committed left nothing once its compensation went through; and      *)
(* addresses and names stay unique: for any number of calls on any store.  *)
THEOREM IdentityIsWholeAlways == Spec => []IdentityIsWhole
<1>1. Inv => IdentityIsWhole
  <2> SUFFICES ASSUME Inv PROVE IdentityIsWhole
    OBVIOUS
  <2>1. ASSUME NEW r \in Request, req[r].pc = "done", Op(r) \in Creators, req[r].persisted \/ req[r].user \in {r, None}
        PROVE  IF req[r].persisted
               THEN \/ Exists(r) /\ \E w \in Of(r, {"credential", "email_otp"}) : w.by = r
                    \/ \E q \in Request : req[q].cause = "delete" /\ req[q].user = r
               ELSE req[r].undone => ~Exists(r) /\ \A w \in Of(r, Kind) \ raced : w.by # r
    <3>1. Relies(r, req[r]) /\ r \in Id
      BY AtIs
    <3>2. CASE req[r].persisted
      BY <2>1, <3>1, <3>2 DEF Relies, Whole, Deleting
    <3>3. CASE ~req[r].persisted /\ req[r].undone
      <4>1. ~Exists(r)
        BY <2>1, <3>1, <3>3 DEF Relies
      <4>2. \A w \in Of(r, Kind) : w \in raced
        BY <3>1, <4>1, NameAssumption DEF Inv, Rows, Of, Owned
      <4> QED BY <3>3, <4>1, <4>2
    <3> QED BY <3>2, <3>3
  <2>2. Unique
    BY DEF Inv
  <2> QED BY <2>1, <2>2 DEF IdentityIsWhole, At, Unique
<1> QED BY <1>1, Invariant, PTL

(* A user whose deletion was answered does not come back and authenticates *)
(* no later call; of a user that has gone there are only rows that were    *)
(* added while it was being deleted, and outside MongoDB no session that a *)
(* sign-in left behind: for any number of calls in any order.              *)
THEOREM DeletedIsGoneAlways == Spec => []DeletedIsGone
<1>1. Inv => DeletedIsGone
  <2> SUFFICES ASSUME Inv PROVE DeletedIsGone
    OBVIOUS
  <2>1. \A i \in gone : ~Exists(i)
    BY DEF Inv, Gone
  <2>2. ASSUME NEW r \in Request, req[r].late PROVE req[r].answer # "ok"
    <3>1. PICK q : q = req[r]
      OBVIOUS
    <3>2. Basic(r, q) /\ Relies(r, q)
      BY <3>1, AtIs
    <3>3. q.pc = "door" => q.answer = None
      BY <3>2 DEF Basic
    <3> QED BY <2>2, <3>1, <3>2, <3>3, NameAssumption DEF Relies
  <2>3. \A w \in rows : ~Owned(w) => w \in raced
    BY DEF Inv, Rows
  <2>4. ~Mongo => \A w \in rows : w.kind = "session" /\ ~Exists(w.of) => w.by \in Request /\ req[w.by].pc # "done"
    BY DEF Inv, Rows
  <2> QED BY <2>1, <2>2, <2>3, <2>4 DEF DeletedIsGone, Mongo, At
<1> QED BY <1>1, Invariant, PTL
==============================================================================
