--------------------------- MODULE Lockout_proofs ---------------------------
(***************************************************************************)
(* Proofs about module Lockout, for any number of requests, identifiers    *)
(* and renames, any limits and any clock: no window sees more guesses than *)
(* MaxFailures and one per request in flight, and no failure of a running  *)
(* window is forgotten.                                                    *)
(***************************************************************************)
EXTENDS Lockout, FiniteSetTheorems, TLAPS

RenamePC == {"write", "rekey", "read", "merge", "empty", "drop", "commit", "renamed"}

(* What holds of one request at any moment.                                *)
Formed(r) ==
    /\ r.stamp <= clock
    /\ r.pc # "idle" => r.id \in Id
    /\ r.pc \in {"check", "verify"} => r.guess
    /\ r.pc \in RenamePC => r.to \in Id /\ r.to # r.id /\ renames > 0
    /\ r.pc = "commit" => store = "postgres"
    /\ r.pc \in {"merge", "empty", "drop"} => store = "mongo"

(* A row without failures is one that an empty merge left: it is not       *)
(* active.                                                                 *)
Sound(b, now) == b # None => b.count > 0 \/ b.start + Window <= now

Rows ==
    /\ \A i \in Id : Sound(bucket[i], clock)
    /\ \A w \in Worker : Sound(req[w].source, clock)

(* PostgreSQL: the row that a transaction locked under the old name is the *)
(* row it read, unless the transaction of another rename deleted a row     *)
(* born there; and what it locked no other transaction locked.             *)
Locking(w) == At(w, "commit") /\ req[w].source # None

Locks ==
    \A w \in Worker : Locking(w) =>
        /\ bucket[req[w].id] \in {None, req[w].source}
        /\ \A v \in Worker \ {w} : At(v, "commit") =>
               req[v].to # req[w].id /\ (Locking(v) => req[v].id # req[w].id)

Inv ==
    /\ TypeOK
    /\ \A w \in Worker : Formed(req[w]) /\ (req[w].pc \in RenamePC => w \in Renamer)
    /\ Rows
    /\ Locks
------------------------------------------------------------------------------
(* The rows.                                                               *)
Best(b, c, now) ==
    IF Stricter(Effective(b, now), Effective(c, now)) THEN Effective(b, now) ELSE Effective(c, now)

LEMMA ActiveEarlier ==
    ASSUME NEW b \in Row \cup {None}, NEW s \in Nat, NEW t \in Nat, s <= t, Active(b, t)
    PROVE  Active(b, s)
BY LockoutAssumption, NoneAssumption DEF Active, Row

(* The stricter of two rows, judged at a moment that may have passed: a    *)
(* row that is still active is not undercut.                               *)
LEMMA BestKeeps ==
    ASSUME NEW b \in Row \cup {None}, NEW c \in Row \cup {None}, NEW s \in Nat, NEW t \in Nat, s <= t
    PROVE  /\ Best(b, c, s) \in Row
           /\ Sound(b, t) /\ Sound(c, t) => Sound(Best(b, c, s), t)
           /\ Active(b, t) => AtLeast(Best(b, c, s), b)
           /\ Active(c, t) => AtLeast(Best(b, c, s), c)
<1>1. \A x \in Row \cup {None} : Effective(x, s) \in Row /\ (Sound(x, t) => Sound(Effective(x, s), t))
  BY LockoutAssumption, NoneAssumption DEF Effective, Active, Zero, Row, Sound
<1>2. \A x \in Row \cup {None} : Active(x, t) => Effective(x, s) = x /\ x \in Row
  BY ActiveEarlier DEF Effective, Active
<1>3. PICK e \in Row : e = Effective(b, s)
  BY <1>1
<1>4. PICK f \in Row : f = Effective(c, s)
  BY <1>1
<1>5. /\ Best(b, c, s) \in {e, f}
      /\ AtLeast(Best(b, c, s), e) /\ AtLeast(Best(b, c, s), f)
  BY <1>3, <1>4, NoneAssumption DEF Best, Stricter, AtLeast, Row
<1> QED BY <1>1, <1>2, <1>3, <1>4, <1>5

LEMMA MergedKeeps ==
    ASSUME NEW b \in Row \cup {None}, NEW c \in Row \cup {None}, NEW s \in Nat, NEW t \in Nat, s <= t
    PROVE  /\ Merged(b, c, s) \in Row \cup {None}
           /\ Sound(b, t) /\ Sound(c, t) => Sound(Merged(b, c, s), t)
           /\ Active(b, t) => AtLeast(Merged(b, c, s), b)
           /\ Active(c, t) => AtLeast(Merged(b, c, s), c)
<1>1. Merged(b, c, s) = IF Active(b, s) \/ Active(c, s) THEN Best(b, c, s) ELSE None
  BY DEF Merged, Best
<1>2. /\ Active(b, t) => Active(b, s)
      /\ Active(c, t) => Active(c, s)
  BY ActiveEarlier
<1>3. /\ Best(b, c, s) \in Row
      /\ Sound(b, t) /\ Sound(c, t) => Sound(Best(b, c, s), t)
      /\ Active(b, t) => AtLeast(Best(b, c, s), b)
      /\ Active(c, t) => AtLeast(Best(b, c, s), c)
  BY BestKeeps
<1>4. Sound(None, t)
  BY DEF Sound
<1> QED BY <1>1, <1>2, <1>3, <1>4

LEMMA MergedRowIsBest ==
    ASSUME NEW r
    PROVE  MergedRow(r) = Best(r.source, bucket[r.to], r.stamp)
BY DEF MergedRow, Best

(* One more failure makes a row stricter.                                  *)
LEMMA OneMore ==
    ASSUME NEW b \in Row
    PROVE  /\ [b EXCEPT !.count = @ + 1] \in Row
           /\ [b EXCEPT !.count = @ + 1].count = b.count + 1
           /\ [b EXCEPT !.count = @ + 1].start = b.start
           /\ AtLeast([b EXCEPT !.count = @ + 1], b)
<1>1. PICK c : c = [b EXCEPT !.count = @ + 1]
  OBVIOUS
<1>2. c \in Row /\ c.count = b.count + 1 /\ c.start = b.start
  BY <1>1 DEF Row
<1>3. AtLeast(c, b)
  BY <1>2, NoneAssumption DEF AtLeast, Stricter, Row
<1> QED BY <1>1, <1>2, <1>3
(* A request at its next step, and one field more.                         *)
PC == {"idle", "check", "verify", "fail", "alarm", "reset", "write", "rekey", "read", "merge", "empty", "drop",
       "commit", "renamed"}

SameBut(q, r) ==
    /\ q \in Request
    /\ q.id = r.id /\ q.to = r.to /\ q.stamp = r.stamp /\ q.guess = r.guess
    /\ q.source = r.source /\ q.cleared = r.cleared

LEMMA WithPc ==
    ASSUME NEW r \in Request, NEW p \in PC, NEW q, q = [r EXCEPT !.pc = p]
    PROVE  SameBut(q, r) /\ q.pc = p
BY DEF Request, SameBut, PC

LEMMA WithStamp ==
    ASSUME NEW r \in Request, NEW n \in Nat, NEW q, q = [r EXCEPT !.stamp = n]
    PROVE  q \in Request /\ q.pc = r.pc /\ q.id = r.id /\ q.stamp = n /\ q.guess = r.guess /\ q.source = r.source
BY DEF Request

LEMMA WithPass ==
    ASSUME NEW r \in Request, NEW k \in 0 .. Passes - 1, NEW q, q = [r EXCEPT !.pass = k]
    PROVE  q.pc = r.pc /\ SameBut(q, r)
BY DEF Request, SameBut

LEMMA FirstPass == 0 \in 0 .. Passes - 1
BY LockoutAssumption
------------------------------------------------------------------------------
(* A step of one request.  Of the others it only notes that a row is gone, *)
(* or that their counters were cleared.                                    *)
Alike(q, r) ==
    /\ q \in Request
    /\ q.pc = r.pc /\ q.id = r.id /\ q.to = r.to /\ q.stamp = r.stamp /\ q.guess = r.guess
    /\ q.source = r.source /\ q.was = r.was
    /\ r.cleared => q.cleared

Goes(w, q) ==
    /\ req' \in [Worker -> Request]
    /\ req'[w] = q
    /\ \A v \in Worker \ {w} : Alike(req'[v], req[v])

LEMMA GoneAlike ==
    ASSUME NEW r \in Request, NEW i
    PROVE  Alike(Gone(r, i), r)
BY DEF Alike, Gone, Request

LEMMA ClearedAlike ==
    ASSUME NEW r \in Request, NEW p, p \in BOOLEAN
    PROVE  Alike([r EXCEPT !.cleared = @ \/ p], r)
BY DEF Alike, Request

LEMMA Turn ==
    ASSUME TypeOK, NEW w \in Worker, NEW q \in Request, req' = [req EXCEPT ![w] = q]
    PROVE  Goes(w, q)
BY DEF Goes, Alike, TypeOK, Request

MoveSteps(w) == RekeyAtOnce(w) \/ RekeyCommit(w) \/ RekeyMerge(w) \/ RekeyDropEmpty(w) \/ RekeyDrop(w)

(* What a step of one request does to the counters, and where it leaves    *)
(* the request.                                                            *)
Contract(w, q) ==
    /\ Goes(w, q)
    /\ store' = store /\ clock' = clock
    /\ name' \in Id /\ guesses' \in [Id -> Nat]
    /\ renames' \in Nat /\ renames <= renames'
    /\ bucket' \in [Id -> Row \cup {None}]
    /\ \A i \in Id : Sound(bucket'[i], clock)
    /\ Formed(q)' /\ Sound(q.source, clock)
    /\ q.pc \in RenamePC => w \in Renamer
    /\ q.pc \in {"empty", "drop"} => MoveSteps(w)
    /\ store = "postgres" => \A i \in Id :
           \/ bucket'[i] \in {None, bucket[i]}
           \/ ~Held(i)
           \/ At(w, "commit") /\ i = req[w].to
    /\ q.pc = "commit" =>
           ~Held(q.id) /\ ~Held(q.to) /\ q.source = bucket[q.id] /\ bucket' = bucket /\ ~At(w, "commit")

LEMMA ContractKeeps ==
    ASSUME Inv, NEW w \in Worker, NEW q, Contract(w, q)
    PROVE  Inv'
<1>0. /\ req' \in [Worker -> Request] /\ req'[w] = q
      /\ \A v \in Worker \ {w} : Alike(req'[v], req[v])
  BY DEF Contract, Goes
<1>1. TypeOK'
  BY <1>0 DEF Contract, Inv, TypeOK
<1>2. ASSUME NEW v \in Worker
      PROVE  (Formed(req[v]) /\ (req[v].pc \in RenamePC => v \in Renamer))'
  <2>1. CASE v = w
    BY <1>0, <2>1 DEF Contract, Formed
  <2>2. CASE v # w
    <3>1. Alike(req'[v], req[v]) /\ Formed(req[v]) /\ (req[v].pc \in RenamePC => v \in Renamer)
      BY <1>0, <2>2 DEF Inv
    <3>2. store' = store /\ clock' = clock /\ (renames > 0 => renames' > 0)
      BY DEF Contract, Inv, TypeOK
    <3> QED BY <3>1, <3>2 DEF Formed, Alike
  <2> QED BY <2>1, <2>2
<1>3. Rows'
  <2>1. \A i \in Id : Sound(bucket'[i], clock')
    BY DEF Contract
  <2>2. \A v \in Worker : Sound(req'[v].source, clock')
    BY <1>0 DEF Contract, Alike, Inv, Rows
  <2> QED BY <2>1, <2>2 DEF Rows
<1>4. Locks'
  <2> SUFFICES ASSUME NEW u \in Worker, Locking(u)'
               PROVE  /\ bucket'[req'[u].id] \in {None, req'[u].source}
                      /\ \A v \in Worker \ {u} : At(v, "commit")' =>
                             req'[v].to # req'[u].id /\ (Locking(v)' => req'[v].id # req'[u].id)
    BY DEF Locks
  <2>0. req'[u].pc = "commit" /\ req'[u].source # None
    BY DEF Locking, At
  <2>1. \A v \in Worker \ {w} : /\ At(v, "commit")' <=> At(v, "commit")
                                /\ Locking(v)' <=> Locking(v)
                                /\ req'[v].id = req[v].id /\ req'[v].to = req[v].to
                                /\ req'[v].source = req[v].source
    BY <1>0 DEF Alike, At, Locking
  <2>2. CASE u = w
    <3>1. /\ ~Held(q.id) /\ ~Held(q.to) /\ q.source = bucket[q.id] /\ bucket' = bucket
      BY <1>0, <2>0, <2>2 DEF Contract
    <3>2. \A v \in Worker : At(v, "commit") => req[v].to # q.id /\ (Locking(v) => req[v].id # q.id)
      BY <3>1 DEF Held, Locking
    <3> QED BY <1>0, <2>1, <2>2, <3>1, <3>2
  <2>3. CASE u # w
    <3>1. Locking(u) /\ req'[u].id = req[u].id /\ req'[u].source = req[u].source
      BY <2>1, <2>3
    <3>2. store = "postgres" /\ req[u].id \in Id
      BY <3>1 DEF Inv, Formed, Locking, At
    <3>3. Held(req[u].id)
      BY <3>1 DEF Held, Locking
    <3>4. bucket[req[u].id] \in {None, req[u].source}
      BY <3>1 DEF Inv, Locks
    <3>5. At(w, "commit") => req[w].to # req[u].id
      BY <2>3, <3>1 DEF Inv, Locks
    <3>6. bucket'[req[u].id] \in {None, req[u].source}
      BY <3>2, <3>3, <3>4, <3>5 DEF Contract
    <3>7. ASSUME NEW v \in Worker \ {u}, At(v, "commit")'
          PROVE  req'[v].to # req[u].id /\ (Locking(v)' => req'[v].id # req[u].id)
      <4>1. CASE v # w
        BY <2>1, <3>1, <3>7, <4>1 DEF Inv, Locks
      <4>2. CASE v = w
        <5>1. ~Held(q.id) /\ ~Held(q.to)
          BY <1>0, <3>7, <4>2 DEF Contract, At
        <5> QED BY <1>0, <3>3, <4>2, <5>1
      <4> QED BY <4>1, <4>2
    <3> QED BY <3>1, <3>6, <3>7
  <2> QED BY <2>2, <2>3
<1> QED BY <1>1, <1>2, <1>3, <1>4 DEF Inv

(* A step that leaves the counters alone.                                  *)
LEMMA Quiet ==
    ASSUME Inv, NEW w \in Worker, NEW q \in Request, req' = [req EXCEPT ![w] = q],
           UNCHANGED <<store, bucket, clock>>, name' \in Id, guesses' \in [Id -> Nat],
           renames' \in Nat, renames <= renames',
           Formed(q)', Sound(q.source, clock), q.pc \in RenamePC => w \in Renamer,
           q.pc \notin {"empty", "drop"},
           q.pc = "commit" =>
               ~Held(q.id) /\ ~Held(q.to) /\ q.source = bucket[q.id] /\ ~At(w, "commit")
    PROVE  Contract(w, q)
BY Turn DEF Contract, Inv, TypeOK, Rows

LEMMA IdleFormed == Idle \in Request /\ (Formed(Idle)' <=> 0 <= clock') /\ Idle.source = None /\ Idle.pc = "idle"
BY LockoutAssumption DEF Idle, Request, Formed, RenamePC

(* An answer.                                                              *)
LEMMA Answers ==
    ASSUME Inv, NEW w \in Worker, req' = [req EXCEPT ![w] = Idle],
           UNCHANGED <<store, bucket, clock, name, renames, guesses>>
    PROVE  Contract(w, Idle)
<1>1. Formed(Idle)' /\ Sound(Idle.source, clock) /\ Idle.pc \notin RenamePC /\ Idle.pc # "commit"
  BY IdleFormed DEF Inv, TypeOK, Sound, RenamePC
<1>2. name' \in Id /\ guesses' \in [Id -> Nat] /\ renames' \in Nat /\ renames <= renames'
  BY DEF Inv, TypeOK
<1> QED BY <1>1, <1>2, IdleFormed, Quiet

LEMMA SignInContract ==
    ASSUME Inv, store' = store, NEW w \in Worker,
           \/ \E i \in Id : SignInStart(w, i) \/ OtpMiss(w, i) \/ Recover(w, i)
           \/ check_locked(w) \/ PasswordWrong(w) \/ PasswordRight(w) \/ Alarm(w) \/ RenameAnswer(w)
    PROVE  \E q : Contract(w, q)
<1>0. /\ req[w] \in Request /\ Formed(req[w]) /\ Sound(req[w].source, clock)
      /\ clock \in Nat /\ renames \in Nat /\ name \in Id /\ guesses \in [Id -> Nat]
  BY DEF Inv, TypeOK, Rows
<1>1. CASE Alarm(w) \/ RenameAnswer(w) \/ (check_locked(w) /\ Locked(bucket[req[w].id]))
  BY <1>1, Answers DEF Alarm, RenameAnswer, check_locked
<1>2. ASSUME NEW i \in Id, SignInStart(w, i) \/ OtpMiss(w, i) \/ Recover(w, i)
      PROVE  \E q : Contract(w, q)
  <2>1. PICK q : /\ req' = [req EXCEPT ![w] = q]
                 /\ \/ q = [Idle EXCEPT !.pc = "check", !.id = i, !.guess = TRUE]
                    \/ q = [Idle EXCEPT !.pc = "fail", !.id = i, !.stamp = clock]
                    \/ q = [Idle EXCEPT !.pc = "reset", !.id = i]
    BY <1>2 DEF SignInStart, OtpMiss, Recover
  <2>2. /\ q \in Request /\ q.pc \in {"check", "fail", "reset"} /\ q.id = i /\ q.source = None
        /\ q.stamp \in {0, clock} /\ (q.pc = "check" => q.guess)
    <3>1. clock \in Nat
      BY <1>0
    <3>2. CASE q = [Idle EXCEPT !.pc = "check", !.id = i, !.guess = TRUE]
      <4>1. q \in Request
        BY <3>1, <3>2, FirstPass DEF Idle, Request
      <4>2. q.pc = "check" /\ q.id = i /\ q.stamp = 0 /\ q.source = None /\ q.guess
        BY <3>2 DEF Idle
      <4> QED BY <4>1, <4>2
    <3>3. CASE q = [Idle EXCEPT !.pc = "fail", !.id = i, !.stamp = clock]
      <4>1. q \in Request
        BY <3>1, <3>3, FirstPass DEF Idle, Request
      <4>2. q.pc = "fail" /\ q.id = i /\ q.stamp = clock /\ q.source = None
        BY <3>3 DEF Idle
      <4> QED BY <4>1, <4>2
    <3>4. CASE q = [Idle EXCEPT !.pc = "reset", !.id = i]
      <4>1. q \in Request
        BY <3>1, <3>4, FirstPass DEF Idle, Request
      <4>2. q.pc = "reset" /\ q.id = i /\ q.stamp = 0 /\ q.source = None
        BY <3>4 DEF Idle
      <4> QED BY <4>1, <4>2
    <3> QED BY <2>1, <3>2, <3>3, <3>4
  <2>3. UNCHANGED <<bucket, name, clock, renames, guesses>>
    BY <1>2 DEF SignInStart, OtpMiss, Recover
  <2>4. Formed(q)' /\ Sound(q.source, clock) /\ q.pc \notin RenamePC /\ q.pc # "commit"
    BY <1>0, <2>2, <2>3 DEF Formed, Sound, RenamePC
  <2>5. name' \in Id /\ guesses' \in [Id -> Nat] /\ renames' \in Nat /\ renames <= renames'
    BY <1>0, <2>3
  <2> QED BY <2>1, <2>2, <2>3, <2>4, <2>5, Quiet
<1>3. ASSUME \/ check_locked(w) /\ ~Locked(bucket[req[w].id])
             \/ PasswordWrong(w) \/ PasswordRight(w)
      PROVE  \E q : Contract(w, q)
  <2>1. PICK q : /\ req' = [req EXCEPT ![w] = q]
                 /\ \/ check_locked(w) /\ q = [req[w] EXCEPT !.pc = "verify"]
                    \/ PasswordWrong(w) /\ q = [req[w] EXCEPT !.pc = "fail", !.stamp = clock]
                    \/ PasswordRight(w) /\ q = [req[w] EXCEPT !.pc = "reset"]
    BY <1>3 DEF check_locked, PasswordWrong, PasswordRight, Goto
  <2>2. /\ q \in Request /\ q.pc \in {"verify", "fail", "reset"} /\ q.id = req[w].id
        /\ q.source = req[w].source /\ q.stamp \in {req[w].stamp, clock} /\ q.guess = req[w].guess
    <3>1. clock \in Nat /\ {"verify", "fail", "reset"} \subseteq PC
      BY <1>0 DEF PC
    <3>2. CASE q = [req[w] EXCEPT !.pc = "fail", !.stamp = clock]
      <4>1. PICK a : a = [req[w] EXCEPT !.pc = "fail"]
        OBVIOUS
      <4>2. q = [a EXCEPT !.stamp = clock]
        BY <3>2, <4>1
      <4>3. SameBut(a, req[w]) /\ a.pc = "fail"
        BY <1>0, <3>1, <4>1, WithPc
      <4> QED BY <3>1, <4>2, <4>3, WithStamp DEF SameBut
    <3>3. ASSUME NEW p \in {"verify", "reset"}, q = [req[w] EXCEPT !.pc = p]
          PROVE  q.pc = p /\ SameBut(q, req[w])
      BY <1>0, <3>1, <3>3, WithPc
    <3> QED BY <2>1, <3>2, <3>3 DEF SameBut
  <2>3. UNCHANGED <<bucket, name, clock, renames, guesses>> /\ req[w].pc \in {"check", "verify"}
    BY <1>3 DEF check_locked, PasswordWrong, PasswordRight, At
  <2>4. q.pc = "verify" => q.guess
    BY <1>0, <2>1, <2>2 DEF Formed, check_locked, PasswordWrong, PasswordRight, At, Request
  <2>5. Formed(q)' /\ q.pc \notin RenamePC /\ q.pc # "commit"
    BY <1>0, <2>2, <2>3, <2>4 DEF Formed, RenamePC
  <2>6. name' \in Id /\ guesses' \in [Id -> Nat] /\ renames' \in Nat /\ renames <= renames'
    BY <1>0, <2>3
  <2> QED BY <1>0, <2>1, <2>2, <2>3, <2>5, <2>6, Quiet
<1> QED BY <1>1, <1>2, <1>3

(* What increment and reset do, for later use in each invariant.           *)
LEMMA IncrementIs ==
    ASSUME Inv, NEW w \in Worker, increment(w)
    PROVE  \E q \in Request, new \in Row :
             /\ Goes(w, q)
             /\ q = Idle \/ q = [req[w] EXCEPT !.pc = "alarm"]
             /\ bucket' = [bucket EXCEPT ![req[w].id] = new]
             /\ new.count > 0
             /\ IF Active(bucket[req[w].id], req[w].stamp)
                THEN /\ new.count = bucket[req[w].id].count + 1
                     /\ new.start = bucket[req[w].id].start
                     /\ AtLeast(new, bucket[req[w].id])
                ELSE /\ new.count = 1
                     /\ \A v \in Worker \ {w} : req'[v].to = req[w].id => req'[v].cleared
<1>0. req[w] \in Request /\ req[w].id \in Id /\ bucket[req[w].id] \in Row \cup {None} /\ req \in [Worker -> Request]
  BY DEF increment, At, Inv, TypeOK, Formed
<1>1. PICK i \in Id : i = req[w].id
  BY <1>0
<1>2. PICK new : new = IF ~Active(bucket[i], req[w].stamp) THEN [count |-> 1, start |-> req[w].stamp]
                       ELSE [bucket[i] EXCEPT !.count = @ + 1]
  OBVIOUS
<1>3. new \in Row /\ new.count > 0 /\ (Active(bucket[i], req[w].stamp) => 
        new.count = bucket[i].count + 1 /\ new.start = bucket[i].start /\ AtLeast(new, bucket[i]))
      /\ (~Active(bucket[i], req[w].stamp) => new.count = 1)
  <2>1. CASE Active(bucket[i], req[w].stamp)
    <3>1. bucket[i] \in Row
      BY <1>0, <1>1, <2>1 DEF Active
    <3> QED BY <1>2, <2>1, <3>1, OneMore DEF Row
  <2>2. CASE ~Active(bucket[i], req[w].stamp)
    BY <1>0, <1>2, <2>2 DEF Row, Request
  <2> QED BY <2>1, <2>2
<1>4. PICK q : /\ q = IF new.count > MaxFailures /\ req[w].guess THEN [req[w] EXCEPT !.pc = "alarm"] ELSE Idle
  OBVIOUS
<1>5. q \in Request
  BY <1>0, <1>4, IdleFormed DEF Request
<1>6. /\ bucket' = [bucket EXCEPT ![i] = new]
      /\ req' = [v \in Worker |-> IF v = w THEN q ELSE [req[v] EXCEPT !.cleared =
                                       @ \/ (~Active(bucket[i], req[w].stamp) /\ req[v].to = i)]]
  BY <1>1, <1>2, <1>4 DEF increment
<1>7. \A v \in Worker \ {w} : Alike(req'[v], req[v])
  BY <1>0, <1>6, ClearedAlike
<1>8. ~Active(bucket[i], req[w].stamp) => \A v \in Worker \ {w} : req'[v].to = i => req'[v].cleared
  BY <1>0, <1>6 DEF Request
<1>9. Goes(w, q)
  BY <1>5, <1>6, <1>7 DEF Goes, Alike
<1> QED BY <1>1, <1>3, <1>4, <1>5, <1>6, <1>8, <1>9

LEMMA ResetIs ==
    ASSUME Inv, NEW w \in Worker, reset(w)
    PROVE  /\ Goes(w, Idle)
           /\ bucket' = [bucket EXCEPT ![req[w].id] = None]
           /\ \A v \in Worker \ {w} : req'[v].to = req[w].id => req'[v].cleared
<1>0. req[w] \in Request /\ req \in [Worker -> Request]
  BY DEF Inv, TypeOK
<1>1. PICK i : i = req[w].id
  OBVIOUS
<1>2. req' = [v \in Worker |-> IF v = w THEN Idle
                               ELSE [Gone(req[v], i) EXCEPT !.cleared = @ \/ i \in {req[v].id, req[v].to}]]
  BY <1>1 DEF reset
<1>3. ASSUME NEW v \in Worker \ {w} PROVE Alike(req'[v], req[v]) /\ (req'[v].to = i => req'[v].cleared)
  <2>1. PICK g \in Request : g = Gone(req[v], i) /\ Alike(g, req[v])
    BY <1>0, GoneAlike DEF Alike
  <2>2. req'[v] = [g EXCEPT !.cleared = @ \/ i \in {req[v].id, req[v].to}]
    BY <1>2, <2>1
  <2>3. Alike(req'[v], g)
    BY <2>1, <2>2, ClearedAlike
  <2> QED BY <2>1, <2>2, <2>3 DEF Alike, Request
<1> QED BY <1>0, <1>1, <1>2, <1>3, IdleFormed DEF Goes, Alike, reset

LEMMA CountContract ==
    ASSUME Inv, store' = store, NEW w \in Worker, increment(w) \/ reset(w)
    PROVE  \E q : Contract(w, q)
<1>0. /\ req[w] \in Request /\ Formed(req[w]) /\ Sound(req[w].source, clock) /\ req[w].id \in Id
      /\ clock \in Nat /\ renames \in Nat /\ name \in Id /\ guesses \in [Id -> Nat]
      /\ bucket \in [Id -> Row \cup {None}] /\ \A i \in Id : Sound(bucket[i], clock)
  BY DEF Inv, TypeOK, Rows, Formed, increment, reset, At
<1>1. CASE increment(w)
  <2>1. PICK q \in Request, new \in Row :
             /\ Goes(w, q)
             /\ q = Idle \/ q = [req[w] EXCEPT !.pc = "alarm"]
             /\ bucket' = [bucket EXCEPT ![req[w].id] = new]
             /\ new.count > 0
    BY <1>1, IncrementIs
  <2>2. ~Held(req[w].id) /\ UNCHANGED <<name, clock, renames>> /\ guesses' \in [Id -> Nat] /\ ~At(w, "commit")
    BY <1>0, <1>1 DEF increment, At
  <2>3. q.pc \in {"idle", "alarm"} /\ q.stamp <= clock /\ q.id \in Id \cup {None} /\ (q.pc = "alarm" => q.id \in Id)
        /\ Sound(q.source, clock)
    <3>1. CASE q = Idle
      BY <1>0, <3>1 DEF Idle, Sound
    <3>2. CASE q = [req[w] EXCEPT !.pc = "alarm"]
      BY <1>0, <3>2 DEF Request, Formed
    <3> QED BY <2>1, <3>1, <3>2
  <2>4. Formed(q)' /\ q.pc \notin RenamePC /\ q.pc # "commit"
    BY <1>0, <2>2, <2>3 DEF Formed, RenamePC
  <2>5. bucket' \in [Id -> Row \cup {None}] /\ \A i \in Id : Sound(bucket'[i], clock)
    BY <1>0, <2>1 DEF Sound
  <2>6. \A i \in Id : bucket'[i] = bucket[i] \/ ~Held(i)
    BY <1>0, <2>1, <2>2
  <2> QED BY <1>0, <2>1, <2>2, <2>3, <2>4, <2>5, <2>6 DEF Contract
<1>2. CASE reset(w)
  <2>1. Goes(w, Idle) /\ bucket' = [bucket EXCEPT ![req[w].id] = None]
    BY <1>2, ResetIs
  <2>2. UNCHANGED <<name, clock, renames>> /\ guesses' \in [Id -> Nat]
    BY <1>0, <1>2 DEF reset
  <2>3. Formed(Idle)' /\ Idle.pc \notin RenamePC /\ Idle.pc # "commit" /\ Sound(Idle.source, clock)
    BY <1>0, <2>2, IdleFormed DEF RenamePC, Sound
  <2>4. bucket' \in [Id -> Row \cup {None}] /\ \A i \in Id : Sound(bucket'[i], clock) /\ bucket'[i] \in {None, bucket[i]}
    BY <1>0, <2>1 DEF Sound
  <2> QED BY <1>0, <2>1, <2>2, <2>3, <2>4, IdleFormed DEF Contract
<1> QED BY <1>1, <1>2

(* The steps of a rename that leave the counters alone.                    *)
LEMMA PrepareContract ==
    ASSUME Inv, store' = store, NEW w \in Worker,
           \/ \E i \in Id : RenameStart(w, i)
           \/ update_user(w) \/ rekey(w) \/ RekeyLock(w) \/ RekeyRead(w)
    PROVE  \E q : Contract(w, q)
<1>0. /\ req[w] \in Request /\ Formed(req[w]) /\ Sound(req[w].source, clock)
      /\ (req[w].pc \in RenamePC => w \in Renamer)
      /\ clock \in Nat /\ renames \in Nat /\ name \in Id /\ guesses \in [Id -> Nat]
      /\ bucket \in [Id -> Row \cup {None}] /\ \A i \in Id : Sound(bucket[i], clock)
  BY DEF Inv, TypeOK, Rows
<1>1. ASSUME NEW i \in Id, RenameStart(w, i) PROVE \E q : Contract(w, q)
  <2>1. PICK q : q = [Idle EXCEPT !.pc = "write", !.id = name, !.to = i]
    OBVIOUS
  <2>2. /\ q \in Request /\ q.pc = "write" /\ q.id = name /\ q.to = i /\ q.source = None /\ q.stamp = 0
    <3>1. q \in Request
      BY <1>0, <2>1, FirstPass DEF Idle, Request
    <3>2. q.pc = "write" /\ q.id = name /\ q.to = i /\ q.source = None /\ q.stamp = 0
      BY <2>1 DEF Idle
    <3> QED BY <3>1, <3>2
  <2>3. /\ req' = [req EXCEPT ![w] = q] /\ i # name /\ renames' = renames + 1 /\ w \in Renamer
        /\ UNCHANGED <<bucket, name, clock>> /\ guesses' \in [Id -> Nat]
    BY <1>1, <2>1 DEF RenameStart
  <2>4. Formed(q)' /\ Sound(q.source, clock) /\ q.pc # "commit"
    BY <1>0, <2>2, <2>3 DEF Formed, Sound
  <2>5. name' \in Id /\ renames' \in Nat /\ renames <= renames'
    BY <1>0, <2>3
  <2> QED BY <2>2, <2>3, <2>4, <2>5, Quiet
<1>2. ASSUME update_user(w) \/ rekey(w) \/ RekeyLock(w) \/ RekeyRead(w) PROVE \E q : Contract(w, q)
  <2>1. PICK q : /\ req' = [req EXCEPT ![w] = q]
                 /\ \/ update_user(w) /\ q = [req[w] EXCEPT !.pc = "rekey", !.was = bucket[req[w].id]]
                    \/ rekey(w) /\ q = [req[w] EXCEPT !.pc = "read", !.stamp = clock]
                    \/ RekeyLock(w) /\ q = [req[w] EXCEPT !.pc = "commit", !.source = bucket[req[w].id]]
                    \/ RekeyRead(w) /\ q = [req[w] EXCEPT !.pc = "merge", !.source = bucket[req[w].id],
                                                          !.same = TRUE]
    BY <1>2 DEF update_user, rekey, RekeyLock, RekeyRead
  <2>2. req[w].pc \in {"write", "rekey", "read"} /\ UNCHANGED <<bucket, clock, renames, guesses>> /\ name' \in {name, req[w].to}
    BY <1>2 DEF update_user, rekey, RekeyLock, RekeyRead, At
  <2>3. req[w].id \in Id /\ req[w].to \in Id /\ req[w].to # req[w].id /\ renames > 0 /\ w \in Renamer
    BY <1>0, <2>2 DEF Formed, RenamePC
  <2>4. /\ q \in Request /\ q.pc \in {"rekey", "read", "commit", "merge"} /\ q.id = req[w].id /\ q.to = req[w].to
        /\ q.source \in {req[w].source, bucket[req[w].id]} /\ q.stamp \in {req[w].stamp, clock}
        /\ (q.pc = "commit" => RekeyLock(w) /\ q.source = bucket[req[w].id])
        /\ (q.pc = "merge" => RekeyRead(w))
    <3>0. bucket[req[w].id] \in Row \cup {None}
      BY <1>0, <2>3
    <3>1. CASE q = [req[w] EXCEPT !.pc = "rekey", !.was = bucket[req[w].id]]
      BY <1>0, <3>0, <3>1 DEF Request
    <3>2. CASE q = [req[w] EXCEPT !.pc = "read", !.stamp = clock]
      BY <1>0, <3>2 DEF Request
    <3>3. CASE RekeyLock(w) /\ q = [req[w] EXCEPT !.pc = "commit", !.source = bucket[req[w].id]]
      BY <1>0, <3>0, <3>3 DEF Request
    <3>4. CASE RekeyRead(w) /\ q = [req[w] EXCEPT !.pc = "merge", !.source = bucket[req[w].id], !.same = TRUE]
      BY <1>0, <3>0, <3>4 DEF Request
    <3> QED BY <2>1, <3>1, <3>2, <3>3, <3>4
  <2>5. Formed(q)' /\ Sound(q.source, clock)
    BY <1>0, <2>2, <2>3, <2>4 DEF Formed, RekeyLock, RekeyRead
  <2>6. q.pc = "commit" => ~Held(q.id) /\ ~Held(q.to) /\ q.source = bucket[q.id] /\ ~At(w, "commit")
    BY <2>2, <2>4 DEF RekeyLock, At
  <2>7. name' \in Id /\ guesses' \in [Id -> Nat] /\ renames' \in Nat /\ renames <= renames'
    BY <1>0, <2>2, <2>3
  <2> QED BY <2>1, <2>2, <2>3, <2>4, <2>5, <2>6, <2>7, Quiet
<1> QED BY <1>1, <1>2

(* The steps of a rename that replace or delete counters.                  *)
MovePC == {"read", "commit", "merge", "empty", "drop"}

(* A step of a rename moves counters: rows of its two names only.          *)
Moves(w, q) ==
    /\ Goes(w, q)
    /\ req[w].pc \in MovePC
    /\ q.pc \in RenamePC \ {"commit"} \/ q = Idle
    /\ q # Idle => q.id = req[w].id /\ q.to = req[w].to /\ q.stamp = req[w].stamp /\ q.source = req[w].source
                   /\ q.cleared = req[w].cleared
    /\ q.pc \in {"merge", "empty", "drop"} => store = "mongo"
    /\ UNCHANGED <<name, clock, renames, guesses>>
    /\ \A i \in Id : \/ bucket'[i] \in {None, bucket[i]}
                     \/ At(w, "merge") /\ i = req[w].to
                     \/ At(w, "commit") /\ i = req[w].to
                     \/ store = "memory"

LEMMA MovesContract ==
    ASSUME Inv, store' = store, NEW w \in Worker, MoveSteps(w), NEW q, Moves(w, q),
           bucket' \in [Id -> Row \cup {None}],
           \A i \in Id : Sound(bucket'[i], clock)
    PROVE  Contract(w, q)
<1>0. /\ req[w] \in Request /\ Formed(req[w]) /\ Sound(req[w].source, clock)
      /\ (req[w].pc \in RenamePC => w \in Renamer)
      /\ clock \in Nat /\ renames \in Nat /\ name \in Id /\ guesses \in [Id -> Nat]
  BY DEF Inv, TypeOK, Rows
<1>1. w \in Renamer /\ req[w].pc \in RenamePC
  BY <1>0 DEF Moves, MovePC, RenamePC
<1>2. Formed(q)' /\ Sound(q.source, clock) /\ q.pc # "commit"
  <2>1. CASE q = Idle
    BY <1>0, <2>1, IdleFormed DEF Moves, Sound
  <2>2. CASE q # Idle
    BY <1>0, <1>1, <2>2 DEF Moves, Formed, RenamePC
  <2> QED BY <2>1, <2>2
<1>3. At(w, "merge") => store # "postgres"
  BY <1>0 DEF Formed, At
<1>4. store = "postgres" => \A i \in Id :
           \/ bucket'[i] \in {None, bucket[i]}
           \/ At(w, "commit") /\ i = req[w].to
  BY <1>3 DEF Moves
<1>5. name' \in Id /\ guesses' \in [Id -> Nat] /\ renames' \in Nat /\ renames <= renames' /\ clock' = clock /\ Goes(w, q)
  BY <1>0 DEF Moves
<1> QED BY <1>1, <1>2, <1>4, <1>5 DEF Contract

(* No running counter but the one under the old name is lowered, and that  *)
(* one only by the step that ends the rename.                              *)
Spares(w, q) ==
    \A i \in Id : Active(bucket[i], clock) =>
        \/ AtLeast(bucket'[i], bucket[i])
        \/ i = req[w].id /\ q.pc = "renamed" /\ req[w].pc \in {"read", "commit", "drop"}

Moved(w, q) ==
    /\ Moves(w, q) /\ Spares(w, q)
    /\ bucket' \in [Id -> Row \cup {None}]
    /\ \A i \in Id : Sound(bucket'[i], clock)

LEMMA AtLeastSame == \A b : b # None => AtLeast(b, b)
BY DEF AtLeast

LEMMA RenamerIs ==
    ASSUME Inv, NEW w \in Worker, req[w].pc \in MovePC
    PROVE  /\ req[w] \in Request /\ req[w].id \in Id /\ req[w].to \in Id /\ req[w].to # req[w].id
           /\ req[w].stamp \in Nat /\ req[w].stamp <= clock /\ clock \in Nat
           /\ req[w].source \in Row \cup {None} /\ Sound(req[w].source, clock)
           /\ bucket \in [Id -> Row \cup {None}] /\ \A i \in Id : Sound(bucket[i], clock)
           /\ req \in [Worker -> Request]
           /\ Formed(req[w])
BY DEF Inv, TypeOK, Rows, Formed, MovePC, RenamePC, Request

LEMMA AtOnceMoves ==
    ASSUME Inv, NEW w \in Worker, RekeyAtOnce(w)
    PROVE  LET q == [req[w] EXCEPT !.pc = "renamed"]
           IN  /\ Moved(w, q)
               /\ Active(bucket[req[w].id], clock) => AtLeast(bucket'[req[w].to], bucket[req[w].id])
<1>0. req[w].pc \in MovePC
  BY DEF RekeyAtOnce, At, MovePC
<1>1. PICK q : q = [req[w] EXCEPT !.pc = "renamed"]
  OBVIOUS
<1>2. q \in Request /\ q.pc = "renamed" /\ q.id = req[w].id /\ q.to = req[w].to /\ q.stamp = req[w].stamp
      /\ q.source = req[w].source /\ q.cleared = req[w].cleared
  BY <1>0, <1>1, RenamerIs DEF Request
<1>3. PICK new : new = Merged(bucket[req[w].id], bucket[req[w].to], req[w].stamp)
  OBVIOUS
<1>4. /\ new \in Row \cup {None} /\ Sound(new, clock)
      /\ Active(bucket[req[w].id], clock) => AtLeast(new, bucket[req[w].id])
      /\ Active(bucket[req[w].to], clock) => AtLeast(new, bucket[req[w].to])
  BY <1>0, <1>3, RenamerIs, MergedKeeps
<1>5. /\ bucket' = [bucket EXCEPT ![req[w].to] = new, ![req[w].id] = None]
      /\ req' = [v \in Worker |-> IF v = w THEN q ELSE Gone(req[v], req[w].id)]
      /\ UNCHANGED <<name, clock, renames, guesses>> /\ store = "memory"
  BY <1>1, <1>3 DEF RekeyAtOnce
<1>6. Goes(w, q)
  BY <1>0, <1>2, <1>5, GoneAlike, RenamerIs DEF Goes, Alike
<1>7. /\ bucket'[req[w].to] = new /\ bucket'[req[w].id] = None
      /\ \A i \in Id \ {req[w].id, req[w].to} : bucket'[i] = bucket[i]
      /\ bucket' \in [Id -> Row \cup {None}]
  BY <1>0, <1>4, <1>5, RenamerIs
<1>8. \A i \in Id : Sound(bucket'[i], clock)
  BY <1>0, <1>4, <1>7, RenamerIs DEF Sound
<1>9. Moves(w, q)
  BY <1>0, <1>2, <1>5, <1>6 DEF Moves, RenamePC
<1>10. Spares(w, q)
  BY <1>0, <1>2, <1>4, <1>7, AtLeastSame DEF Spares, RekeyAtOnce, At, Active
<1> QED BY <1>1, <1>4, <1>7, <1>8, <1>9, <1>10 DEF Moved

LEMMA CommitMoves ==
    ASSUME Inv, NEW w \in Worker, RekeyCommit(w)
    PROVE  LET q == [req[w] EXCEPT !.pc = "renamed"]
           IN  /\ Moved(w, q)
               /\ Active(bucket[req[w].id], clock) /\ req[w].source # None =>
                      AtLeast(bucket'[req[w].to], bucket[req[w].id])
<1>0. req[w].pc \in MovePC /\ req[w].pc = "commit"
  BY DEF RekeyCommit, At, MovePC
<1>1. PICK q : q = [req[w] EXCEPT !.pc = "renamed"]
  OBVIOUS
<1>2. q \in Request /\ q.pc = "renamed" /\ q.id = req[w].id /\ q.to = req[w].to /\ q.stamp = req[w].stamp
      /\ q.source = req[w].source /\ q.cleared = req[w].cleared
  BY <1>0, <1>1, RenamerIs DEF Request
<1>3. PICK new : new = Merged(req[w].source, bucket[req[w].to], req[w].stamp)
  OBVIOUS
<1>4. /\ new \in Row \cup {None} /\ Sound(new, clock)
      /\ Active(req[w].source, clock) => AtLeast(new, req[w].source)
      /\ Active(bucket[req[w].to], clock) => AtLeast(new, bucket[req[w].to])
  BY <1>0, <1>3, RenamerIs, MergedKeeps
<1>5. /\ bucket' = [bucket EXCEPT ![req[w].to] = new, ![req[w].id] = None]
      /\ req' = [req EXCEPT ![w] = q]
      /\ UNCHANGED <<name, clock, renames, guesses>>
  BY <1>1, <1>3 DEF RekeyCommit, Goto
<1>6. Goes(w, q)
  BY <1>2, <1>5, Turn DEF Inv
<1>7. /\ bucket'[req[w].to] = new /\ bucket'[req[w].id] = None
      /\ \A i \in Id \ {req[w].id, req[w].to} : bucket'[i] = bucket[i]
      /\ bucket' \in [Id -> Row \cup {None}]
  BY <1>0, <1>4, <1>5, RenamerIs
<1>8. \A i \in Id : Sound(bucket'[i], clock)
  BY <1>0, <1>4, <1>7, RenamerIs DEF Sound
<1>9. Moves(w, q)
  BY <1>0, <1>2, <1>5, <1>6, <1>7 DEF Moves, RenamePC, At
<1>10. Spares(w, q)
  BY <1>0, <1>2, <1>4, <1>7, AtLeastSame DEF Spares, Active
<1>11. Active(bucket[req[w].id], clock) /\ req[w].source # None => bucket[req[w].id] = req[w].source
  BY <1>0 DEF Inv, Locks, Locking, At, Active
<1> QED BY <1>1, <1>4, <1>7, <1>8, <1>9, <1>10, <1>11 DEF Moved

(* MongoDB: between the merge and the removal of the row it read, a rename *)
(* that nobody cleared holds a row as strict under the new name.           *)
Carrying(r) ==
    /\ r.pc = "empty" => ~Active(r.source, clock)
    /\ r.pc = "drop" /\ ~r.cleared /\ Active(r.source, clock) => AtLeast(bucket[r.to], r.source)

LEMMA MergeMoves ==
    ASSUME Inv, NEW w \in Worker, RekeyMerge(w)
    PROVE  \E q : /\ Moved(w, q)
                  /\ q.pc = "empty" => ~Active(q.source, clock)
                  /\ q.pc = "drop" /\ Active(q.source, clock) => AtLeast(bucket'[q.to], q.source)
<1>0. req[w].pc \in MovePC /\ req[w].pc = "merge" /\ store = "mongo"
  BY DEF RekeyMerge, At, MovePC, Inv, Formed
<1>1. PICK new : new = MergedRow(req[w])
  OBVIOUS
<1>2. /\ new \in Row /\ Sound(new, clock)
      /\ Active(req[w].source, clock) => AtLeast(new, req[w].source)
      /\ Active(bucket[req[w].to], clock) => AtLeast(new, bucket[req[w].to])
  BY <1>0, <1>1, RenamerIs, MergedRowIsBest, BestKeeps
<1>3. PICK p \in {"empty", "renamed", "drop"} :
         /\ req' = [req EXCEPT ![w].pc = p]
         /\ p = "empty" => new.count = 0
  BY <1>1 DEF RekeyMerge, Goto, AfterMerge
<1>4. PICK q : q = [req[w] EXCEPT !.pc = p]
  OBVIOUS
<1>5. q \in Request /\ q.pc = p /\ q.id = req[w].id /\ q.to = req[w].to /\ q.stamp = req[w].stamp
      /\ q.source = req[w].source /\ q.cleared = req[w].cleared
  BY <1>0, <1>4, RenamerIs DEF Request
<1>6. Goes(w, q)
  BY <1>0, <1>3, <1>4, <1>5, RenamerIs, Turn DEF Inv
<1>7. bucket' = [bucket EXCEPT ![req[w].to] = new] /\ UNCHANGED <<name, clock, renames, guesses>>
  BY <1>1 DEF RekeyMerge
<1>8. /\ bucket'[req[w].to] = new /\ \A i \in Id \ {req[w].to} : bucket'[i] = bucket[i]
      /\ bucket' \in [Id -> Row \cup {None}]
  BY <1>0, <1>2, <1>7, RenamerIs
<1>9. \A i \in Id : Sound(bucket'[i], clock)
  BY <1>0, <1>2, <1>8, RenamerIs
<1>10. Moves(w, q)
  BY <1>0, <1>5, <1>6, <1>7, <1>8 DEF Moves, RenamePC, At
<1>11. Spares(w, q)
  BY <1>0, <1>2, <1>8, AtLeastSame DEF Spares, Active
<1>12. q.pc = "empty" => ~Active(q.source, clock)
  <2> SUFFICES ASSUME new.count = 0, Active(req[w].source, clock) PROVE FALSE
    BY <1>3, <1>5
  <2>1. req[w].source \in Row /\ req[w].source.count > 0
    BY <1>0, RenamerIs, LockoutAssumption DEF Active, Sound, Row
  <2>2. AtLeast(new, req[w].source)
    BY <1>2
  <2> QED BY <1>2, <2>1, <2>2 DEF AtLeast, Stricter, Row
<1> QED BY <1>2, <1>5, <1>8, <1>9, <1>10, <1>11, <1>12 DEF Moved

LEMMA EmptyMoves ==
    ASSUME Inv, NEW w \in Worker, RekeyDropEmpty(w)
    PROVE  \E q : /\ Moved(w, q) /\ q.pc \in {"renamed", "drop"}
                  /\ Carrying(req[w]) => ~Active(q.source, clock)
<1>0. req[w].pc \in MovePC /\ req[w].pc = "empty" /\ store = "mongo"
  BY DEF RekeyDropEmpty, At, MovePC, Inv, Formed
<1>1. PICK q : q = [req[w] EXCEPT !.pc = AfterMerge(req[w])]
  OBVIOUS
<1>2. q \in Request /\ q.pc \in {"renamed", "drop"} /\ q.id = req[w].id /\ q.to = req[w].to
      /\ q.stamp = req[w].stamp /\ q.source = req[w].source /\ q.cleared = req[w].cleared
  BY <1>0, <1>1, RenamerIs DEF Request, AfterMerge
<1>3. PICK e \in BOOLEAN : e = (bucket[req[w].to] = Zero(req[w].stamp))
  OBVIOUS
<1>4. /\ bucket' = IF e THEN [bucket EXCEPT ![req[w].to] = None] ELSE bucket
      /\ req' = [v \in Worker |-> IF v = w THEN q ELSE IF e THEN Gone(req[v], req[w].to) ELSE req[v]]
      /\ UNCHANGED <<name, clock, renames, guesses>>
  BY <1>1, <1>3 DEF RekeyDropEmpty
<1>5. ASSUME NEW v \in Worker \ {w} PROVE Alike(req'[v], req[v])
  <2>1. req[v] \in Request /\ Alike(req[v], req[v])
    BY <1>0, RenamerIs DEF Alike
  <2> QED BY <1>4, <2>1, GoneAlike
<1>6. Goes(w, q)
  BY <1>2, <1>4, <1>5 DEF Goes, Alike
<1>7. /\ \A i \in Id : bucket'[i] \in {None, bucket[i]} /\ (bucket'[i] # bucket[i] => i = req[w].to /\ e)
      /\ bucket' \in [Id -> Row \cup {None}]
  BY <1>0, <1>4, RenamerIs
<1>8. \A i \in Id : Sound(bucket'[i], clock)
  BY <1>0, <1>7, RenamerIs DEF Sound
<1>9. Moves(w, q)
  BY <1>0, <1>2, <1>4, <1>6, <1>7 DEF Moves, RenamePC
<1>10. e => ~Active(bucket[req[w].to], clock)
  <2>1. PICK z : z = Zero(req[w].stamp)
    OBVIOUS
  <2>2. z.start = req[w].stamp - Window
    BY <2>1 DEF Zero
  <2>3. z.start + Window <= clock
    BY <1>0, <2>2, RenamerIs, LockoutAssumption
  <2>4. clock \in Nat /\ z.start + Window \in Int
    BY <1>0, <2>2, RenamerIs, LockoutAssumption
  <2>5. ~Active(z, clock)
    BY <2>3, <2>4 DEF Active
  <2> QED BY <1>3, <2>1, <2>5
<1>11. Spares(w, q)
  BY <1>7, <1>10, AtLeastSame DEF Spares, Active
<1> QED BY <1>0, <1>2, <1>7, <1>8, <1>9, <1>11 DEF Moved, Carrying

LEMMA DropMoves ==
    ASSUME Inv, NEW w \in Worker, RekeyDrop(w)
    PROVE  \E q : /\ Moved(w, q)
                  /\ \/ q.pc \in {"idle", "read"} /\ bucket' = bucket
                     \/ /\ q.pc = "renamed" /\ q.to = req[w].to
                        /\ Carrying(req[w]) /\ Active(bucket[req[w].id], clock) /\ ~req[w].cleared =>
                               AtLeast(bucket'[req[w].to], bucket[req[w].id])
<1>0. req[w].pc \in MovePC /\ req[w].pc = "drop" /\ store = "mongo"
  BY DEF RekeyDrop, At, MovePC, Inv, Formed
<1>1. CASE Unchanged(req[w])
  <2>1. PICK q : q = [req[w] EXCEPT !.pc = "renamed"]
    OBVIOUS
  <2>2. q \in Request /\ q.pc = "renamed" /\ q.id = req[w].id /\ q.to = req[w].to
        /\ q.stamp = req[w].stamp /\ q.source = req[w].source /\ q.cleared = req[w].cleared
    BY <1>0, <2>1, RenamerIs DEF Request
  <2>3. /\ bucket' = [bucket EXCEPT ![req[w].id] = None]
        /\ req' = [v \in Worker |-> IF v = w THEN q ELSE Gone(req[v], req[w].id)]
        /\ UNCHANGED <<name, clock, renames, guesses>>
    BY <1>1, <2>1 DEF RekeyDrop
  <2>4. Goes(w, q)
    BY <1>0, <2>2, <2>3, GoneAlike, RenamerIs DEF Goes, Alike
  <2>5. /\ \A i \in Id : bucket'[i] \in {None, bucket[i]} /\ (bucket'[i] # bucket[i] => i = req[w].id)
        /\ bucket' \in [Id -> Row \cup {None}] /\ bucket'[req[w].to] = bucket[req[w].to]
    BY <1>0, <2>3, RenamerIs
  <2>6. \A i \in Id : Sound(bucket'[i], clock)
    BY <1>0, <2>5, RenamerIs DEF Sound
  <2>7. Moves(w, q)
    BY <1>0, <2>2, <2>3, <2>4, <2>5 DEF Moves, RenamePC
  <2>8. Spares(w, q)
    BY <1>0, <2>2, <2>5, AtLeastSame DEF Spares, Active
  <2>9. bucket[req[w].id] = req[w].source
    BY <1>1 DEF Unchanged
  <2> QED BY <1>0, <2>2, <2>5, <2>6, <2>7, <2>8, <2>9 DEF Moved, Carrying
<1>2. CASE ~Unchanged(req[w])
  <2>1. PICK q : /\ req' = [req EXCEPT ![w] = q]
                 /\ \/ q = Idle
                    \/ ~GiveUp(req[w]) /\ q = [req[w] EXCEPT !.pc = "read", !.pass = req[w].pass + 1]
    BY <1>2 DEF RekeyDrop
  <2>2. /\ q \in Request /\ q.pc \in {"idle", "read"}
        /\ \/ q = Idle
           \/ q.pc = "read" /\ q.id = req[w].id /\ q.to = req[w].to /\ q.stamp = req[w].stamp
              /\ q.source = req[w].source /\ q.cleared = req[w].cleared
    <3>1. CASE q = Idle
      BY <3>1, IdleFormed
    <3>2. CASE ~GiveUp(req[w]) /\ q = [req[w] EXCEPT !.pc = "read", !.pass = req[w].pass + 1]
      <4>1. req[w].pass \in 0 .. Passes - 1 /\ req[w].pass + 1 # Passes
        BY <1>0, <3>2, RenamerIs DEF Request, GiveUp
      <4>2. PICK n : n = req[w].pass + 1
        OBVIOUS
      <4>3. n \in 0 .. Passes - 1
        BY <4>1, <4>2, LockoutAssumption
      <4>4. q = [req[w] EXCEPT !.pc = "read", !.pass = n]
        BY <3>2, <4>2
      <4>5. req[w] \in Request /\ "read" \in PC /\ req[w].id \in Id /\ 0 \in Nat
        BY <1>0, RenamerIs DEF PC
      <4>6. PICK a : a = [req[w] EXCEPT !.pc = "read"]
        OBVIOUS
      <4>7. SameBut(a, req[w]) /\ a.pc = "read"
        BY <4>5, <4>6, WithPc
      <4>8. q = [a EXCEPT !.pass = n]
        BY <4>4, <4>6
      <4> QED BY <4>3, <4>7, <4>8, WithPass DEF SameBut
    <3> QED BY <2>1, <3>1, <3>2
  <2>3. UNCHANGED <<bucket, name, clock, renames, guesses>>
    BY <1>2 DEF RekeyDrop
  <2>4. Goes(w, q)
    BY <2>1, <2>2, Turn DEF Inv
  <2>5. Moves(w, q)
    BY <1>0, <2>2, <2>3, <2>4, IdleFormed DEF Moves, RenamePC
  <2>6. Spares(w, q)
    BY <2>3, AtLeastSame DEF Spares, Active
  <2>7. bucket' \in [Id -> Row \cup {None}] /\ \A i \in Id : Sound(bucket'[i], clock)
    BY <1>0, <2>3, RenamerIs
  <2> QED BY <2>2, <2>3, <2>5, <2>6, <2>7 DEF Moved
<1> QED BY <1>1, <1>2

------------------------------------------------------------------------------
(* The invariant.                                                          *)
LEMMA MoveStepMoves ==
    ASSUME Inv, NEW w \in Worker, MoveSteps(w)
    PROVE  \E q : Moved(w, q)
BY AtOnceMoves, CommitMoves, MergeMoves, EmptyMoves, DropMoves DEF MoveSteps

PrepareSteps(w) ==
    (\E i \in Id : RenameStart(w, i)) \/ update_user(w) \/ rekey(w) \/ RekeyLock(w) \/ RekeyRead(w)

SignInSteps(w) ==
    \/ \E i \in Id : SignInStart(w, i) \/ OtpMiss(w, i) \/ Recover(w, i)
    \/ check_locked(w) \/ PasswordWrong(w) \/ PasswordRight(w) \/ Alarm(w) \/ RenameAnswer(w)

LEMMA Cases ==
    ASSUME [Next]_vars
    PROVE  \/ Tick /\ store' = store
           \/ UNCHANGED vars
           \/ /\ store' = store
              /\ \E w \in Worker : SignInSteps(w) \/ increment(w) \/ reset(w) \/ PrepareSteps(w) \/ MoveSteps(w)
BY DEF Next, SignInSteps, PrepareSteps, MoveSteps

LEMMA InvInit == Init => Inv
<1> SUFFICES ASSUME Init PROVE Inv
  OBVIOUS
<1>1. \A w \in Worker : req[w] = Idle
  BY DEF Init
<1>2. TypeOK
  BY LockoutAssumption, IdleFormed DEF Init, TypeOK
<1>3. \A w \in Worker : Formed(req[w]) /\ req[w].pc \notin RenamePC
  BY <1>1 DEF Init, Formed, RenamePC, Idle
<1>4. Rows
  BY <1>1, IdleFormed DEF Init, Rows, Sound
<1>5. Locks
  BY <1>1, IdleFormed DEF Locks, Locking, At
<1> QED BY <1>2, <1>3, <1>4, <1>5 DEF Inv

LEMMA OneContract ==
    ASSUME Inv, NEW w \in Worker, store' = store,
           SignInSteps(w) \/ increment(w) \/ reset(w) \/ PrepareSteps(w) \/ MoveSteps(w)
    PROVE  \E q : Contract(w, q)
<1>1. CASE SignInSteps(w)
  BY <1>1, SignInContract DEF SignInSteps
<1>2. CASE increment(w) \/ reset(w)
  BY <1>2, CountContract
<1>3. CASE PrepareSteps(w)
  BY <1>3, PrepareContract DEF PrepareSteps
<1>4. CASE MoveSteps(w)
  BY <1>4, MoveStepMoves, MovesContract DEF Moved
<1> QED BY <1>1, <1>2, <1>3, <1>4

LEMMA InvNext == Inv /\ [Next]_vars => Inv'
<1> SUFFICES ASSUME Inv, [Next]_vars PROVE Inv'
  OBVIOUS
<1>1. CASE Tick /\ store' = store
  <2>1. UNCHANGED <<store, bucket, name, req, renames, guesses>> /\ clock' = clock + 1 /\ clock \in Nat
    BY <1>1 DEF Tick, Inv, TypeOK
  <2>2. TypeOK'
    BY <2>1 DEF Inv, TypeOK
  <2>3. \A w \in Worker : req[w].stamp \in Nat /\ req[w].source \in Row \cup {None}
    BY DEF Inv, TypeOK, Request
  <2>4. \A w \in Worker : Formed(req[w])'
    BY <2>1, <2>3 DEF Inv, Formed
  <2>5. \A b \in Row \cup {None} : Sound(b, clock) => Sound(b, clock')
    BY <2>1, NoneAssumption, LockoutAssumption DEF Sound, Row
  <2>6. Rows'
    BY <2>1, <2>3, <2>5 DEF Inv, TypeOK, Rows
  <2>7. Locks'
    BY <2>1 DEF Inv, Locks, Locking, At
  <2> QED BY <2>1, <2>2, <2>4, <2>6, <2>7 DEF Inv
<1>2. CASE UNCHANGED vars
  BY <1>2 DEF vars, Inv, TypeOK, Formed, Rows, Locks, Locking, At
<1>3. ASSUME NEW w \in Worker, store' = store,
             SignInSteps(w) \/ increment(w) \/ reset(w) \/ PrepareSteps(w) \/ MoveSteps(w)
      PROVE  Inv'
  BY <1>3, OneContract, ContractKeeps
<1> QED BY <1>1, <1>2, <1>3, Cases

------------------------------------------------------------------------------
(* Guesses.                                                                *)

(* Requests that may still count a guess against an identifier.            *)
Guess(r, i) == r.pc \in {"verify", "fail"} /\ r.guess /\ r.id = i

Guessing(i) == {w \in Worker : Guess(req[w], i)}

(* A counter below the limit has counted every guess; one above it leaves  *)
(* room only for those that had passed the check.                          *)
CountedFor(i) ==
    Active(bucket[i], clock) =>
        /\ guesses[i] <= bucket[i].count
        /\ bucket[i].count > MaxFailures =>
               guesses[i] + Cardinality(Guessing(i)) <= MaxFailures + Cardinality(Worker)

Counted == renames = 0 => \A i \in Id : CountedFor(i)

LEMMA Sizes ==
    /\ Cardinality(Worker) \in Nat
    /\ \A i : Cardinality(Guessing(i)) \in Nat /\ Cardinality(Guessing(i)) <= Cardinality(Worker)
    /\ \A i : Cardinality(Guessing(i)') \in Nat /\ Cardinality(Guessing(i)') <= Cardinality(Worker)
    /\ \A i : Guessing(i)' \subseteq Guessing(i) => Cardinality(Guessing(i)') <= Cardinality(Guessing(i))
    /\ \A i : \A w \in Worker : w \notin Guessing(i)' => Cardinality(Guessing(i)') < Cardinality(Worker)
    /\ \A i : \A w \in Guessing(i) : Guessing(i)' \subseteq Guessing(i) \ {w} =>
           Cardinality(Guessing(i)') < Cardinality(Guessing(i))
<1>1. \A S \in SUBSET Worker : IsFiniteSet(S) /\ Cardinality(S) \in Nat
  BY FS_Subset, FS_CardinalityType, LockoutAssumption
<1>2. \A S, T \in SUBSET Worker : S \subseteq T => Cardinality(S) <= Cardinality(T)
  BY <1>1, FS_Subset
<1>3. \A T \in SUBSET Worker : \A w \in T : Cardinality(T \ {w}) = Cardinality(T) - 1
  BY <1>1, FS_RemoveElement
<1>4. \A S, T \in SUBSET Worker : \A w \in T : S \subseteq T \ {w} => Cardinality(S) < Cardinality(T)
  <2> SUFFICES ASSUME NEW S \in SUBSET Worker, NEW T \in SUBSET Worker, NEW w \in T, S \subseteq T \ {w}
               PROVE  Cardinality(S) < Cardinality(T)
    OBVIOUS
  <2>1. Cardinality(S) <= Cardinality(T \ {w}) /\ Cardinality(T \ {w}) = Cardinality(T) - 1
    BY <1>2, <1>3
  <2> QED BY <1>1, <2>1
<1>5. \A i : Guessing(i) \in SUBSET Worker /\ Guessing(i)' \in SUBSET Worker
  BY DEF Guessing
<1> QED BY <1>1, <1>2, <1>4, <1>5

(* A step that adds no guess, and no request that may guess at a name that *)
(* is locked.                                                              *)
LEMMA NoMoreGuesses ==
    ASSUME Inv, NEW i \in Id, CountedFor(i), guesses'[i] = guesses[i],
           Active(bucket'[i], clock') => bucket'[i] = bucket[i] /\ Active(bucket[i], clock),
           Active(bucket[i], clock) /\ bucket[i].count > MaxFailures => Guessing(i)' \subseteq Guessing(i)
    PROVE  CountedFor(i)'
<1>1. guesses[i] \in Nat
  BY DEF Inv, TypeOK
<1>2. SUFFICES ASSUME Active(bucket'[i], clock')
               PROVE  /\ guesses'[i] <= bucket'[i].count
                      /\ bucket'[i].count > MaxFailures =>
                           guesses'[i] + Cardinality(Guessing(i)') <= MaxFailures + Cardinality(Worker)
  BY DEF CountedFor
<1>3. Guessing(i)' \subseteq Guessing(i) => Cardinality(Guessing(i)') <= Cardinality(Guessing(i))
      /\ Cardinality(Guessing(i)') \in Nat /\ Cardinality(Guessing(i)) \in Nat /\ Cardinality(Worker) \in Nat
  BY Sizes
<1> QED BY <1>1, <1>2, <1>3, LockoutAssumption DEF CountedFor

LEMMA IncrementCounts ==
    ASSUME Inv, Counted, NEW w \in Worker, increment(w), renames = 0, NEW i \in Id
    PROVE  CountedFor(i)'
<1>0. /\ req[w].pc = "fail" /\ req[w].id \in Id /\ req[w] \in Request /\ req[w].stamp <= clock
      /\ bucket \in [Id -> Row \cup {None}] /\ guesses \in [Id -> Nat] /\ clock \in Nat /\ req[w].stamp \in Nat
  BY DEF increment, At, Inv, TypeOK, Formed, Request
<1>1. PICK q \in Request, new \in Row :
         /\ Goes(w, q)
         /\ q = Idle \/ q = [req[w] EXCEPT !.pc = "alarm"]
         /\ bucket' = [bucket EXCEPT ![req[w].id] = new]
         /\ IF Active(bucket[req[w].id], req[w].stamp)
            THEN new.count = bucket[req[w].id].count + 1 /\ new.start = bucket[req[w].id].start
            ELSE new.count = 1
  BY IncrementIs
<1>2. q.pc \in {"idle", "alarm"}
  BY <1>0, <1>1, IdleFormed DEF Request
<1>3. \A j : Guessing(j)' \subseteq Guessing(j) \ {w}
  BY <1>1, <1>2 DEF Guessing, Guess, Goes, Alike
<1>4. clock' = clock /\ CountedFor(i)
  BY DEF increment, Counted
<1>5. CASE i # req[w].id
  <2>1. bucket'[i] = bucket[i] /\ guesses'[i] = guesses[i]
    BY <1>0, <1>1, <1>5 DEF increment
  <2> QED BY <1>3, <1>4, <2>1, NoMoreGuesses
<1>6. CASE i = req[w].id
  <2>1. PICK tried \in {0, 1} : tried = IF req[w].guess THEN 1 ELSE 0
    OBVIOUS
  <2>2. guesses'[i] = IF ~Active(bucket[i], req[w].stamp) THEN tried ELSE guesses[i] + tried
    BY <1>0, <1>6, <2>1 DEF increment
  <2>3. bucket'[i] = new
    BY <1>0, <1>1, <1>6
  <2>4. SUFFICES ASSUME Active(new, clock)
                 PROVE  /\ guesses'[i] <= new.count
                        /\ new.count > MaxFailures =>
                             guesses'[i] + Cardinality(Guessing(i)') <= MaxFailures + Cardinality(Worker)
    BY <1>4, <2>3 DEF CountedFor
  <2>5. CASE ~Active(bucket[i], req[w].stamp)
    BY <1>1, <1>6, <2>1, <2>2, <2>5, LockoutAssumption DEF Row
  <2>6. CASE Active(bucket[i], req[w].stamp)
    <3>1. bucket[i] \in Row /\ new.count = bucket[i].count + 1 /\ new.start = bucket[i].start
      BY <1>0, <1>1, <1>6, <2>6 DEF Active
    <3>2. Active(bucket[i], clock)
      BY <2>4, <2>6, <3>1 DEF Active
    <3>3. guesses[i] \in Nat /\ bucket[i].count \in Nat /\ guesses[i] <= bucket[i].count
      BY <1>0, <1>4, <3>1, <3>2 DEF CountedFor, Row
    <3>4. guesses'[i] = guesses[i] + tried
      BY <2>2, <2>6
    <3>5. ASSUME new.count > MaxFailures
          PROVE  guesses'[i] + Cardinality(Guessing(i)') <= MaxFailures + Cardinality(Worker)
      <4>0. /\ Cardinality(Guessing(i)') \in Nat /\ Cardinality(Guessing(i)) \in Nat /\ Cardinality(Worker) \in Nat
            /\ Cardinality(Guessing(i)') < Cardinality(Worker) /\ MaxFailures \in Nat
        BY <1>3, Sizes, LockoutAssumption
      <4>1. CASE bucket[i].count > MaxFailures
        <5>1. guesses[i] + Cardinality(Guessing(i)) <= MaxFailures + Cardinality(Worker)
          BY <1>4, <3>2, <4>1 DEF CountedFor
        <5>2. CASE req[w].guess
          <6>1. w \in Guessing(i)
            BY <1>0, <1>6, <5>2 DEF Guessing, Guess
          <6>2. Cardinality(Guessing(i)') < Cardinality(Guessing(i)) /\ tried = 1
            BY <1>3, <2>1, <5>2, <6>1, Sizes
          <6> QED BY <3>3, <3>4, <4>0, <5>1, <6>2
        <5>3. CASE ~req[w].guess
          <6>1. Cardinality(Guessing(i)') <= Cardinality(Guessing(i)) /\ tried = 0
            BY <1>3, <2>1, <5>3, Sizes
          <6> QED BY <3>3, <3>4, <4>0, <5>1, <6>1
        <5> QED BY <5>2, <5>3
      <4>2. CASE ~(bucket[i].count > MaxFailures)
        BY <2>1, <3>3, <3>4, <4>0, <4>2
      <4> QED BY <4>1, <4>2
    <3>6. guesses'[i] <= new.count
      BY <2>1, <3>1, <3>3, <3>4
    <3> QED BY <3>5, <3>6
  <2> QED BY <2>5, <2>6
<1> QED BY <1>5, <1>6

LEMMA SignInCounts ==
    ASSUME Inv, Counted, NEW w \in Worker, SignInSteps(w), renames = 0, NEW i \in Id
    PROVE  CountedFor(i)'
<1>0. req[w] \in Request /\ req \in [Worker -> Request] /\ CountedFor(i)
  BY DEF Inv, TypeOK, Counted
<1>1. UNCHANGED <<bucket, clock, guesses>>
  BY DEF SignInSteps, SignInStart, OtpMiss, Recover, check_locked, PasswordWrong, PasswordRight, Alarm, RenameAnswer
<1>2. \A v \in Worker \ {w} : req'[v] = req[v]
  BY <1>0 DEF SignInSteps, SignInStart, OtpMiss, Recover, check_locked, PasswordWrong, PasswordRight, Alarm,
         RenameAnswer, Goto
<1>3. Guess(req'[w], i) => Guess(req[w], i) \/ (~Locked(bucket[i]))
  <2>1. CASE Alarm(w) \/ RenameAnswer(w)
    BY <1>0, <2>1, IdleFormed DEF Alarm, RenameAnswer, Guess
  <2>2. CASE check_locked(w)
    <3>1. CASE Locked(bucket[req[w].id])
      <4>1. req'[w] = Idle
        BY <1>0, <2>2, <3>1 DEF check_locked
      <4> QED BY <4>1, IdleFormed DEF Guess
    <3>2. CASE ~Locked(bucket[req[w].id])
      <4>1. PICK q : q = [req[w] EXCEPT !.pc = "verify"]
        OBVIOUS
      <4>2. req'[w] = q
        BY <1>0, <2>2, <3>2, <4>1 DEF check_locked
      <4>3. q.id = req[w].id
        BY <1>0, <4>1 DEF Request
      <4> QED BY <3>2, <4>2, <4>3 DEF Guess
    <3> QED BY <3>1, <3>2
  <2>3. CASE PasswordWrong(w) \/ PasswordRight(w)
    <3>1. PICK q : /\ q = [req[w] EXCEPT !.pc = "fail", !.stamp = clock] \/ q = [req[w] EXCEPT !.pc = "reset"]
                   /\ req' = [req EXCEPT ![w] = q]
      BY <2>3 DEF PasswordWrong, PasswordRight, Goto
    <3>2. q.id = req[w].id /\ q.guess = req[w].guess
      BY <1>0, <3>1 DEF Request
    <3>3. req[w].pc = "verify" /\ req'[w] = q
      BY <1>0, <2>3, <3>1 DEF PasswordWrong, PasswordRight, At
    <3> QED BY <3>2, <3>3 DEF Guess
  <2>4. ASSUME NEW j \in Id, SignInStart(w, j) \/ OtpMiss(w, j) \/ Recover(w, j)
        PROVE  ~Guess(req'[w], i)
    <3>1. PICK q : /\ \/ q = [Idle EXCEPT !.pc = "check", !.id = j, !.guess = TRUE]
                      \/ q = [Idle EXCEPT !.pc = "fail", !.id = j, !.stamp = clock]
                      \/ q = [Idle EXCEPT !.pc = "reset", !.id = j]
                   /\ req' = [req EXCEPT ![w] = q]
      BY <2>4 DEF SignInStart, OtpMiss, Recover
    <3>2. q.pc \in {"check", "reset"} \/ ~q.guess
      BY <3>1 DEF Idle
    <3>3. req'[w] = q
      BY <1>0, <3>1
    <3> QED BY <3>2, <3>3 DEF Guess
  <2> QED BY <2>1, <2>2, <2>3, <2>4 DEF SignInSteps
<1>4. Active(bucket[i], clock) /\ bucket[i].count > MaxFailures => Locked(bucket[i])
  BY DEF Active, Locked
<1>5. Active(bucket[i], clock) /\ bucket[i].count > MaxFailures => Guessing(i)' \subseteq Guessing(i)
  BY <1>2, <1>3, <1>4 DEF Guessing
<1> QED BY <1>0, <1>1, <1>5, NoMoreGuesses

LEMMA CountedInit == Init => Counted
BY NoneAssumption DEF Init, Counted, CountedFor, Active

LEMMA CountedNext == Inv /\ Counted /\ [Next]_vars => Counted'
<1> SUFFICES ASSUME Inv, Counted, [Next]_vars, renames' = 0, NEW i \in Id
             PROVE  CountedFor(i)'
  BY DEF Counted
<1>1. CASE Tick /\ store' = store
  <2>1. UNCHANGED <<bucket, req, renames, guesses>> /\ clock' = clock + 1 /\ clock \in Nat /\ bucket[i] \in Row \cup {None}
    BY <1>1 DEF Tick, Inv, TypeOK
  <2>2. Active(bucket'[i], clock') => Active(bucket[i], clock)
    BY <2>1, LockoutAssumption DEF Active, Row
  <2>3. Guessing(i)' = Guessing(i)
    BY <2>1 DEF Guessing
  <2> QED BY <2>1, <2>2, <2>3, NoMoreGuesses DEF Counted
<1>2. CASE UNCHANGED vars
  BY <1>2 DEF vars, Counted, CountedFor, Guessing
<1>3. ASSUME NEW w \in Worker, reset(w) PROVE CountedFor(i)'
  <2>1. Goes(w, Idle) /\ bucket' = [bucket EXCEPT ![req[w].id] = None]
    BY <1>3, ResetIs
  <2>2. \A j : Guessing(j)' \subseteq Guessing(j)
    BY <2>1, IdleFormed DEF Guessing, Guess, Goes, Alike
  <2>3. renames = 0 /\ clock' = clock /\ guesses' = [guesses EXCEPT ![req[w].id] = 0]
    BY <1>3 DEF reset
  <2>4. CASE i = req[w].id
    BY <2>1, <2>4 DEF CountedFor, Active, Inv, TypeOK
  <2>5. CASE i # req[w].id
    BY <2>1, <2>2, <2>3, <2>5, NoMoreGuesses DEF Counted, Inv, TypeOK
  <2> QED BY <2>4, <2>5
<1>4. ASSUME NEW w \in Worker, PrepareSteps(w) \/ MoveSteps(w) PROVE FALSE
  <2>1. req[w].pc \in RenamePC => renames \in Nat /\ renames > 0
    BY DEF Inv, Formed, TypeOK
  <2>2. CASE \E j \in Id : RenameStart(w, j)
    BY <2>2 DEF RenameStart, Inv, TypeOK
  <2>3. CASE ~ \E j \in Id : RenameStart(w, j)
    BY <1>4, <2>1, <2>3 DEF PrepareSteps, MoveSteps, update_user, rekey, RekeyLock, RekeyRead, RekeyAtOnce,
         RekeyCommit, RekeyMerge, RekeyDropEmpty, RekeyDrop, At, RenamePC
  <2> QED BY <2>2, <2>3
<1>5. ASSUME NEW w \in Worker, SignInSteps(w) \/ increment(w) PROVE CountedFor(i)'
  <2>1. renames' = renames
    BY <1>5 DEF SignInSteps, SignInStart, OtpMiss, Recover, check_locked, PasswordWrong, PasswordRight, Alarm,
         RenameAnswer, increment
  <2> QED BY <1>5, <2>1, SignInCounts, IncrementCounts
<1> QED BY <1>1, <1>2, <1>3, <1>4, <1>5, Cases

------------------------------------------------------------------------------
(* Failures.                                                               *)

(* MongoDB's loop of one rename can lose the failures of another that is   *)
(* under way: a name that moves on while its counter is being merged into. *)
OneRenamer == "mongo" \in Stores => \A v, w \in Renamer : v = w

Moving == \A w \in Worker : Carrying(req[w])

LEMMA StricterStill ==
    ASSUME NEW b \in Row \cup {None}, NEW c \in Row \cup {None}, NEW d \in Row, AtLeast(b, c), AtLeast(c, d)
    PROVE  AtLeast(b, d)
BY NoneAssumption DEF AtLeast, Stricter, Row

LEMMA MovingInit == Init => Moving
BY IdleFormed DEF Init, Moving, Carrying

(* What others do to the counter that a rename has merged.                 *)
LEMMA MovingOthers ==
    ASSUME Inv, OneRenamer, NEW v \in Worker, Carrying(req[v]), req[v].pc \in {"empty", "drop"},
           NEW w \in Worker \ {v}, store' = store,
           SignInSteps(w) \/ increment(w) \/ reset(w) \/ PrepareSteps(w) \/ MoveSteps(w)
    PROVE  Carrying(req[v])'
<1>0. /\ req[v] \in Request /\ req \in [Worker -> Request] /\ req[v].source \in Row \cup {None} /\ req[v].to \in Id
      /\ bucket \in [Id -> Row \cup {None}]
  BY RenamerIs DEF MovePC
<1>1. ~PrepareSteps(w) /\ ~MoveSteps(w)
  <2>1. v \in Renamer /\ store \in Stores /\ store = "mongo"
    BY DEF Inv, RenamePC, Formed, TypeOK
  <2>2. w \notin Renamer
    BY <2>1 DEF OneRenamer
  <2>3. req[w].pc \notin RenamePC
    BY <2>2 DEF Inv
  <2> QED BY <2>2, <2>3 DEF PrepareSteps, MoveSteps, RenameStart, update_user, rekey, RekeyLock, RekeyRead,
             RekeyAtOnce, RekeyCommit, RekeyMerge, RekeyDropEmpty, RekeyDrop, At, RenamePC
<1>2. CASE SignInSteps(w)
  <2>1. UNCHANGED <<bucket, clock>> /\ req'[v] = req[v]
    BY <1>0, <1>2 DEF SignInSteps, SignInStart, OtpMiss, Recover, check_locked, PasswordWrong, PasswordRight,
         Alarm, RenameAnswer, Goto
  <2> QED BY <2>1 DEF Carrying
<1>3. CASE increment(w) \/ reset(w)
  <2>1. PICK i \in Id : i = req[w].id
    BY <1>3 DEF increment, reset, At, Inv, Formed
  <2>2. clock' = clock
    BY <1>3 DEF increment, reset
  <2>3. /\ Alike(req'[v], req[v])
        /\ \/ bucket'[req[v].to] = bucket[req[v].to]
           \/ req'[v].cleared
           \/ req[v].to = i /\ bucket'[i] \in Row /\ bucket[i] \in Row /\ AtLeast(bucket'[i], bucket[i])
    <3>1. CASE reset(w)
      <4>1. /\ Goes(w, Idle) /\ bucket' = [bucket EXCEPT ![i] = None]
            /\ req'[v].to = i => req'[v].cleared
        BY <2>1, <3>1, ResetIs
      <4> QED BY <1>0, <4>1 DEF Goes, Alike
    <3>2. CASE increment(w)
      <4>1. PICK q \in Request, new \in Row :
             /\ Goes(w, q)
             /\ bucket' = [bucket EXCEPT ![i] = new]
             /\ IF Active(bucket[i], req[w].stamp) THEN AtLeast(new, bucket[i])
                ELSE req'[v].to = i => req'[v].cleared
        BY <2>1, <3>2, IncrementIs
      <4> QED BY <1>0, <2>1, <4>1 DEF Goes, Alike, Active
    <3> QED BY <1>3, <3>1, <3>2
  <2>4. CASE req[v].pc = "empty"
    BY <2>2, <2>3, <2>4 DEF Carrying, Alike
  <2>5. CASE req[v].pc = "drop"
    <3> SUFFICES ASSUME ~req'[v].cleared, Active(req[v].source, clock)
                 PROVE  AtLeast(bucket'[req[v].to], req[v].source)
      BY <2>2, <2>3, <2>5 DEF Carrying, Alike
    <3>1. AtLeast(bucket[req[v].to], req[v].source) /\ req[v].source \in Row
      BY <1>0, <2>3, <2>5 DEF Carrying, Alike, Active
    <3> QED BY <1>0, <2>3, <3>1, StricterStill
  <2> QED BY <2>4, <2>5
<1> QED BY <1>1, <1>2, <1>3

LEMMA MovingNext == OneRenamer /\ Inv /\ Moving /\ [Next]_vars => Moving'
<1> SUFFICES ASSUME OneRenamer, Inv, Moving, [Next]_vars, NEW v \in Worker PROVE Carrying(req[v])'
  BY DEF Moving
<1>1. CASE Tick /\ store' = store
  <2>1. UNCHANGED <<bucket, req>> /\ clock' = clock + 1 /\ clock \in Nat /\ req[v].source \in Row \cup {None}
    BY <1>1 DEF Tick, Inv, TypeOK, Request
  <2>2. Active(req[v].source, clock') => Active(req[v].source, clock)
    BY <2>1, LockoutAssumption DEF Active, Row
  <2> QED BY <2>1, <2>2 DEF Moving, Carrying
<1>2. CASE UNCHANGED vars
  BY <1>2 DEF vars, Moving, Carrying
<1>3. ASSUME NEW w \in Worker, store' = store, w # v,
             SignInSteps(w) \/ increment(w) \/ reset(w) \/ PrepareSteps(w) \/ MoveSteps(w)
      PROVE  Carrying(req[v])'
  <2>1. CASE req[v].pc \in {"empty", "drop"}
    BY <1>3, <2>1, MovingOthers DEF Moving
  <2>2. CASE req[v].pc \notin {"empty", "drop"}
    <3>1. PICK q : Contract(w, q)
      BY <1>3, OneContract
    <3>2. req'[v].pc = req[v].pc
      BY <1>3, <3>1 DEF Contract, Goes, Alike
    <3> QED BY <2>2, <3>2 DEF Carrying
  <2> QED BY <2>1, <2>2
<1>4. ASSUME store' = store, SignInSteps(v) \/ increment(v) \/ reset(v) \/ PrepareSteps(v) \/ MoveSteps(v)
      PROVE  Carrying(req[v])'
  <2>1. CASE ~MoveSteps(v)
    <3>1. PICK q : Contract(v, q)
      BY <1>4, OneContract
    <3>2. req'[v].pc \notin {"empty", "drop"}
      BY <2>1, <3>1 DEF Contract, Goes
    <3> QED BY <3>2 DEF Carrying
  <2>2. CASE RekeyAtOnce(v) \/ RekeyCommit(v)
    <3>1. PICK q : q = [req[v] EXCEPT !.pc = "renamed"]
      OBVIOUS
    <3>2. Moves(v, q) /\ req[v] \in Request
      BY <2>2, <3>1, AtOnceMoves, CommitMoves DEF Moved, Inv, TypeOK
    <3>3. req'[v].pc = "renamed"
      BY <3>1, <3>2 DEF Moves, Goes, Request
    <3> QED BY <3>3 DEF Carrying
  <2>3. CASE RekeyMerge(v)
    <3>1. PICK q : /\ Moved(v, q)
                   /\ q.pc = "empty" => ~Active(q.source, clock)
                   /\ q.pc = "drop" /\ Active(q.source, clock) => AtLeast(bucket'[q.to], q.source)
      BY <2>3, MergeMoves
    <3>2. req'[v] = q /\ clock' = clock
      BY <3>1 DEF Moved, Moves, Goes
    <3> QED BY <3>1, <3>2 DEF Carrying
  <2>4. CASE RekeyDropEmpty(v)
    <3>1. PICK q : Moved(v, q) /\ q.pc \in {"renamed", "drop"} /\ ~Active(q.source, clock)
      BY <2>4, EmptyMoves DEF Moving
    <3>2. req'[v] = q /\ clock' = clock
      BY <3>1 DEF Moved, Moves, Goes
    <3> QED BY <3>1, <3>2 DEF Carrying
  <2>5. CASE RekeyDrop(v)
    <3>1. PICK q : Moved(v, q) /\ q.pc \in {"idle", "read", "renamed"}
      BY <2>5, DropMoves
    <3>2. req'[v] = q
      BY <3>1 DEF Moved, Moves, Goes
    <3> QED BY <3>1, <3>2 DEF Carrying
  <2> QED BY <2>1, <2>2, <2>3, <2>4, <2>5 DEF MoveSteps
<1> QED BY <1>1, <1>2, <1>3, <1>4, Cases

(* What becomes of a counter in a running window.                          *)
LEMMA KeptStep ==
    ASSUME Inv, Moving, Next, NEW i \in Id, Active(bucket[i], clock), ~AtLeast(bucket'[i], bucket[i])
    PROVE  Cleared(i) \/ Carried(i) \/ BornUnlocked(i)
<1>0. bucket'[i] # bucket[i]
  BY AtLeastSame DEF Active
<1>1. ASSUME NEW w \in Worker, MoveSteps(w) PROVE Carried(i) \/ BornUnlocked(i)
  <2>1. ASSUME NEW q, Moved(w, q)
        PROVE  i = req[w].id /\ req'[w] = q /\ q.pc = "renamed" /\ req[w].pc \in {"read", "commit", "drop"}
               /\ req'[w].to = req[w].to
    BY <2>1, IdleFormed DEF Moved, Spares, Moves, Goes
  <2>2. CASE RekeyAtOnce(w)
    <3>1. PICK q : Moved(w, q) /\ (Active(bucket[req[w].id], clock) => AtLeast(bucket'[req[w].to], bucket[req[w].id]))
      BY <2>2, AtOnceMoves
    <3> QED BY <2>1, <3>1 DEF Carried
  <2>3. CASE RekeyCommit(w)
    <3>1. PICK q : /\ Moved(w, q)
                   /\ Active(bucket[req[w].id], clock) /\ req[w].source # None =>
                        AtLeast(bucket'[req[w].to], bucket[req[w].id])
      BY <2>3, CommitMoves
    <3>2. req[w].pc = "commit"
      BY <2>3 DEF RekeyCommit, At
    <3> QED BY <2>1, <3>1, <3>2 DEF Carried, BornUnlocked
  <2>4. CASE RekeyMerge(w)
    <3>1. PICK q : Moved(w, q)
      BY <2>4, MergeMoves
    <3>2. req[w].pc = "merge"
      BY <2>4 DEF RekeyMerge, At
    <3> QED BY <2>1, <3>1, <3>2
  <2>5. CASE RekeyDropEmpty(w)
    <3>1. PICK q : Moved(w, q)
      BY <2>5, EmptyMoves
    <3>2. req[w].pc = "empty"
      BY <2>5 DEF RekeyDropEmpty, At
    <3> QED BY <2>1, <3>1, <3>2
  <2>6. CASE RekeyDrop(w)
    <3>1. PICK q : /\ Moved(w, q)
                   /\ \/ q.pc \in {"idle", "read"}
                      \/ /\ q.pc = "renamed"
                         /\ Active(bucket[req[w].id], clock) /\ ~req[w].cleared =>
                               AtLeast(bucket'[req[w].to], bucket[req[w].id])
      BY <2>6, DropMoves DEF Moving
    <3> QED BY <2>1, <3>1 DEF Carried
  <2> QED BY <1>1, <2>2, <2>3, <2>4, <2>5, <2>6 DEF MoveSteps
<1>2. ASSUME NEW w \in Worker, increment(w) PROVE FALSE
  <2>1. PICK new \in Row :
             /\ bucket' = [bucket EXCEPT ![req[w].id] = new]
             /\ Active(bucket[req[w].id], req[w].stamp) => AtLeast(new, bucket[req[w].id])
    BY <1>2, IncrementIs
  <2>2. i = req[w].id /\ AtLeast(new, bucket[i]) => FALSE
    BY <2>1 DEF Inv, TypeOK
  <2>3. i = req[w].id
    BY <1>0, <2>1 DEF Inv, TypeOK
  <2>4. Active(bucket[i], req[w].stamp)
    BY ActiveEarlier DEF Inv, TypeOK, Formed, Request
  <2> QED BY <2>1, <2>2, <2>3, <2>4
<1>3. ASSUME NEW w \in Worker, reset(w) PROVE Cleared(i)
  <2>1. Goes(w, Idle) /\ bucket' = [bucket EXCEPT ![req[w].id] = None] /\ req[w].pc = "reset"
    BY <1>3, ResetIs DEF reset, At
  <2>2. i = req[w].id
    BY <1>0, <2>1 DEF Inv, TypeOK
  <2> QED BY <2>1, <2>2, IdleFormed DEF Cleared, Goes
<1>4. ASSUME NEW w \in Worker, SignInSteps(w) \/ PrepareSteps(w) PROVE FALSE
  BY <1>0, <1>4 DEF SignInSteps, SignInStart, OtpMiss, Recover, check_locked, PasswordWrong, PasswordRight,
       Alarm, RenameAnswer, PrepareSteps, RenameStart, update_user, rekey, RekeyLock, RekeyRead
<1>5. ~Tick
  BY <1>0 DEF Tick
<1>6. ~UNCHANGED vars
  BY <1>0 DEF vars
<1> QED BY <1>1, <1>2, <1>3, <1>4, <1>5, <1>6, Cases

------------------------------------------------------------------------------
(* The results.                                                            *)

(* The rows and the requests keep their types.                             *)
THEOREM TypeCorrect == Spec => []TypeOK
<1>1. Inv => TypeOK
  BY DEF Inv
<1> QED BY <1>1, InvInit, InvNext, PTL DEF Spec

(* A window sees at most MaxFailures wrong passwords and one per request   *)
(* that can be in flight, however many requests pass the check of          *)
(* assert_not_locked while others are being verified.                      *)
THEOREM GuessesAreBounded == Spec => []GuessesPerWindow
<1>1. Inv /\ Counted => GuessesPerWindow
  <2> SUFFICES ASSUME Inv, Counted, NEW i \in Id, renames = 0, Active(bucket[i], clock)
               PROVE  guesses[i] <= MaxFailures + Cardinality(Worker)
    BY DEF GuessesPerWindow
  <2>1. CountedFor(i) /\ guesses[i] \in Nat /\ bucket[i] \in Row
    BY DEF Counted, Inv, TypeOK, Active
  <2>2. Cardinality(Worker) \in Nat /\ Cardinality(Guessing(i)) \in Nat
    BY Sizes
  <2> QED BY <2>1, <2>2, LockoutAssumption DEF CountedFor, Row
<1> QED BY <1>1, InvInit, InvNext, CountedInit, CountedNext, PTL DEF Spec

(* No failure of a running window is forgotten: in memory and in           *)
(* PostgreSQL whatever renames run at once, in MongoDB while one request   *)
(* at a time renames (rekey_failure_counter).                              *)
THEOREM FailuresSurvive == OneRenamer /\ Spec => ExistingFailuresAreKept
<1> SUFFICES ASSUME OneRenamer PROVE Spec => ExistingFailuresAreKept
  OBVIOUS
<1>1. Inv /\ Moving /\ [Next]_vars => Moving'
  BY MovingNext
<1>2. Inv /\ Moving /\ [Next]_vars =>
        [\A i \in Id : Active(bucket[i], clock) /\ ~AtLeast(bucket'[i], bucket[i]) =>
             Cleared(i) \/ Carried(i) \/ BornUnlocked(i)]_vars
  BY KeptStep
<1> QED BY <1>1, <1>2, InvInit, InvNext, MovingInit, PTL DEF Spec, ExistingFailuresAreKept
=============================================================================
