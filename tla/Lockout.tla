------------------------------- MODULE Lockout -------------------------------
(***************************************************************************)
(* Failure counters of sign-in identifiers.  A sign-in checks the counter, *)
(* verifies the password without holding anything, and then counts the     *)
(* failure or clears the counter.  Renaming a user writes the new name and *)
(* then moves the counter: in one step in memory, in one transaction in    *)
(* PostgreSQL, and in MongoDB by a loop of single-document updates that    *)
(* re-reads until the row it copied is the row it removes.                 *)
(***************************************************************************)
EXTENDS Integers, FiniteSets

CONSTANTS
    Worker,         \* requests in flight
    Renamer,        \* the workers that may rename the user
    Id,             \* sign-in identifiers
    First,          \* the user's name at the start
    MaxFailures,
    Window,         \* window_seconds, in ticks
    Passes,         \* passes of MongoDB's loop (8 in the code)
    Stores,         \* the stores to look at, out of "memory", "postgres", "mongo"
    MaxClock,       \* bound on the clock
    MaxCount,       \* bound on the count at which unchecked failures stop
    MaxRenames,     \* bound on renames
    None

ASSUME LockoutAssumption ==
    /\ IsFiniteSet(Worker)
    /\ Renamer \subseteq Worker /\ First \in Id
    /\ MaxFailures \in Nat \ {0} /\ Window \in Nat \ {0} /\ Passes \in Nat \ {0}
    /\ Stores \subseteq {"memory", "postgres", "mongo"}

VARIABLES
    store,      \* the store of this behaviour
    bucket,     \* identifier -> its row, or None
    name,       \* the user's stored name
    clock,
    req,        \* the requests in flight
    renames,    \* how many renames were started
    guesses     \* history, until the first rename: wrong passwords counted in
                \* the identifier's window

vars == <<store, bucket, name, clock, req, renames, guesses>>

Row == [count : Nat, start : Int]

Request == [pc : {"idle", "check", "verify", "fail", "alarm", "reset", "write", "rekey",
                  "read", "merge", "empty", "drop", "commit", "renamed"},
            id : Id \cup {None},        \* identifier of a sign-in; source of a rename
            to : Id \cup {None},
            stamp : Nat,                \* now_ms when the request read it
            guess : BOOLEAN,            \* a password was tried (not a one-time code)
            source : Row \cup {None},   \* the row the rename read
            same : BOOLEAN,             \* that row, by _id, still exists
            pass : 0 .. Passes - 1,
            was : Row \cup {None},      \* history: the row when the name changed
            cleared : BOOLEAN]          \* history: either name was reset since, or the
                                        \* window of the new name ran out and restarted

ASSUME NoneAssumption == None \notin Id /\ None \notin Row

Idle == [pc |-> "idle", id |-> None, to |-> None, stamp |-> 0, guess |-> FALSE,
         source |-> None, same |-> FALSE, pass |-> 0, was |-> None, cleared |-> FALSE]

TypeOK ==
    /\ store \in Stores
    /\ bucket \in [Id -> Row \cup {None}]
    /\ name \in Id /\ clock \in Nat /\ renames \in Nat
    /\ req \in [Worker -> Request]
    /\ guesses \in [Id -> Nat]

Init ==
    /\ store \in Stores
    /\ bucket = [i \in Id |-> None]
    /\ name = First /\ clock = 0 /\ renames = 0
    /\ req = [w \in Worker |-> Idle]
    /\ guesses = [i \in Id |-> 0]
------------------------------------------------------------------------------
At(w, p) == req[w].pc = p
Goto(w, p) == req' = [req EXCEPT ![w].pc = p]

Active(b, now) == b # None /\ b.start + Window > now
Zero(now) == [count |-> 0, start |-> now - Window]
Effective(b, now) == IF Active(b, now) THEN b ELSE Zero(now)

Stricter(b, c) == b.count > c.count \/ (b.count = c.count /\ b.start > c.start)
AtLeast(b, c) == b # None /\ (b = c \/ Stricter(b, c))

(* PostgreSQL: rows a transaction has written or selected for update.      *)
Held(i) == \E w \in Worker :
    At(w, "commit") /\ (i = req[w].to \/ (i = req[w].id /\ req[w].source # None))

(* A row that is deleted is not the row another request has read.          *)
Gone(r, i) == [r EXCEPT !.same = @ /\ r.id # i]
------------------------------------------------------------------------------
SignInStart(w, i) ==
    /\ At(w, "idle")
    /\ req' = [req EXCEPT ![w] = [Idle EXCEPT !.pc = "check", !.id = i, !.guess = TRUE]]
    /\ UNCHANGED <<bucket, name, clock, renames, guesses>>

Locked_OneMore(b) == b # None /\ b.count > MaxFailures + 1 /\ b.start + Window > clock

Locked(b) == b # None /\ b.count > MaxFailures /\ b.start + Window > clock

check_locked(w) ==
    LET b == bucket[req[w].id]
    IN  /\ At(w, "check")
        /\ req' = [req EXCEPT ![w] =
                      IF Locked(b) THEN Idle ELSE [@ EXCEPT !.pc = "verify"]]
        /\ UNCHANGED <<bucket, name, clock, renames, guesses>>

(* The password executor's answer comes after any number of other steps.   *)
PasswordWrong(w) ==
    /\ At(w, "verify")
    /\ req' = [req EXCEPT ![w] = [@ EXCEPT !.pc = "fail", !.stamp = clock]]
    /\ UNCHANGED <<bucket, name, clock, renames, guesses>>

PasswordRight(w) ==
    /\ At(w, "verify")
    /\ Goto(w, "reset")
    /\ UNCHANGED <<bucket, name, clock, renames, guesses>>

(* A wrong one-time code counts without a check; a recovered or changed    *)
(* password, a changed address and an accepted code clear without one.     *)
OtpMiss(w, i) ==
    /\ At(w, "idle")
    /\ bucket[i] # None => bucket[i].count < MaxCount
    /\ req' = [req EXCEPT ![w] = [Idle EXCEPT !.pc = "fail", !.id = i, !.stamp = clock]]
    /\ UNCHANGED <<bucket, name, clock, renames, guesses>>

Recover(w, i) ==
    /\ At(w, "idle")
    /\ req' = [req EXCEPT ![w] = [Idle EXCEPT !.pc = "reset", !.id = i]]
    /\ UNCHANGED <<bucket, name, clock, renames, guesses>>

increment(w) ==
    LET r == req[w]
        restart == ~Active(bucket[r.id], r.stamp)
        new == IF restart THEN [count |-> 1, start |-> r.stamp]
               ELSE [bucket[r.id] EXCEPT !.count = @ + 1]
        tried == IF r.guess THEN 1 ELSE 0
        told == IF new.count > MaxFailures /\ r.guess
                THEN [r EXCEPT !.pc = "alarm"] ELSE Idle
        Noted(q) == [q EXCEPT !.cleared = @ \/ (restart /\ q.to = r.id)]
    IN  /\ At(w, "fail") /\ ~Held(r.id)
        /\ bucket' = [bucket EXCEPT ![r.id] = new]
        /\ guesses' = IF renames > 0 THEN guesses
                      ELSE [guesses EXCEPT ![r.id] = IF restart THEN tried ELSE @ + tried]
        /\ req' = [v \in Worker |-> IF v = w THEN told ELSE Noted(req[v])]
        /\ UNCHANGED <<name, clock, renames>>

(* AccountLockedOut is published and the sign-in answers 423.              *)
Alarm(w) ==
    /\ At(w, "alarm")
    /\ req' = [req EXCEPT ![w] = Idle]
    /\ UNCHANGED <<bucket, name, clock, renames, guesses>>

reset(w) ==
    LET i == req[w].id
        Noted(r) == [Gone(r, i) EXCEPT !.cleared = @ \/ i \in {r.id, r.to}]
    IN  /\ At(w, "reset")
        /\ bucket[i] # None => ~Held(i)
        /\ bucket' = [bucket EXCEPT ![i] = None]
        /\ guesses' = [guesses EXCEPT ![i] = 0]
        /\ req' = [v \in Worker |-> IF v = w THEN Idle ELSE Noted(req[v])]
        /\ UNCHANGED <<name, clock, renames>>
------------------------------------------------------------------------------
(* update_user: the name is read, then written, then the counter is moved. *)
RenameStart(w, i) ==
    /\ w \in Renamer /\ At(w, "idle")
    /\ i # name /\ renames < MaxRenames
    /\ renames' = renames + 1
    /\ guesses' = [j \in Id |-> 0]
    /\ req' = [req EXCEPT ![w] = [Idle EXCEPT !.pc = "write", !.id = name, !.to = i]]
    /\ UNCHANGED <<bucket, name, clock>>

update_user(w) ==
    /\ At(w, "write")
    /\ name' = req[w].to
    /\ req' = [req EXCEPT ![w] = [@ EXCEPT !.pc = "rekey", !.was = bucket[req[w].id]]]
    /\ UNCHANGED <<bucket, clock, renames, guesses>>

rekey(w) ==
    /\ At(w, "rekey")
    /\ req' = [req EXCEPT ![w] = [@ EXCEPT !.pc = "read", !.stamp = clock]]
    /\ UNCHANGED <<bucket, name, clock, renames, guesses>>

(* The stricter of the active rows, and none if none is active.            *)
Merged(b, c, now) ==
    LET eb == Effective(b, now)
        ec == Effective(c, now)
        best == IF Stricter(eb, ec) THEN eb ELSE ec
    IN  IF Active(b, now) \/ Active(c, now) THEN best ELSE None

RekeyAtOnce(w) ==
    LET r == req[w]
    IN  /\ store = "memory" /\ At(w, "read")
        /\ bucket' = [bucket EXCEPT ![r.to] = Merged(bucket[r.id], bucket[r.to], r.stamp),
                                    ![r.id] = None]
        /\ req' = [v \in Worker |-> IF v = w THEN [r EXCEPT !.pc = "renamed"]
                                    ELSE Gone(req[v], r.id)]
        /\ UNCHANGED <<name, clock, renames, guesses>>

(* PostgreSQL: the rows that exist are locked, then replaced and deleted.  *)
RekeyLock(w) ==
    LET r == req[w]
    IN  /\ store = "postgres" /\ At(w, "read")
        /\ ~Held(r.id) /\ ~Held(r.to)
        /\ req' = [req EXCEPT ![w] = [@ EXCEPT !.pc = "commit", !.source = bucket[r.id]]]
        /\ UNCHANGED <<bucket, name, clock, renames, guesses>>

RekeyCommit(w) ==
    LET r == req[w]
    IN  /\ At(w, "commit")
        /\ bucket' = [bucket EXCEPT ![r.to] = Merged(r.source, bucket[r.to], r.stamp),
                                    ![r.id] = None]
        /\ Goto(w, "renamed")
        /\ UNCHANGED <<name, clock, renames, guesses>>

(* MongoDB: read the source, merge it into the destination, remove an      *)
(* empty destination, remove the source if it is the row that was read.    *)
RekeyRead(w) ==
    /\ store = "mongo" /\ At(w, "read")
    /\ req' = [req EXCEPT ![w] = [@ EXCEPT !.pc = "merge", !.source = bucket[req[w].id],
                                           !.same = TRUE]]
    /\ UNCHANGED <<bucket, name, clock, renames, guesses>>

AfterMerge(r) == IF r.source = None THEN "renamed" ELSE "drop"

MergedRow(r) ==
    LET src == Effective(r.source, r.stamp)
        dst == Effective(bucket[r.to], r.stamp)
    IN  IF Stricter(src, dst) THEN src ELSE dst

RekeyMerge(w) ==
    LET r == req[w]
    IN  /\ At(w, "merge")
        /\ bucket' = [bucket EXCEPT ![r.to] = MergedRow(r)]
        /\ Goto(w, IF MergedRow(r).count = 0 THEN "empty" ELSE AfterMerge(r))
        /\ UNCHANGED <<name, clock, renames, guesses>>

RekeyDropEmpty(w) ==
    LET r == req[w]
        empty == bucket[r.to] = Zero(r.stamp)
    IN  /\ At(w, "empty")
        /\ bucket' = IF empty THEN [bucket EXCEPT ![r.to] = None] ELSE bucket
        /\ req' = [v \in Worker |-> IF v = w THEN [r EXCEPT !.pc = AfterMerge(r)]
                                    ELSE IF empty THEN Gone(req[v], r.to) ELSE req[v]]
        /\ UNCHANGED <<name, clock, renames, guesses>>

Unchanged_ByKey(r) == bucket[r.id] # None

Unchanged(r) == r.same /\ bucket[r.id] = r.source

GiveUp_Late(r) == r.pass = Passes

GiveUp(r) == r.pass + 1 = Passes

RekeyDrop(w) ==
    LET r == req[w]
    IN  /\ At(w, "drop")
        /\ IF Unchanged(r)
           THEN /\ bucket' = [bucket EXCEPT ![r.id] = None]
                /\ req' = [v \in Worker |-> IF v = w THEN [r EXCEPT !.pc = "renamed"]
                                            ELSE Gone(req[v], r.id)]
           ELSE /\ bucket' = bucket
                /\ req' = [req EXCEPT ![w] = IF GiveUp(r) THEN Idle
                                             ELSE [r EXCEPT !.pc = "read", !.pass = r.pass + 1]]
        /\ UNCHANGED <<name, clock, renames, guesses>>

RenameAnswer(w) ==
    /\ At(w, "renamed")
    /\ req' = [req EXCEPT ![w] = Idle]
    /\ UNCHANGED <<bucket, name, clock, renames, guesses>>
------------------------------------------------------------------------------
Tick ==
    /\ clock < MaxClock
    /\ clock' = clock + 1
    /\ UNCHANGED <<bucket, name, req, renames, guesses>>

Next ==
    /\ store' = store
    /\ \/ \E w \in Worker :
             \/ \E i \in Id : SignInStart(w, i) \/ OtpMiss(w, i) \/ Recover(w, i)
                              \/ RenameStart(w, i)
             \/ check_locked(w) \/ PasswordWrong(w) \/ PasswordRight(w)
             \/ increment(w) \/ Alarm(w) \/ reset(w)
             \/ update_user(w) \/ rekey(w) \/ RekeyAtOnce(w) \/ RekeyLock(w)
             \/ RekeyCommit(w) \/ RekeyRead(w) \/ RekeyMerge(w) \/ RekeyDropEmpty(w)
             \/ RekeyDrop(w) \/ RenameAnswer(w)
       \/ Tick

Spec == Init /\ [][Next]_vars
------------------------------------------------------------------------------
(* However many sign-ins pass the check while others are being verified, a *)
(* window sees at most MaxFailures wrong passwords and one per request     *)
(* that can be in flight (until a rename brings in another name's count).  *)
GuessesPerWindow ==
    \A i \in Id : renames = 0 /\ Active(bucket[i], clock) =>
        guesses[i] <= MaxFailures + Cardinality(Worker)

(* No failure of a window that is still running is forgotten: a counter is *)
(* lowered or removed by a reset, or by a rename that leaves a counter at  *)
(* least as strict under the new name (unless its names were reset, or the *)
(* new name's window restarted, in between).                               *)
Carried(i) == \E w \in Worker :
    /\ req[w].pc \in {"read", "commit", "drop"} /\ req'[w].pc = "renamed" /\ req[w].id = i
    /\ req[w].cleared \/ AtLeast(bucket'[req[w].to], bucket[i])

Cleared(i) == \E w \in Worker : req[w].pc = "reset" /\ req[w].id = i /\ req'[w].pc = "idle"

FailuresAreKept ==
    [][\A i \in Id : Active(bucket[i], clock) /\ ~AtLeast(bucket'[i], bucket[i]) =>
          Cleared(i) \/ Carried(i)]_vars

(* The same of all stores but for one case: PostgreSQL keeps the failures  *)
(* that were counted when the transaction took its locks, and loses a row  *)
(* born under the old name after that.                                     *)
BornUnlocked(i) == \E w \in Worker :
    req[w].pc = "commit" /\ req[w].id = i /\ req[w].source = None

ExistingFailuresAreKept ==
    [][\A i \in Id : Active(bucket[i], clock) /\ ~AtLeast(bucket'[i], bucket[i]) =>
          Cleared(i) \/ Carried(i) \/ BornUnlocked(i)]_vars

(* docs/superpowers/specs/2026-07-30-integration-ergonomics-design.md: a   *)
(* username change does not evade an active lockout.  When the rename is   *)
(* answered, the user's name is locked while the old name's lock would     *)
(* have run, unless one of the names was reset.                            *)
LockFollowsName ==
    \A w \in Worker :
        At(w, "renamed") /\ ~req[w].cleared /\ Locked(req[w].was) => Locked(bucket[name])
==============================================================================
