------------------------------ MODULE Challenge ------------------------------
(***************************************************************************)
(* The verification row of one (identifier, purpose) pair: a reset link, a *)
(* one-time code, a confirmation of an address or of a deletion.  Issuing  *)
(* replaces the row; an attempt compares the presented value with it,      *)
(* counts misses, and consumes it; the flow acts on an accepted value in a *)
(* later step.  Requests of both kinds interleave and may die in between.  *)
(*                                                                         *)
(* The in-memory and PostgreSQL stores run apply_verification_attempt      *)
(* under a lock; MongoDB runs an update pipeline that must change the row  *)
(* the same way, and applies the Python function to the row it replaced.   *)
(***************************************************************************)
EXTENDS Naturals

CONSTANTS
    Worker,         \* requests in flight
    Code,           \* values that may be generated or guessed
    MaxAttempts,    \* misses that burn a one-time code
    Limited,        \* FALSE for opaque links: no attempt limit
    Lifetime,       \* expires_in, in ticks
    MaxClock,       \* bound on the clock
    MaxIssues,      \* bound on the rows issued
    MaxMisses,      \* bound on the misses of a row without a limit
    Mongo,          \* which store
    None

ASSUME ChallengeAssumption ==
    /\ MaxAttempts \in Nat \ {0} /\ Limited \in BOOLEAN /\ Mongo \in BOOLEAN
    /\ Lifetime \in Nat \ {0} /\ MaxClock \in Nat /\ MaxIssues \in Nat /\ MaxMisses \in Nat
    /\ None \notin Code

Issue == 1 .. MaxIssues
Row == [id : Issue, code : Code, attempts : Nat, expires : Nat, consumed : BOOLEAN]

ASSUME NoneAssumption == None \notin Row

VARIABLES
    row,        \* the stored row, or None
    issued,     \* how many rows were issued
    clock,
    req,        \* the requests in flight
    \* history, per issue: misses counted, values accepted by a check or a
    \* consuming attempt, effects of flows
    misses, effects, accepted

vars == <<row, issued, clock, req, misses, effects, accepted>>

Request == [pc : {"idle", "issue", "attempt", "effect"},
            code : Code \cup {None},
            stamp : Nat,                \* datetime.now when the request read it
            consume : BOOLEAN,
            id : Issue \cup {0}]        \* the issue the attempt was accepted for

Idle == [pc |-> "idle", code |-> None, stamp |-> 0, consume |-> FALSE, id |-> 0]

TypeOK ==
    /\ row \in Row \cup {None}
    /\ issued \in 0 .. MaxIssues
    /\ clock \in Nat
    /\ req \in [Worker -> Request]
    /\ misses \in [Issue -> Nat] /\ effects \in [Issue -> Nat]
    /\ accepted \in [Issue -> SUBSET Nat]

Init ==
    /\ row = None /\ issued = 0 /\ clock = 0
    /\ req = [w \in Worker |-> Idle]
    /\ misses = [n \in Issue |-> 0] /\ effects = [n \in Issue |-> 0]
    /\ accepted = [n \in Issue |-> {}]
------------------------------------------------------------------------------
(* apply_verification_attempt on a row that is stored.                     *)
Spent(r) == Limited /\ r.attempts >= MaxAttempts

Status(r, code, now) ==
    CASE r.consumed                                  -> "absent"
      [] ~r.consumed /\ r.expires <= now             -> "expired"
      [] ~r.consumed /\ r.expires > now /\ Spent(r)  -> "exhausted"
      [] OTHER -> IF r.code = code THEN "accepted" ELSE "miss"

Marked(r, count, used) == [r EXCEPT !.attempts = count, !.consumed = used]

Applied(r, code, now, consume) ==
    LET s == Status(r, code, now)
        count == r.attempts + 1
    IN  CASE s = "absent"    -> r
          [] s = "expired"   -> Marked(r, r.attempts, TRUE)
          [] s = "exhausted" -> Marked(r, r.attempts, TRUE)
          [] s = "accepted"  -> Marked(r, r.attempts, consume)
          [] s = "miss"      -> Marked(r, count, Limited /\ count >= MaxAttempts)

(* The update pipeline of the Beanie adapter, with its terminal conditions *)
(* as the code lists them, on a row selected by consumed_at = null.        *)
Piped_AnyRow(r, code, now, consume) ==
    LET live == r.expires > now /\ ~Spent(r)
        matches == r.code = code
        count == IF live /\ ~matches THEN r.attempts + 1 ELSE r.attempts
        used == ~live \/ (consume /\ live /\ matches) \/ (Limited /\ count >= MaxAttempts)
    IN  Marked(r, count, used)

Piped_ChecksAreFree(r, code, now, consume) ==
    LET live == r.expires > now /\ ~Spent(r)
        matches == r.code = code
        count == IF consume /\ live /\ ~matches THEN r.attempts + 1 ELSE r.attempts
        used == ~live \/ (consume /\ live /\ matches) \/ (Limited /\ count >= MaxAttempts)
    IN  IF r.consumed THEN r ELSE Marked(r, count, used)

Piped(r, code, now, consume) ==
    LET live == r.expires > now /\ ~Spent(r)
        matches == r.code = code
        count == IF live /\ ~matches THEN r.attempts + 1 ELSE r.attempts
        used == ~live \/ (consume /\ live /\ matches) \/ (Limited /\ count >= MaxAttempts)
    IN  IF r.consumed THEN r ELSE Marked(r, count, used)
------------------------------------------------------------------------------
At(w, p) == req[w].pc = p

(* Issue a value: generate it, store it in place of the row there was.     *)
IssueStart(w, c) ==
    /\ At(w, "idle")
    /\ req' = [req EXCEPT ![w] = [Idle EXCEPT !.pc = "issue", !.code = c, !.stamp = clock]]
    /\ UNCHANGED <<row, issued, clock, misses, effects, accepted>>

FreshRow_InThePast(c, at) ==
    [id |-> issued + 1, code |-> c, attempts |-> 0, expires |-> at - Lifetime, consumed |-> FALSE]

FreshRow(c, at) ==
    [id |-> issued + 1, code |-> c, attempts |-> 0, expires |-> at + Lifetime, consumed |-> FALSE]

create_verification(w) ==
    /\ At(w, "issue")
    /\ issued < MaxIssues
    /\ row' = FreshRow(req[w].code, req[w].stamp)
    /\ issued' = issued + 1
    /\ req' = [req EXCEPT ![w] = Idle]
    /\ UNCHANGED <<clock, misses, effects, accepted>>

(* consume_token, consume_otp, and check_otp, which does not consume.      *)
AttemptStart(w, c, consume) ==
    /\ At(w, "idle")
    /\ Limited \/ (consume /\ (row # None => row.attempts < MaxMisses))
    /\ req' = [req EXCEPT ![w] = [Idle EXCEPT !.pc = "attempt", !.code = c, !.stamp = clock,
                                              !.consume = consume]]
    /\ UNCHANGED <<row, issued, clock, misses, effects, accepted>>

attempt_verification(w) ==
    LET r == req[w]
        s == Status(row, r.code, r.stamp)
    IN  /\ At(w, "attempt")
        /\ IF row = None
           THEN /\ req' = [req EXCEPT ![w] = Idle]
                /\ UNCHANGED <<row, misses, accepted>>
           ELSE /\ row' = IF Mongo THEN Piped(row, r.code, r.stamp, r.consume)
                          ELSE Applied(row, r.code, r.stamp, r.consume)
                /\ misses' = IF s = "miss" THEN [misses EXCEPT ![row.id] = @ + 1] ELSE misses
                /\ accepted' = IF s = "accepted"
                               THEN [accepted EXCEPT ![row.id] = @ \cup {r.stamp}]
                               ELSE accepted
                /\ req' = [req EXCEPT ![w] = IF s = "accepted" /\ r.consume
                                             THEN [Idle EXCEPT !.pc = "effect", !.id = row.id]
                                             ELSE Idle]
        /\ UNCHANGED <<issued, clock, effects>>

(* The flow goes on with what the value authorised.                        *)
Effect(w) ==
    /\ At(w, "effect")
    /\ effects' = [effects EXCEPT ![req[w].id] = @ + 1]
    /\ req' = [req EXCEPT ![w] = Idle]
    /\ UNCHANGED <<row, issued, clock, misses, accepted>>

Crash(w) ==
    /\ ~At(w, "idle")
    /\ req' = [req EXCEPT ![w] = Idle]
    /\ UNCHANGED <<row, issued, clock, misses, effects, accepted>>

(* Maintenance, the TTL index and the deletion of the user remove the row. *)
Remove ==
    /\ row # None
    /\ row' = None
    /\ UNCHANGED <<issued, clock, req, misses, effects, accepted>>

Tick ==
    /\ clock < MaxClock
    /\ clock' = clock + 1
    /\ UNCHANGED <<row, issued, req, misses, effects, accepted>>

Next ==
    \/ \E w \in Worker :
          \/ \E c \in Code : IssueStart(w, c)
          \/ \E c \in Code, consume \in BOOLEAN : AttemptStart(w, c, consume)
          \/ create_verification(w) \/ attempt_verification(w) \/ Effect(w) \/ Crash(w)
    \/ Remove
    \/ Tick

Spec == Init /\ [][Next]_vars
------------------------------------------------------------------------------
(* What an issued value authorises happens at most once, whichever         *)
(* requests present it at the same time.                                   *)
EffectOnce == \A n \in Issue : effects[n] <= 1

(* An issued code is guessed wrong at most MaxAttempts times, counting the *)
(* checks that do not consume, and is accepted by nothing afterwards.      *)
GuessesAreBounded ==
    Limited => /\ \A n \in Issue : misses[n] <= MaxAttempts
               /\ row # None /\ misses[row.id] = MaxAttempts => row.consumed

(* No value is accepted by a request that came at or after its expiry.     *)
AcceptedInTime ==
    row # None => \A t \in accepted[row.id] : t < row.expires

(* Both: a code works once, and not after its time.                        *)
WorksOnceInTime == EffectOnce /\ AcceptedInTime

(* MongoDB's pipeline changes a stored row exactly as the function the     *)
(* other stores run, so that its answer, computed from the replaced row,   *)
(* is the truth about the new one.                                         *)
PipelineAgrees ==
    row # None =>
        \A c \in Code, now \in 0 .. MaxClock, consume \in BOOLEAN :
            Piped(row, c, now, consume) = Applied(row, c, now, consume)

(* A row that was consumed, by success, expiry or too many misses, is      *)
(* never open again: only a new issue opens one.                           *)
ConsumedIsFinal ==
    [][row # None /\ row.consumed /\ row' # None /\ row'.id = row.id => row'.consumed]_vars
==============================================================================
