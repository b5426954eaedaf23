--------------------------- MODULE Challenge_proofs ---------------------------
(* Proofs about Challenge, for any number of requests, codes and issues,   *)
(* with and without an attempt limit, on either kind of store.             *)
EXTENDS Challenge, TLAPS

(* On every row, whatever its counters, MongoDB's pipeline and the Python  *)
(* function leave the same row behind.                                     *)
LEMMA SameUpdate ==
    ASSUME NEW r \in Row, NEW c \in Code, NEW now \in Nat, NEW consume \in BOOLEAN
    PROVE  Piped(r, c, now, consume) = Applied(r, c, now, consume)
<1>1. /\ r.attempts \in Nat /\ r.expires \in Nat /\ r.consumed \in BOOLEAN
      /\ MaxAttempts \in Nat /\ Limited \in BOOLEAN
  BY ChallengeAssumption DEF Row
<1>2. CASE r.consumed
  <2>1. Status(r, c, now) = "absent"
    BY <1>2 DEF Status
  <2> QED
    BY <1>2, <2>1 DEF Piped, Applied
<1>3. CASE ~r.consumed /\ r.expires <= now
  <2>1. Status(r, c, now) = "expired"
    BY <1>1, <1>3 DEF Status
  <2>2. Applied(r, c, now, consume) = Marked(r, r.attempts, TRUE)
    BY <2>1 DEF Applied
  <2>3. Piped(r, c, now, consume) = Marked(r, r.attempts, TRUE)
    <3>1. ~(r.expires > now)
      BY <1>1, <1>3
    <3> QED
      BY <1>3, <3>1 DEF Piped
  <2> QED
    BY <2>2, <2>3
<1>4. CASE ~r.consumed /\ r.expires > now /\ Spent(r)
  <2>1. Status(r, c, now) = "exhausted"
    BY <1>1, <1>4 DEF Status
  <2>2. Applied(r, c, now, consume) = Marked(r, r.attempts, TRUE)
    BY <2>1 DEF Applied
  <2>3. Piped(r, c, now, consume) = Marked(r, r.attempts, TRUE)
    BY <1>1, <1>4 DEF Piped
  <2> QED
    BY <2>2, <2>3
<1>5. CASE ~r.consumed /\ r.expires > now /\ ~Spent(r) /\ r.code = c
  <2>1. Status(r, c, now) = "accepted"
    BY <1>1, <1>5 DEF Status
  <2> QED
    BY <1>1, <1>5, <2>1 DEF Piped, Applied, Spent
<1>6. CASE ~r.consumed /\ r.expires > now /\ ~Spent(r) /\ r.code # c
  <2>1. Status(r, c, now) = "miss"
    BY <1>1, <1>6 DEF Status
  <2> QED
    BY <1>1, <1>6, <2>1 DEF Piped, Applied, Spent
<1> QED
  BY <1>1, <1>2, <1>3, <1>4, <1>5, <1>6

(* What an attempt does to a row, told by its status.                      *)
LEMMA AttemptEffect ==
    ASSUME NEW r \in Row, NEW c \in Code, NEW now \in Nat, NEW consume \in BOOLEAN
    PROVE  LET q == Applied(r, c, now, consume)
               s == Status(r, c, now)
           IN  /\ q \in Row /\ q.id = r.id /\ q.expires = r.expires
               /\ r.consumed => q.consumed /\ s = "absent"
               /\ s = "accepted" => ~r.consumed /\ now < r.expires /\ (q.consumed <=> consume)
                                    /\ q.attempts = r.attempts
               /\ s = "miss" => /\ ~r.consumed /\ ~Spent(r) /\ q.attempts = r.attempts + 1
                                /\ Limited /\ q.attempts >= MaxAttempts => q.consumed
               /\ s \notin {"miss", "accepted"} => q.attempts = r.attempts
                                                   /\ (r.consumed \/ q.consumed)
<1>1. /\ r.attempts \in Nat /\ r.expires \in Nat /\ r.consumed \in BOOLEAN
      /\ MaxAttempts \in Nat /\ Limited \in BOOLEAN
  BY ChallengeAssumption DEF Row
<1>2. CASE r.consumed
  <2>1. Status(r, c, now) = "absent"
    BY <1>2 DEF Status
  <2>2. Applied(r, c, now, consume) = r
    BY <2>1 DEF Applied
  <2> QED
    BY <1>2, <2>1, <2>2
<1>3. CASE ~r.consumed /\ (r.expires <= now \/ Spent(r))
  <2>1. Status(r, c, now) \in {"expired", "exhausted"}
    BY <1>1, <1>3 DEF Status
  <2>2. Applied(r, c, now, consume) = Marked(r, r.attempts, TRUE)
    BY <2>1 DEF Applied
  <2> DEFINE q == Marked(r, r.attempts, TRUE)
  <2>3. /\ q \in Row /\ q.id = r.id /\ q.expires = r.expires
        /\ q.attempts = r.attempts /\ (q.consumed <=> TRUE)
    BY <1>1 DEF Marked, Row
  <2> HIDE DEF q
  <2> QED
    BY <1>1, <1>3, <2>1, <2>2, <2>3 DEF q
<1>4. CASE ~r.consumed /\ r.expires > now /\ ~Spent(r) /\ r.code = c
  <2>1. Status(r, c, now) = "accepted"
    BY <1>1, <1>4 DEF Status
  <2> DEFINE q == Applied(r, c, now, consume)
  <2>2. q = Marked(r, r.attempts, consume)
    BY <2>1 DEF Applied
  <2> HIDE DEF q
  <2>3. /\ q \in Row /\ q.id = r.id /\ q.expires = r.expires
        /\ q.attempts = r.attempts /\ (q.consumed <=> consume)
    BY <1>1, <2>2 DEF Marked, Row
  <2> QED
    <3>1. now < r.expires /\ ~r.consumed
      BY <1>1, <1>4
    <3>2. q \in Row /\ q.id = r.id /\ q.expires = r.expires /\ q.attempts = r.attempts
      BY <2>3
    <3>3. q.consumed <=> consume
      BY <2>3
    <3> QED
      BY <2>1, <3>1, <3>2, <3>3 DEF q
<1>5. CASE ~r.consumed /\ r.expires > now /\ ~Spent(r) /\ r.code # c
  <2> DEFINE b == Limited /\ r.attempts + 1 >= MaxAttempts
  <2>1. Status(r, c, now) = "miss"
    BY <1>1, <1>5 DEF Status
  <2>2. Applied(r, c, now, consume) = Marked(r, r.attempts + 1, b)
    BY <2>1 DEF Applied
  <2>3. b \in BOOLEAN /\ r.attempts + 1 \in Nat
    BY <1>1
  <2>4. Limited /\ r.attempts + 1 >= MaxAttempts => b
    OBVIOUS
  <2> HIDE DEF b
  <2> DEFINE q == Marked(r, r.attempts + 1, b)
  <2>5. /\ q \in Row /\ q.id = r.id /\ q.expires = r.expires
        /\ q.attempts = r.attempts + 1 /\ (q.consumed <=> b)
    BY <2>3 DEF Marked, Row
  <2> HIDE DEF q
  <2> QED
    BY <1>5, <2>1, <2>2, <2>4, <2>5 DEF q
<1> QED
  BY <1>1, <1>2, <1>3, <1>4, <1>5
------------------------------------------------------------------------------
(* Only the newest issue can be stored; an issue that has not happened has *)
(* no history.                                                             *)
Newest ==
    /\ row # None => row.id = issued
    /\ \A n \in Issue : n > issued => misses[n] = 0 /\ effects[n] = 0 /\ accepted[n] = {}

(* The pending and the past effects of an issue are at most one, and none  *)
(* while its row is open.                                                  *)
Open(n) == row # None /\ row.id = n /\ ~row.consumed
Pending(w, n) == req[w].pc = "effect" /\ req[w].id = n
Acting ==
    /\ \A w \in Worker : req[w].pc = "effect" => req[w].id \in Issue /\ req[w].id <= issued
    /\ \A n \in Issue : effects[n] <= 1
    /\ \A n \in Issue, w \in Worker : Pending(w, n) => effects[n] = 0 /\ ~Open(n)
    /\ \A n \in Issue : effects[n] # 0 => ~Open(n)
    /\ \A n \in Issue, v, w \in Worker : Pending(v, n) /\ Pending(w, n) => v = w

(* The row counts the misses of its issue.                                 *)
Counting ==
    Limited => /\ \A n \in Issue : misses[n] <= MaxAttempts
               /\ row # None => /\ misses[row.id] = row.attempts
                                /\ ~row.consumed => row.attempts < MaxAttempts

(* A request in flight carries a code, except while it acts.               *)
Carrying == \A w \in Worker : req[w].pc \in {"issue", "attempt"} => req[w].code \in Code

Inv == TypeOK /\ Newest /\ Acting /\ Counting /\ AcceptedInTime /\ Carrying

LEMMA InitInv == Init => Inv
BY ChallengeAssumption DEF Init, Inv, TypeOK, Newest, Acting, Counting, AcceptedInTime, Carrying,
                           Idle, Request, Issue, Open, Pending

(* A step that only moves a request to a control point without effect.     *)
LEMMA MoveStep ==
    ASSUME Inv, NEW w \in Worker, NEW r \in Request, req' = [req EXCEPT ![w] = r],
           r.pc # "effect", r.pc \in {"issue", "attempt"} => r.code \in Code,
           UNCHANGED <<row, issued, clock, misses, effects, accepted>>
    PROVE  Inv'
<1>1. TypeOK' /\ Newest' /\ Counting' /\ AcceptedInTime' /\ Carrying'
  BY DEF Inv, TypeOK, Newest, Counting, AcceptedInTime, Carrying
<1>2. Acting'
  BY DEF Inv, TypeOK, Acting, Open, Pending
<1> QED
  BY <1>1, <1>2 DEF Inv

LEMMA IdleOK == Idle \in Request /\ Idle.pc = "idle"
BY DEF Idle, Request

LEMMA CreateStep ==
    ASSUME Inv, NEW w \in Worker, create_verification(w)
    PROVE  Inv'
<1>1. /\ req[w].code \in Code /\ req[w].stamp \in Nat /\ issued + 1 \in Issue /\ issued \in Nat
      /\ req' = [req EXCEPT ![w] = Idle]
  BY ChallengeAssumption DEF create_verification, Inv, Carrying, At, TypeOK, Request, Issue
<1>2. /\ row' = FreshRow(req[w].code, req[w].stamp) /\ issued' = issued + 1
      /\ UNCHANGED <<clock, misses, effects, accepted>>
  BY DEF create_verification
<1>3. row' \in Row /\ row'.id = issued + 1 /\ row'.attempts = 0 /\ ~row'.consumed /\ row' # None
  <2>1. FreshRow(req[w].code, req[w].stamp) \in Row
    BY <1>1, ChallengeAssumption DEF FreshRow, Row
  <2> QED
    BY <1>2, <2>1, NoneAssumption DEF FreshRow
<1>4. TypeOK' /\ Newest' /\ Counting' /\ Carrying'
  BY <1>1, <1>2, <1>3, IdleOK, ChallengeAssumption
     DEF Inv, TypeOK, Newest, Counting, Carrying, Issue
<1>5. Acting'
  BY <1>1, <1>2, <1>3, IdleOK DEF Inv, TypeOK, Newest, Acting, Open, Pending, Issue
<1>6. AcceptedInTime'
  BY <1>1, <1>2, <1>3 DEF Inv, Newest, AcceptedInTime
<1> QED
  BY <1>4, <1>5, <1>6 DEF Inv

(* The new row is Applied's row on every store.                            *)
LEMMA AttemptStep ==
    ASSUME Inv, NEW w \in Worker, attempt_verification(w)
    PROVE  Inv'
<1>1. /\ req[w].code \in Code /\ req[w].stamp \in Nat /\ req[w].consume \in BOOLEAN
      /\ UNCHANGED <<issued, clock, effects>> /\ ~(req[w].pc = "effect")
  BY DEF attempt_verification, Inv, Carrying, At, TypeOK, Request
<1>2. CASE row = None
  <2>1. req' = [req EXCEPT ![w] = Idle] /\ UNCHANGED <<row, misses, accepted>>
    BY <1>2 DEF attempt_verification
  <2> QED
    BY <1>1, <2>1, IdleOK, MoveStep
<1>3. CASE row # None
  <2> DEFINE r == req[w]
             s == Status(row, r.code, r.stamp)
             q == Applied(row, r.code, r.stamp, r.consume)
             p == IF s = "accepted" /\ r.consume THEN [Idle EXCEPT !.pc = "effect", !.id = row.id]
                  ELSE Idle
  <2>1. row \in Row /\ row.id \in Issue /\ row.id = issued /\ issued \in Nat
        /\ row.attempts \in Nat /\ row.expires \in Nat
    BY <1>3 DEF Inv, TypeOK, Newest, Row, Issue
  <2>2. row' = q
    BY <1>1, <1>3, <2>1, SameUpdate DEF attempt_verification
  <2>3. /\ misses' = IF s = "miss" THEN [misses EXCEPT ![row.id] = @ + 1] ELSE misses
        /\ accepted' = IF s = "accepted" THEN [accepted EXCEPT ![row.id] = @ \cup {r.stamp}]
                       ELSE accepted
        /\ req' = [req EXCEPT ![w] = p]
    BY <1>3 DEF attempt_verification
  <2>4. /\ q \in Row /\ q.id = row.id /\ q.expires = row.expires /\ q.attempts \in Nat
        /\ row.consumed => q.consumed /\ s = "absent"
        /\ s = "accepted" => ~row.consumed /\ r.stamp < row.expires /\ (q.consumed <=> r.consume)
                             /\ q.attempts = row.attempts
        /\ s = "miss" => /\ ~row.consumed /\ ~Spent(row) /\ q.attempts = row.attempts + 1
                         /\ Limited /\ q.attempts >= MaxAttempts => q.consumed
        /\ s \notin {"miss", "accepted"} => q.attempts = row.attempts /\ (row.consumed \/ q.consumed)
    BY <1>1, <2>1, AttemptEffect DEF Row
  <2>5. q # None
    BY <2>4, NoneAssumption
  <2>6. /\ p \in Request /\ p.pc \in {"idle", "effect"}
        /\ p.pc = "effect" => s = "accepted" /\ r.consume /\ p.id = row.id
    BY <2>1 DEF Idle, Request
  <2> HIDE DEF r, s, q, p
  <2>7. TypeOK'
    BY <1>1, <2>1, <2>2, <2>3, <2>4, <2>6 DEF Inv, TypeOK, Issue, r
  <2>8. Newest' /\ Carrying'
    BY <1>1, <2>1, <2>2, <2>3, <2>4, <2>6 DEF Inv, TypeOK, Newest, Carrying, Issue
  <2>9. Acting'
    <3>1. \A n \in Issue : Open(n)' => Open(n)
      BY <1>3, <2>2, <2>4, <2>5 DEF Open
    <3>2. p.pc = "effect" => \A n \in Issue : n = row.id => Open(n) /\ ~Open(n)'
      BY <1>3, <2>2, <2>4, <2>6 DEF Open
    <3>3. \A v \in Worker, n \in Issue :
             Pending(v, n)' => \/ Pending(v, n) /\ v # w
                               \/ v = w /\ p.pc = "effect" /\ n = row.id
      <4>1. \A v \in Worker : req'[v] = IF v = w THEN p ELSE req[v]
        BY <2>3 DEF Inv, TypeOK
      <4>2. p.pc = "effect" => p.id = row.id
        BY <2>6
      <4> QED
        BY <4>1, <4>2 DEF Pending
    <3>4. \A v \in Worker : req'[v].pc = "effect" => req'[v].id \in Issue /\ req'[v].id <= issued
      BY <1>1, <2>1, <2>3, <2>6 DEF Inv, TypeOK, Acting
    <3> QED
      BY <1>1, <2>1, <3>1, <3>2, <3>3, <3>4 DEF Inv, Acting
  <2>10. Counting'
    BY <1>1, <1>3, <2>1, <2>2, <2>3, <2>4, ChallengeAssumption
       DEF Inv, TypeOK, Counting, Spent, Issue
  <2>11. AcceptedInTime'
    BY <1>1, <1>3, <2>1, <2>2, <2>3, <2>4 DEF Inv, TypeOK, AcceptedInTime, r
  <2> QED
    BY <2>7, <2>8, <2>9, <2>10, <2>11 DEF Inv
<1> QED
  BY <1>2, <1>3

LEMMA EffectStep ==
    ASSUME Inv, NEW w \in Worker, Effect(w)
    PROVE  Inv'
<1> DEFINE n == req[w].id
<1>1. /\ Pending(w, n) /\ n \in Issue /\ n <= issued /\ effects[n] = 0 /\ ~Open(n)
      /\ effects' = [effects EXCEPT ![n] = @ + 1] /\ req' = [req EXCEPT ![w] = Idle]
      /\ UNCHANGED <<row, issued, clock, misses, accepted>>
  BY DEF Effect, At, Inv, Acting, Pending
<1> HIDE DEF n
<1>2. TypeOK' /\ Newest' /\ Counting' /\ AcceptedInTime' /\ Carrying'
  BY <1>1, IdleOK DEF Inv, TypeOK, Newest, Counting, AcceptedInTime, Carrying, Issue
<1>3. Acting'
  BY <1>1, IdleOK DEF Inv, TypeOK, Acting, Open, Pending
<1> QED
  BY <1>2, <1>3 DEF Inv

LEMMA RemoveStep == Inv /\ Remove => Inv'
BY DEF Remove, Inv, TypeOK, Newest, Acting, Counting, AcceptedInTime, Carrying, Open, Pending

LEMMA TickStep == Inv /\ Tick => Inv'
BY DEF Tick, Inv, TypeOK, Newest, Acting, Counting, AcceptedInTime, Carrying, Open, Pending

LEMMA StepInv == Inv /\ [Next]_vars => Inv'
<1> SUFFICES ASSUME Inv, [Next]_vars PROVE Inv'
  OBVIOUS
<1>1. ASSUME NEW w \in Worker, NEW c \in Code, IssueStart(w, c) PROVE Inv'
  <2>1. [Idle EXCEPT !.pc = "issue", !.code = c, !.stamp = clock] \in Request
    BY DEF Inv, TypeOK, Idle, Request
  <2> QED
    BY <1>1, <2>1, MoveStep DEF IssueStart, Idle
<1>2. ASSUME NEW w \in Worker, NEW c \in Code, NEW consume \in BOOLEAN,
             AttemptStart(w, c, consume)
      PROVE  Inv'
  <2>1. [Idle EXCEPT !.pc = "attempt", !.code = c, !.stamp = clock, !.consume = consume] \in Request
    BY DEF Inv, TypeOK, Idle, Request
  <2> QED
    BY <1>2, <2>1, MoveStep DEF AttemptStart, Idle
<1>3. ASSUME NEW w \in Worker, Crash(w) PROVE Inv'
  BY <1>3, IdleOK, MoveStep DEF Crash
<1>4. CASE UNCHANGED vars
  BY <1>4 DEF vars, Inv, TypeOK, Newest, Acting, Counting, AcceptedInTime, Carrying, Open, Pending
<1> QED
  BY <1>1, <1>2, <1>3, <1>4, CreateStep, AttemptStep, EffectStep, RemoveStep, TickStep DEF Next
------------------------------------------------------------------------------
THEOREM Invariance == Spec => []Inv
BY InitInv, StepInv, PTL DEF Spec

(* Types of the row, the requests and the history.                         *)
THEOREM TypeCorrect == Spec => []TypeOK
<1>1. Inv => TypeOK
  BY DEF Inv
<1> QED
  BY <1>1, Invariance, PTL

(* A reset link, a one-time code or a confirmation works once, with any    *)
(* number of concurrent requests, on either kind of store.                 *)
THEOREM WorksOnce == Spec => []EffectOnce
<1>1. Inv => EffectOnce
  BY DEF Inv, Acting, EffectOnce
<1> QED
  BY <1>1, Invariance, PTL

(* At most MaxAttempts misses per code, checks included.                   *)
THEOREM GuessLimit == Spec => []GuessesAreBounded
<1>1. Inv => GuessesAreBounded
  BY ChallengeAssumption DEF Inv, TypeOK, Counting, GuessesAreBounded, Row
<1> QED
  BY <1>1, Invariance, PTL

(* No value is accepted for a request that came after its expiry.          *)
THEOREM NotAfterExpiry == Spec => []AcceptedInTime
<1>1. Inv => AcceptedInTime
  BY DEF Inv
<1> QED
  BY <1>1, Invariance, PTL

(* An issued value works once, and not after its expiry.                   *)
THEOREM OnceInTime == Spec => []WorksOnceInTime
BY WorksOnce, NotAfterExpiry, PTL DEF WorksOnceInTime

(* The two formulations of the attempt agree on every row.                 *)
THEOREM StoresAgree == Spec => []PipelineAgrees
<1>1. Inv => PipelineAgrees
  BY SameUpdate, ChallengeAssumption DEF Inv, TypeOK, PipelineAgrees
<1> QED
  BY <1>1, Invariance, PTL

(* A consumed row stays consumed until another issue replaces it.          *)
THEOREM Burned == Spec => ConsumedIsFinal
<1> DEFINE A == row # None /\ row.consumed /\ row' # None /\ row'.id = row.id => row'.consumed
<1>1. Inv /\ [Next]_vars => [A]_vars
  <2> SUFFICES ASSUME Inv, [Next]_vars, row # None, row.consumed, row' # None, row'.id = row.id
               PROVE  row'.consumed
    BY DEF vars
  <2>1. ASSUME NEW w \in Worker, create_verification(w) PROVE FALSE
    BY <2>1 DEF create_verification, FreshRow, Inv, Newest, TypeOK
  <2>2. ASSUME NEW w \in Worker, attempt_verification(w) PROVE row'.consumed
    <3>1. row \in Row /\ req[w].code \in Code /\ req[w].stamp \in Nat /\ req[w].consume \in BOOLEAN
      BY <2>2 DEF attempt_verification, Inv, TypeOK, Carrying, At, Request
    <3>2. row' = Applied(row, req[w].code, req[w].stamp, req[w].consume)
      BY <2>2, <3>1, SameUpdate DEF attempt_verification
    <3> QED
      BY <3>1, <3>2, AttemptEffect
  <2> QED
    BY <2>1, <2>2 DEF Next, vars, IssueStart, AttemptStart, Effect, Crash, Remove, Tick
<1> QED
  BY <1>1, Invariance, PTL DEF Spec, ConsumedIsFinal
==============================================================================
