--------------------------- MODULE Requests_proofs ---------------------------
(***************************************************************************)
(* Proofs about the lifespan of a process and the requests it serves, for  *)
(* any number of plugins, handlers, requests, sessions and endpoints.      *)
(***************************************************************************)
EXTENDS Requests, SequenceTheorems, FiniteSetTheorems, WellFoundedInduction, TLAPS

(* The steps of requests leave the process alone.                          *)
LEMMA RequestsLeaveProcess ==
    ASSUME NEW r \in Request, Send(r) \/ Step(r)
    PROVE  UNCHANGED rvars
BY DEF Send, Step, check, ReadRow, Touch, DropIdle, Hooks, Middlewares, Enter, NoEffect, check_readiness,
       Revoke, PluginEndpoint, CallHandler, Published, AfterHooks, ResponseHooks

LEMMA NextOfProcess ==
    ASSUME [Next]_vars
    PROVE  LifespanStep \/ UNCHANGED <<conf, lifespan>>
<1>1. CASE LifespanStep /\ UNCHANGED hvars
  BY <1>1
<1>2. CASE OnEvent
  BY <1>2 DEF OnEvent, On
<1>3. CASE \E r \in Request : Send(r) \/ Step(r)
  BY <1>3, RequestsLeaveProcess DEF rvars
<1>4. CASE Tick
  BY <1>4 DEF Tick, rvars
<1>5. CASE UNCHANGED vars
  BY <1>5 DEF vars, rvars
<1> QED BY <1>1, <1>2, <1>3, <1>4, <1>5 DEF Next
------------------------------------------------------------------------------
(* Where the lifespan is: what has started and what has stopped so far.    *)
Up == life.up
Downs == life.down

Placed ==
    /\ Up \in Seq(Plugin) /\ Downs \in Seq(Plugin) /\ started \in Seq(Plugin)
    /\ phase \in {"down", "starting", "serving", "stopping", "ended"}
    /\ phase = "down" => Up = <<>> /\ Downs = <<>> /\ started = <<>> /\ life.errors = {} /\ primary = {} /\ shutdown = {}
    /\ phase \in {"starting", "serving"} =>
           db = "open" /\ Up = started /\ Downs = <<>> /\ life.errors = {} /\ primary = {} /\ shutdown = {}
    /\ phase = "serving" => Len(started) = Plugins
    /\ phase = "stopping" =>
           /\ Len(Downs) + Len(started) = Len(Up)
           /\ \A i \in 1 .. Len(started) : started[i] = Up[i]
           /\ \A i \in 1 .. Len(Downs) : Downs[i] = Up[Len(Up) + 1 - i]
           /\ life.errors = primary \cup shutdown
    /\ life = [up |-> Up, down |-> Downs, errors |-> life.errors]

Steady ==
    /\ Placed
    /\ ready => phase = "serving"
    /\ EndedIsClean

LEMMA SteadyInit == Init => Steady
BY DEF Init, RuntimeInit, Steady, Placed, EndedIsClean, Up, Downs

(* A sequence that mirrors another entry by entry is its reverse.          *)
LEMMA Mirror ==
    ASSUME NEW S, NEW s \in Seq(S), NEW t \in Seq(S), Len(s) = Len(t),
           \A i \in 1 .. Len(t) : t[i] = s[Len(s) + 1 - i]
    PROVE  t = Reverse(s)
<1>1. t = [i \in 1 .. Len(t) |-> t[i]] /\ DOMAIN s = 1 .. Len(s)
  OBVIOUS
<1>2. Reverse(s) = [i \in 1 .. Len(t) |-> s[Len(s) + 1 - i]]
  BY <1>1 DEF Reverse
<1> QED BY <1>1, <1>2

(* What is left of a sequence without its last entry.                      *)
LEMMA FrontOfSeq ==
    ASSUME NEW S, NEW s \in Seq(S), s # <<>>
    PROVE  /\ SubSeq(s, 1, Len(s) - 1) \in Seq(S)
           /\ Len(SubSeq(s, 1, Len(s) - 1)) = Len(s) - 1
           /\ \A i \in 1 .. Len(s) - 1 : SubSeq(s, 1, Len(s) - 1)[i] = s[i]
<1>1. Len(s) \in Nat /\ Len(s) # 0
  OBVIOUS
<1>2. 1 \in Int /\ Len(s) - 1 \in Int /\ \A i \in 1 .. Len(s) - 1 : s[i] \in S /\ i \in DOMAIN s
  BY <1>1
<1>3. /\ SubSeq(s, 1, Len(s) - 1) \in Seq(S)
      /\ Len(SubSeq(s, 1, Len(s) - 1)) = IF 1 <= Len(s) - 1 THEN Len(s) - 1 - 1 + 1 ELSE 0
      /\ \A i \in 1 .. Len(s) - 1 - 1 + 1 : SubSeq(s, 1, Len(s) - 1)[i] = s[1 + i - 1]
  BY <1>1, <1>2, SubSeqProperties
<1> DEFINE n == Len(s)
           t == SubSeq(s, 1, n - 1)
<1>4. n \in Nat /\ n # 0 /\ t \in Seq(S) /\ Len(t) = (IF 1 <= n - 1 THEN n - 1 - 1 + 1 ELSE 0)
      /\ \A i \in 1 .. n - 1 - 1 + 1 : t[i] = s[1 + i - 1]
  BY <1>1, <1>3
<1> HIDE DEF n, t
<1>5. Len(t) = n - 1
  BY <1>4
<1>6. ASSUME NEW i \in 1 .. n - 1 PROVE t[i] = s[i]
  <2>1. i \in 1 .. n - 1 - 1 + 1 /\ 1 + i - 1 = i
    BY <1>4
  <2> QED BY <1>4, <2>1
<1> QED BY <1>4, <1>5, <1>6 DEF n, t

LEMMA OpenStep ==
    ASSUME Steady, OpenDatabase
    PROVE  Steady'
<1> USE DEF Steady, Placed, Up, Downs, OpenDatabase
<1>1. CASE db' = "open" /\ phase' = "starting" /\ UNCHANGED <<reported, life>>
  BY <1>1 DEF EndedIsClean
<1>2. CASE MayFail("open") /\ Failed(<<"open", 0>>) /\ db' = "closed" /\ phase' = "ended" /\ reported' = {<<"open", 0>>}
  <2>1. life' = [life EXCEPT !.errors = {<<"open", 0>>}] /\ life'.up = <<>> /\ life'.down = <<>>
        /\ life'.errors = {<<"open", 0>>}
    BY <1>2 DEF Failed
  <2>2. life'.down = Reverse(life'.up)
    BY <2>1, Mirror
  <2> QED BY <1>2, <2>1, <2>2 DEF EndedIsClean, Reverse
<1> QED BY <1>1, <1>2

LEMMA StartStep ==
    ASSUME Steady, StartPlugin
    PROVE  Steady'
<1> USE DEF Steady, Placed, Up, Downs, StartPlugin
<1>1. CASE started' = Append(started, Len(started) + 1) /\ UNCHANGED <<phase, primary>>
           /\ life' = [life EXCEPT !.up = Append(@, Len(started) + 1)]
  <2>1. life'.up = Append(Up, Len(started) + 1) /\ life'.down = Downs /\ life'.errors = life.errors
        /\ life' = [up |-> life'.up, down |-> life'.down, errors |-> life'.errors]
    BY <1>1
  <2>2. Len(started) + 1 \in Plugin /\ phase = "starting" /\ UNCHANGED <<conf, db, shutdown, reported, ready>>
    OBVIOUS
  <2>3. started' = life'.up /\ life'.up \in Seq(Plugin)
    BY <1>1, <2>1, <2>2
  <2> QED BY <1>1, <2>1, <2>2, <2>3 DEF EndedIsClean
<1>2. CASE MayFail("start") /\ Failed(<<"start", Len(started) + 1>>)
           /\ primary' = {<<"start", Len(started) + 1>>} /\ phase' = "stopping" /\ UNCHANGED started
  <2>1. life'.up = Up /\ life'.down = <<>> /\ life'.errors = {<<"start", Len(started) + 1>>}
        /\ life' = [up |-> life'.up, down |-> life'.down, errors |-> life'.errors]
    BY <1>2 DEF Failed
  <2> QED BY <1>2, <2>1 DEF EndedIsClean
<1> QED BY <1>1, <1>2

LEMMA ServeStep ==
    ASSUME Steady, Serve
    PROVE  Steady'
BY DEF Steady, Placed, Up, Downs, Serve, Complete, EndedIsClean

LEMMA LeaveStep ==
    ASSUME Steady, Leave
    PROVE  Steady'
<1> USE DEF Steady, Placed, Up, Downs, Leave
<1>1. CASE ready' = FALSE /\ UNCHANGED <<primary, life>>
  BY <1>1 DEF EndedIsClean
<1>2. CASE MayFail("body") /\ Failed(<<"body", 0>>) /\ primary' = {<<"body", 0>>} /\ ready' = ReadyAfter
  <2>1. life'.up = Up /\ life'.down = <<>> /\ life'.errors = {<<"body", 0>>}
        /\ life' = [up |-> life'.up, down |-> life'.down, errors |-> life'.errors]
    BY <1>2 DEF Failed
  <2> QED BY <1>2, <2>1 DEF EndedIsClean, ReadyAfter
<1> QED BY <1>1, <1>2

LEMMA StopStep ==
    ASSUME Steady, StopPlugin
    PROVE  Steady'
<1> USE DEF Steady, Placed, Up, Downs
<1> DEFINE p == started[Len(started)]
<1>1. PICK fails \in BOOLEAN :
        /\ started' = SubSeq(started, 1, Len(started) - 1)
        /\ shutdown' = IF fails THEN shutdown \cup {<<"stop", p>>} ELSE shutdown
        /\ life' = [life EXCEPT !.down = Append(@, p), !.errors = IF fails THEN @ \cup {<<"stop", p>>} ELSE @]
  BY DEF StopPlugin, Unstopped, Front, Last
<1>2. phase = "stopping" /\ started # <<>> /\ UNCHANGED <<conf, phase, db, primary, reported, ready>>
  BY DEF StopPlugin
<1>3. Len(started) \in Nat \ {0} /\ p \in Plugin
  BY <1>2
<1>4. started' \in Seq(Plugin) /\ Len(started') = Len(started) - 1
      /\ \A i \in 1 .. Len(started') : started'[i] = started[i]
  BY <1>1, <1>2, FrontOfSeq
<1>5. life'.up = Up /\ life'.down = Append(Downs, p)
      /\ life'.errors = (IF fails THEN life.errors \cup {<<"stop", p>>} ELSE life.errors)
      /\ life' = [up |-> life'.up, down |-> life'.down, errors |-> life'.errors]
  BY <1>1
<1>6. p = Up[Len(started)]
  BY <1>2, <1>3
<1>7. \A i \in 1 .. Len(life'.down) : life'.down[i] = Up[Len(Up) + 1 - i]
  BY <1>2, <1>3, <1>5, <1>6
<1>8. life'.errors = primary' \cup shutdown'
  BY <1>1, <1>2, <1>5
<1>9. life'.down \in Seq(Plugin) /\ Len(life'.down) = Len(Downs) + 1
  BY <1>3, <1>5
<1>10. Len(life'.down) + Len(started') = Len(life'.up) /\ \A i \in 1 .. Len(started') : started'[i] = life'.up[i]
  <2>1. Len(Downs) + Len(started) = Len(Up) /\ \A i \in 1 .. Len(started) : started[i] = Up[i]
    BY <1>2
  <2>2. \A i \in 1 .. Len(started') : i \in 1 .. Len(started)
    BY <1>3, <1>4
  <2>3. Len(Downs) \in Nat /\ Len(Up) \in Nat
    OBVIOUS
  <2>4. Len(life'.down) = Len(Downs) + 1 /\ Len(started') = Len(started) - 1 /\ Len(life'.up) = Len(Up)
    BY <1>4, <1>5, <1>9
  <2>5. Len(life'.down) + Len(started') = Len(life'.up)
    BY ONLY <1>3, <2>1, <2>3, <2>4, SMTT(20)
  <2> HIDE DEF Up, Downs
  <2> QED BY <1>4, <1>5, <2>1, <2>2, <2>5
<1> HIDE DEF p
<1>11. Placed'
  BY <1>2, <1>4, <1>5, <1>7, <1>8, <1>9, <1>10
<1> QED BY <1>2, <1>11 DEF EndedIsClean

LEMMA CloseStep ==
    ASSUME Steady, CloseDatabase
    PROVE  Steady'
<1> USE DEF Steady, Placed, Up, Downs
<1>1. /\ phase = "stopping" /\ started = <<>> /\ db' = "closed" /\ phase' = "ended"
      /\ UNCHANGED <<conf, started, ready>>
  BY DEF CloseDatabase
<1>2. Downs = Reverse(Up)
  <2>1. Len(Downs) = Len(Up) /\ \A i \in 1 .. Len(Downs) : Downs[i] = Up[Len(Up) + 1 - i]
    BY <1>1
  <2> QED BY <2>1, Mirror
<1>3. life'.up = Up /\ life'.down = Downs /\ life' = [up |-> Up, down |-> Downs, errors |-> life'.errors]
  BY DEF CloseDatabase, Failed
<1>4. ~conf.suppresses => reported' = life'.errors
  BY <1>1 DEF CloseDatabase, Failed, Raised
<1> QED BY <1>1, <1>2, <1>3, <1>4 DEF EndedIsClean, Reverse

LEMMA SteadyStep ==
    ASSUME Steady, [Next]_vars
    PROVE  Steady'
<1>1. CASE LifespanStep
  BY <1>1, OpenStep, StartStep, ServeStep, LeaveStep, StopStep, CloseStep DEF LifespanStep
<1>2. CASE UNCHANGED <<conf, lifespan>>
  BY <1>2 DEF Steady, Placed, Up, Downs, EndedIsClean, Reverse, lifespan
<1> QED BY <1>1, <1>2, NextOfProcess

(* The readiness flag tells the truth, and however the lifespan ends, what *)
(* had started is stopped once, in reverse, and every error is reported.   *)
THEOREM LifespanAlways == Spec => []LifespanIsTrue
<1>1. Init => Steady
  BY SteadyInit
<1>2. Steady /\ [Next]_vars => Steady'
  BY SteadyStep
<1>3. Steady => LifespanIsTrue
  BY DEF Steady, Placed, LifespanIsTrue, ReadyIsTrue, AllUp
<1> QED BY <1>1, <1>2, <1>3, PTL DEF Spec
------------------------------------------------------------------------------
(* What is known of every request: its fields, and that it reads its       *)
(* session where it says so.                                               *)
Shape(q) ==
    q \in [pc : {q.pc}, input : {q.input}, reading : {q.reading}, status : {q.status}, late : {q.late},
           seen : {q.seen}, up : {q.up}, pub : {q.pub}, awaited : {q.awaited}, called : {q.called},
           left : {q.left}]

(* Beyond the guard of its route, or seen by somebody before               *)
Past(q) == q.pc \notin {"new", "limit", "guard", "done"} \/ q.seen # {}

(* What has to hold of a request that gets there.                          *)
Good(q) ==
    /\ q.input.route.protected => ~q.late
    /\ q.input.route.csrf /\ q.input.route.method \notin Safe /\ q.input.cookie => q.input.origin = "trusted"

(* A session that no read will find any more: it is gone, or idle with no  *)
(* read in progress that could still renew it.                             *)
Dead(s) ==
    \/ s = None
    \/ rows[s] = None
    \/ ~Fresh(s, clock) /\ \A q \in Request : ~(req[q].reading = "touch" /\ In(q).token = s)

Served(q) ==
    /\ Shape(q)
    /\ q.pc # "new" => q.input \in Input /\ q.input.route \in Routes
    /\ q.input # None => q.pc # "new"
    /\ q.reading # "get" => q.pc \in Readers /\ q.input.token # None
    /\ q.reading # "get" /\ q.pc = "handler" => Reads(q.input.route)
    /\ q.pc # "new" /\ Past(q) => Good(q)

Requesting ==
    /\ conf \in Confs /\ Accepted(specs) /\ specs \subseteq EndpointSpec
    /\ clock \in Nat
    /\ rows \in [Session -> Nat \cup {None}]
    /\ req = [r \in Request |-> req[r]]
    /\ \A r \in Request : Served(req[r])
    /\ \A r \in Request : ~At(r, "new") /\ req[r].late => Dead(In(r).token)

(* What a step of one request may do to it and to the sessions.            *)
Effect(r) ==
    /\ UNCHANGED <<conf, specs, clock>>
    /\ ~At(r, "new")
    /\ req' = [req EXCEPT ![r] = req'[r]]
    /\ Served(req'[r]) /\ req'[r].pc # "new" /\ req'[r].input = In(r) /\ req'[r].late = req[r].late
    /\ req'[r].reading = "touch" => In(r).token # None /\ rows[In(r).token] # None /\ Fresh(In(r).token, clock)
    /\ rows' \in [Session -> Nat \cup {None}]
    /\ \A s \in Session :
           \/ rows'[s] = rows[s] \/ rows'[s] = None
           \/ rows[s] # None /\ rows'[s] = clock /\ req[r].reading = "touch" /\ In(r).token = s

LEMMA RoutesStay ==
    ASSUME UNCHANGED specs
    PROVE  Routes' = Routes
BY DEF Routes, Mounted

(* A route is guarded by what its own endpoint declares.                   *)
LEMMA GuardIsOwn ==
    ASSUME Accepted(specs), specs \subseteq EndpointSpec, NEW i \in Routes
    PROVE  /\ i.protected => Guarded(i) /\ i.name \notin Health
           /\ i.csrf => SpecOf(i) # None /\ SpecOf(i).csrf_required
<1>1. CASE i \in CoreRoutes
  <2>1. PICK c \in Core : i.name = c /\ i.csrf = FALSE
           /\ i.protected = (c \in {"list_sessions", "revoke_session", "revoke_other_sessions"})
    BY <1>1 DEF CoreRoutes
  <2> QED BY <2>1 DEF Guarded, Health
<1>2. CASE i \notin CoreRoutes
  <2>1. PICK a \in Mounted(specs) :
           i = [name |-> a.name, path |-> a.path, method |-> a.method, protected |-> a.auth_required,
                csrf |-> a.csrf_required]
    BY <1>2 DEF Routes
  <2> DEFINE S == {b \in specs : b.method = i.method /\ b.name = i.name}
  <2>2. a \in specs /\ a \in EndpointSpec /\ a.plugin \in Nat
    BY <2>1 DEF Mounted, EndpointSpec, Plugin
  <2>3. S = {a}
    BY <2>1, <2>2 DEF Accepted, Unique
  <2>4. SpecOf(i) = a
    <3>1. SpecOf(i) = CHOOSE x \in S : \A b \in S : b.plugin <= x.plugin
      BY <2>3 DEF SpecOf
    <3>2. a \in S /\ \A b \in S : b.plugin <= a.plugin
      BY <2>2, <2>3
    <3> QED BY <2>3, <3>1, <3>2
  <2>5. a # None
    BY <2>2, InputAssumption
  <2>6. \A c \in CoreRoutes : a.name # c.name
    BY <2>1 DEF Accepted
  <2>7. i.name \notin Health
    <3>1. ASSUME NEW n \in Health PROVE \E c \in CoreRoutes : c.name = n
      <4> DEFINE c == [name |-> n, path |-> n, csrf |-> FALSE,
                       method |-> IF n \in {"refresh_session", "sign_out"} THEN "POST"
                                  ELSE IF n \in {"revoke_session", "revoke_other_sessions"} THEN "DELETE" ELSE "GET",
                       protected |-> n \in {"list_sessions", "revoke_session", "revoke_other_sessions"}]
      <4>1. n \in Core
        BY DEF Health, Core
      <4>2. c \in CoreRoutes
        BY <4>1 DEF CoreRoutes
      <4>3. c.name = n
        OBVIOUS
      <4> QED BY <4>2, <4>3
    <3> QED BY <2>1, <2>6, <3>1
  <2> QED BY <2>1, <2>4, <2>5, <2>7 DEF Guarded
<1> QED BY <1>1, <1>2

(* Changing the fields of a request.                                       *)
LEMMA Changed ==
    ASSUME NEW q, Shape(q), NEW pc, NEW n, n = [q EXCEPT !.pc = pc]
    PROVE  Shape(n) /\ n.pc = pc /\ n.input = q.input /\ n.late = q.late /\ n.seen = q.seen
           /\ n.reading = q.reading
BY DEF Shape

LEMMA Refused ==
    ASSUME NEW q, Shape(q), NEW n, n = [q EXCEPT !.pc = "done", !.status = 403]
    PROVE  Shape(n) /\ n.pc = "done" /\ n.input = q.input /\ n.late = q.late /\ n.seen = q.seen
           /\ n.reading = q.reading
<1>1. n.pc = "done" /\ n.status = 403 /\ n.input = q.input /\ n.late = q.late /\ n.seen = q.seen
      /\ n.reading = q.reading /\ n.up = q.up /\ n.pub = q.pub /\ n.awaited = q.awaited
      /\ n.called = q.called /\ n.left = q.left
  BY DEF Shape
<1>2. Shape(n)
  BY <1>1 DEF Shape
<1> QED BY <1>1, <1>2

LEMMA PassGuardResult ==
    ASSUME Accepted(specs), specs \subseteq EndpointSpec, NEW q, Shape(q), q.input.route \in Routes,
           NEW n, n = PassGuard(q)
    PROVE  /\ Shape(n) /\ n.input = q.input /\ n.late = q.late /\ n.seen = q.seen /\ n.reading = q.reading
           /\ \/ n.pc = "done"
              \/ /\ n.pc = "hooks"
                 /\ n.input.route.csrf /\ n.input.route.method \notin Safe /\ n.input.cookie
                        => n.input.origin = "trusted"
<1>1. CASE n = [q EXCEPT !.pc = "done", !.status = 403]
  <2>1. Shape(n) /\ n.pc = "done" /\ n.input = q.input /\ n.late = q.late /\ n.seen = q.seen
        /\ n.reading = q.reading
    BY <1>1, Refused
  <2> QED BY <2>1
<1>2. CASE n # [q EXCEPT !.pc = "done", !.status = 403]
  <2>1. n = [q EXCEPT !.pc = "hooks"]
    BY <1>2 DEF PassGuard, PassCsrf
  <2>2. Shape(n) /\ n.pc = "hooks" /\ n.input = q.input /\ n.late = q.late /\ n.seen = q.seen
        /\ n.reading = q.reading
    BY <2>1, Changed
  <2>3. q.input.route.csrf => PassesCsrf(q.input)
    BY <1>2, GuardIsOwn DEF PassGuard, PassCsrf
  <2>4. q.input.route.csrf /\ q.input.route.method \notin Safe /\ q.input.cookie => q.input.origin = "trusted"
    BY <2>3 DEF PassesCsrf, BearerOnly
  <2> QED BY <2>2, <2>4
<1> QED BY <1>1, <1>2

(* A step that moves the request, without a read in progress afterwards.   *)
LEMMA RowsEffect ==
    ASSUME Requesting, NEW r \in Request, NEW n, ~At(r, "new"), req' = [req EXCEPT ![r] = n],
           Shape(n), n.input = req[r].input, n.late = req[r].late, n.reading = "get", n.pc # "new",
           Past(n) => Good(n), UNCHANGED <<conf, specs, clock>>,
           rows' \in [Session -> Nat \cup {None}],
           \A s \in Session :
               \/ rows'[s] = rows[s] \/ rows'[s] = None
               \/ rows[s] # None /\ rows'[s] = clock /\ req[r].reading = "touch" /\ In(r).token = s
    PROVE  Effect(r)
<1>1. req'[r] = n
  BY DEF Requesting
<1>2. Served(n)
  BY DEF Requesting, Served, At
<1> QED BY <1>1, <1>2 DEF Effect, In

LEMMA MoveEffect ==
    ASSUME Requesting, NEW r \in Request, NEW n, ~At(r, "new"), req' = [req EXCEPT ![r] = n],
           Shape(n), n.input = req[r].input, n.late = req[r].late, n.reading = "get", n.pc # "new",
           Past(n) => Good(n), UNCHANGED <<conf, specs, clock, rows>>
    PROVE  Effect(r)
<1>1. rows' \in [Session -> Nat \cup {None}] /\ \A s \in Session : rows'[s] = rows[s]
  BY DEF Requesting
<1> QED BY <1>1, RowsEffect

(* The same for a request that is past its guard.                          *)
Moved(q, n) ==
    Shape(n) /\ n.input = q.input /\ n.late = q.late /\ n.reading = "get" /\ n.pc # "new"

LEMMA PastEffect ==
    ASSUME Requesting, NEW r \in Request, NEW n, Past(req[r]), ~At(r, "new"), req' = [req EXCEPT ![r] = n],
           Moved(req[r], n), UNCHANGED <<conf, specs, clock, rows>>
    PROVE  Effect(r)
<1>1. Good(n)
  BY DEF Requesting, Served, Good, Moved, At
<1> QED BY <1>1, MoveEffect DEF Moved

(* The steps of a request.                                                 *)
LEMMA CheckEffect ==
    ASSUME Requesting, NEW r \in Request, check(r)
    PROVE  Effect(r)
<1> DEFINE q == req[r]
<1>1. /\ At(r, "limit") /\ UNCHANGED <<conf, clock, specs, rows>>
      /\ \/ /\ req' = [req EXCEPT ![r] = PassGuard(q)]
            /\ q.input.route.name \in Health \/ ~Guarded(q.input.route)
         \/ req' = [req EXCEPT ![r] = [q EXCEPT !.pc = "done", !.status = 429]]
         \/ req' = [req EXCEPT ![r] = [q EXCEPT !.pc = "guard"]]
  BY DEF check, Put, Answer, In, rvars
<1>2. Served(q) /\ q.pc = "limit" /\ q.input.route \in Routes /\ Shape(q) /\ q.reading = "get"
  BY <1>1 DEF Requesting, Served, Readers, At
<1>3. CASE /\ req' = [req EXCEPT ![r] = PassGuard(q)]
           /\ q.input.route.name \in Health \/ ~Guarded(q.input.route)
  <2>1. ~q.input.route.protected
    BY <1>2, <1>3, GuardIsOwn DEF Requesting
  <2>2. PICK n : n = PassGuard(q)
    OBVIOUS
  <2>3. /\ Shape(n) /\ n.input = q.input /\ n.late = q.late /\ n.seen = q.seen /\ n.reading = q.reading
        /\ \/ n.pc = "done"
           \/ /\ n.pc = "hooks"
              /\ n.input.route.csrf /\ n.input.route.method \notin Safe /\ n.input.cookie
                     => n.input.origin = "trusted"
    BY <1>2, <2>2, PassGuardResult DEF Requesting
  <2> HIDE DEF q
  <2>4. Past(n) => Good(n)
    BY <1>2, <2>1, <2>3 DEF Served, Past, Good
  <2> QED BY <1>1, <1>2, <1>3, <2>2, <2>3, <2>4, MoveEffect DEF At, q
<1>4. CASE \/ req' = [req EXCEPT ![r] = [q EXCEPT !.pc = "done", !.status = 429]]
           \/ req' = [req EXCEPT ![r] = [q EXCEPT !.pc = "guard"]]
  <2>1. PICK n : /\ req' = [req EXCEPT ![r] = n]
                 /\ n = [q EXCEPT !.pc = "done", !.status = 429] \/ n = [q EXCEPT !.pc = "guard"]
    BY <1>4
  <2>2. Shape(n) /\ n.pc \in {"done", "guard"} /\ n.input = q.input /\ n.late = q.late /\ n.seen = q.seen
        /\ n.reading = q.reading
    <3>1. CASE n = [q EXCEPT !.pc = "done", !.status = 429]
      BY <1>2, <3>1 DEF Shape
    <3>2. CASE n = [q EXCEPT !.pc = "guard"]
      BY <1>2, <3>2 DEF Shape
    <3> QED BY <2>1, <3>1, <3>2
  <2> HIDE DEF q
  <2>3. Past(n) => Good(n)
    BY <1>2, <2>2 DEF Served, Past, Good
  <2> QED BY <1>1, <1>2, <2>1, <2>2, <2>3, MoveEffect DEF At, q
<1> QED BY <1>1, <1>3, <1>4

(* What a read of the session makes of the request.                        *)
LEMMA ValidResult ==
    ASSUME Requesting, NEW r \in Request, req[r].pc \in Readers, At(r, "guard") => ~req[r].late,
           NEW n, n = Valid(r)
    PROVE  /\ Shape(n) /\ n.input = req[r].input /\ n.late = req[r].late /\ n.reading = "get"
           /\ n.pc # "new" /\ (Past(n) => Good(n))
<1>1. PICK q : q = [req[r] EXCEPT !.reading = "get"]
  OBVIOUS
<1>2. Served(req[r]) /\ Shape(req[r]) /\ req[r].input.route \in Routes
  BY DEF Requesting, Served, Readers
<1>3. Shape(q) /\ q.pc = req[r].pc /\ q.input = req[r].input /\ q.late = req[r].late /\ q.seen = req[r].seen
      /\ q.reading = "get"
  BY <1>1, <1>2 DEF Shape
<1>4. CASE At(r, "guard")
  <2>1. n = PassGuard(q)
    BY <1>1, <1>4 DEF Valid, At
  <2>2. /\ Shape(n) /\ n.input = q.input /\ n.late = q.late /\ n.seen = q.seen /\ n.reading = q.reading
        /\ \/ n.pc = "done"
           \/ /\ n.pc = "hooks"
              /\ n.input.route.csrf /\ n.input.route.method \notin Safe /\ n.input.cookie
                     => n.input.origin = "trusted"
    BY <1>2, <1>3, <2>1, PassGuardResult DEF Requesting
  <2>3. Past(n) => Good(n)
    BY <1>2, <1>3, <1>4, <2>2 DEF Served, Past, Good, At
  <2> QED BY <1>3, <2>2, <2>3
<1>5. CASE ~At(r, "guard")
  <2>1. Past(req[r]) /\ Good(req[r])
    BY <1>2, <1>5 DEF Served, Past, Readers, At
  <2>2. \/ n = [q EXCEPT !.pc = "done", !.status = 403] \/ n = [q EXCEPT !.pc = "handler"]
        \/ n = [q EXCEPT !.seen = @ \cup {"handler"}, !.pc = "revoke"]
        \/ n = [q EXCEPT !.seen = @ \cup {"handler"}, !.pc = "act"]
        \/ n = [q EXCEPT !.pc = "act"]
    <3>1. req[r].pc \in {"dependency", "handler", "revoke"}
      BY <1>5 DEF Readers, At
    <3>2. CASE req[r].pc = "dependency"
      BY <1>1, <3>2 DEF Valid, At, PassCsrf
    <3>3. CASE req[r].pc = "handler"
      BY <1>1, <3>3 DEF Valid, At
    <3>4. CASE req[r].pc = "revoke"
      BY <1>1, <3>4 DEF Valid, At
    <3> QED BY <3>1, <3>2, <3>3, <3>4
  <2>3. Shape(n) /\ n.input = q.input /\ n.late = q.late /\ n.reading = "get" /\ n.pc # "new"
    <3>1. CASE n = [q EXCEPT !.pc = "done", !.status = 403]
      <4>1. n.pc = "done" /\ n.status = 403 /\ n.input = q.input /\ n.late = q.late /\ n.seen = q.seen
            /\ n.reading = q.reading /\ n.up = q.up /\ n.pub = q.pub /\ n.awaited = q.awaited
            /\ n.called = q.called /\ n.left = q.left
        BY <1>3, <3>1 DEF Shape
      <4>2. Shape(n)
        BY <1>3, <3>1, <4>1 DEF Shape
      <4> QED BY <1>3, <4>1, <4>2
    <3>2. CASE n = [q EXCEPT !.pc = "handler"] \/ n = [q EXCEPT !.pc = "act"]
      BY <1>3, <3>2 DEF Shape
    <3>3. CASE n = [q EXCEPT !.seen = @ \cup {"handler"}, !.pc = "revoke"]
      BY <1>3, <3>3 DEF Shape
    <3>4. CASE n = [q EXCEPT !.seen = @ \cup {"handler"}, !.pc = "act"]
      BY <1>3, <3>4 DEF Shape
    <3> QED BY <2>2, <3>1, <3>2, <3>3, <3>4
  <2> QED BY <1>3, <2>1, <2>3 DEF Good
<1> QED BY <1>4, <1>5

LEMMA InvalidResult ==
    ASSUME Requesting, NEW r \in Request, req[r].pc \in Readers, NEW n, n = Invalid(r)
    PROVE  /\ Shape(n) /\ n.input = req[r].input /\ n.late = req[r].late /\ n.reading = "get"
           /\ n.pc # "new" /\ (Past(n) => Good(n))
<1>1. PICK q : q = [req[r] EXCEPT !.reading = "get"]
  OBVIOUS
<1>2. Served(req[r]) /\ Shape(req[r]) /\ req[r].pc # "new"
  BY DEF Requesting, Served, Readers
<1>3. Shape(q) /\ q.pc = req[r].pc /\ q.input = req[r].input /\ q.late = req[r].late /\ q.seen = req[r].seen
      /\ q.reading = "get"
  BY <1>1, <1>2 DEF Shape
<1>4. PICK pc, status :
        /\ n = [q EXCEPT !.pc = pc] \/ n = [q EXCEPT !.pc = pc, !.status = status]
        /\ pc \in {"act", "after", "done"} /\ (req[r].pc = "guard" => pc = "done")
  <2>1. CASE At(r, "revoke")
    <3>1. n = [q EXCEPT !.pc = "act"]
      BY <1>1, <2>1 DEF Invalid
    <3> QED BY <2>1, <3>1 DEF At
  <2>2. CASE ~At(r, "revoke")
    <3>1. n = [q EXCEPT !.pc = IF At(r, "handler") /\ In(r).route.name \in {"get_session", "sign_out"}
                               THEN "after" ELSE "done",
                        !.status = IF ~(At(r, "handler") /\ In(r).route.name \in {"get_session", "sign_out"}) THEN 401
                                   ELSE IF In(r).route.name = "sign_out" THEN 200 ELSE 204]
      BY <1>1, <2>2 DEF Invalid
    <3>2. PICK pc, status : n = [q EXCEPT !.pc = pc, !.status = status]
             /\ pc = (IF At(r, "handler") /\ In(r).route.name \in {"get_session", "sign_out"} THEN "after" ELSE "done")
      BY <3>1
    <3> QED BY <3>2 DEF At
  <2> QED BY <2>1, <2>2
<1>5. Shape(n) /\ n.pc = pc /\ n.input = q.input /\ n.late = q.late /\ n.seen = q.seen /\ n.reading = "get"
  <2>1. CASE n = [q EXCEPT !.pc = pc]
    BY <1>3, <2>1 DEF Shape
  <2>2. CASE n = [q EXCEPT !.pc = pc, !.status = status]
    BY <1>3, <2>2 DEF Shape
  <2> QED BY <1>4, <2>1, <2>2
<1>6. Past(n) => Good(n)
  BY <1>2, <1>3, <1>4, <1>5 DEF Served, Past, Good, Readers
<1> QED BY <1>3, <1>4, <1>5, <1>6

LEMMA ReadRowEffect ==
    ASSUME Requesting, NEW r \in Request, ReadRow(r)
    PROVE  Effect(r)
<1> DEFINE s == In(r).token
<1>1. /\ req[r].pc \in Readers /\ req[r].reading = "get" /\ ~At(r, "new")
      /\ (At(r, "handler") => Reads(In(r).route))
      /\ UNCHANGED <<conf, clock, specs, rows>>
  BY DEF ReadRow, rvars, Readers, At
<1>2. CASE req' = [req EXCEPT ![r] = Invalid(r)]
  <2>1. PICK n : n = Invalid(r)
    OBVIOUS
  <2> QED BY <1>1, <1>2, <2>1, InvalidResult, MoveEffect
<1>3. CASE req' = [req EXCEPT ![r] = Valid(r)] /\ s # None /\ rows[s] # None /\ Idle = 0
  <2>1. ~req[r].late
    BY <1>1, <1>3 DEF Requesting, Dead, Fresh
  <2>2. PICK n : n = Valid(r)
    OBVIOUS
  <2> QED BY <1>1, <1>3, <2>1, <2>2, ValidResult, MoveEffect
<1>4. CASE /\ s # None /\ rows[s] # None
           /\ req' = [req EXCEPT ![r] = [req[r] EXCEPT !.reading = IF Fresh(s, clock) THEN "touch" ELSE "drop"]]
  <2>1. PICK n : n = [req[r] EXCEPT !.reading = IF Fresh(s, clock) THEN "touch" ELSE "drop"]
    OBVIOUS
  <2>2. Served(req[r]) /\ Shape(req[r])
    BY DEF Requesting, Served
  <2>3. Shape(n) /\ n.pc = req[r].pc /\ n.input = req[r].input /\ n.late = req[r].late /\ n.seen = req[r].seen
        /\ n.reading = (IF Fresh(s, clock) THEN "touch" ELSE "drop")
    BY <2>1, <2>2 DEF Shape
  <2>4. Served(n)
    BY <1>1, <1>4, <2>2, <2>3 DEF Served, Past, Good, In, At
  <2>5. req'[r] = n /\ req' = [req EXCEPT ![r] = n]
    BY <1>4, <2>1 DEF Requesting
  <2> QED BY <1>1, <1>4, <2>3, <2>4, <2>5 DEF Effect, In, At, Requesting
<1> QED BY <1>2, <1>3, <1>4 DEF ReadRow, Put

LEMMA TouchEffect ==
    ASSUME Requesting, NEW r \in Request, Touch(r)
    PROVE  Effect(r)
<1> DEFINE s == In(r).token
<1>1. /\ req[r].reading = "touch" /\ rows' = [rows EXCEPT ![s] = Touched(s)]
      /\ UNCHANGED <<conf, clock, specs>>
  BY DEF Touch, rvars
<1>2. Served(req[r]) /\ Shape(req[r]) /\ req[r].pc \in Readers /\ ~At(r, "new")
  BY <1>1 DEF Requesting, Served, Readers, At
<1>3. s \in Session
  BY <1>1, <1>2 DEF Served, Input, In, Readers
<1>4. Touched(s) = (IF rows[s] = None THEN None ELSE clock)
  BY DEF Touched
<1>5. /\ rows' \in [Session -> Nat \cup {None}]
      /\ \A t \in Session :
             \/ rows'[t] = rows[t] \/ rows'[t] = None
             \/ rows[t] # None /\ rows'[t] = clock /\ req[r].reading = "touch" /\ In(r).token = t
  BY <1>1, <1>3, <1>4 DEF Requesting
<1>6. CASE Touched(s) = None
  <2>1. PICK n : n = [req[r] EXCEPT !.reading = "get", !.pc = "done", !.status = 404]
    OBVIOUS
  <2>2. req' = [req EXCEPT ![r] = n]
    BY <1>6, <2>1 DEF Touch, Put
  <2>3. Shape(n) /\ n.pc = "done" /\ n.input = req[r].input /\ n.late = req[r].late /\ n.seen = req[r].seen
        /\ n.reading = "get"
    BY <1>2, <2>1 DEF Shape
  <2>4. Past(n) => Good(n)
    BY <1>2, <2>3 DEF Served, Past, Good, At
  <2> QED BY <1>1, <1>2, <1>5, <2>2, <2>3, <2>4, RowsEffect
<1>7. CASE Touched(s) # None
  <2>1. rows[s] # None /\ s # None /\ req[r].reading = "touch" /\ In(r).token = s
    BY <1>1, <1>2, <1>4, <1>7 DEF Served, In
  <2>2. ~Dead(s)
    BY <2>1 DEF Dead
  <2>3. ~req[r].late
    BY <1>2, <2>2 DEF Requesting
  <2>4. PICK n : n = Valid(r) /\ req' = [req EXCEPT ![r] = n]
    BY <1>7 DEF Touch, Put
  <2> QED BY <1>1, <1>2, <1>5, <2>3, <2>4, ValidResult, RowsEffect
<1> QED BY <1>6, <1>7

LEMMA DropIdleEffect ==
    ASSUME Requesting, NEW r \in Request, DropIdle(r)
    PROVE  Effect(r)
<1>1. /\ req[r].reading = "drop" /\ rows' = [rows EXCEPT ![In(r).token] = None]
      /\ UNCHANGED <<conf, clock, specs>>
  BY DEF DropIdle, rvars
<1>2. req[r].pc \in Readers /\ ~At(r, "new")
  BY <1>1 DEF Requesting, Served, Readers, At
<1>3. /\ rows' \in [Session -> Nat \cup {None}]
      /\ \A t \in Session : rows'[t] = rows[t] \/ rows'[t] = None
  BY <1>1 DEF Requesting
<1>4. PICK n : n = Invalid(r) /\ req' = [req EXCEPT ![r] = n]
  BY DEF DropIdle, Put
<1> QED BY <1>1, <1>2, <1>3, <1>4, InvalidResult, RowsEffect

(* A part of a plugin, or the handler, sees the request.                   *)
LEMMA HooksEffect ==
    ASSUME Requesting, NEW r \in Request, Hooks(r)
    PROVE  Effect(r)
<1>1. /\ Past(req[r]) /\ Shape(req[r]) /\ ~At(r, "new") /\ req[r].reading = "get"
      /\ UNCHANGED <<conf, specs, clock, rows>>
  BY DEF Hooks, At, In, Past, Requesting, Served, Readers, rvars
<1>2. PICK q : q = Saw(r, "hook")
  OBVIOUS
<1>3. Shape(q) /\ q.input = req[r].input /\ q.late = req[r].late /\ q.reading = "get"
  BY <1>1, <1>2 DEF Saw, Shape
<1>4. PICK n : /\ req' = [req EXCEPT ![r] = n]
               /\ \/ n = [q EXCEPT !.pc = "middleware"]
                  \/ n = [q EXCEPT !.pc = "response", !.status = 202]
                  \/ n = [q EXCEPT !.pc = "done", !.status = 500]
  BY <1>2 DEF Hooks, Put, Early
<1>5. Moved(req[r], n)
  <2>1. CASE n = [q EXCEPT !.pc = "middleware"]
    BY <1>3, <2>1 DEF Shape, Moved
  <2>2. CASE n = [q EXCEPT !.pc = "response", !.status = 202]
    BY <1>3, <2>2 DEF Shape, Moved
  <2>3. CASE n = [q EXCEPT !.pc = "done", !.status = 500]
    BY <1>3, <2>3 DEF Shape, Moved
  <2> QED BY <1>4, <2>1, <2>2, <2>3
<1> QED BY <1>1, <1>4, <1>5, PastEffect

LEMMA MiddlewaresEffect ==
    ASSUME Requesting, NEW r \in Request, Middlewares(r)
    PROVE  Effect(r)
<1>1. /\ Past(req[r]) /\ Shape(req[r]) /\ ~At(r, "new") /\ req[r].reading = "get"
      /\ UNCHANGED <<conf, specs, clock, rows>>
  BY DEF Middlewares, At, In, Past, Requesting, Served, Readers, rvars
<1>2. PICK q : q = Saw(r, "middleware")
  OBVIOUS
<1>3. Shape(q) /\ q.input = req[r].input /\ q.late = req[r].late /\ q.reading = "get"
  BY <1>1, <1>2 DEF Saw, Shape
<1>4. PICK n : /\ req' = [req EXCEPT ![r] = n]
               /\ \/ n = [q EXCEPT !.pc = "dependency"]
                  \/ n = [q EXCEPT !.pc = "handler"]
                  \/ n = [q EXCEPT !.pc = "done", !.status = 403]
                  \/ n = [q EXCEPT !.pc = "after", !.status = 202]
                  \/ n = [q EXCEPT !.pc = "done", !.status = 500]
  BY <1>2 DEF Middlewares, Put, PassCsrf
<1>5. Moved(req[r], n)
  <2>1. CASE n = [q EXCEPT !.pc = "dependency"]
    BY <1>3, <2>1 DEF Shape, Moved
  <2>2. CASE n = [q EXCEPT !.pc = "handler"]
    BY <1>3, <2>2 DEF Shape, Moved
  <2>3. CASE n = [q EXCEPT !.pc = "done", !.status = 403]
    BY <1>3, <2>3 DEF Shape, Moved
  <2>4. CASE n = [q EXCEPT !.pc = "after", !.status = 202]
    BY <1>3, <2>4 DEF Shape, Moved
  <2>5. CASE n = [q EXCEPT !.pc = "done", !.status = 500]
    BY <1>3, <2>5 DEF Shape, Moved
  <2> QED BY <1>4, <2>1, <2>2, <2>3, <2>4, <2>5
<1> QED BY <1>1, <1>4, <1>5, PastEffect

LEMMA EnterEffect ==
    ASSUME Requesting, NEW r \in Request, Enter(r)
    PROVE  Effect(r)
<1>1. /\ Past(req[r]) /\ Shape(req[r]) /\ ~At(r, "new") /\ req[r].reading = "get"
      /\ UNCHANGED <<conf, specs, clock, rows>>
  BY DEF Enter, At, In, Past, Requesting, Served, Readers, rvars
<1>2. PICK q : q = Saw(r, "handler")
  OBVIOUS
<1>3. Shape(q) /\ q.input = req[r].input /\ q.late = req[r].late /\ q.reading = "get"
  BY <1>1, <1>2 DEF Saw, Shape
<1>4. PICK n : /\ req' = [req EXCEPT ![r] = n]
               /\ n = [q EXCEPT !.pc = "act"]
  BY <1>2 DEF Enter, Put
<1>5. Moved(req[r], n)
  <2>1. CASE n = [q EXCEPT !.pc = "act"]
    BY <1>3, <2>1 DEF Shape, Moved
  <2> QED BY <1>4, <2>1
<1> QED BY <1>1, <1>4, <1>5, PastEffect

(* A request that acts or publishes is past its guard and reads nothing.   *)
LEMMA Acting ==
    ASSUME Requesting, NEW r \in Request, req[r].pc \in {"act", "publish", "after", "response"}
    PROVE  Past(req[r]) /\ Shape(req[r]) /\ Good(req[r]) /\ ~At(r, "new") /\ req[r].reading = "get"
BY DEF At, Past, Requesting, Served, Readers

LEMMA PublishEffect ==
    ASSUME Requesting, NEW r \in Request, req[r].pc \in {"act", "publish"}, NEW events,
           req' = [req EXCEPT ![r] = Publishing(req[r], events)], UNCHANGED <<conf, specs, clock>>,
           rows' \in [Session -> Nat \cup {None}], \A s \in Session : rows'[s] = rows[s] \/ rows'[s] = None
    PROVE  Effect(r)
<1>1. Past(req[r]) /\ Shape(req[r]) /\ Good(req[r]) /\ ~At(r, "new") /\ req[r].reading = "get"
  BY Acting
<1>2. PICK n : n = Publishing(req[r], events)
  OBVIOUS
<1>3. Shape(n) /\ n.input = req[r].input /\ n.late = req[r].late /\ n.reading = "get" /\ n.pc # "new"
  <2>1. CASE n = [req[r] EXCEPT !.pc = "after", !.status = 200]
    BY <1>1, <2>1 DEF Shape
  <2>2. CASE n = [req[r] EXCEPT !.pc = "publish", !.pub = Publish(Head(events)), !.left = Tail(events),
                                !.awaited = Registered(Head(events)), !.called = <<>>]
    BY <1>1, <2>2 DEF Shape
  <2> QED BY <1>2, <2>1, <2>2 DEF Publishing
<1>4. Good(n)
  BY <1>1, <1>3 DEF Good
<1> QED BY <1>1, <1>2, <1>3, <1>4, RowsEffect

LEMMA ActEffect ==
    ASSUME Requesting, NEW r \in Request, NoEffect(r) \/ AfterHooks(r) \/ ResponseHooks(r)
    PROVE  Effect(r)
<1>1. req[r].pc \in {"act", "after", "response"} /\ UNCHANGED <<conf, specs, clock, rows>>
  BY DEF NoEffect, AfterHooks, ResponseHooks, At, rvars
<1>2. Past(req[r]) /\ Shape(req[r]) /\ ~At(r, "new") /\ req[r].reading = "get"
  BY <1>1, Acting
<1>3. PICK n : /\ req' = [req EXCEPT ![r] = n]
               /\ \/ n = [req[r] EXCEPT !.pc = "after", !.status = 200]
                  \/ n = [req[r] EXCEPT !.pc = "response"]
                  \/ n = [req[r] EXCEPT !.pc = "done"]
                  \/ n = [req[r] EXCEPT !.pc = "done", !.status = 500]
  BY DEF NoEffect, AfterHooks, ResponseHooks, Put, Answer
<1>4. Moved(req[r], n)
  <2>1. CASE n = [req[r] EXCEPT !.pc = "after", !.status = 200]
    BY <1>1, <1>2, <2>1 DEF Shape, Moved
  <2>2. CASE n = [req[r] EXCEPT !.pc = "response"]
    BY <1>1, <1>2, <2>2 DEF Shape, Moved
  <2>3. CASE n = [req[r] EXCEPT !.pc = "done"]
    BY <1>1, <1>2, <2>3 DEF Shape, Moved
  <2>4. CASE n = [req[r] EXCEPT !.pc = "done", !.status = 500]
    BY <1>1, <1>2, <2>4 DEF Shape, Moved
  <2> QED BY <1>3, <2>1, <2>2, <2>3, <2>4
<1> QED BY <1>1, <1>2, <1>3, <1>4, PastEffect

LEMMA ReadinessEffect ==
    ASSUME Requesting, NEW r \in Request, check_readiness(r)
    PROVE  Effect(r)
<1>1. req[r].pc \in {"act"} /\ UNCHANGED <<conf, specs, clock, rows>>
  BY DEF check_readiness, At, rvars
<1>2. Past(req[r]) /\ Shape(req[r]) /\ ~At(r, "new") /\ req[r].reading = "get"
  BY <1>1, Acting
<1>3. PICK n : /\ req' = [req EXCEPT ![r] = n]
               /\ \/ n = [req[r] EXCEPT !.up = TRUE]
                  \/ n = [req[r] EXCEPT !.pc = "after", !.status = 200]
                  \/ n = [req[r] EXCEPT !.pc = "done", !.status = 503]
  BY DEF check_readiness, Put, Answer
<1>4. Moved(req[r], n)
  <2>1. CASE n = [req[r] EXCEPT !.up = TRUE]
    BY <1>1, <1>2, <2>1 DEF Shape, Moved
  <2>2. CASE n = [req[r] EXCEPT !.pc = "after", !.status = 200]
    BY <1>1, <1>2, <2>2 DEF Shape, Moved
  <2>3. CASE n = [req[r] EXCEPT !.pc = "done", !.status = 503]
    BY <1>1, <1>2, <2>3 DEF Shape, Moved
  <2> QED BY <1>3, <2>1, <2>2, <2>3
<1> QED BY <1>1, <1>2, <1>3, <1>4, PastEffect

LEMMA RevokeEffect ==
    ASSUME Requesting, NEW r \in Request, Revoke(r)
    PROVE  Effect(r)
<1>1. /\ req[r].pc = "act" /\ UNCHANGED <<conf, specs, clock>>
      /\ rows' = [s \in Session |-> IF s \in Revoked(In(r)) THEN None ELSE rows[s]]
  BY DEF Revoke, At, rvars
<1>2. Past(req[r]) /\ Shape(req[r]) /\ Good(req[r]) /\ ~At(r, "new") /\ req[r].reading = "get"
  BY <1>1, Acting
<1>3. /\ rows' \in [Session -> Nat \cup {None}]
      /\ \A s \in Session : rows'[s] = rows[s] \/ rows'[s] = None
  BY <1>1 DEF Requesting
<1>4. CASE req' = [req EXCEPT ![r] = [req[r] EXCEPT !.pc = "done", !.status = 404]]
  <2>1. PICK n : n = [req[r] EXCEPT !.pc = "done", !.status = 404]
    OBVIOUS
  <2>2. Shape(n) /\ n.pc = "done" /\ n.input = req[r].input /\ n.late = req[r].late /\ n.reading = "get"
    BY <1>2, <2>1 DEF Shape
  <2>3. Good(n)
    BY <1>2, <2>2 DEF Good
  <2> QED BY <1>1, <1>2, <1>3, <1>4, <2>1, <2>2, <2>3, RowsEffect
<1>5. CASE \E events : req' = [req EXCEPT ![r] = Publishing(req[r], events)]
  BY <1>1, <1>3, <1>5, PublishEffect
<1> QED BY <1>4, <1>5 DEF Revoke, Put, Answer

LEMMA PublicationEffect ==
    ASSUME Requesting, NEW r \in Request, PluginEndpoint(r) \/ Published(r)
    PROVE  Effect(r)
<1>1. req[r].pc \in {"act", "publish"} /\ UNCHANGED <<conf, specs, clock, rows>>
  BY DEF PluginEndpoint, Published, At, rvars
<1>2. /\ rows' \in [Session -> Nat \cup {None}]
      /\ \A s \in Session : rows'[s] = rows[s]
  BY <1>1 DEF Requesting
<1>3. CASE \E events : req' = [req EXCEPT ![r] = Publishing(req[r], events)]
  BY <1>1, <1>2, <1>3, PublishEffect
<1>4. CASE req' = [req EXCEPT ![r] = [req[r] EXCEPT !.pc = "done", !.status = 500]]
  <2>1. PICK n : n = [req[r] EXCEPT !.pc = "done", !.status = 500] /\ req' = [req EXCEPT ![r] = n]
    BY <1>4
  <2>2. Past(req[r]) /\ Shape(req[r]) /\ ~At(r, "new") /\ req[r].reading = "get"
    BY <1>1, Acting
  <2>3. Moved(req[r], n)
    BY <2>1, <2>2 DEF Shape, Moved
  <2> QED BY <1>1, <2>1, <2>2, <2>3, PastEffect
<1>5. CASE PluginEndpoint(r)
  BY <1>3, <1>5 DEF PluginEndpoint, Put
<1>6. CASE Published(r)
  BY <1>3, <1>4, <1>6 DEF Published, Put, Answer
<1> QED BY <1>5, <1>6

LEMMA CallHandlerEffect ==
    ASSUME Requesting, NEW r \in Request, CallHandler(r)
    PROVE  Effect(r)
<1>1. req[r].pc = "publish" /\ UNCHANGED <<conf, specs, clock, rows>>
  BY DEF CallHandler, At, rvars
<1>2. Past(req[r]) /\ Shape(req[r]) /\ ~At(r, "new") /\ req[r].reading = "get"
  BY <1>1, Acting
<1>3. PICK called, pub : req' = [req EXCEPT ![r] = [req[r] EXCEPT !.called = called, !.pub = pub]]
  BY DEF CallHandler, Put
<1>4. PICK n : n = [req[r] EXCEPT !.called = called, !.pub = pub]
  OBVIOUS
<1>5. Moved(req[r], n)
  BY <1>1, <1>2, <1>4 DEF Shape, Moved
<1> QED BY <1>1, <1>2, <1>3, <1>4, <1>5, PastEffect

LEMMA StepEffect ==
    ASSUME Requesting, NEW r \in Request, Step(r)
    PROVE  Effect(r)
BY CheckEffect, ReadRowEffect, TouchEffect, DropIdleEffect, HooksEffect, MiddlewaresEffect, EnterEffect, ActEffect,
   ReadinessEffect, RevokeEffect, PublicationEffect, CallHandlerEffect DEF Step

(* What a step of one request means for every other one.                   *)
LEMMA DeadStaysDead ==
    ASSUME Requesting, NEW r \in Request, Effect(r), NEW s \in Session \cup {None}, Dead(s)
    PROVE  Dead(s)'
<1>1. CASE s = None
  BY <1>1 DEF Dead
<1>2. CASE s # None /\ (rows[s] = None \/ rows'[s] = None)
  BY <1>2 DEF Dead, Effect
<1>3. CASE s # None /\ rows[s] # None /\ rows'[s] # None
  <2>1. ~Fresh(s, clock) /\ \A q \in Request : ~(req[q].reading = "touch" /\ In(q).token = s)
    BY <1>3 DEF Dead
  <2>2. rows'[s] = rows[s]
    BY <1>3, <2>1 DEF Effect
  <2>3. ASSUME NEW q \in Request PROVE ~(req'[q].reading = "touch" /\ req'[q].input.token = s)
    <3>1. CASE q = r
      BY <2>1, <3>1 DEF Effect, In
    <3>2. CASE q # r
      <4>1. req'[q] = req[q]
        BY <3>2 DEF Effect, Requesting
      <4> QED BY <2>1, <4>1 DEF In
    <3> QED BY <3>1, <3>2
  <2>4. ~Fresh(s, clock)'
    BY <2>1, <2>2 DEF Fresh, Effect
  <2> QED BY <2>3, <2>4 DEF Dead, In
<1> QED BY <1>1, <1>2, <1>3

LEMMA EffectKeeps ==
    ASSUME Requesting, NEW r \in Request, Effect(r)
    PROVE  Requesting'
<1>1. /\ UNCHANGED <<conf, specs, clock>> /\ Routes' = Routes /\ rows' \in [Session -> Nat \cup {None}]
  BY RoutesStay DEF Effect
<1>2. ASSUME NEW q \in Request, q # r PROVE req'[q] = req[q]
  BY <1>2 DEF Effect, Requesting
<1>3. req' = [q \in Request |-> req'[q]]
  BY DEF Effect, Requesting
<1>4. ASSUME NEW q \in Request PROVE Served(req'[q])
  BY <1>2 DEF Effect, Requesting
<1>5. ASSUME NEW q \in Request PROVE Served(req[q])'
  BY <1>1, <1>4 DEF Served, Shape, Past, Good
<1>6. ASSUME NEW q \in Request, req'[q].pc # "new", req'[q].late PROVE Dead(In(q).token)'
  <2>1. req[q].pc # "new" /\ req[q].late /\ req'[q].input = req[q].input
    BY <1>2, <1>6 DEF Effect, At, In
  <2>2. PICK s : s = req[q].input.token
    OBVIOUS
  <2>3. Dead(s) /\ s \in Session \cup {None}
    BY <2>1, <2>2 DEF Requesting, Served, Input, At, In
  <2>4. Dead(s)'
    BY <2>3, DeadStaysDead
  <2> QED BY <2>1, <2>2, <2>4 DEF Dead, In
<1>7. (conf \in Confs /\ Accepted(specs) /\ specs \subseteq EndpointSpec /\ clock \in Nat)'
  BY <1>1 DEF Requesting, Accepted, Unique, Mounted
<1> QED BY <1>1, <1>3, <1>5, <1>6, <1>7 DEF Requesting, At

LEMMA SendKeeps ==
    ASSUME Requesting, NEW r \in Request, Send(r)
    PROVE  Requesting'
<1>1. /\ At(r, "new") /\ UNCHANGED <<conf, clock, specs, rows>> /\ Routes' = Routes
  BY RoutesStay DEF Send, rvars
<1>2. PICK i \in conf.inputs :
        /\ i.route \in Routes
        /\ req' = [req EXCEPT ![r] = [NoRequest EXCEPT
               !.input = i, !.late = ~Alive(i.token), !.pc = IF PassesMiddleware(i) THEN "limit" ELSE "done",
               !.status = IF PassesMiddleware(i) THEN 0 ELSE 403]]
  BY ZenonT(60) DEF Send, Put
<1>20. PICK n : n = [NoRequest EXCEPT !.input = i, !.late = ~Alive(i.token),
                                     !.pc = IF PassesMiddleware(i) THEN "limit" ELSE "done",
                                     !.status = IF PassesMiddleware(i) THEN 0 ELSE 403]
  OBVIOUS
<1>3. i \in Input
  BY InputAssumption DEF Requesting
<1>4. Shape(n) /\ n.pc \in {"limit", "done"} /\ n.input = i /\ n.late = ~Alive(i.token) /\ n.seen = {}
      /\ n.reading = "get"
  BY <1>20 DEF NoRequest, Shape
<1>5. req'[r] = n /\ \A q \in Request \ {r} : req'[q] = req[q]
  BY <1>2, <1>20 DEF Requesting
<1>6. req' = [q \in Request |-> req'[q]]
  BY <1>2 DEF Requesting
<1>7. Served(n)
  BY <1>2, <1>3, <1>4 DEF Served, Past
<1>8. ASSUME NEW q \in Request PROVE Served(req[q])'
  <2>1. Served(req'[q])
    BY <1>5, <1>7 DEF Requesting
  <2> QED BY <1>1, <2>1 DEF Served, Shape, Past, Good
<1>9. ASSUME NEW s, Dead(s) PROVE Dead(s)'
  BY <1>1, <1>4, <1>5, <1>9 DEF Dead, Fresh, In
<1>10. ASSUME NEW q \in Request, req'[q].pc # "new", req'[q].late PROVE Dead(In(q).token)'
  <2>1. PICK s : s = req'[q].input.token
    OBVIOUS
  <2>2. Dead(s)
    <3>1. CASE q = r
      BY <1>4, <1>5, <1>10, <2>1, <3>1 DEF Alive, Dead
    <3>2. CASE q # r
      BY <1>5, <1>10, <2>1, <3>2 DEF Requesting, At, In
    <3> QED BY <3>1, <3>2
  <2> QED BY <1>9, <2>1, <2>2 DEF Dead, In
<1>11. (conf \in Confs /\ Accepted(specs) /\ specs \subseteq EndpointSpec /\ clock \in Nat
        /\ rows \in [Session -> Nat \cup {None}])'
  BY <1>1 DEF Requesting, Accepted, Unique, Mounted
<1> QED BY <1>6, <1>8, <1>10, <1>11 DEF Requesting, At

LEMMA TickKeeps ==
    ASSUME Requesting, Tick
    PROVE  Requesting'
<1>1. clock' = clock + 1 /\ UNCHANGED <<conf, specs, rows, req>> /\ Routes' = Routes
  BY RoutesStay DEF Tick, rvars
<1>2. ASSUME NEW q \in Request PROVE Served(req[q])'
  BY <1>1 DEF Requesting, Served, Shape, Past, Good
<1>3. ASSUME NEW s \in Session \cup {None}, Dead(s) PROVE Dead(s)'
  <2>1. rows[s] # None /\ s # None /\ ~Fresh(s, clock) => ~Fresh(s, clock)'
    BY <1>1, WindowAssumption DEF Requesting, Fresh
  <2> QED BY <1>1, <1>3, <2>1 DEF Dead, In
<1>4. ASSUME NEW q \in Request, req'[q].pc # "new", req'[q].late PROVE Dead(In(q).token)'
  <2>1. PICK s : s = req[q].input.token
    OBVIOUS
  <2>2. Dead(s) /\ s \in Session \cup {None}
    BY <1>1, <1>4, <2>1 DEF Requesting, Served, Input, At, In
  <2> QED BY <1>1, <1>3, <2>1, <2>2 DEF Dead, In
<1> QED BY <1>1, <1>2, <1>4 DEF Requesting, Accepted, Unique, Mounted, At

LEMMA OthersKeep ==
    ASSUME Requesting, UNCHANGED <<conf, hvars>>
    PROVE  Requesting'
<1>1. UNCHANGED <<conf, clock, specs, rows, req>> /\ Routes' = Routes
  BY RoutesStay DEF hvars
<1>2. ASSUME NEW q \in Request PROVE Served(req[q])'
  BY <1>1 DEF Requesting, Served, Shape, Past, Good
<1>3. ASSUME NEW q \in Request, req'[q].pc # "new", req'[q].late PROVE Dead(In(q).token)'
  BY <1>1, <1>3 DEF Requesting, Dead, Fresh, In, At
<1> QED BY <1>1, <1>2, <1>3 DEF Requesting, Accepted, Unique, Mounted, At

LEMMA RequestingInit ==
    ASSUME Init
    PROVE  Requesting
<1>1. conf \in Confs /\ Accepted(specs) /\ specs \subseteq EndpointSpec /\ clock = 0
      /\ rows = [s \in Session |-> 0] /\ req = [r \in Request |-> NoRequest]
  BY InputAssumption, CandidateAssumption DEF Init, RuntimeInit
<1>2. Shape(NoRequest) /\ Served(NoRequest)
  BY DEF NoRequest, Shape, Served
<1>3. \A r \in Request : req[r] = NoRequest /\ req[r].pc = "new"
  BY <1>1 DEF NoRequest
<1> QED BY <1>1, <1>2, <1>3 DEF Requesting, At

LEMMA RequestingStep ==
    ASSUME Requesting, [Next]_vars
    PROVE  Requesting'
<1>1. CASE LifespanStep /\ UNCHANGED hvars
  <2>1. UNCHANGED conf
    BY <1>1 DEF LifespanStep, OpenDatabase, StartPlugin, Serve, Leave, StopPlugin, CloseDatabase
  <2> QED BY <1>1, <2>1, OthersKeep
<1>2. CASE OnEvent
  BY <1>2, OthersKeep DEF OnEvent, On
<1>3. CASE \E r \in Request : Send(r) \/ Step(r)
  BY <1>3, SendKeeps, StepEffect, EffectKeeps
<1>4. CASE Tick
  BY <1>4, TickKeeps
<1>5. CASE UNCHANGED vars
  BY <1>5, OthersKeep DEF vars, rvars
<1> QED BY <1>1, <1>2, <1>3, <1>4, <1>5 DEF Next

(* No part of a plugin sees a request to a guarded route whose session was *)
(* not there when it arrived, nor one that a route's CSRF check refuses,   *)
(* whatever the endpoints and whatever other requests revoke meanwhile.    *)
THEOREM SeenWithSessionAlways == Spec => []SeenWithSession
<1>1. Init => Requesting
  BY RequestingInit
<1>2. Requesting /\ [Next]_vars => Requesting'
  BY RequestingStep
<1>3. Requesting => SeenWithSession
  BY DEF Requesting, Served, Past, Good, SeenWithSession, In
<1> QED BY <1>1, <1>2, <1>3, PTL DEF Spec

(* No step brings a revoked session back, though others had read its row.  *)
LEMMA GoneStays ==
    ASSUME Requesting, [Next]_vars, NEW s \in Session, rows[s] = None
    PROVE  rows'[s] = None
<1>1. CASE \E r \in Request : Step(r)
  BY <1>1, StepEffect DEF Effect
<1>2. CASE ~\E r \in Request : Step(r)
  BY <1>2 DEF Next, OnEvent, Send, Tick, hvars, vars
<1> QED BY <1>1, <1>2

THEOREM RevokedStaysGoneAlways == Spec => RevokedStaysGone
<1>1. Init => Requesting
  BY RequestingInit
<1>2. Requesting /\ [Next]_vars => Requesting'
  BY RequestingStep
<1>3. Requesting /\ [Next]_vars => [\A s \in Session : rows[s] = None => rows'[s] = None]_vars
  BY GoneStays
<1> QED BY <1>1, <1>2, <1>3, PTL DEF Spec, RevokedStaysGone
------------------------------------------------------------------------------
(* The natural numbers are well ordered.                                   *)
LEMMA Least ==
    ASSUME NEW T, T \subseteq Nat, T # {}
    PROVE  \E m \in T : \A k \in T : m <= k
<1> DEFINE R == OpToRel(<, Nat)
<1>1. IsWellFoundedOn(R, Nat)
  BY NatLessThanWellFounded
<1>2. \A x, y \in Nat : y < x => <<y, x>> \in R
  BY DEF OpToRel
<1> HIDE DEF R
<1>3. PICK m \in T : \A y \in T : ~ (<<y, m>> \in R)
  BY <1>1, WFMin
<1>4. ASSUME NEW y \in T PROVE m <= y
  <2>1. y \in Nat /\ m \in Nat /\ ~(y < m)
    BY <1>2, <1>3
  <2> QED BY <2>1
<1> QED BY <1>4
------------------------------------------------------------------------------
(* The event bus: every handler has one place, and subscribing adds one.   *)
Group == [type : Type, handlers : Seq(Handler)]

Bus == Seq(Group)

Wired(b) ==
    /\ b \in Bus
    /\ \A g \in DOMAIN b : b[g].handlers # <<>>
    /\ \A g, h \in DOMAIN b : b[g].type = b[h].type => g = h
    /\ \A g, h \in DOMAIN b : \A k \in DOMAIN b[g].handlers : \A l \in DOMAIN b[h].handlers :
           b[g].handlers[k] = b[h].handlers[l] => g = h /\ k = l

(* Nothing that was there has moved.                                       *)
Longer(b, c) ==
    /\ Len(b) <= Len(c)
    /\ \A g \in DOMAIN b :
        /\ g \in DOMAIN c /\ c[g].type = b[g].type
        /\ \A k \in DOMAIN b[g].handlers :
               k \in DOMAIN c[g].handlers /\ c[g].handlers[k] = b[g].handlers[k]

LEMMA Entry ==
    ASSUME NEW S, NEW s \in Seq(S), NEW i \in DOMAIN s
    PROVE  i \in 1 .. Len(s) /\ i \in Nat /\ Len(s) \in Nat /\ s[i] \in S
OBVIOUS

LEMMA Listed ==
    ASSUME NEW S, NEW n \in Nat, NEW s \in [1 .. n -> S]
    PROVE  s \in Seq(S) /\ Len(s) = n
OBVIOUS

LEMMA BusEntry ==
    ASSUME NEW b \in Bus, NEW g \in DOMAIN b
    PROVE  /\ g \in 1 .. Len(b) /\ g \in Nat /\ Len(b) \in Nat
           /\ b[g] \in Group
           /\ b[g].type \in Type /\ b[g].handlers \in Seq(Handler)
           /\ Len(b[g].handlers) \in Nat /\ DOMAIN b[g].handlers = 1 .. Len(b[g].handlers)
<1>1. g \in 1 .. Len(b) /\ g \in Nat /\ Len(b) \in Nat /\ b[g] \in Group
  BY Entry DEF Bus
<1>2. b[g].type \in Type /\ b[g].handlers \in Seq(Handler)
  BY <1>1 DEF Group
<1>3. Len(b[g].handlers) \in Nat /\ DOMAIN b[g].handlers = 1 .. Len(b[g].handlers)
  BY <1>2
<1> QED BY <1>1, <1>2, <1>3

LEMMA SubscribeOld ==
    ASSUME NEW b, Wired(b), NEW s \in Subscription, NEW e \in DOMAIN b, b[e].type = s.type,
           \A g \in DOMAIN b : \A k \in DOMAIN b[g].handlers : b[g].handlers[k] # s.handler,
           NEW c, c = Subscribe(b, s)
    PROVE  Wired(c) /\ Longer(b, c)
           /\ \A g \in DOMAIN c : \A k \in DOMAIN c[g].handlers :
                  c[g].handlers[k] = s.handler
                  \/ \E h \in DOMAIN b : \E l \in DOMAIN b[h].handlers : b[h].handlers[l] = c[g].handlers[k]
<1>1. c = [g \in DOMAIN b |-> IF b[g].type = s.type
                               THEN [b[g] EXCEPT !.handlers = Append(@, s.handler)] ELSE b[g]]
  BY DEF Subscribe
<1>2. b \in Bus /\ Len(b) \in Nat /\ DOMAIN b = 1 .. Len(b)
  BY DEF Wired, Bus
<1>3. s.handler \in Handler
  BY DEF Subscription
<1>4. ASSUME NEW g \in DOMAIN b
      PROVE  /\ c[g] \in Group
             /\ c[g].type = b[g].type
             /\ g # e => c[g] = b[g]
             /\ g = e => c[g].handlers = Append(b[g].handlers, s.handler)
  <2>1. b[g] \in Group
    BY <1>2, BusEntry
  <2>2. CASE g = e
    <3>1. c[g] = [b[g] EXCEPT !.handlers = Append(@, s.handler)]
      BY <1>1, <2>2
    <3>2. Append(b[g].handlers, s.handler) \in Seq(Handler)
      BY <1>3, <2>1 DEF Group
    <3> QED BY <2>1, <2>2, <3>1, <3>2 DEF Group
  <2>3. CASE g # e
    <3>1. b[g].type # s.type
      BY <2>3 DEF Wired
    <3> QED BY <1>1, <2>1, <2>3, <3>1
  <2> QED BY <2>2, <2>3
<1>5. DOMAIN c = 1 .. Len(b)
  BY <1>1, <1>2
<1>6. c \in Bus /\ Len(c) = Len(b)
  <2>1. c = [g \in 1 .. Len(b) |-> c[g]]
    BY <1>1, <1>2
  <2>2. \A g \in 1 .. Len(b) : c[g] \in Group
    BY <1>2, <1>4
  <2>3. c \in [1 .. Len(b) -> Group]
    BY <2>1, <2>2
  <2>4. c \in Bus
    BY <1>2, <2>3, Listed DEF Bus
  <2> QED BY <1>2, <2>3, <2>4, Listed
<1> DEFINE H(g) == b[g].handlers
<1>7. Len(H(e)) \in Nat /\ H(e) \in Seq(Handler) /\ DOMAIN H(e) = 1 .. Len(H(e))
  BY <1>2, BusEntry
<1>8. /\ DOMAIN c[e].handlers = 1 .. Len(H(e)) + 1
      /\ c[e].handlers[Len(H(e)) + 1] = s.handler
      /\ \A k \in 1 .. Len(H(e)) : c[e].handlers[k] = H(e)[k]
      /\ c[e].handlers # <<>>
  BY <1>3, <1>4, <1>7
<1>9. ASSUME NEW g \in DOMAIN b, NEW k \in DOMAIN c[g].handlers
      PROVE  \/ k \in DOMAIN H(g) /\ c[g].handlers[k] = H(g)[k]
             \/ g = e /\ k = Len(H(e)) + 1 /\ c[g].handlers[k] = s.handler
  <2>1. CASE g = e
    BY <1>7, <1>8, <2>1
  <2>2. CASE g # e
    BY <1>4, <2>2
  <2> QED BY <2>1, <2>2
<1>10. ASSUME NEW g \in DOMAIN b, NEW k \in DOMAIN H(g)
       PROVE  k \in DOMAIN c[g].handlers /\ c[g].handlers[k] = H(g)[k]
  <2>1. CASE g = e
    BY <1>7, <1>8, <2>1
  <2>2. CASE g # e
    BY <1>4, <2>2
  <2> QED BY <2>1, <2>2
<1>11. Longer(b, c)
  BY <1>2, <1>4, <1>5, <1>6, <1>10 DEF Longer
<1>12. \A g \in DOMAIN c : c[g].handlers # <<>>
  BY <1>2, <1>4, <1>5, <1>8 DEF Wired
<1>13. \A g, h \in DOMAIN c : c[g].type = c[h].type => g = h
  BY <1>2, <1>4, <1>5 DEF Wired
<1>14. ASSUME NEW g \in DOMAIN c, NEW h \in DOMAIN c, NEW k \in DOMAIN c[g].handlers, NEW l \in DOMAIN c[h].handlers,
              c[g].handlers[k] = c[h].handlers[l]
       PROVE  g = h /\ k = l
  <2>1. g \in DOMAIN b /\ h \in DOMAIN b
    BY <1>2, <1>5
  <2>2. CASE k \in DOMAIN H(g) /\ c[g].handlers[k] = H(g)[k]
    <3>1. ~(h = e /\ l = Len(H(e)) + 1 /\ c[h].handlers[l] = s.handler)
      BY <1>14, <2>1, <2>2
    <3>2. l \in DOMAIN H(h) /\ c[h].handlers[l] = H(h)[l]
      BY <1>9, <2>1, <3>1
    <3>3. H(g)[k] = H(h)[l]
      BY <1>14, <2>2, <3>2
    <3> QED BY <2>1, <2>2, <3>2, <3>3 DEF Wired
  <2>3. CASE g = e /\ k = Len(H(e)) + 1 /\ c[g].handlers[k] = s.handler
    <3>1. ~(l \in DOMAIN H(h) /\ c[h].handlers[l] = H(h)[l])
      BY <1>14, <2>1, <2>3
    <3> QED BY <1>9, <2>1, <2>3, <3>1
  <2> QED BY <1>9, <2>1, <2>2, <2>3
<1>15. Wired(c)
  BY <1>6, <1>12, <1>13, <1>14 DEF Wired
<1> QED BY <1>2, <1>5, <1>9, <1>11, <1>15

LEMMA SubscribeNew ==
    ASSUME NEW b, Wired(b), NEW s \in Subscription, \A g \in DOMAIN b : b[g].type # s.type,
           \A g \in DOMAIN b : \A k \in DOMAIN b[g].handlers : b[g].handlers[k] # s.handler,
           NEW c, c = Subscribe(b, s)
    PROVE  Wired(c) /\ Longer(b, c)
           /\ \A g \in DOMAIN c : \A k \in DOMAIN c[g].handlers :
                  c[g].handlers[k] = s.handler
                  \/ \E h \in DOMAIN b : \E l \in DOMAIN b[h].handlers : b[h].handlers[l] = c[g].handlers[k]
<1> DEFINE d == [type |-> s.type, handlers |-> <<s.handler>>]
           n == Len(b) + 1
<1>1. c = Append(b, d)
  BY DEF Subscribe
<1>2. b \in Bus /\ Len(b) \in Nat /\ DOMAIN b = 1 .. Len(b)
  BY DEF Wired, Bus
<1>3. d \in Group /\ d.type = s.type /\ d.handlers = <<s.handler>> /\ DOMAIN d.handlers = {1}
      /\ d.handlers[1] = s.handler /\ d.handlers # <<>>
  BY DEF Subscription, Group
<1> HIDE DEF d
<1>4. /\ c \in Bus /\ DOMAIN c = 1 .. n /\ Len(c) = n /\ c[n] = d
      /\ \A g \in DOMAIN b : g \in DOMAIN c /\ c[g] = b[g]
  BY <1>1, <1>2, <1>3 DEF Bus
<1>5. \A g \in DOMAIN c : g \in DOMAIN b \/ g = n
  BY <1>2, <1>4
<1> HIDE DEF n
<1>6. Longer(b, c)
  <2>1. Len(b) <= Len(c)
    BY <1>2, <1>4 DEF n
  <2> QED BY <1>4, <2>1 DEF Longer
<1>7. \A g \in DOMAIN c : c[g].handlers # <<>>
  <2>1. \A g \in DOMAIN b : b[g].handlers # <<>>
    BY DEF Wired
  <2>2. c[n].handlers # <<>> /\ \A g \in DOMAIN b : c[g].handlers = b[g].handlers
    BY <1>3, <1>4
  <2> QED BY <1>5, <2>1, <2>2
<1>8. \A g, h \in DOMAIN c : c[g].type = c[h].type => g = h
  BY <1>3, <1>4, <1>5 DEF Wired
<1>9. ASSUME NEW g \in DOMAIN c, NEW h \in DOMAIN c, NEW k \in DOMAIN c[g].handlers, NEW l \in DOMAIN c[h].handlers,
             c[g].handlers[k] = c[h].handlers[l]
      PROVE  g = h /\ k = l
  <2>1. CASE g = n /\ h = n
    BY <1>3, <1>4, <2>1
  <2>2. CASE g \in DOMAIN b /\ h \in DOMAIN b
    BY <1>4, <1>9, <2>2 DEF Wired
  <2>3. CASE g = n /\ h \in DOMAIN b
    <3>1. c[g].handlers[k] = s.handler /\ c[h].handlers[l] # s.handler
      BY <1>3, <1>4, <2>3
    <3> QED BY <1>9, <3>1
  <2>4. CASE g \in DOMAIN b /\ h = n
    <3>1. c[h].handlers[l] = s.handler /\ c[g].handlers[k] # s.handler
      BY <1>3, <1>4, <2>4
    <3> QED BY <1>9, <3>1
  <2> QED BY <1>5, <2>1, <2>2, <2>3, <2>4
<1>10. Wired(c)
  BY <1>4, <1>7, <1>8, <1>9 DEF Wired
<1>11. ASSUME NEW g \in DOMAIN c, NEW k \in DOMAIN c[g].handlers
       PROVE  \/ c[g].handlers[k] = s.handler
              \/ \E h \in DOMAIN b : \E l \in DOMAIN b[h].handlers : b[h].handlers[l] = c[g].handlers[k]
  BY <1>3, <1>4, <1>5
<1> QED BY <1>6, <1>10, <1>11

LEMMA SubscribeKeeps ==
    ASSUME NEW b, Wired(b), NEW s \in Subscription,
           \A g \in DOMAIN b : \A k \in DOMAIN b[g].handlers : b[g].handlers[k] # s.handler
    PROVE  /\ Wired(Subscribe(b, s)) /\ Longer(b, Subscribe(b, s))
           /\ \A g \in DOMAIN Subscribe(b, s) : \A k \in DOMAIN Subscribe(b, s)[g].handlers :
                  \/ Subscribe(b, s)[g].handlers[k] = s.handler
                  \/ \E h \in DOMAIN b : \E l \in DOMAIN b[h].handlers :
                         b[h].handlers[l] = Subscribe(b, s)[g].handlers[k]
<1>1. PICK c : c = Subscribe(b, s)
  OBVIOUS
<1>2. CASE \E e \in DOMAIN b : b[e].type = s.type
  BY <1>1, <1>2, SubscribeOld
<1>3. CASE \A e \in DOMAIN b : b[e].type # s.type
  BY <1>1, <1>3, SubscribeNew
<1> QED BY <1>2, <1>3

(* The subscriptions made while FastAuth is built, one after the other:    *)
(* the recursion has a solution ...                                        *)
Wiring(f, n) ==
    f = [i \in 0 .. n |-> IF i = 0 THEN <<>> ELSE Subscribe(f[i - 1], Subscribed[i])]

LEMMA WiringExists == \A n \in 0 .. Len(Subscribed) : \E f : Wiring(f, n)
<1>1. Len(Subscribed) \in Nat
  BY SubscribedAssumption
<1> DEFINE N == Len(Subscribed)
           T == {n \in 0 .. N : ~\E f : Wiring(f, n)}
<1>2. SUFFICES ASSUME T # {} PROVE FALSE
  OBVIOUS
<1>3. PICK m \in T : \A k \in T : m <= k
  <2>1. T \subseteq Nat
    BY <1>1
  <2> HIDE DEF T
  <2> QED BY <1>2, <2>1, Least
<1>4. m \in 0 .. N /\ m \in Nat /\ N \in Nat
  BY <1>1
<1>5. CASE m = 0
  <2> DEFINE f == [i \in 0 .. 0 |-> <<>>]
  <2>1. f = [i \in 0 .. 0 |-> IF i = 0 THEN <<>> ELSE Subscribe(f[i - 1], Subscribed[i])]
    OBVIOUS
  <2> QED BY <1>3, <1>5, <2>1 DEF Wiring
<1>6. CASE m # 0
  <2>1. m - 1 \in 0 .. N /\ m - 1 \in Nat /\ ~(m <= m - 1)
    BY <1>4, <1>6
  <2>2. m - 1 \notin T
    BY <1>3, <2>1
  <2>3. PICK g : Wiring(g, m - 1)
    BY <2>1, <2>2
  <2> DEFINE f == [i \in 0 .. m |-> IF i = m THEN Subscribe(g[m - 1], Subscribed[m]) ELSE g[i]]
             e(h, i) == IF i = 0 THEN <<>> ELSE Subscribe(h[i - 1], Subscribed[i])
  <2>4. g = [i \in 0 .. m - 1 |-> e(g, i)]
    BY <2>3 DEF Wiring
  <2>5. ASSUME NEW i \in 0 .. m PROVE f[i] = e(f, i)
    <3>1. CASE i = m
      <4>1. f[m - 1] = g[m - 1]
        BY <1>4, <1>6
      <4> QED BY <1>4, <1>6, <3>1, <4>1
    <3>2. CASE i # m /\ i # 0
      <4>1. i \in 0 .. m - 1 /\ i - 1 \in 0 .. m /\ i - 1 # m
        BY <1>4, <3>2
      <4>2. f[i] = g[i] /\ f[i - 1] = g[i - 1] /\ g[i] = e(g, i)
        BY <2>4, <3>2, <4>1
      <4> QED BY <3>2, <4>2
    <3>3. CASE i # m /\ i = 0
      <4>1. i \in 0 .. m - 1
        BY <1>4, <3>3
      <4>2. f[i] = g[i] /\ g[i] = e(g, i)
        BY <2>4, <3>3, <4>1
      <4> QED BY <3>3, <4>2
    <3> QED BY <3>1, <3>2, <3>3
  <2>6. Wiring(f, m)
    <3>1. f = [i \in 0 .. m |-> f[i]]
      OBVIOUS
    <3> HIDE DEF f
    <3>2. f = [i \in 0 .. m |-> e(f, i)]
      BY <2>5, <3>1
    <3> QED BY <3>2 DEF Wiring
  <2> QED BY <1>3, <2>6
<1> QED BY <1>5, <1>6

LEMMA AssembledIsWiring == Wiring(Assembled, Len(Subscribed))
<1>1. Len(Subscribed) \in 0 .. Len(Subscribed)
  BY SubscribedAssumption
<1>2. \E f : Wiring(f, Len(Subscribed))
  BY <1>1, WiringExists
<1>3. Assembled = CHOOSE f : Wiring(f, Len(Subscribed))
  BY DEF Assembled, Wiring
<1> QED BY <1>2, <1>3

(* ... and its result is a bus that holds the handlers subscribed so far.  *)
Holds(b, n) ==
    /\ Wired(b)
    /\ \A g \in DOMAIN b : \A k \in DOMAIN b[g].handlers :
           \E i \in 1 .. n : b[g].handlers[k] = Subscribed[i].handler

LEMMA AssembledHolds == \A n \in 0 .. Len(Subscribed) : Holds(Assembled[n], n)
<1>1. Len(Subscribed) \in Nat
  BY SubscribedAssumption
<1> DEFINE N == Len(Subscribed)
           T == {n \in 0 .. N : ~Holds(Assembled[n], n)}
<1>2. SUFFICES ASSUME T # {} PROVE FALSE
  OBVIOUS
<1>3. PICK m \in T : \A k \in T : m <= k
  <2>1. T \subseteq Nat
    BY <1>1
  <2> HIDE DEF T
  <2> QED BY <1>2, <2>1, Least
<1>4. m \in 0 .. N /\ m \in Nat /\ N \in Nat
  BY <1>1
<1>5. CASE m = 0
  <2>1. Assembled[m] = <<>>
    BY <1>4, <1>5, AssembledIsWiring DEF Wiring
  <2>2. Wired(<<>>)
    BY DEF Wired, Bus
  <2>3. Holds(Assembled[m], m)
    BY <2>1, <2>2 DEF Holds
  <2> QED BY <1>3, <2>3
<1>6. CASE m # 0
  <2> DEFINE b == Assembled[m - 1]
             s == Subscribed[m]
  <2>1. m - 1 \in 0 .. N /\ ~(m <= m - 1) /\ m \in 1 .. N /\ m \in DOMAIN Subscribed
    BY <1>4, <1>6, SubscribedAssumption
  <2>2. Holds(b, m - 1)
    BY <1>3, <2>1
  <2>3. Assembled[m] = Subscribe(b, s)
    BY <1>4, <1>6, AssembledIsWiring DEF Wiring
  <2>4. s \in Subscription
    BY <2>1, SubscribedAssumption
  <2>5. \A i \in 1 .. m - 1 : i \in DOMAIN Subscribed /\ i # m /\ i \in 1 .. m
    BY <1>4, <2>1, SubscribedAssumption
  <2>6. \A i \in 1 .. m - 1 : Subscribed[i].handler # s.handler
    BY <2>1, <2>5, SubscribedAssumption
  <2> HIDE DEF b, s
  <2>7. \A g \in DOMAIN b : \A k \in DOMAIN b[g].handlers : b[g].handlers[k] # s.handler
    BY <2>2, <2>6 DEF Holds
  <2>8. PICK c : c = Subscribe(b, s)
    OBVIOUS
  <2>9. /\ Wired(c)
        /\ \A g \in DOMAIN c : \A k \in DOMAIN c[g].handlers :
                  \/ c[g].handlers[k] = s.handler
                  \/ \E h \in DOMAIN b : \E l \in DOMAIN b[h].handlers : b[h].handlers[l] = c[g].handlers[k]
    BY <2>2, <2>4, <2>7, <2>8, SubscribeKeeps DEF Holds
  <2>10. m \in 1 .. m /\ s = Subscribed[m]
    BY <1>4, <1>6 DEF s
  <2>11. ASSUME NEW g \in DOMAIN c, NEW k \in DOMAIN c[g].handlers
         PROVE  \E i \in 1 .. m : c[g].handlers[k] = Subscribed[i].handler
    BY <2>2, <2>5, <2>9, <2>10 DEF Holds
  <2>12. Holds(c, m)
    BY <2>9, <2>11 DEF Holds
  <2> QED BY <1>3, <2>3, <2>8, <2>12
<1> QED BY <1>5, <1>6

LEMMA WiredInit ==
    ASSUME RuntimeInit
    PROVE  Wired(subscribers)
<1>1. Len(Subscribed) \in 0 .. Len(Subscribed)
  BY SubscribedAssumption
<1> QED BY <1>1, AssembledHolds DEF RuntimeInit, Holds
------------------------------------------------------------------------------
(* What is typed of a request, and what a step that publishes nothing      *)
(* leaves of it.                                                           *)
Typed(q) ==
    /\ q.pc \in Pc /\ q.status \in Status
    /\ q.reading \in {"get", "touch", "drop"}
    /\ q.seen \subseteq {"hook", "middleware", "handler"}

Kept(q, n) ==
    /\ Shape(n) /\ Typed(n)
    /\ n.pub = q.pub /\ n.awaited = q.awaited /\ n.called = q.called /\ n.left = q.left

LEMMA KeptBoth ==
    ASSUME NEW q, NEW m, NEW n, Kept(q, m), Kept(m, n)
    PROVE  Kept(q, n)
BY DEF Kept

LEMMA KeptPc ==
    ASSUME NEW q, Shape(q), Typed(q), NEW pc \in Pc, NEW n, n = [q EXCEPT !.pc = pc]
    PROVE  Kept(q, n) /\ n.pc = pc /\ n.input = q.input
BY DEF Shape, Typed, Kept

Ended(q, pc, status) == [q EXCEPT !.pc = pc, !.status = status]

LEMMA KeptStatus ==
    ASSUME NEW q, Shape(q), Typed(q), NEW pc \in Pc, NEW status \in Status, NEW n, n = Ended(q, pc, status)
    PROVE  Kept(q, n) /\ n.pc = pc
BY DEF Shape, Typed, Kept, Ended

LEMMA KeptReading ==
    ASSUME NEW q, Shape(q), Typed(q), NEW reading \in {"get", "touch", "drop"},
           NEW n, n = [q EXCEPT !.reading = reading]
    PROVE  Kept(q, n) /\ n.pc = q.pc /\ n.input = q.input
BY DEF Shape, Typed, Kept

LEMMA KeptSeen ==
    ASSUME NEW q, Shape(q), Typed(q), NEW who \in {"hook", "middleware", "handler"},
           NEW n, n = [q EXCEPT !.seen = @ \cup {who}]
    PROVE  Kept(q, n) /\ n.pc = q.pc /\ n.input = q.input
BY DEF Shape, Typed, Kept

LEMMA KeptCsrf ==
    ASSUME NEW q, Shape(q), Typed(q), NEW applies, NEW pc \in Pc, NEW n, n = PassCsrf(q, applies, pc)
    PROVE  Kept(q, n) /\ n.pc \in {"done", pc}
<1>1. "done" \in Pc /\ 403 \in Status
  BY DEF Pc, Status
<1>2. CASE n = [q EXCEPT !.pc = "done", !.status = 403]
  <2>1. n = Ended(q, "done", 403)
    BY <1>2 DEF Ended
  <2> QED BY <1>1, <2>1, KeptStatus
<1>3. CASE n = [q EXCEPT !.pc = pc]
  BY <1>3, KeptPc
<1> QED BY <1>2, <1>3 DEF PassCsrf

(* A step that publishes nothing.  Later: where a request may be when it   *)
(* has published.                                                          *)
Later == {"publish", "after", "response", "done"}

From(q, n) == n.pc \in Pc \ {"publish"} /\ (q.pc \in Later => n.pc \in Later)

Quiet(r) == \E n : req' = [req EXCEPT ![r] = n] /\ Kept(req[r], n) /\ From(req[r], n)

LEMMA QuietCheck ==
    ASSUME NEW r \in Request, Shape(req[r]), Typed(req[r]), check(r)
    PROVE  Quiet(r)
<1>1. req[r].pc = "limit"
  BY DEF check, At
<1>2. ASSUME NEW n, req' = [req EXCEPT ![r] = n], n = PassGuard(req[r])
      PROVE  Quiet(r)
  <2>1. "hooks" \in Pc
    BY DEF Pc
  <2>2. Kept(req[r], n) /\ n.pc \in {"done", "hooks"}
    BY <1>2, <2>1, KeptCsrf DEF PassGuard
  <2>3. From(req[r], n)
    BY <1>1, <2>2 DEF From, Pc, Later
  <2> QED BY <1>2, <2>2, <2>3 DEF Quiet
<1>3. ASSUME NEW n, req' = [req EXCEPT ![r] = n], n = Ended(req[r], "done", 429)
      PROVE  Quiet(r)
  <2>1. "done" \in Pc /\ 429 \in Status
    BY DEF Pc, Status
  <2>2. Kept(req[r], n) /\ n.pc = "done"
    BY <1>3, <2>1, KeptStatus
  <2>3. From(req[r], n)
    BY <1>1, <2>2 DEF From, Pc, Later
  <2> QED BY <1>3, <2>2, <2>3 DEF Quiet
<1>4. ASSUME NEW n, req' = [req EXCEPT ![r] = n], n = [req[r] EXCEPT !.pc = "guard"]
      PROVE  Quiet(r)
  <2>1. "guard" \in Pc
    BY DEF Pc
  <2>2. Kept(req[r], n) /\ n.pc = "guard"
    BY <1>4, <2>1, KeptPc
  <2>3. From(req[r], n)
    BY <1>1, <2>2 DEF From, Pc, Later
  <2> QED BY <1>4, <2>2, <2>3 DEF Quiet
<1>5. \/ req' = [req EXCEPT ![r] = PassGuard(req[r])]
      \/ req' = [req EXCEPT ![r] = Ended(req[r], "done", 429)]
      \/ req' = [req EXCEPT ![r] = [req[r] EXCEPT !.pc = "guard"]]
  BY DEF check, Put, Answer, Ended
<1> QED BY <1>2, <1>3, <1>4, <1>5

(* Where a read of the session ends.                                       *)
LEMMA QuietValid ==
    ASSUME NEW r \in Request, Shape(req[r]), Typed(req[r]), req[r].pc \in Readers, Put(r, Valid(r))
    PROVE  Quiet(r)
<1>1. PICK n : n = Valid(r)
  OBVIOUS
<1>2. PICK q : q = [req[r] EXCEPT !.reading = "get"]
  OBVIOUS
<1>3. Kept(req[r], q) /\ q.pc = req[r].pc /\ q.input = req[r].input /\ Shape(q) /\ Typed(q)
  BY <1>2, KeptReading DEF Kept
<1>4. {"hooks", "handler", "revoke", "act", "done"} \subseteq Pc \ {"publish"} /\ req[r].pc \notin Later
  BY DEF Pc, Readers, Later
<1>5. Kept(req[r], n) /\ n.pc \in {"hooks", "handler", "revoke", "act", "done"}
  <2>1. CASE req[r].pc = "guard"
    <3>1. n = PassGuard(q)
      BY <1>1, <1>2, <2>1 DEF Valid, At
    <3>2. Kept(q, n) /\ n.pc \in {"done", "hooks"}
      BY <1>3, <1>4, <3>1, KeptCsrf DEF PassGuard
    <3> QED BY <1>3, <3>2, KeptBoth
  <2>2. CASE req[r].pc = "dependency"
    <3>1. n = PassCsrf(q, In(r).route.csrf, "handler")
      BY <1>1, <1>2, <2>2 DEF Valid, At
    <3>2. Kept(q, n) /\ n.pc \in {"done", "handler"}
      BY <1>3, <1>4, <3>1, KeptCsrf
    <3> QED BY <1>3, <3>2, KeptBoth
  <2>3. CASE req[r].pc = "handler"
    <3> DEFINE next == IF In(r).route.name = "sign_out" THEN "revoke" ELSE "act"
    <3>1. n = [q EXCEPT !.seen = @ \cup {"handler"}, !.pc = next]
      BY <1>1, <1>2, <2>3 DEF Valid, At
    <3>2. n.pc = next /\ n.seen = q.seen \cup {"handler"} /\ n.status = q.status /\ n.input = q.input /\ n.late = q.late
          /\ n.reading = q.reading /\ n.up = q.up /\ n.pub = q.pub /\ n.awaited = q.awaited
          /\ n.called = q.called /\ n.left = q.left /\ Shape(n)
      BY <1>3, <3>1 DEF Shape
    <3>3. Typed(n) /\ n.pc \in {"revoke", "act"}
      BY <1>3, <1>4, <3>2 DEF Typed
    <3> QED BY <1>3, <3>2, <3>3 DEF Kept
  <2>4. CASE req[r].pc = "revoke"
    <3>1. n = [q EXCEPT !.pc = "act"]
      BY <1>1, <1>2, <2>4 DEF Valid, At
    <3>2. Kept(q, n) /\ n.pc = "act"
      BY <1>3, <1>4, <3>1, KeptPc
    <3> QED BY <1>3, <3>2, KeptBoth
  <2> QED BY <2>1, <2>2, <2>3, <2>4 DEF Readers
<1> QED BY <1>1, <1>4, <1>5 DEF Quiet, From, Put

LEMMA QuietInvalid ==
    ASSUME NEW r \in Request, Shape(req[r]), Typed(req[r]), req[r].pc \in Readers, Put(r, Invalid(r))
    PROVE  Quiet(r)
<1>1. PICK n : n = Invalid(r)
  OBVIOUS
<1>2. PICK q : q = [req[r] EXCEPT !.reading = "get"]
  OBVIOUS
<1>3. Kept(req[r], q) /\ q.pc = req[r].pc /\ q.input = req[r].input /\ Shape(q) /\ Typed(q)
  BY <1>2, KeptReading DEF Kept
<1>4. {"act", "after", "done"} \subseteq Pc \ {"publish"} /\ req[r].pc \notin Later
  BY DEF Pc, Readers, Later
<1>5. Kept(q, n) /\ n.pc \in {"act", "after", "done"}
  <2>1. CASE At(r, "revoke")
    <3>1. n = [q EXCEPT !.pc = "act"]
      BY <1>1, <1>2, <2>1 DEF Invalid
    <3> QED BY <1>3, <1>4, <3>1, KeptPc
  <2>2. CASE ~At(r, "revoke")
    <3> DEFINE mild == At(r, "handler") /\ In(r).route.name \in {"get_session", "sign_out"}
               pc == IF mild THEN "after" ELSE "done"
               status == IF ~mild THEN 401 ELSE IF In(r).route.name = "sign_out" THEN 200 ELSE 204
    <3>1. n = Ended(q, pc, status)
      BY <1>1, <1>2, <2>2 DEF Invalid, Ended
    <3>2. pc \in Pc /\ status \in Status /\ pc \in {"after", "done"}
      BY DEF Pc, Status
    <3> HIDE DEF pc, status
    <3> QED BY <1>3, <3>1, <3>2, KeptStatus
  <2> QED BY <2>1, <2>2
<1> QED BY <1>1, <1>3, <1>4, <1>5, KeptBoth DEF Quiet, From, Put

LEMMA QuietReads ==
    ASSUME NEW r \in Request, Shape(req[r]), Typed(req[r]), req[r].reading # "get" => req[r].pc \in Readers,
           ReadRow(r) \/ Touch(r) \/ DropIdle(r)
    PROVE  Quiet(r)
<1>1. req[r].pc \in Readers
  BY DEF ReadRow, Touch, DropIdle
<1>2. req[r].pc \in Pc \ {"publish"} /\ req[r].pc \notin Later
  BY <1>1 DEF Pc, Readers, Later
<1>3. CASE Put(r, Valid(r))
  BY <1>1, <1>3, QuietValid
<1>4. CASE Put(r, Invalid(r))
  BY <1>1, <1>4, QuietInvalid
<1>5. ASSUME NEW x \in {"touch", "drop"}, req' = [req EXCEPT ![r] = [req[r] EXCEPT !.reading = x]]
      PROVE  Quiet(r)
  <2>1. PICK n : n = [req[r] EXCEPT !.reading = x]
    OBVIOUS
  <2>2. Kept(req[r], n) /\ n.pc = req[r].pc
    BY <2>1, KeptReading
  <2> QED BY <1>2, <1>5, <2>1, <2>2 DEF Quiet, From
<1>6. ASSUME NEW n, req' = [req EXCEPT ![r] = n], n = [req[r] EXCEPT !.reading = "get", !.pc = "done", !.status = 404]
      PROVE  Quiet(r)
  <2>1. n.pc = "done" /\ n.seen = req[r].seen /\ n.status = 404 /\ n.input = req[r].input /\ n.late = req[r].late
        /\ n.reading = "get" /\ n.up = req[r].up /\ n.pub = req[r].pub /\ n.awaited = req[r].awaited
        /\ n.called = req[r].called /\ n.left = req[r].left /\ Shape(n)
    <3>1. n.pc = "done" /\ n.status = 404 /\ n.reading = "get"
      BY <1>6 DEF Shape
    <3>2. n.seen = req[r].seen /\ n.input = req[r].input /\ n.late = req[r].late /\ n.up = req[r].up
      BY <1>6 DEF Shape
    <3>3. n.pub = req[r].pub /\ n.awaited = req[r].awaited /\ n.called = req[r].called /\ n.left = req[r].left
      BY <1>6 DEF Shape
    <3>4. Shape(n)
      BY <1>6, ZenonT(30) DEF Shape
    <3> QED BY <3>1, <3>2, <3>3, <3>4
  <2>2. Typed(n)
    BY <2>1 DEF Typed, Pc, Status
  <2> QED BY <1>2, <1>6, <2>1, <2>2 DEF Quiet, From, Kept, Pc
<1>7. CASE ReadRow(r)
  <2>1. \/ Put(r, Valid(r)) \/ Put(r, Invalid(r))
        \/ \E x \in {"touch", "drop"} : req' = [req EXCEPT ![r] = [req[r] EXCEPT !.reading = x]]
    BY <1>7 DEF ReadRow, Put
  <2> QED BY <1>3, <1>4, <1>5, <2>1
<1>8. CASE Touch(r)
  <2>1. \/ Put(r, Valid(r))
        \/ req' = [req EXCEPT ![r] = [req[r] EXCEPT !.reading = "get", !.pc = "done", !.status = 404]]
    BY <1>8 DEF Touch, Put
  <2> QED BY <1>3, <1>6, <2>1
<1>9. CASE DropIdle(r)
  BY <1>4, <1>9 DEF DropIdle
<1> QED BY <1>7, <1>8, <1>9

LEMMA QuietHooks ==
    ASSUME NEW r \in Request, Shape(req[r]), Typed(req[r]), Hooks(r) \/ Middlewares(r) \/ Enter(r)
    PROVE  Quiet(r)
<1>1. req[r].pc \in {"hooks", "middleware", "handler"} /\ req[r].pc \notin Later
  BY DEF Hooks, Middlewares, Enter, At, Later
<1>2. {"middleware", "response", "done", "dependency", "handler", "after", "act"} \subseteq Pc \ {"publish"}
  BY DEF Pc
<1>3. PICK who \in {"hook", "middleware", "handler"} :
        \/ \E pc \in {"middleware", "dependency", "act"} :
               req' = [req EXCEPT ![r] = [Saw(r, who) EXCEPT !.pc = pc]]
        \/ \E pc \in {"response", "done", "after"} : \E status \in {202, 500} :
               req' = [req EXCEPT ![r] = Ended(Saw(r, who), pc, status)]
        \/ \E applies : req' = [req EXCEPT ![r] = PassCsrf(Saw(r, who), applies, "handler")]
  BY DEF Hooks, Middlewares, Enter, Put, Early, Ended
<1>4. PICK q : q = Saw(r, who)
  OBVIOUS
<1>5. Kept(req[r], q) /\ Shape(q) /\ Typed(q)
  BY <1>4, KeptSeen DEF Saw, Kept
<1>6. ASSUME NEW pc \in {"middleware", "dependency", "act"}, req' = [req EXCEPT ![r] = [q EXCEPT !.pc = pc]]
      PROVE  Quiet(r)
  <2>1. PICK n : n = [q EXCEPT !.pc = pc]
    OBVIOUS
  <2>2. pc \in Pc \ {"publish"}
    BY <1>2
  <2>3. Kept(q, n) /\ n.pc = pc
    BY <1>5, <2>1, <2>2, KeptPc
  <2>4. Kept(req[r], n)
    BY <1>5, <2>3, KeptBoth
  <2> QED BY <1>1, <1>6, <2>1, <2>2, <2>3, <2>4 DEF Quiet, From
<1>7. ASSUME NEW pc \in {"response", "done", "after"}, NEW status \in {202, 500}, req' = [req EXCEPT ![r] = Ended(q, pc, status)]
      PROVE  Quiet(r)
  <2>1. pc \in Pc \ {"publish"} /\ status \in Status
    BY <1>2 DEF Status
  <2>2. PICK n : n = Ended(q, pc, status)
    OBVIOUS
  <2>3. Kept(q, n) /\ n.pc = pc
    BY <1>5, <2>1, <2>2, KeptStatus
  <2>4. Kept(req[r], n)
    BY <1>5, <2>3, KeptBoth
  <2>5. req' = [req EXCEPT ![r] = n]
    BY <1>7, <2>2
  <2>6. From(req[r], n)
    BY <1>1, <2>1, <2>3 DEF From
  <2> QED BY <2>4, <2>5, <2>6 DEF Quiet
<1>8. ASSUME NEW applies, req' = [req EXCEPT ![r] = PassCsrf(q, applies, "handler")]
      PROVE  Quiet(r)
  <2>1. PICK n : n = PassCsrf(q, applies, "handler")
    OBVIOUS
  <2>2. Kept(q, n) /\ n.pc \in {"done", "handler"}
    BY <1>2, <1>5, <2>1, KeptCsrf
  <2>3. Kept(req[r], n)
    BY <1>5, <2>2, KeptBoth
  <2> QED BY <1>1, <1>2, <1>8, <2>1, <2>2, <2>3 DEF Quiet, From
<1> QED BY <1>3, <1>4, <1>6, <1>7, <1>8

LEMMA QuietAnswers ==
    ASSUME NEW r \in Request, Shape(req[r]), Typed(req[r]),
           NoEffect(r) \/ check_readiness(r) \/ AfterHooks(r) \/ ResponseHooks(r)
    PROVE  Quiet(r)
<1>1. req[r].pc \in {"act", "after", "response"}
  BY DEF NoEffect, check_readiness, AfterHooks, ResponseHooks, At
<1>2. {"act", "after", "response", "done"} \subseteq Pc \ {"publish"} /\ {200, 500, 503} \subseteq Status
      /\ {"after", "response", "done"} \subseteq Later
  BY DEF Pc, Status, Later
<1>3. ASSUME NEW pc \in {"after", "done"}, NEW status \in {200, 500, 503}, req' = [req EXCEPT ![r] = Ended(req[r], pc, status)]
      PROVE  Quiet(r)
  <2>1. PICK n : n = Ended(req[r], pc, status)
    OBVIOUS
  <2>2. pc \in Pc /\ status \in Status
    BY <1>2
  <2>3. Kept(req[r], n) /\ n.pc = pc
    BY <2>1, <2>2, KeptStatus
  <2>4. req' = [req EXCEPT ![r] = n]
    BY <1>3, <2>1
  <2>5. From(req[r], n)
    BY <1>2, <2>3 DEF From
  <2> QED BY <2>3, <2>4, <2>5 DEF Quiet
<1>4. ASSUME NEW pc \in {"response", "done"}, req' = [req EXCEPT ![r] = [req[r] EXCEPT !.pc = pc]]
      PROVE  Quiet(r)
  <2>1. PICK n : n = [req[r] EXCEPT !.pc = pc]
    OBVIOUS
  <2>2. pc \in Pc
    BY <1>2
  <2>3. Kept(req[r], n) /\ n.pc = pc
    BY <2>1, <2>2, KeptPc
  <2> QED BY <1>2, <1>4, <2>1, <2>3 DEF Quiet, From
<1>5. ASSUME req[r].pc = "act", req' = [req EXCEPT ![r] = [req[r] EXCEPT !.up = TRUE]]
      PROVE  Quiet(r)
  <2>1. PICK n : n = [req[r] EXCEPT !.up = TRUE]
    OBVIOUS
  <2>2. Kept(req[r], n) /\ n.pc = "act"
    BY <1>5, <2>1 DEF Kept, Shape, Typed
  <2>3. "act" \notin Later
    BY DEF Later
  <2> QED BY <1>2, <1>5, <2>1, <2>2, <2>3 DEF Quiet, From
<1>6. CASE NoEffect(r)
  <2>1. req' = [req EXCEPT ![r] = Ended(req[r], "after", 200)]
    BY <1>6 DEF NoEffect, Put, Ended
  <2> QED BY <1>3, <2>1
<1>7. CASE check_readiness(r)
  <2>1. \/ req' = [req EXCEPT ![r] = Ended(req[r], "after", 200)] \/ req' = [req EXCEPT ![r] = Ended(req[r], "done", 503)]
        \/ req[r].pc = "act" /\ req' = [req EXCEPT ![r] = [req[r] EXCEPT !.up = TRUE]]
    BY <1>7 DEF check_readiness, Put, Answer, Ended, At
  <2> QED BY <1>3, <1>5, <2>1
<1>8. CASE AfterHooks(r) \/ ResponseHooks(r)
  <2>1. \/ req' = [req EXCEPT ![r] = Ended(req[r], "done", 500)]
        \/ \E pc \in {"response", "done"} : req' = [req EXCEPT ![r] = [req[r] EXCEPT !.pc = pc]]
    BY <1>8 DEF AfterHooks, ResponseHooks, Put, Answer, Ended
  <2> QED BY <1>3, <1>4, <2>1
<1> QED BY <1>6, <1>7, <1>8
------------------------------------------------------------------------------
(* A publication walks the places of the handlers that see its event in    *)
(* order; whoever came before the running one has been called.             *)
Before(g, k, p) == g < p.group \/ (g = p.group /\ k < p.at)

Reached(p, awaited, called) ==
    /\ p \in Publication /\ called \in Seq(Handler)
    /\ \A i, j \in DOMAIN called : called[i] = called[j] => i = j
    /\ p.state = "running" =>
        /\ p.group \in DOMAIN subscribers /\ Sees(p.group, p.event)
        /\ p.at \in DOMAIN subscribers[p.group].handlers
        /\ \A j \in DOMAIN called : \E g \in DOMAIN subscribers : \E k \in DOMAIN subscribers[g].handlers :
               Before(g, k, p) /\ called[j] = subscribers[g].handlers[k]
    /\ \A h \in awaited : \E g \in DOMAIN subscribers : \E k \in DOMAIN subscribers[g].handlers :
           /\ Sees(g, p.event) /\ subscribers[g].handlers[k] = h
           /\ (p.state = "finished" \/ (p.state = "running" /\ Before(g, k, p))) =>
                  \E j \in DOMAIN called : called[j] = h

LEMMA AdvanceResult ==
    ASSUME Wired(subscribers), NEW p \in Publication, p.state = "running",
           p.group = 0 \/ p.group \in DOMAIN subscribers, NEW n, n = Advance(p)
    PROVE  /\ n \in Publication /\ n.event = p.event
           /\ \/ /\ p.group # 0 /\ p.at < Len(subscribers[p.group].handlers)
                 /\ n.state = "running" /\ n.group = p.group /\ n.at = p.at + 1
              \/ n.state = "broken"
              \/ /\ ~(p.group # 0 /\ p.at < Len(subscribers[p.group].handlers))
                 /\ n.state = "finished" /\ \A g \in DOMAIN subscribers : Sees(g, p.event) => g <= p.group
              \/ /\ ~(p.group # 0 /\ p.at < Len(subscribers[p.group].handlers))
                 /\ n.state = "running" /\ n.group \in DOMAIN subscribers /\ p.group < n.group
                 /\ Sees(n.group, p.event) /\ n.at = 1
                 /\ \A g \in DOMAIN subscribers : Sees(g, p.event) /\ g < n.group => g <= p.group
<1> DEFINE groups == {g \in p.group + 1 .. Len(subscribers) : Sees(g, p.event)}
           more == p.group # 0 /\ p.at < Len(subscribers[p.group].handlers)
<1>1. Len(subscribers) \in Nat /\ DOMAIN subscribers = 1 .. Len(subscribers) /\ p.group \in Nat /\ p.at \in Nat
  BY DEF Wired, Bus, Publication
<1>2. \A g \in DOMAIN subscribers : Sees(g, p.event) /\ ~(g <= p.group) => g \in groups
  BY <1>1
<1>3. \A g \in groups : g \in Nat /\ g \in DOMAIN subscribers /\ Sees(g, p.event) /\ p.group < g
  BY <1>1
<1>4. CASE more
  <2>1. n = [p EXCEPT !.at = @ + 1]
    BY <1>4 DEF Advance
  <2>2. n \in Publication /\ n.event = p.event /\ n.state = "running" /\ n.group = p.group /\ n.at = p.at + 1
    BY <1>1, <2>1 DEF Publication
  <2> QED BY <1>4, <2>2
<1>5. CASE ~more /\ Len(subscribers) # p.size
  <2>1. n = [p EXCEPT !.state = "broken"]
    BY <1>5 DEF Advance
  <2>2. n \in Publication /\ n.event = p.event /\ n.state = "broken"
    BY <2>1 DEF Publication
  <2> QED BY <2>2
<1>6. CASE ~more /\ Len(subscribers) = p.size /\ groups = {}
  <2>1. n = [p EXCEPT !.state = "finished"]
    BY <1>6 DEF Advance
  <2>2. n \in Publication /\ n.event = p.event /\ n.state = "finished"
    BY <2>1 DEF Publication
  <2>3. \A g \in DOMAIN subscribers : Sees(g, p.event) => g <= p.group
    BY <1>2, <1>6
  <2> QED BY <1>6, <2>2, <2>3
<1>7. CASE ~more /\ Len(subscribers) = p.size /\ groups # {}
  <2>1. PICK m : m = CHOOSE g \in groups : \A h \in groups : g <= h
    OBVIOUS
  <2>2. groups \subseteq Nat
    BY <1>3
  <2>3. m \in groups /\ \A h \in groups : m <= h
    <3> HIDE DEF groups
    <3> QED BY <1>7, <2>1, <2>2, Least
  <2>4. n = [p EXCEPT !.group = m, !.at = 1]
    BY <1>7, <2>1 DEF Advance
  <2>5. m \in Nat /\ m \in DOMAIN subscribers /\ Sees(m, p.event) /\ p.group < m
    BY <1>3, <2>3
  <2> HIDE DEF groups
  <2>6. n \in Publication /\ n.event = p.event /\ n.state = "running" /\ n.group = m /\ n.at = 1
    <3>1. p \in [event : Event, size : Nat, group : Nat, at : Nat, state : {"running", "finished", "broken"}]
      BY DEF Publication
    <3>2. n.event = p.event /\ n.state = p.state /\ n.size = p.size /\ n.group = m /\ n.at = 1
      BY <2>4, <3>1
    <3>3. n = [event |-> p.event, size |-> p.size, group |-> m, at |-> 1, state |-> p.state]
      BY <2>4, <3>1
    <3>4. n \in Publication
      BY <2>5, <3>1, <3>3 DEF Publication
    <3> QED BY <3>2, <3>4
  <2>7. ASSUME NEW g \in DOMAIN subscribers, Sees(g, p.event), g < m PROVE g <= p.group
    BY <1>1, <1>2, <2>3, <2>5, <2>7
  <2> QED BY <1>7, <2>5, <2>6, <2>7
<1> QED BY <1>4, <1>5, <1>6, <1>7

LEMMA ReachedStart ==
    ASSUME Wired(subscribers), NEW e \in Event, NEW n, n = Publish(e)
    PROVE  Reached(n, Registered(e), <<>>) /\ n.event = e
<1>1. PICK p : p = [event |-> e, size |-> Len(subscribers), group |-> 0, at |-> 0, state |-> "running"]
  OBVIOUS
<1>2. Len(subscribers) \in Nat
  BY DEF Wired, Bus
<1>3. p \in Publication /\ p.event = e /\ p.group = 0 /\ p.state = "running"
  BY <1>1, <1>2 DEF Publication
<1>4. n = Advance(p)
  BY <1>1 DEF Publish
<1>5. n \in Publication /\ n.event = e
  BY <1>3, <1>4, AdvanceResult
<1>6. n.state = "running" => n.group \in DOMAIN subscribers /\ Sees(n.group, e) /\ n.at = 1
  BY <1>3, <1>4, AdvanceResult
<1>7. n.state = "running" => n.at \in DOMAIN subscribers[n.group].handlers
  <2>1. ASSUME n.state = "running" PROVE 1 \in DOMAIN subscribers[n.group].handlers
    <3>1. subscribers[n.group].handlers # <<>> /\ subscribers[n.group].handlers \in Seq(Handler)
      BY <1>6, <2>1, BusEntry DEF Wired
    <3> QED BY <3>1
  <2> QED BY <1>6, <2>1
<1>8. ASSUME NEW h \in Registered(e)
      PROVE  \E g \in DOMAIN subscribers : \E k \in DOMAIN subscribers[g].handlers :
                 /\ Sees(g, e) /\ subscribers[g].handlers[k] = h
                 /\ ~(n.state = "finished" \/ (n.state = "running" /\ Before(g, k, n)))
  <2>1. PICK g \in DOMAIN subscribers : Sees(g, e) /\ \E k \in DOMAIN subscribers[g].handlers : subscribers[g].handlers[k] = h
    BY DEF Registered
  <2>2. PICK k \in DOMAIN subscribers[g].handlers : subscribers[g].handlers[k] = h
    BY <2>1
  <2>3. g \in Nat /\ g >= 1
    BY BusEntry DEF Wired
  <2>4. k \in Nat /\ k >= 1
    <3>1. DOMAIN subscribers[g].handlers = 1 .. Len(subscribers[g].handlers)
      BY BusEntry DEF Wired
    <3> QED BY <3>1
  <2>5. n.state # "finished"
    <3>1. n.state = "finished" => g <= p.group
      BY <1>3, <1>4, <2>1, AdvanceResult
    <3> QED BY <1>3, <2>3, <3>1
  <2>6. n.state = "running" => ~Before(g, k, n)
    <3>1. n.state = "running" /\ g < n.group => g <= p.group
      BY <1>3, <1>4, <2>1, AdvanceResult
    <3> QED BY <1>3, <1>6, <2>3, <2>4, <3>1 DEF Before
  <2> QED BY <2>1, <2>2, <2>5, <2>6
<1>9. <<>> \in Seq(Handler) /\ DOMAIN <<>> = {}
  OBVIOUS
<1> QED BY <1>5, <1>6, <1>7, <1>8, <1>9 DEF Reached

(* The running handler has not been called, and then it has been.          *)
LEMMA ReachedCall ==
    ASSUME Wired(subscribers), NEW p, NEW awaited, NEW called, Reached(p, awaited, called), p.state = "running",
           NEW n, n = Advance(p), NEW c, c = Append(called, Running(p))
    PROVE  /\ Reached(n, awaited, c) /\ n.event = p.event
           /\ Running(p) \in Handler /\ \A j \in DOMAIN called : called[j] # Running(p)
           /\ \E j \in DOMAIN c : c[j] = Running(p)
           /\ \A h : h # Running(p) =>
                  ((\E j \in DOMAIN c : c[j] = h) <=> (\E j \in DOMAIN called : called[j] = h))
<1> DEFINE H(g) == subscribers[g].handlers
           o == Running(p)
           N == Len(called) + 1
<1>1. /\ p \in Publication /\ called \in Seq(Handler) /\ p.group \in DOMAIN subscribers /\ p.at \in DOMAIN H(p.group)
      /\ Sees(p.group, p.event) /\ p.event \in Event
  BY DEF Reached, Publication
<1>2. H(p.group) \in Seq(Handler) /\ p.group \in Nat /\ p.group >= 1 /\ Len(H(p.group)) \in Nat
      /\ DOMAIN H(p.group) = 1 .. Len(H(p.group))
  BY <1>1, BusEntry DEF Wired
<1>3. o = H(p.group)[p.at] /\ o \in Handler /\ p.at \in Nat
  BY <1>1, <1>2 DEF Running
<1>4. ASSUME NEW j \in DOMAIN called PROVE called[j] # o
  <2>1. PICK g \in DOMAIN subscribers : \E k \in DOMAIN H(g) : Before(g, k, p) /\ called[j] = H(g)[k]
    BY DEF Reached
  <2>2. PICK k \in DOMAIN H(g) : Before(g, k, p) /\ called[j] = H(g)[k]
    BY <2>1
  <2>3. SUFFICES ASSUME H(g)[k] = o PROVE FALSE
    BY <2>2
  <2>4. g = p.group /\ k = p.at
    BY <1>1, <1>3, <2>3 DEF Wired
  <2> QED BY <1>2, <1>3, <2>2, <2>4 DEF Before
<1>5. /\ c \in Seq(Handler) /\ DOMAIN c = 1 .. N /\ c[N] = o /\ DOMAIN called = 1 .. Len(called) /\ N \in Nat
      /\ \A j \in DOMAIN called : j \in DOMAIN c /\ c[j] = called[j] /\ j # N
  <2> HIDE DEF o
  <2> QED BY <1>1, <1>3 DEF o
<1>6. \A j \in DOMAIN c : j \in DOMAIN called \/ j = N
  BY <1>1, <1>5
<1>7. N \in DOMAIN c
  BY <1>1, <1>5
<1> HIDE DEF N, o
<1>8. \A i, j \in DOMAIN c : c[i] = c[j] => i = j
  BY <1>4, <1>5, <1>6 DEF Reached
<1>9. n \in Publication /\ n.event = p.event
  BY <1>1, AdvanceResult
<1>10. ASSUME n.state = "running"
       PROVE  /\ n.group \in DOMAIN subscribers /\ Sees(n.group, n.event) /\ n.at \in DOMAIN H(n.group)
              /\ \A g \in DOMAIN subscribers : \A k \in DOMAIN H(g) :
                     (Before(g, k, p) \/ (g = p.group /\ k = p.at)) => Before(g, k, n)
  <2>1. CASE p.group # 0 /\ p.at < Len(H(p.group)) /\ n.group = p.group /\ n.at = p.at + 1
    <3>1. n.at \in DOMAIN H(n.group)
      BY <1>2, <1>3, <2>1
    <3>2. ASSUME NEW g \in DOMAIN subscribers, NEW k \in DOMAIN H(g), Before(g, k, p) \/ (g = p.group /\ k = p.at)
          PROVE  Before(g, k, n)
      <4>1. g = p.group => k \in Nat
        BY <1>2
      <4> QED BY <1>3, <2>1, <3>2, <4>1 DEF Before
    <3> QED BY <1>1, <1>9, <2>1, <3>1, <3>2
  <2>2. CASE n.group \in DOMAIN subscribers /\ p.group < n.group /\ Sees(n.group, p.event) /\ n.at = 1
    <3>1. n.at \in DOMAIN H(n.group)
      <4>1. H(n.group) # <<>> /\ H(n.group) \in Seq(Handler)
        BY <2>2, BusEntry DEF Wired
      <4> QED BY <2>2, <4>1
    <3>2. ASSUME NEW g \in DOMAIN subscribers, NEW k \in DOMAIN H(g), Before(g, k, p) \/ (g = p.group /\ k = p.at)
          PROVE  Before(g, k, n)
      <4>1. g \in Nat /\ n.group \in Nat
        BY <2>2, BusEntry DEF Wired
      <4>2. g <= p.group /\ p.group \in Nat
        BY <1>2, <3>2, <4>1 DEF Before
      <4>3. g < n.group
        BY <2>2, <4>1, <4>2
      <4> QED BY <4>3 DEF Before
    <3> QED BY <1>9, <2>2, <3>1, <3>2
  <2> QED BY <1>1, <1>10, <2>1, <2>2, AdvanceResult
<1>11. ASSUME NEW j \in DOMAIN c, n.state = "running"
       PROVE  \E g \in DOMAIN subscribers : \E k \in DOMAIN H(g) : Before(g, k, n) /\ c[j] = H(g)[k]
  <2>1. CASE j = N
    BY <1>1, <1>3, <1>5, <1>10, <1>11, <2>1
  <2>2. CASE j \in DOMAIN called
    <3>1. PICK g \in DOMAIN subscribers : \E k \in DOMAIN H(g) : Before(g, k, p) /\ called[j] = H(g)[k]
      BY <2>2 DEF Reached
    <3>2. PICK k \in DOMAIN H(g) : Before(g, k, p) /\ called[j] = H(g)[k]
      BY <3>1
    <3>3. Before(g, k, n) /\ c[j] = H(g)[k]
      BY <1>5, <1>10, <1>11, <2>2, <3>2
    <3> QED BY <3>3
  <2> QED BY <1>6, <2>1, <2>2
<1>12. ASSUME NEW h \in awaited
       PROVE  \E g \in DOMAIN subscribers : \E k \in DOMAIN H(g) :
                 /\ Sees(g, n.event) /\ H(g)[k] = h
                 /\ (n.state = "finished" \/ (n.state = "running" /\ Before(g, k, n))) => \E j \in DOMAIN c : c[j] = h
  <2>1. PICK g \in DOMAIN subscribers : \E k \in DOMAIN H(g) :
           Sees(g, p.event) /\ H(g)[k] = h /\ (Before(g, k, p) => \E j \in DOMAIN called : called[j] = h)
    BY DEF Reached
  <2>2. PICK k \in DOMAIN H(g) :
           Sees(g, p.event) /\ H(g)[k] = h /\ (Before(g, k, p) => \E j \in DOMAIN called : called[j] = h)
    BY <2>1
  <2>3. g \in Nat /\ k \in Nat /\ k >= 1 /\ k <= Len(H(g)) /\ Len(H(g)) \in Nat
    <3>1. g \in Nat /\ Len(H(g)) \in Nat /\ DOMAIN H(g) = 1 .. Len(H(g))
      BY BusEntry DEF Wired
    <3> QED BY <3>1
  <2>4. ASSUME n.state = "finished" \/ (n.state = "running" /\ Before(g, k, n))
        PROVE  Before(g, k, p) \/ (g = p.group /\ k = p.at)
    <3>1. CASE p.group # 0 /\ p.at < Len(H(p.group)) /\ n.state = "running" /\ n.group = p.group /\ n.at = p.at + 1
      <4>1. g < n.group \/ (g = n.group /\ k < n.at)
        BY <2>4, <3>1 DEF Before
      <4>2. k < n.at => k < p.at \/ k = p.at
        BY <1>3, <2>3, <3>1
      <4>3. g < p.group \/ (g = p.group /\ k < p.at) \/ (g = p.group /\ k = p.at)
        BY <3>1, <4>1, <4>2
      <4> QED BY <4>3 DEF Before
    <3>2. CASE ~(p.group # 0 /\ p.at < Len(H(p.group))) /\ (Before(g, k, n) \/ n.state = "finished") /\ g <= p.group
      <4>1. ~(p.at < Len(H(p.group)))
        BY <1>2, <3>2
      <4>2. p.at = Len(H(p.group))
        BY <1>2, <1>3, <4>1, <1>1
      <4>3. g < p.group \/ (g = p.group /\ k <= p.at)
        BY <1>2, <2>3, <3>2, <4>2
      <4>4. k <= p.at => k < p.at \/ k = p.at
        BY <1>3, <2>3
      <4> QED BY <4>3, <4>4 DEF Before
    <3>3. CASE ~(p.group # 0 /\ p.at < Len(H(p.group))) /\ n.state = "finished" /\ \A f \in DOMAIN subscribers : Sees(f, p.event) => f <= p.group
      BY <2>2, <3>2, <3>3
    <3>4. CASE /\ ~(p.group # 0 /\ p.at < Len(H(p.group))) /\ n.state = "running" /\ n.group \in DOMAIN subscribers
               /\ n.at = 1 /\ \A f \in DOMAIN subscribers : Sees(f, p.event) /\ f < n.group => f <= p.group
      <4>1. g < n.group
        <5>1. Before(g, k, n)
          BY <2>4, <3>4
        <5> QED BY <2>3, <3>4, <5>1 DEF Before
      <4> QED BY <2>2, <2>4, <3>2, <3>4, <4>1
    <3> QED BY <1>1, <2>4, <3>1, <3>3, <3>4, AdvanceResult
  <2>5. ASSUME n.state = "finished" \/ (n.state = "running" /\ Before(g, k, n))
        PROVE  \E j \in DOMAIN c : c[j] = h
    <3>1. CASE Before(g, k, p)
      BY <1>5, <2>2, <3>1
    <3>2. CASE g = p.group /\ k = p.at
      BY <1>3, <1>5, <1>7, <2>2, <3>2
    <3> QED BY <2>4, <2>5, <3>1, <3>2
  <2> QED BY <1>9, <2>2, <2>5
<1>13. Reached(n, awaited, c)
  BY <1>5, <1>8, <1>9, <1>10, <1>11, <1>12 DEF Reached
<1>14. \E j \in DOMAIN c : c[j] = o
  BY <1>5, <1>7
<1>15. ASSUME NEW h, h # o PROVE (\E j \in DOMAIN c : c[j] = h) <=> (\E j \in DOMAIN called : called[j] = h)
  BY <1>5, <1>6, <1>15
<1> QED BY <1>3, <1>4, <1>9, <1>13, <1>14, <1>15 DEF o

(* A handler that is subscribed meanwhile changes nothing of this.         *)
LEMMA ReachedLonger ==
    ASSUME Wired(subscribers), Longer(subscribers, subscribers'), NEW p, NEW awaited, NEW called,
           Reached(p, awaited, called)
    PROVE  Reached(p, awaited, called)'
<1>1. ASSUME NEW g \in DOMAIN subscribers
      PROVE  /\ g \in DOMAIN subscribers' /\ \A e : Sees(g, e) => Sees(g, e)'
             /\ \A k \in DOMAIN subscribers[g].handlers :
                    /\ k \in DOMAIN subscribers'[g].handlers
                    /\ subscribers'[g].handlers[k] = subscribers[g].handlers[k]
  BY DEF Longer, Sees
<1>2. ASSUME p.state = "running"
      PROVE  /\ p.group \in DOMAIN subscribers' /\ Sees(p.group, p.event)'
             /\ p.at \in DOMAIN subscribers'[p.group].handlers
             /\ \A j \in DOMAIN called : \E g \in DOMAIN subscribers' : \E k \in DOMAIN subscribers'[g].handlers :
                    Before(g, k, p) /\ called[j] = subscribers'[g].handlers[k]
  <2>1. p.group \in DOMAIN subscribers /\ Sees(p.group, p.event) /\ p.at \in DOMAIN subscribers[p.group].handlers
    BY <1>2 DEF Reached
  <2>2. ASSUME NEW j \in DOMAIN called
        PROVE  \E g \in DOMAIN subscribers' : \E k \in DOMAIN subscribers'[g].handlers :
                    Before(g, k, p) /\ called[j] = subscribers'[g].handlers[k]
    <3>1. PICK g \in DOMAIN subscribers : \E k \in DOMAIN subscribers[g].handlers :
               Before(g, k, p) /\ called[j] = subscribers[g].handlers[k]
      BY <1>2 DEF Reached
    <3> QED BY <1>1, <3>1
  <2> QED BY <1>1, <2>1, <2>2
<1>3. ASSUME NEW h \in awaited
      PROVE  \E g \in DOMAIN subscribers' : \E k \in DOMAIN subscribers'[g].handlers :
                 /\ Sees(g, p.event)' /\ subscribers'[g].handlers[k] = h
                 /\ (p.state = "finished" \/ (p.state = "running" /\ Before(g, k, p))) =>
                        \E j \in DOMAIN called : called[j] = h
  <2>1. PICK g \in DOMAIN subscribers : \E k \in DOMAIN subscribers[g].handlers :
                 /\ Sees(g, p.event) /\ subscribers[g].handlers[k] = h
                 /\ (p.state = "finished" \/ (p.state = "running" /\ Before(g, k, p))) =>
                        \E j \in DOMAIN called : called[j] = h
    BY DEF Reached
  <2> QED BY <1>1, <2>1
<1> QED BY <1>2, <1>3 DEF Reached
------------------------------------------------------------------------------
(* What a request that publishes is owed: its handlers are called along    *)
(* the walk above, and its row in the audit log is written by one of them. *)
Recorded(r, q) ==
    /\ q.pub.event = conf.secret => audit[<<r, q.pub.event>>] = 0
    /\ q.pub.event # conf.secret /\ conf.audit \notin conf.broken =>
           audit[<<r, q.pub.event>>] = IF \E j \in DOMAIN q.called : q.called[j] = conf.audit THEN 1 ELSE 0

Heard(r, q) ==
    /\ Typed(q)
    /\ q.pc \notin Later => q.pub = None /\ \A e \in Event : audit[<<r, e>>] = 0
    /\ q.pub # None \/ q.pc = "publish" => Reached(q.pub, q.awaited, q.called) /\ Recorded(r, q)
    /\ q.pc = "publish" =>
           \/ q.left = <<>>
           \/ /\ q.left = <<"SessionRevoked">> /\ q.pub.event = "UserSignedOut"
              /\ audit[<<r, "SessionRevoked">>] = 0

Hearing ==
    /\ Wired(subscribers)
    /\ audit \in [Request \X Event -> Nat]
    /\ \A r \in Request : Heard(r, req[r])

LEMMA HeardSame ==
    ASSUME NEW r, NEW q, Heard(r, q), UNCHANGED <<conf, subscribers>>,
           \A e \in Event : audit'[<<r, e>>] = audit[<<r, e>>]
    PROVE  Heard(r, q)'
<1>1. Reached(q.pub, q.awaited, q.called) => Reached(q.pub, q.awaited, q.called)' /\ q.pub.event \in Event
  BY DEF Reached, Sees, Publication
<1>2. Recorded(r, q) /\ q.pub.event \in Event => Recorded(r, q)'
  BY DEF Recorded
<1>3. {"UserSignedOut", "SessionRevoked"} \subseteq Event
  BY CoreEventAssumption
<1> QED BY <1>1, <1>2, <1>3 DEF Heard

(* A step of one request that keeps what is owed to it.                    *)
LEMMA HearingStep ==
    ASSUME Hearing, req = [q \in Request |-> req[q]], NEW r \in Request, NEW n, req' = [req EXCEPT ![r] = n],
           UNCHANGED <<conf, subscribers>>, audit' \in [Request \X Event -> Nat],
           \A q \in Request : \A e \in Event : q # r => audit'[<<q, e>>] = audit[<<q, e>>],
           Heard(r, n)'
    PROVE  Hearing'
<1>1. Wired(subscribers)'
  BY DEF Hearing
<1>2. ASSUME NEW q \in Request PROVE Heard(q, req[q])'
  <2>1. CASE q = r
    BY <2>1
  <2>2. CASE q # r
    <3>1. req'[q] = req[q]
      BY <2>2
    <3>2. PICK o : o = req[q]
      OBVIOUS
    <3>3. Heard(q, o)'
      BY <2>2, <3>2, HeardSame DEF Hearing
    <3> QED BY <3>1, <3>2, <3>3
  <2> QED BY <2>1, <2>2
<1> QED BY <1>1, <1>2 DEF Hearing

LEMMA QuietHears ==
    ASSUME Hearing, req = [q \in Request |-> req[q]], NEW r \in Request, Quiet(r), UNCHANGED rvars, audit' = audit
    PROVE  Hearing'
<1>1. PICK n : req' = [req EXCEPT ![r] = n] /\ Kept(req[r], n) /\ From(req[r], n)
  BY DEF Quiet
<1>2. UNCHANGED <<conf, subscribers>> /\ audit' \in [Request \X Event -> Nat]
  BY DEF rvars, Hearing
<1>3. PICK o : o = req[r]
  OBVIOUS
<1>4. Heard(r, o)
  BY <1>3 DEF Hearing
<1>5. Heard(r, o)'
  BY <1>2, <1>4, HeardSame
<1>6. Kept(o, n) /\ From(o, n)
  BY <1>1, <1>3
<1>7. n.pc # "publish" /\ (n.pc \notin Later => o.pc \notin Later) /\ Typed(n)
      /\ n.pub = o.pub /\ n.awaited = o.awaited /\ n.called = o.called
  BY <1>6 DEF Kept, From
<1>8. Heard(r, n)'
  BY <1>5, <1>7 DEF Heard, Recorded
<1> QED BY <1>1, <1>2, <1>8, HearingStep

(* A step that begins to publish.                                          *)
Announces(r, e, rest) ==
    \E n : /\ req' = [req EXCEPT ![r] = n] /\ Shape(n) /\ Typed(n) /\ n.pc = "publish"
           /\ n.pub = Publish(e) /\ n.left = rest /\ n.awaited = Registered(e) /\ n.called = <<>>

LEMMA AnnouncesHears ==
    ASSUME Hearing, req = [q \in Request |-> req[q]], NEW r \in Request, NEW e \in Event, NEW rest,
           Announces(r, e, rest), UNCHANGED rvars, audit' = audit, audit[<<r, e>>] = 0,
           \/ rest = <<>>
           \/ rest = <<"SessionRevoked">> /\ e = "UserSignedOut" /\ audit[<<r, "SessionRevoked">>] = 0
    PROVE  Hearing'
<1>1. PICK n : /\ req' = [req EXCEPT ![r] = n] /\ Shape(n) /\ Typed(n) /\ n.pc = "publish"
               /\ n.pub = Publish(e) /\ n.left = rest /\ n.awaited = Registered(e) /\ n.called = <<>>
  BY DEF Announces
<1>2. UNCHANGED <<conf, subscribers>> /\ audit' \in [Request \X Event -> Nat]
  BY DEF rvars, Hearing
<1>3. Reached(n.pub, n.awaited, n.called) /\ n.pub.event = e
  BY <1>1, ReachedStart DEF Hearing
<1>4. DOMAIN n.called = {}
  BY <1>1
<1>5. Recorded(r, n)
  BY <1>3, <1>4 DEF Recorded
<1>6. "publish" \in Later
  BY DEF Later
<1>7. Heard(r, n)
  BY <1>1, <1>3, <1>5, <1>6 DEF Heard
<1>8. Heard(r, n)'
  BY <1>2, <1>7, HeardSame
<1> QED BY <1>1, <1>2, <1>8, HearingStep

LEMMA PublishingResult ==
    ASSUME NEW r \in Request, Shape(req[r]), Typed(req[r]), req[r].pc \in {"act", "publish"}, NEW events,
           Put(r, Publishing(req[r], events))
    PROVE  /\ events = <<>> => Quiet(r)
           /\ events # <<>> => Announces(r, Head(events), Tail(events))
<1>1. CASE events = <<>>
  <2>1. PICK n : n = Ended(req[r], "after", 200)
    OBVIOUS
  <2>2. req' = [req EXCEPT ![r] = n]
    BY <1>1, <2>1 DEF Put, Publishing, Ended
  <2>3. "after" \in Pc \ {"publish"} /\ 200 \in Status /\ "after" \in Later
    BY DEF Pc, Status, Later
  <2>4. Kept(req[r], n) /\ n.pc = "after"
    BY <2>1, <2>3, KeptStatus
  <2>5. From(req[r], n)
    BY <2>3, <2>4 DEF From
  <2> QED BY <1>1, <2>2, <2>4, <2>5 DEF Quiet
<1>2. CASE events # <<>>
  <2>1. PICK p, a, l : p = Publish(Head(events)) /\ a = Registered(Head(events)) /\ l = Tail(events)
    OBVIOUS
  <2>2. PICK n : n = [req[r] EXCEPT !.pc = "publish", !.pub = p, !.left = l, !.awaited = a, !.called = <<>>]
    OBVIOUS
  <2>3. req' = [req EXCEPT ![r] = n]
    BY <1>2, <2>1, <2>2 DEF Put, Publishing
  <2>4. n.pc = "publish" /\ n.pub = p /\ n.left = l
    BY <2>2 DEF Shape
  <2>5. n.awaited = a /\ n.called = <<>>
    BY <2>2 DEF Shape
  <2>6. n.status = req[r].status /\ n.reading = req[r].reading
    BY <2>2 DEF Shape
  <2>7. n.seen = req[r].seen
    BY <2>2 DEF Shape
  <2>8. Shape(n)
    BY <2>2, ZenonT(30) DEF Shape
  <2>9. Typed(n)
    BY <2>4, <2>6, <2>7 DEF Typed, Pc
  <2> QED BY <1>2, <2>1, <2>3, <2>4, <2>5, <2>8, <2>9 DEF Announces
<1> QED BY <1>1, <1>2

LEMMA AnswerQuiet ==
    ASSUME NEW r \in Request, Shape(req[r]), Typed(req[r]), NEW status \in {404, 500}, Answer(r, status)
    PROVE  Quiet(r)
<1>1. PICK n : n = Ended(req[r], "done", status)
  OBVIOUS
<1>2. req' = [req EXCEPT ![r] = n]
  BY <1>1 DEF Put, Answer, Ended
<1>3. "done" \in Pc \ {"publish"} /\ status \in Status /\ "done" \in Later
  BY DEF Pc, Status, Later
<1>4. Kept(req[r], n) /\ n.pc = "done"
  BY <1>1, <1>3, KeptStatus
<1>5. From(req[r], n)
  BY <1>3, <1>4 DEF From
<1> QED BY <1>2, <1>4, <1>5 DEF Quiet

LEMMA PublishersHear ==
    ASSUME Hearing, req = [q \in Request |-> req[q]], NEW r \in Request, Shape(req[r]),
           Revoke(r) \/ PluginEndpoint(r) \/ Published(r)
    PROVE  Hearing'
<1>1. UNCHANGED rvars /\ audit' = audit /\ Typed(req[r])
  BY RequestsLeaveProcess DEF Revoke, PluginEndpoint, Published, Step, Hearing, Heard
<1>2. CASE Quiet(r)
  BY <1>1, <1>2, QuietHears
<1>3. ASSUME req[r].pc \notin Later PROVE \A e \in Event : audit[<<r, e>>] = 0
  BY <1>3 DEF Hearing, Heard
<1>4. CASE Revoke(r)
  <2>1. req[r].pc = "act" /\ req[r].pc \notin Later
    BY <1>4 DEF Revoke, At, Later
  <2>2. CASE Answer(r, 404)
    BY <1>1, <1>2, <2>2, AnswerQuiet
  <2>3. CASE Put(r, Publishing(req[r], <<>>))
    BY <1>1, <1>2, <2>1, <2>3, PublishingResult
  <2>4. CASE Put(r, Publishing(req[r], <<"UserSignedOut", "SessionRevoked">>))
    <3>1. PICK events : events = <<"UserSignedOut", "SessionRevoked">>
      OBVIOUS
    <3>2. events # <<>> /\ Head(events) = "UserSignedOut" /\ Tail(events) = <<"SessionRevoked">>
      BY <3>1
    <3>3. Announces(r, "UserSignedOut", <<"SessionRevoked">>)
      BY <1>1, <2>1, <2>4, <3>1, <3>2, PublishingResult
    <3>4. "UserSignedOut" \in Event /\ "SessionRevoked" \in Event
      BY CoreEventAssumption
    <3> QED BY <1>1, <1>3, <2>1, <3>3, <3>4, AnnouncesHears
  <2> QED BY <1>4, <2>2, <2>3, <2>4 DEF Revoke
<1>5. CASE PluginEndpoint(r)
  <2>1. req[r].pc = "act" /\ req[r].pc \notin Later
    BY <1>5 DEF PluginEndpoint, At, Later
  <2>2. PICK e \in Event : Put(r, Publishing(req[r], <<e>>))
    BY <1>5 DEF PluginEndpoint
  <2>3. PICK events : events = <<e>>
    OBVIOUS
  <2>4. events # <<>> /\ Head(events) = e /\ Tail(events) = <<>>
    BY <2>3
  <2>5. Announces(r, e, <<>>)
    BY <1>1, <2>1, <2>2, <2>3, <2>4, PublishingResult
  <2> QED BY <1>1, <1>3, <2>1, <2>5, AnnouncesHears
<1>6. CASE Published(r)
  <2>1. req[r].pc = "publish"
    BY <1>6 DEF Published, At
  <2>2. CASE Answer(r, 500)
    BY <1>1, <1>2, <2>2, AnswerQuiet
  <2>3. CASE Put(r, Publishing(req[r], req[r].left)) /\ req[r].left = <<>>
    BY <1>1, <1>2, <2>1, <2>3, PublishingResult
  <2>4. CASE Put(r, Publishing(req[r], req[r].left)) /\ req[r].left = <<"SessionRevoked">>
    <3>1. PICK events : events = req[r].left
      OBVIOUS
    <3>2. events # <<>> /\ Head(events) = "SessionRevoked" /\ Tail(events) = <<>>
      BY <2>4, <3>1
    <3>3. Announces(r, "SessionRevoked", <<>>)
      BY <1>1, <2>1, <2>4, <3>1, <3>2, PublishingResult
    <3>4. "SessionRevoked" \in Event
      BY CoreEventAssumption
    <3>5. <<>> # <<"SessionRevoked">>
      OBVIOUS
    <3>6. audit[<<r, "SessionRevoked">>] = 0
      BY <2>1, <2>4, <3>5 DEF Hearing, Heard
    <3> QED BY <1>1, <3>3, <3>4, <3>6, AnnouncesHears
  <2>5. req[r].left = <<>> \/ req[r].left = <<"SessionRevoked">>
    BY <2>1 DEF Hearing, Heard
  <2> QED BY <1>6, <2>2, <2>3, <2>4, <2>5 DEF Published
<1> QED BY <1>4, <1>5, <1>6

(* A handler is called: if it is the audit log's, it writes the one row.   *)
LEMMA CallHears ==
    ASSUME Hearing, req = [q \in Request |-> req[q]], NEW r \in Request, Shape(req[r]), CallHandler(r)
    PROVE  Hearing'
<1> DEFINE o == req[r]
           p == o.pub
           e == p.event
           h == Running(p)
<1>1. o.pc = "publish" /\ p.state = "running" /\ UNCHANGED rvars
  BY RequestsLeaveProcess DEF CallHandler, At
<1>2. UNCHANGED <<conf, subscribers>>
  BY <1>1 DEF rvars
<1>3. PICK fails \in BOOLEAN :
        /\ fails => h \in conf.broken
        /\ req' = [req EXCEPT ![r] = [o EXCEPT !.called = Append(@, h), !.pub = Resume(p, fails)]]
        /\ audit' = IF h = conf.audit /\ e # conf.secret /\ ~fails
                    THEN [audit EXCEPT ![<<r, e>>] = @ + 1] ELSE audit
  BY DEF CallHandler, Put
<1>4. PICK c, np : c = Append(o.called, h) /\ np = Advance(p)
  OBVIOUS
<1>5. PICK n : n = [o EXCEPT !.called = c, !.pub = np]
  OBVIOUS
<1>6. req' = [req EXCEPT ![r] = n]
  BY <1>3, <1>4, <1>5 DEF Resume
<1>7. n.pc = o.pc /\ n.status = o.status /\ n.reading = o.reading /\ n.seen = o.seen
      /\ n.awaited = o.awaited /\ n.left = o.left /\ n.called = c /\ n.pub = np
  BY <1>5 DEF Shape
<1>8. Wired(subscribers) /\ Reached(p, o.awaited, o.called) /\ Recorded(r, o) /\ Typed(o)
  BY <1>1 DEF Hearing, Heard
<1>9. e \in Event /\ e = np.event
  <2>1. e \in Event
    BY <1>8 DEF Reached, Publication
  <2>2. np.event = e
    <3>1. PICK x, a, d : x = p /\ a = o.awaited /\ d = o.called
      OBVIOUS
    <3>2. Reached(x, a, d) /\ x.state = "running" /\ np = Advance(x) /\ c = Append(d, Running(x))
      BY <1>1, <1>4, <1>8, <3>1
    <3> HIDE DEF e, h, p, o
    <3>3. np.event = x.event
      BY <1>8, <3>2, ReachedCall
    <3> QED BY <3>1, <3>3 DEF e
  <2> QED BY <2>1, <2>2
<1>10. Reached(np, o.awaited, c) /\ (\A j \in DOMAIN o.called : o.called[j] # h) /\ (\E j \in DOMAIN c : c[j] = h)
       /\ \A x : x # h => ((\E j \in DOMAIN c : c[j] = x) <=> (\E j \in DOMAIN o.called : o.called[j] = x))
  <2>1. PICK x, a, d : x = p /\ a = o.awaited /\ d = o.called
    OBVIOUS
  <2>2. Reached(x, a, d) /\ x.state = "running" /\ np = Advance(x) /\ c = Append(d, Running(x))
    BY <1>1, <1>4, <1>8, <2>1
  <2> HIDE DEF e, h, p, o
  <2>3. /\ Reached(np, a, c) /\ (\A j \in DOMAIN d : d[j] # Running(x)) /\ (\E j \in DOMAIN c : c[j] = Running(x))
        /\ \A y : y # Running(x) => ((\E j \in DOMAIN c : c[j] = y) <=> (\E j \in DOMAIN d : d[j] = y))
    <3>1. Reached(np, a, c)
      BY <1>8, <2>2, ReachedCall
    <3>2. \A j \in DOMAIN d : d[j] # Running(x)
      BY <1>8, <2>2, ReachedCall
    <3>3. \E j \in DOMAIN c : c[j] = Running(x)
      BY <1>8, <2>2, ReachedCall
    <3>4. \A y : y # Running(x) => ((\E j \in DOMAIN c : c[j] = y) <=> (\E j \in DOMAIN d : d[j] = y))
      BY <1>8, <2>2, ReachedCall
    <3> QED BY <3>1, <3>2, <3>3, <3>4
  <2> QED BY <2>1, <2>3 DEF h
<1>11. audit \in [Request \X Event -> Nat] /\ audit[<<r, e>>] \in Nat
  BY <1>9 DEF Hearing
<1>12. /\ audit' \in [Request \X Event -> Nat]
       /\ \A q \in Request : \A f \in Event : <<q, f>> # <<r, e>> => audit'[<<q, f>>] = audit[<<q, f>>]
       /\ audit'[<<r, e>>] = IF h = conf.audit /\ e # conf.secret /\ ~fails THEN audit[<<r, e>>] + 1
                             ELSE audit[<<r, e>>]
  <2>1. <<r, e>> \in Request \X Event
    BY <1>9
  <2> HIDE DEF e, h
  <2>2. CASE h = conf.audit /\ e # conf.secret /\ ~fails
    BY <1>3, <1>11, <2>1, <2>2
  <2>3. CASE ~(h = conf.audit /\ e # conf.secret /\ ~fails)
    BY <1>3, <1>11, <2>1, <2>3
  <2> QED BY <2>2, <2>3
<1> HIDE DEF h
<1>13. Reached(n.pub, n.awaited, n.called)'
  BY <1>2, <1>7, <1>10 DEF Reached, Sees
<1>14. Recorded(r, n)'
  <2>1. ASSUME e = conf.secret PROVE audit'[<<r, e>>] = 0
    BY <1>8, <1>12, <2>1 DEF Recorded
  <2>2. ASSUME e # conf.secret, conf.audit \notin conf.broken
        PROVE  audit'[<<r, e>>] = IF \E j \in DOMAIN c : c[j] = conf.audit THEN 1 ELSE 0
    <3>1. audit[<<r, e>>] = IF \E j \in DOMAIN o.called : o.called[j] = conf.audit THEN 1 ELSE 0
      BY <1>8, <2>2 DEF Recorded
    <3>2. CASE h = conf.audit
      BY <1>3, <1>10, <1>12, <2>2, <3>1, <3>2
    <3>3. CASE h # conf.audit
      BY <1>10, <1>12, <3>1, <3>3
    <3> QED BY <3>2, <3>3
  <2> QED BY <1>2, <1>7, <1>9, <2>1, <2>2 DEF Recorded
<1>15. Typed(n)
  BY <1>7, <1>8 DEF Typed
<1>16. \/ n.left = <<>>
       \/ n.left = <<"SessionRevoked">> /\ n.pub.event = "UserSignedOut" /\ audit'[<<r, "SessionRevoked">>] = 0
  <2>1. \/ o.left = <<>>
        \/ o.left = <<"SessionRevoked">> /\ e = "UserSignedOut" /\ audit[<<r, "SessionRevoked">>] = 0
    BY <1>1 DEF Hearing, Heard
  <2>2. "SessionRevoked" \in Event /\ "SessionRevoked" # "UserSignedOut"
    BY CoreEventAssumption
  <2>3. e = "UserSignedOut" => audit'[<<r, "SessionRevoked">>] = audit[<<r, "SessionRevoked">>]
    BY <1>12, <2>2
  <2> QED BY <1>7, <1>9, <2>1, <2>3
<1>17. Heard(r, n)'
  <2>1. n.pc = "publish" /\ "publish" \in Later
    BY <1>1, <1>7 DEF Later
  <2> QED BY <1>13, <1>14, <1>15, <1>16, <2>1 DEF Heard
<1>18. \A q \in Request : \A f \in Event : q # r => audit'[<<q, f>>] = audit[<<q, f>>]
  BY <1>12
<1> QED BY <1>2, <1>6, <1>12, <1>17, <1>18, HearingStep

LEMMA SendHears ==
    ASSUME Hearing, req = [q \in Request |-> req[q]], NEW r \in Request, Send(r)
    PROVE  Hearing'
<1>1. PICK i : req' = [req EXCEPT ![r] = [NoRequest EXCEPT
               !.input = i, !.late = ~Alive(i.token), !.pc = IF PassesMiddleware(i) THEN "limit" ELSE "done",
               !.status = IF PassesMiddleware(i) THEN 0 ELSE 403]]
  BY ZenonT(60) DEF Send, Put
<1>2. req[r].pc = "new" /\ UNCHANGED <<conf, subscribers, audit>>
  BY DEF Send, At, rvars
<1>3. PICK n : n = [NoRequest EXCEPT !.input = i, !.late = ~Alive(i.token),
                                     !.pc = IF PassesMiddleware(i) THEN "limit" ELSE "done",
                                     !.status = IF PassesMiddleware(i) THEN 0 ELSE 403]
  OBVIOUS
<1>4. n.pc = (IF PassesMiddleware(i) THEN "limit" ELSE "done") /\ n.status = (IF PassesMiddleware(i) THEN 0 ELSE 403)
      /\ n.reading = "get" /\ n.seen = {} /\ n.pub = None
  BY <1>3 DEF NoRequest
<1>5. Typed(n) /\ n.pc # "publish"
  BY <1>4 DEF Typed, Pc, Status
<1>6. \A e \in Event : audit'[<<r, e>>] = 0
  BY <1>2 DEF Hearing, Heard, Later
<1>7. Heard(r, n)'
  BY <1>4, <1>5, <1>6 DEF Heard
<1> QED BY <1>1, <1>2, <1>3, <1>7, HearingStep DEF Hearing

LEMMA OnHears ==
    ASSUME Hearing, OnEvent, conf \in Confs
    PROVE  Hearing'
<1>1. PICK s \in conf.late :
        /\ \A g \in DOMAIN subscribers : \A k \in DOMAIN subscribers[g].handlers :
               subscribers[g].handlers[k] # s.handler
        /\ subscribers' = Subscribe(subscribers, [type |-> s.type, handler |-> s.handler])
        /\ UNCHANGED <<conf, lifespan>> /\ UNCHANGED hvars
  BY DEF OnEvent, On
<1>2. s \in Subscription /\ s = [type |-> s.type, handler |-> s.handler]
  BY InputAssumption DEF Subscription
<1>3. subscribers' = Subscribe(subscribers, s)
  BY <1>1, <1>2
<1>4. Wired(subscribers) /\ UNCHANGED <<req, audit, conf>>
  BY <1>1 DEF Hearing, hvars
<1>5. PICK b : b = subscribers'
  OBVIOUS
<1>6. Wired(b) /\ Longer(subscribers, b)
  BY <1>1, <1>2, <1>3, <1>4, <1>5, SubscribeKeeps
<1>7. Wired(subscribers') /\ Longer(subscribers, subscribers')
  BY <1>5, <1>6
<1>8. ASSUME NEW r \in Request PROVE Heard(r, req[r])'
  <2>1. PICK q : q = req[r]
    OBVIOUS
  <2>2. Heard(r, q)
    BY <2>1 DEF Hearing
  <2>3. Reached(q.pub, q.awaited, q.called) => Reached(q.pub, q.awaited, q.called)'
    <3>1. PICK p, a, c : p = q.pub /\ a = q.awaited /\ c = q.called
      OBVIOUS
    <3>2. Reached(p, a, c) => Reached(p, a, c)'
      BY <1>4, <1>7, ReachedLonger
    <3> QED BY <3>1, <3>2
  <2>4. Heard(r, q)'
    BY <1>4, <2>2, <2>3 DEF Heard, Recorded
  <2> QED BY <1>4, <2>1, <2>4
<1>9. Wired(subscribers)' /\ (audit \in [Request \X Event -> Nat])'
  BY <1>4, <1>7 DEF Hearing
<1> QED BY <1>8, <1>9 DEF Hearing

LEMMA StepHears ==
    ASSUME Requesting, Hearing, NEW r \in Request, Step(r)
    PROVE  Hearing'
<1>1. req = [q \in Request |-> req[q]] /\ Shape(req[r]) /\ (req[r].reading # "get" => req[r].pc \in Readers)
  BY DEF Requesting, Served
<1>2. Typed(req[r]) /\ UNCHANGED rvars
  BY RequestsLeaveProcess DEF Hearing, Heard
<1>3. CASE Quiet(r) /\ audit' = audit
  BY <1>1, <1>2, <1>3, QuietHears
<1>4. CASE check(r)
  BY <1>1, <1>2, <1>3, <1>4, QuietCheck DEF check
<1>5. CASE ReadRow(r) \/ Touch(r) \/ DropIdle(r)
  BY <1>1, <1>2, <1>3, <1>5, QuietReads DEF ReadRow, Touch, DropIdle
<1>6. CASE Hooks(r) \/ Middlewares(r) \/ Enter(r)
  BY <1>1, <1>2, <1>3, <1>6, QuietHooks DEF Hooks, Middlewares, Enter
<1>7. CASE NoEffect(r) \/ check_readiness(r) \/ AfterHooks(r) \/ ResponseHooks(r)
  BY <1>1, <1>2, <1>3, <1>7, QuietAnswers DEF NoEffect, check_readiness, AfterHooks, ResponseHooks
<1>8. CASE Revoke(r) \/ PluginEndpoint(r) \/ Published(r)
  BY <1>1, <1>8, PublishersHear
<1>9. CASE CallHandler(r)
  BY <1>1, <1>9, CallHears
<1> QED BY <1>4, <1>5, <1>6, <1>7, <1>8, <1>9 DEF Step

LEMMA HearingNext ==
    ASSUME Requesting, Hearing, [Next]_vars
    PROVE  Hearing'
<1>1. ASSUME UNCHANGED <<conf, subscribers, req, audit>> PROVE Hearing'
  <2>1. ASSUME NEW r \in Request PROVE Heard(r, req[r])'
    <3>1. PICK q : q = req[r]
      OBVIOUS
    <3>2. Heard(r, q)'
      BY <1>1, <3>1, HeardSame DEF Hearing
    <3> QED BY <1>1, <3>1, <3>2
  <2> QED BY <1>1, <2>1 DEF Hearing
<1>2. CASE LifespanStep /\ UNCHANGED hvars
  <2>1. UNCHANGED <<conf, subscribers, req, audit>>
    BY <1>2 DEF LifespanStep, OpenDatabase, StartPlugin, Serve, Leave, StopPlugin, CloseDatabase, hvars
  <2> QED BY <1>1, <2>1
<1>3. CASE OnEvent
  BY <1>3, OnHears DEF Requesting
<1>4. CASE \E r \in Request : Send(r)
  BY <1>4, SendHears DEF Requesting
<1>5. CASE \E r \in Request : Step(r)
  BY <1>5, StepHears
<1>6. CASE Tick \/ UNCHANGED vars
  <2>1. UNCHANGED <<conf, subscribers, req, audit>>
    BY <1>6 DEF Tick, rvars, vars, hvars
  <2> QED BY <1>1, <2>1
<1> QED BY <1>2, <1>3, <1>4, <1>5, <1>6 DEF Next

LEMMA HearingInit ==
    ASSUME Init
    PROVE  Hearing
<1>1. Wired(subscribers)
  BY WiredInit DEF Init
<1>2. audit = [e \in Request \X Event |-> 0] /\ req = [r \in Request |-> NoRequest]
  BY DEF Init
<1>3. audit \in [Request \X Event -> Nat] /\ \A r \in Request : \A e \in Event : audit[<<r, e>>] = 0
  BY <1>2
<1>4. NoRequest.pc = "new" /\ NoRequest.pub = None /\ Typed(NoRequest)
  BY DEF NoRequest, Typed, Pc, Status
<1>5. \A r \in Request : Heard(r, NoRequest)
  BY <1>3, <1>4 DEF Heard
<1> QED BY <1>1, <1>2, <1>3, <1>5 DEF Hearing

(* What a finished publication has done.                                   *)
LEMMA FinishedReached ==
    ASSUME Hearing, NEW r \in Request, req[r].pub # None, req[r].pub.state = "finished"
    PROVE  /\ \A h \in req[r].awaited : Cardinality({k \in DOMAIN req[r].called : req[r].called[k] = h}) = 1
           /\ conf.audit \in req[r].awaited /\ conf.audit \notin conf.broken =>
                  audit[r, req[r].pub.event] = (IF req[r].pub.event = conf.secret THEN 0 ELSE 1)
<1>1. Reached(req[r].pub, req[r].awaited, req[r].called) /\ Recorded(r, req[r])
  BY DEF Hearing, Heard
<1>2. ASSUME NEW h \in req[r].awaited PROVE \E j \in DOMAIN req[r].called : req[r].called[j] = h
  BY <1>1 DEF Reached
<1>3. ASSUME NEW h \in req[r].awaited
      PROVE  Cardinality({k \in DOMAIN req[r].called : req[r].called[k] = h}) = 1
  <2>1. PICK j \in DOMAIN req[r].called : req[r].called[j] = h
    BY <1>2
  <2>2. {k \in DOMAIN req[r].called : req[r].called[k] = h} = {j}
    BY <1>1, <2>1 DEF Reached
  <2>3. Cardinality({j}) = 1
    BY FS_Singleton
  <2> QED BY <2>2, <2>3
<1>4. ASSUME conf.audit \in req[r].awaited, conf.audit \notin conf.broken
      PROVE  audit[<<r, req[r].pub.event>>] = (IF req[r].pub.event = conf.secret THEN 0 ELSE 1)
  BY <1>1, <1>2, <1>4 DEF Recorded
<1> QED BY <1>3, <1>4

(* Every handler that was registered when a publication began is called    *)
(* once before it finishes, whichever of them raise and whoever subscribes *)
(* meanwhile, and the audit log has one row of it.                         *)
THEOREM EventsReachHandlersAlways == Spec => []EventsReachHandlers
<1>1. Init => Requesting /\ Hearing
  BY RequestingInit, HearingInit
<1>2. Requesting /\ Hearing /\ [Next]_vars => (Requesting /\ Hearing)'
  BY RequestingStep, HearingNext
<1>3. Requesting /\ Hearing => EventsReachHandlers
  BY FinishedReached DEF EventsReachHandlers
<1> QED BY <1>1, <1>2, <1>3, PTL DEF Spec
------------------------------------------------------------------------------
(* The types of what the steps above do not speak of.                      *)
Bucket == [count : Nat, start : 0 .. MaxClock]

Sizes ==
    /\ clock \in 0 .. MaxClock /\ specs \subseteq Candidates
    /\ rows \in [Session -> 0 .. MaxClock \cup {None}]
    /\ bucket \in [Name \cup Core -> Bucket]

Errors ==
    /\ phase \in {"down", "starting", "serving", "stopping", "ended"} /\ db \in {"closed", "open"}
    /\ ready \in BOOLEAN
    /\ primary \subseteq Error /\ shutdown \subseteq Error /\ reported \subseteq Error /\ life.errors \subseteq Error

LEMMA ErrorsOf ==
    /\ <<"open", 0>> \in Error /\ <<"body", 0>> \in Error /\ <<"close", 0>> \in Error /\ <<"no_yield", 0>> \in Error
    /\ \A p \in Plugin : <<"start", p>> \in Error /\ <<"stop", p>> \in Error
BY DEF Error

LEMMA ErrorsStep ==
    ASSUME Steady, Errors, LifespanStep
    PROVE  Errors'
<1>1. life = [up |-> life.up, down |-> life.down, errors |-> life.errors] /\ started \in Seq(Plugin)
  BY DEF Steady, Placed, Up, Downs
<1>2. ASSUME NEW e \in Error, Failed(e) PROVE life'.errors \subseteq Error
  <2>1. life'.errors = life.errors \cup {e}
    BY <1>1, <1>2 DEF Failed
  <2> QED BY <1>2, <2>1 DEF Errors
<1>3. CASE OpenDatabase
  <2>1. CASE db' = "open" /\ phase' = "starting" /\ UNCHANGED <<reported, life>>
    BY <1>3, <2>1 DEF OpenDatabase, Errors
  <2>2. CASE Failed(<<"open", 0>>) /\ db' = "closed" /\ phase' = "ended" /\ reported' = {<<"open", 0>>}
    BY <1>2, <1>3, <2>2, ErrorsOf DEF OpenDatabase, Errors
  <2> QED BY <1>3, <2>1, <2>2 DEF OpenDatabase
<1>4. CASE StartPlugin
  <2> DEFINE p == Len(started) + 1
  <2>1. CASE UNCHANGED <<phase, primary>> /\ life' = [life EXCEPT !.up = Append(@, p)]
    <3>1. life'.errors = life.errors
      BY <1>1, <2>1
    <3> QED BY <1>4, <2>1, <3>1 DEF StartPlugin, Errors
  <2>2. CASE Failed(<<"start", p>>) /\ primary' = {<<"start", p>>} /\ phase' = "stopping"
    <3>1. p \in Plugin
      BY <1>4 DEF StartPlugin
    <3> HIDE DEF p
    <3>2. <<"start", p>> \in Error
      BY <3>1, ErrorsOf
    <3> QED BY <1>2, <1>4, <2>2, <3>2 DEF StartPlugin, Errors
  <2> QED BY <1>4, <2>1, <2>2 DEF StartPlugin
<1>5. CASE Serve
  BY <1>5 DEF Serve, Errors
<1>6. CASE Leave
  <2>1. CASE ready' = FALSE /\ UNCHANGED <<primary, life>>
    BY <1>6, <2>1 DEF Leave, Errors
  <2>2. CASE Failed(<<"body", 0>>) /\ primary' = {<<"body", 0>>} /\ ready' = ReadyAfter
    BY <1>2, <1>6, <2>2, ErrorsOf DEF Leave, Errors, ReadyAfter
  <2> QED BY <1>6, <2>1, <2>2 DEF Leave
<1>7. CASE StopPlugin
  <2> DEFINE p == Last(started)
  <2>1. PICK fails \in BOOLEAN :
           /\ shutdown' = IF fails THEN shutdown \cup {<<"stop", p>>} ELSE shutdown
           /\ life' = [life EXCEPT !.down = Append(@, p), !.errors = IF fails THEN @ \cup {<<"stop", p>>} ELSE @]
    BY <1>7 DEF StopPlugin
  <2>2. p \in Plugin
    BY <1>1, <1>7 DEF StopPlugin, Last
  <2> HIDE DEF p
  <2>3. <<"stop", p>> \in Error
    BY <2>2, ErrorsOf
  <2>4. life'.errors = IF fails THEN life.errors \cup {<<"stop", p>>} ELSE life.errors
    BY <1>1, <2>1
  <2>5. UNCHANGED <<phase, db, primary, reported, ready>>
    BY <1>7 DEF StopPlugin
  <2> QED BY <2>1, <2>3, <2>4, <2>5 DEF Errors
<1>8. CASE CloseDatabase
  <2>1. db' = "closed" /\ phase' = "ended" /\ UNCHANGED <<primary, shutdown, ready>> /\ Raised \subseteq Error
    BY <1>8 DEF CloseDatabase, Raised, Errors
  <2>2. life'.errors \subseteq Error
    <3>1. CASE Failed(<<"close", 0>>)
      BY <1>2, <3>1, ErrorsOf
    <3>2. CASE UNCHANGED life
      BY <3>2 DEF Errors
    <3> QED BY <1>8, <3>1, <3>2 DEF CloseDatabase
  <2>3. reported' \subseteq Raised \cup {<<"close", 0>>, <<"no_yield", 0>>}
    BY <1>8 DEF CloseDatabase
  <2>4. reported' \subseteq Error
    BY <2>1, <2>3, ErrorsOf
  <2> QED BY <2>1, <2>2, <2>4 DEF Errors
<1> QED BY <1>3, <1>4, <1>5, <1>6, <1>7, <1>8 DEF LifespanStep

LEMMA ErrorsNext ==
    ASSUME Steady, Errors, [Next]_vars
    PROVE  Errors'
<1>1. CASE LifespanStep
  BY <1>1, ErrorsStep
<1>2. CASE UNCHANGED <<conf, lifespan>>
  BY <1>2 DEF Errors, lifespan
<1> QED BY <1>1, <1>2, NextOfProcess

LEMMA CountedBucket ==
    ASSUME Requesting, Sizes, NEW r \in Request, check(r)
    PROVE  bucket' \in [Name \cup Core -> Bucket]
<1> DEFINE i == In(r)
           b == bucket[i.route.path]
           n == IF b.count = 0 \/ b.start + Window <= clock THEN [count |-> 1, start |-> clock]
                ELSE [b EXCEPT !.count = @ + 1]
<1>1. i.route.path \in Name \cup Core
  <2>1. i \in Input
    BY DEF Requesting, Served, check, At, In
  <2> HIDE DEF i
  <2> QED BY <2>1 DEF Input, Route
<1>2. b \in Bucket /\ clock \in 0 .. MaxClock
  BY <1>1 DEF Sizes
<1>3. n \in Bucket
  <2> HIDE DEF b
  <2>1. [count |-> 1, start |-> clock] \in Bucket
    BY <1>2 DEF Bucket
  <2>2. [b EXCEPT !.count = @ + 1] \in Bucket
    BY <1>2 DEF Bucket
  <2> QED BY <2>1, <2>2
<1>4. bucket' = bucket \/ bucket' = [bucket EXCEPT ![i.route.path] = n]
  BY DEF check
<1> HIDE DEF i, b, n
<1> QED BY <1>1, <1>3, <1>4 DEF Sizes

LEMMA SizesNext ==
    ASSUME Requesting, Sizes, [Next]_vars
    PROVE  Sizes'
<1>1. CASE \E r \in Request : Step(r)
  <2>1. PICK r \in Request : Step(r)
    BY <1>1
  <2>2. Effect(r)
    BY <2>1, StepEffect
  <2>3. clock' \in 0 .. MaxClock /\ specs' \subseteq Candidates
    BY <2>2 DEF Effect, Sizes
  <2>4. rows' \in [Session -> 0 .. MaxClock \cup {None}]
    <3>1. ASSUME NEW s \in Session PROVE rows'[s] \in 0 .. MaxClock \cup {None}
      BY <2>2 DEF Effect, Sizes
    <3>2. rows' = [s \in Session |-> rows'[s]]
      BY <2>2 DEF Effect
    <3> QED BY <3>1, <3>2
  <2>5. bucket' \in [Name \cup Core -> Bucket]
    <3>1. CASE check(r)
      BY <3>1, CountedBucket
    <3>2. CASE ~check(r)
      <4>1. bucket' = bucket
        BY <2>1, <3>2 DEF Step, ReadRow, Touch, DropIdle, Hooks, Middlewares, Enter, NoEffect, check_readiness,
               Revoke, PluginEndpoint, CallHandler, Published, AfterHooks, ResponseHooks
      <4> QED BY <4>1 DEF Sizes
    <3> QED BY <3>1, <3>2
  <2> QED BY <2>3, <2>4, <2>5 DEF Sizes
<1>2. CASE Tick
  <2>1. clock < conf.ticks /\ clock' = clock + 1 /\ UNCHANGED <<specs, rows, bucket>>
    BY <1>2 DEF Tick
  <2>2. conf.ticks \in 0 .. MaxClock
    BY InputAssumption DEF Requesting
  <2>3. clock' \in 0 .. MaxClock
    BY <2>1, <2>2, WindowAssumption DEF Sizes
  <2> QED BY <2>1, <2>3 DEF Sizes
<1>3. CASE UNCHANGED <<clock, specs, rows, bucket>>
  BY <1>3 DEF Sizes
<1>4. Next /\ ~(\E r \in Request : Step(r)) /\ ~Tick => UNCHANGED <<clock, specs, rows, bucket>>
  BY DEF Next, OnEvent, Send, hvars
<1>5. UNCHANGED vars => UNCHANGED <<clock, specs, rows, bucket>>
  BY DEF vars, hvars
<1> QED BY <1>1, <1>2, <1>3, <1>4, <1>5

LEMMA SizesInit ==
    ASSUME Init
    PROVE  Sizes /\ Errors
<1>1. Sizes
  <2>1. clock = 0 /\ rows = [s \in Session |-> 0]
        /\ bucket = [p \in Name \cup Core |-> [count |-> 0, start |-> 0]]
    BY DEF Init
  <2>2. specs \subseteq Candidates
    BY InputAssumption DEF Init, RuntimeInit
  <2>3. 0 \in 0 .. MaxClock /\ [count |-> 0, start |-> 0] \in Bucket
    BY WindowAssumption DEF Bucket
  <2> QED BY <2>1, <2>2, <2>3 DEF Sizes
<1>2. Errors
  BY DEF Init, RuntimeInit, Errors
<1> QED BY <1>1, <1>2

LEMMA TypesOf ==
    ASSUME Steady, Errors, Requesting, Hearing, Sizes
    PROVE  TypeOK
<1>1. RuntimeTypeOK
  <2>1. conf \in Confs /\ subscribers \in Seq([type : Type, handlers : Seq(Handler)])
    BY DEF Requesting, Hearing, Wired, Bus, Group
  <2>2. started \in Seq(Plugin) /\ life = [up |-> life.up, down |-> life.down, errors |-> life.errors]
        /\ life.up \in Seq(Plugin) /\ life.down \in Seq(Plugin)
    BY DEF Steady, Placed, Up, Downs
  <2>3. life.errors \in SUBSET Error
    BY DEF Errors
  <2>4. life \in [up : Seq(Plugin), down : Seq(Plugin), errors : SUBSET Error]
    BY <2>2, <2>3
  <2> QED BY <2>1, <2>2, <2>4 DEF RuntimeTypeOK, Errors
<1>2. ASSUME NEW r \in Request
      PROVE  /\ req[r].pc \in Pc /\ req[r].status \in Status
             /\ req[r].input \in Input \cup {None}
             /\ req[r].reading \in {"get", "touch", "drop"}
             /\ req[r].pub \in Publication \cup {None}
             /\ req[r].seen \subseteq {"hook", "middleware", "handler"}
  <2>1. Typed(req[r]) /\ (req[r].pub # None => req[r].pub \in Publication)
    BY DEF Hearing, Heard, Reached
  <2>2. req[r].input \in Input \cup {None}
    BY DEF Requesting, Served
  <2> QED BY <2>1, <2>2 DEF Typed
<1>3. audit \in [Request \X Event -> Nat]
  BY DEF Hearing
<1> QED BY <1>1, <1>2, <1>3 DEF TypeOK, Sizes, Bucket

(* The process and the requests keep their types, their counters too.      *)
THEOREM TypeCorrect == Spec => []TypeOK
<1>1. Init => Steady /\ Errors /\ Requesting /\ Hearing /\ Sizes
  BY SteadyInit, RequestingInit, HearingInit, SizesInit
<1>2. Steady /\ Errors /\ Requesting /\ Hearing /\ Sizes /\ [Next]_vars
      => (Steady /\ Errors /\ Requesting /\ Hearing /\ Sizes)'
  BY SteadyStep, ErrorsNext, RequestingStep, HearingNext, SizesNext
<1>3. Steady /\ Errors /\ Requesting /\ Hearing /\ Sizes => TypeOK
  BY TypesOf
<1> QED BY <1>1, <1>2, <1>3, PTL DEF Spec
================================================================================
