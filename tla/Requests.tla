------------------------------ MODULE Requests ------------------------------
(***************************************************************************)
(* A request on its way through the process of module Runtime: the CSRF    *)
(* middleware, the rate limit, the checks that FastAuthRoute makes before  *)
(* any plugin sees the request, the plugins' hooks and middlewares, the    *)
(* dependencies of the route, its handler, and the hooks on the answer.    *)
(* Up to three times on its way a request reads its session, which other   *)
(* requests revoke meanwhile and which expires when it is idle.  The       *)
(* refresh family of a revoked session is in module MongoRefresh, what the *)
(* plugins' own endpoints do in the modules of those plugins.              *)
(***************************************************************************)
EXTENDS Runtime

CONSTANTS
    Request,        \* requests in flight
    Session,        \* the sessions of one user
    Candidates,     \* endpoints that plugins may declare, see EndpointSpec
    Idle, Window,   \* idle_timeout and the window of the rate limit, in ticks
    MaxClock        \* bound on the clock; conf.ticks is the bound of a process

(* Paths and names of plugins' endpoints; those of the core are its names. *)
CONSTANTS Name, None

Core == {"refresh_session", "sign_out", "get_session", "list_sessions", "revoke_session",
         "revoke_other_sessions", "fastauth_liveness", "fastauth_readiness"}
Method == {"GET", "POST", "DELETE"}
EndpointSpec == [plugin : Plugin, method : Method, path : Name \cup Core, name : Name \cup Core,
                 auth_required : BOOLEAN, csrf_required : BOOLEAN, server_only : BOOLEAN]

(* A route: who mounted it, and what guards its endpoint function.         *)
Route == [name : Name \cup Core, method : Method, path : Name \cup Core, protected : BOOLEAN, csrf : BOOLEAN]

(* limit: requests in a window; fails, early: parts that may raise, or     *)
(* answer in place of the handler; csrf: the middleware is installed.      *)
ASSUME CandidateAssumption == Candidates \subseteq EndpointSpec
ASSUME WindowAssumption == Idle \in Nat /\ Window \in Nat \ {0} /\ MaxClock \in Nat

VARIABLES
    clock,
    specs,          \* the endpoints the installed plugins declare
    rows,           \* session -> the time of its last read (updated_at), or None
    req,            \* the requests
    bucket,         \* path -> count and start of its rate-limit window
    audit           \* rows that the audit log holds of an event of a request

hvars == <<clock, specs, rows, req, bucket, audit>>
vars == <<rvars, hvars>>

Input == [route : Route, token : Session \cup {None}, cookie : BOOLEAN, bearer : BOOLEAN,
          origin : {"none", "trusted", "other"}, target : Session]
ASSUME InputAssumption ==
    /\ \A c \in Confs : c.inputs \subseteq Input /\ c.candidates \subseteq Candidates
    /\ \A c \in Confs : c.late \subseteq Subscription /\ c.ticks \in 0 .. MaxClock
    /\ None \notin EndpointSpec

(* What the core's own handlers publish.                                   *)
ASSUME CoreEventAssumption == {"UserSignedOut", "SessionRevoked"} \subseteq Event

Pc == {"new", "limit", "guard", "hooks", "middleware", "dependency", "handler", "revoke", "act", "publish",
       "after", "response", "done"}

Status == {0, 200, 202, 204, 401, 403, 404, 429, 500, 503}

(* late: the session was not there when the request arrived.  reading: the *)
(* step of DatabaseSessionStrategy.read a request is in.                   *)
NoRequest == [pc |-> "new", input |-> None, reading |-> "get", status |-> 0, late |-> FALSE, seen |-> {},
              up |-> FALSE, pub |-> None, awaited |-> {}, called |-> <<>>, left |-> <<>>]

TypeOK ==
    /\ RuntimeTypeOK
    /\ clock \in 0 .. MaxClock
    /\ specs \subseteq Candidates
    /\ rows \in [Session -> 0 .. MaxClock \cup {None}]
    /\ \A r \in Request :
        /\ req[r].pc \in Pc /\ req[r].status \in Status
        /\ req[r].input \in Input \cup {None}
        /\ req[r].reading \in {"get", "touch", "drop"}
        /\ req[r].pub \in Publication \cup {None}
        /\ req[r].seen \subseteq {"hook", "middleware", "handler"}
    /\ bucket \in [Name \cup Core -> [count : Nat, start : 0 .. MaxClock]]
    /\ audit \in [Request \X Event -> Nat]
------------------------------------------------------------------------------
CoreRoutes ==
    {[name |-> c, path |-> c, csrf |-> FALSE,
      method |-> IF c \in {"refresh_session", "sign_out"} THEN "POST"
                 ELSE IF c \in {"revoke_session", "revoke_other_sessions"} THEN "DELETE" ELSE "GET",
      protected |-> c \in {"list_sessions", "revoke_session", "revoke_other_sessions"}] :
        c \in Core}

(* What PluginRegistry accepts, and what build_router does: it looks at    *)
(* the endpoints that it mounts and at the routes of the core.             *)
Unique_Routes(S) == \A a, b \in S : a # b => <<a.method, a.path>> # <<b.method, b.path>>

Unique(S) ==
    \A a, b \in S : a # b => a.name # b.name /\ <<a.method, a.path>> # <<b.method, b.path>>

Mounted(S) == {a \in S : ~a.server_only}

Accepted(S) ==
    /\ Unique(S)
    /\ \A a \in Mounted(S) :
        /\ \A b \in Mounted(S) \ {a} : a.name # b.name
        /\ \A c \in CoreRoutes : a.name # c.name /\ <<a.method, a.path>> # <<c.method, c.path>>

Routes ==
    CoreRoutes \cup
    {[name |-> a.name, path |-> a.path, method |-> a.method, protected |-> a.auth_required,
      csrf |-> a.csrf_required] : a \in Mounted(specs)}

(* endpoint_specs is a dict: of several specs the last one registered.     *)
SpecOf(route) ==
    LET S == {a \in specs : a.method = route.method /\ a.name = route.name}
    IN  IF S = {} THEN None ELSE CHOOSE a \in S : \A b \in S : b.plugin <= a.plugin

Init ==
    /\ RuntimeInit
    /\ clock = 0
    /\ \E S \in SUBSET conf.candidates : Accepted(S) /\ specs = S
    /\ rows = [s \in Session |-> 0]
    /\ req = [r \in Request |-> NoRequest]
    /\ bucket = [p \in Name \cup Core |-> [count |-> 0, start |-> 0]]
    /\ audit = [e \in Request \X Event |-> 0]
------------------------------------------------------------------------------
At(r, pc) == req[r].pc = pc
In(r) == req[r].input
Put(r, q) == req' = [req EXCEPT ![r] = q]
Go(r, pc) == Put(r, [req[r] EXCEPT !.pc = pc])
Answer(r, status) == Put(r, [req[r] EXCEPT !.pc = "done", !.status = status])

(* What the handler or a hook answered still meets the response hooks;     *)
(* an error does not.                                                      *)
Early(q, status) == [q EXCEPT !.pc = "response", !.status = status]

Safe == {"GET", "HEAD", "OPTIONS"}

(* The bearer exemption is for requests without the session cookie.        *)
BearerOnly(i) == i.bearer /\ ~i.cookie

(* CsrfMiddleware lets a request pass; required_csrf_dependency does.      *)
PassesMiddleware(i) ==
    \/ ~conf.csrf \/ i.route.method \in Safe \/ BearerOnly(i)
    \/ i.origin = "trusted"
    \/ i.origin = "none" /\ ~conf.require_origin

PassesCsrf(i) == i.route.method \in Safe \/ BearerOnly(i) \/ i.origin = "trusted"

Fresh(s, now) == Idle = 0 \/ rows[s] + Idle > now

(* A request is sent.  A read in progress may still have the session used. *)
Alive(s) ==
    /\ s # None /\ rows[s] # None
    /\ \/ Fresh(s, clock)
       \/ \E q \in Request : req[q].reading = "touch" /\ In(q).token = s

Send(r) ==
    /\ At(r, "new") /\ r \in conf.requests
    /\ \E i \in conf.inputs :
        /\ i.route \in Routes
        /\ Put(r, [NoRequest EXCEPT !.input = i, !.late = ~Alive(i.token),
                                    !.pc = IF PassesMiddleware(i) THEN "limit" ELSE "done",
                                    !.status = IF PassesMiddleware(i) THEN 0 ELSE 403])
    /\ UNCHANGED <<rvars, clock, specs, rows, bucket, audit>>

(* RateLimiter.check: one atomic increment of the path's bucket.           *)
Exceeds(count) == count > conf.limit

Health == {"fastauth_liveness", "fastauth_readiness"}

Guarded(route) ==
    \/ route.name \in {"list_sessions", "revoke_session", "revoke_other_sessions"}
    \/ SpecOf(route) # None /\ SpecOf(route).auth_required

(* To the next step, unless required_csrf_dependency refuses.             *)
PassCsrf(q, applies, pc) ==
    IF applies /\ ~PassesCsrf(q.input) THEN [q EXCEPT !.pc = "done", !.status = 403]
    ELSE [q EXCEPT !.pc = pc]

PassGuard(q) ==
    PassCsrf(q, SpecOf(q.input.route) # None /\ SpecOf(q.input.route).csrf_required, "hooks")

check(r) ==
    LET i == In(r)
        b == bucket[i.route.path]
        n == IF b.count = 0 \/ b.start + Window <= clock THEN [count |-> 1, start |-> clock]
             ELSE [b EXCEPT !.count = @ + 1]
    IN  /\ At(r, "limit")
        /\ IF i.route.name \in Health THEN Put(r, PassGuard(req[r])) /\ bucket' = bucket
           ELSE /\ bucket' = [bucket EXCEPT ![i.route.path] = n]
                /\ IF Exceeds(n.count) THEN Answer(r, 429)
                   ELSE IF Guarded(i.route) THEN Put(r, [req[r] EXCEPT !.pc = "guard"])
                   ELSE Put(r, PassGuard(req[r]))
        /\ UNCHANGED <<rvars, clock, specs, rows, audit>>

(* Reading the session, wherever a request does: the row, and then, with   *)
(* an idle timeout, its new updated_at or its deletion.                    *)
Readers == {"guard", "dependency", "handler", "revoke"}

Reads(route) == route.protected \/ route.name \in {"get_session", "sign_out"}

Valid(r) ==
    LET q == [req[r] EXCEPT !.reading = "get"]
    IN  CASE At(r, "guard") -> PassGuard(q)
          [] At(r, "dependency") -> PassCsrf(q, In(r).route.csrf, "handler")
          [] At(r, "handler") -> [q EXCEPT !.seen = @ \cup {"handler"},
                                           !.pc = IF In(r).route.name = "sign_out" THEN "revoke" ELSE "act"]
          [] At(r, "revoke") -> [q EXCEPT !.pc = "act"]

(* get_session answers 204 and sign_out succeeds; the others raise.  The   *)
(* read that PolicySessionStrategy.revoke makes decides nothing.           *)
Invalid(r) ==
    LET q == [req[r] EXCEPT !.reading = "get"]
        mild == At(r, "handler") /\ In(r).route.name \in {"get_session", "sign_out"}
    IN  IF At(r, "revoke") THEN [q EXCEPT !.pc = "act"]
        ELSE [q EXCEPT !.pc = IF mild THEN "after" ELSE "done",
                       !.status = IF ~mild THEN 401 ELSE IF In(r).route.name = "sign_out" THEN 200 ELSE 204]

ReadRow(r) ==
    LET s == In(r).token
    IN  /\ req[r].pc \in Readers /\ req[r].reading = "get" /\ (At(r, "handler") => Reads(In(r).route))
        /\ IF s = None THEN Put(r, Invalid(r))
           ELSE IF rows[s] = None THEN Put(r, Invalid(r))
           ELSE IF Idle = 0 THEN Put(r, Valid(r))
           ELSE Put(r, [req[r] EXCEPT !.reading = IF Fresh(s, clock) THEN "touch" ELSE "drop"])
        /\ UNCHANGED <<rvars, clock, specs, rows, bucket, audit>>

(* update_session of a row that is gone raises and brings nothing back.    *)
Touched_Upsert(s) == clock

Touched_Expiry(s) == IF rows[s] = None THEN None ELSE clock + Idle

Touched(s) == IF rows[s] = None THEN None ELSE clock

Touch(r) ==
    LET s == In(r).token
        touched == Touched(s)
    IN  /\ req[r].reading = "touch"
        /\ rows' = [rows EXCEPT ![s] = touched]
        /\ IF touched = None THEN Put(r, [req[r] EXCEPT !.reading = "get", !.pc = "done", !.status = 404])
           ELSE Put(r, Valid(r))
        /\ UNCHANGED <<rvars, clock, specs, bucket, audit>>

DropIdle(r) ==
    /\ req[r].reading = "drop"
    /\ rows' = [rows EXCEPT ![In(r).token] = None]
    /\ Put(r, Invalid(r))
    /\ UNCHANGED <<rvars, clock, specs, bucket, audit>>

(* Request hooks and hooks before the endpoint: they may answer or raise.  *)
Saw(r, who) == [req[r] EXCEPT !.seen = @ \cup {who}]

Hooks(r) ==
    /\ At(r, "hooks")
    /\ \/ Put(r, [Saw(r, "hook") EXCEPT !.pc = "middleware"])
       \/ "hook" \in conf.early /\ Put(r, Early(Saw(r, "hook"), 202))
       \/ MayFail("hook") /\ Put(r, [Saw(r, "hook") EXCEPT !.pc = "done", !.status = 500])
    /\ UNCHANGED <<rvars, clock, specs, rows, bucket, audit>>

(* A middleware calls the next one and returns what that answers, or not,  *)
(* or raises before it does.                                               *)
Middlewares(r) ==
    LET q == Saw(r, "middleware")
    IN  /\ At(r, "middleware")
        /\ \/ Put(r, IF In(r).route.protected THEN [q EXCEPT !.pc = "dependency"]
                      ELSE PassCsrf(q, In(r).route.csrf, "handler"))
           \/ "middleware" \in conf.early /\ Put(r, [q EXCEPT !.pc = "after", !.status = 202])
           \/ MayFail("hook") /\ Put(r, [q EXCEPT !.pc = "done", !.status = 500])
        /\ UNCHANGED <<rvars, clock, specs, rows, bucket, audit>>

(* Handlers that need no session start to act at once.                     *)
Enter(r) ==
    /\ At(r, "handler") /\ ~Reads(In(r).route)
    /\ Put(r, [Saw(r, "handler") EXCEPT !.pc = "act"])
    /\ UNCHANGED <<rvars, clock, specs, rows, bucket, audit>>

(* What the handler does.  check_readiness reads the flag and then pings.  *)
NoEffect(r) ==
    /\ At(r, "act") /\ In(r).route.name \in {"get_session", "list_sessions", "fastauth_liveness"}
    /\ Put(r, [req[r] EXCEPT !.pc = "after", !.status = 200])
    /\ UNCHANGED <<rvars, clock, specs, rows, bucket, audit>>

check_readiness(r) ==
    /\ At(r, "act") /\ In(r).route.name = "fastauth_readiness"
    /\ IF ~req[r].up /\ ready THEN Put(r, [req[r] EXCEPT !.up = TRUE])
       ELSE \/ req[r].up /\ db = "open" /\ Put(r, [req[r] EXCEPT !.pc = "after", !.status = 200])
            \/ Answer(r, 503)
    /\ UNCHANGED <<rvars, clock, specs, rows, bucket, audit>>

Revoked(i) ==
    CASE i.route.name = "sign_out" -> {i.token}
      [] i.route.name = "revoke_session" -> {i.target}
      [] i.route.name = "revoke_other_sessions" -> Session \ {i.token}

Revokers == {"sign_out", "revoke_session", "revoke_other_sessions"}

(* The handler publishes these events, one after the other.                *)
Publishing(q, events) ==
    IF events = <<>> THEN [q EXCEPT !.pc = "after", !.status = 200]
    ELSE [q EXCEPT !.pc = "publish", !.pub = Publish(Head(events)), !.left = Tail(events),
                   !.awaited = Registered(Head(events)), !.called = <<>>]

Revoke(r) ==
    LET i == In(r)
    IN  /\ At(r, "act") /\ i.route.name \in Revokers
        /\ rows' = [s \in Session |-> IF s \in Revoked(i) THEN None ELSE rows[s]]
        /\ IF i.route.name = "revoke_session" /\ rows[i.target] = None THEN Answer(r, 404)
           ELSE Put(r, Publishing(req[r], IF i.route.name = "sign_out" THEN <<"UserSignedOut", "SessionRevoked">>
                                          ELSE <<>>))
        /\ UNCHANGED <<rvars, clock, specs, bucket, audit>>

PluginEndpoint(r) ==
    /\ At(r, "act") /\ In(r).route.name \notin Core
    /\ \E e \in Event : Put(r, Publishing(req[r], <<e>>))
    /\ UNCHANGED <<rvars, clock, specs, rows, bucket, audit>>

(* One handler of the event runs; what it raises is logged.  A record of   *)
(* the audit log is such a handler's work.                                 *)
Resume_Stops(p, fails) == IF fails THEN [p EXCEPT !.state = "finished"] ELSE Advance(p)

Resume(p, fails) == Advance(p)

CallHandler(r) ==
    LET p == req[r].pub
        h == Running(p)
    IN  /\ At(r, "publish") /\ p.state = "running"
        /\ \E fails \in {f \in BOOLEAN : f => h \in conf.broken} :
            /\ Put(r, [req[r] EXCEPT !.called = Append(@, h), !.pub = Resume(p, fails)])
            /\ audit' = IF h = conf.audit /\ p.event # conf.secret /\ ~fails
                        THEN [audit EXCEPT ![<<r, p.event>>] = @ + 1] ELSE audit
        /\ UNCHANGED <<rvars, clock, specs, rows, bucket>>

Published(r) ==
    /\ At(r, "publish") /\ req[r].pub.state # "running"
    /\ IF req[r].pub.state = "broken" THEN Answer(r, 500)
       ELSE Put(r, Publishing(req[r], req[r].left))
    /\ UNCHANGED <<rvars, clock, specs, rows, bucket, audit>>

(* Hooks after the endpoint, then the response hooks, then the answer.     *)
AfterHooks(r) ==
    /\ At(r, "after")
    /\ \/ Put(r, [req[r] EXCEPT !.pc = "response"])
       \/ MayFail("hook") /\ Answer(r, 500)
    /\ UNCHANGED <<rvars, clock, specs, rows, bucket, audit>>

ResponseHooks(r) ==
    /\ At(r, "response")
    /\ \/ Put(r, [req[r] EXCEPT !.pc = "done"])
       \/ MayFail("hook") /\ Answer(r, 500)
    /\ UNCHANGED <<rvars, clock, specs, rows, bucket, audit>>

Step(r) ==
    \/ check(r) \/ ReadRow(r) \/ Touch(r) \/ DropIdle(r) \/ Hooks(r) \/ Middlewares(r) \/ Enter(r)
    \/ NoEffect(r) \/ check_readiness(r) \/ Revoke(r) \/ PluginEndpoint(r)
    \/ CallHandler(r) \/ Published(r) \/ AfterHooks(r) \/ ResponseHooks(r)

Tick ==
    /\ clock < conf.ticks /\ clock' = clock + 1
    /\ UNCHANGED <<rvars, specs, rows, req, bucket, audit>>

OnEvent == \E s \in conf.late : On(s.type, s.handler) /\ UNCHANGED hvars

Next ==
    \/ LifespanStep /\ UNCHANGED hvars
    \/ OnEvent
    \/ \E r \in Request : Send(r) \/ Step(r)
    \/ Tick

Spec == Init /\ [][Next]_vars

(* The event loop runs what it can; it need not shut the server down.      *)
FairSpec ==
    /\ Spec /\ \A r \in Request : WF_vars(Step(r))
    /\ WF_vars((StartPlugin \/ Serve \/ StopPlugin \/ CloseDatabase) /\ UNCHANGED hvars)
------------------------------------------------------------------------------
(* "auth_required=True is enforced before plugin request hooks, endpoint   *)
(* hooks, middleware, or the handler": whatever endpoints the registry     *)
(* accepts, no part of a plugin sees a request to a guarded route whose    *)
(* session was gone or idle when the request arrived; and no handler acts  *)
(* for a cookie from an untrusted origin on a route that requires trust.   *)
SeenWithSession ==
    \A r \in Request : In(r) # None /\ req[r].seen # {} =>
        /\ In(r).route.protected => ~req[r].late
        /\ In(r).route.csrf /\ In(r).route.method \notin Safe /\ In(r).cookie => In(r).origin = "trusted"

(* A session that was revoked stays so, though requests that had read its  *)
(* row write it back.                                                      *)
RevokedStaysGone == [][\A s \in Session : rows[s] = None => rows'[s] = None]_vars

(* A publication that finished called every handler that was registered    *)
(* for the event when it began, once, whichever of them raised; and it     *)
(* left one row in the audit log, none for the event with the plain code.  *)
EventsReachHandlers ==
    \A r \in Request : req[r].pub # None /\ req[r].pub.state = "finished" =>
        /\ \A h \in req[r].awaited : Cardinality({k \in DOMAIN req[r].called : req[r].called[k] = h}) = 1
        /\ conf.audit \in req[r].awaited /\ conf.audit \notin conf.broken =>
               audit[r, req[r].pub.event] = (IF req[r].pub.event = conf.secret THEN 0 ELSE 1)

(* The process never hangs: a request that was sent is answered, and a     *)
(* lifespan that began to start or to stop arrives.                        *)
EverythingEnds ==
    /\ \A r \in Request : req[r].pc # "new" ~> At(r, "done")
    /\ phase \in {"starting", "stopping"} ~> phase \in {"serving", "ended"}
==============================================================================
