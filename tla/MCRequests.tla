----------------------------- MODULE MCRequests -----------------------------
EXTENDS Requests, TLC

CONSTANTS r1, r2, s1, s2, h1, h2, h3, auditor, public, private

mc_Event == {"UserSignedOut", "SessionRevoked", "OtpGenerated"}

mc_Subscribed == <<[type |-> AnyEvent, handler |-> auditor], [type |-> "UserSignedOut", handler |-> h1],
                   [type |-> "UserSignedOut", handler |-> h2]>>

E(p, m, path, name, auth, csrf, hidden) ==
    [plugin |-> p, method |-> m, path |-> path, name |-> name,
     auth_required |-> auth, csrf_required |-> csrf, server_only |-> hidden]

(* One guarded endpoint, and others that would share its name or its path, *)
(* or a name of the core.                                                  *)
mc_Candidates == {E(1, "POST", private, private, TRUE, TRUE, FALSE), E(2, "POST", public, private, FALSE, FALSE, FALSE),
                  E(2, "POST", public, private, FALSE, FALSE, TRUE), E(2, "POST", private, public, FALSE, FALSE, FALSE),
                  E(2, "GET", "get_session", "get_session", TRUE, FALSE, TRUE), E(1, "GET", public, public, FALSE, TRUE, FALSE),
                  E(2, "DELETE", public, "sign_out", FALSE, FALSE, FALSE), E(1, "POST", public, public, FALSE, FALSE, FALSE)}

All == CoreRoutes \cup
       {[name |-> a.name, path |-> a.path, method |-> a.method, protected |-> a.auth_required,
         csrf |-> a.csrf_required] : a \in mc_Candidates}

I(routes, tokens, targets) ==
    [route : {a \in All : a.name \in routes}, token : tokens, cookie : {TRUE}, bearer : {FALSE},
     origin : {"trusted"}, target : targets]

Origins ==
    [route : {a \in All : a.name = private /\ a.csrf}, token : {s1, None}, cookie : BOOLEAN, bearer : BOOLEAN,
     origin : {"none", "trusted", "other"}, target : {s1}]

C == [lifespan |-> FALSE, suppresses |-> FALSE, fails |-> {}, broken |-> {}, requests |-> {r1, r2}, inputs |-> {}, candidates |-> {},
      limit |-> 1, ticks |-> 0, csrf |-> TRUE, require_origin |-> FALSE, early |-> {}, late |-> {},
      audit |-> auditor, secret |-> "OtpGenerated"]

Lifespans ==
    {[C EXCEPT !.lifespan = TRUE, !.suppresses = s, !.requests = {r1}, !.fails = {"open", "start", "body", "stop", "close"},
               !.inputs = I({"fastauth_readiness", "fastauth_liveness"}, {None}, {s1})] : s \in BOOLEAN}

(* Requests of one session, and every way it ends meanwhile.               *)
Races == {[C EXCEPT !.ticks = 2, !.limit = 2, !.inputs = I({"get_session", "list_sessions", "sign_out"}, {s1}, {s1})
                                          \cup I({"revoke_session", "revoke_other_sessions"}, {s2}, {s1})]}

Assemblies ==
    {[C EXCEPT !.candidates = mc_Candidates, !.requests = {r1}, !.early = {"hook", "middleware"}, !.fails = {"hook"},
               !.csrf = c, !.inputs = I({private, public, "get_session", "list_sessions"}, {s1, None}, {s1})] : c \in BOOLEAN}

Csrf == {[C EXCEPT !.candidates = {E(1, "POST", private, private, TRUE, TRUE, FALSE)}, !.requests = {r1}, !.csrf = c,
                   !.require_origin = o, !.inputs = Origins] : c, o \in BOOLEAN}

Publications ==
    {[C EXCEPT !.candidates = {E(1, "POST", public, public, FALSE, FALSE, FALSE)}, !.late = [type : {"UserSignedOut", "SessionRevoked"}, handler : {h3}], !.broken = f,
               !.inputs = [route : {a \in All : a.method = "POST" /\ a.path \in {"sign_out", public} /\ a.name \in {"sign_out", public}},
                           token : {s1}, cookie : {FALSE}, bearer : {TRUE}, origin : {"none"}, target : {s1}]] :
        f \in {{h1}, {auditor, h2}}}

mc_Confs == Lifespans \cup Races \cup Assemblies \cup Csrf \cup Publications
==============================================================================
