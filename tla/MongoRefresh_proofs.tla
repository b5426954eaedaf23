------------------------- MODULE MongoRefresh_proofs -------------------------
(***************************************************************************)
(* Proofs about MongoRefresh, for any number of requests, tokens and       *)
(* sessions, with or without faults.                                       *)
(***************************************************************************)
EXTENDS MongoRefresh, TLAPS

------------------------------------------------------------------------------
(* The inductive invariant.                                                *)

(* Which fields of a request are set at which control points.              *)
Carrying == LookupPC \cup {"renew", "insert", "cas", "finish"} \cup LosePC \cup WonPC
Bearing  == {"ci_fam", "ci_undo", "cas", "finish", "lose_doc"} \cup WonPC
Owning   == {"ci_doc", "ci_fam", "gv2_tok", "gv2_fam", "insert", "cas", "finish", "abort"}
            \cup LosePC \cup WonPC \cup LogoutPC

Shape(r) ==
    /\ r.pc \in Carrying => r.cur \in Token
    /\ r.pc \in Bearing => r.new \in Token
    /\ r.pc \in Owning => r.sid \in Session
    /\ r.pc \in RevokePC /\ r.ret # "idle" => r.sid \in Session
    /\ r.pc = "pull" => r.victim \in Session

(* Every session a request speaks of was minted.                           *)
LocalOK(r, m) ==
    /\ r \in Request
    /\ Shape(r)
    /\ r.sid \in m \cup {None}
    /\ r.victim \in m \cup {None}
    /\ r.todo \subseteq m

Locals == \A w \in Worker : LocalOK(req[w], minted)

Minted ==
    /\ famSessions \cup handedS \subseteq minted
    /\ \A t \in docs : docSession[t] \in minted
    /\ \A t \in published : docSession[t] \in Session

(* Until the family document exists, one sign-in is at work and nothing    *)
(* else.                                                                   *)
Opening ==
    /\ active = None =>
          /\ ~revoked /\ published = {} /\ handed = {} /\ handedS = {}
          /\ \A w \in Worker : req[w].pc \in {"idle"} \cup CreatePC
          /\ \A v, w \in Worker : ~At(v, "idle") /\ ~At(w, "idle") => v = w
    /\ minted = {} => active = None /\ \A w \in Worker : At(w, "idle")
    /\ \A w \in Worker : req[w].pc \in {"ci_doc", "ci_fam"} => active = None

(* The compare-and-set was won with this request's token.                  *)
Won(r) == r.pc \in WonPC \cup {"finish"}

Candidate(r) == r.pc \in {"ci_fam", "cas"}

(* A request that has set the flag, or met it: a revocation past its mark, *)
(* and a sign-out whose second read did not return the session.            *)
Marked(r) ==
    \/ r.pc \in {"rv_read", "rv_sessions", "rv_tokens"}
    \/ r.pc \in {"lo_row3", "lo_fam3", "lo_delete"} /\ 2 \notin r.found

(* The active token moves along tokens that were never active before, so a *)
(* token is superseded by one request only.                                *)
Chain ==
    /\ active # None => active \in published
    /\ handed \subseteq published
    /\ \A w \in Worker : Candidate(req[w]) =>
          req[w].new \notin published /\ docSession[req[w].new] \in Session
    /\ \A v, w \in Worker : Candidate(req[v]) /\ Candidate(req[w]) /\ req[v].new = req[w].new
          => v = w
    /\ \A w \in Worker : Won(req[w]) =>
          /\ req[w].cur \in published \ {active}
          /\ req[w].new \in published
          /\ exchanged[req[w].cur] = {}
    /\ \A v, w \in Worker : Won(req[v]) /\ Won(req[w]) /\ req[v].cur = req[w].cur => v = w
    /\ \A t \in Token : exchanged[t] # {} => t \in published \ {active}

(* A session row that was or may still be handed out is listed in the      *)
(* family document until the row is gone.                                  *)
Listed ==
    /\ handedS \cap sessions \subseteq famSessions
    /\ \A w \in Worker : Won(req[w]) /\ req[w].sid \in sessions => req[w].sid \in famSessions
    /\ \A w \in Worker : At(w, "pull") => req[w].victim \notin sessions

Inv == TypeOK /\ Locals /\ Minted /\ Opening /\ Chain /\ ExchangedOnce /\ Listed
------------------------------------------------------------------------------
(* Requests.                                                               *)

LEMMA AbortingOK ==
    ASSUME NEW m, NEW s \in Session, s \in m
    PROVE  /\ LocalOK(Aborting(s), m)
           /\ Aborting(s).pc = "abort"
<1>1. Aborting(s) \in Request
  BY DEF Aborting, Idle, Request, PC
<1>2. Aborting(s).pc = "abort" /\ Aborting(s).sid = s /\ Aborting(s).victim = None
      /\ Aborting(s).todo = {}
  BY DEF Aborting, Idle
<1> QED
  BY <1>1, <1>2 DEF LocalOK, Shape, Carrying, Owning, Bearing, RevokePC, LookupPC, LosePC,
                    WonPC, LogoutPC

LEMMA RevokingOK ==
    ASSUME NEW m, NEW s \in Session \cup {None}, s \in m \cup {None},
           NEW p \in {"idle", "abort", "lo_find2", "lo_done"}, p # "idle" => s \in Session
    PROVE  /\ LocalOK(Revoking(s, p), m)
           /\ Revoking(s, p).pc = "rv_mark"
<1>1. Revoking(s, p) \in Request
  BY DEF Revoking, Idle, Request, PC, RevokePC
<1>2. Revoking(s, p).pc = "rv_mark" /\ Revoking(s, p).sid = s /\ Revoking(s, p).ret = p
      /\ Revoking(s, p).victim = None /\ Revoking(s, p).todo = {}
  BY DEF Revoking, Idle
<1> QED
  BY <1>1, <1>2 DEF LocalOK, Shape, Carrying, Owning, Bearing, RevokePC, LookupPC, LosePC,
                    WonPC, LogoutPC

LEMMA IdleOK ==
    ASSUME NEW m
    PROVE  LocalOK(Idle, m) /\ Idle.pc = "idle"
BY DEF LocalOK, Idle, Shape, Request, PC, Carrying, Owning, Bearing, RevokePC, LookupPC, LosePC,
       WonPC, LogoutPC

(* Where a raising call leads: never to the far side of a compare-and-set, *)
(* and out of a sign-in only to its own undo step.                         *)
LEMMA RaisedOK ==
    ASSUME NEW m, NEW r, LocalOK(r, m)
    PROVE  /\ LocalOK(Raised(r), m)
           /\ Raised(r).pc \in {"idle", "ci_undo", "abort", "rv_mark"}
           /\ r.pc = "idle" => Raised(r).pc = "idle"
           /\ r.pc \in CreatePC => Raised(r).pc \in {"idle", "ci_undo"}
<1> USE DEF CreatePC, RevokePC, LosePC, WonPC
<1>0. r \in Request /\ Shape(r) /\ r.sid \in m \cup {None}
  BY DEF LocalOK
<1>1. CASE r.pc = "ci_fam"
  <2>1. Raised(r) = [r EXCEPT !.pc = "ci_undo"]
    BY <1>1 DEF Raised
  <2> QED
    BY <2>1, <1>1 DEF LocalOK, Shape, Request, PC, Carrying, Owning, Bearing, LookupPC, LogoutPC
<1>2. CASE r.pc \in {"gv2_tok", "gv2_fam", "insert", "cas"} \cup LosePC
  <2>1. Raised(r) = Aborting(r.sid) /\ r.sid \in Session
    BY <1>0, <1>2 DEF Raised, Shape, Owning
  <2> QED BY <2>1, <1>0, <1>2, AbortingOK, IdsAssumption
<1>3. CASE r.pc \in WonPC
  <2>1. Raised(r) = Revoking(r.sid, "abort") /\ r.sid \in Session
    BY <1>0, <1>3 DEF Raised, Shape, Owning
  <2> QED BY <2>1, <1>0, <1>3, RevokingOK
<1>4. CASE r.pc = "finish"
  <2>1. Raised(r) = Revoking(r.sid, "idle") /\ r.sid \in Session
    BY <1>0, <1>4 DEF Raised, Shape, Owning
  <2> QED BY <2>1, <1>0, <1>4, RevokingOK
<1>5. CASE r.pc \in RevokePC /\ r.ret = "abort"
  <2>1. Raised(r) = Aborting(r.sid) /\ r.sid \in Session
    BY <1>0, <1>5 DEF Raised, Shape
  <2> QED BY <2>1, <1>0, <1>5, AbortingOK, IdsAssumption
<1>6. CASE /\ r.pc \notin {"ci_fam", "gv2_tok", "gv2_fam", "insert", "cas", "finish"}
                           \cup LosePC \cup WonPC
           /\ ~(r.pc \in RevokePC /\ r.ret = "abort")
  <2>1. Raised(r) = Idle
    BY <1>6 DEF Raised
  <2> QED BY <2>1, IdleOK
<1> QED BY <1>1, <1>2, <1>3, <1>4, <1>5, <1>6
------------------------------------------------------------------------------
(* Steps.                                                                  *)

LEMMA InvInit == Init => Inv
<1> SUFFICES ASSUME Init PROVE Inv
  OBVIOUS
<1>0. Idle \in Request /\ LocalOK(Idle, minted) /\ Idle.pc = "idle"
  BY IdleOK DEF LocalOK
<1>1. TypeOK
  BY <1>0 DEF Init, TypeOK
<1>2. Locals
  BY <1>0 DEF Init, Locals
<1>3. Minted /\ ExchangedOnce /\ Listed
  BY <1>0 DEF Init, Minted, ExchangedOnce, Listed, Won, WonPC, At
<1>4. Opening
  BY <1>0 DEF Init, Opening, At
<1>5. Chain
  BY <1>0 DEF Init, Chain, Won, Candidate, WonPC
<1> QED BY <1>1, <1>2, <1>3, <1>4, <1>5 DEF Inv

(* A call that goes on as r ends as a well-formed request too.             *)
LEMMA CallOutcome ==
    ASSUME Inv, NEW w \in Worker, NEW r, LocalOK(r, minted'), minted \subseteq minted',
           Call(w, r)
    PROVE  \E q : /\ LocalOK(q, minted')
                  /\ req' = [req EXCEPT ![w] = q]
                  /\ q = r \/ q.pc \in {"idle", "ci_undo", "abort", "rv_mark"}
                  /\ req[w].pc \in CreatePC /\ q # r => q.pc \in {"idle", "ci_undo"}
<1>1. LocalOK(Raised(req[w]), minted')
  <2>1. LocalOK(req[w], minted')
    BY DEF Inv, Locals, LocalOK
  <2> QED BY <2>1, RaisedOK
<1>2. LocalOK(req[w], minted)
  BY DEF Inv, Locals
<1>3. /\ Raised(req[w]).pc \in {"idle", "ci_undo", "abort", "rv_mark"}
      /\ req[w].pc \in CreatePC => Raised(req[w]).pc \in {"idle", "ci_undo"}
  BY <1>2, RaisedOK
<1>4. CASE Becomes(w, r)
  <2>1. CASE r.pc = "idle"
    BY <1>4, <2>1, IdleOK DEF Becomes
  <2>2. CASE r.pc # "idle"
    BY <1>4, <2>2 DEF Becomes
  <2> QED BY <2>1, <2>2
<1>5. CASE Becomes(w, Raised(req[w]))
  <2>1. CASE Raised(req[w]).pc = "idle"
    BY <1>5, <2>1, IdleOK DEF Becomes
  <2>2. CASE Raised(req[w]).pc # "idle"
    BY <1>1, <1>3, <1>5, <2>2 DEF Becomes
  <2> QED BY <2>1, <2>2
<1> QED BY <1>4, <1>5 DEF Call

(* A step that publishes nothing, hands nothing out and leaves its request *)
(* outside the critical control points disturbs no part of the invariant.  *)
Quiet(q) == q.pc \notin {"ci_doc", "ci_fam", "cas", "finish"} \cup WonPC

LEMMA QuietStep ==
    ASSUME Inv, NEW w \in Worker, NEW q, LocalOK(q, minted), Quiet(q),
           req' = [req EXCEPT ![w] = q],
           minted # {},
           active = None => /\ q.pc \in {"idle"} \cup CreatePC
                            /\ q.pc # "idle" => ~At(w, "idle"),
           UNCHANGED <<active, famSessions, famExpires, famCreated, docSession, expires, minted,
                       handed, handedS, exchanged, published>>,
           revoked' \in BOOLEAN, active = None => ~revoked',
           docs' \subseteq docs, consumed' \subseteq docs',
           sessions' \subseteq sessions, clock' \in Nat, signedOut' \subseteq Session
    PROVE  Inv'
<1>0. q \in Request
  BY DEF LocalOK
<1>1. TypeOK'
  BY <1>0 DEF Inv, TypeOK
<1>2. Locals'
  BY DEF Inv, TypeOK, Locals
<1>3. Minted'
  BY DEF Inv, Minted
<1>4. Opening'
  BY DEF Inv, TypeOK, Opening, At, Quiet
<1>5. Chain'
  BY DEF Inv, TypeOK, Chain, Quiet, Won, Candidate
<1>6. ExchangedOnce'
  BY DEF Inv, ExchangedOnce
<1>7. Listed'
  BY DEF Inv, TypeOK, Listed, Quiet, Won, At, WonPC
<1> QED BY <1>1, <1>2, <1>3, <1>4, <1>5, <1>6, <1>7 DEF Inv

(* What holds of any request that is at work, and of its call's outcome.   *)
LEMMA Busy ==
    ASSUME Inv, NEW w \in Worker
    PROVE  /\ LocalOK(req[w], minted)
           /\ ~At(w, "idle") => minted # {}
           /\ ~At(w, "idle") /\ req[w].pc \notin CreatePC => active # None
           /\ handed # {} \/ handedS # {} => minted # {} /\ active # None
BY DEF Inv, Locals, Opening, At, CreatePC

(* A request that only moves on.                                           *)
LEMMA MoveStep ==
    ASSUME Inv, NEW w \in Worker, NEW r, LocalOK(r, minted), Quiet(r), Becomes(w, r),
           active # None, UNCHANGED <<famVars, docVars, sesVars, clock, hisVars>>
    PROVE  Inv'
<1>1. PICK q : LocalOK(q, minted) /\ Quiet(q) /\ req' = [req EXCEPT ![w] = q]
  BY IdleOK DEF Becomes, Quiet, WonPC
<1>2. minted # {}
  BY DEF Inv, Opening
<1>3. revoked \in BOOLEAN /\ consumed \subseteq docs /\ clock \in Nat /\ signedOut \subseteq Session
  BY DEF Inv, TypeOK
<1> QED
  BY <1>1, <1>2, <1>3, QuietStep DEF famVars, docVars, sesVars, hisVars

LEMMA ExpiryNat ==
    ASSUME NEW now \in Nat, NEW created \in Nat
    PROVE  expiry_for(now, created) \in Nat
BY AgeAssumption DEF expiry_for

(* Inserting a token document makes its request a candidate at most.       *)
LEMMA MintStep ==
    ASSUME Inv, NEW w \in Worker, NEW q, NEW t \in FreshToken, NEW e \in Nat,
           ~At(w, "idle"), req[w].sid \in Session,
           LocalOK(q, minted),
           Quiet(q) \/ (q.new = t /\ q.pc = IF active = None THEN "ci_fam" ELSE "cas"),
           active = None => q.pc \in {"idle"} \cup CreatePC,
           req' = [req EXCEPT ![w] = q], InsertDoc(t, req[w].sid, e), famCreated' \in Nat,
           UNCHANGED <<active, revoked, famSessions, famExpires, sesVars, clock, hisVars>>
    PROVE  Inv'
<1> USE DEF sesVars, hisVars, InsertDoc
<1>1. t \in Token /\ docSession[t] = None /\ t \notin published
  BY IdsAssumption DEF FreshToken, Inv, Minted
<1>2. req[w].sid \in minted
  BY IdsAssumption DEF Inv, Locals, LocalOK
<1>3. \A s \in Token : docSession'[s] = IF s = t THEN req[w].sid ELSE docSession[s]
  BY DEF Inv, TypeOK
<1>4. TypeOK'
  BY <1>1 DEF Inv, TypeOK, LocalOK
<1>5. Locals'
  BY DEF Inv, TypeOK, Locals
<1>6. Minted'
  BY <1>1, <1>2, <1>3 DEF Inv, TypeOK, Minted
<1>7. Opening'
  BY DEF Inv, TypeOK, Opening, At, Quiet
<1>8. Chain'
  <2>1. \A v \in Worker : Candidate(req[v]) => req[v].new # t
    BY <1>1, IdsAssumption DEF Inv, Chain
  <2>2. \A v \in Worker : Candidate(req'[v]) =>
           \/ v = w /\ req'[v].new = t
           \/ v # w /\ req'[v] = req[v] /\ Candidate(req[v])
    BY DEF Inv, TypeOK, Quiet, Candidate
  <2>3. \A v \in Worker : Candidate(req[v]) => req[v].new \in Token
    BY DEF Inv, Locals, LocalOK, Shape, Candidate, Bearing
  <2>4. ~Won(q)
    BY DEF Quiet, Won, WonPC
  <2> QED
    BY <1>1, <1>3, <2>1, <2>2, <2>3, <2>4 DEF Inv, TypeOK, Chain
<1>9. ExchangedOnce'
  BY DEF Inv, ExchangedOnce
<1>10. Listed'
  BY DEF Inv, TypeOK, Listed, Quiet, Won, At, WonPC
<1> QED BY <1>4, <1>5, <1>6, <1>7, <1>8, <1>9, <1>10 DEF Inv

(* The same for a call with an effect, which may raise.                    *)
LEMMA CallStep ==
    ASSUME Inv, NEW w \in Worker, NEW r, LocalOK(r, minted), Quiet(r),
           Call(w, r) \/ Becomes(w, r), active # None,
           UNCHANGED <<active, famSessions, famExpires, famCreated, docSession, expires, minted,
                       clock, handed, handedS, exchanged, published>>,
           revoked' \in BOOLEAN,
           docs' \subseteq docs, consumed' \subseteq docs', sessions' \subseteq sessions,
           signedOut' \subseteq Session
    PROVE  Inv'
<1>1. Call(w, r)
  BY DEF Call
<1>2. PICK q : /\ LocalOK(q, minted') /\ req' = [req EXCEPT ![w] = q]
               /\ q = r \/ q.pc \in {"idle", "ci_undo", "abort", "rv_mark"}
  BY <1>1, CallOutcome
<1>3. Quiet(q)
  BY <1>2 DEF Quiet, WonPC
<1>4. minted # {} /\ clock \in Nat
  BY DEF Inv, Opening, TypeOK
<1> QED BY <1>2, <1>3, <1>4, QuietStep

LEMMA SignInSteps ==
    ASSUME Inv, NEW w \in Worker
    PROVE  /\ StartSignIn(w) => Inv'
           /\ CreateDoc(w) => Inv'
           /\ CreateUndo(w) => Inv'
<1> USE DEF famVars, docVars, sesVars, hisVars
<1>1. ASSUME StartSignIn(w) PROVE Inv'
  <2>1. PICK s \in Session : /\ InsertSession(s)
                             /\ Becomes(w, [Idle EXCEPT !.pc = "ci_doc", !.sid = s])
    BY <1>1 DEF StartSignIn
  <2> DEFINE q == [Idle EXCEPT !.pc = "ci_doc", !.sid = s]
  <2>2. q.pc = "ci_doc" /\ LocalOK(q, minted')
    BY <2>1 DEF Idle, InsertSession, LocalOK, Shape, Request, PC, CreatePC, Carrying, Owning, Bearing,
                RevokePC, LookupPC, LosePC, WonPC, LogoutPC
  <2>3. req' = [req EXCEPT ![w] = q]
    BY <2>1, <2>2 DEF Becomes
  <2> HIDE DEF q
  <2>4. /\ minted = {} /\ active = None /\ \A v \in Worker : At(v, "idle")
        /\ UNCHANGED <<famVars, docVars, clock, hisVars>>
        /\ sessions' = sessions \cup {s} /\ minted' = {s}
    BY <1>1, <2>1 DEF StartSignIn, InsertSession, Inv, Opening
  <2>5. TypeOK'
    BY <2>2, <2>3, <2>4 DEF Inv, TypeOK, LocalOK
  <2>6. Locals'
    BY <2>2, <2>3, <2>4 DEF Inv, TypeOK, Locals, LocalOK
  <2>7. Minted'
    BY <2>4 DEF Inv, Minted
  <2>8. Opening'
    BY <2>2, <2>3, <2>4 DEF Inv, TypeOK, Opening, At, CreatePC
  <2>9. Chain'
    BY <2>2, <2>3, <2>4 DEF Inv, TypeOK, Chain, Won, Candidate, WonPC
  <2>10. ExchangedOnce'
    BY <2>4 DEF Inv, ExchangedOnce
  <2>11. Listed'
    BY <2>2, <2>3, <2>4 DEF Inv, TypeOK, Minted, Opening, Listed, Won, WonPC, At
  <2> QED BY <2>5, <2>6, <2>7, <2>8, <2>9, <2>10, <2>11 DEF Inv
<1>2. ASSUME CreateDoc(w) PROVE Inv'
  <2>1. PICK t \in FreshToken :
          /\ InsertDoc(t, req[w].sid, expiry_for(clock, clock))
          /\ Call(w, [req[w] EXCEPT !.pc = "ci_fam", !.new = t])
    BY <1>2 DEF CreateDoc
  <2> DEFINE r == [req[w] EXCEPT !.pc = "ci_fam", !.new = t]
  <2>2. /\ At(w, "ci_doc") /\ ~At(w, "idle") /\ req[w].sid \in Session /\ active = None
        /\ minted' = minted /\ famCreated' \in Nat /\ clock \in Nat /\ req[w].pc \in CreatePC
    BY <1>2, Busy DEF CreateDoc, At, LocalOK, Shape, Owning, CreatePC, Inv, Opening, TypeOK
  <2>3. LocalOK(r, minted') /\ r.pc = "ci_fam" /\ r.new = t
    <3>1. t \in Token /\ LocalOK(req[w], minted)
      BY Busy DEF FreshToken
    <3>2. r \in Request
      BY <3>1 DEF LocalOK, Request, PC, CreatePC
    <3>3. /\ r.pc = "ci_fam" /\ r.new = t /\ r.cur = req[w].cur /\ r.sid = req[w].sid
          /\ r.victim = req[w].victim /\ r.todo = req[w].todo
      BY <3>1 DEF LocalOK, Request
    <3>4. Shape(r)
      BY <2>2, <3>1, <3>3 DEF Shape, Carrying, Owning, Bearing, RevokePC, LookupPC, LosePC, WonPC,
                              LogoutPC
    <3> QED
      BY <2>2, <3>1, <3>2, <3>3, <3>4 DEF LocalOK
  <2>4. PICK q : /\ LocalOK(q, minted') /\ req' = [req EXCEPT ![w] = q]
                 /\ q = r \/ q.pc \in {"idle", "ci_undo"}
    <3> HIDE DEF r
    <3> QED BY <2>1, <2>2, <2>3, CallOutcome DEF r
  <2> HIDE DEF r
  <2>5. Quiet(q) \/ (q.new = t /\ q.pc = "ci_fam")
    BY <2>3, <2>4 DEF Quiet, WonPC
  <2>6. q.pc \in {"idle"} \cup CreatePC
    BY <2>3, <2>4 DEF CreatePC
  <2>7. expiry_for(clock, clock) \in Nat
    BY <2>2, ExpiryNat
  <2> QED
    BY <1>2, <2>1, <2>2, <2>4, <2>5, <2>6, <2>7, MintStep DEF CreateDoc
<1>3. ASSUME CreateUndo(w) PROVE Inv'
  <2>1. At(w, "ci_undo") /\ minted # {} /\ ~At(w, "idle")
    BY <1>3, Busy DEF CreateUndo, At
  <2>2. req' = [req EXCEPT ![w] = Idle] /\ Quiet(Idle)
    BY <1>3, IdleOK DEF CreateUndo, Becomes, Quiet, WonPC
  <2>3. consumed' \subseteq docs' /\ docs' \subseteq docs
    BY <1>3 DEF CreateUndo, DeleteDocs, Inv, TypeOK
  <2>4. active = None => ~revoked'
    BY <1>3 DEF CreateUndo, Inv, Opening
  <2> QED
    BY <1>3, <2>1, <2>2, <2>3, <2>4, QuietStep, IdleOK DEF CreateUndo, DeleteDocs, Inv, TypeOK
<1> QED BY <1>1, <1>2, <1>3

LEMMA CreateFamilyStep ==
    ASSUME Inv, NEW w \in Worker, CreateFamily(w)
    PROVE  Inv'
<1> DEFINE r == req[w]
<1> USE DEF docVars, sesVars
<1>1. /\ r.pc = "ci_fam" /\ active = None /\ r.new \in Token /\ r.sid \in Session
      /\ r.sid \in minted /\ LocalOK(r, minted) /\ r.new \notin published
      /\ docSession[r.new] \in Session
  BY IdsAssumption, Busy
     DEF CreateFamily, At, LocalOK, Shape, Bearing, Owning, Inv, Opening, Chain, Candidate
<1>2. PICK q : /\ LocalOK(q, minted) /\ q.pc \in {"idle", "ci_undo"}
               /\ req' = [req EXCEPT ![w] = q]
               /\ \/ handed' = handed \cup {r.new} /\ handedS' = handedS \cup {r.sid}
                  \/ UNCHANGED <<handed, handedS>>
  <2>1. CASE Becomes(w, Idle) /\ handed' = handed \cup {r.new} /\ handedS' = handedS \cup {r.sid}
    BY <2>1, IdleOK DEF Becomes
  <2>2. CASE Becomes(w, Raised(r)) /\ UNCHANGED <<handed, handedS>>
    <3>1. LocalOK(Raised(r), minted) /\ Raised(r).pc \in {"idle", "ci_undo"}
      BY <1>1, RaisedOK DEF CreatePC
    <3>2. CASE Raised(r).pc = "idle"
      BY <2>2, <3>2, IdleOK DEF Becomes
    <3>3. CASE Raised(r).pc # "idle"
      BY <2>2, <3>1, <3>3 DEF Becomes
    <3> QED BY <3>2, <3>3
  <2> QED BY <2>1, <2>2 DEF CreateFamily
<1>3. /\ active' = r.new /\ famSessions' = {r.sid} /\ famExpires' = expires[r.new]
      /\ published' = published \cup {r.new}
      /\ UNCHANGED <<revoked, famCreated, docVars, sesVars, clock, exchanged, signedOut>>
  BY DEF CreateFamily
<1>4. /\ ~revoked /\ published = {} /\ handed = {} /\ handedS = {}
      /\ \A v \in Worker : v # w => At(v, "idle")
  BY <1>1 DEF Inv, Opening, At
<1>5. r.new # None
  BY <1>1, IdsAssumption
<1> HIDE DEF r
<1>6. TypeOK'
  BY <1>1, <1>2, <1>3 DEF Inv, TypeOK, LocalOK
<1>7. Locals'
  BY <1>2, <1>3 DEF Inv, TypeOK, Locals
<1>8. Minted'
  BY <1>1, <1>2, <1>3, <1>4 DEF Inv, Minted
<1>9. Opening'
  BY <1>1, <1>2, <1>3, <1>4, <1>5 DEF Inv, TypeOK, Opening, At
<1>10. Chain'
  <2>1. \A v \in Worker : ~Won(req'[v]) /\ ~Candidate(req'[v])
    BY <1>2, <1>4 DEF Inv, TypeOK, Won, Candidate, WonPC, At
  <2>2. \A t \in Token : exchanged[t] = {}
    BY <1>4 DEF Inv, Chain
  <2> QED BY <1>2, <1>3, <1>4, <2>1, <2>2 DEF Chain
<1>11. ExchangedOnce'
  BY <1>3 DEF Inv, ExchangedOnce
<1>12. Listed'
  <2>1. \A v \in Worker : ~Won(req'[v]) /\ req'[v].pc # "pull"
    BY <1>2, <1>4 DEF Inv, TypeOK, Won, WonPC, At
  <2> QED BY <1>2, <1>3, <1>4, <2>1 DEF Listed, At
<1> QED BY <1>6, <1>7, <1>8, <1>9, <1>10, <1>11, <1>12 DEF Inv

(* A lookup that passes moves on with consumed_at remembered or dropped.    *)
LEMMA SeenOK ==
    ASSUME NEW m, NEW r, LocalOK(r, m), NEW p \in PC, NEW b \in BOOLEAN,
           p \in Carrying => r.cur \in Token,
           p \in Owning => r.sid \in Session,
           p \notin RevokePC \cup Bearing
    PROVE  LocalOK([r EXCEPT !.pc = p, !.seen = b], m) /\ [r EXCEPT !.pc = p, !.seen = b].pc = p
<1>0. r \in Request
  BY DEF LocalOK
<1>1. [r EXCEPT !.pc = p, !.seen = b] \in Request
  BY <1>0 DEF Request
<1>2. /\ [r EXCEPT !.pc = p, !.seen = b].pc = p
      /\ [r EXCEPT !.pc = p, !.seen = b].cur = r.cur
      /\ [r EXCEPT !.pc = p, !.seen = b].sid = r.sid
      /\ [r EXCEPT !.pc = p, !.seen = b].victim = r.victim
      /\ [r EXCEPT !.pc = p, !.seen = b].todo = r.todo
  BY <1>0 DEF Request
<1> QED BY <1>1, <1>2 DEF LocalOK, Shape, RevokePC, Bearing, WonPC

LEMMA LookupSteps ==
    ASSUME Inv, NEW w \in Worker
    PROVE  /\ \A t \in Token : StartRefresh(w, t) => Inv'
           /\ LookupToken(w) => Inv'
           /\ \A second \in BOOLEAN : LookupFamily(w, second) => Inv'
<1> USE DEF Quiet, PC, CreatePC, RevokePC, LosePC, WonPC, LogoutPC, LookupPC
<1>1. ASSUME NEW t \in Token, StartRefresh(w, t) PROVE Inv'
  <2> DEFINE q == [Idle EXCEPT !.pc = "gv1_fam", !.cur = t]
             r == [Idle EXCEPT !.pc = "gv1_fam", !.cur = t, !.seen = t \in consumed]
  <2>1. LocalOK(r, minted) /\ Quiet(r) /\ LocalOK(Idle, minted) /\ Quiet(Idle)
    <3>1. /\ q \in Request /\ q.pc = "gv1_fam" /\ q.cur = t
          /\ q.sid = None /\ q.victim = None /\ q.todo = {}
      BY DEF Idle, Request
    <3>0. (t \in consumed) \in BOOLEAN
      OBVIOUS
    <3>2. PICK b \in BOOLEAN : b = (t \in consumed)
      BY <3>0, Zenon
    <3>3. PICK n : n = [q EXCEPT !.seen = b]
      OBVIOUS
    <3> HIDE DEF q
    <3>4. /\ n \in Request /\ n.pc = "gv1_fam" /\ n.cur = t
          /\ n.sid = None /\ n.victim = None /\ n.todo = {}
      BY <3>1, <3>3 DEF Request
    <3>5. r = n
      BY <3>2, <3>3, Zenon DEF q
    <3>6. LocalOK(n, minted) /\ Quiet(n)
      BY <3>4 DEF LocalOK, Shape, Carrying, Owning, Bearing
    <3> QED BY <3>5, <3>6, IdleOK
  <2>2. (Becomes(w, r) \/ Becomes(w, Idle)) /\ UNCHANGED <<famVars, docVars, sesVars, clock, hisVars>> /\ handed # {}
    BY <1>1 DEF StartRefresh
  <2>3. active # None
    BY <2>2, Busy
  <2> HIDE DEF r
  <2> QED BY <2>1, <2>2, <2>3, MoveStep
<1>2. ASSUME NEW second \in BOOLEAN PROVE
        \A p \in {"gv1_fam", "gv2_tok", "gv2_fam"} :
          At(w, p) /\ (p \in {"gv2_tok", "gv2_fam"} <=> second) =>
            LocalOK(Refused(w, second), minted) /\ Quiet(Refused(w, second))
  <2> TAKE p \in {"gv1_fam", "gv2_tok", "gv2_fam"}
  <2> HAVE At(w, p) /\ (p \in {"gv2_tok", "gv2_fam"} <=> second)
  <2>1. LocalOK(req[w], minted)
    BY Busy
  <2>2. second => req[w].sid \in Session /\ req[w].sid \in minted
    BY <2>1, IdsAssumption DEF LocalOK, Shape, Owning, At
  <2> QED BY <2>2, AbortingOK, IdleOK DEF Refused
<1>3. ASSUME LookupToken(w) PROVE Inv'
  <2> DEFINE p == "gv2_fam"
             r == [req[w] EXCEPT !.pc = p, !.seen = req[w].cur \in consumed]
             back == Aborting(req[w].sid)
  <2>1. LocalOK(req[w], minted) /\ At(w, "gv2_tok") /\ active # None
    BY <1>3, Busy DEF LookupToken, At
  <2>2. LocalOK(r, minted) /\ Quiet(r)
    <3>1. /\ p \in LookupPC /\ p \in PC /\ p \notin RevokePC \cup Bearing
          /\ req[w].cur \in Token /\ req[w].sid \in Session
      BY <2>1 DEF LocalOK, Shape, Carrying, Owning, Bearing, At
    <3>3. (req[w].cur \in consumed) \in BOOLEAN
      OBVIOUS
    <3> HIDE DEF p
    <3>4. LocalOK(r, minted) /\ r.pc = p
      BY <2>1, <3>1, <3>3, SeenOK
    <3> QED BY <3>1, <3>4
  <2>3. LocalOK(back, minted) /\ Quiet(back)
    BY <1>2, <2>1 DEF Refused
  <2>4. /\ Becomes(w, IF req[w].cur \in docs THEN r ELSE back)
        /\ UNCHANGED <<famVars, docVars, sesVars, clock, hisVars>>
    BY <1>3 DEF LookupToken
  <2> HIDE DEF r, back
  <2> QED BY <2>1, <2>2, <2>3, <2>4, MoveStep
<1>4. ASSUME NEW second \in BOOLEAN, LookupFamily(w, second) PROVE Inv'
  <2> DEFINE p == IF second THEN "insert" ELSE "renew"
             r == [req[w] EXCEPT !.pc = p, !.seen = FALSE]
             back == Revoking(req[w].sid, IF second THEN "abort" ELSE "idle")
             used == req[w].seen \/ active # req[w].cur
  <2>1. LocalOK(req[w], minted) /\ At(w, IF second THEN "gv2_fam" ELSE "gv1_fam") /\ active # None
    BY <1>4, Busy DEF LookupFamily, At
  <2>2. LocalOK(r, minted) /\ Quiet(r)
    <3>1. /\ p \in {"insert", "renew"} /\ p \in PC /\ p \notin RevokePC \cup Bearing
          /\ req[w].cur \in Token /\ (second => req[w].sid \in Session)
      BY <2>1 DEF LocalOK, Shape, Carrying, Owning, Bearing, At
    <3>2. p \in Owning => req[w].sid \in Session
      BY <3>1 DEF Owning
    <3> HIDE DEF p
    <3>4. LocalOK(r, minted) /\ r.pc = p
      BY <2>1, <3>1, <3>2, SeenOK
    <3> QED BY <3>1, <3>4
  <2>3. LocalOK(Refused(w, second), minted) /\ Quiet(Refused(w, second))
    BY <1>2, <2>1
  <2>4. LocalOK(back, minted) /\ Quiet(back)
    <3>1. second => req[w].sid \in Session
      BY <2>1 DEF LocalOK, Shape, Owning, At
    <3>2. req[w].sid \in Session \cup {None} /\ req[w].sid \in minted \cup {None}
      BY <2>1 DEF LocalOK, Request
    <3> QED BY <3>1, <3>2, RevokingOK
  <2>5. /\ Becomes(w, r) \/ Becomes(w, back) \/ Becomes(w, Refused(w, second))
        /\ UNCHANGED <<famVars, docVars, sesVars, clock, hisVars>>
    <3>1. CASE active = None \/ revoked
      BY <1>4, <3>1 DEF LookupFamily
    <3>2. CASE ~(active = None \/ revoked) /\ used
      BY <1>4, <3>2 DEF LookupFamily
    <3>3. CASE ~(active = None \/ revoked) /\ ~used
      BY <1>4, <3>3 DEF LookupFamily
    <3> QED BY <3>1, <3>2, <3>3
  <2> HIDE DEF r, back
  <2> QED BY <2>1, <2>2, <2>3, <2>4, <2>5, MoveStep
<1> QED BY <1>1, <1>3, <1>4

LEMMA CandidateSteps ==
    ASSUME Inv, NEW w \in Worker
    PROVE  /\ Renew(w) => Inv'
           /\ InsertCandidate(w) => Inv'
           /\ CasLoses(w) => Inv'
           /\ LoseDoc(w) => Inv'
           /\ LoseState(w) => Inv'
           /\ LoseSession(w) => Inv'
           /\ Abort(w) => Inv'
<1> USE DEF famVars, docVars, sesVars, hisVars
<1>0. LocalOK(req[w], minted) /\ req[w] \in Request
  BY Busy DEF LocalOK
<1>1. ASSUME Renew(w) PROVE Inv'
  <2>1. PICK s \in Session : /\ InsertSession(s)
                             /\ Call(w, [req[w] EXCEPT !.pc = "gv2_tok", !.sid = s])
    BY <1>1 DEF Renew
  <2> DEFINE r == [req[w] EXCEPT !.pc = "gv2_tok", !.sid = s]
  <2>2. /\ At(w, "renew") /\ active # None /\ s \notin minted /\ s # None
        /\ sessions' = sessions \cup {s} /\ minted' = minted \cup {s}
        /\ UNCHANGED <<famVars, docVars, clock, hisVars>>
    BY <1>1, <2>1, Busy, IdsAssumption DEF Renew, At, InsertSession, CreatePC
  <2>3. LocalOK(r, minted') /\ r.pc = "gv2_tok"
    <3>1. r \in Request
      BY <1>0 DEF Request, PC, LookupPC
    <3>2. /\ r.pc = "gv2_tok" /\ r.sid = s /\ r.cur = req[w].cur
          /\ r.victim = req[w].victim /\ r.todo = req[w].todo
      BY <1>0 DEF Request
    <3>3. Shape(r)
      BY <1>0, <2>2, <3>2 DEF At, LocalOK, Shape, Carrying, Owning, Bearing, RevokePC, LookupPC,
                              LosePC, WonPC, LogoutPC
    <3> QED
      BY <1>0, <2>2, <3>1, <3>2, <3>3 DEF LocalOK
  <2> HIDE DEF r
  <2>4. PICK q : /\ LocalOK(q, minted') /\ req' = [req EXCEPT ![w] = q]
                 /\ q = r \/ q.pc \in {"idle", "ci_undo", "abort", "rv_mark"}
    BY <2>1, <2>2, <2>3, CallOutcome DEF r
  <2>5. Quiet(q) /\ q \in Request
    BY <2>3, <2>4 DEF Quiet, WonPC, LocalOK
  <2>6. TypeOK'
    BY <2>2, <2>4, <2>5 DEF Inv, TypeOK
  <2>7. Locals'
    BY <2>2, <2>4 DEF Inv, TypeOK, Locals, LocalOK
  <2>8. Minted'
    BY <2>2 DEF Inv, Minted
  <2>9. Opening'
    BY <2>2, <2>4, <2>5 DEF Inv, TypeOK, Opening, At, Quiet
  <2>10. Chain'
    BY <2>2, <2>4, <2>5 DEF Inv, TypeOK, Chain, Quiet, Won, Candidate
  <2>11. ExchangedOnce'
    BY <2>2 DEF Inv, ExchangedOnce
  <2>12. Listed'
    <3>1. \A v \in Worker : v # w =>
            (Won(req[v]) => req[v].sid # s) /\ (At(v, "pull") => req[v].victim # s)
      BY <2>2 DEF Inv, Locals, LocalOK, Shape, Won, Owning, At
    <3> QED
      BY <2>2, <2>4, <2>5, <3>1 DEF Inv, TypeOK, Minted, Listed, Quiet, Won, At, WonPC
  <2> QED BY <2>6, <2>7, <2>8, <2>9, <2>10, <2>11, <2>12 DEF Inv
<1>2. ASSUME InsertCandidate(w) PROVE Inv'
  <2>1. PICK t \in FreshToken :
          /\ InsertDoc(t, req[w].sid, expiry_for(clock, famCreated))
          /\ Call(w, [req[w] EXCEPT !.pc = "cas", !.new = t, !.stamp = clock])
    BY <1>2 DEF InsertCandidate
  <2> DEFINE r == [req[w] EXCEPT !.pc = "cas", !.new = t, !.stamp = clock]
  <2>2. /\ At(w, "insert") /\ ~At(w, "idle") /\ req[w].sid \in Session /\ active # None
        /\ minted' = minted /\ famCreated \in Nat /\ clock \in Nat /\ req[w].cur \in Token
        /\ UNCHANGED <<famVars, sesVars, clock, hisVars>>
    BY <1>2, <1>0, Busy
       DEF InsertCandidate, At, LocalOK, Shape, Owning, Carrying, CreatePC, Inv, TypeOK
  <2>3. LocalOK(r, minted') /\ r.pc = "cas" /\ r.new = t
    <3>1. t \in Token
      BY DEF FreshToken
    <3>2. r \in Request
      BY <1>0, <2>2, <3>1 DEF Request, PC
    <3> QED
      BY <1>0, <2>2, <3>1, <3>2 DEF LocalOK, Shape, Request, Carrying, Owning,
                      Bearing, RevokePC, LookupPC, LosePC, WonPC, LogoutPC, CreatePC
  <2> HIDE DEF r
  <2>4. PICK q : /\ LocalOK(q, minted') /\ req' = [req EXCEPT ![w] = q]
                 /\ q = r \/ q.pc \in {"idle", "ci_undo", "abort", "rv_mark"}
    BY <2>1, <2>2, <2>3, CallOutcome DEF r
  <2>5. Quiet(q) \/ (q.new = t /\ q.pc = "cas")
    BY <2>3, <2>4 DEF Quiet, WonPC
  <2>6. expiry_for(clock, famCreated) \in Nat
    BY <2>2, ExpiryNat
  <2> QED
    BY <2>1, <2>2, <2>4, <2>5, <2>6, MintStep
<1>3. ASSUME CasLoses(w) PROVE Inv'
  <2> DEFINE r == [req[w] EXCEPT !.pc = "lose_doc"]
  <2>1. At(w, "cas") /\ active # None
    BY <1>3, Busy DEF CasLoses, At, CreatePC
  <2>2. LocalOK(r, minted) /\ Quiet(r)
    BY <1>0, <2>1 DEF At, Quiet, LocalOK, Shape, Request, PC, CreatePC, Carrying, Owning,
                      Bearing, RevokePC, LookupPC, LosePC, WonPC, LogoutPC
  <2> HIDE DEF r
  <2> QED BY <1>3, <2>1, <2>2, MoveStep DEF CasLoses, r
<1>4. ASSUME LoseDoc(w) PROVE Inv'
  <2> DEFINE r == [req[w] EXCEPT !.pc = "lose_state"]
  <2>1. At(w, "lose_doc") /\ active # None
    BY <1>4, Busy DEF LoseDoc, At, CreatePC
  <2>2. LocalOK(r, minted) /\ Quiet(r)
    BY <1>0, <2>1 DEF At, Quiet, LocalOK, Shape, Request, PC, CreatePC, Carrying, Owning,
                      Bearing, RevokePC, LookupPC, LosePC, WonPC, LogoutPC
  <2>3. docs' \subseteq docs /\ consumed' \subseteq docs' /\ revoked \in BOOLEAN
        /\ signedOut \subseteq Session
    BY <1>4 DEF LoseDoc, DeleteDocs, Inv, TypeOK
  <2> HIDE DEF r
  <2> QED BY <1>4, <2>1, <2>2, <2>3, CallStep DEF LoseDoc, DeleteDocs, r
<1>5. ASSUME LoseState(w) PROVE Inv'
  <2> DEFINE r == [req[w] EXCEPT !.pc = "lose_session"]
             back == Revoking(req[w].sid, "abort")
  <2>1. At(w, "lose_state") /\ active # None /\ req[w].sid \in Session /\ req[w].sid \in minted
    BY <1>5, <1>0, Busy, IdsAssumption DEF LoseState, At, CreatePC, LocalOK, Shape, Owning, LosePC
  <2>2. LocalOK(r, minted) /\ Quiet(r)
    BY <1>0, <2>1 DEF At, Quiet, LocalOK, Shape, Request, PC, CreatePC, Carrying, Owning,
                      Bearing, RevokePC, LookupPC, LosePC, WonPC, LogoutPC
  <2>3. LocalOK(back, minted) /\ Quiet(back)
    BY <2>1, RevokingOK DEF Quiet, WonPC
  <2>4. Becomes(w, r) \/ Becomes(w, back)
    BY <1>5 DEF LoseState
  <2> HIDE DEF r, back
  <2> QED BY <1>5, <2>1, <2>2, <2>3, <2>4, MoveStep DEF LoseState
<1>6. ASSUME LoseSession(w) PROVE Inv'
  <2> DEFINE back == Revoking(req[w].sid, "abort")
  <2>1. At(w, "lose_session") /\ active # None /\ req[w].sid \in Session /\ req[w].sid \in minted
    BY <1>6, <1>0, Busy, IdsAssumption DEF LoseSession, At, CreatePC, LocalOK, Shape, Owning, LosePC
  <2>2. LocalOK(back, minted) /\ Quiet(back)
    BY <2>1, RevokingOK DEF Quiet, WonPC
  <2>3. Call(w, back) /\ sessions' \subseteq sessions /\ consumed \subseteq docs
        /\ revoked \in BOOLEAN /\ signedOut \subseteq Session
    BY <1>6 DEF LoseSession, DeleteSessions, Inv, TypeOK
  <2> HIDE DEF back
  <2> QED BY <1>6, <2>1, <2>2, <2>3, CallStep DEF LoseSession, DeleteSessions
<1>7. ASSUME Abort(w) PROVE Inv'
  <2>1. At(w, "abort") /\ active # None
    BY <1>7, Busy DEF Abort, At, CreatePC
  <2>2. Becomes(w, Idle) /\ sessions' \subseteq sessions /\ consumed \subseteq docs
        /\ revoked \in BOOLEAN /\ signedOut \subseteq Session
    BY <1>7 DEF Abort, DeleteSessions, Inv, TypeOK
  <2>3. LocalOK(Idle, minted) /\ Quiet(Idle)
    BY IdleOK DEF Quiet, WonPC
  <2> QED BY <1>7, <2>1, <2>2, <2>3, CallStep DEF Abort, DeleteSessions
<1> QED BY <1>1, <1>2, <1>3, <1>4, <1>5, <1>6, <1>7

(* The bookkeeping of a winner: only rows already gone leave the list.     *)
LEMMA WinnerStep ==
    ASSUME Inv, NEW w \in Worker, Won(req[w]), NEW r, LocalOK(r, minted), Won(r), Call(w, r),
           r.cur = req[w].cur, r.new = req[w].new, r.sid = req[w].sid,
           r.pc = "pull" => r.victim \notin sessions',
           sessions' \subseteq sessions, famSessions' \subseteq famSessions,
           (famSessions \ famSessions') \cap sessions = {},
           consumed' \subseteq docs,
           UNCHANGED <<active, revoked, famExpires, famCreated, docs, docSession, expires, minted,
                       clock, hisVars>>
    PROVE  Inv'
<1> USE DEF hisVars
<1>1. PICK q : /\ LocalOK(q, minted) /\ req' = [req EXCEPT ![w] = q]
               /\ q = r \/ q.pc \in {"idle", "ci_undo", "abort", "rv_mark"}
  BY CallOutcome
<1>2. q = r \/ Quiet(q)
  BY <1>1 DEF Quiet, WonPC
<1>3. /\ ~At(w, "idle") /\ active # None /\ minted # {} /\ q \in Request
      /\ r.pc \notin {"idle", "ci_doc", "ci_fam", "cas"}
  BY <1>1, Busy DEF Won, WonPC, At, CreatePC, LocalOK
<1>4. TypeOK'
  BY <1>1, <1>3 DEF Inv, TypeOK
<1>5. Locals'
  BY <1>1 DEF Inv, TypeOK, Locals
<1>6. Minted'
  BY DEF Inv, Minted
<1>7. Opening'
  BY <1>1, <1>2, <1>3 DEF Inv, TypeOK, Opening, At, Quiet
<1>8. Chain'
  <2>1. \A v \in Worker : Won(req'[v]) =>
          Won(req[v]) /\ req'[v].cur = req[v].cur /\ req'[v].new = req[v].new
    BY <1>1, <1>2 DEF Inv, TypeOK, Quiet, Won
  <2>2. \A v \in Worker : Candidate(req'[v]) => Candidate(req[v]) /\ req'[v] = req[v]
    BY <1>1, <1>2, <1>3 DEF Inv, TypeOK, Quiet, Candidate
  <2> QED BY <2>1, <2>2 DEF Inv, Chain
<1>9. ExchangedOnce'
  BY DEF Inv, ExchangedOnce
<1>10. Listed'
  <2>1. \A v \in Worker : Won(req'[v]) => Won(req[v]) /\ req'[v].sid = req[v].sid
    BY <1>1, <1>2 DEF Inv, TypeOK, Quiet, Won
  <2>2. \A v \in Worker : req'[v].pc = "pull" => req'[v].victim \notin sessions'
    BY <1>1, <1>2 DEF Inv, TypeOK, Listed, Quiet, WonPC, At
  <2> QED BY <2>1, <2>2 DEF Inv, Listed, At
<1> QED BY <1>4, <1>5, <1>6, <1>7, <1>8, <1>9, <1>10 DEF Inv

LEMMA CasWinsStep ==
    ASSUME Inv, NEW w \in Worker, CasWins(w)
    PROVE  Inv'
<1> USE DEF docVars, sesVars
<1> DEFINE r == [req[w] EXCEPT !.pc = "consume", !.todo = Superseded(req[w].sid)]
           new == req[w].new
           sid == req[w].sid
<1>1. /\ At(w, "cas") /\ active = req[w].cur /\ active' = new /\ famExpires' = expires[new]
      /\ famSessions' = famSessions \cup {sid} /\ published' = published \cup {new}
      /\ Call(w, r)
      /\ UNCHANGED <<revoked, famCreated, docVars, sesVars, clock, handed, handedS, exchanged,
                     signedOut>>
  BY DEF CasWins, CasMatches, SessionsWith
<1>2. /\ LocalOK(req[w], minted) /\ req[w] \in Request /\ active # None /\ minted # {}
      /\ new \in Token /\ sid \in Session /\ sid \in minted /\ req[w].cur \in Token
      /\ new \notin published /\ docSession[new] \in Session /\ active \in published
  BY <1>1, Busy, IdsAssumption
     DEF At, CreatePC, LocalOK, Shape, Bearing, Owning, Carrying, Inv, Chain, Candidate
<1>3. LocalOK(r, minted) /\ r.pc = "consume" /\ r.cur = req[w].cur /\ r.new = new /\ r.sid = sid
  <2>1. Superseded(sid) \subseteq minted /\ Superseded(sid) \subseteq Session
    BY DEF Superseded, Inv, Minted, TypeOK
  <2>2. r \in Request
    BY <1>2, <2>1 DEF Request, PC, WonPC
  <2> QED
    BY <1>2, <2>1, <2>2 DEF LocalOK, Shape, Request, Carrying, Owning,
                  Bearing, RevokePC, LookupPC, LosePC, WonPC, LogoutPC, CreatePC
<1> HIDE DEF r
<1>4. PICK q : /\ LocalOK(q, minted) /\ req' = [req EXCEPT ![w] = q]
               /\ q = r \/ q.pc \in {"idle", "ci_undo", "abort", "rv_mark"}
  BY <1>1, <1>3, CallOutcome
<1>5. /\ q \in Request /\ q.pc \notin {"ci_doc", "ci_fam", "cas", "pull"}
      /\ Won(q) => q.cur = req[w].cur /\ q.new = new /\ q.sid = sid
  BY <1>3, <1>4 DEF LocalOK, Won, WonPC
<1>6. TypeOK'
  BY <1>1, <1>2, <1>4, <1>5 DEF Inv, TypeOK
<1>7. Locals'
  BY <1>1, <1>4 DEF Inv, TypeOK, Locals
<1>8. Minted'
  BY <1>1, <1>2 DEF Inv, Minted
<1>9. Opening'
  <2>1. active' # None
    BY <1>1, <1>2, IdsAssumption
  <2> QED BY <1>1, <1>2, <1>4, <1>5, <2>1 DEF Inv, TypeOK, Opening, At
<1>10. Chain'
  <2>1. \A v \in Worker : Candidate(req'[v]) => v # w /\ Candidate(req[v]) /\ req'[v] = req[v]
    BY <1>4, <1>5 DEF Inv, TypeOK, Candidate
  <2>2. \A v \in Worker : Candidate(req[v]) /\ v # w => req[v].new # new
    BY <1>1 DEF Inv, Chain, Candidate, At
  <2>3. \A v \in Worker : Won(req'[v]) => \/ v = w /\ req'[v] = q
                                          \/ v # w /\ Won(req[v]) /\ req'[v] = req[v]
    BY <1>4 DEF Inv, TypeOK
  <2>4. \A v \in Worker : Won(req[v]) => req[v].cur \in published \ {active}
    BY DEF Inv, Chain
  <2>5. exchanged[active] = {}
    BY <1>1, <1>2 DEF Inv, Chain
  <2>6. active' \in published' /\ handed' \subseteq published'
    BY <1>1 DEF Inv, Chain
  <2>7. \A v \in Worker : Won(req'[v]) =>
          /\ req'[v].cur \in published' \ {active'}
          /\ req'[v].new \in published'
          /\ exchanged'[req'[v].cur] = {}
    BY <1>1, <1>2, <1>5, <2>3, <2>4, <2>5 DEF Inv, Chain
  <2>8. \A u, v \in Worker : Won(req'[u]) /\ Won(req'[v]) /\ req'[u].cur = req'[v].cur => u = v
    BY <1>1, <1>5, <2>3, <2>4 DEF Inv, Chain
  <2>9. \A t \in Token : exchanged'[t] # {} => t \in published' \ {active'}
    BY <1>1, <1>2 DEF Inv, Chain
  <2>10. \A v \in Worker : Candidate(req'[v]) =>
           req'[v].new \notin published' /\ docSession'[req'[v].new] \in Session
    BY <1>1, <2>1, <2>2 DEF Inv, Chain
  <2>11. \A u, v \in Worker : Candidate(req'[u]) /\ Candidate(req'[v]) /\ req'[u].new = req'[v].new
           => u = v
    BY <2>1 DEF Inv, Chain
  <2> QED BY <2>6, <2>7, <2>8, <2>9, <2>10, <2>11 DEF Chain
<1>11. ExchangedOnce'
  BY <1>1 DEF Inv, ExchangedOnce
<1>12. Listed'
  <2>1. \A v \in Worker : Won(req'[v]) => \/ v = w /\ req'[v] = q
                                          \/ v # w /\ Won(req[v]) /\ req'[v] = req[v]
    BY <1>4 DEF Inv, TypeOK
  <2>2. \A v \in Worker : req'[v].pc = "pull" => v # w /\ At(v, "pull") /\ req'[v] = req[v]
    BY <1>4, <1>5 DEF Inv, TypeOK, At
  <2> QED BY <1>1, <1>5, <2>1, <2>2 DEF Inv, Listed, At
<1> QED BY <1>6, <1>7, <1>8, <1>9, <1>10, <1>11, <1>12 DEF Inv

LEMMA WinnerSteps ==
    ASSUME Inv, NEW w \in Worker
    PROVE  /\ Consume(w) => Inv'
           /\ DropSession(w) => Inv'
           /\ PullReference(w) => Inv'
<1> USE DEF famVars, docVars, sesVars, hisVars
<1>0. LocalOK(req[w], minted) /\ req[w] \in Request
  BY Busy DEF LocalOK
<1>1. ASSUME Consume(w) PROVE Inv'
  <2> DEFINE p == IF req[w].todo = {} THEN "finish" ELSE "drop"
             r == [req[w] EXCEPT !.pc = p]
  <2>1. At(w, "consume") /\ Won(req[w])
    BY <1>1 DEF Consume, At, Won, WonPC
  <2>2. p \in {"finish", "drop"}
    OBVIOUS
  <2> HIDE DEF p
  <2>3. /\ LocalOK(r, minted) /\ Won(r) /\ r.pc # "pull"
        /\ r.cur = req[w].cur /\ r.new = req[w].new /\ r.sid = req[w].sid
    BY <1>0, <2>1, <2>2 DEF At, LocalOK, Shape, Request, PC, CreatePC, Carrying, Owning,
                  Bearing, RevokePC, LookupPC, LosePC, WonPC, LogoutPC, Won
  <2>4. Call(w, r) /\ consumed' \subseteq docs
    BY <1>1 DEF Consume, p, Inv, TypeOK
  <2> HIDE DEF r
  <2> QED BY <1>1, <2>1, <2>3, <2>4, WinnerStep DEF Consume
<1>2. ASSUME DropSession(w) PROVE Inv'
  <2>1. PICK s \in req[w].todo : /\ DeleteSessions({s})
                                 /\ Call(w, [req[w] EXCEPT !.pc = "pull", !.victim = s])
    BY <1>2 DEF DropSession
  <2> DEFINE r == [req[w] EXCEPT !.pc = "pull", !.victim = s]
  <2>2. At(w, "drop") /\ Won(req[w]) /\ s \in Session /\ s \in minted
    BY <1>0, <1>2 DEF DropSession, At, Won, WonPC, LocalOK, Request
  <2>3. /\ LocalOK(r, minted) /\ Won(r) /\ r.victim = s
        /\ r.cur = req[w].cur /\ r.new = req[w].new /\ r.sid = req[w].sid
    <3>1. r \in Request
      BY <1>0, <2>2 DEF Request, PC, WonPC
    <3> QED
      BY <1>0, <2>2, <3>1 DEF At, LocalOK, Shape, Request, CreatePC, Carrying, Owning,
                  Bearing, RevokePC, LookupPC, LosePC, WonPC, LogoutPC, Won
  <2>4. sessions' = sessions \ {s} /\ consumed \subseteq docs
    BY <2>1 DEF DeleteSessions, Inv, TypeOK
  <2> HIDE DEF r
  <2> QED BY <1>2, <2>1, <2>2, <2>3, <2>4, WinnerStep DEF DropSession, DeleteSessions, r
<1>3. ASSUME PullReference(w) PROVE Inv'
  <2> DEFINE left == req[w].todo \ {req[w].victim}
             p == IF left = {} THEN "finish" ELSE "drop"
             r == [req[w] EXCEPT !.pc = p, !.todo = left, !.victim = None]
  <2>1. At(w, "pull") /\ Won(req[w]) /\ req[w].victim \notin sessions
    BY <1>3 DEF PullReference, At, Won, WonPC, Inv, Listed
  <2>2. p \in {"finish", "drop"} /\ left \subseteq req[w].todo
    OBVIOUS
  <2>3. /\ Call(w, r) /\ famSessions' = famSessions \ {req[w].victim}
        /\ UNCHANGED <<active, revoked, famExpires, famCreated, docVars, sesVars, clock, hisVars>>
    BY <1>3 DEF PullReference
  <2> HIDE DEF p, left
  <2>4. /\ LocalOK(r, minted) /\ Won(r) /\ r.pc # "pull"
        /\ r.cur = req[w].cur /\ r.new = req[w].new /\ r.sid = req[w].sid
    <3>1. left \subseteq Session /\ left \subseteq minted
      BY <1>0, <2>2 DEF LocalOK, Request
    <3>2. r \in Request
      BY <1>0, <2>2, <3>1 DEF Request, PC, WonPC
    <3> QED
      BY <1>0, <2>1, <2>2, <3>1, <3>2 DEF At, LocalOK, Shape, Request, CreatePC, Carrying, Owning,
                  Bearing, RevokePC, LookupPC, LosePC, WonPC, LogoutPC, Won
  <2>5. consumed \subseteq docs
    BY DEF Inv, TypeOK
  <2> HIDE DEF r
  <2> QED BY <2>1, <2>3, <2>4, <2>5, WinnerStep
<1> QED BY <1>1, <1>2, <1>3

LEMMA FinishStep ==
    ASSUME Inv, NEW w \in Worker, Finish(w)
    PROVE  Inv'
<1> USE DEF famVars, docVars
<1> DEFINE cur == req[w].cur
           new == req[w].new
           sid == req[w].sid
<1>1. /\ At(w, "finish") /\ Won(req[w]) /\ LocalOK(req[w], minted) /\ minted # {}
      /\ cur \in Token /\ new \in Token /\ sid \in Session /\ sid \in minted /\ active # None
      /\ new \in published /\ exchanged[cur] = {} /\ cur \in published \ {active}
      /\ sid \in sessions => sid \in famSessions
  BY Busy, IdsAssumption
     DEF Finish, At, Won, CreatePC, LocalOK, Shape, Carrying, Bearing, Owning, Inv, Chain, Listed
<1>2. /\ sessions' \subseteq sessions /\ minted' = minted
      /\ UNCHANGED <<famVars, docVars, clock, published, signedOut>>
  BY DEF Finish, DeleteSessions
<1>3. PICK q : /\ LocalOK(q, minted) /\ Quiet(q) /\ req' = [req EXCEPT ![w] = q]
               /\ \/ /\ handed' = handed \cup {new}
                     /\ handedS' = handedS \cup {sid}
                     /\ exchanged' = [exchanged EXCEPT ![cur] = @ \cup {new}]
                  \/ UNCHANGED <<handed, handedS, exchanged>>
  <2>1. CASE Becomes(w, Idle) /\ handed' = handed \cup {new} /\ handedS' = handedS \cup {sid}
             /\ exchanged' = [exchanged EXCEPT ![cur] = @ \cup {new}]
    BY <2>1, IdleOK DEF Becomes, Quiet, WonPC
  <2>2. CASE Becomes(w, Raised(req[w])) /\ UNCHANGED <<handed, handedS, exchanged>>
    <3>1. LocalOK(Raised(req[w]), minted) /\ Quiet(Raised(req[w])) /\ Quiet(Idle)
      BY <1>1, RaisedOK, IdleOK DEF Quiet, WonPC
    <3>2. CASE Raised(req[w]).pc = "idle"
      BY <2>2, <3>1, <3>2, IdleOK DEF Becomes
    <3>3. CASE Raised(req[w]).pc # "idle"
      BY <2>2, <3>1, <3>3 DEF Becomes
    <3> QED BY <3>2, <3>3
  <2> QED BY <2>1, <2>2 DEF Finish
<1> HIDE DEF cur, new, sid
<1>4. q \in Request
  BY <1>3 DEF LocalOK
<1>5. \A t \in Token : exchanged'[t] = exchanged[t] \/ (t = cur /\ exchanged'[t] = {new})
  BY <1>1, <1>3 DEF Inv, TypeOK
<1>6. TypeOK'
  BY <1>1, <1>2, <1>3, <1>4 DEF Inv, TypeOK
<1>7. Locals'
  BY <1>2, <1>3 DEF Inv, TypeOK, Locals
<1>8. Minted'
  BY <1>1, <1>2, <1>3 DEF Inv, Minted
<1>9. Opening'
  BY <1>1, <1>2, <1>3 DEF Inv, TypeOK, Opening, At, Quiet
<1>10. Chain'
  <2>1. \A v \in Worker : Won(req'[v]) => v # w /\ Won(req[v]) /\ req'[v] = req[v]
    BY <1>3 DEF Inv, TypeOK, Quiet, Won
  <2>2. \A v \in Worker : Candidate(req'[v]) => v # w /\ Candidate(req[v]) /\ req'[v] = req[v]
    BY <1>3 DEF Inv, TypeOK, Quiet, Candidate
  <2>3. \A v \in Worker : Won(req[v]) /\ v # w => req[v].cur # cur /\ req[v].cur \in Token
    BY <1>1 DEF Inv, Chain, TypeOK, cur
  <2>4. \A v \in Worker : Won(req'[v]) =>
          /\ req'[v].cur \in published' \ {active'}
          /\ req'[v].new \in published'
          /\ exchanged'[req'[v].cur] = {}
    BY <1>2, <1>5, <2>1, <2>3 DEF Inv, Chain
  <2>5. \A t \in Token : exchanged'[t] # {} => t \in published' \ {active'}
    BY <1>1, <1>2, <1>5 DEF Inv, Chain
  <2>6. active' # None => active' \in published'
    BY <1>2 DEF Inv, Chain
  <2>7. handed' \subseteq published'
    BY <1>1, <1>2, <1>3 DEF Inv, Chain
  <2> QED BY <1>2, <2>1, <2>2, <2>4, <2>5, <2>6, <2>7 DEF Inv, Chain
<1>11. ExchangedOnce'
  BY <1>5 DEF Inv, ExchangedOnce
<1>12. Listed'
  <2>1. \A v \in Worker : Won(req'[v]) => Won(req[v]) /\ req'[v] = req[v]
    BY <1>3 DEF Inv, TypeOK, Quiet, Won
  <2>2. \A v \in Worker : req'[v].pc = "pull" => At(v, "pull") /\ req'[v] = req[v]
    BY <1>3 DEF Inv, TypeOK, Quiet, WonPC, At
  <2> QED BY <1>1, <1>2, <1>3, <2>1, <2>2 DEF Inv, Listed, At
<1> QED BY <1>6, <1>7, <1>8, <1>9, <1>10, <1>11, <1>12 DEF Inv

LEMMA RevokeSteps ==
    ASSUME Inv, NEW w \in Worker
    PROVE  /\ RevokeMark(w) => Inv'
           /\ RevokeRead(w) => Inv'
           /\ RevokeSessions(w) => Inv'
           /\ RevokeTokens(w) => Inv'
<1> USE DEF famVars, docVars, sesVars, hisVars
<1>0. /\ LocalOK(req[w], minted) /\ req[w] \in Request
      /\ consumed \subseteq docs /\ revoked \in BOOLEAN /\ signedOut \subseteq Session
      /\ req[w].pc \in RevokePC => active # None
  BY Busy DEF LocalOK, Inv, TypeOK, CreatePC, RevokePC, At
<1>1. \A p \in RevokePC, ss \in SUBSET (Session \cap minted) :
        req[w].pc \in RevokePC =>
          LET r == [req[w] EXCEPT !.pc = p, !.todo = ss]
          IN  LocalOK(r, minted) /\ Quiet(r)
  <2> TAKE p \in RevokePC, ss \in SUBSET (Session \cap minted)
  <2> HAVE req[w].pc \in RevokePC
  <2> DEFINE r == [req[w] EXCEPT !.pc = p, !.todo = ss]
  <2>1. r \in Request /\ p \in PC
    BY <1>0 DEF Request, PC
  <2>2. /\ r.pc = p /\ r.todo = ss /\ r.sid = req[w].sid /\ r.victim = req[w].victim
        /\ r.ret = req[w].ret
    BY <1>0 DEF Request
  <2> HIDE DEF r
  <2>3. Shape(r)
    BY <1>0, <2>2 DEF LocalOK, Shape, Carrying, Owning, Bearing, RevokePC, LookupPC, LosePC, WonPC,
                      LogoutPC
  <2>4. Quiet(r)
    BY <2>2 DEF Quiet, WonPC, RevokePC
  <2> QED BY <1>0, <2>1, <2>2, <2>3, <2>4 DEF LocalOK, r
<1>2. ASSUME RevokeMark(w) PROVE Inv'
  <2> DEFINE r == [req[w] EXCEPT !.pc = "rv_read", !.todo = famSessions]
  <2>1. At(w, "rv_mark") /\ Call(w, r) /\ active # None /\ revoked' \in BOOLEAN
    BY <1>0, <1>2 DEF RevokeMark, At, RevokePC
  <2>2. LocalOK(r, minted) /\ Quiet(r)
    <3>1. famSessions \in SUBSET (Session \cap minted)
      BY DEF Inv, Minted, TypeOK
    <3> QED BY <1>1, <2>1, <3>1 DEF At, RevokePC
  <2> HIDE DEF r
  <2> QED BY <1>0, <1>2, <2>1, <2>2, CallStep DEF RevokeMark
<1>3. ASSUME RevokeRead(w) PROVE Inv'
  <2> DEFINE ss == req[w].todo \cup {docSession[t] : t \in docs}
             r == [req[w] EXCEPT !.pc = "rv_sessions", !.todo = ss]
  <2>1. At(w, "rv_read") /\ Becomes(w, r) /\ active # None
    BY <1>0, <1>3 DEF RevokeRead, At, RevokePC
  <2>2. ss \in SUBSET (Session \cap minted)
    BY <1>0 DEF LocalOK, Request, Inv, Minted, TypeOK
  <2> HIDE DEF ss
  <2>3. LocalOK(r, minted) /\ Quiet(r)
    BY <1>1, <2>1, <2>2 DEF At, RevokePC
  <2> HIDE DEF r
  <2> QED BY <1>3, <2>1, <2>3, MoveStep DEF RevokeRead
<1>4. ASSUME RevokeSessions(w) PROVE Inv'
  <2> DEFINE r == [req[w] EXCEPT !.pc = "rv_tokens", !.todo = {}]
  <2>1. /\ At(w, "rv_sessions") /\ Call(w, r) /\ active # None /\ sessions' \subseteq sessions
        /\ minted' = minted
    BY <1>0, <1>4 DEF RevokeSessions, DeleteSessions, At, RevokePC
  <2>2. LocalOK(r, minted) /\ Quiet(r)
    BY <1>1, <2>1 DEF At, RevokePC
  <2> HIDE DEF r
  <2> QED BY <1>0, <1>4, <2>1, <2>2, CallStep DEF RevokeSessions
<1>5. ASSUME RevokeTokens(w) PROVE Inv'
  <2> DEFINE r == [Idle EXCEPT !.pc = req[w].ret, !.sid = req[w].sid]
  <2>1. /\ At(w, "rv_tokens") /\ Call(w, r) /\ active # None
        /\ docs' \subseteq docs /\ consumed' \subseteq docs'
    BY <1>0, <1>5 DEF RevokeTokens, DeleteDocs, At, RevokePC
  <2>2. req[w].ret # "idle" => req[w].sid \in Session
    BY <1>0, <2>1 DEF At, LocalOK, Shape, RevokePC
  <2>3. req[w].ret \in {"idle", "abort", "lo_find2", "lo_done"}
        /\ req[w].sid \in Session \cup {None}
    BY <1>0 DEF Request
  <2>4. /\ r.pc = req[w].ret /\ r.sid = req[w].sid /\ r.victim = None /\ r.todo = {}
        /\ r \in Request
    <3>1. req[w].ret \in PC
      BY <2>3 DEF PC, LogoutPC
    <3>2. Idle \in Request
      BY IdleOK DEF LocalOK
    <3>3. r \in Request
      BY <2>3, <3>1, <3>2 DEF Request
    <3>4. r.pc = req[w].ret /\ r.sid = req[w].sid /\ r.victim = None /\ r.todo = {}
      BY DEF Idle
    <3> QED BY <3>3, <3>4
  <2> HIDE DEF r
  <2>5. LocalOK(r, minted) /\ Quiet(r)
    BY <1>0, <2>2, <2>3, <2>4 DEF LocalOK, Shape, Carrying, Owning, Bearing, RevokePC, LookupPC,
                                  LosePC, WonPC, LogoutPC, Quiet
  <2> QED BY <1>0, <1>5, <2>1, <2>5, CallStep DEF RevokeTokens, DeleteDocs
<1> QED BY <1>2, <1>3, <1>4, <1>5

(* What a read of a sign-out does to its request: it goes on to another    *)
(* step of the sign-out, and reaches the answer only if the row is gone or *)
(* the family revoked.                                                     *)
LEMMA ReadStep ==
    ASSUME Inv, NEW w \in Worker, ReadSession(w)
    PROVE  \E r \in Request :
              /\ Becomes(w, r)
              /\ r.pc \in LogoutPC
              /\ req[w].pc \in {"lo_fam1", "lo_row2", "lo_fam2", "lo_row3", "lo_fam3"}
              /\ r.sid = req[w].sid /\ r.victim = req[w].victim /\ r.todo = req[w].todo
              /\ Marked(r) => revoked \/ Marked(req[w])
              /\ r.pc = "lo_done" => revoked \/ req[w].sid \notin sessions
<1>0. req[w] \in Request
  BY DEF Inv, TypeOK
<1>2. PICK c : c = ClosingPC(req[w].found)
  OBVIOUS
<1>3. c \in {"lo_find1", "lo_find2", "lo_done"}
  BY <1>2 DEF ClosingPC
<1>4. ASSUME NEW n \in 1..2, ReadRow(w, n)
      PROVE  \E r \in Request :
                /\ Becomes(w, r)
                /\ r.pc \in LogoutPC
                /\ req[w].pc \in {"lo_row2", "lo_row3"}
                /\ r.sid = req[w].sid /\ r.victim = req[w].victim /\ r.todo = req[w].todo
                /\ Marked(r) => revoked \/ Marked(req[w])
                /\ r.pc = "lo_done" => revoked \/ req[w].sid \notin sessions
  <2>0. n = 1 \/ n = 2
    OBVIOUS
  <2>1. PICK p : p = IF req[w].sid \in sessions THEN FamPC[n + 1] ELSE c
    OBVIOUS
  <2>2. PICK r : r = [req[w] EXCEPT !.pc = p]
    OBVIOUS
  <2>3. Becomes(w, r)
    BY <1>2, <1>4, <2>1, <2>2 DEF ReadRow
  <2>4. /\ req[w].pc \in {"lo_row2", "lo_row3"}
        /\ p \in {"lo_fam2", "lo_fam3", "lo_find1", "lo_find2", "lo_done"}
        /\ p = "lo_fam3" => req[w].pc = "lo_row3"
        /\ p = "lo_done" => req[w].sid \notin sessions
    BY <1>3, <1>4, <2>0, <2>1 DEF ReadRow, NextRow, FamPC, At
  <2>5. p \in PC /\ p \in LogoutPC
    BY <2>4 DEF PC, LogoutPC
  <2>6. /\ r \in Request /\ r.pc = p /\ r.found = req[w].found
        /\ r.sid = req[w].sid /\ r.victim = req[w].victim /\ r.todo = req[w].todo
    BY <1>0, <2>2, <2>5 DEF Request
  <2> QED BY <2>3, <2>4, <2>5, <2>6 DEF Marked
<1>5. ASSUME NEW n \in 1..3, ReadFamily(w, n)
      PROVE  \E r \in Request :
                /\ Becomes(w, r)
                /\ r.pc \in LogoutPC
                /\ req[w].pc \in {"lo_fam1", "lo_fam2", "lo_fam3"}
                /\ r.sid = req[w].sid /\ r.victim = req[w].victim /\ r.todo = req[w].todo
                /\ Marked(r) => revoked \/ Marked(req[w])
                /\ r.pc = "lo_done" => revoked \/ req[w].sid \notin sessions
  <2>0. n = 1 \/ n = 2 \/ n = 3
    OBVIOUS
  <2>1. req[w].pc = FamPC[n]
    BY <1>5 DEF ReadFamily, At
  <2>2. CASE Vouched(req[w].sid)
    <3>1. Becomes(w, Hit(req[w], n))
      BY <1>5, <2>2 DEF ReadFamily
    <3>2. CASE n = 3
      <4>1. PICK r : r = [req[w] EXCEPT !.pc = "lo_delete"]
        OBVIOUS
      <4>2. /\ r \in Request /\ r.pc = "lo_delete" /\ r.found = req[w].found
            /\ r.sid = req[w].sid /\ r.victim = req[w].victim /\ r.todo = req[w].todo
        BY <1>0, <4>1 DEF Request, PC, LogoutPC
      <4>3. req[w].pc = "lo_fam3"
        BY <2>1, <3>2 DEF FamPC
      <4>4. Becomes(w, r)
        BY <3>1, <3>2, <4>1 DEF Hit
      <4> QED BY <4>2, <4>3, <4>4 DEF Marked, LogoutPC
    <3>3. CASE n # 3
      <4>1. PICK p : p = NextRow[n]
        OBVIOUS
      <4>2. p \in {"lo_row2", "lo_row3"} /\ (p = "lo_row3" => n = 2)
        BY <2>0, <3>3, <4>1 DEF NextRow
      <4>3. PICK q : q = [req[w] EXCEPT !.pc = p]
        OBVIOUS
      <4>4. /\ q \in Request /\ q.pc = p /\ q.found = req[w].found
            /\ q.sid = req[w].sid /\ q.victim = req[w].victim /\ q.todo = req[w].todo
        BY <1>0, <4>2, <4>3 DEF Request, PC, LogoutPC
      <4>5. PICK f : f = q.found \cup {n}
        OBVIOUS
      <4>6. f \subseteq {1, 2} /\ (n = 2 => 2 \in f)
        BY <2>0, <3>3, <4>4, <4>5 DEF Request
      <4>7. PICK r : r = [q EXCEPT !.found = f]
        OBVIOUS
      <4>8. /\ r \in Request /\ r.pc = p /\ r.found = f
            /\ r.sid = q.sid /\ r.victim = q.victim /\ r.todo = q.todo
        BY <4>4, <4>6, <4>7 DEF Request
      <4>9. r = [req[w] EXCEPT !.pc = p, !.found = @ \cup {n}]
        BY <4>3, <4>4, <4>5, <4>7, Zenon
      <4>10. Becomes(w, r)
        BY <3>1, <3>3, <4>1, <4>9 DEF Hit
      <4>11. req[w].pc \in {"lo_fam1", "lo_fam2"}
        BY <2>0, <2>1, <3>3 DEF FamPC
      <4> QED BY <4>2, <4>4, <4>6, <4>8, <4>10, <4>11 DEF Marked, LogoutPC
    <3> QED BY <3>2, <3>3
  <2>3. CASE ~Vouched(req[w].sid)
    <3>1. revoked /\ Becomes(w, Miss(req[w], n))
      BY <1>5, <2>3 DEF ReadFamily, Vouched
    <3>2. PICK p : p = IF n = 3 THEN c ELSE NextRow[n]
      OBVIOUS
    <3>3. PICK r : r = [req[w] EXCEPT !.pc = p]
      OBVIOUS
    <3>4. p \in PC /\ p \in LogoutPC
      BY <2>0, <1>3, <3>2 DEF NextRow, PC, LogoutPC
    <3>5. /\ r \in Request /\ r.pc = p
          /\ r.sid = req[w].sid /\ r.victim = req[w].victim /\ r.todo = req[w].todo
      BY <1>0, <3>3, <3>4 DEF Request
    <3>6. Becomes(w, r)
      BY <1>2, <3>1, <3>2, <3>3 DEF Miss
    <3>7. req[w].pc \in {"lo_fam1", "lo_fam2", "lo_fam3"}
      BY <2>0, <2>1 DEF FamPC
    <3> QED BY <3>1, <3>4, <3>5, <3>6, <3>7
  <2> QED BY <2>2, <2>3
<1> QED BY <1>4, <1>5 DEF ReadSession

LEMMA SignOutSteps ==
    ASSUME Inv, NEW w \in Worker
    PROVE  /\ \A s \in Session : StartSignOut(w, s) => Inv'
           /\ ReadSession(w) => Inv'
           /\ DeleteRow(w) => Inv'
           /\ \A second \in BOOLEAN : FindTokens(w, second) => Inv'
           /\ SignOutAnswers(w) => Inv'
<1> USE DEF famVars, docVars, sesVars, hisVars
<1>0. /\ LocalOK(req[w], minted) /\ req[w] \in Request
      /\ consumed \subseteq docs /\ revoked \in BOOLEAN /\ signedOut \subseteq Session
      /\ req[w].pc \in LogoutPC => active # None /\ req[w].sid \in Session /\ req[w].sid \in minted
  BY Busy, IdsAssumption
     DEF LocalOK, Inv, TypeOK, CreatePC, LogoutPC, At, Shape, Owning
<1>1. \A p \in LogoutPC :
        req[w].pc \in LogoutPC =>
          LET r == [req[w] EXCEPT !.pc = p]
          IN  LocalOK(r, minted) /\ Quiet(r)
  BY <1>0 DEF LocalOK, Shape, Request, PC, Carrying, Owning, Bearing, RevokePC, LookupPC, LosePC,
              WonPC, LogoutPC, Quiet
<1>2. ASSUME NEW s \in Session, StartSignOut(w, s) PROVE Inv'
  <2>0. PICK p \in {"lo_fam1", "lo_done"} : p = IF s \in sessions THEN "lo_fam1" ELSE "lo_done"
    OBVIOUS
  <2> DEFINE r == [Idle EXCEPT !.pc = p, !.sid = s]
  <2>1. s \in minted /\ active # None /\ Becomes(w, r)
    BY <1>2, <2>0, Busy DEF StartSignOut, Inv, Minted
  <2>2. LocalOK(r, minted) /\ Quiet(r)
    BY <2>1 DEF Idle, LocalOK, Shape, Request, PC, Carrying, Owning, Bearing, RevokePC, LookupPC,
                LosePC, WonPC, LogoutPC, Quiet
  <2> HIDE DEF r
  <2> QED BY <1>2, <2>1, <2>2, MoveStep DEF StartSignOut
<1>3. ASSUME ReadSession(w) PROVE Inv'
  <2>1. PICK r \in Request :
           /\ Becomes(w, r) /\ r.pc \in LogoutPC /\ req[w].pc \in LogoutPC
           /\ r.sid = req[w].sid /\ r.victim = req[w].victim /\ r.todo = req[w].todo
    BY <1>3, ReadStep DEF LogoutPC
  <2>2. LocalOK(r, minted) /\ Quiet(r)
    BY <1>0, <2>1 DEF LocalOK, Shape, Carrying, Owning, Bearing, RevokePC, LookupPC, LosePC,
                      WonPC, LogoutPC, Quiet
  <2> QED BY <1>0, <1>3, <2>1, <2>2, MoveStep DEF ReadSession, ReadRow, ReadFamily
<1>5. ASSUME DeleteRow(w) PROVE Inv'
  <2> DEFINE p == ClosingPC(req[w].found)
             r == [req[w] EXCEPT !.pc = p]
  <2>1. req[w].pc \in LogoutPC /\ Call(w, r) /\ sessions' \subseteq sessions /\ minted' = minted
    BY <1>5 DEF DeleteRow, DeleteSessions, LogoutPC, At
  <2>4. p \in LogoutPC
    BY DEF ClosingPC, LogoutPC
  <2> HIDE DEF p
  <2>2. LocalOK(r, minted) /\ Quiet(r)
    BY <1>1, <2>1, <2>4
  <2>3. signedOut' \subseteq Session
    BY <1>0, <1>5, <2>1 DEF DeleteRow
  <2> HIDE DEF r
  <2> QED BY <1>0, <1>5, <2>1, <2>2, <2>3, CallStep DEF DeleteRow
<1>6. ASSUME NEW second \in BOOLEAN, FindTokens(w, second) PROVE Inv'
  <2>1. PICK after \in {"lo_done", "lo_find2"} :
           \/ Becomes(w, [req[w] EXCEPT !.pc = after])
           \/ Becomes(w, Revoking(req[w].sid, after))
    BY <1>6 DEF FindTokens, ClosingPC
  <2> DEFINE r == [req[w] EXCEPT !.pc = after]
             back == Revoking(req[w].sid, after)
  <2>4. req[w].pc \in LogoutPC /\ (Becomes(w, r) \/ Becomes(w, back))
    BY <1>6, <2>1 DEF FindTokens, LogoutPC, At
  <2>2. LocalOK(r, minted) /\ Quiet(r)
    BY <1>1, <2>4 DEF LogoutPC
  <2>3. LocalOK(back, minted) /\ Quiet(back)
    BY <1>0, <2>4, RevokingOK DEF Quiet, WonPC
  <2> HIDE DEF r, back
  <2> QED BY <1>0, <1>6, <2>4, <2>2, <2>3, MoveStep DEF FindTokens
<1>7. ASSUME SignOutAnswers(w) PROVE Inv'
  <2>1. req[w].pc \in LogoutPC /\ Becomes(w, Idle)
    BY <1>7 DEF SignOutAnswers, LogoutPC, At
  <2>2. LocalOK(Idle, minted) /\ Quiet(Idle)
    BY IdleOK DEF Quiet, WonPC
  <2> QED BY <1>0, <1>7, <2>1, <2>2, MoveStep DEF SignOutAnswers
<1> QED BY <1>2, <1>3, <1>5, <1>6, <1>7

(* Failing calls, dying processes, expiry and time.                        *)
LEMMA EnvironmentSteps ==
    ASSUME Inv
    PROVE  /\ \A w \in Worker : CallFails(w) => Inv'
           /\ \A w \in Worker : Crash(w) => Inv'
           /\ \A t \in Token : ExpireToken(t) => Inv'
           /\ Tick => Inv'
           /\ UNCHANGED vars => Inv'
<1> USE DEF famVars, docVars, sesVars, hisVars
<1>0. consumed \subseteq docs /\ revoked \in BOOLEAN /\ signedOut \subseteq Session /\ clock \in Nat
      /\ (active = None => ~revoked)
  BY DEF Inv, TypeOK, Opening
<1>1. ASSUME NEW w \in Worker, Becomes(w, Raised(req[w])) \/ Becomes(w, Idle), ~At(w, "idle"),
             UNCHANGED <<famVars, docVars, sesVars, clock, hisVars>>
      PROVE  Inv'
  <2>1. /\ LocalOK(Raised(req[w]), minted) /\ Quiet(Raised(req[w]))
        /\ req[w].pc \in CreatePC => Raised(req[w]).pc \in {"idle"} \cup CreatePC
    BY Busy, RaisedOK DEF Quiet, WonPC, CreatePC
  <2>2. LocalOK(Idle, minted) /\ Quiet(Idle) /\ Idle.pc = "idle"
    BY IdleOK DEF Quiet, WonPC
  <2>3. minted # {} /\ (active = None => req[w].pc \in CreatePC)
    BY <1>1, Busy DEF At
  <2>4. PICK q : /\ LocalOK(q, minted) /\ Quiet(q) /\ req' = [req EXCEPT ![w] = q]
                 /\ active = None => q.pc \in {"idle"} \cup CreatePC
    <3>1. CASE Becomes(w, Idle) \/ Raised(req[w]).pc = "idle"
      BY <1>1, <2>2, <3>1 DEF Becomes
    <3>2. CASE Becomes(w, Raised(req[w])) /\ Raised(req[w]).pc # "idle"
      BY <2>1, <2>3, <3>2 DEF Becomes
    <3> QED BY <1>1, <3>1, <3>2
  <2> QED BY <1>0, <1>1, <2>3, <2>4, QuietStep
<1>2. ASSUME NEW w \in Worker, CallFails(w) PROVE Inv'
  BY <1>1, <1>2 DEF CallFails
<1>3. ASSUME NEW w \in Worker, Crash(w) PROVE Inv'
  BY <1>1, <1>3 DEF Crash
<1>4. ASSUME UNCHANGED <<active, revoked, famSessions, famExpires, famCreated, docSession, expires,
                         sessions, minted, req, handed, handedS, exchanged, published, signedOut>>,
             docs' \subseteq docs, consumed' \subseteq docs', clock' \in Nat
      PROVE  Inv'
  BY <1>4 DEF Inv, TypeOK, Locals, Minted, Opening, Chain, ExchangedOnce, Listed, At
<1>5. ASSUME NEW t \in Token, ExpireToken(t) PROVE Inv'
  BY <1>0, <1>4, <1>5 DEF ExpireToken, DeleteDocs
<1>6. ASSUME Tick PROVE Inv'
  BY <1>0, <1>4, <1>6 DEF Tick
<1>7. ASSUME UNCHANGED vars PROVE Inv'
  BY <1>0, <1>4, <1>7 DEF vars
<1> QED BY <1>2, <1>3, <1>5, <1>6, <1>7

LEMMA InvNext == Inv /\ [Next]_vars => Inv'
<1> SUFFICES ASSUME Inv, [Next]_vars PROVE Inv'
  OBVIOUS
<1>1. ASSUME NEW w \in Worker, Serve(w) PROVE Inv'
  <2>1. CASE SignIn(w)
    BY <2>1, SignInSteps, CreateFamilyStep DEF SignIn
  <2>2. CASE Lookup(w)
    BY <2>2, LookupSteps DEF Lookup
  <2>3. CASE Rotate(w)
    BY <2>3, CandidateSteps, CasWinsStep, WinnerSteps, FinishStep DEF Rotate
  <2>4. CASE RevokeFamily(w)
    BY <2>4, RevokeSteps DEF RevokeFamily
  <2>5. CASE SignOut(w)
    BY <2>5, SignOutSteps DEF SignOut
  <2> QED BY <1>1, <2>1, <2>2, <2>3, <2>4, <2>5 DEF Serve
<1>2. ASSUME NEW w \in Worker, Arrive(w) PROVE Inv'
  BY <1>2, SignInSteps, LookupSteps, SignOutSteps DEF Arrive
<1>3. ASSUME NEW w \in Worker, CallFails(w) \/ Crash(w) PROVE Inv'
  BY <1>3, EnvironmentSteps
<1> QED BY <1>1, <1>2, <1>3, EnvironmentSteps DEF Next

------------------------------------------------------------------------------
(* Expiry.  The expiry in the family document is that of the active token; *)
(* a candidate waits with an expiry within the age of the family; and a    *)
(* request that won the compare-and-set did so before its token expired.   *)

Timed ==
    /\ active # None => /\ famExpires = expires[active]
                        /\ famExpires <= famCreated + AbsoluteAge
    /\ \A w \in Worker : Candidate(req[w]) => expires[req[w].new] <= famCreated + AbsoluteAge
    /\ \A w \in Worker : Won(req[w]) => req[w].stamp < expires[req[w].cur]

(* Where a request may go without a compare-and-set or a new document.     *)
Tame(w, r) ==
    /\ ~Candidate(r)
    /\ Won(r) => Won(req[w]) /\ r.cur = req[w].cur /\ r.stamp = req[w].stamp

LEMMA RaisedTame ==
    ASSUME Inv, NEW w \in Worker
    PROVE  Tame(w, Raised(req[w])) /\ Tame(w, Idle)
<1>1. Raised(req[w]).pc \in {"idle", "ci_undo", "abort", "rv_mark"}
  BY RaisedOK DEF Inv, Locals
<1>2. Idle.pc = "idle"
  BY DEF Idle
<1> QED BY <1>1, <1>2 DEF Tame, Candidate, Won, WonPC

LEMMA TameStep ==
    ASSUME Inv, Timed, NEW w \in Worker, NEW r, Tame(w, r), Call(w, r) \/ Becomes(w, r),
           UNCHANGED <<active, famExpires, famCreated, expires>>
    PROVE  Timed'
<1>1. PICK q : Tame(w, q) /\ req' = [req EXCEPT ![w] = q]
  <2>1. Tame(w, Raised(req[w])) /\ Tame(w, Idle)
    BY RaisedTame
  <2>2. Becomes(w, r) \/ Becomes(w, Raised(req[w]))
    BY DEF Call
  <2> QED BY <2>1, <2>2 DEF Becomes
<1>2. req \in [Worker -> Request]
  BY DEF Inv, TypeOK
<1>3. ASSUME NEW v \in Worker
      PROVE  /\ Candidate(req'[v]) => Candidate(req[v]) /\ req'[v] = req[v]
             /\ Won(req'[v]) => Won(req[v]) /\ req'[v].cur = req[v].cur
                                /\ req'[v].stamp = req[v].stamp
  BY <1>1, <1>2 DEF Tame
<1> QED BY <1>3 DEF Timed

(* A new document for a fresh token.                                       *)
LEMMA MintTimed ==
    ASSUME Inv, Timed, NEW w \in Worker, NEW r, NEW t \in FreshToken, NEW e \in Nat,
           r.new = t, ~Won(r), Call(w, r), InsertDoc(t, req[w].sid, e),
           UNCHANGED <<active, famExpires>>,
           e <= famCreated' + AbsoluteAge,
           \/ famCreated' = famCreated
           \/ active = None /\ \A v \in Worker \ {w} : At(v, "idle")
    PROVE  Timed'
<1>1. PICK q : (q = r \/ Tame(w, q)) /\ req' = [req EXCEPT ![w] = q]
  <2>1. Tame(w, Raised(req[w])) /\ Tame(w, Idle)
    BY RaisedTame
  <2> QED BY <2>1 DEF Becomes, Call
<1>2. req \in [Worker -> Request] /\ expires \in [Token -> Nat]
  BY DEF Inv, TypeOK
<1>3. t \in Token /\ t \notin published
  BY IdsAssumption DEF FreshToken, Inv, Minted
<1>4. \A s \in Token : expires'[s] = IF s = t THEN e ELSE expires[s]
  BY <1>2 DEF InsertDoc
<1>5. active # None => active \in Token /\ active # t
  BY <1>3 DEF Inv, Chain, TypeOK
<1>6. ASSUME NEW v \in Worker, Candidate(req'[v])
      PROVE  expires'[req'[v].new] <= famCreated' + AbsoluteAge
  <2>1. CASE v = w
    <3>1. q = r
      BY <1>1, <1>2, <1>6, <2>1 DEF Tame
    <3> QED BY <1>1, <1>2, <1>3, <1>4, <2>1, <3>1
  <2>2. CASE v # w
    <3>1. req'[v] = req[v]
      BY <1>1, <1>2, <2>2
    <3>2. req[v].new \in Token /\ req[v].new # t
      BY <1>6, <3>1, IdsAssumption
         DEF Inv, Locals, LocalOK, Shape, Bearing, Candidate, Chain, FreshToken
    <3>3. famCreated' = famCreated
      BY <1>6, <2>2, <3>1 DEF At, Candidate
    <3> QED BY <1>4, <1>6, <3>1, <3>2, <3>3 DEF Timed
  <2> QED BY <2>1, <2>2
<1>7. ASSUME NEW v \in Worker, Won(req'[v])
      PROVE  req'[v].stamp < expires'[req'[v].cur]
  <2>1. /\ Won(req[v]) /\ req'[v].cur = req[v].cur /\ req'[v].stamp = req[v].stamp
    BY <1>1, <1>2, <1>7 DEF Tame
  <2>2. req[v].cur \in published /\ req[v].cur \in Token
    BY <2>1 DEF Inv, Chain, TypeOK
  <2> QED BY <1>3, <1>4, <2>1, <2>2 DEF Timed
<1> QED
  <2>1. active' # None => famExpires' = expires'[active'] /\ famExpires' <= famCreated' + AbsoluteAge
    BY <1>4, <1>5 DEF Timed
  <2> QED BY <1>6, <1>7, <2>1 DEF Timed

(* Where the candidate becomes the active token.                           *)
LEMMA PublishTimed ==
    ASSUME Inv, Timed, NEW w \in Worker, Candidate(req[w]),
           active' = req[w].new, famExpires' = expires[req[w].new],
           UNCHANGED <<famCreated, expires>>,
           NEW r, Call(w, r) \/ Becomes(w, r), ~Candidate(r),
           Won(r) => r.cur = active /\ active # None /\ r.stamp < famExpires
    PROVE  Timed'
<1>1. PICK q : /\ req' = [req EXCEPT ![w] = q] /\ ~Candidate(q)
               /\ Won(q) => q.cur = active /\ active # None /\ q.stamp < famExpires
  <2>1. /\ ~Candidate(Raised(req[w])) /\ ~Candidate(Idle)
        /\ ~Won(Raised(req[w])) /\ ~Won(Idle)
    BY RaisedTame DEF Tame, Candidate, Won, WonPC
  <2> QED BY <2>1 DEF Becomes, Call
<1>2. req \in [Worker -> Request]
  BY DEF Inv, TypeOK
<1>3. ASSUME NEW v \in Worker PROVE req'[v] = IF v = w THEN q ELSE req[v]
  BY <1>1, <1>2
<1> QED BY <1>1, <1>3 DEF Timed

LEMMA TimedInit == Init => Timed
BY DEF Init, Timed, Idle, Candidate, Won, WonPC

(* The steps that mint a document or publish one.                          *)
LEMMA TimedMints ==
    ASSUME Inv, Timed, NEW w \in Worker,
           CreateDoc(w) \/ CreateFamily(w) \/ InsertCandidate(w) \/ CasWins(w)
    PROVE  Timed'
<1> USE DEF famVars, docVars, sesVars, hisVars
<1>0. req[w] \in Request /\ clock \in Nat /\ famCreated \in Nat
  BY DEF Inv, TypeOK
<1>1. \A now, created \in Nat : /\ expiry_for(now, created) \in Nat
                                /\ expiry_for(now, created) <= created + AbsoluteAge
  BY AgeAssumption DEF expiry_for
<1>2. ASSUME CreateDoc(w) PROVE Timed'
  <2>1. PICK t \in FreshToken : /\ InsertDoc(t, req[w].sid, expiry_for(clock, clock))
                                /\ Call(w, [req[w] EXCEPT !.pc = "ci_fam", !.new = t])
    BY <1>2 DEF CreateDoc
  <2> DEFINE r == [req[w] EXCEPT !.pc = "ci_fam", !.new = t]
  <2>2. r.new = t /\ r.pc = "ci_fam"
    BY <1>0 DEF Request
  <2>3. active = None /\ \A v \in Worker \ {w} : At(v, "idle")
    BY <1>2 DEF CreateDoc, At, Inv, Opening
  <2> HIDE DEF r
  <2>4. ~Won(r)
    BY <2>2 DEF Won, WonPC
  <2> QED BY <1>0, <1>1, <1>2, <2>1, <2>2, <2>3, <2>4, MintTimed DEF CreateDoc, r
<1>3. ASSUME InsertCandidate(w) PROVE Timed'
  <2>1. PICK t \in FreshToken :
            /\ InsertDoc(t, req[w].sid, expiry_for(clock, famCreated))
            /\ Call(w, [req[w] EXCEPT !.pc = "cas", !.new = t, !.stamp = clock])
    BY <1>3 DEF InsertCandidate
  <2> DEFINE r == [req[w] EXCEPT !.pc = "cas", !.new = t, !.stamp = clock]
  <2>2. r.new = t /\ r.pc = "cas"
    BY <1>0 DEF Request
  <2> HIDE DEF r
  <2>4. ~Won(r)
    BY <2>2 DEF Won, WonPC
  <2> QED BY <1>0, <1>1, <1>3, <2>1, <2>2, <2>4, MintTimed DEF InsertCandidate, r
<1>4. ASSUME CreateFamily(w) PROVE Timed'
  <2>1. Becomes(w, Idle) \/ Becomes(w, Raised(req[w]))
    BY <1>4 DEF CreateFamily
  <2>2. /\ ~Candidate(Raised(req[w])) /\ ~Candidate(Idle)
        /\ ~Won(Raised(req[w])) /\ ~Won(Idle)
    <3>1. ~Won(req[w])
      BY <1>4 DEF CreateFamily, At, Won, WonPC
    <3> QED BY <3>1, RaisedTame DEF Tame
  <2>3. Candidate(req[w])
    BY <1>4 DEF CreateFamily, At, Candidate
  <2> QED BY <1>4, <2>1, <2>2, <2>3, PublishTimed DEF CreateFamily
<1>5. ASSUME CasWins(w) PROVE Timed'
  <2> DEFINE r == [req[w] EXCEPT !.pc = "consume", !.todo = Superseded(req[w].sid)]
  <2>1. r.pc = "consume" /\ r.cur = req[w].cur /\ r.stamp = req[w].stamp
    BY <1>0 DEF Request
  <2>2. Call(w, r)
    BY <1>5 DEF CasWins
  <2>3. req[w].cur = active /\ active # None /\ req[w].stamp < famExpires
    <3>1. active = req[w].cur /\ famExpires > req[w].stamp /\ req[w].pc = "cas"
      BY <1>5 DEF CasWins, CasMatches, At
    <3>2. req[w].cur \in Token
      BY <3>1 DEF Inv, Locals, LocalOK, Shape, Carrying
    <3>3. famExpires \in Nat /\ req[w].stamp \in Nat
      BY <1>0 DEF Inv, TypeOK, Request
    <3> QED BY <3>1, <3>2, <3>3, IdsAssumption
  <2> HIDE DEF r
  <2>4. ~Candidate(r) /\ Candidate(req[w])
    BY <1>5, <2>1 DEF Candidate, CasWins, At
  <2> QED BY <1>5, <2>1, <2>2, <2>3, <2>4, PublishTimed DEF CasWins
<1> QED BY <1>2, <1>3, <1>4, <1>5

(* Every other step of a request.                                          *)
LEMMA TimedTame ==
    ASSUME Inv, NEW w \in Worker,
           Serve(w) \/ Arrive(w) \/ CallFails(w) \/ Crash(w),
           ~(CreateDoc(w) \/ CreateFamily(w) \/ InsertCandidate(w) \/ CasWins(w))
    PROVE  /\ UNCHANGED <<active, famExpires, famCreated, expires>>
           /\ \E r : Tame(w, r) /\ (Call(w, r) \/ Becomes(w, r))
<1> USE DEF famVars, docVars, DeleteDocs
<1>0. req[w] \in Request
  BY DEF Inv, TypeOK
<1>1. \A r : r.pc \notin {"ci_fam", "cas", "finish"} \cup WonPC => Tame(w, r)
  BY DEF Tame, Candidate, Won
<1>2. Tame(w, Idle) /\ Tame(w, Raised(req[w]))
  BY RaisedTame
<1>3. \A s, p : Tame(w, Aborting(s)) /\ Tame(w, Revoking(s, p))
  BY DEF Tame, Candidate, Won, WonPC, Aborting, Revoking, Idle
<1>4. CASE SignIn(w)
  BY <1>2, <1>4 DEF SignIn, CreateUndo
<1>5. CASE Lookup(w)
  <2>3. CASE LookupToken(w)
    <3> DEFINE r == [req[w] EXCEPT !.pc = "gv2_fam", !.seen = req[w].cur \in consumed]
    <3>1. Becomes(w, r) \/ Becomes(w, Aborting(req[w].sid))
      BY <2>3 DEF LookupToken
    <3>2. r.pc = "gv2_fam"
      BY <1>0 DEF Request
    <3> HIDE DEF r
    <3> QED BY <1>1, <1>3, <2>3, <3>1, <3>2 DEF LookupToken, WonPC
  <2>4. ASSUME NEW second \in BOOLEAN, LookupFamily(w, second)
        PROVE  /\ UNCHANGED <<active, famExpires, famCreated, expires>>
               /\ \E r : Tame(w, r) /\ (Call(w, r) \/ Becomes(w, r))
    <3>0. Tame(w, Refused(w, second))
      BY <1>2, <1>3 DEF Refused
    <3> DEFINE r == [req[w] EXCEPT !.pc = IF second THEN "insert" ELSE "renew", !.seen = FALSE]
               back == Revoking(req[w].sid, IF second THEN "abort" ELSE "idle")
    <3>1. Becomes(w, r) \/ Becomes(w, Refused(w, second)) \/ Becomes(w, back)
      BY <2>4 DEF LookupFamily
    <3>2. r.pc \in {"insert", "renew"}
      BY <1>0 DEF Request
    <3>3. Tame(w, back)
      BY <1>3
    <3> HIDE DEF r, back
    <3> QED BY <1>1, <2>4, <3>0, <3>1, <3>2, <3>3 DEF LookupFamily, WonPC
  <2> QED BY <1>5, <2>3, <2>4 DEF Lookup
<1>6. CASE Renew(w)
  <2>1. PICK s \in Session : Call(w, [req[w] EXCEPT !.pc = "gv2_tok", !.sid = s])
    BY <1>6 DEF Renew
  <2> DEFINE r == [req[w] EXCEPT !.pc = "gv2_tok", !.sid = s]
  <2>2. r.pc = "gv2_tok"
    BY <1>0 DEF Request
  <2> HIDE DEF r
  <2> QED BY <1>1, <1>6, <2>1, <2>2 DEF Renew, WonPC, r
<1>7. ASSUME NEW p \in LosePC \cup RevokePC \cup LogoutPC, NEW f,
             Becomes(w, [req[w] EXCEPT !.pc = p]) \/ Call(w, [req[w] EXCEPT !.pc = p])
             \/ Call(w, [req[w] EXCEPT !.pc = p, !.todo = f])
             \/ Becomes(w, [req[w] EXCEPT !.pc = p, !.todo = f])
      PROVE  \E r : Tame(w, r) /\ (Call(w, r) \/ Becomes(w, r))
  <2> DEFINE r1 == [req[w] EXCEPT !.pc = p]
             r2 == [req[w] EXCEPT !.pc = p, !.todo = f]
  <2>1. r1.pc = p /\ r2.pc = p
    BY <1>0 DEF Request
  <2>2. Becomes(w, r1) \/ Call(w, r1) \/ Becomes(w, r2) \/ Call(w, r2)
    BY <1>7
  <2> HIDE DEF r1, r2
  <2>3. Tame(w, r1) /\ Tame(w, r2)
    BY <1>1, <2>1 DEF LosePC, RevokePC, LogoutPC, WonPC
  <2> QED BY <2>2, <2>3
<1>8. CASE CasLoses(w) \/ LoseDoc(w) \/ LoseState(w) \/ LoseSession(w)
  BY <1>3, <1>7, <1>8 DEF CasLoses, LoseDoc, LoseState, LoseSession, LosePC
<1>9. CASE Consume(w)
  <2> DEFINE r == [req[w] EXCEPT !.pc = IF req[w].todo = {} THEN "finish" ELSE "drop"]
  <2>1. r.pc \in {"finish", "drop"} /\ r.cur = req[w].cur /\ r.stamp = req[w].stamp
    BY <1>0 DEF Request
  <2>2. Call(w, r) /\ Won(req[w])
    BY <1>9 DEF Consume, At, Won, WonPC
  <2> HIDE DEF r
  <2>3. Tame(w, r)
    BY <2>1, <2>2 DEF Tame, Candidate
  <2> QED BY <1>9, <2>2, <2>3 DEF Consume
<1>10. CASE DropSession(w)
  <2>1. PICK s \in req[w].todo : Call(w, [req[w] EXCEPT !.pc = "pull", !.victim = s])
    BY <1>10 DEF DropSession
  <2> DEFINE r == [req[w] EXCEPT !.pc = "pull", !.victim = s]
  <2>2. r.pc = "pull" /\ r.cur = req[w].cur /\ r.stamp = req[w].stamp
    BY <1>0 DEF Request
  <2>3. Call(w, r) /\ Won(req[w])
    BY <1>10, <2>1 DEF DropSession, At, Won, WonPC
  <2> HIDE DEF r
  <2>4. Tame(w, r)
    BY <2>2, <2>3 DEF Tame, Candidate
  <2> QED BY <1>10, <2>3, <2>4 DEF DropSession
<1>11. CASE PullReference(w)
  <2> DEFINE left == req[w].todo \ {req[w].victim}
             r == [req[w] EXCEPT !.pc = IF left = {} THEN "finish" ELSE "drop",
                                 !.todo = left, !.victim = None]
  <2>1. r.pc \in {"finish", "drop"} /\ r.cur = req[w].cur /\ r.stamp = req[w].stamp
    BY <1>0 DEF Request
  <2>2. Call(w, r) /\ Won(req[w])
    BY <1>11 DEF PullReference, At, Won, WonPC
  <2> HIDE DEF r
  <2>3. Tame(w, r)
    BY <2>1, <2>2 DEF Tame, Candidate
  <2> QED BY <1>11, <2>2, <2>3 DEF PullReference
<1>12. CASE Finish(w) \/ Abort(w)
  BY <1>2, <1>12 DEF Finish, Abort
<1>13. CASE RevokeFamily(w)
  <2>1. CASE RevokeMark(w) \/ RevokeRead(w) \/ RevokeSessions(w)
    BY <1>7, <2>1 DEF RevokeMark, RevokeRead, RevokeSessions, RevokePC
  <2>2. CASE RevokeTokens(w)
    <3> DEFINE r == [Idle EXCEPT !.pc = req[w].ret, !.sid = req[w].sid]
    <3>1. r.pc = req[w].ret /\ req[w].ret \in {"idle", "abort", "lo_find2", "lo_done"}
      BY <1>0 DEF Idle, Request
    <3>2. Call(w, r)
      BY <2>2 DEF RevokeTokens
    <3> HIDE DEF r
    <3> QED BY <1>1, <2>2, <3>1, <3>2 DEF RevokeTokens, WonPC
  <2> QED BY <1>13, <2>1, <2>2 DEF RevokeFamily
<1>14. CASE SignOut(w)
  <2>1. ASSUME ReadSession(w)
        PROVE  \E r : Tame(w, r) /\ (Call(w, r) \/ Becomes(w, r))
    <3>1. PICK r \in Request : Becomes(w, r) /\ r.pc \in LogoutPC
      BY <2>1, ReadStep
    <3> QED BY <1>1, <3>1 DEF LogoutPC, WonPC
  <2>2. ASSUME NEW second \in BOOLEAN, FindTokens(w, second)
        PROVE  \E r : Tame(w, r) /\ (Call(w, r) \/ Becomes(w, r))
    <3>1. PICK after \in LogoutPC :
             \/ Becomes(w, [req[w] EXCEPT !.pc = after])
             \/ Becomes(w, Revoking(req[w].sid, after))
      BY <2>2 DEF FindTokens, ClosingPC, LogoutPC
    <3> QED BY <1>3, <1>7, <3>1
  <2>3. ASSUME DeleteRow(w)
        PROVE  \E r : Tame(w, r) /\ (Call(w, r) \/ Becomes(w, r))
    <3>1. PICK p \in LogoutPC : p = ClosingPC(req[w].found)
      BY DEF ClosingPC, LogoutPC
    <3>2. Call(w, [req[w] EXCEPT !.pc = p])
      BY <2>3, <3>1 DEF DeleteRow
    <3> QED BY <1>7, <3>2
  <2>4. CASE SignOutAnswers(w)
    BY <1>2, <2>4 DEF SignOutAnswers
  <2> QED BY <1>14, <2>1, <2>2, <2>3, <2>4
          DEF SignOut, ReadSession, ReadRow, ReadFamily, DeleteRow, FindTokens, SignOutAnswers
<1>15. CASE Arrive(w)
  <2>1. \A s, t, b : /\ Tame(w, [Idle EXCEPT !.pc = "ci_doc", !.sid = s])
                     /\ Tame(w, [Idle EXCEPT !.pc = "gv1_fam", !.cur = t, !.seen = b])
                     /\ Tame(w, [Idle EXCEPT !.pc = "lo_fam1", !.sid = s])
                     /\ Tame(w, [Idle EXCEPT !.pc = "lo_done", !.sid = s])
    BY DEF Idle, Tame, Candidate, Won, WonPC
  <2> QED BY <1>2, <1>15, <2>1 DEF Arrive, StartSignIn, StartRefresh, StartSignOut
<1>16. CASE CallFails(w) \/ Crash(w)
  BY <1>2, <1>16 DEF CallFails, Crash
<1> QED BY <1>4, <1>5, <1>6, <1>8, <1>9, <1>10, <1>11, <1>12, <1>13, <1>14, <1>15, <1>16
        DEF Serve, Rotate

LEMMA TimedNext == Inv /\ Timed /\ [Next]_vars => Timed'
<1> SUFFICES ASSUME Inv, Timed, [Next]_vars PROVE Timed'
  OBVIOUS
<1>1. ASSUME NEW w \in Worker, Serve(w) \/ Arrive(w) \/ CallFails(w) \/ Crash(w) PROVE Timed'
  BY <1>1, TimedMints, TimedTame, TameStep
<1>2. ASSUME UNCHANGED <<req, active, famExpires, famCreated, expires>> PROVE Timed'
  BY <1>2 DEF Timed
<1>3. CASE Tick \/ (\E t \in Token : ExpireToken(t)) \/ UNCHANGED vars
  BY <1>2, <1>3 DEF Tick, ExpireToken, DeleteDocs, famVars, docVars, vars
<1> QED BY <1>1, <1>3 DEF Next

------------------------------------------------------------------------------
(* Whose session is whose.  Every token document is minted for a session   *)
(* of its own; a rotation owns the replacement session it made until the   *)
(* client has it; and whatever a clean-up deletes belongs to a token that  *)
(* is no longer the active one, or to the request itself.                  *)

(* The request made a session, and has not yet minted a token for it.      *)
Unbound(r) == r.pc \in {"ci_doc", "gv2_tok", "gv2_fam", "insert"}

(* It minted one, which the client does not have.                          *)
Bound(r) == Candidate(r) \/ Won(r)

(* It may still delete its session.                                        *)
Owner(r) ==
    \/ Unbound(r) \/ Bound(r) \/ r.pc \in {"abort"} \cup LosePC
    \/ r.pc \in RevokePC /\ r.ret = "abort"

(* A sign-out, or the revocation it asked for.                             *)
Leaving(r) ==
    \/ r.pc \in LogoutPC
    \/ r.pc \in RevokePC /\ r.ret \in {"lo_find2", "lo_done"}

(* The sessions of the tokens that were superseded.                        *)
Past == {docSession[t] : t \in published \ {active}}

Paired ==
    /\ \A s, t \in Token : docSession[s] = docSession[t] /\ docSession[s] # None => s = t
    /\ \A t \in Token : docSession[t] \in minted \cup {None}
    /\ \A t \in handed : docSession[t] \in handedS
    /\ famSessions \subseteq {docSession[t] : t \in published}
    /\ active # None => docSession[active] \in famSessions

OwnedOK(r) ==
    /\ Owner(r) => r.sid \in Session \ handedS
    /\ Unbound(r) => \A t \in Token : docSession[t] # r.sid
    /\ Bound(r) => docSession[r.new] = r.sid
    /\ Won(r) => active = r.new
    /\ r.pc \in WonPC => r.todo \subseteq Past
    /\ r.pc = "pull" => r.victim \in Past
    /\ r.pc \in Carrying => r.cur \in handed
    /\ Leaving(r) => r.sid \in handedS
    /\ Marked(r) => revoked
    /\ ~revoked /\ (Unbound(r) \/ Bound(r)) => r.sid \in sessions

Owned == \A w \in Worker : OwnedOK(req[w])

Apart ==
    \A v, w \in Worker : Owner(req[v]) /\ Owner(req[w]) /\ req[v].sid = req[w].sid => v = w

Ownership == Paired /\ Owned /\ Apart /\ HolderKeepsSession

(* Where a request may go without minting, publishing or answering.        *)
Keeps(w, r) ==
    /\ Owner(r) => Owner(req[w]) /\ r.sid = req[w].sid
    /\ Unbound(r) => Unbound(req[w])
    /\ Bound(r) => Bound(req[w]) /\ r.new = req[w].new
    /\ Won(r) => Won(req[w])
    /\ r.pc \in WonPC => r.todo \subseteq Past
    /\ r.pc = "pull" => r.victim \in Past
    /\ r.pc \in Carrying => r.cur \in handed
    /\ Leaving(r) => r.sid \in handedS
    /\ Marked(r) => revoked'

(* A raised call never leads forward.                                      *)
LEMMA RaisedKeeps ==
    ASSUME Inv, NEW w \in Worker
    PROVE  /\ Keeps(w, Raised(req[w])) /\ ~Unbound(Raised(req[w])) /\ ~Bound(Raised(req[w]))
           /\ Keeps(w, Idle) /\ ~Unbound(Idle) /\ ~Bound(Idle) /\ ~Owner(Idle)
<1> USE DEF Keeps, Unbound, Bound, Candidate, Won, Owner, Leaving, Marked, Carrying, LookupPC,
            LosePC, WonPC, RevokePC, LogoutPC
<1>1. Keeps(w, Idle) /\ ~Unbound(Idle) /\ ~Bound(Idle) /\ ~Owner(Idle)
  BY DEF Idle
<1>2. ASSUME NEW s PROVE
        /\ Aborting(s).pc = "abort" /\ Aborting(s).sid = s
        /\ Revoking(s, "abort").pc = "rv_mark" /\ Revoking(s, "abort").sid = s
        /\ Revoking(s, "abort").ret = "abort"
        /\ Revoking(s, "idle").pc = "rv_mark" /\ Revoking(s, "idle").ret = "idle"
  BY DEF Aborting, Revoking, Idle
<1> DEFINE r == req[w]
<1>3. r \in Request
  BY DEF Inv, TypeOK
<1>4. CASE r.pc = "ci_fam"
  <2>1. Raised(r) = [r EXCEPT !.pc = "ci_undo"] /\ [r EXCEPT !.pc = "ci_undo"].pc = "ci_undo"
    BY <1>3, <1>4 DEF Raised, Request
  <2> QED BY <1>1, <2>1
<1>5. CASE r.pc \in {"gv2_tok", "gv2_fam", "insert", "cas"} \cup LosePC
  <2>1. Raised(r) = Aborting(r.sid)
    BY <1>5 DEF Raised
  <2> QED BY <1>1, <1>2, <1>5, <2>1
<1>6. CASE r.pc \in WonPC
  <2>1. Raised(r) = Revoking(r.sid, "abort")
    BY <1>6 DEF Raised
  <2> QED BY <1>1, <1>2, <1>6, <2>1
<1>7. CASE r.pc = "finish"
  <2>1. Raised(r) = Revoking(r.sid, "idle")
    BY <1>7 DEF Raised
  <2> QED BY <1>1, <1>2, <2>1
<1>8. CASE r.pc \in RevokePC /\ r.ret = "abort"
  <2>1. Raised(r) = Aborting(r.sid)
    BY <1>8 DEF Raised
  <2> QED BY <1>1, <1>2, <1>8, <2>1
<1>9. CASE /\ r.pc \notin {"ci_fam", "gv2_tok", "gv2_fam", "insert", "cas", "finish"}
                           \cup LosePC \cup WonPC
           /\ ~(r.pc \in RevokePC /\ r.ret = "abort")
  <2>1. Raised(r) = Idle
    BY <1>9 DEF Raised
  <2> QED BY <1>1, <2>1
<1> QED BY <1>4, <1>5, <1>6, <1>7, <1>8, <1>9

(* The outcome of a call.                                                  *)
LEMMA KeptOutcome ==
    ASSUME Inv, NEW w \in Worker, NEW r, Call(w, r) \/ Becomes(w, r)
    PROVE  \E q : /\ req' = [req EXCEPT ![w] = q]
                  /\ q = r \/ (Keeps(w, q) /\ ~Unbound(q) /\ ~Bound(q))
                  /\ \A v \in Worker : req'[v] = IF v = w THEN q ELSE req[v]
<1>1. req \in [Worker -> Request]
  BY DEF Inv, TypeOK
<1>2. Becomes(w, r) \/ Becomes(w, Raised(req[w]))
  BY DEF Call
<1>3. PICK q : /\ req' = [req EXCEPT ![w] = q]
               /\ q = r \/ (Keeps(w, q) /\ ~Unbound(q) /\ ~Bound(q))
  BY <1>2, RaisedKeeps DEF Becomes
<1> QED BY <1>1, <1>3

(* What may be deleted while the family is open.                           *)
Spares(w, r) ==
    \A s \in sessions \ sessions' :
        \/ revoked'
        \/ s \in Past
        \/ Owner(req[w]) /\ s = req[w].sid /\ ~Unbound(r) /\ ~Bound(r)
        \/ s \in handedS /\ s \in signedOut'

LEMMA KeepStep ==
    ASSUME Inv, Ownership, NEW w \in Worker, NEW r, Keeps(w, r), Call(w, r) \/ Becomes(w, r),
           Spares(w, r),
           UNCHANGED <<active, docSession, minted, handed, handedS, published>>,
           famSessions' \subseteq famSessions, famSessions \ famSessions' \subseteq Past,
           revoked => revoked', signedOut \subseteq signedOut'
    PROVE  Ownership'
<1>1. PICK q : /\ Keeps(w, q) /\ Spares(w, q)
               /\ \A v \in Worker : req'[v] = IF v = w THEN q ELSE req[v]
  BY KeptOutcome DEF Spares
<1>2. Past' = Past
  BY DEF Past
<1>3. Paired'
  <2>1. active # None => docSession[active] \in Session /\ active \in Token
    BY DEF Inv, TypeOK, Chain, Minted
  <2>2. active # None => docSession[active] \notin Past
    BY <2>1, IdsAssumption DEF Past, Ownership, Paired, Inv, TypeOK
  <2> QED BY <2>2 DEF Ownership, Paired
<1>4. \A v \in Worker : OwnedOK(req[v])
  BY DEF Ownership, Owned
<1>5. /\ Owner(q) => Owner(req[w]) /\ q.sid = req[w].sid
      /\ Unbound(q) => Unbound(req[w]) /\ q.sid = req[w].sid
      /\ Bound(q) => Bound(req[w]) /\ q.new = req[w].new /\ q.sid = req[w].sid
  BY <1>1 DEF Keeps, Owner
<1>6. ASSUME NEW v \in Worker, ~revoked', Unbound(req'[v]) \/ Bound(req'[v])
      PROVE  req'[v].sid \in sessions'
  <2>1. /\ Unbound(req[v]) \/ Bound(req[v])
        /\ req'[v].sid = req[v].sid
        /\ req'[v].sid \in sessions /\ Owner(req[v]) /\ req[v].sid \notin handedS
        /\ req[v].sid \in Session
    BY <1>1, <1>4, <1>5, <1>6 DEF OwnedOK, Owner
  <2>2. req[v].sid \notin Past
    <3>1. CASE Unbound(req[v])
      BY <1>4, <3>1 DEF OwnedOK, Past, Inv, TypeOK
    <3>2. CASE Bound(req[v])
      <4>1. /\ docSession[req[v].new] = req[v].sid /\ req[v].new \in Token
            /\ req[v].new \notin published \ {active}
        BY <1>4, <3>2
           DEF OwnedOK, Bound, Candidate, Won, Inv, Chain, Locals, LocalOK, Shape, Bearing
      <4> QED BY <2>1, <4>1, IdsAssumption DEF Past, Ownership, Paired, Inv, TypeOK
    <3> QED BY <2>1, <3>1, <3>2, <1>5, <1>1, <1>6
  <2>3. v # w => ~(Owner(req[w]) /\ req[v].sid = req[w].sid)
    BY <2>1 DEF Ownership, Apart
  <2> QED BY <1>1, <1>6, <2>1, <2>2, <2>3 DEF Spares
<1>7. Owned'
  <2>1. ASSUME NEW v \in Worker PROVE OwnedOK(req[v])'
    <3>1. CASE v = w
      <4>1. req'[v] = q /\ OwnedOK(req[w])
        BY <1>1, <1>4, <3>1
      <4>2. /\ Owner(q) => q.sid \in Session \ handedS'
            /\ Unbound(q) => \A t \in Token : docSession'[t] # q.sid
            /\ Bound(q) => docSession'[q.new] = q.sid
            /\ Won(q) => active' = q.new
        BY <1>1, <1>5, <4>1 DEF OwnedOK, Keeps, Bound
      <4>3. /\ q.pc \in WonPC => q.todo \subseteq Past'
            /\ q.pc = "pull" => q.victim \in Past'
            /\ q.pc \in Carrying => q.cur \in handed'
            /\ Leaving(q) => q.sid \in handedS'
            /\ Marked(q) => revoked'
        BY <1>1, <1>2 DEF Keeps
      <4> QED BY <1>6, <4>1, <4>2, <4>3 DEF OwnedOK
    <3>2. CASE v # w
      <4>1. req'[v] = req[v] /\ OwnedOK(req[v])
        BY <1>1, <1>4, <3>2
      <4> QED BY <1>2, <1>6, <4>1 DEF OwnedOK
    <3> QED BY <3>1, <3>2
  <2> QED BY <2>1 DEF Owned
<1>8. Apart'
  BY <1>1, <1>5 DEF Ownership, Apart
<1>9. HolderKeepsSession'
  <2> SUFFICES ASSUME ~revoked', active \in handed, docSession[active] \notin signedOut'
               PROVE  docSession[active] \in sessions'
    BY DEF HolderKeepsSession
  <2>1. docSession[active] \in sessions /\ docSession[active] \in handedS
    BY DEF Ownership, HolderKeepsSession, Paired
  <2>2. docSession[active] \notin Past
    BY <2>1, IdsAssumption DEF Past, Ownership, Paired, Inv, TypeOK
  <2>3. Owner(req[w]) => req[w].sid \notin handedS
    BY <1>4 DEF OwnedOK
  <2> QED BY <1>1, <2>1, <2>2, <2>3 DEF Spares
<1> QED BY <1>3, <1>7, <1>8, <1>9 DEF Ownership

LEMMA OwnershipInit == Init => Ownership
<1> SUFFICES ASSUME Init PROVE Ownership
  OBVIOUS
<1>1. \A w \in Worker : req[w].pc = "idle"
  BY DEF Init, Idle
<1> QED
  BY <1>1 DEF Init, Ownership, Paired, Owned, OwnedOK, Apart, HolderKeepsSession, Owner, Unbound,
              Bound, Candidate, Won, Leaving, Marked, Carrying, LookupPC, LosePC, WonPC, RevokePC,
              LogoutPC

(* A request makes a session: nobody knows it yet.                         *)
LEMMA MintSessionOwned ==
    ASSUME Inv, Ownership, NEW w \in Worker, NEW r, NEW s \in Session,
           InsertSession(s), Call(w, r) \/ Becomes(w, r),
           Unbound(r), r.sid = s, r.pc \in Carrying => r.cur \in handed,
           UNCHANGED <<famVars, docVars, hisVars>>
    PROVE  Ownership'
<1> USE DEF famVars, docVars, hisVars
<1>1. PICK q : /\ q = r \/ (Keeps(w, q) /\ ~Unbound(q) /\ ~Bound(q))
               /\ \A v \in Worker : req'[v] = IF v = w THEN q ELSE req[v]
  BY KeptOutcome
<1>2. /\ s \notin minted /\ sessions' = sessions \cup {s} /\ minted' = minted \cup {s}
      /\ s # None /\ s \notin handedS /\ \A t \in Token : docSession[t] # s
      /\ \A v \in Worker : req[v].sid # s
  BY IdsAssumption DEF InsertSession, Inv, Minted, Locals, LocalOK, Ownership, Paired
<1>3. Past' = Past
  BY DEF Past
<1>4. Paired'
  BY <1>2 DEF Ownership, Paired
<1>5. OwnedOK(q)'
  <2>1. CASE q = r
    <3>1. ~Bound(r) /\ ~Won(r) /\ r.pc \notin WonPC /\ r.pc # "pull" /\ ~Leaving(r) /\ ~Marked(r)
      BY DEF Unbound, Bound, Candidate, Won, Leaving, Marked, WonPC, RevokePC, LogoutPC
    <3> QED BY <1>2, <2>1, <3>1 DEF OwnedOK
  <2>2. CASE Keeps(w, q) /\ ~Unbound(q) /\ ~Bound(q)
    BY <1>2, <1>3, <2>2 DEF OwnedOK, Keeps, Bound, Ownership, Owned
  <2> QED BY <1>1, <2>1, <2>2
<1>6. Owned'
  BY <1>1, <1>2, <1>3, <1>5 DEF Owned, OwnedOK, Ownership
<1>7. Apart'
  <2>1. ASSUME NEW v \in Worker, v # w, Owner(q), Owner(req[v]) PROVE q.sid # req[v].sid
    BY <1>1, <1>2, <2>1 DEF Ownership, Apart, Keeps
  <2> QED BY <1>1, <2>1 DEF Ownership, Apart
<1>8. HolderKeepsSession'
  BY <1>2 DEF Ownership, HolderKeepsSession
<1> QED BY <1>4, <1>6, <1>7, <1>8 DEF Ownership

(* It mints the token of that session.                                     *)
LEMMA BindOwned ==
    ASSUME Inv, Ownership, NEW w \in Worker, NEW r, NEW t \in FreshToken, NEW e,
           InsertDoc(t, req[w].sid, e), Call(w, r), Unbound(req[w]),
           Candidate(r), r.new = t, r.sid = req[w].sid, r.pc \in Carrying => r.cur \in handed,
           UNCHANGED <<active, revoked, famSessions, sesVars, hisVars>>
    PROVE  Ownership'
<1> USE DEF sesVars, hisVars
<1>1. PICK q : /\ q = r \/ (Keeps(w, q) /\ ~Unbound(q) /\ ~Bound(q))
               /\ \A v \in Worker : req'[v] = IF v = w THEN q ELSE req[v]
  BY KeptOutcome
<1>2. /\ t \in Token /\ docSession[t] = None /\ t \notin published /\ t \notin handed /\ active # t
      /\ \A u \in Token : docSession'[u] = IF u = t THEN req[w].sid ELSE docSession[u]
      /\ published \subseteq Token /\ handed \subseteq Token
  BY IdsAssumption DEF FreshToken, Inv, Minted, Chain, TypeOK, InsertDoc
<1>3. /\ OwnedOK(req[w]) /\ req[w].sid \in Session \ handedS /\ Owner(req[w])
      /\ \A u \in Token : docSession[u] # req[w].sid
      /\ req[w].sid \in minted /\ (~revoked => req[w].sid \in sessions)
  BY IdsAssumption DEF Ownership, Owned, OwnedOK, Owner, Inv, Locals, LocalOK
<1>4. Past' = Past
  BY <1>2 DEF Past
<1>5. Paired'
  <2>1. famSessions \subseteq {docSession'[u] : u \in published}
    BY <1>2 DEF Ownership, Paired
  <2>2. \A u, v \in Token : docSession'[u] = docSession'[v] /\ docSession'[u] # None => u = v
    BY <1>2, <1>3 DEF Ownership, Paired
  <2>3. \A u \in Token : docSession'[u] \in minted \cup {None}
    BY <1>2, <1>3 DEF Ownership, Paired
  <2>4. \A u \in handed : docSession'[u] \in handedS
    BY <1>2 DEF Ownership, Paired
  <2>5. active # None => docSession'[active] \in famSessions
    BY <1>2 DEF Ownership, Paired, Inv, Chain
  <2> QED BY <2>1, <2>2, <2>3, <2>4, <2>5 DEF Paired
<1>6. OwnedOK(q)'
  <2>1. CASE q = r
    <3>1. ~Unbound(r) /\ ~Won(r) /\ r.pc \notin WonPC /\ r.pc # "pull" /\ ~Leaving(r) /\ ~Marked(r)
      BY DEF Unbound, Candidate, Won, Leaving, Marked, WonPC, RevokePC, LogoutPC
    <3> QED BY <1>2, <1>3, <2>1, <3>1 DEF OwnedOK, Bound
  <2>2. CASE Keeps(w, q) /\ ~Unbound(q) /\ ~Bound(q)
    BY <1>2, <1>3, <1>4, <2>2 DEF OwnedOK, Keeps, Bound
  <2> QED BY <1>1, <2>1, <2>2
<1>7. Owned'
  <2>1. ASSUME NEW v \in Worker, v # w PROVE OwnedOK(req[v])'
    <3>1. req'[v] = req[v] /\ OwnedOK(req[v])
      BY <1>1, <2>1 DEF Ownership, Owned
    <3>2. Unbound(req[v]) => req[v].sid # req[w].sid
      BY <1>3, <2>1 DEF Ownership, Apart, Owner
    <3>3. Bound(req[v]) => req[v].new # t /\ req[v].new \in Token
      BY <1>2, IdsAssumption
         DEF Inv, Chain, Bound, Candidate, Won, Locals, LocalOK, Shape, Bearing
    <3> QED BY <1>2, <1>4, <3>1, <3>2, <3>3 DEF OwnedOK
  <2> QED BY <1>1, <1>6, <2>1 DEF Owned
<1>8. Apart'
  <2>1. Owner(q) => q.sid = req[w].sid
    BY <1>1 DEF Keeps
  <2> QED BY <1>1, <1>3, <2>1 DEF Ownership, Apart
<1>9. HolderKeepsSession'
  BY <1>2 DEF Ownership, HolderKeepsSession
<1> QED BY <1>5, <1>7, <1>8, <1>9 DEF Ownership

(* The session of a request at work is not one of a superseded token.      *)
LEMMA OwnSessionIsCurrent ==
    ASSUME Inv, Ownership
    PROVE  /\ \A w \in Worker : Unbound(req[w]) \/ Bound(req[w]) =>
                 req[w].sid \notin Past /\ Owner(req[w])
           /\ active \in handed => docSession[active] \notin Past
<1>1. ASSUME NEW w \in Worker, Unbound(req[w]) PROVE req[w].sid \notin Past
  BY <1>1 DEF OwnedOK, Past, Inv, TypeOK, Ownership, Owned
<1>2. ASSUME NEW w \in Worker, Bound(req[w]) PROVE req[w].sid \notin Past
  <2>1. /\ docSession[req[w].new] = req[w].sid /\ req[w].new \in Token
        /\ req[w].new \notin published \ {active} /\ req[w].sid \in Session
    BY <1>2 DEF OwnedOK, Bound, Candidate, Won, Owner, Ownership, Owned, Inv, Chain, Locals, LocalOK,
                Shape, Bearing
  <2> QED BY <2>1, IdsAssumption DEF Past, Ownership, Paired, Inv, TypeOK
<1>3. active \in handed => docSession[active] \notin Past
  BY IdsAssumption DEF Past, Ownership, Paired, Inv, TypeOK
<1> QED BY <1>1, <1>2, <1>3 DEF Owner

LEMMA CreateFamilyOwned ==
    ASSUME Inv, Ownership, NEW w \in Worker, CreateFamily(w)
    PROVE  Ownership'
<1> USE DEF docVars, sesVars
<1> DEFINE new == req[w].new
           sid == req[w].sid
<1>1. /\ req[w].pc = "ci_fam" /\ active' = new /\ famSessions' = {sid}
      /\ published' = published \cup {new}
      /\ \/ handed' = handed \cup {new} /\ handedS' = handedS \cup {sid}
         \/ UNCHANGED <<handed, handedS>>
      /\ Becomes(w, Idle) \/ Becomes(w, Raised(req[w]))
      /\ UNCHANGED <<revoked, docVars, sesVars, signedOut>>
  BY DEF CreateFamily, At
<1>2. /\ active = None /\ published = {} /\ handed = {} /\ handedS = {} /\ ~revoked
      /\ \A v \in Worker : v # w => At(v, "idle")
  BY <1>1 DEF Inv, Opening, At
<1>3. docSession[new] = sid /\ sid \in sessions
  BY <1>1, <1>2 DEF Ownership, Owned, OwnedOK, Bound, Candidate
<1>4. \A v \in Worker : req'[v].pc \in {"idle", "ci_undo", "abort", "rv_mark"}
                        /\ ~Owner(req'[v]) /\ ~Leaving(req'[v])
  <2>1. Raised(req[w]).pc \in {"idle", "ci_undo"}
    BY <1>1, RaisedOK DEF Inv, Locals, CreatePC
  <2>2. req \in [Worker -> Request] /\ Idle.pc = "idle"
    BY DEF Inv, TypeOK, Idle
  <2> QED BY <1>1, <1>2, <2>1, <2>2
          DEF Becomes, At, Owner, Leaving, Unbound, Bound, Candidate, Won, LosePC, WonPC, RevokePC,
              LogoutPC
<1>5. Paired'
  BY <1>1, <1>2, <1>3 DEF Ownership, Paired
<1>6. Owned' /\ Apart'
  BY <1>4 DEF Owned, OwnedOK, Apart, Owner, Unbound, Bound, Candidate, Won, Marked, WonPC, Carrying,
              LookupPC, LosePC
<1>7. HolderKeepsSession'
  BY <1>1, <1>3 DEF HolderKeepsSession
<1> QED BY <1>5, <1>6, <1>7 DEF Ownership

LEMMA CasWinsOwned ==
    ASSUME Inv, Ownership, NEW w \in Worker, CasWins(w)
    PROVE  Ownership'
<1> USE DEF docVars, sesVars
<1> DEFINE new == req[w].new
           sid == req[w].sid
<1>1. PICK r : r = [req[w] EXCEPT !.pc = "consume", !.todo = Superseded(sid)]
  OBVIOUS
<1>2. /\ req[w].pc = "cas" /\ active' = new /\ famSessions' = famSessions \cup {sid}
      /\ published' = published \cup {new} /\ Call(w, r) /\ active = req[w].cur /\ ~revoked
      /\ UNCHANGED <<revoked, docVars, sesVars, handed, handedS, signedOut>>
  BY <1>1 DEF CasWins, CasMatches, SessionsWith, At
<1>3. /\ r.pc = "consume" /\ r.todo = famSessions \ {sid} /\ r.cur = req[w].cur
      /\ r.new = new /\ r.sid = sid
  BY <1>1 DEF Inv, TypeOK, Request, Superseded
<1>4. /\ docSession[new] = sid /\ sid \in sessions /\ sid \in Session \ handedS
      /\ active \in handed /\ new \notin published /\ new \notin handed /\ Owner(req[w])
      /\ active \in published
  BY <1>2 DEF Ownership, Owned, OwnedOK, Bound, Candidate, Owner, Carrying, Inv, Chain, TypeOK
<1>5. Past' = {docSession[t] : t \in published} /\ Past \subseteq Past'
  BY <1>2, <1>4 DEF Past
<1>6. PICK q : /\ q = r \/ (Keeps(w, q) /\ ~Unbound(q) /\ ~Bound(q))
               /\ \A v \in Worker : req'[v] = IF v = w THEN q ELSE req[v]
  BY <1>2, KeptOutcome
<1>7. Paired'
  BY <1>2, <1>4 DEF Ownership, Paired
<1>8. OwnedOK(q)'
  <2>1. CASE q = r
    <3>1. ~Unbound(r) /\ Bound(r) /\ Won(r) /\ ~Leaving(r) /\ ~Marked(r) /\ r.pc # "pull"
      BY <1>3 DEF Unbound, Bound, Candidate, Won, Leaving, Marked, WonPC, RevokePC, LogoutPC
    <3>2. r.todo \subseteq Past'
      BY <1>3, <1>5 DEF Ownership, Paired
    <3> QED BY <1>2, <1>3, <1>4, <2>1, <3>1, <3>2 DEF OwnedOK
  <2>2. CASE Keeps(w, q) /\ ~Unbound(q) /\ ~Bound(q)
    BY <1>2, <1>4, <1>5, <2>2 DEF OwnedOK, Keeps, Bound
  <2> QED BY <1>6, <2>1, <2>2
<1>9. Owned'
  <2>1. ASSUME NEW v \in Worker, v # w PROVE OwnedOK(req[v])'
    <3>1. req'[v] = req[v] /\ OwnedOK(req[v])
      BY <1>6, <2>1 DEF Ownership, Owned
    <3>2. ~Won(req[v])
      <4>1. Won(req[v]) => docSession[active] = req[v].sid /\ req[v].sid \notin handedS
        BY <3>1 DEF OwnedOK, Bound, Owner
      <4> QED BY <1>4, <4>1 DEF Ownership, Paired
    <3>3. req[v].pc \notin WonPC /\ req[v].pc # "pull"
      BY <3>2 DEF Won, WonPC
    <3> QED BY <1>2, <3>1, <3>2, <3>3 DEF OwnedOK
  <2> QED BY <1>6, <1>8, <2>1 DEF Owned
<1>10. Apart'
  <2>1. Owner(q) => q.sid = sid
    BY <1>3, <1>6 DEF Keeps
  <2> QED BY <1>4, <1>6, <2>1 DEF Ownership, Apart
<1>11. HolderKeepsSession'
  BY <1>2, <1>4 DEF HolderKeepsSession
<1> QED BY <1>7, <1>9, <1>10, <1>11 DEF Ownership

LEMMA FinishOwned ==
    ASSUME Inv, Ownership, NEW w \in Worker, Finish(w)
    PROVE  Ownership'
<1> USE DEF famVars, docVars
<1> DEFINE new == req[w].new
           sid == req[w].sid
           old == docSession[req[w].cur]
<1>1. /\ req[w].pc = "finish" /\ sessions' = sessions \ {old} /\ minted' = minted
      /\ UNCHANGED <<famVars, docVars, published, signedOut>>
  BY DEF Finish, DeleteSessions, At
<1>2. Won(req[w]) /\ Bound(req[w]) /\ Owner(req[w])
  BY <1>1 DEF Won, Bound, Owner
<1>3. /\ docSession[new] = sid /\ active = new /\ sid \in Session \ handedS
      /\ ~revoked => sid \in sessions
  BY <1>2 DEF Ownership, Owned, OwnedOK
<1>4. old \in Past
  BY <1>2 DEF Past, Inv, Chain
<1>5. Past' = Past
  BY <1>1 DEF Past
<1>6. CASE Becomes(w, Raised(req[w])) /\ UNCHANGED <<handed, handedS>>
  <2>1. PICK r : r = Raised(req[w])
    OBVIOUS
  <2>2. Keeps(w, r)
    BY <2>1, RaisedKeeps
  <2>3. Spares(w, r)
    BY <1>1, <1>4 DEF Spares
  <2> QED BY <1>1, <1>6, <2>1, <2>2, <2>3, KeepStep
<1>7. CASE Becomes(w, Idle) /\ handed' = handed \cup {new} /\ handedS' = handedS \cup {sid}
  <2>1. \A v \in Worker : req'[v] = IF v = w THEN Idle ELSE req[v]
    BY <1>7 DEF Becomes, Inv, TypeOK
  <2>2. Paired'
    BY <1>1, <1>3, <1>7 DEF Ownership, Paired
  <2>3. ASSUME NEW v \in Worker PROVE OwnedOK(req[v])'
    <3>1. CASE v = w
      BY <2>1, <3>1 DEF OwnedOK, Idle, Owner, Unbound, Bound, Candidate, Won, Leaving, Marked, WonPC,
                        Carrying, LookupPC, LosePC, RevokePC, LogoutPC
    <3>2. CASE v # w
      <4>1. req'[v] = req[v] /\ OwnedOK(req[v])
        BY <2>1, <3>2 DEF Ownership, Owned
      <4>2. Owner(req[v]) => req[v].sid # sid
        BY <1>2, <3>2 DEF Ownership, Apart
      <4>3. Unbound(req[v]) \/ Bound(req[v]) => req[v].sid # old
        BY <1>4, OwnSessionIsCurrent
      <4> QED BY <1>1, <1>5, <1>7, <4>1, <4>2, <4>3 DEF OwnedOK
    <3> QED BY <3>1, <3>2
  <2>4. Apart'
    BY <2>1, RaisedKeeps DEF Ownership, Apart
  <2>5. HolderKeepsSession'
    <3>1. sid \notin Past
      BY <1>2, OwnSessionIsCurrent
    <3> QED BY <1>1, <1>3, <1>4, <1>7, <3>1 DEF HolderKeepsSession
  <2> QED BY <2>2, <2>3, <2>4, <2>5 DEF Ownership, Owned
<1> QED BY <1>6, <1>7 DEF Finish

(* The steps that only read, or touch token documents.                     *)
LEMMA ReadKeeps ==
    ASSUME Inv, Ownership, NEW w \in Worker, NEW r, Keeps(w, r), Call(w, r) \/ Becomes(w, r),
           UNCHANGED <<famVars, docSession, sesVars, hisVars>>
    PROVE  Ownership'
<1>1. Spares(w, r)
  BY DEF Spares, sesVars
<1> QED BY <1>1, KeepStep DEF famVars, sesVars, hisVars

LEMMA LookupOwned ==
    ASSUME Inv, Ownership, NEW w \in Worker
    PROVE  /\ \A t \in Token : StartRefresh(w, t) => Ownership'
           /\ Lookup(w) => Ownership'
<1> USE DEF Keeps, Unbound, Bound, Candidate, Won, Owner, Leaving, Marked, Carrying, LookupPC,
            LosePC, WonPC, RevokePC, LogoutPC
<1>0. OwnedOK(req[w]) /\ req[w] \in Request
  BY DEF Ownership, Owned, Inv, TypeOK
<1>1. ASSUME NEW t \in Token, StartRefresh(w, t) PROVE Ownership'
  <2>1. PICK r : r = [Idle EXCEPT !.pc = "gv1_fam", !.cur = t, !.seen = t \in consumed]
    OBVIOUS
  <2>2. r.pc = "gv1_fam" /\ r.cur = t
    BY <2>1 DEF Idle
  <2>3. Keeps(w, r) /\ Keeps(w, Idle)
    BY <1>1, <2>2, RaisedKeeps DEF StartRefresh
  <2>4. Becomes(w, r) \/ Becomes(w, Idle)
    BY <1>1, <2>1 DEF StartRefresh
  <2> QED BY <1>1, <2>3, <2>4, ReadKeeps DEF StartRefresh, docVars
<1>2. ASSUME NEW second \in BOOLEAN,
             \/ second /\ At(w, "gv2_tok")
             \/ At(w, IF second THEN "gv2_fam" ELSE "gv1_fam")
      PROVE  Keeps(w, Refused(w, second))
  <2>1. Keeps(w, Idle)
    BY RaisedKeeps
  <2>2. Aborting(req[w].sid).pc = "abort" /\ Aborting(req[w].sid).sid = req[w].sid
    BY DEF Aborting, Idle
  <2>3. second => Keeps(w, Aborting(req[w].sid))
    BY <1>2, <2>2 DEF At
  <2> QED BY <2>1, <2>3 DEF Refused
<1>3. ASSUME LookupToken(w) PROVE Ownership'
  <2>1. PICK r : r = [req[w] EXCEPT !.pc = "gv2_fam", !.seen = req[w].cur \in consumed]
    OBVIOUS
  <2>2. r.pc = "gv2_fam" /\ r.sid = req[w].sid /\ r.cur = req[w].cur
    BY <1>0, <2>1 DEF Request
  <2>3. At(w, "gv2_tok")
    BY <1>3 DEF LookupToken
  <2>4. Keeps(w, r)
    BY <1>0, <2>2, <2>3 DEF OwnedOK, At
  <2>5. PICK n : n = Aborting(req[w].sid)
    OBVIOUS
  <2>6. Becomes(w, r) \/ Becomes(w, n)
    BY <1>3, <2>1, <2>5 DEF LookupToken
  <2>7. Keeps(w, n)
    BY <1>2, <2>3, <2>5 DEF Refused
  <2> QED BY <1>3, <2>4, <2>6, <2>7, ReadKeeps DEF LookupToken, docVars
<1>4. ASSUME NEW second \in BOOLEAN, LookupFamily(w, second) PROVE Ownership'
  <2>1. PICK r : r = [req[w] EXCEPT !.pc = IF second THEN "insert" ELSE "renew", !.seen = FALSE]
    OBVIOUS
  <2>2. /\ r.pc = IF second THEN "insert" ELSE "renew"
        /\ r.sid = req[w].sid /\ r.cur = req[w].cur
    BY <1>0, <2>1 DEF Request
  <2>3. At(w, IF second THEN "gv2_fam" ELSE "gv1_fam")
    BY <1>4 DEF LookupFamily
  <2>4. Keeps(w, r)
    BY <1>0, <2>2, <2>3 DEF OwnedOK, At
  <2>5. PICK n : n = Refused(w, second)
    OBVIOUS
  <2>6. PICK b : b = Revoking(req[w].sid, IF second THEN "abort" ELSE "idle")
    OBVIOUS
  <2>7. b.pc = "rv_mark" /\ b.sid = req[w].sid /\ b.ret = IF second THEN "abort" ELSE "idle"
    BY <2>6 DEF Revoking, Idle
  <2>8. Keeps(w, b)
    BY <2>3, <2>7 DEF At
  <2>9. Becomes(w, r) \/ Becomes(w, n) \/ Becomes(w, b)
    <3>1. CASE active = None \/ revoked
      BY <1>4, <2>5, <3>1 DEF LookupFamily
    <3>2. CASE ~(active = None \/ revoked) /\ (req[w].seen \/ active # req[w].cur)
      BY <1>4, <2>6, <3>2 DEF LookupFamily
    <3>3. CASE ~(active = None \/ revoked) /\ ~(req[w].seen \/ active # req[w].cur)
      BY <1>4, <2>1, <2>5, <3>3 DEF LookupFamily
    <3> QED BY <3>1, <3>2, <3>3
  <2> QED BY <1>2, <1>4, <2>3, <2>4, <2>5, <2>8, <2>9, ReadKeeps DEF LookupFamily, docVars
<1> QED BY <1>1, <1>3, <1>4 DEF Lookup

(* Rotation: a loser, or the handler that aborts, deletes its own session; *)
(* the winner deletes those of superseded tokens.                          *)
LEMMA RotateOwned ==
    ASSUME Inv, Ownership, NEW w \in Worker, Rotate(w),
           ~(Renew(w) \/ InsertCandidate(w) \/ CasWins(w) \/ Finish(w))
    PROVE  Ownership'
<1> USE DEF Keeps, Unbound, Bound, Candidate, Won, Owner, Leaving, Marked, Carrying, LookupPC,
            LosePC, WonPC, RevokePC, LogoutPC, famVars, docVars, sesVars, hisVars
<1>0. OwnedOK(req[w]) /\ req[w] \in Request
  BY DEF Ownership, Owned, Inv, TypeOK
<1>1. ASSUME NEW p \in {"lose_doc", "lose_state", "lose_session"}, NEW r,
             r = [req[w] EXCEPT !.pc = p],
             req[w].pc \in {"cas"} \cup LosePC
      PROVE  Keeps(w, r)
  <2>1. r.pc = p /\ r.sid = req[w].sid /\ r.cur = req[w].cur
    BY <1>0, <1>1 DEF Request
  <2> QED BY <1>0, <1>1, <2>1 DEF OwnedOK
<1>2. PICK back : back = Revoking(req[w].sid, "abort")
  OBVIOUS
<1>3. back.pc = "rv_mark" /\ back.sid = req[w].sid /\ back.ret = "abort"
  BY <1>2 DEF Revoking, Idle
<1>4. Owner(req[w]) => Keeps(w, back)
  BY <1>3
<1>5. CASE CasLoses(w)
  <2>1. PICK r : r = [req[w] EXCEPT !.pc = "lose_doc"]
    OBVIOUS
  <2> QED BY <1>1, <1>5, <2>1, ReadKeeps DEF CasLoses, At
<1>6. CASE LoseDoc(w)
  <2>1. PICK r : r = [req[w] EXCEPT !.pc = "lose_state"]
    OBVIOUS
  <2> QED BY <1>1, <1>6, <2>1, ReadKeeps DEF LoseDoc, DeleteDocs, At
<1>7. CASE LoseState(w)
  <2>1. PICK r : r = [req[w] EXCEPT !.pc = "lose_session"]
    OBVIOUS
  <2>2. Keeps(w, r) /\ Keeps(w, back)
    BY <1>1, <1>4, <1>7, <2>1 DEF LoseState, At
  <2>3. Becomes(w, r) \/ Becomes(w, back)
    BY <1>2, <1>7, <2>1 DEF LoseState
  <2> QED BY <1>7, <2>2, <2>3, ReadKeeps DEF LoseState
<1>8. CASE LoseSession(w)
  <2>1. Keeps(w, back) /\ Owner(req[w]) /\ ~Unbound(back) /\ ~Bound(back)
    BY <1>3, <1>4, <1>8 DEF LoseSession, At
  <2>2. Spares(w, back)
    BY <1>8, <2>1 DEF Spares, LoseSession, DeleteSessions
  <2> QED BY <1>2, <1>8, <2>1, <2>2, KeepStep DEF LoseSession, DeleteSessions
<1>9. CASE Consume(w)
  <2>1. PICK r : r = [req[w] EXCEPT !.pc = IF req[w].todo = {} THEN "finish" ELSE "drop"]
    OBVIOUS
  <2>2. /\ r.pc \in {"finish", "drop"} /\ r.sid = req[w].sid /\ r.cur = req[w].cur
        /\ r.new = req[w].new /\ r.todo = req[w].todo
    BY <1>0, <2>1 DEF Request
  <2>3. Keeps(w, r)
    BY <1>0, <1>9, <2>2 DEF OwnedOK, Consume, At
  <2>4. Call(w, r) /\ UNCHANGED <<famVars, docSession, sesVars, hisVars>>
    BY <1>9, <2>1 DEF Consume
  <2> HIDE DEF Keeps
  <2> QED BY <2>3, <2>4, ReadKeeps
<1>10. CASE DropSession(w)
  <2>1. PICK s \in req[w].todo : /\ DeleteSessions({s})
                                 /\ Call(w, [req[w] EXCEPT !.pc = "pull", !.victim = s])
    BY <1>10 DEF DropSession
  <2>2. PICK r : r = [req[w] EXCEPT !.pc = "pull", !.victim = s]
    OBVIOUS
  <2>3. /\ r.pc = "pull" /\ r.sid = req[w].sid /\ r.cur = req[w].cur /\ r.victim = s
        /\ r.new = req[w].new /\ r.todo = req[w].todo
    BY <1>0, <2>2 DEF Request
  <2>4. s \in Past
    BY <1>0, <1>10, <2>1 DEF OwnedOK, DropSession, At
  <2>5. Keeps(w, r)
    BY <1>0, <1>10, <2>3, <2>4 DEF OwnedOK, DropSession, At
  <2>6. Spares(w, r)
    BY <2>1, <2>4 DEF Spares, DeleteSessions
  <2>7. Call(w, r) /\ UNCHANGED <<famVars, docSession, minted, hisVars>>
    BY <1>10, <2>1, <2>2 DEF DropSession, DeleteSessions
  <2> HIDE DEF Keeps
  <2> QED BY <2>5, <2>6, <2>7, KeepStep DEF famVars, hisVars
<1>11. CASE PullReference(w)
  <2> DEFINE left == req[w].todo \ {req[w].victim}
  <2>1. PICK r : r = [req[w] EXCEPT !.pc = IF left = {} THEN "finish" ELSE "drop",
                                    !.todo = left, !.victim = None]
    OBVIOUS
  <2>2. /\ r.pc \in {"finish", "drop"} /\ r.sid = req[w].sid /\ r.cur = req[w].cur
        /\ r.new = req[w].new /\ r.todo \subseteq req[w].todo
    BY <1>0, <2>1 DEF Request
  <2>3. Keeps(w, r)
    BY <1>0, <1>11, <2>2 DEF OwnedOK, PullReference, At
  <2>4. /\ Spares(w, r) /\ famSessions' \subseteq famSessions
        /\ UNCHANGED <<active, revoked, docSession, minted, handed, handedS, published, signedOut>>
    BY <1>11 DEF Spares, PullReference
  <2>5. famSessions \ famSessions' \subseteq Past
    BY <1>0, <1>11 DEF OwnedOK, PullReference, At
  <2>6. Call(w, r)
    BY <1>11, <2>1 DEF PullReference
  <2> HIDE DEF Keeps
  <2> QED BY <2>3, <2>4, <2>5, <2>6, KeepStep
<1>12. CASE Abort(w)
  <2>1. PICK r : r = Idle
    OBVIOUS
  <2>2. Keeps(w, r) /\ ~Unbound(r) /\ ~Bound(r)
    BY <2>1, RaisedKeeps
  <2>3. Spares(w, r)
    BY <1>12, <2>2 DEF Abort, DeleteSessions, Spares, At
  <2> QED BY <1>12, <2>1, <2>2, <2>3, KeepStep DEF Abort, DeleteSessions
<1> QED BY <1>5, <1>6, <1>7, <1>8, <1>9, <1>10, <1>11, <1>12 DEF Rotate

LEMMA RevokeOwned ==
    ASSUME Inv, Ownership, NEW w \in Worker, RevokeFamily(w)
    PROVE  Ownership'
<1> USE DEF Keeps, Unbound, Bound, Candidate, Won, Owner, Leaving, Marked, Carrying, LookupPC,
            LosePC, WonPC, RevokePC, LogoutPC, famVars, docVars, sesVars, hisVars
<1>0. OwnedOK(req[w]) /\ req[w] \in Request
  BY DEF Ownership, Owned, Inv, TypeOK
<1>1. req[w].pc \in RevokePC /\ active # None
  BY Busy DEF RevokeFamily, RevokeMark, RevokeRead, RevokeSessions, RevokeTokens, At, CreatePC
<1>2. ASSUME NEW p \in {"rv_read", "rv_sessions", "rv_tokens"}, NEW ss, NEW r,
             r = [req[w] EXCEPT !.pc = p, !.todo = ss], revoked'
      PROVE  Keeps(w, r)
  <2>1. r.pc = p /\ r.sid = req[w].sid /\ r.ret = req[w].ret
    BY <1>0, <1>2 DEF Request
  <2> QED BY <1>0, <1>1, <1>2, <2>1 DEF OwnedOK
<1>3. ASSUME RevokeMark(w) PROVE Ownership'
  <2>1. PICK r : r = [req[w] EXCEPT !.pc = "rv_read", !.todo = famSessions]
    OBVIOUS
  <2>2. revoked' /\ Spares(w, r)
    BY <1>1, <1>3 DEF RevokeMark, Spares
  <2> QED BY <1>2, <1>3, <2>1, <2>2, KeepStep DEF RevokeMark
<1>4. ASSUME RevokeRead(w) PROVE Ownership'
  <2>1. PICK r : r = [req[w] EXCEPT !.pc = "rv_sessions",
                                    !.todo = @ \cup {docSession[t] : t \in docs}]
    OBVIOUS
  <2>2. revoked'
    BY <1>0, <1>4 DEF RevokeRead, OwnedOK, At
  <2>4. PICK ss : ss = req[w].todo \cup {docSession[t] : t \in docs}
    OBVIOUS
  <2>5. r = [req[w] EXCEPT !.pc = "rv_sessions", !.todo = ss]
    BY <1>0, <2>1, <2>4 DEF Request
  <2>3. Keeps(w, r)
    BY <1>2, <2>2, <2>5
  <2>6. Becomes(w, r) /\ UNCHANGED <<famVars, docSession, sesVars, hisVars>>
    BY <1>4, <2>1 DEF RevokeRead
  <2> HIDE DEF Keeps
  <2> QED BY <2>3, <2>6, ReadKeeps
<1>5. ASSUME RevokeSessions(w) PROVE Ownership'
  <2>1. PICK r : r = [req[w] EXCEPT !.pc = "rv_tokens", !.todo = {}]
    OBVIOUS
  <2>2. revoked' /\ Spares(w, r)
    BY <1>0, <1>5 DEF RevokeSessions, OwnedOK, At, Spares
  <2>3. Keeps(w, r)
    BY <1>2, <2>1, <2>2
  <2> QED BY <1>5, <2>1, <2>2, <2>3, KeepStep DEF RevokeSessions, DeleteSessions
<1>6. ASSUME RevokeTokens(w) PROVE Ownership'
  <2>1. PICK r : r = [Idle EXCEPT !.pc = req[w].ret, !.sid = req[w].sid]
    OBVIOUS
  <2>2. /\ r.pc = req[w].ret /\ r.sid = req[w].sid
        /\ req[w].ret \in {"idle", "abort", "lo_find2", "lo_done"}
    BY <1>0, <2>1 DEF Idle, Request
  <2>3. Keeps(w, r)
    BY <1>0, <1>1, <2>2 DEF OwnedOK
  <2>4. Call(w, r) /\ UNCHANGED <<famVars, docSession, sesVars, hisVars>>
    BY <1>6, <2>1 DEF RevokeTokens, DeleteDocs
  <2> HIDE DEF Keeps
  <2> QED BY <2>3, <2>4, ReadKeeps
<1> QED BY <1>3, <1>4, <1>5, <1>6 DEF RevokeFamily

LEMMA LogoutKeeps ==
    ASSUME Inv, Ownership, NEW w \in Worker, NEW r, r.pc \in LogoutPC, r.sid = req[w].sid,
           req[w].pc \in LogoutPC, Marked(r) => revoked'
    PROVE  Keeps(w, r)
<1>1. req[w].sid \in handedS
  BY DEF Ownership, Owned, OwnedOK, Leaving
<1> QED
  BY <1>1 DEF Keeps, Unbound, Bound, Candidate, Won, Owner, Leaving, Carrying,
              LookupPC, LosePC, WonPC, RevokePC, LogoutPC

LEMMA ReadSessionOwned ==
    ASSUME Inv, Ownership, NEW w \in Worker, ReadSession(w)
    PROVE  Ownership'
<1>1. UNCHANGED <<famVars, docVars, sesVars, hisVars>>
  BY DEF ReadSession, ReadRow, ReadFamily
<1>2. PICK r \in Request :
         /\ Becomes(w, r) /\ r.pc \in LogoutPC /\ req[w].pc \in LogoutPC
         /\ r.sid = req[w].sid /\ (Marked(r) => revoked \/ Marked(req[w]))
  BY ReadStep DEF LogoutPC
<1>3. Marked(r) => revoked'
  BY <1>1, <1>2 DEF famVars, Ownership, Owned, OwnedOK
<1>4. Keeps(w, r)
  BY <1>2, <1>3, LogoutKeeps
<1> QED BY <1>1, <1>2, <1>4, ReadKeeps DEF docVars

LEMMA SignOutOwned ==
    ASSUME Inv, Ownership, NEW w \in Worker
    PROVE  /\ \A s \in Session : StartSignOut(w, s) => Ownership'
           /\ SignOut(w) => Ownership'
<1> USE DEF famVars, docVars, sesVars, hisVars
<1>0. OwnedOK(req[w]) /\ req[w] \in Request
  BY DEF Ownership, Owned, Inv, TypeOK
<1>2. ASSUME NEW s \in Session, StartSignOut(w, s) PROVE Ownership'
  <2>0. PICK p \in {"lo_fam1", "lo_done"} : p = IF s \in sessions THEN "lo_fam1" ELSE "lo_done"
    OBVIOUS
  <2>1. PICK r : r = [Idle EXCEPT !.pc = p, !.sid = s]
    OBVIOUS
  <2>2. r.pc = p /\ r.sid = s
    BY <2>1 DEF Idle
  <2>3. Keeps(w, r)
    BY <1>2, <2>2
       DEF StartSignOut, Keeps, Unbound, Bound, Candidate, Won, Owner, Leaving, Marked, Carrying,
                  LookupPC, LosePC, WonPC, RevokePC, LogoutPC
  <2> QED BY <1>2, <2>0, <2>1, <2>3, ReadKeeps DEF StartSignOut
<1>3. ASSUME ReadSession(w) PROVE Ownership'
  BY <1>3, ReadSessionOwned
<1>4. ASSUME DeleteRow(w) PROVE Ownership'
  <2>0. PICK p \in {"lo_find1", "lo_find2", "lo_done"} : p = ClosingPC(req[w].found)
    BY DEF ClosingPC
  <2>1. PICK r : r = [req[w] EXCEPT !.pc = p]
    OBVIOUS
  <2>4. r.pc = p /\ r.sid = req[w].sid
    BY <1>0, <2>1 DEF Request
  <2>5. req[w].pc \in LogoutPC /\ r.pc \in LogoutPC /\ ~Marked(r)
    BY <1>4, <2>4 DEF DeleteRow, At, LogoutPC, Marked
  <2>2. Keeps(w, r) /\ req[w].sid \in handedS
    BY <1>0, <2>4, <2>5, LogoutKeeps DEF OwnedOK, Leaving
  <2>3. Spares(w, r)
    BY <1>4, <2>2 DEF DeleteRow, DeleteSessions, Spares
  <2> QED BY <1>4, <2>0, <2>1, <2>2, <2>3, KeepStep DEF DeleteRow, DeleteSessions
<1>5. ASSUME NEW second \in BOOLEAN, FindTokens(w, second) PROVE Ownership'
  <2>0. PICK after \in {"lo_done", "lo_find2"} :
           \/ Becomes(w, [req[w] EXCEPT !.pc = after])
           \/ Becomes(w, Revoking(req[w].sid, after))
    BY <1>5 DEF FindTokens, ClosingPC
  <2>1. PICK r : r = [req[w] EXCEPT !.pc = after]
    OBVIOUS
  <2>2. PICK b : b = Revoking(req[w].sid, after)
    OBVIOUS
  <2>3. b.pc = "rv_mark" /\ b.sid = req[w].sid /\ b.ret \in {"lo_done", "lo_find2"}
    BY <2>2 DEF Revoking, Idle
  <2>4. req[w].pc \in LogoutPC /\ req[w].sid \in handedS
    BY <1>0, <1>5 DEF FindTokens, At, OwnedOK, Leaving, LogoutPC
  <2>5. Keeps(w, b)
    BY <2>3, <2>4
       DEF Keeps, Unbound, Bound, Candidate, Won, Owner, Leaving, Marked, Carrying,
                  LookupPC, LosePC, WonPC, RevokePC, LogoutPC
  <2>8. r.pc = after /\ r.sid = req[w].sid
    BY <1>0, <2>1 DEF Request
  <2>7. Keeps(w, r)
    BY <2>4, <2>8, LogoutKeeps DEF LogoutPC, Marked
  <2>6. Becomes(w, r) \/ Becomes(w, b)
    BY <2>0, <2>1, <2>2
  <2> QED BY <1>5, <2>5, <2>6, <2>7, ReadKeeps DEF FindTokens
<1>6. ASSUME SignOutAnswers(w) PROVE Ownership'
  <2>1. PICK r : r = Idle
    OBVIOUS
  <2> QED BY <1>6, <2>1, RaisedKeeps, ReadKeeps DEF SignOutAnswers
<1> QED BY <1>2, <1>3, <1>4, <1>5, <1>6 DEF SignOut

LEMMA MintsOwned ==
    ASSUME Inv, Ownership, NEW w \in Worker,
           StartSignIn(w) \/ CreateDoc(w) \/ Renew(w) \/ InsertCandidate(w)
    PROVE  Ownership'
<1> USE DEF famVars, docVars, sesVars, hisVars, Unbound, Candidate, Carrying, LookupPC, LosePC, WonPC
<1>0. OwnedOK(req[w]) /\ req[w] \in Request
  BY DEF Ownership, Owned, Inv, TypeOK
<1>1. ASSUME StartSignIn(w) PROVE Ownership'
  <2>1. PICK s \in Session : /\ InsertSession(s)
                             /\ Becomes(w, [Idle EXCEPT !.pc = "ci_doc", !.sid = s])
    BY <1>1 DEF StartSignIn
  <2>2. PICK r : r = [Idle EXCEPT !.pc = "ci_doc", !.sid = s]
    OBVIOUS
  <2>3. r.pc = "ci_doc" /\ r.sid = s
    BY <2>2 DEF Idle
  <2>4. Unbound(r) /\ r.pc \notin Carrying
    BY <2>3
  <2> QED BY <1>1, <2>1, <2>2, <2>3, <2>4, MintSessionOwned DEF StartSignIn
<1>2. ASSUME Renew(w) PROVE Ownership'
  <2>1. PICK s \in Session : /\ InsertSession(s)
                             /\ Call(w, [req[w] EXCEPT !.pc = "gv2_tok", !.sid = s])
    BY <1>2 DEF Renew
  <2>2. PICK r : r = [req[w] EXCEPT !.pc = "gv2_tok", !.sid = s]
    OBVIOUS
  <2>3. r.pc = "gv2_tok" /\ r.sid = s /\ r.cur = req[w].cur
    BY <1>0, <2>2 DEF Request
  <2>4. Unbound(r) /\ r.cur \in handed
    BY <1>0, <1>2, <2>3 DEF Renew, At, OwnedOK
  <2> QED BY <1>2, <2>1, <2>2, <2>3, <2>4, MintSessionOwned DEF Renew
<1>3. ASSUME CreateDoc(w) PROVE Ownership'
  <2>1. PICK t \in FreshToken : /\ InsertDoc(t, req[w].sid, expiry_for(clock, clock))
                                /\ Call(w, [req[w] EXCEPT !.pc = "ci_fam", !.new = t])
    BY <1>3 DEF CreateDoc
  <2>2. PICK r : r = [req[w] EXCEPT !.pc = "ci_fam", !.new = t]
    OBVIOUS
  <2>3. r.pc = "ci_fam" /\ r.sid = req[w].sid /\ r.new = t
    BY <1>0, <2>2 DEF Request
  <2>4. Unbound(req[w]) /\ Candidate(r) /\ r.pc \notin Carrying
    BY <1>3, <2>3 DEF CreateDoc, At
  <2>5. PICK e : e = expiry_for(clock, clock)
    OBVIOUS
  <2> QED BY <1>3, <2>1, <2>2, <2>3, <2>4, <2>5, BindOwned DEF CreateDoc
<1>4. ASSUME InsertCandidate(w) PROVE Ownership'
  <2>1. PICK t \in FreshToken :
            /\ InsertDoc(t, req[w].sid, expiry_for(clock, famCreated))
            /\ Call(w, [req[w] EXCEPT !.pc = "cas", !.new = t, !.stamp = clock])
    BY <1>4 DEF InsertCandidate
  <2>2. PICK r : r = [req[w] EXCEPT !.pc = "cas", !.new = t, !.stamp = clock]
    OBVIOUS
  <2>3. r.pc = "cas" /\ r.sid = req[w].sid /\ r.new = t /\ r.cur = req[w].cur
    BY <1>0, <2>2 DEF Request
  <2>4. Unbound(req[w]) /\ Candidate(r) /\ r.cur \in handed
    BY <1>0, <1>4, <2>3 DEF InsertCandidate, At, OwnedOK
  <2>5. PICK e : e = expiry_for(clock, famCreated)
    OBVIOUS
  <2> QED BY <1>4, <2>1, <2>2, <2>3, <2>4, <2>5, BindOwned DEF InsertCandidate
<1> QED BY <1>1, <1>2, <1>3, <1>4

LEMMA OwnershipNext == Inv /\ Ownership /\ [Next]_vars => Ownership'
<1> SUFFICES ASSUME Inv, Ownership, [Next]_vars PROVE Ownership'
  OBVIOUS
<1> USE DEF famVars, docVars, sesVars, hisVars
<1>1. ASSUME NEW w \in Worker, CreateUndo(w) \/ CallFails(w) \/ Crash(w) PROVE Ownership'
  <2>1. PICK n : n = Idle
    OBVIOUS
  <2>2. PICK r : r = Raised(req[w])
    OBVIOUS
  <2>3. Keeps(w, n) /\ Keeps(w, r)
    BY <2>1, <2>2, RaisedKeeps
  <2>4. Becomes(w, n) \/ Becomes(w, r)
    BY <1>1, <2>1, <2>2 DEF CreateUndo, CallFails, Crash
  <2> QED BY <1>1, <2>3, <2>4, ReadKeeps DEF CreateUndo, DeleteDocs, CallFails, Crash
<1>2. ASSUME NEW w \in Worker, Serve(w) PROVE Ownership'
  <2>1. CASE SignIn(w)
    BY <1>1, <2>1, MintsOwned, CreateFamilyOwned DEF SignIn
  <2>2. CASE Rotate(w)
    BY <2>2, MintsOwned, CasWinsOwned, FinishOwned, RotateOwned
  <2> QED BY <1>2, <2>1, <2>2, LookupOwned, RevokeOwned, SignOutOwned DEF Serve
<1>3. ASSUME NEW w \in Worker, Arrive(w) PROVE Ownership'
  BY <1>3, MintsOwned, LookupOwned, SignOutOwned DEF Arrive
<1>4. ASSUME UNCHANGED <<active, revoked, famSessions, docSession, sesVars, req, hisVars>>
      PROVE  Ownership'
  BY <1>4 DEF Ownership, Paired, Owned, OwnedOK, Apart, HolderKeepsSession, Past
<1>5. CASE Tick \/ (\E t \in Token : ExpireToken(t)) \/ UNCHANGED vars
  BY <1>4, <1>5 DEF Tick, ExpireToken, DeleteDocs, vars
<1> QED BY <1>1, <1>2, <1>3, <1>5 DEF Next
------------------------------------------------------------------------------
(* The steps of the adapter, seen as steps of the atomic family.           *)

Honoured == IF revoked THEN {} ELSE sessions \cap famSessions

(* Only the deletion of one session, or nothing, is seen of the family.    *)
LEMMA FamilyForgets ==
    ASSUME UNCHANGED <<active, revoked, published>>, NEW s \in Session,
           revoked \/ Honoured' = Honoured \/ Honoured' = Honoured \ {s}
    PROVE  [Family!Next]_(Family!vars)
<1>1. CASE revoked \/ Honoured' = Honoured
  BY <1>1 DEF Family!vars, Honoured
<1>2. CASE Honoured' = Honoured \ {s}
  <2>1. Family!Forget(s)
    BY <1>2 DEF Family!Forget, Honoured
  <2> QED BY <2>1 DEF Family!Next
<1> QED BY <1>1, <1>2

LEMMA FamilyStutters ==
    ASSUME UNCHANGED <<active, revoked, published>>, revoked \/ Honoured' = Honoured
    PROVE  [Family!Next]_(Family!vars)
BY DEF Family!vars, Honoured

LEMMA FamilyOpens ==
    ASSUME Inv, Ownership, NEW w \in Worker, CreateFamily(w)
    PROVE  [Family!Next]_(Family!vars)
<1> DEFINE new == req[w].new
           sid == req[w].sid
<1>1. /\ req[w].pc = "ci_fam" /\ active' = new /\ famSessions' = {sid}
      /\ published' = published \cup {new} /\ UNCHANGED <<revoked, sessions>>
  BY DEF CreateFamily, At, sesVars
<1>2. active = None /\ published = {} /\ ~revoked
  BY <1>1 DEF Inv, Opening
<1>3. new \in Token /\ sid \in Session /\ sid \in sessions
  BY <1>1, <1>2
     DEF Ownership, Owned, OwnedOK, Bound, Candidate, Owner, Inv, Locals, LocalOK, Shape, Bearing
<1>4. Family!Open(new, sid)
  BY <1>1, <1>2, <1>3 DEF Family!Open
<1> QED BY <1>3, <1>4 DEF Family!Next

LEMMA FamilyRotates ==
    ASSUME Inv, Ownership, NEW w \in Worker, CasWins(w)
    PROVE  [Family!Next]_(Family!vars)
<1> DEFINE new == req[w].new
           sid == req[w].sid
<1>1. /\ req[w].pc = "cas" /\ active = req[w].cur /\ active' = new
      /\ famSessions' = famSessions \cup {sid}
      /\ published' = published \cup {new} /\ ~revoked /\ UNCHANGED <<revoked, sessions>>
  BY DEF CasWins, CasMatches, SessionsWith, At, sesVars
<1>2. /\ new \in Token /\ sid \in Session /\ sid \in sessions /\ new \notin published
      /\ active \in Token /\ active # None /\ active \in published
  BY <1>1, IdsAssumption
     DEF Ownership, Owned, OwnedOK, Bound, Candidate, Owner, Inv, Chain, Locals, LocalOK, Shape,
         Bearing, Carrying
<1>3. Family!Rotate(new, sid)
  BY <1>1, <1>2 DEF Family!Rotate
<1> QED BY <1>2, <1>3 DEF Family!Next

LEMMA FamilyRevoked ==
    ASSUME Inv, Ownership, NEW w \in Worker, RevokeFamily(w)
    PROVE  [Family!Next]_(Family!vars)
<1>1. CASE RevokeMark(w)
  <2>1. /\ revoked' /\ revoked \in BOOLEAN
        /\ UNCHANGED <<active, famSessions, sessions, published>>
        /\ active # None /\ active \in published
    BY <1>1, Busy DEF RevokeMark, At, CreatePC, sesVars, hisVars, Inv, TypeOK, Chain
  <2>2. CASE revoked
    BY <2>1, <2>2, FamilyStutters
  <2>3. CASE ~revoked
    <3>1. Family!Revoke
      BY <2>1, <2>3 DEF Family!Revoke
    <3> QED BY <3>1 DEF Family!Next
  <2> QED BY <2>2, <2>3
<1>2. CASE RevokeRead(w) \/ RevokeTokens(w)
  BY <1>2, FamilyStutters DEF RevokeRead, RevokeTokens, famVars, sesVars, hisVars, Honoured
<1>3. CASE RevokeSessions(w)
  <2>1. revoked
    BY <1>3 DEF RevokeSessions, At, Ownership, Owned, OwnedOK, Marked
  <2> QED BY <1>3, <2>1, FamilyStutters DEF RevokeSessions, famVars, hisVars
<1> QED BY <1>1, <1>2, <1>3 DEF RevokeFamily

(* The deletions of a single row or reference.                             *)
LEMMA FamilyDeletes ==
    ASSUME Inv, NEW w \in Worker,
           LoseSession(w) \/ DropSession(w) \/ PullReference(w) \/ Finish(w) \/ Abort(w)
           \/ DeleteRow(w)
    PROVE  [Family!Next]_(Family!vars)
<1> USE DEF famVars, sesVars, hisVars, DeleteSessions
<1>0. LocalOK(req[w], minted)
  BY DEF Inv, Locals
<1>1. CASE LoseSession(w) \/ Abort(w) \/ DeleteRow(w)
  <2>1. PICK s : s = req[w].sid
    OBVIOUS
  <2>2. s \in Session
    BY <1>0, <1>1, <2>1 DEF LoseSession, Abort, DeleteRow, At, LocalOK, Shape, Owning, LosePC, LogoutPC
  <2>3. Honoured' = IF revoked THEN {} ELSE Honoured \ {s}
    BY <1>1, <2>1 DEF Honoured, LoseSession, Abort, DeleteRow
  <2>4. UNCHANGED <<active, revoked, published>>
    BY <1>1 DEF LoseSession, Abort, DeleteRow
  <2> QED BY <2>2, <2>3, <2>4, FamilyForgets
<1>2. CASE DropSession(w)
  <2>1. PICK s \in req[w].todo : sessions' = sessions \ {s}
    BY <1>2 DEF DropSession
  <2>2. s \in Session
    BY <1>0, <2>1 DEF LocalOK, Request
  <2>3. Honoured' = IF revoked THEN {} ELSE Honoured \ {s}
    BY <1>2, <2>1 DEF Honoured, DropSession
  <2>4. UNCHANGED <<active, revoked, published>>
    BY <1>2 DEF DropSession
  <2> QED BY <2>2, <2>3, <2>4, FamilyForgets
<1>3. CASE PullReference(w)
  <2>1. PICK s : s = req[w].victim
    OBVIOUS
  <2>2. s \in Session
    BY <1>0, <1>3, <2>1 DEF LocalOK, Shape, PullReference, At
  <2>3. Honoured' = IF revoked THEN {} ELSE Honoured \ {s}
    BY <1>3, <2>1 DEF Honoured, PullReference
  <2>4. UNCHANGED <<active, revoked, published>>
    BY <1>3 DEF PullReference
  <2> QED BY <2>2, <2>3, <2>4, FamilyForgets
<1>4. CASE Finish(w)
  <2>1. PICK s : s = docSession[req[w].cur]
    OBVIOUS
  <2>2. s \in Session
    BY <1>4, <2>1 DEF Finish, At, Won, Inv, Chain, Minted
  <2>3. Honoured' = IF revoked THEN {} ELSE Honoured \ {s}
    BY <1>4, <2>1 DEF Honoured, Finish
  <2>4. UNCHANGED <<active, revoked, published>>
    BY <1>4 DEF Finish
  <2> QED BY <2>2, <2>3, <2>4, FamilyForgets
<1> QED BY <1>1, <1>2, <1>3, <1>4

(* Every other step is invisible: a new session is not one of the family.  *)
LEMMA FamilyIgnores ==
    ASSUME Inv, UNCHANGED <<active, revoked, famSessions, published>>,
           \/ sessions' = sessions
           \/ \E s \in Session : InsertSession(s)
    PROVE  [Family!Next]_(Family!vars)
<1>1. Honoured' = Honoured
  BY DEF Honoured, InsertSession, Inv, Minted
<1> QED BY <1>1, FamilyStutters

LEMMA FamilyNext == Inv /\ Ownership /\ [Next]_vars => [Family!Next]_(Family!vars)
<1> SUFFICES ASSUME Inv, Ownership, [Next]_vars PROVE [Family!Next]_(Family!vars)
  OBVIOUS
<1> USE DEF famVars, sesVars, hisVars
<1>1. ASSUME NEW w \in Worker, SignIn(w) PROVE [Family!Next]_(Family!vars)
  <2>1. CASE CreateDoc(w) \/ CreateUndo(w)
    BY <2>1, FamilyIgnores DEF CreateDoc, CreateUndo
  <2> QED BY <1>1, <2>1, FamilyOpens DEF SignIn
<1>2. ASSUME NEW w \in Worker, Lookup(w) PROVE [Family!Next]_(Family!vars)
  BY <1>2, FamilyIgnores DEF Lookup, LookupToken, LookupFamily
<1>3. ASSUME NEW w \in Worker, Rotate(w) PROVE [Family!Next]_(Family!vars)
  <2>1. CASE Renew(w) \/ InsertCandidate(w) \/ CasLoses(w) \/ LoseDoc(w) \/ LoseState(w) \/ Consume(w)
    BY <2>1, FamilyIgnores DEF Renew, InsertCandidate, CasLoses, LoseDoc, LoseState, Consume
  <2> QED BY <1>3, <2>1, FamilyRotates, FamilyDeletes DEF Rotate
<1>4. ASSUME NEW w \in Worker, SignOut(w) PROVE [Family!Next]_(Family!vars)
  <2>1. CASE SignOutAnswers(w) \/ ReadSession(w)
             \/ (\E second \in BOOLEAN : FindTokens(w, second))
    BY <2>1, FamilyIgnores DEF SignOutAnswers, ReadSession, ReadRow, ReadFamily, FindTokens
  <2> QED BY <1>4, <2>1, FamilyDeletes DEF SignOut
<1>5. ASSUME NEW w \in Worker, Arrive(w) \/ CallFails(w) \/ Crash(w)
      PROVE  [Family!Next]_(Family!vars)
  BY <1>5, FamilyIgnores
     DEF Arrive, StartSignIn, StartRefresh, StartSignOut, CallFails, Crash
<1>6. CASE Tick \/ (\E t \in Token : ExpireToken(t)) \/ UNCHANGED vars
  BY <1>6, FamilyIgnores DEF Tick, ExpireToken, vars
<1> QED BY <1>1, <1>2, <1>3, <1>4, <1>5, <1>6, FamilyRevoked DEF Next, Serve

LEMMA FamilyInit == Init => Family!Init
BY DEF Init, Family!Init

------------------------------------------------------------------------------
(* Sign-out, when calls do not fail.  Whoever deletes the row of a session *)
(* stays at work until the family is closed, or has looked and found no    *)
(* token of that session; so another sign-out that no longer finds the row *)
(* may answer.                                                             *)

Ended(s) == active \in docs /\ docSession[active] = s => revoked

Closing(r, s) ==
    /\ r.sid = s
    /\ \/ r.pc \in {"lo_find1", "lo_find2"}
       \/ r.pc \in RevokePC /\ r.ret \in {"lo_find2", "lo_done"}

Covered(s) == Ended(s) \/ \E v \in Worker : Closing(req[v], s)

Signing ==
    /\ signedOut \subseteq handedS
    /\ handedS \subseteq {docSession[t] : t \in handed}
    /\ \A s \in signedOut : Covered(s)
    /\ \A w \in Worker : At(w, "lo_done") => Covered(req[w].sid)

(* A step either leaves the active token as it is, at most deleting its    *)
(* document or closing the family, or makes another one active whose       *)
(* session nobody has yet.                                                 *)
LEMMA ActiveSteps ==
    ASSUME Inv, Ownership, [Next]_vars
    PROVE  \/ /\ active' = active /\ (revoked => revoked')
              /\ active \in docs' => active \in docs /\ docSession'[active] = docSession[active]
           \/ handedS = {}
           \/ docSession'[active'] \notin handedS
<1> USE DEF famVars, docVars, sesVars, hisVars
<1>0. active \in docs => active \in published /\ active # None
  BY IdsAssumption DEF Inv, TypeOK, Chain
<1>1. ASSUME NEW t \in FreshToken, NEW s, NEW e, InsertDoc(t, s, e)
      PROVE  active \in docs' /\ active # None =>
                active \in docs /\ docSession'[active] = docSession[active]
  <2>1. t \notin published
    BY <1>1, IdsAssumption DEF FreshToken, Inv, Minted
  <2> QED BY <1>1, <2>1 DEF InsertDoc, Inv, TypeOK, Chain
<1>2. active = None => handedS = {}
  BY DEF Inv, Opening
<1>3. ASSUME NEW w \in Worker, SignIn(w)
      PROVE  \/ handedS = {}
             \/ UNCHANGED <<active, revoked, docSession>> /\ docs' \subseteq docs
  <2>1. CASE CreateDoc(w) \/ CreateFamily(w)
    <3>1. At(w, "ci_doc") \/ At(w, "ci_fam")
      BY <2>1 DEF CreateDoc, CreateFamily
    <3>2. active = None
      BY <3>1 DEF At, Inv, Opening
    <3>3. handedS = {}
      BY <1>2, <3>2
    <3> QED BY <3>3
  <2>2. CASE CreateUndo(w)
    BY <2>2 DEF CreateUndo, DeleteDocs
  <2> QED BY <1>3, <2>1, <2>2 DEF SignIn
<1>4. ASSUME NEW w \in Worker, InsertCandidate(w)
      PROVE  \/ handedS = {}
             \/ /\ UNCHANGED <<active, revoked>>
                /\ active \in docs' => active \in docs /\ docSession'[active] = docSession[active]
  <2>1. PICK t \in FreshToken : InsertDoc(t, req[w].sid, expiry_for(clock, famCreated))
    BY <1>4 DEF InsertCandidate
  <2>2. PICK s, e : InsertDoc(t, s, e)
    BY <2>1
  <2> QED BY <1>1, <1>2, <1>4, <2>2 DEF InsertCandidate
<1>5. ASSUME NEW w \in Worker, CasWins(w) PROVE docSession'[active'] \notin handedS
  <2>1. /\ req[w].pc = "cas" /\ active' = req[w].new /\ UNCHANGED docSession
    BY <1>5 DEF CasWins, At
  <2> QED BY <2>1 DEF Ownership, Owned, OwnedOK, Bound, Candidate, Owner
<1>6. ASSUME NEW w \in Worker, Rotate(w), ~InsertCandidate(w), ~CasWins(w)
      PROVE  UNCHANGED <<active, revoked, docSession>> /\ docs' \subseteq docs
  BY <1>6 DEF Rotate, Renew, CasLoses, LoseDoc, LoseState, LoseSession, Consume, DropSession,
              PullReference, Finish, Abort, DeleteDocs
<1>7. ASSUME NEW w \in Worker, RevokeFamily(w)
      PROVE  UNCHANGED <<active, docSession>> /\ docs' \subseteq docs /\ (revoked => revoked')
  <2>1. CASE RevokeMark(w)
    BY <2>1 DEF RevokeMark
  <2>2. CASE RevokeRead(w) \/ RevokeSessions(w) \/ RevokeTokens(w)
    BY <2>2 DEF RevokeRead, RevokeSessions, RevokeTokens, DeleteDocs
  <2> QED BY <1>7, <2>1, <2>2 DEF RevokeFamily
<1>8. ASSUME NEW w \in Worker,
             Lookup(w) \/ SignOut(w) \/ Arrive(w) \/ CallFails(w) \/ Crash(w)
      PROVE  UNCHANGED <<active, revoked, docSession, docs>>
  BY <1>8 DEF Lookup, LookupToken, LookupFamily, SignOut, ReadSession, ReadRow, ReadFamily, DeleteRow,
              FindTokens, SignOutAnswers, Arrive, StartSignIn, StartRefresh, StartSignOut, CallFails, Crash
<1>9. CASE Tick \/ (\E t \in Token : ExpireToken(t)) \/ UNCHANGED vars
  BY <1>9 DEF Tick, ExpireToken, DeleteDocs, vars
<1> QED BY <1>3, <1>4, <1>5, <1>6, <1>7, <1>8, <1>9 DEF Next, Serve

LEMMA EndedStays ==
    ASSUME Inv, Ownership, [Next]_vars, NEW s \in handedS, Ended(s)
    PROVE  Ended(s)'
BY ActiveSteps DEF Ended

(* A step changes one request.                                             *)
LEMMA OneRequest ==
    ASSUME Inv, ~Faulty, [Next]_vars
    PROVE  \/ UNCHANGED req
           \/ \E w \in Worker : /\ Serve(w) \/ Arrive(w)
                                /\ \A v \in Worker \ {w} : req'[v] = req[v]
<1>1. \A w \in Worker : \A r : Becomes(w, r) => \A v \in Worker \ {w} : req'[v] = req[v]
  BY DEF Becomes, Inv, TypeOK
<1>2. \A w \in Worker : \A r : Call(w, r) => \A v \in Worker \ {w} : req'[v] = req[v]
  BY <1>1 DEF Call
<1>3. ASSUME NEW w \in Worker, Serve(w) \/ Arrive(w)
      PROVE  \A v \in Worker \ {w} : req'[v] = req[v]
  <2>1. CASE SignIn(w)
    BY <1>1, <1>2, <2>1 DEF SignIn, CreateDoc, CreateFamily, CreateUndo
  <2>2. CASE Lookup(w)
    BY <1>1, <1>2, <2>2 DEF Lookup, LookupToken, LookupFamily
  <2>3. CASE Rotate(w)
    BY <1>1, <1>2, <2>3 DEF Rotate, Renew, InsertCandidate, CasWins, CasLoses, LoseDoc, LoseState,
          LoseSession, Consume, DropSession, PullReference, Finish, Abort
  <2>4. CASE RevokeFamily(w)
    BY <1>1, <1>2, <2>4 DEF RevokeFamily, RevokeMark, RevokeRead, RevokeSessions, RevokeTokens
  <2>5. CASE SignOut(w)
    BY <1>1, <1>2, <2>5
       DEF SignOut, ReadSession, ReadRow, ReadFamily, DeleteRow, FindTokens, SignOutAnswers
  <2>6. CASE Arrive(w)
    BY <1>1, <1>2, <2>6 DEF Arrive, StartSignIn, StartRefresh, StartSignOut
  <2> QED BY <1>3, <2>1, <2>2, <2>3, <2>4, <2>5, <2>6 DEF Serve
<1>4. CASE Tick \/ (\E t \in Token : ExpireToken(t)) \/ UNCHANGED vars
  BY <1>4 DEF Tick, ExpireToken, vars
<1> QED BY <1>3, <1>4 DEF Next, CallFails, Crash

(* The control points of each group of steps.                              *)
LEMMA Stepping ==
    ASSUME NEW w \in Worker
    PROVE  /\ SignIn(w) => req[w].pc \in {"ci_doc", "ci_fam", "ci_undo"}
           /\ Lookup(w) => req[w].pc \in {"gv1_fam", "gv2_tok", "gv2_fam"}
           /\ Rotate(w) => req[w].pc \in {"renew", "insert", "cas", "finish", "abort", "lose_doc",
                                          "lose_state", "lose_session", "consume", "drop", "pull"}
           /\ RevokeFamily(w) => req[w].pc \in {"rv_mark", "rv_read", "rv_sessions", "rv_tokens"}
           /\ SignOut(w) => req[w].pc \in LogoutPC
           /\ ReadSession(w) =>
                 req[w].pc \in {"lo_fam1", "lo_row2", "lo_fam2", "lo_row3", "lo_fam3"}
           /\ Arrive(w) => req[w].pc = "idle"
<1>1. SignIn(w) => req[w].pc \in {"ci_doc", "ci_fam", "ci_undo"}
  BY DEF SignIn, CreateDoc, CreateFamily, CreateUndo, At
<1>2. Lookup(w) => req[w].pc \in {"gv1_fam", "gv2_tok", "gv2_fam"}
  BY DEF Lookup, LookupToken, LookupFamily, At
<1>3. Renew(w) \/ InsertCandidate(w) \/ CasWins(w) \/ CasLoses(w) =>
        req[w].pc \in {"renew", "insert", "cas"}
  BY DEF Renew, InsertCandidate, CasWins, CasLoses, At
<1>4. LoseDoc(w) \/ LoseState(w) \/ LoseSession(w) \/ Abort(w) =>
        req[w].pc \in {"abort", "lose_doc", "lose_state", "lose_session"}
  BY DEF LoseDoc, LoseState, LoseSession, Abort, At
<1>5. Consume(w) \/ DropSession(w) \/ PullReference(w) \/ Finish(w) =>
        req[w].pc \in {"finish", "consume", "drop", "pull"}
  BY DEF Consume, DropSession, PullReference, Finish, At
<1>6. RevokeFamily(w) => req[w].pc \in {"rv_mark", "rv_read", "rv_sessions", "rv_tokens"}
  BY DEF RevokeFamily, RevokeMark, RevokeRead, RevokeSessions, RevokeTokens, At
<1>7. ReadSession(w) => req[w].pc \in {"lo_fam1", "lo_row2", "lo_fam2", "lo_row3", "lo_fam3"}
  <2>1. ASSUME NEW n \in 1..2, ReadRow(w, n) PROVE req[w].pc \in {"lo_row2", "lo_row3"}
    <3>1. n = 1 \/ n = 2
      OBVIOUS
    <3> QED BY <2>1, <3>1 DEF ReadRow, NextRow, At
  <2>2. ASSUME NEW n \in 1..3, ReadFamily(w, n) PROVE req[w].pc \in {"lo_fam1", "lo_fam2", "lo_fam3"}
    <3>1. n = 1 \/ n = 2 \/ n = 3
      OBVIOUS
    <3> QED BY <2>2, <3>1 DEF ReadFamily, FamPC, At
  <2> QED BY <2>1, <2>2 DEF ReadSession
<1>8. DeleteRow(w) \/ SignOutAnswers(w) \/ (\E second \in BOOLEAN : FindTokens(w, second)) =>
        req[w].pc \in {"lo_delete", "lo_find1", "lo_find2", "lo_done"}
  BY DEF DeleteRow, SignOutAnswers, FindTokens, At
<1>9. Arrive(w) => req[w].pc = "idle"
  BY DEF Arrive, StartSignIn, StartRefresh, StartSignOut, At
<1>10. Rotate(w) => req[w].pc \in {"renew", "insert", "cas", "finish", "abort", "lose_doc",
                                   "lose_state", "lose_session", "consume", "drop", "pull"}
  BY <1>3, <1>4, <1>5 DEF Rotate
<1>11. SignOut(w) => req[w].pc \in LogoutPC
  BY <1>7, <1>8 DEF SignOut, LogoutPC
<1> QED BY <1>1, <1>2, <1>6, <1>7, <1>9, <1>10, <1>11

(* The steps of a sign-out that has deleted the row.                       *)
LEMMA ClosingStep ==
    ASSUME Inv, Ownership, ~Faulty, NEW v \in Worker, NEW s \in handedS, Closing(req[v], s),
           Serve(v) \/ Arrive(v)
    PROVE  Covered(s)'
<1> USE DEF famVars, docVars, sesVars, hisVars
<1>0. req[v] \in Request /\ req \in [Worker -> Request] /\ OwnedOK(req[v])
  BY DEF Inv, TypeOK, Ownership, Owned
<1>1. ASSUME NEW q, req' = [req EXCEPT ![v] = q], Closing(q, s) PROVE Covered(s)'
  <2>1. req'[v] = q
    BY <1>0, <1>1
  <2> QED BY <1>1, <2>1 DEF Covered
<1>2. CASE req[v].pc \in {"lo_find1", "lo_find2"}
  <2>1. PICK second \in BOOLEAN : FindTokens(v, second)
    BY <1>2, Stepping DEF Serve, SignOut, DeleteRow, SignOutAnswers, At
  <2>2. PICK after \in {"lo_done", "lo_find2"} :
           after = ClosingPC(IF second THEN {} ELSE req[v].found \ {2})
    BY DEF ClosingPC
  <2>3. CASE \E t \in docs : docSession[t] = s
    <3>1. PICK q : q = Revoking(s, after)
      OBVIOUS
    <3>2. q.pc = "rv_mark" /\ q.sid = s /\ q.ret = after
      BY <3>1 DEF Revoking, Idle
    <3>3. req' = [req EXCEPT ![v] = q]
      BY <2>1, <2>2, <2>3, <3>1, <3>2 DEF FindTokens, Becomes, Closing
    <3> QED BY <1>1, <2>2, <3>2, <3>3 DEF Closing, RevokePC
  <2>4. CASE ~ \E t \in docs : docSession[t] = s
    <3>1. UNCHANGED <<active, docs, docSession>>
      BY <2>1 DEF FindTokens
    <3> QED BY <2>4, <3>1 DEF Covered, Ended
  <2> QED BY <2>3, <2>4
<1>3. CASE req[v].pc \in RevokePC /\ req[v].ret \in {"lo_find2", "lo_done"}
  <2>1. RevokeFamily(v)
    BY <1>3, Stepping DEF Serve, RevokePC, LogoutPC
  <2>2. revoked'
    <3>1. active # None
      BY <1>3, Busy DEF At, RevokePC, CreatePC
    <3>2. CASE RevokeMark(v)
      BY <3>1, <3>2 DEF RevokeMark
    <3>3. CASE RevokeRead(v) \/ RevokeSessions(v) \/ RevokeTokens(v)
      BY <1>0, <3>3 DEF RevokeRead, RevokeSessions, RevokeTokens, At, OwnedOK, Marked
    <3> QED BY <2>1, <3>2, <3>3 DEF RevokeFamily
  <2> QED BY <2>2 DEF Covered, Ended
<1> QED BY <1>2, <1>3 DEF Closing

LEMMA CoveredStays ==
    ASSUME Inv, Ownership, ~Faulty, [Next]_vars, NEW s \in handedS, Covered(s)
    PROVE  Covered(s)'
<1>1. CASE Ended(s)
  BY <1>1, EndedStays DEF Covered
<1>2. CASE UNCHANGED req /\ ~Ended(s)
  BY <1>2 DEF Covered
<1>3. ASSUME NEW w \in Worker, Serve(w) \/ Arrive(w), \A v \in Worker \ {w} : req'[v] = req[v],
             NEW u \in Worker, Closing(req[u], s)
      PROVE  Covered(s)'
  <2>1. CASE u = w
    BY <1>3, <2>1, ClosingStep
  <2>2. CASE u # w
    BY <1>3, <2>2 DEF Covered
  <2> QED BY <2>1, <2>2
<1> QED BY <1>1, <1>2, <1>3, OneRequest DEF Covered

(* A session that clients hold and whose row is gone has been signed out,  *)
(* or is not that of the token still active.                               *)
LEMMA GoneCovered ==
    ASSUME Inv, Ownership, Signing, NEW s \in handedS, s \notin sessions
    PROVE  Covered(s)
<1>1. CASE revoked
  BY <1>1 DEF Covered, Ended
<1>2. CASE ~revoked
  <2>1. PICK t \in handed : docSession[t] = s
    BY DEF Signing
  <2>2. ASSUME active \in docs, docSession[active] = s PROVE s \in signedOut
    <3>1. active = t
      BY <2>1, <2>2, IdsAssumption DEF Ownership, Paired, Inv, TypeOK
    <3> QED BY <1>2, <2>1, <2>2, <3>1 DEF Ownership, HolderKeepsSession
  <2> QED BY <2>2 DEF Signing, Covered, Ended
<1> QED BY <1>1, <1>2

(* How a request gets to answer success.                                   *)
LEMMA AnswersCovered ==
    ASSUME Inv, Ownership, Signing, ~Faulty, NEW w \in Worker, Serve(w) \/ Arrive(w),
           At(w, "lo_done")'
    PROVE  req[w].pc # "lo_done" => \E s : req'[w].sid = s /\ Covered(s)'
<1> USE DEF famVars, docVars, sesVars, hisVars
<1>0. req[w] \in Request /\ req \in [Worker -> Request] /\ OwnedOK(req[w])
  BY DEF Inv, TypeOK, Ownership, Owned
<1>a. \A r : Call(w, r) => Becomes(w, r)
  BY DEF Call
<1>b. \A r : Becomes(w, r) => req'[w].pc = r.pc /\ (r.pc # "idle" => req'[w] = r)
  BY <1>0 DEF Becomes, Idle
<1>c. \A s, r : Aborting(s).pc = "abort" /\ Revoking(s, r).pc = "rv_mark" /\ Idle.pc = "idle"
  BY DEF Aborting, Revoking, Idle
<1>1. CASE SignIn(w) \/ Lookup(w) \/ Rotate(w) \/ StartSignIn(w) \/ \E t \in Token : StartRefresh(w, t)
  <2>1. req'[w].pc # "lo_done"
    <3>1. CASE SignIn(w)
      <4>1. \A t : [req[w] EXCEPT !.pc = "ci_fam", !.new = t].pc = "ci_fam"
        BY <1>0 DEF Request
      <4> QED BY <1>a, <1>b, <1>c, <3>1, <4>1 DEF SignIn, CreateDoc, CreateFamily, CreateUndo
    <3>2. CASE Lookup(w)
      <4>1. CASE LookupToken(w)
        <5>1. PICK r : r = [req[w] EXCEPT !.pc = "gv2_fam", !.seen = req[w].cur \in consumed]
          OBVIOUS
        <5>2. r.pc # "lo_done"
          BY <1>0, <5>1 DEF Request
        <5>3. Becomes(w, r) \/ Becomes(w, Aborting(req[w].sid))
          BY <4>1, <5>1 DEF LookupToken
        <5> QED BY <1>b, <1>c, <5>2, <5>3
      <4>4. ASSUME NEW second \in BOOLEAN, LookupFamily(w, second) PROVE req'[w].pc # "lo_done"
        <5>0. Refused(w, second).pc # "lo_done"
          BY <1>c DEF Refused
        <5>1. PICK r : r = [req[w] EXCEPT !.pc = IF second THEN "insert" ELSE "renew", !.seen = FALSE]
          OBVIOUS
        <5>2. r.pc # "lo_done"
          BY <1>0, <5>1 DEF Request
        <5>3. PICK b : b = Revoking(req[w].sid, IF second THEN "abort" ELSE "idle")
          OBVIOUS
        <5>4. b.pc # "lo_done"
          BY <1>c, <5>3
        <5>5. Becomes(w, r) \/ Becomes(w, Refused(w, second)) \/ Becomes(w, b)
          <6>1. CASE active = None \/ revoked
            BY <4>4, <6>1 DEF LookupFamily
          <6>2. CASE ~(active = None \/ revoked) /\ (req[w].seen \/ active # req[w].cur)
            BY <4>4, <5>3, <6>2 DEF LookupFamily
          <6>3. CASE ~(active = None \/ revoked) /\ ~(req[w].seen \/ active # req[w].cur)
            BY <4>4, <5>1, <6>3 DEF LookupFamily
          <6> QED BY <6>1, <6>2, <6>3
        <5> QED BY <1>b, <5>0, <5>2, <5>4, <5>5
      <4> QED BY <3>2, <4>1, <4>4 DEF Lookup
    <3>3. CASE StartSignIn(w) \/ \E t \in Token : StartRefresh(w, t)
      <4>1. PICK s, t, b : \/ Becomes(w, [Idle EXCEPT !.pc = "ci_doc", !.sid = s])
                           \/ Becomes(w, [Idle EXCEPT !.pc = "gv1_fam", !.cur = t, !.seen = b])
                           \/ Becomes(w, Idle)
        BY <3>3 DEF StartSignIn, StartRefresh
      <4>2. /\ [Idle EXCEPT !.pc = "ci_doc", !.sid = s].pc = "ci_doc"
            /\ [Idle EXCEPT !.pc = "gv1_fam", !.cur = t, !.seen = b].pc = "gv1_fam"
        BY DEF Idle
      <4> QED BY <1>b, <1>c, <4>1, <4>2
    <3>4. CASE Rotate(w)
      <4>1. CASE Renew(w) \/ InsertCandidate(w)
        <5>1. PICK s, t, k : \/ Becomes(w, [req[w] EXCEPT !.pc = "gv2_tok", !.sid = s])
                             \/ Becomes(w, [req[w] EXCEPT !.pc = "cas", !.new = t, !.stamp = k])
          BY <1>a, <4>1 DEF Renew, InsertCandidate
        <5>2. /\ [req[w] EXCEPT !.pc = "gv2_tok", !.sid = s].pc = "gv2_tok"
              /\ [req[w] EXCEPT !.pc = "cas", !.new = t, !.stamp = k].pc = "cas"
          BY <1>0 DEF Request
        <5> QED BY <1>b, <5>1, <5>2
      <4>2. CASE CasLoses(w) \/ LoseDoc(w) \/ LoseState(w) \/ LoseSession(w) \/ Finish(w) \/ Abort(w)
        <5>1. PICK p \in {"lose_doc", "lose_state", "lose_session"} :
                 \/ Becomes(w, [req[w] EXCEPT !.pc = p])
                 \/ Becomes(w, Revoking(req[w].sid, "abort"))
                 \/ Becomes(w, Raised(req[w])) \/ Becomes(w, Idle)
          BY <1>a, <4>2 DEF CasLoses, LoseDoc, LoseState, LoseSession, Finish, Abort
        <5>2. [req[w] EXCEPT !.pc = p].pc = p
          BY <1>0 DEF Request
        <5>3. Raised(req[w]).pc # "lo_done"
          BY RaisedOK DEF Inv, Locals
        <5>4. PICK q : /\ Becomes(w, q)
                       /\ \/ q = [req[w] EXCEPT !.pc = p]
                          \/ q = Revoking(req[w].sid, "abort")
                          \/ q = Raised(req[w]) \/ q = Idle
          BY <5>1
        <5>5. q.pc # "lo_done"
          BY <1>c, <5>2, <5>3, <5>4
        <5> QED BY <1>b, <5>4, <5>5
      <4>3. CASE CasWins(w) \/ Consume(w) \/ DropSession(w) \/ PullReference(w)
        <5>0. PICK p \in {"consume", "finish", "drop", "pull"} : \E ss, s :
                 \/ Becomes(w, [req[w] EXCEPT !.pc = p, !.todo = ss])
                 \/ Becomes(w, [req[w] EXCEPT !.pc = p])
                 \/ Becomes(w, [req[w] EXCEPT !.pc = p, !.victim = s])
                 \/ Becomes(w, [req[w] EXCEPT !.pc = p, !.todo = ss, !.victim = None])
          BY <1>a, <4>3 DEF CasWins, Consume, DropSession, PullReference
        <5>1. PICK ss, s :
                 \/ Becomes(w, [req[w] EXCEPT !.pc = p, !.todo = ss])
                 \/ Becomes(w, [req[w] EXCEPT !.pc = p])
                 \/ Becomes(w, [req[w] EXCEPT !.pc = p, !.victim = s])
                 \/ Becomes(w, [req[w] EXCEPT !.pc = p, !.todo = ss, !.victim = None])
          BY <5>0
        <5>2. /\ [req[w] EXCEPT !.pc = p, !.todo = ss].pc = p
              /\ [req[w] EXCEPT !.pc = p].pc = p
              /\ [req[w] EXCEPT !.pc = p, !.victim = s].pc = p
              /\ [req[w] EXCEPT !.pc = p, !.todo = ss, !.victim = None].pc = p
          BY <1>0 DEF Request
        <5> QED BY <1>b, <5>1, <5>2
      <4> QED BY <3>4, <4>1, <4>2, <4>3 DEF Rotate
    <3> QED BY <1>1, <3>1, <3>2, <3>3, <3>4
  <2> QED BY <2>1 DEF At
<1>2. CASE RevokeFamily(w)
  <2>2. RevokeTokens(w)
    <3>1. CASE RevokeMark(w) \/ RevokeRead(w) \/ RevokeSessions(w)
      <4>0. PICK p \in {"rv_read", "rv_sessions", "rv_tokens"} :
               \E ss : Becomes(w, [req[w] EXCEPT !.pc = p, !.todo = ss])
        BY <1>a, <3>1 DEF RevokeMark, RevokeRead, RevokeSessions
      <4>1. PICK ss : Becomes(w, [req[w] EXCEPT !.pc = p, !.todo = ss])
        BY <4>0
      <4>2. [req[w] EXCEPT !.pc = p, !.todo = ss].pc = p
        BY <1>0 DEF Request
      <4> QED BY <1>b, <4>1, <4>2 DEF At
    <3> QED BY <1>2, <3>1 DEF RevokeFamily
  <2>3. PICK r : r = [Idle EXCEPT !.pc = req[w].ret, !.sid = req[w].sid]
    OBVIOUS
  <2>4. r.sid = req[w].sid
    BY <2>3 DEF Idle
  <2>5. Becomes(w, r)
    BY <1>a, <2>2, <2>3 DEF RevokeTokens
  <2>6. req'[w] = r
    BY <1>b, <2>5 DEF At
  <2>7. revoked'
    BY <1>0, <2>2 DEF RevokeTokens, At, OwnedOK, Marked
  <2> QED BY <2>4, <2>6, <2>7 DEF Covered, Ended
<1>3. ASSUME ReadSession(w)
      PROVE  req'[w].sid = req[w].sid /\ Covered(req[w].sid)'
  <2>1. PICK r \in Request :
           /\ Becomes(w, r) /\ r.sid = req[w].sid
           /\ req[w].pc \in {"lo_fam1", "lo_row2", "lo_fam2", "lo_row3", "lo_fam3"}
           /\ r.pc = "lo_done" => revoked \/ req[w].sid \notin sessions
    BY <1>3, ReadStep
  <2>2. r.pc = "lo_done" /\ req'[w] = r
    <3>1. req'[w] = IF r.pc = "idle" THEN Idle ELSE r
      BY <1>0, <2>1 DEF Becomes
    <3> QED BY <1>c, <3>1 DEF At
  <2>3. req[w].sid \in handedS
    BY <1>0, <2>1 DEF OwnedOK, Leaving, LogoutPC
  <2>4. UNCHANGED <<famVars, docVars, sesVars, hisVars>>
    BY <1>3 DEF ReadSession, ReadRow, ReadFamily
  <2>5. Covered(req[w].sid)
    BY <2>1, <2>2, <2>3, GoneCovered DEF Covered, Ended
  <2>6. \A v \in Worker : Closing(req[v], req[w].sid) => Closing(req'[v], req[w].sid)
    <3>1. ~Closing(req[w], req[w].sid)
      BY <2>1 DEF Closing, RevokePC
    <3>2. \A v \in Worker \ {w} : req'[v] = req[v]
      BY <1>0, <2>1 DEF Becomes
    <3> QED BY <3>1, <3>2
  <2> QED BY <2>1, <2>2, <2>4, <2>5, <2>6 DEF Covered, Ended
<1>4. ASSUME NEW second \in BOOLEAN, FindTokens(w, second)
      PROVE  req'[w].sid = req[w].sid /\ Covered(req[w].sid)'
  <2>0. PICK after : after = ClosingPC(IF second THEN {} ELSE req[w].found \ {2})
    OBVIOUS
  <2>1. PICK r : r = [req[w] EXCEPT !.pc = after]
    OBVIOUS
  <2>2. r.sid = req[w].sid
    BY <1>0, <2>1 DEF Request
  <2>3. ~ \E t \in docs : docSession[t] = req[w].sid
    BY <1>4, <1>b, <1>c DEF FindTokens, At
  <2>4. req'[w] = r
    BY <1>4, <1>b, <2>0, <2>1, <2>3 DEF FindTokens, At
  <2> QED BY <1>4, <2>2, <2>3, <2>4 DEF FindTokens, Covered, Ended
<1>5. ASSUME DeleteRow(w)
      PROVE  req'[w].sid = req[w].sid /\ Covered(req[w].sid)'
  <2>1. PICK p : p = ClosingPC(req[w].found)
    OBVIOUS
  <2>2. PICK r : r = [req[w] EXCEPT !.pc = p]
    OBVIOUS
  <2>3. r.pc = p /\ r.sid = req[w].sid
    BY <1>0, <2>2 DEF Request
  <2>4. Becomes(w, r)
    BY <1>5, <1>a, <2>1, <2>2 DEF DeleteRow
  <2>5. p = "lo_done" /\ req'[w] = r
    BY <1>b, <2>3, <2>4 DEF At
  <2>6. 2 \notin req[w].found /\ req[w].pc = "lo_delete"
    BY <1>5, <2>1, <2>5 DEF ClosingPC, DeleteRow, At
  <2>7. revoked /\ revoked' = revoked
    BY <1>0, <1>5, <2>6 DEF DeleteRow, OwnedOK, Marked
  <2> QED BY <2>3, <2>5, <2>7 DEF Covered, Ended
<1>6. CASE SignOutAnswers(w)
  BY <1>6 DEF SignOutAnswers, At
<1>7. ASSUME NEW s \in Session, StartSignOut(w, s)
      PROVE  req'[w].sid = s /\ Covered(s)'
  <2>1. PICK p : p = IF s \in sessions THEN "lo_fam1" ELSE "lo_done"
    OBVIOUS
  <2>2. PICK r : r = [Idle EXCEPT !.pc = p, !.sid = s]
    OBVIOUS
  <2>3. r.pc = p /\ r.sid = s
    BY <2>2 DEF Idle
  <2>4. Becomes(w, r) /\ s \in handedS /\ At(w, "idle")
    BY <1>7, <2>1, <2>2 DEF StartSignOut
  <2>5. req'[w] = r /\ s \notin sessions
    BY <1>b, <2>1, <2>3, <2>4 DEF At
  <2>6. Covered(s)
    BY <2>4, <2>5, GoneCovered
  <2>7. \A v \in Worker : Closing(req[v], s) => Closing(req'[v], s)
    <3>1. ~Closing(req[w], s)
      BY <2>4 DEF Closing, RevokePC, At
    <3>2. \A v \in Worker \ {w} : req'[v] = req[v]
      BY <1>0, <2>4 DEF Becomes
    <3> QED BY <3>1, <3>2
  <2>8. UNCHANGED <<famVars, docVars, sesVars, hisVars>>
    BY <1>7 DEF StartSignOut
  <2> QED BY <2>3, <2>5, <2>6, <2>7, <2>8 DEF Covered, Ended
<1> QED BY <1>1, <1>2, <1>3, <1>4, <1>5, <1>6, <1>7 DEF Serve, SignOut, Arrive

LEMMA SigningInit == Init => Signing
BY DEF Init, Signing, At, Idle

(* What a step adds to what clients hold, and to what was signed out.      *)
LEMMA HandedSteps ==
    ASSUME Inv, Ownership, [Next]_vars
    PROVE  /\ handedS \subseteq handedS'
           /\ \A t \in handed : t \in handed' /\ docSession'[t] = docSession[t]
           /\ \A s \in handedS' \ handedS : \E t \in handed' : docSession'[t] = s
           /\ \A s \in signedOut' \ signedOut : \E w \in Worker : DeleteRow(w) /\ s = req[w].sid
<1> USE DEF famVars, docVars, sesVars, hisVars
<1> DEFINE Kept == /\ UNCHANGED <<handed, handedS, signedOut>>
                   /\ \A t \in handed : docSession'[t] = docSession[t]
<1>1. ASSUME NEW t \in FreshToken, NEW s, NEW e, InsertDoc(t, s, e)
      PROVE  \A u \in handed : docSession'[u] = docSession[u]
  <2>1. t \notin handed
    BY <1>1, IdsAssumption DEF FreshToken, Inv, Minted, Chain
  <2> QED BY <1>1, <2>1 DEF InsertDoc, Inv, TypeOK
<1>2. ASSUME NEW w \in Worker, CreateDoc(w) \/ InsertCandidate(w) PROVE Kept
  <2>1. PICK t \in FreshToken : \E e : InsertDoc(t, req[w].sid, e)
    BY <1>2 DEF CreateDoc, InsertCandidate
  <2>2. PICK s, e : InsertDoc(t, s, e)
    BY <2>1
  <2> QED BY <1>1, <1>2, <2>2 DEF CreateDoc, InsertCandidate
<1>3. ASSUME NEW w \in Worker, CreateFamily(w) \/ Finish(w)
      PROVE  /\ UNCHANGED <<docSession, signedOut>>
             /\ handed \subseteq handed'
             /\ \/ UNCHANGED <<handed, handedS>>
                \/ /\ handedS' = handedS \cup {req[w].sid}
                   /\ req[w].new \in handed' /\ docSession[req[w].new] = req[w].sid
  <2>1. Bound(req[w])
    BY <1>3 DEF CreateFamily, Finish, At, Bound, Candidate, Won
  <2>2. docSession[req[w].new] = req[w].sid
    BY <2>1 DEF Ownership, Owned, OwnedOK
  <2> QED BY <1>3, <2>2 DEF CreateFamily, Finish
<1>4. ASSUME NEW w \in Worker, SignIn(w), ~CreateDoc(w), ~CreateFamily(w) PROVE Kept
  BY <1>4 DEF SignIn, CreateUndo, DeleteDocs
<1>5. ASSUME NEW w \in Worker, Rotate(w), ~InsertCandidate(w), ~Finish(w) PROVE Kept
  BY <1>5 DEF Rotate, Renew, CasWins, CasLoses, LoseDoc, LoseState, LoseSession, Consume,
              DropSession, PullReference, Abort, DeleteDocs
<1>6. ASSUME NEW w \in Worker, RevokeFamily(w) \/ Lookup(w) \/ Arrive(w) \/ CallFails(w) \/ Crash(w)
      PROVE  Kept
  BY <1>6 DEF RevokeFamily, RevokeMark, RevokeRead, RevokeSessions, RevokeTokens, DeleteDocs, Lookup,
              LookupToken, LookupFamily, Arrive, StartSignIn, StartRefresh, StartSignOut, CallFails,
              Crash
<1>7. ASSUME NEW w \in Worker, SignOut(w), ~DeleteRow(w) PROVE Kept
  BY <1>7 DEF SignOut, ReadSession, ReadRow, ReadFamily, FindTokens, SignOutAnswers
<1>8. ASSUME NEW w \in Worker, DeleteRow(w)
      PROVE  UNCHANGED <<handed, handedS, docSession>> /\ signedOut' = signedOut \cup {req[w].sid}
  BY <1>8 DEF DeleteRow
<1>9. CASE Tick \/ (\E t \in Token : ExpireToken(t)) \/ UNCHANGED vars
  <2>1. Kept
    BY <1>9 DEF Tick, ExpireToken, DeleteDocs, vars
  <2> QED BY <2>1
<1>10. ASSUME NEW w \in Worker, Serve(w) \/ Arrive(w) \/ CallFails(w) \/ Crash(w)
       PROVE  Kept \/ CreateFamily(w) \/ Finish(w) \/ DeleteRow(w)
  BY <1>2, <1>4, <1>5, <1>6, <1>7, <1>10 DEF Serve
<1>11. CASE Kept
  BY <1>11
<1> HIDE DEF Kept
<1>12. CASE \E w \in Worker : CreateFamily(w) \/ Finish(w)
  BY <1>3, <1>12
<1>13. CASE \E w \in Worker : DeleteRow(w)
  BY <1>8, <1>13
<1> QED BY <1>9, <1>10, <1>11, <1>12, <1>13 DEF Next

LEMMA SigningNext ==
    ASSUME Inv, Ownership, Signing, ~Faulty, [Next]_vars
    PROVE  Signing'
<1> USE DEF famVars, docVars, sesVars, hisVars
<1>0. req \in [Worker -> Request] /\ \A w \in Worker : OwnedOK(req[w])
  BY DEF Inv, TypeOK, Ownership, Owned
<1>1. ASSUME NEW w \in Worker, NEW s, s = req[w].sid, DeleteRow(w)
      PROVE  s \in handedS /\ Covered(s)'
  <2>0. PICK p : p = ClosingPC(req[w].found)
    OBVIOUS
  <2>1. PICK r : r = [req[w] EXCEPT !.pc = p]
    OBVIOUS
  <2>2. r.pc = p /\ r.sid = req[w].sid /\ p # "idle"
    BY <1>0, <2>0, <2>1 DEF Request, ClosingPC
  <2>3. req'[w] = r
    BY <1>0, <1>1, <2>0, <2>1, <2>2 DEF DeleteRow, Call, Becomes
  <2>4. req[w].sid \in handedS
    BY <1>0, <1>1 DEF DeleteRow, At, OwnedOK, Leaving, LogoutPC
  <2>5. CASE 2 \in req[w].found
    <3>1. Closing(req'[w], s)
      BY <1>1, <2>0, <2>2, <2>3, <2>5 DEF Closing, ClosingPC
    <3> QED BY <1>1, <2>4, <3>1 DEF Covered
  <2>6. CASE 2 \notin req[w].found
    <3>1. revoked /\ revoked' = revoked
      BY <1>0, <1>1, <2>6 DEF DeleteRow, At, OwnedOK, Marked
    <3> QED BY <1>1, <2>4, <3>1 DEF Covered, Ended
  <2> QED BY <2>5, <2>6
<1>2. signedOut' \subseteq handedS'
  BY <1>1, HandedSteps DEF Signing
<1>3. handedS' \subseteq {docSession'[t] : t \in handed'}
  BY HandedSteps DEF Signing
<1>4. ASSUME NEW s \in signedOut' PROVE Covered(s)'
  <2>1. CASE s \in signedOut
    BY <2>1, CoveredStays DEF Signing
  <2>2. CASE s \notin signedOut
    <3>1. PICK w \in Worker : DeleteRow(w) /\ s = req[w].sid
      BY <2>2, HandedSteps
    <3> QED BY <1>1, <3>1
  <2> QED BY <2>1, <2>2
<1>5. ASSUME NEW w \in Worker, At(w, "lo_done")' PROVE Covered(req[w].sid)'
  <2>1. ASSUME At(w, "lo_done"), req'[w] = req[w] PROVE Covered(req[w].sid)'
    <3>1. PICK s : s = req[w].sid
      OBVIOUS
    <3>2. s \in handedS /\ Covered(s)
      BY <1>0, <2>1, <3>1 DEF At, OwnedOK, Leaving, LogoutPC, Signing
    <3>3. Covered(s)'
      BY <3>2, CoveredStays
    <3>4. req'[w].sid = s
      BY <2>1, <3>1
    <3> QED BY <3>3, <3>4 DEF Covered, Ended, Closing
  <2>2. CASE UNCHANGED req
    BY <1>5, <2>1, <2>2 DEF At
  <2>3. ASSUME NEW v \in Worker, Serve(v) \/ Arrive(v), \A u \in Worker \ {v} : req'[u] = req[u]
        PROVE  Covered(req[w].sid)'
    <3>1. CASE v # w
      BY <1>5, <2>1, <2>3, <3>1 DEF At
    <3>2. CASE v = w /\ req[w].pc # "lo_done"
      <4>2. PICK s : req'[w].sid = s /\ Covered(s)'
        BY <1>5, <2>3, <3>2, AnswersCovered
      <4> QED BY <4>2 DEF Covered, Ended, Closing
    <3>3. CASE v = w /\ req[w].pc = "lo_done"
      <4>1. SignOutAnswers(w)
        BY <2>3, <3>3, Stepping DEF Serve, SignOut, DeleteRow, FindTokens, At
      <4>2. req'[w].pc = "idle"
        BY <1>0, <4>1 DEF SignOutAnswers, Becomes, Idle
      <4> QED BY <1>5, <4>2 DEF At
    <3> QED BY <3>1, <3>2, <3>3
  <2> QED BY <2>2, <2>3, OneRequest
<1> QED BY <1>2, <1>3, <1>4, <1>5 DEF Signing

------------------------------------------------------------------------------
(* The results.                                                            *)

(* The invariant holds of every behaviour.                                 *)
THEOREM Invariance == Spec => []Inv
BY InvInit, InvNext, PTL DEF Spec

(* The stored documents, the sessions and the requests keep their types.   *)
THEOREM TypeCorrect == Spec => []TypeOK
<1>1. Inv => TypeOK
  BY DEF Inv
<1> QED BY <1>1, Invariance, PTL

(* A refresh token is exchanged at most once, whatever number of requests  *)
(* present it at once and whichever calls fail (rotate_refresh_token).     *)
THEOREM SingleExchange == Spec => []ExchangedOnce
<1>1. Inv => ExchangedOnce
  BY DEF Inv
<1> QED BY <1>1, Invariance, PTL

(* Once the family is revoked, the family document refuses every session   *)
(* that has a row left, and the session of the active token even to a      *)
(* reader that found its row before: the second lookup of                  *)
(* get_session_by_token_hash lets only a superseded session pass whose row *)
(* is gone.                                                                *)
THEOREM RevocationIsDurable == Spec => []RevocationReachesSessions
<1>1. Inv /\ Ownership => RevocationReachesSessions
  <2> SUFFICES ASSUME Inv, Ownership, revoked,
                      NEW s \in handedS \cup {docSession[active]}, Vouched(s)
               PROVE  s \notin sessions /\ s # docSession[active]
    BY DEF RevocationReachesSessions
  <2>1. docSession[active] \in famSessions
    BY DEF Inv, Opening, Ownership, Paired
  <2>2. s \notin famSessions
    BY DEF Vouched
  <2> QED BY <2>1, <2>2 DEF Inv, Listed
<1> QED BY <1>1, Invariance, OwnershipInit, OwnershipNext, PTL DEF Spec

(* No late compare-and-set reopens a revoked family.                       *)
THEOREM NoReopening == Spec => RevokedIsFinal
<1>1. Inv /\ [Next]_vars => [revoked => revoked' /\ active' = active]_vars
  <2> SUFFICES ASSUME Inv, Next, revoked PROVE revoked' /\ active' = active
    OBVIOUS
  <2>1. active # None
    BY DEF Inv, Opening
  <2>2. ASSUME NEW w \in Worker, Serve(w) PROVE revoked' /\ active' = active
    <3>1. CASE SignIn(w)
      BY <2>1, <3>1 DEF SignIn, CreateDoc, CreateFamily, CreateUndo, famVars, Inv, Opening, At
    <3>2. CASE Lookup(w)
      BY <3>2 DEF Lookup, LookupToken, LookupFamily, famVars
    <3>3. CASE Rotate(w)
      BY <3>3 DEF Rotate, Renew, InsertCandidate, CasWins, CasMatches, CasLoses, LoseDoc, LoseState,
                  LoseSession, Consume, DropSession, PullReference, Finish, Abort, famVars
    <3>4. CASE RevokeFamily(w)
      BY <3>4 DEF RevokeFamily, RevokeMark, RevokeRead, RevokeSessions, RevokeTokens, famVars
    <3>5. CASE SignOut(w)
      BY <3>5 DEF SignOut, ReadSession, ReadRow, ReadFamily, DeleteRow, FindTokens, SignOutAnswers, famVars
    <3> QED BY <2>2, <3>1, <3>2, <3>3, <3>4, <3>5 DEF Serve
  <2>3. ASSUME NEW w \in Worker, Arrive(w) \/ CallFails(w) \/ Crash(w) PROVE revoked' /\ active' = active
    BY <2>3 DEF Arrive, StartSignIn, StartRefresh, StartSignOut, CallFails, Crash, famVars
  <2>4. ASSUME Tick \/ \E t \in Token : ExpireToken(t) PROVE revoked' /\ active' = active
    BY <2>4 DEF Tick, ExpireToken, famVars
  <2> QED BY <2>2, <2>3, <2>4 DEF Next
<1> QED BY <1>1, Invariance, PTL DEF Spec, RevokedIsFinal

(* No token is exchanged at or after its expiry, even one that expires     *)
(* between the check of get_valid and the compare-and-set; and the family  *)
(* document never outlives the absolute age of the family.                 *)
THEOREM ExpiryIsKept == Spec => []ExchangedInTime
<1>1. Timed => ExchangedInTime
  BY DEF Timed, ExchangedInTime, Won
<1> QED BY <1>1, Invariance, TimedInit, TimedNext, PTL DEF Spec

(* Clients never receive two successors of one token, nor one after its    *)
(* expiry.                                                                 *)
THEOREM ExchangeIsSound == Spec => []ExchangedOnceInTime
BY SingleExchange, ExpiryIsKept, PTL DEF ExchangedOnceInTime

(* A sign-in or a rotation is not followed by the loss of its session: the *)
(* client that holds the live token of an open family has a session row,   *)
(* unless it signed out.                                                   *)
THEOREM HolderIsKept == Spec => []HolderKeepsSession
<1>1. Ownership => HolderKeepsSession
  BY DEF Ownership
<1> QED BY <1>1, Invariance, OwnershipInit, OwnershipNext, PTL DEF Spec

(* The MongoDB adapter, whose every call is a step that others interleave  *)
(* with and that may fail, implements the family of the in-memory adapter, *)
(* whose every operation is atomic.                                        *)
THEOREM FamilyIsImplemented == Spec => ImplementsFamily
BY Invariance, OwnershipInit, OwnershipNext, FamilyInit, FamilyNext, PTL
   DEF Spec, ImplementsFamily, Family!Spec

(* Logout ends the family: when sign-out is about to answer success, alone *)
(* and with calls that do not fail, no token of its session is left that   *)
(* could still be exchanged, whichever of several sign-outs of the session *)
(* deleted its row (sign_out, delete_refresh_tokens_for_session).          *)
THEOREM SignOutIsComplete == ~Faulty /\ Spec => []SignOutEndsFamily
<1>1. Signing => SignOutEndsFamily
  <2> SUFFICES ASSUME Signing, NEW w \in Worker, At(w, "lo_done"),
                      \A v \in Worker \ {w} : At(v, "idle"),
                      active \in docs, docSession[active] = req[w].sid
               PROVE  revoked
    BY DEF SignOutEndsFamily
  <2>1. \A v \in Worker : ~Closing(req[v], req[w].sid)
    BY DEF At, Closing, RevokePC
  <2> QED BY <2>1 DEF Signing, Covered, Ended
<1>2. SUFFICES ASSUME ~Faulty PROVE Spec => []SignOutEndsFamily
  OBVIOUS
<1>3. Inv /\ Ownership /\ Signing /\ [Next]_vars => Signing'
  BY <1>2, SigningNext
<1> QED BY <1>1, <1>3, Invariance, OwnershipInit, OwnershipNext, SigningInit, PTL DEF Spec

==============================================================================
