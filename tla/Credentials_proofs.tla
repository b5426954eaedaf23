------------------------- MODULE Credentials_proofs -------------------------
(***************************************************************************)
(* For any number of requests, chains, credentials and passwords, and any  *)
(* mix of the flows: the type invariant and the four safety properties of  *)
(* Credentials.                                                            *)
(*                                                                         *)
(* The invariant says three things the properties leave out: the rows of   *)
(* a family are stored all or none, and every session a client holds has   *)
(* its row there; nobody else writes to the chain a sign-in has just       *)
(* opened; and how far each withdrawing request is with the chains it has  *)
(* to end.  Effect is what any step may do to the rows, and under Effect   *)
(* all that the other requests rely on stays true (the ...Stays lemmas).   *)
(***************************************************************************)
EXTENDS Credentials, ApiKeys, FiniteSetTheorems, TLAPS

(* The steps of a sign-in with a session, those of a refresh with its new  *)
(* session, and those that may still hand it to the client.                *)
OpenPC == {"si_check", "si_drop", "si_issue", "si_answer"}
RenewedPC == {"rf_check", "rf_drop", "rf_valid2", "rf_rotate", "rf_finish", "rf_abort", "rf_burn2"}
CheckedPC == {"si_issue", "si_answer", "rf_valid2", "rf_rotate", "rf_finish"}
CuttingPC == {"wd_all", "wd_others", "wd_list", "wd_delete", "wd_one", "wd_find", "wd_family",
              "wd_done"}
KeepOps == {"change", "set", "revoke"}
AdminOps == {"suspend", "activate"}

(* Two requests never issue the same credential.                           *)
Issuing(r) == r.pc \in OpenPC \cup RenewedPC
Apart(p, r) == Issuing(p) /\ Issuing(r) => p.new # r.new

(* What the fields of a request hold, by its next step.                    *)
Shape(r) ==
    /\ r \in Request
    /\ r.pc = "idle" => r.op = "none" /\ r.cur = None
    /\ r.pc \in SignInPC => r.op = "sign_in" /\ r.pw \in Password /\ r.cur = None
    /\ r.pc = "si_rehash" => r.seen \in Hash /\ r.seen.pw = r.pw
    /\ r.pc \in OpenPC => r.new \in Credential /\ r.new[2] = 0
    /\ r.pc \in RefreshPC => r.op = "refresh" /\ r.cur \in Credential
    /\ r.pc \in RenewedPC => r.new \in Credential /\ r.new[1] = r.cur[1] /\ r.new[2] # 0
    /\ r.pc = "wd_write" => r.pw \in Password /\ r.op \in {"reset", "change", "set"}
    /\ r.pc = "wd_all" => r.op = "reset"
    /\ r.pc = "wd_others" => r.op \in {"set", "revoke"}
    /\ r.pc \in {"wd_list", "wd_delete"} => r.op = "change"
    /\ r.pc = "wd_one" => r.op = "sign_out"
    /\ r.pc \in {"wd_find", "wd_family"} =>
          r.op \in KeepOps \cup AdminOps \cup {"reset", "sign_out"}
    /\ r.pc = "wd_done" => r.op \in KeepOps \cup {"reset", "sign_out"}
    /\ r.pc \in StatusPC => r.op \in AdminOps
    /\ r.op \in KeepOps \cup {"sign_out"} => r.cur \in Credential
    /\ r.op \in AdminOps \cup {"reset"} => r.cur = None
    /\ r.pc # "wd_family" => r.fams = {}
    /\ r.pc # "wd_delete" => r.rows = {}

Role(w, r) ==
    IF w = Admin THEN r.pc = "idle" \/ r.op \in AdminOps
    ELSE r.op \notin AdminOps

(* H, S, T and M stand for held, sessions, tokens and minted.              *)
Holds(c, H) == \E x \in H : x[1] = c

(* What a request relies on in the store.                                  *)
Linked(r, S, T, H, M) ==
    /\ r.cur # None => r.cur \in H
    /\ r.pc \in OpenPC =>
          /\ ~Holds(r.new[1], H)
          /\ \A y \in T : y[1] = r.new[1] => r.pc = "si_answer" /\ y = r.new
    /\ r.pc \in RenewedPC => r.new \notin H
    /\ r.pc \in OpenPC \cup RenewedPC => r.new[2] < M[r.new[1]]
    /\ r.pc = "rf_finish" =>
          /\ \A y \in T : y[1] = r.new[1] => r.new \in T
          /\ r.new \in S => r.new \in T

(* How far a withdrawing request is with the chains k it has to end.       *)
Ending(r, k, S, T, H) ==
    /\ \A c \in k : Holds(c, H)
    /\ r.pc \notin CuttingPC \/ r.op \in AdminOps => k = {}
    /\ r.op \in KeepOps => r.cur[1] \notin k
    /\ r.op = "sign_out" => k \subseteq {r.cur[1]}
    /\ r.pc = "wd_delete" => \A x \in S \cap H : x[1] \in k => x \in T \cup r.rows
    /\ r.pc \in {"wd_find", "wd_family", "wd_done"} => \A x \in S \cap H : x[1] \in k => x \in T
    /\ r.pc \in {"wd_family", "wd_done"} => \A y \in T : y[1] \in k => y[1] \in r.fams
    /\ r.op \in KeepOps => r.cur[1] \notin r.fams

Requests ==
    \A w \in Actor :
        /\ Shape(req[w]) /\ Role(w, req[w])
        /\ Linked(req[w], sessions, tokens, held, minted)
        /\ Ending(req[w], cut[w], sessions, tokens, held)

Distinct ==
    \A v, w \in Actor : v # w => Apart(req[v], req[w])

Numbered(S, T, H, M) == \A x \in S \cup T \cup H : x[2] < M[x[1]]

(* A family is stored whole or not at all; a session a client holds has    *)
(* its row there, or is the first of a chain without a family; and that    *)
(* first one is gone once it was replaced.                                 *)
Families(S, T, H) ==
    /\ \A x \in H, y \in T : y[1] = x[1] => x \in T
    /\ \A x \in S \cap H : x \in T \/ x[2] = 0
    /\ \A x \in H, y \in S : x[1] = y[1] /\ x[2] # 0 => y[2] # 0

Gone(c, S, T, H) ==
    /\ Holds(c, H)
    /\ \A y \in T : y[1] # c
    /\ \A x \in S \cap H : x[1] # c

Suspension(r, on, d, S, T, H) ==
    /\ \A c \in d : Holds(c, H)
    /\ on => d = {} /\ r.pc \notin {"wd_find", "wd_family", "ad_sessions"}
    /\ r.op = "activate" /\ r.pc \in {"wd_family", "ad_sessions"} =>
          \A y \in T : y[1] \in d => y[1] \in r.fams
    /\ r.op = "activate" /\ r.pc = "ad_write" => \A c \in d : Gone(c, S, T, H)

Closed(r, S) == r.pc \in CheckedPC => r.new \notin S

Settled ==
    settled =>
        /\ ~active
        /\ sessions \cap held = {}
        /\ \A w \in Actor : Closed(req[w], sessions)

Inv ==
    /\ TypeOK
    /\ Requests
    /\ Distinct
    /\ Numbered(sessions, tokens, held, minted)
    /\ Families(sessions, tokens, held)
    /\ \A c \in ended : Gone(c, sessions, tokens, held)
    /\ Suspension(req[Admin], active, doomed, sessions, tokens, held)
    /\ Settled
    /\ PasswordIsChosen

------------------------------------------------------------------------------
(* What a step of request r may do to the rows: S1, T1, H1 and M1 follow   *)
(* S, T, H and M.  A new session is numbered; a new refresh token is that  *)
(* of a rotation, or the first of its chain; what a client is given is     *)
(* what r was issuing; a token goes with its family and its session.       *)
Effect(r, S, T, H, M, S1, T1, H1, M1) ==
    /\ S1 \subseteq Credential /\ T1 \subseteq Credential /\ H1 \subseteq Credential
    /\ M1 \in [Chain -> 0 .. MaxGen]
    /\ H \subseteq H1
    /\ \A c \in Chain : M[c] <= M1[c]
    /\ \A x \in S1 \ S : M[x[1]] <= x[2] /\ x[2] < M1[x[1]]
    /\ \A y \in T1 \ T :
          /\ y = r.new
          /\ r.pc \in OpenPC \/ (r.pc \in RenewedPC /\ r.cur \in T)
    /\ \A x \in H1 \ H :
          /\ x = r.new /\ S1 \subseteq S
          /\ r.pc = "si_answer" \/ (r.pc = "rf_finish" /\ r.cur \notin S1)
    /\ \A y \in T \ T1 : y \notin S1 /\ \A z \in T1 : z[1] # y[1]

Store(S, T, H, M) ==
    /\ S \subseteq Credential /\ T \subseteq Credential /\ H \subseteq Credential
    /\ M \in [Chain -> 0 .. MaxGen]
    /\ Numbered(S, T, H, M) /\ Families(S, T, H)

LEMMA InChain ==
    ASSUME NEW x \in Credential
    PROVE  x[1] \in Chain /\ x[2] \in Nat /\ x = <<x[1], x[2]>>
BY BoundsAssumption DEF Credential

(* A token that a step adds is in a chain with a token, or in the mover's  *)
(* opening chain, which nobody holds.                                      *)
LEMMA StoreStays ==
    ASSUME NEW S, NEW T, NEW H, NEW M, NEW S1, NEW T1, NEW H1, NEW M1, NEW r,
           Store(S, T, H, M), Shape(r), Linked(r, S, T, H, M),
           Effect(r, S, T, H, M, S1, T1, H1, M1)
    PROVE  Store(S1, T1, H1, M1)
<1> USE DEF Store
<1>1. ASSUME NEW x \in S1 \cup T1 \cup H1 PROVE x[2] < M1[x[1]]
    <2>0. x[1] \in Chain /\ x[2] \in Nat BY <1>1, InChain DEF Effect
    <2>1. M[x[1]] <= M1[x[1]] /\ M[x[1]] \in Nat /\ M1[x[1]] \in Nat
        BY <2>0, BoundsAssumption DEF Effect
    <2>2. CASE x \in S \cup T \cup H
        BY <2>0, <2>1, <2>2 DEF Numbered
    <2>3. CASE x \in S1 \ S
        BY <2>3 DEF Effect
    <2>4. CASE x = r.new /\ r.pc \in OpenPC \cup RenewedPC
        BY <2>0, <2>1, <2>4 DEF Linked
    <2> QED BY <1>1, <2>2, <2>3, <2>4 DEF Effect, OpenPC, RenewedPC
<1>2. ASSUME NEW x \in H1, NEW y \in T1, y[1] = x[1] PROVE x \in T1
    <2>1. CASE x \in H /\ y \in T
        BY <1>2, <2>1 DEF Effect, Families
    <2>2. CASE x \in H /\ y \notin T
        <3>1. y = r.new /\ (r.pc \in OpenPC \/ (r.pc \in RenewedPC /\ r.cur \in T))
            BY <2>2 DEF Effect
        <3>2. r.pc \notin OpenPC
            BY <1>2, <2>2, <3>1 DEF Linked, Holds
        <3>3. r.cur \in T /\ r.cur[1] = x[1]
            BY <1>2, <3>1, <3>2 DEF Shape
        <3>4. x \in T
            BY <2>2, <3>3 DEF Families
        <3> QED BY <1>2, <3>4 DEF Effect
    <2>3. CASE x \notin H
        <3>1. x = r.new /\ r.pc \in {"si_answer", "rf_finish"}
            BY <2>3 DEF Effect
        <3>2. CASE y \in T
            <4>1. x \in T
                BY <1>2, <3>1, <3>2 DEF Linked, OpenPC
            <4> QED BY <1>2, <4>1 DEF Effect
        <3>3. CASE y \notin T
            BY <3>1, <3>3 DEF Effect
        <3> QED BY <3>2, <3>3
    <2> QED BY <2>1, <2>2, <2>3
<1>3. ASSUME NEW x \in S1, x \in H1 PROVE x \in T1 \/ x[2] = 0
    <2>1. CASE x \in H
        <3>1. x \in S
            <4> SUFFICES ASSUME x \notin S PROVE FALSE OBVIOUS
            <4>1. M[x[1]] <= x[2] BY <1>3 DEF Effect
            <4>2. x[2] < M[x[1]] BY <2>1 DEF Numbered
            <4>3. x[1] \in Chain /\ x[2] \in Nat BY <2>1, InChain
            <4> QED BY <4>1, <4>2, <4>3
        <3>2. x \in T \/ x[2] = 0
            BY <2>1, <3>1 DEF Families
        <3> QED BY <1>3, <3>2 DEF Effect
    <2>2. CASE x \notin H
        <3>1. x = r.new /\ x \in S /\ r.pc \in {"si_answer", "rf_finish"}
            BY <1>3, <2>2 DEF Effect
        <3>2. x \in T \/ x[2] = 0
            BY <3>1 DEF Linked, Shape, OpenPC
        <3> QED BY <1>3, <3>2 DEF Effect
    <2> QED BY <2>1, <2>2
<1>4. ASSUME NEW x \in H1, NEW y \in S1, x[1] = y[1], x[2] # 0 PROVE y[2] # 0
    <2> SUFFICES ASSUME y[2] = 0 PROVE FALSE OBVIOUS
    <2>0. /\ x[1] \in Chain /\ x[2] \in Nat /\ y = <<y[1], y[2]>> /\ M[x[1]] \in Nat
        BY InChain, BoundsAssumption DEF Effect
    <2>1. CASE x \in H
        <3>1. CASE y \in S
            BY <1>4, <2>1, <3>1 DEF Families
        <3>2. CASE y \notin S
            <4>1. M[x[1]] <= 0 BY <1>4, <3>2 DEF Effect
            <4>2. x[2] < M[x[1]] BY <2>1 DEF Numbered
            <4> QED BY <2>0, <4>1, <4>2
        <3> QED BY <3>1, <3>2
    <2>2. CASE x \notin H
        <3>1. /\ x = r.new /\ y \in S
              /\ r.pc = "si_answer" \/ (r.pc = "rf_finish" /\ r.cur \notin S1)
            BY <2>2 DEF Effect
        <3>2. r.pc = "rf_finish" /\ r.cur \notin S1
            BY <1>4, <3>1 DEF Shape, OpenPC
        <3>3. r.cur \in Credential /\ r.cur \in H /\ r.cur[1] = x[1]
            BY <3>1, <3>2, NoneAssumption DEF Shape, Linked, RefreshPC, RenewedPC
        <3>4. r.cur[2] = 0
            BY <1>4, <3>1, <3>3 DEF Families
        <3>5. y = r.cur
            BY <1>4, <2>0, <3>3, <3>4, InChain
        <3> QED BY <3>2, <3>5
    <2> QED BY <2>1, <2>2
<1>5. Numbered(S1, T1, H1, M1) BY <1>1 DEF Numbered
<1>6. Families(S1, T1, H1) BY <1>2, <1>3, <1>4 DEF Families
<1> QED BY <1>5, <1>6 DEF Effect

(* A client holds no session it did not hold before, unless the step gives *)
(* it out; and then in a chain it holds already, with the row there, or as *)
(* the first of its own chain.                                             *)
LEMMA HeldSession ==
    ASSUME NEW S, NEW T, NEW H, NEW M, NEW S1, NEW T1, NEW H1, NEW M1, NEW r,
           Store(S, T, H, M), Shape(r), Linked(r, S, T, H, M),
           Effect(r, S, T, H, M, S1, T1, H1, M1),
           NEW x \in S1 \cap H1
    PROVE  /\ x \in S
           /\ x \in H \/ (x = r.new /\ r.pc \in CheckedPC)
           /\ Holds(x[1], H) => x \in H \/ x \in T1
<1>1. CASE x \in H
    <2>1. x[1] \in Chain /\ x[2] \in Nat /\ M[x[1]] \in Nat
        BY <1>1, InChain, BoundsAssumption DEF Store
    <2>2. x[2] < M[x[1]] BY <1>1 DEF Store, Numbered
    <2>3. x \in S1 \ S => M[x[1]] <= x[2] BY DEF Effect
    <2> QED BY <1>1, <2>1, <2>2, <2>3
<1>2. CASE x \notin H
    <2>1. x = r.new /\ x \in S /\ r.pc \in {"si_answer", "rf_finish"}
        BY <1>2 DEF Effect
    <2>2. CASE r.pc = "si_answer"
        BY <2>1, <2>2 DEF Linked, OpenPC, CheckedPC
    <2>3. CASE r.pc = "rf_finish"
        BY <2>1, <2>3 DEF Linked, Effect, CheckedPC
    <2> QED BY <2>1, <2>2, <2>3
<1> QED BY <1>1, <1>2

(* A refresh token that is new to a chain somebody holds follows another.  *)
LEMMA NewToken ==
    ASSUME NEW S, NEW T, NEW H, NEW M, NEW S1, NEW T1, NEW H1, NEW M1, NEW r,
           Shape(r), Linked(r, S, T, H, M), Effect(r, S, T, H, M, S1, T1, H1, M1),
           NEW y \in T1, Holds(y[1], H)
    PROVE  \E z \in T : z[1] = y[1]
<1>1. CASE y \in T BY <1>1
<1>2. CASE y \notin T
    <2>1. y = r.new /\ (r.pc \in OpenPC \/ (r.pc \in RenewedPC /\ r.cur \in T))
        BY <1>2 DEF Effect
    <2>2. r.pc \notin OpenPC BY <2>1 DEF Linked
    <2> QED BY <2>1, <2>2 DEF Shape
<1> QED BY <1>1, <1>2

LEMMA GoneStays ==
    ASSUME NEW S, NEW T, NEW H, NEW M, NEW S1, NEW T1, NEW H1, NEW M1, NEW r,
           Store(S, T, H, M), Shape(r), Linked(r, S, T, H, M),
           Effect(r, S, T, H, M, S1, T1, H1, M1),
           NEW c, Gone(c, S, T, H)
    PROVE  Gone(c, S1, T1, H1)
<1>1. Holds(c, H1) BY DEF Gone, Holds, Effect
<1>2. \A y \in T1 : y[1] # c BY NewToken DEF Gone
<1>3. ASSUME NEW x \in S1 \cap H1 PROVE x[1] # c
    <2>1. x \in S /\ (Holds(x[1], H) => x \in H \/ x \in T1) BY HeldSession
    <2> QED BY <1>2, <2>1 DEF Gone
<1> QED BY <1>1, <1>2, <1>3 DEF Gone

(* What another request q relies on stays true.                            *)
LEMMA LinkedStays ==
    ASSUME NEW S, NEW T, NEW H, NEW M, NEW S1, NEW T1, NEW H1, NEW M1, NEW r, NEW q,
           Store(S, T, H, M), Shape(r), Linked(r, S, T, H, M),
           Effect(r, S, T, H, M, S1, T1, H1, M1),
           Shape(q), Linked(q, S, T, H, M), Apart(q, r)
    PROVE  Linked(q, S1, T1, H1, M1)
<1>1. q.cur # None => q.cur \in H1
    BY DEF Linked, Effect
<1>2. ASSUME q.pc \in OpenPC
      PROVE  /\ ~Holds(q.new[1], H1)
             /\ \A y \in T1 : y[1] = q.new[1] => q.pc = "si_answer" /\ y = q.new
    <2>1. r.pc \in OpenPC => r.new[1] # q.new[1]
        BY <1>2, InChain DEF Shape, Apart, Issuing
    <2>2. r.pc \in RenewedPC => Holds(r.new[1], H)
        BY NoneAssumption DEF Shape, Linked, Holds, RenewedPC, RefreshPC
    <2>3. ~Holds(q.new[1], H) BY <1>2 DEF Linked
    <2>4. ASSUME NEW x \in H1 PROVE x[1] # q.new[1]
        <3>1. CASE x \in H BY <2>3, <3>1 DEF Holds
        <3>2. CASE x \notin H
            BY <2>1, <2>2, <2>3, <3>2 DEF Effect, OpenPC, RenewedPC
        <3> QED BY <3>1, <3>2
    <2>5. ASSUME NEW y \in T1, y[1] = q.new[1] PROVE q.pc = "si_answer" /\ y = q.new
        <3>1. y \in T BY <2>1, <2>2, <2>3, <2>5 DEF Effect
        <3> QED BY <1>2, <2>5, <3>1 DEF Linked
    <2> QED BY <2>4, <2>5 DEF Holds
<1>3. q.pc \in RenewedPC => q.new \notin H1
    BY DEF Linked, Effect, Apart, Issuing, OpenPC, RenewedPC
<1>4. ASSUME q.pc \in OpenPC \cup RenewedPC PROVE q.new[2] < M1[q.new[1]]
    <2>1. q.new[1] \in Chain /\ q.new[2] \in Nat BY <1>4, InChain DEF Shape
    <2>2. q.new[2] < M[q.new[1]] BY <1>4 DEF Linked
    <2>3. M[q.new[1]] <= M1[q.new[1]] /\ M[q.new[1]] \in Nat /\ M1[q.new[1]] \in Nat
        BY <2>1, BoundsAssumption DEF Effect, Store
    <2> QED BY <2>1, <2>2, <2>3
<1>5. ASSUME q.pc = "rf_finish"
      PROVE  /\ \A y \in T1 : y[1] = q.new[1] => q.new \in T1
             /\ q.new \in S1 => q.new \in T1
    <2>0. q.new \in Credential /\ Holds(q.new[1], H)
        BY <1>5, NoneAssumption DEF Shape, Linked, Holds, RenewedPC, RefreshPC
    <2>1. ASSUME NEW y \in T1, y[1] = q.new[1] PROVE q.new \in T1
        <3>1. PICK z \in T : z[1] = y[1] BY <2>0, <2>1, NewToken
        <3>2. q.new \in T BY <1>5, <2>1, <3>1 DEF Linked
        <3> QED BY <2>1, <3>2 DEF Effect
    <2>2. ASSUME q.new \in S1 PROVE q.new \in T1
        <3>1. q.new \in S
            <4> SUFFICES ASSUME q.new \notin S PROVE FALSE OBVIOUS
            <4>1. M[q.new[1]] <= q.new[2] BY <2>2 DEF Effect
            <4>2. q.new[2] < M[q.new[1]] BY <1>5 DEF Linked, RenewedPC
            <4>3. q.new[2] \in Nat /\ M[q.new[1]] \in Nat
                BY <2>0, InChain, BoundsAssumption DEF Store
            <4> QED BY <4>1, <4>2, <4>3
        <3>2. q.new \in T BY <1>5, <3>1 DEF Linked
        <3> QED BY <2>2, <3>2 DEF Effect
    <2> QED BY <2>1, <2>2
<1> QED BY <1>1, <1>2, <1>3, <1>4, <1>5 DEF Linked

LEMMA EndingStays ==
    ASSUME NEW S, NEW T, NEW H, NEW M, NEW S1, NEW T1, NEW H1, NEW M1, NEW r, NEW q, NEW k,
           Store(S, T, H, M), Shape(r), Linked(r, S, T, H, M),
           Effect(r, S, T, H, M, S1, T1, H1, M1),
           Ending(q, k, S, T, H)
    PROVE  Ending(q, k, S1, T1, H1)
<1>1. \A c \in k : Holds(c, H) /\ Holds(c, H1)
    BY DEF Ending, Holds, Effect
<1>2. ASSUME NEW x \in S1 \cap H1, x[1] \in k PROVE (x \in S /\ x \in H) \/ x \in T1
    BY <1>1, <1>2, HeldSession
<1>3. ASSUME NEW x \in S1, x \in T PROVE x \in T1
    BY <1>3 DEF Effect
<1>4. q.pc = "wd_delete" => \A x \in S1 \cap H1 : x[1] \in k => x \in T1 \cup q.rows
    BY <1>2, <1>3 DEF Ending
<1>5. q.pc \in {"wd_find", "wd_family", "wd_done"} => \A x \in S1 \cap H1 : x[1] \in k => x \in T1
    BY <1>2, <1>3 DEF Ending
<1>6. q.pc \in {"wd_family", "wd_done"} => \A y \in T1 : y[1] \in k => y[1] \in q.fams
    BY <1>1, NewToken DEF Ending
<1> QED BY <1>1, <1>4, <1>5, <1>6 DEF Ending

LEMMA SuspensionStays ==
    ASSUME NEW S, NEW T, NEW H, NEW M, NEW S1, NEW T1, NEW H1, NEW M1, NEW r, NEW q, NEW on, NEW d,
           Store(S, T, H, M), Shape(r), Linked(r, S, T, H, M),
           Effect(r, S, T, H, M, S1, T1, H1, M1),
           Suspension(q, on, d, S, T, H)
    PROVE  Suspension(q, on, d, S1, T1, H1)
<1>1. \A c \in d : Holds(c, H) /\ Holds(c, H1)
    BY DEF Suspension, Holds, Effect
<1>2. q.op = "activate" /\ q.pc \in {"wd_family", "ad_sessions"} =>
          \A y \in T1 : y[1] \in d => y[1] \in q.fams
    BY <1>1, NewToken DEF Suspension
<1>3. q.op = "activate" /\ q.pc = "ad_write" => \A c \in d : Gone(c, S1, T1, H1)
    BY GoneStays DEF Suspension
<1> QED BY <1>1, <1>2, <1>3 DEF Suspension

(* An issued session that is not stored is not stored later either.        *)
LEMMA ClosedStays ==
    ASSUME NEW S, NEW T, NEW H, NEW M, NEW S1, NEW T1, NEW H1, NEW M1, NEW r, NEW q,
           Store(S, T, H, M), Effect(r, S, T, H, M, S1, T1, H1, M1),
           Shape(q), Linked(q, S, T, H, M), Closed(q, S)
    PROVE  Closed(q, S1)
<1> SUFFICES ASSUME q.pc \in CheckedPC, q.new \in S1 PROVE FALSE BY DEF Closed
<1>1. q.pc \in OpenPC \cup RenewedPC BY DEF CheckedPC, OpenPC, RenewedPC
<1>2. q.new[1] \in Chain /\ q.new[2] \in Nat BY <1>1, InChain DEF Shape
<1>3. M[q.new[1]] <= q.new[2] BY DEF Effect, Closed
<1>4. q.new[2] < M[q.new[1]] BY <1>1 DEF Linked
<1>5. M[q.new[1]] \in Nat BY <1>2, BoundsAssumption DEF Store
<1> QED BY <1>2, <1>3, <1>4, <1>5
------------------------------------------------------------------------------
Good(w, r, k, S, T, H, M) ==
    Shape(r) /\ Role(w, r) /\ Linked(r, S, T, H, M) /\ Ending(r, k, S, T, H)

(* The step by which request w becomes r and has the chains k to end.      *)
Moves(w, r, k) ==
    /\ req' = [req EXCEPT ![w] = r]
    /\ cut' = [cut EXCEPT ![w] = k]
    /\ Effect(req[w], sessions, tokens, held, minted, sessions', tokens', held', minted')
    /\ Good(w, r, k, sessions', tokens', held', minted')
    /\ Issuing(r) =>
          \/ Issuing(req[w]) /\ r.new = req[w].new
          \/ minted[r.new[1]] <= r.new[2]

LEMMA Facts ==
    ASSUME Inv
    PROVE  /\ Store(sessions, tokens, held, minted)
           /\ \A w \in Actor : /\ req[w] \in Request /\ cut[w] \in SUBSET Chain
                              /\ Good(w, req[w], cut[w], sessions, tokens, held, minted)
           /\ req \in [Actor -> Request] /\ cut \in [Actor -> SUBSET Chain]
BY DEF Inv, TypeOK, Store, Requests, Good

LEMMA FreshIsApart ==
    ASSUME Inv, NEW w \in Actor, NEW v \in Actor, NEW r, Shape(r), Issuing(r),
           minted[r.new[1]] <= r.new[2]
    PROVE  Apart(req[v], r)
<1> SUFFICES ASSUME Issuing(req[v]), req[v].new = r.new PROVE FALSE BY DEF Apart
<1>1. Linked(req[v], sessions, tokens, held, minted) BY Facts DEF Good
<1>2. r.new[1] \in Chain /\ r.new[2] \in Nat BY InChain DEF Shape, Issuing
<1>3. minted[r.new[1]] \in Nat BY <1>2, Facts, BoundsAssumption DEF Store
<1>4. r.new[2] < minted[r.new[1]] BY <1>1 DEF Linked, Issuing
<1> QED BY <1>2, <1>3, <1>4

LEMMA MovesKeeps ==
    ASSUME Inv, NEW w \in Actor, NEW r, NEW k \in SUBSET Chain, Moves(w, r, k)
    PROVE  /\ Requests' /\ Distinct'
           /\ Store(sessions', tokens', held', minted')
           /\ req' \in [Actor -> Request] /\ cut' \in [Actor -> SUBSET Chain]
           /\ \A c : Gone(c, sessions, tokens, held) => Gone(c, sessions', tokens', held')
<1>1. /\ Store(sessions, tokens, held, minted)
      /\ req \in [Actor -> Request] /\ cut \in [Actor -> SUBSET Chain]
      /\ Shape(req[w]) /\ Linked(req[w], sessions, tokens, held, minted)
      /\ Effect(req[w], sessions, tokens, held, minted, sessions', tokens', held', minted')
    BY Facts DEF Good, Moves
<1>2. req' \in [Actor -> Request] /\ cut' \in [Actor -> SUBSET Chain]
    BY <1>1 DEF Moves, Good, Shape
<1>3. req'[w] = r /\ cut'[w] = k
    BY <1>1 DEF Moves
<1>4. ASSUME NEW v \in Actor, v # w PROVE req'[v] = req[v] /\ cut'[v] = cut[v]
    BY <1>1, <1>4 DEF Moves
<1>5. ASSUME NEW v \in Actor, v # w
      PROVE  Apart(req[v], req[w]) /\ Apart(req[v], r) /\ Apart(r, req[v])
    <2>1. Apart(req[v], req[w]) BY <1>5 DEF Inv, Distinct
    <2>2. CASE Issuing(r) /\ minted[r.new[1]] <= r.new[2]
        <3>1. Shape(r) BY DEF Moves, Good
        <3>2. Apart(req[v], r) BY <2>2, <3>1, FreshIsApart
        <3> QED BY <2>1, <3>2 DEF Apart
    <2>3. CASE ~(Issuing(r) /\ minted[r.new[1]] <= r.new[2])
        BY <2>1, <2>3 DEF Apart, Moves
    <2> QED BY <2>2, <2>3
<1>6. ASSUME NEW v \in Actor
      PROVE  Good(v, req'[v], cut'[v], sessions', tokens', held', minted')
    <2>1. CASE v = w BY <1>3, <2>1 DEF Moves
    <2>2. CASE v # w
        <3>1. Good(v, req[v], cut[v], sessions, tokens, held, minted) BY Facts
        <3>2. Linked(req[v], sessions', tokens', held', minted')
            BY <1>1, <1>5, <2>2, <3>1, LinkedStays DEF Good
        <3>3. Ending(req[v], cut[v], sessions', tokens', held')
            BY <1>1, <3>1, EndingStays DEF Good
        <3> QED BY <1>4, <2>2, <3>1, <3>2, <3>3 DEF Good
    <2> QED BY <2>1, <2>2
<1>7. Requests' BY <1>6 DEF Requests, Good
<1>8. ASSUME NEW u \in Actor, NEW v \in Actor, u # v PROVE Apart(req'[u], req'[v])
    <2>1. CASE u # w /\ v # w BY <1>4, <1>8, <2>1 DEF Inv, Distinct
    <2>2. CASE u = w BY <1>3, <1>4, <1>5, <1>8, <2>2
    <2>3. CASE v = w BY <1>3, <1>4, <1>5, <1>8, <2>3
    <2> QED BY <2>1, <2>2, <2>3
<1>9. Distinct' BY <1>8 DEF Distinct
<1>10. Store(sessions', tokens', held', minted') BY <1>1, StoreStays
<1>11. \A c : Gone(c, sessions, tokens, held) => Gone(c, sessions', tokens', held')
    BY <1>1, GoneStays
<1> QED BY <1>2, <1>7, <1>9, <1>10, <1>11

LEMMA StoreIsTyped ==
    ASSUME NEW S, NEW T, NEW H, NEW M
    PROVE  Store(S, T, H, M) <=>
              /\ S \subseteq Credential /\ T \subseteq Credential /\ H \subseteq Credential
              /\ M \in [Chain -> 0 .. MaxGen]
              /\ Numbered(S, T, H, M) /\ Families(S, T, H)
BY DEF Store

(* The account row and the last choice, which only a few steps write.      *)
Opens(a, p) == a \in Hash /\ p \in Password \cup {NoPassword} /\ a.pw = p

(* A step that leaves the active flag alone.                               *)
LEMMA Step ==
    ASSUME Inv, NEW w \in Actor, NEW r, NEW k \in SUBSET Chain, Moves(w, r, k),
           ops' = ops, used' \subseteq tokens', Opens(account', chosen'),
           UNCHANGED <<active, doomed, settled>>,
           ended' \subseteq Chain, \A c \in ended' \ ended : Gone(c, sessions, tokens, held),
           basis' \in [Chain -> Password \cup {NoPassword}],
           w = Admin => Suspension(r, active, doomed, sessions', tokens', held'),
           r.pc \in CheckedPC => active \/ (req[w].pc \in CheckedPC /\ r.new = req[w].new)
    PROVE  Inv'
<1>1. /\ Requests' /\ Distinct'
      /\ Store(sessions', tokens', held', minted')
      /\ req' \in [Actor -> Request] /\ cut' \in [Actor -> SUBSET Chain]
      /\ \A c : Gone(c, sessions, tokens, held) => Gone(c, sessions', tokens', held')
    BY MovesKeeps
<1>2. TypeOK'
    BY <1>1 DEF TypeOK, Inv, Store, Opens
<1>3. (\A c \in ended : Gone(c, sessions, tokens, held))'
    BY <1>1 DEF Inv
<1>4. /\ Store(sessions, tokens, held, minted)
      /\ Shape(req[w]) /\ Linked(req[w], sessions, tokens, held, minted)
      /\ Effect(req[w], sessions, tokens, held, minted, sessions', tokens', held', minted')
      /\ req \in [Actor -> Request]
    BY Facts DEF Good, Moves
<1>5. Suspension(req'[Admin], active', doomed', sessions', tokens', held')
    <2>1. CASE w = Admin BY <1>4, <2>1 DEF Moves
    <2>2. CASE w # Admin
        <3>1. req'[Admin] = req[Admin] BY <1>4, <2>2 DEF Moves, Actor
        <3>2. Suspension(req[Admin], active, doomed, sessions, tokens, held) BY DEF Inv
        <3> QED BY <1>4, <3>1, <3>2, SuspensionStays
    <2> QED BY <2>1, <2>2
<1>6. ASSUME settled
      PROVE  sessions' \cap held' = {} /\ \A v \in Actor : Closed(req'[v], sessions')
    <2>1. /\ ~active /\ sessions \cap held = {}
          /\ \A v \in Actor : Closed(req[v], sessions)
        BY <1>6 DEF Inv, Settled
    <2>2. ASSUME NEW x \in sessions' \cap held' PROVE FALSE
        <3>1. x \in sessions /\ (x \in held \/ (x = req[w].new /\ req[w].pc \in CheckedPC))
            BY <1>4, HeldSession
        <3> QED BY <2>1, <3>1 DEF Closed
    <2>3. ASSUME NEW v \in Actor PROVE Closed(req[v], sessions')
        <3>1. Shape(req[v]) /\ Linked(req[v], sessions, tokens, held, minted)
            BY Facts DEF Good
        <3> QED BY <1>4, <2>1, <3>1, ClosedStays
    <2>4. Closed(r, sessions') BY <2>1, <2>3 DEF Closed
    <2>5. ASSUME NEW v \in Actor PROVE req'[v] = req[v] \/ req'[v] = r
        BY <1>4 DEF Moves
    <2> QED BY <2>2, <2>3, <2>4, <2>5
<1>7. Settled' BY <1>6 DEF Settled, Inv
<1> QED BY <1>1, <1>2, <1>3, <1>5, <1>7 DEF Inv, Store, Opens, PasswordIsChosen
------------------------------------------------------------------------------
LEMMA DropEffect ==
    ASSUME NEW S, NEW T, NEW H, NEW M, NEW S1, NEW r, Store(S, T, H, M), S1 \subseteq S
    PROVE  Effect(r, S, T, H, M, S1, T, H, M)
<1>1. \A c \in Chain : M[c] <= M[c] BY BoundsAssumption DEF Store
<1> QED BY <1>1 DEF Effect, Store

LEMMA FamilyEffect ==
    ASSUME NEW S, NEW T, NEW H, NEW M, NEW S1, NEW T1, NEW r, NEW c, Store(S, T, H, M),
           \A x : x \in S1 <=> x \in S /\ ~(x[1] = c /\ x \in T),
           \A x : x \in T1 <=> x \in T /\ x[1] # c
    PROVE  Effect(r, S, T, H, M, S1, T1, H, M)
<1>1. \A d \in Chain : M[d] <= M[d] BY BoundsAssumption DEF Store
<1> QED BY <1>1 DEF Effect, Store

(* A step that may delete sessions and write the account, nothing else.    *)
LEMMA DropStep ==
    ASSUME Inv, NEW w \in Actor, NEW r, NEW k \in SUBSET Chain, ops' = ops,
           req' = [req EXCEPT ![w] = r], cut' = [cut EXCEPT ![w] = k],
           sessions' \subseteq sessions, Opens(account', chosen'),
           UNCHANGED <<active, tokens, used, minted, held, ended, doomed, settled, basis>>,
           Good(w, r, k, sessions', tokens, held, minted),
           Issuing(r) => Issuing(req[w]) /\ r.new = req[w].new,
           w = Admin => Suspension(r, active, doomed, sessions', tokens, held),
           r.pc \in CheckedPC => active \/ (req[w].pc \in CheckedPC /\ r.new = req[w].new)
    PROVE  Inv'
<1>1. Store(sessions, tokens, held, minted) /\ ended' \subseteq Chain BY Facts DEF Inv, TypeOK
<1>2. Effect(req[w], sessions, tokens, held, minted, sessions', tokens', held', minted')
    BY <1>1, DropEffect
<1>3. Moves(w, r, k) BY <1>2 DEF Moves
<1>4. used' \subseteq tokens' /\ basis' \in [Chain -> Password \cup {NoPassword}]
    BY DEF Inv, TypeOK
<1> QED BY <1>1, <1>3, <1>4, Step

LEMMA OpensNow == Inv => Opens(account, chosen)
BY DEF Inv, TypeOK, Opens, PasswordIsChosen

(* A step that deletes a family and moves its request.                     *)
LEMMA FamilyStep ==
    ASSUME Inv, NEW w \in Actor, NEW r, NEW c, ops' = ops, Becomes(w, r), DeleteFamily(c),
           UNCHANGED <<account, active, minted, hisVars>>,
           Good(w, r, cut[w], sessions', tokens', held, minted),
           Issuing(r) => Issuing(req[w]) /\ r.new = req[w].new,
           w = Admin => Suspension(r, active, doomed, sessions', tokens', held),
           r.pc \in CheckedPC => active \/ (req[w].pc \in CheckedPC /\ r.new = req[w].new)
    PROVE  Inv'
<1>1. Store(sessions, tokens, held, minted) /\ cut \in [Actor -> SUBSET Chain] BY Facts
<1>2. cut[w] \in SUBSET Chain /\ cut' = [cut EXCEPT ![w] = cut[w]] BY <1>1 DEF hisVars
<1>3. Effect(req[w], sessions, tokens, held, minted, sessions', tokens', held', minted')
    <2>1. /\ \A x : x \in sessions' <=> x \in sessions /\ ~(x[1] = c /\ x \in tokens)
          /\ \A x : x \in tokens' <=> x \in tokens /\ x[1] # c
          /\ held' = held /\ minted' = minted
        BY DEF DeleteFamily, hisVars
    <2>2. Effect(req[w], sessions, tokens, held, minted, sessions', tokens', held, minted)
        BY <1>1, <2>1, FamilyEffect, Zenon
    <2> QED BY <2>1, <2>2
<1>4. Moves(w, r, cut[w]) BY <1>2, <1>3 DEF Moves, Becomes, hisVars
<1>5. /\ used' \subseteq tokens' /\ basis' \in [Chain -> Password \cup {NoPassword}]
      /\ ended \subseteq Chain
    BY DEF Inv, TypeOK, DeleteFamily, hisVars
<1> QED BY <1>2, <1>4, <1>5, OpensNow, Step DEF hisVars

(* A step that only moves one request.                                     *)
LEMMA ReadingStep ==
    ASSUME Inv, NEW w \in Actor, NEW r, ops' = ops, Becomes(w, r), Reading,
           Good(w, r, cut[w], sessions, tokens, held, minted),
           Issuing(r) => Issuing(req[w]) /\ r.new = req[w].new,
           w = Admin => Suspension(r, active, doomed, sessions, tokens, held),
           r.pc \in CheckedPC => active \/ (req[w].pc \in CheckedPC /\ r.new = req[w].new)
    PROVE  Inv'
<1>1. cut[w] \in SUBSET Chain /\ cut' = [cut EXCEPT ![w] = cut[w]] BY Facts DEF Reading, hisVars
<1> QED BY <1>1, OpensNow, DropStep DEF Reading, storeVars, hisVars, Becomes

(* A step that deletes sessions and moves its request.                     *)
LEMMA DeletingStep ==
    ASSUME Inv, NEW w \in Actor, NEW r, NEW rows, ops' = ops, Becomes(w, r), DeleteRows(rows),
           UNCHANGED <<account, active, tokens, used, minted, hisVars>>,
           Good(w, r, cut[w], sessions \ rows, tokens, held, minted),
           Issuing(r) => Issuing(req[w]) /\ r.new = req[w].new,
           w = Admin => Suspension(r, active, doomed, sessions \ rows, tokens, held),
           r.pc \in CheckedPC => active \/ (req[w].pc \in CheckedPC /\ r.new = req[w].new)
    PROVE  Inv'
<1>1. cut[w] \in SUBSET Chain /\ cut' = [cut EXCEPT ![w] = cut[w]] BY Facts DEF hisVars
<1> QED BY <1>1, OpensNow, DropStep DEF hisVars, Becomes, DeleteRows

LEMMA IdleIsGood ==
    ASSUME NEW w, NEW S, NEW T, NEW H, NEW M
    PROVE  /\ Good(w, Idle, {}, S, T, H, M)
           /\ ~Issuing(Idle) /\ Idle.pc \notin CheckedPC /\ Idle \in Request
           /\ Idle = [pc |-> "idle", op |-> "none", pw |-> None, seen |-> None, user |-> FALSE,
                      cur |-> None, new |-> None, token |-> FALSE, rows |-> {}, fams |-> {}]
BY DEF Good, Shape, Role, Linked, Ending, Idle, Request, Issuing, SignInPC, OpenPC, RefreshPC,
       RenewedPC, CheckedPC, StatusPC, KeepOps, AdminOps, CuttingPC

LEMMA IdleSuspension ==
    ASSUME Inv
    PROVE  Suspension(Idle, active, doomed, sessions, tokens, held)
BY DEF Inv, Suspension, Idle

(* Who is at no step of a withdrawal has nothing to end.                   *)
LEMMA NothingToEnd ==
    ASSUME Inv, NEW w \in Actor, req[w].pc \notin CuttingPC
    PROVE  cut[w] = {}
BY Facts DEF Good, Ending
------------------------------------------------------------------------------
(* The request that goes on at step p.                                     *)
Steps == {"idle"} \cup SignInPC \cup RefreshPC \cup WithdrawPC \cup StatusPC

SameButStep(n, r) ==
    /\ n \in Request /\ n.op = r.op /\ n.pw = r.pw /\ n.cur = r.cur /\ n.token = r.token

LEMMA GotoStep ==
    ASSUME NEW r \in Request, NEW p \in Steps, NEW n, n = [r EXCEPT !.pc = p]
    PROVE  /\ SameButStep(n, r) /\ n.pc = p /\ n.seen = r.seen /\ n.user = r.user
           /\ n.new = r.new /\ n.rows = r.rows /\ n.fams = r.fams
BY DEF SameButStep, Request, Steps

(* From here on the sets of steps and operations are known.                *)
USE DEF SignInPC, RefreshPC, WithdrawPC, StatusPC, AllOps, OpenPC, RenewedPC, CheckedPC,
        CuttingPC, KeepOps, AdminOps, Issuing, At

LEMMA ClientIsActor ==
    ASSUME NEW w \in Client
    PROVE  w \in Actor /\ w # Admin
BY IdsAssumption DEF Actor

(* A client's request that ends without having changed anything.           *)
LEMMA EndingStep ==
    ASSUME Inv, ops' = ops, NEW w \in Client, Becomes(w, Idle), Reading, cut[w] = {}
    PROVE  Inv'
<1>1. w \in Actor /\ w # Admin BY ClientIsActor
<1>2. Good(w, Idle, cut[w], sessions, tokens, held, minted) BY IdleIsGood
<1>3. ~Issuing(Idle) /\ Idle.pc \notin CheckedPC BY IdleIsGood
<1> QED BY <1>1, <1>2, <1>3, ReadingStep

LEMMA SignInUserKeeps ==
    ASSUME Inv, ops' = ops, NEW w \in Client, NEW pw \in Password, SignInUser(w, pw)
    PROVE  Inv'
<1>1. PICK token \in BOOLEAN :
          Becomes(w, [Idle EXCEPT !.pc = "si_account", !.op = "sign_in", !.pw = pw,
                                  !.user = active, !.token = token])
    BY DEF SignInUser
<1> DEFINE r == [Idle EXCEPT !.pc = "si_account", !.op = "sign_in", !.pw = pw,
                             !.user = active, !.token = token]
<1>2. w \in Actor /\ w # Admin BY ClientIsActor
<1>3. cut[w] = {} BY <1>2, NothingToEnd DEF SignInUser, Starts
<1>4. /\ r.pc = "si_account" /\ r.op = "sign_in" /\ r.pw = pw /\ r.cur = None
      /\ r.rows = {} /\ r.fams = {}
    BY DEF Idle
<1>5. active \in BOOLEAN BY DEF Inv, TypeOK
<1>6. r \in Request BY <1>5 DEF Request, Idle
<1>7. Becomes(w, r) BY <1>1 DEF r
<1> HIDE DEF r
<1>8. Good(w, r, {}, sessions, tokens, held, minted)
    BY <1>2, <1>4, <1>6 DEF Good, Shape, Role, Linked, Ending
<1> QED BY <1>2, <1>3, <1>4, <1>7, <1>8, ReadingStep DEF SignInUser

LEMMA SignInAccountKeeps ==
    ASSUME Inv, ops' = ops, NEW w \in Client, SignInAccount(w)
    PROVE  Inv'
<1> DEFINE r == req[w]
<1>1. w \in Actor /\ w # Admin BY ClientIsActor
<1>2. r \in Request /\ Good(w, r, cut[w], sessions, tokens, held, minted) BY <1>1, Facts
<1>3. r.pc = "si_account" BY DEF SignInAccount
<1>4. cut[w] = {} BY <1>1, <1>3, NothingToEnd
<1>5. CASE Becomes(w, Idle)
    BY <1>4, <1>5, EndingStep DEF SignInAccount
<1>6. CASE ~Becomes(w, Idle)
    <2>1. PICK p \in {"si_session", "si_rehash"} : Becomes(w, [r EXCEPT !.pc = p, !.seen = account])
        BY <1>6 DEF SignInAccount
    <2>2. account.pw = r.pw BY <1>6 DEF SignInAccount
    <2>3. account \in Hash BY DEF Inv, TypeOK
    <2>4. PICK n : n = [r EXCEPT !.pc = p, !.seen = account] OBVIOUS
    <2>5. SameButStep(n, r) /\ n.pc = p /\ n.seen = account /\ n.fams = r.fams /\ n.rows = r.rows
        BY <1>2, <2>3, <2>4 DEF Request, SameButStep
    <2>6. Becomes(w, n) BY <2>1, <2>4
    <2>7. Good(w, n, cut[w], sessions, tokens, held, minted)
        BY <1>1, <1>2, <1>3, <1>4, <2>2, <2>3, <2>5
           DEF SameButStep, Good, Shape, Role, Linked, Ending
    <2> QED BY <1>1, <2>5, <2>6, <2>7, ReadingStep DEF SignInAccount
<1> QED BY <1>5, <1>6

LEMMA SignInRehashKeeps ==
    ASSUME Inv, ops' = ops, NEW w \in Client, SignInRehash(w)
    PROVE  Inv'
<1> DEFINE r == req[w]
           n == [r EXCEPT !.pc = "si_session"]
<1>1. w \in Actor /\ w # Admin BY ClientIsActor
<1>2. r \in Request /\ Good(w, r, cut[w], sessions, tokens, held, minted) BY <1>1, Facts
<1>3. r.pc = "si_rehash" BY DEF SignInRehash
<1>4. cut[w] = {} BY <1>1, <1>3, NothingToEnd
<1>5. cut' = [cut EXCEPT ![w] = {}] BY <1>4, Facts, <1>1 DEF SignInRehash, hisVars
<1>6. CASE RehashMatches(r)
    <2>1. account.pw = r.pw /\ r.pw \in Password
        BY <1>2, <1>3, <1>6 DEF RehashMatches, Good, Shape
    <2>2. account' = [pw |-> r.pw, modern |-> TRUE] /\ chosen' = chosen
        BY <1>6 DEF SignInRehash, hisVars
    <2>3. Opens(account', chosen')
        BY <2>1, <2>2, OpensNow DEF Opens, Hash
    <2>4. SameButStep(n, r) /\ n.pc = "si_session" /\ n.fams = r.fams /\ n.rows = r.rows
        BY <1>2, GotoStep DEF Steps
    <2>5. Becomes(w, n) BY <1>6 DEF SignInRehash, Goto, Becomes
    <2> HIDE DEF n
    <2>6. Good(w, n, {}, sessions, tokens, held, minted)
        BY <1>1, <1>2, <1>3, <1>4, <2>4 DEF SameButStep, Good, Shape, Role, Linked, Ending
    <2> QED BY <1>1, <1>5, <2>3, <2>4, <2>5, <2>6, DropStep DEF SignInRehash, hisVars, Becomes
<1>7. CASE ~RehashMatches(r)
    BY <1>1, <1>5, <1>7, IdleIsGood, OpensNow, DropStep DEF SignInRehash, hisVars, Becomes, Ends
<1> QED BY <1>6, <1>7

LEMMA SignInSessionKeeps ==
    ASSUME Inv, ops' = ops, NEW w \in Client, SignInSession(w)
    PROVE  Inv'
<1> DEFINE r == req[w]
<1>1. w \in Actor /\ w # Admin BY ClientIsActor
<1>2. r \in Request /\ Good(w, r, cut[w], sessions, tokens, held, minted) BY <1>1, Facts
<1>3. r.pc = "si_session" BY DEF SignInSession
<1>4. cut[w] = {} BY <1>1, <1>3, NothingToEnd
<1>5. cut' = [cut EXCEPT ![w] = {}] BY <1>4, Facts, <1>1 DEF SignInSession
<1>6. PICK c \in Chain :
          /\ minted[c] = 0
          /\ sessions' = sessions \cup {<<c, 0>>}
          /\ minted' = [minted EXCEPT ![c] = 1]
          /\ basis' = [basis EXCEPT ![c] = r.pw]
          /\ Becomes(w, [r EXCEPT !.pc = "si_check", !.new = <<c, 0>>])
    BY DEF SignInSession
<1>7. PICK n : n = [r EXCEPT !.pc = "si_check", !.new = <<c, 0>>] OBVIOUS
<1>8. <<c, 0>> \in Credential BY BoundsAssumption DEF Credential
<1>9. Store(sessions, tokens, held, minted) BY Facts
<1>10. \A x \in sessions \cup tokens \cup held : x[1] # c
    BY <1>6, <1>9, InChain DEF Store, Numbered
<1>11. /\ SameButStep(n, r) /\ n.pc = "si_check" /\ n.new = <<c, 0>>
       /\ n.fams = r.fams /\ n.rows = r.rows
    <2>1. "si_check" \in Steps BY DEF Steps
    <2> QED BY <1>2, <1>8, <1>7, <2>1 DEF SameButStep, Request
<1>12. Becomes(w, n) BY <1>6, <1>7
<1>13. minted' \in [Chain -> 0 .. MaxGen] /\ minted'[c] = 1
       /\ \A d \in Chain : minted[d] <= minted'[d]
    BY <1>6, <1>9, BoundsAssumption DEF Store
<1>14. Effect(r, sessions, tokens, held, minted, sessions', tokens', held', minted')
    BY <1>6, <1>8, <1>9, <1>13 DEF SignInSession, Effect, Store
<1>15. Good(w, n, {}, sessions', tokens', held', minted')
    BY <1>1, <1>2, <1>3, <1>8, <1>10, <1>11, <1>13
       DEF SameButStep, Good, Shape, Role, Linked, Ending, Holds, SignInSession
<1>16. minted[c] <= 0 /\ n.new[1] = c /\ n.new[2] = 0
    BY <1>6, <1>11
<1>17. Moves(w, n, {})
    BY <1>5, <1>12, <1>14, <1>15, <1>16 DEF Moves, Becomes
<1>18. /\ basis' \in [Chain -> Password \cup {NoPassword}]
       /\ used' \subseteq tokens' /\ ended \subseteq Chain
    BY <1>2, <1>3, <1>6 DEF Inv, TypeOK, Good, Shape, SignInSession
<1> QED BY <1>1, <1>11, <1>17, <1>18, OpensNow, Step DEF SignInSession

LEMMA SignInCheckKeeps ==
    ASSUME Inv, ops' = ops, NEW w \in Client, SignInCheck(w)
    PROVE  Inv'
<1> DEFINE r == req[w]
<1>1. w \in Actor /\ w # Admin BY ClientIsActor
<1>2. r \in Request /\ Good(w, r, cut[w], sessions, tokens, held, minted) BY <1>1, Facts
<1>3. r.pc = "si_check" BY DEF SignInCheck
<1>4. cut[w] = {} BY <1>1, <1>3, NothingToEnd
<1>5. PICK p \in {"si_drop", "si_issue", "si_answer"} :
          Becomes(w, [r EXCEPT !.pc = p]) /\ (p # "si_drop" => active)
    BY DEF SignInCheck, Goto, Becomes, IssuedUserOK
<1>6. PICK n : n = [r EXCEPT !.pc = p] OBVIOUS
<1>7. SameButStep(n, r) /\ n.pc = p /\ n.new = r.new /\ n.fams = r.fams /\ n.rows = r.rows
    BY <1>2, <1>6 DEF SameButStep, Request
<1>8. Good(w, n, cut[w], sessions, tokens, held, minted)
    BY <1>1, <1>2, <1>3, <1>4, <1>7 DEF SameButStep, Good, Shape, Role, Linked, Ending
<1> QED BY <1>1, <1>3, <1>5, <1>6, <1>7, <1>8, ReadingStep DEF SignInCheck

LEMMA SignInDropKeeps ==
    ASSUME Inv, ops' = ops, NEW w \in Client, SignInDrop(w)
    PROVE  Inv'
<1>1. w \in Actor /\ w # Admin BY ClientIsActor
<1>2. cut[w] = {} BY <1>1, NothingToEnd DEF SignInDrop
<1>3. PICK rows : DeleteRows(rows) BY DEF SignInDrop
<1>4. Becomes(w, Idle) BY DEF SignInDrop, Ends
<1>5. Good(w, Idle, cut[w], sessions \ rows, tokens, held, minted) BY <1>2, IdleIsGood
<1> QED BY <1>1, <1>3, <1>4, <1>5, IdleIsGood, DeletingStep DEF SignInDrop

LEMMA SignInIssueKeeps ==
    ASSUME Inv, ops' = ops, NEW w \in Client, SignInIssue(w)
    PROVE  Inv'
<1> DEFINE r == req[w]
<1>1. w \in Actor /\ w # Admin BY ClientIsActor
<1>2. r \in Request /\ Good(w, r, cut[w], sessions, tokens, held, minted) BY <1>1, Facts
<1>3. r.pc = "si_issue" BY DEF SignInIssue
<1>4. cut[w] = {} BY <1>1, <1>3, NothingToEnd
<1>5. cut' = [cut EXCEPT ![w] = {}] BY <1>1, <1>4, Facts DEF SignInIssue, hisVars
<1>6. PICK n : n = [r EXCEPT !.pc = "si_answer"] OBVIOUS
<1>7. /\ SameButStep(n, r) /\ n.pc = "si_answer" /\ n.new = r.new
      /\ n.fams = r.fams /\ n.rows = r.rows
    BY <1>2, <1>6 DEF SameButStep, Request
<1>8. r.new \in Credential BY <1>2, <1>3 DEF Good, Shape
<1>9. Store(sessions, tokens, held, minted) BY Facts
<1>10. Effect(r, sessions, tokens, held, minted, sessions', tokens', held', minted')
    <2>1. \A c \in Chain : minted[c] <= minted[c] BY <1>9, BoundsAssumption DEF Store
    <2>2. /\ sessions' = sessions /\ held' = held /\ minted' = minted
          /\ tokens' = tokens \cup {r.new}
        BY DEF SignInIssue, hisVars
    <2> QED BY <1>3, <1>8, <1>9, <2>1, <2>2 DEF Effect, Store
<1>11. Good(w, n, {}, sessions', tokens', held', minted')
    BY <1>1, <1>2, <1>3, <1>7, <1>8
       DEF SameButStep, Good, Shape, Role, Linked, Ending, SignInIssue, hisVars
<1>12. Becomes(w, n) BY <1>6 DEF SignInIssue, Goto, Becomes
<1>13. Moves(w, n, {}) BY <1>3, <1>5, <1>7, <1>10, <1>11, <1>12 DEF Moves, Becomes
<1>14. /\ basis' \in [Chain -> Password \cup {NoPassword}]
       /\ used' \subseteq tokens' /\ ended \subseteq Chain
    BY DEF Inv, TypeOK, SignInIssue, hisVars
<1> QED BY <1>1, <1>3, <1>7, <1>13, <1>14, OpensNow, Step DEF SignInIssue, hisVars

LEMMA SignInAnswerKeeps ==
    ASSUME Inv, ops' = ops, NEW w \in Client, SignInAnswer(w)
    PROVE  Inv'
<1> DEFINE r == req[w]
<1>1. w \in Actor /\ w # Admin BY ClientIsActor
<1>2. r \in Request /\ Good(w, r, cut[w], sessions, tokens, held, minted) BY <1>1, Facts
<1>3. r.pc = "si_answer" BY DEF SignInAnswer
<1>4. cut[w] = {} BY <1>1, <1>3, NothingToEnd
<1>5. cut' = [cut EXCEPT ![w] = {}] BY <1>1, <1>4, Facts DEF SignInAnswer
<1>6. r.new \in Credential BY <1>2, <1>3 DEF Good, Shape
<1>7. Store(sessions, tokens, held, minted) BY Facts
<1>8. Effect(r, sessions, tokens, held, minted, sessions', tokens', held', minted')
    <2>1. \A c \in Chain : minted[c] <= minted[c] BY <1>7, BoundsAssumption DEF Store
    <2> QED BY <1>3, <1>6, <1>7, <2>1 DEF Effect, Store, SignInAnswer, storeVars
<1>9. Moves(w, Idle, {}) BY <1>5, <1>8, IdleIsGood DEF Moves, Becomes, Ends, SignInAnswer
<1>10. /\ basis' \in [Chain -> Password \cup {NoPassword}]
       /\ used' \subseteq tokens' /\ ended \subseteq Chain
    BY DEF Inv, TypeOK, SignInAnswer, storeVars
<1> QED BY <1>1, <1>9, <1>10, IdleIsGood, OpensNow, Step DEF SignInAnswer, storeVars
------------------------------------------------------------------------------
LEMMA RefreshStartKeeps ==
    ASSUME Inv, ops' = ops, NEW w \in Client, NEW x \in Credential, RefreshStart(w, x)
    PROVE  Inv'
<1>1. w \in Actor /\ w # Admin BY ClientIsActor
<1>2. cut[w] = {} BY <1>1, NothingToEnd DEF RefreshStart, Starts
<1>3. PICK r : r = [Idle EXCEPT !.pc = "rf_valid", !.op = "refresh", !.cur = x] OBVIOUS
<1>4. /\ r.pc = "rf_valid" /\ r.op = "refresh" /\ r.cur = x
      /\ r.rows = {} /\ r.fams = {} /\ r \in Request
    BY <1>3 DEF Idle, Request
<1>5. Good(w, r, {}, sessions, tokens, held, minted)
    BY <1>1, <1>4 DEF Good, Shape, Role, Linked, Ending, RefreshStart
<1> QED BY <1>1, <1>2, <1>3, <1>4, <1>5, ReadingStep DEF RefreshStart

LEMMA RefreshValidKeeps ==
    ASSUME Inv, ops' = ops, NEW w \in Client, NEW second \in BOOLEAN, RefreshValid(w, second)
    PROVE  Inv'
<1> DEFINE r == req[w]
<1>1. w \in Actor /\ w # Admin BY ClientIsActor
<1>2. r \in Request /\ Good(w, r, cut[w], sessions, tokens, held, minted) BY <1>1, Facts
<1>3. r.pc \in {"rf_valid", "rf_valid2"} BY DEF RefreshValid
<1>4. cut[w] = {} BY <1>1, <1>3, NothingToEnd
<1>5. ASSUME NEW p \in Steps, Becomes(w, [r EXCEPT !.pc = p]),
             \/ r.pc = "rf_valid" /\ p \in {"rf_burn", "rf_user"}
             \/ r.pc = "rf_valid2" /\ p \in {"rf_abort", "rf_burn2", "rf_rotate"}
      PROVE  Inv'
    <2>1. PICK n : n = [r EXCEPT !.pc = p] OBVIOUS
    <2>2. SameButStep(n, r) /\ n.pc = p /\ n.new = r.new /\ n.fams = r.fams /\ n.rows = r.rows
        BY <1>2, <1>5, <2>1 DEF SameButStep, Request
    <2>3. Good(w, n, cut[w], sessions, tokens, held, minted)
        BY <1>1, <1>2, <1>4, <1>5, <2>2 DEF SameButStep, Good, Shape, Role, Linked, Ending
    <2> QED BY <1>1, <1>5, <2>1, <2>2, <2>3, ReadingStep DEF RefreshValid
<1>6. ASSUME Becomes(w, Idle) PROVE Inv'
    BY <1>4, <1>6, EndingStep DEF RefreshValid
<1>7. CASE second = TRUE
    BY <1>5, <1>7 DEF RefreshValid, Goto, Becomes, Steps
<1>8. CASE second = FALSE
    BY <1>5, <1>6, <1>8 DEF RefreshValid, Goto, Ends, Becomes, Steps
<1> QED BY <1>7, <1>8

LEMMA RefreshUserKeeps ==
    ASSUME Inv, ops' = ops, NEW w \in Client, RefreshUser(w)
    PROVE  Inv'
<1> DEFINE r == req[w]
<1>1. w \in Actor /\ w # Admin BY ClientIsActor
<1>2. r \in Request /\ Good(w, r, cut[w], sessions, tokens, held, minted) BY <1>1, Facts
<1>3. r.pc = "rf_user" BY DEF RefreshUser
<1>4. cut[w] = {} BY <1>1, <1>3, NothingToEnd
<1>5. PICK n : n = [r EXCEPT !.pc = "rf_renew", !.user = TRUE] OBVIOUS
<1>6. SameButStep(n, r) /\ n.pc = "rf_renew" /\ n.fams = r.fams /\ n.rows = r.rows
    BY <1>2, <1>5 DEF SameButStep, Request
<1>7. Good(w, n, cut[w], sessions, tokens, held, minted)
    BY <1>1, <1>2, <1>3, <1>4, <1>6 DEF SameButStep, Good, Shape, Role, Linked, Ending
<1>8. CASE active
    BY <1>1, <1>5, <1>6, <1>7, <1>8, ReadingStep DEF RefreshUser
<1>9. CASE ~active
    BY <1>4, <1>9, EndingStep DEF RefreshUser
<1> QED BY <1>8, <1>9

LEMMA RefreshRenewKeeps ==
    ASSUME Inv, ops' = ops, NEW w \in Client, RefreshRenew(w)
    PROVE  Inv'
<1> DEFINE r == req[w]
           c == r.cur[1]
           x == <<c, minted[c]>>
<1>1. w \in Actor /\ w # Admin BY ClientIsActor
<1>2. r \in Request /\ Good(w, r, cut[w], sessions, tokens, held, minted) BY <1>1, Facts
<1>3. r.pc = "rf_renew" /\ minted[c] < MaxGen BY DEF RefreshRenew
<1>4. cut[w] = {} BY <1>1, <1>3, NothingToEnd
<1>5. cut' = [cut EXCEPT ![w] = {}] BY <1>1, <1>4, Facts DEF RefreshRenew, hisVars
<1>6. Store(sessions, tokens, held, minted) BY Facts
<1>7. r.cur \in held /\ c \in Chain
    BY <1>2, <1>3, <1>6, NoneAssumption, InChain DEF Good, Shape, Linked, Store
<1>8. minted[c] \in Nat /\ minted[c] # 0
    BY <1>6, <1>7, InChain, BoundsAssumption DEF Store, Numbered
<1>9. x \in Credential BY <1>3, <1>7, <1>8, BoundsAssumption DEF Credential
<1>10. sessions' = sessions \cup {x} /\ minted' = [minted EXCEPT ![c] = @ + 1]
    BY DEF RefreshRenew
<1>11. minted' \in [Chain -> 0 .. MaxGen] /\ minted'[c] = minted[c] + 1
    BY <1>3, <1>6, <1>7, <1>8, <1>10, BoundsAssumption DEF Store
<1>12. \A d \in Chain : minted[d] <= minted'[d]
    BY <1>6, <1>7, <1>8, <1>10, <1>11, BoundsAssumption DEF Store
<1>13. x \notin held
    BY <1>6, <1>7, <1>8 DEF Store, Numbered
<1>14. PICK n : n = [r EXCEPT !.pc = "rf_check", !.new = x] OBVIOUS
<1>15. /\ SameButStep(n, r) /\ n.pc = "rf_check" /\ n.new = x
       /\ n.fams = r.fams /\ n.rows = r.rows
    BY <1>2, <1>9, <1>14 DEF SameButStep, Request
<1>16. Becomes(w, n) BY <1>14 DEF RefreshRenew
<1>17. x[1] = c /\ x[2] = minted[c] OBVIOUS
<1>18. held' = held /\ tokens' = tokens BY DEF RefreshRenew, hisVars
<1> HIDE DEF x
<1>19. Effect(r, sessions, tokens, held, minted, sessions', tokens', held', minted')
    BY <1>6, <1>8, <1>9, <1>10, <1>11, <1>12, <1>17, <1>18 DEF Effect, Store
<1>20. Good(w, n, {}, sessions', tokens', held', minted')
    <2>1. Shape(n) BY <1>2, <1>3, <1>8, <1>9, <1>15, <1>17 DEF SameButStep, Good, Shape
    <2>2. Linked(n, sessions', tokens', held', minted')
        BY <1>7, <1>8, <1>11, <1>13, <1>15, <1>17, <1>18 DEF SameButStep, Linked
    <2> QED BY <1>1, <1>2, <1>3, <1>15, <2>1, <2>2 DEF SameButStep, Good, Role, Shape, Ending
<1>21. Moves(w, n, {})
    BY <1>5, <1>8, <1>15, <1>16, <1>17, <1>19, <1>20 DEF Moves, Becomes
<1>22. /\ basis' \in [Chain -> Password \cup {NoPassword}]
       /\ used' \subseteq tokens' /\ ended \subseteq Chain
    BY DEF Inv, TypeOK, RefreshRenew, hisVars
<1> QED BY <1>1, <1>15, <1>21, <1>22, OpensNow, Step DEF RefreshRenew, hisVars

LEMMA RefreshCheckKeeps ==
    ASSUME Inv, ops' = ops, NEW w \in Client, RefreshCheck(w)
    PROVE  Inv'
<1> DEFINE r == req[w]
<1>1. w \in Actor /\ w # Admin BY ClientIsActor
<1>2. r \in Request /\ Good(w, r, cut[w], sessions, tokens, held, minted) BY <1>1, Facts
<1>3. r.pc = "rf_check" BY DEF RefreshCheck
<1>4. cut[w] = {} BY <1>1, <1>3, NothingToEnd
<1>5. PICK p \in {"rf_valid2", "rf_drop"} :
          Becomes(w, [r EXCEPT !.pc = p]) /\ (p = "rf_valid2" => active)
    BY DEF RefreshCheck, Goto, Becomes, IssuedUserOK
<1>6. PICK n : n = [r EXCEPT !.pc = p] OBVIOUS
<1>7. SameButStep(n, r) /\ n.pc = p /\ n.new = r.new /\ n.fams = r.fams /\ n.rows = r.rows
    BY <1>2, <1>6 DEF SameButStep, Request
<1>8. Good(w, n, cut[w], sessions, tokens, held, minted)
    BY <1>1, <1>2, <1>3, <1>4, <1>7 DEF SameButStep, Good, Shape, Role, Linked, Ending
<1> QED BY <1>1, <1>3, <1>5, <1>6, <1>7, <1>8, ReadingStep DEF RefreshCheck

LEMMA RefreshRotateKeeps ==
    ASSUME Inv, ops' = ops, NEW w \in Client, RefreshRotate(w)
    PROVE  Inv'
<1> DEFINE r == req[w]
<1>1. w \in Actor /\ w # Admin BY ClientIsActor
<1>2. r \in Request /\ Good(w, r, cut[w], sessions, tokens, held, minted) BY <1>1, Facts
<1>3. r.pc = "rf_rotate" BY DEF RefreshRotate
<1>4. cut[w] = {} BY <1>1, <1>3, NothingToEnd
<1>5. r.new \in Credential BY <1>2, <1>3 DEF Good, Shape
<1>6. Store(sessions, tokens, held, minted) BY Facts
<1>7. CASE MayRotate(r.cur)
    <2>1. PICK n : n = [r EXCEPT !.pc = "rf_finish"] OBVIOUS
    <2>2. /\ SameButStep(n, r) /\ n.pc = "rf_finish" /\ n.new = r.new
          /\ n.fams = r.fams /\ n.rows = r.rows
        BY <1>2, <2>1 DEF SameButStep, Request
    <2>3. /\ Becomes(w, n) /\ tokens' = tokens \cup {r.new}
          /\ used' = used \cup (tokens \cap {r.cur})
        BY <1>7, <2>1 DEF RefreshRotate, Goto, Becomes
    <2>4. /\ sessions' = sessions /\ held' = held /\ minted' = minted
          /\ cut' = [cut EXCEPT ![w] = {}]
        BY <1>1, <1>4, Facts DEF RefreshRotate, hisVars
    <2>5. Effect(r, sessions, tokens, held, minted, sessions', tokens', held', minted')
        <3>1. \A c \in Chain : minted[c] <= minted[c] BY <1>6, BoundsAssumption DEF Store
        <3> QED BY <1>3, <1>5, <1>6, <1>7, <2>3, <2>4, <3>1 DEF Effect, Store, MayRotate
    <2>6. Good(w, n, {}, sessions', tokens', held', minted')
        BY <1>1, <1>2, <1>3, <2>2, <2>3, <2>4
           DEF SameButStep, Good, Shape, Role, Linked, Ending
    <2>7. Moves(w, n, {}) BY <1>3, <2>2, <2>3, <2>4, <2>5, <2>6 DEF Moves, Becomes
    <2>8. /\ basis' \in [Chain -> Password \cup {NoPassword}]
          /\ used' \subseteq tokens' /\ ended \subseteq Chain
        BY <2>3 DEF Inv, TypeOK, RefreshRotate, hisVars
    <2> QED BY <1>1, <1>3, <2>2, <2>7, <2>8, OpensNow, Step DEF RefreshRotate, hisVars
<1>8. CASE ~MayRotate(r.cur)
    <2>1. PICK n : n = [r EXCEPT !.pc = "rf_burn2"] OBVIOUS
    <2>2. /\ SameButStep(n, r) /\ n.pc = "rf_burn2" /\ n.new = r.new
          /\ n.fams = r.fams /\ n.rows = r.rows
        BY <1>2, <2>1 DEF SameButStep, Request
    <2>3. Becomes(w, n) /\ Reading
        BY <1>8, <2>1 DEF RefreshRotate, Goto, Becomes, Reading, storeVars
    <2>4. Good(w, n, cut[w], sessions, tokens, held, minted)
        BY <1>1, <1>2, <1>3, <1>4, <2>2 DEF SameButStep, Good, Shape, Role, Linked, Ending
    <2> QED BY <1>1, <1>3, <2>2, <2>3, <2>4, ReadingStep
<1> QED BY <1>7, <1>8

LEMMA RefreshFinishKeeps ==
    ASSUME Inv, ops' = ops, NEW w \in Client, RefreshFinish(w)
    PROVE  Inv'
<1> DEFINE r == req[w]
<1>1. w \in Actor /\ w # Admin BY ClientIsActor
<1>2. r \in Request /\ Good(w, r, cut[w], sessions, tokens, held, minted) BY <1>1, Facts
<1>3. r.pc = "rf_finish" BY DEF RefreshFinish
<1>4. cut[w] = {} BY <1>1, <1>3, NothingToEnd
<1>5. cut' = [cut EXCEPT ![w] = {}] BY <1>1, <1>4, Facts DEF RefreshFinish
<1>6. r.new \in Credential BY <1>2, <1>3 DEF Good, Shape
<1>7. Store(sessions, tokens, held, minted) BY Facts
<1>8. /\ sessions' = sessions \ {r.cur} /\ held' = held \cup {r.new}
      /\ tokens' = tokens /\ minted' = minted
    BY DEF RefreshFinish, DeleteRows
<1>9. Effect(r, sessions, tokens, held, minted, sessions', tokens', held', minted')
    <2>1. \A c \in Chain : minted[c] <= minted[c] BY <1>7, BoundsAssumption DEF Store
    <2> QED BY <1>3, <1>6, <1>7, <1>8, <2>1 DEF Effect, Store
<1>10. Moves(w, Idle, {}) BY <1>5, <1>9, IdleIsGood DEF Moves, Becomes, Ends, RefreshFinish
<1>11. /\ basis' \in [Chain -> Password \cup {NoPassword}]
       /\ used' \subseteq tokens' /\ ended \subseteq Chain
    BY DEF Inv, TypeOK, RefreshFinish
<1> QED BY <1>1, <1>10, <1>11, IdleIsGood, OpensNow, Step DEF RefreshFinish

LEMMA RefreshBurnKeeps ==
    ASSUME Inv, ops' = ops, NEW w \in Client, NEW second \in BOOLEAN, RefreshBurn(w, second)
    PROVE  Inv'
<1> DEFINE r == req[w]
<1>1. w \in Actor /\ w # Admin BY ClientIsActor
<1>2. r \in Request /\ Good(w, r, cut[w], sessions, tokens, held, minted) BY <1>1, Facts
<1>3. r.pc \in {"rf_burn", "rf_burn2"} BY DEF RefreshBurn
<1>4. cut[w] = {} BY <1>1, <1>3, NothingToEnd
<1>5. PICK c : DeleteFamily(c) BY DEF RefreshBurn
<1>6. ASSUME Becomes(w, Idle) PROVE Inv'
    <2>1. Good(w, Idle, cut[w], sessions', tokens', held, minted) BY <1>4, IdleIsGood
    <2> QED BY <1>1, <1>5, <1>6, <2>1, IdleIsGood, FamilyStep DEF RefreshBurn
<1>7. ASSUME r.pc = "rf_burn2", Becomes(w, [r EXCEPT !.pc = "rf_abort"]) PROVE Inv'
    <2>1. PICK n : n = [r EXCEPT !.pc = "rf_abort"] OBVIOUS
    <2>2. /\ SameButStep(n, r) /\ n.pc = "rf_abort" /\ n.new = r.new
          /\ n.fams = r.fams /\ n.rows = r.rows
        BY <1>2, <2>1 DEF SameButStep, Request
    <2>3. Good(w, n, cut[w], sessions', tokens', held, minted)
        BY <1>1, <1>2, <1>4, <1>7, <2>2 DEF SameButStep, Good, Shape, Role, Linked, Ending
    <2> QED BY <1>1, <1>5, <1>7, <2>1, <2>2, <2>3, FamilyStep DEF RefreshBurn
<1>8. CASE second = TRUE BY <1>7, <1>8 DEF RefreshBurn, Goto, Becomes
<1>9. CASE second = FALSE BY <1>6, <1>9 DEF RefreshBurn, Ends
<1> QED BY <1>8, <1>9

LEMMA RefreshAbortKeeps ==
    ASSUME Inv, ops' = ops, NEW w \in Client, RefreshAbort(w)
    PROVE  Inv'
<1>1. w \in Actor /\ w # Admin BY ClientIsActor
<1>2. cut[w] = {} BY <1>1, NothingToEnd DEF RefreshAbort
<1>3. PICK rows : DeleteRows(rows) BY DEF RefreshAbort
<1>4. Becomes(w, Idle) BY DEF RefreshAbort, Ends
<1>5. Good(w, Idle, cut[w], sessions \ rows, tokens, held, minted) BY <1>2, IdleIsGood
<1> QED BY <1>1, <1>3, <1>4, <1>5, IdleIsGood, DeletingStep DEF RefreshAbort
------------------------------------------------------------------------------
LEMMA ResetStartKeeps ==
    ASSUME Inv, ops' = ops, NEW w \in Client, NEW pw \in Password, ResetStart(w, pw)
    PROVE  Inv'
<1>1. w \in Actor /\ w # Admin BY ClientIsActor
<1>2. cut[w] = {} BY <1>1, NothingToEnd DEF ResetStart, Starts
<1>3. PICK r : r = [Idle EXCEPT !.pc = "wd_write", !.op = "reset", !.pw = pw, !.seen = account]
    OBVIOUS
<1>4. account \in Hash BY DEF Inv, TypeOK
<1>5. /\ r.pc = "wd_write" /\ r.op = "reset" /\ r.pw = pw /\ r.cur = None
      /\ r.rows = {} /\ r.fams = {} /\ r \in Request
    BY <1>3, <1>4 DEF Idle, Request
<1>6. Good(w, r, {}, sessions, tokens, held, minted)
    BY <1>1, <1>5 DEF Good, Shape, Role, Linked, Ending
<1> QED BY <1>1, <1>2, <1>3, <1>5, <1>6, ReadingStep DEF ResetStart

LEMMA ChooseStartKeeps ==
    ASSUME Inv, ops' = ops, NEW w \in Client, NEW x \in Credential, NEW pw \in Password,
           ChangeStart(w, x, pw) \/ SetStart(w, x, pw)
    PROVE  Inv'
<1>1. w \in Actor /\ w # Admin BY ClientIsActor
<1>2. cut[w] = {} BY <1>1, NothingToEnd DEF ChangeStart, SetStart, Starts
<1>3. PICK op \in {"change", "set"} :
          Becomes(w, [Idle EXCEPT !.pc = "wd_write", !.op = op, !.pw = pw, !.seen = account,
                                  !.cur = x])
    BY DEF ChangeStart, SetStart
<1>4. PICK r : r = [Idle EXCEPT !.pc = "wd_write", !.op = op, !.pw = pw, !.seen = account,
                                !.cur = x]
    OBVIOUS
<1>5. account \in Hash BY DEF Inv, TypeOK
<1>6. /\ r.pc = "wd_write" /\ r.op = op /\ r.pw = pw /\ r.cur = x
      /\ r.rows = {} /\ r.fams = {} /\ r \in Request
    BY <1>4, <1>5 DEF Idle, Request
<1>7. x \in held /\ Reading BY DEF ChangeStart, SetStart, Authenticated
<1>8. Good(w, r, {}, sessions, tokens, held, minted)
    BY <1>1, <1>6, <1>7 DEF Good, Shape, Role, Linked, Ending
<1> QED BY <1>1, <1>2, <1>3, <1>4, <1>6, <1>7, <1>8, ReadingStep

LEMMA HeldChains ==
    ASSUME Inv
    PROVE  Held \subseteq Chain /\ \A c \in Held : Holds(c, held)
BY Facts, InChain DEF Held, Holds, Store

LEMMA RevokeOthersStartKeeps ==
    ASSUME Inv, ops' = ops, NEW w \in Client, NEW x \in Credential, RevokeOthersStart(w, x)
    PROVE  Inv'
<1>1. w \in Actor /\ w # Admin BY ClientIsActor
<1>2. PICK r : r = [Idle EXCEPT !.pc = "wd_others", !.op = "revoke", !.cur = x] OBVIOUS
<1>3. /\ r.pc = "wd_others" /\ r.op = "revoke" /\ r.cur = x
      /\ r.rows = {} /\ r.fams = {} /\ r \in Request
    BY <1>2 DEF Idle, Request
<1>4. x \in held BY DEF RevokeOthersStart, Authenticated
<1>5. PICK k : k = Held \ {x[1]} OBVIOUS
<1>6. k \in SUBSET Chain /\ (\A c \in k : Holds(c, held)) /\ x[1] \notin k
    BY <1>5, HeldChains
<1>7. Good(w, r, k, sessions, tokens, held, minted)
    BY <1>1, <1>3, <1>4, <1>6 DEF Good, Shape, Role, Linked, Ending
<1>8. req' = [req EXCEPT ![w] = r] /\ cut' = [cut EXCEPT ![w] = k]
    BY <1>2, <1>5 DEF RevokeOthersStart, Becomes
<1> QED BY <1>1, <1>3, <1>6, <1>7, <1>8, OpensNow, DropStep DEF RevokeOthersStart, storeVars

LEMMA EndSessionStartKeeps ==
    ASSUME Inv, ops' = ops, NEW w \in Client, NEW x \in Credential,
           NEW op \in {"revoke", "sign_out"}, EndSessionStart(w, x, op)
    PROVE  Inv'
<1>1. w \in Actor /\ w # Admin BY ClientIsActor
<1>2. PICK r : r = [Idle EXCEPT !.pc = "wd_one", !.op = "sign_out", !.cur = x] OBVIOUS
<1>3. /\ r.pc = "wd_one" /\ r.op = "sign_out" /\ r.cur = x
      /\ r.rows = {} /\ r.fams = {} /\ r \in Request
    BY <1>2 DEF Idle, Request
<1>4. x \in held BY DEF EndSessionStart
<1>5. Holds(x[1], held) /\ {x[1]} \in SUBSET Chain BY <1>4, InChain DEF Holds
<1>6. Good(w, r, {x[1]}, sessions, tokens, held, minted)
    BY <1>1, <1>3, <1>4, <1>5 DEF Good, Shape, Role, Linked, Ending
<1>7. req' = [req EXCEPT ![w] = r] /\ cut' = [cut EXCEPT ![w] = {x[1]}]
    BY <1>2 DEF EndSessionStart, Becomes
<1> QED BY <1>1, <1>3, <1>5, <1>6, <1>7, OpensNow, DropStep DEF EndSessionStart, storeVars

LEMMA WriteKeeps ==
    ASSUME Inv, ops' = ops, NEW w \in Client, Write(w)
    PROVE  Inv'
<1> DEFINE r == req[w]
<1>1. w \in Actor /\ w # Admin BY ClientIsActor
<1>2. r \in Request /\ Good(w, r, cut[w], sessions, tokens, held, minted) BY <1>1, Facts
<1>3. r.pc = "wd_write" BY DEF Write
<1>4. cut[w] = {} BY <1>1, <1>3, NothingToEnd
<1>5. r.pw \in Password /\ r.op \in {"reset", "change", "set"}
    BY <1>2, <1>3 DEF Good, Shape
<1>6. Opens(account', chosen')
    <2>1. account' = [pw |-> r.pw, modern |-> TRUE] /\ chosen' = r.pw BY DEF Write
    <2> QED BY <1>5, <2>1 DEF Opens, Hash
<1>7. UNCHANGED <<active, sessions, tokens, used, minted, held, ended, doomed, settled, basis>>
    BY DEF Write
<1>8. CASE Becomes(w, Idle) /\ UNCHANGED cut
    <2>1. cut' = [cut EXCEPT ![w] = {}] BY <1>1, <1>4, <1>8, Facts
    <2> QED BY <1>1, <1>6, <1>7, <1>8, <2>1, IdleIsGood, DropStep DEF Becomes
<1>9. ASSUME NEW p, r.op = "reset" => p = "wd_all", r.op = "change" => p = "wd_list",
             r.op = "set" => p = "wd_others",
             Becomes(w, [r EXCEPT !.pc = p]),
             cut' = [cut EXCEPT ![w] = IF r.op = "reset" THEN Held ELSE Held \ {r.cur[1]}]
      PROVE  Inv'
    <2>1. PICK n : n = [r EXCEPT !.pc = p] OBVIOUS
    <2>2. PICK k : k = IF r.op = "reset" THEN Held ELSE Held \ {r.cur[1]} OBVIOUS
    <2>3. SameButStep(n, r) /\ n.pc = p /\ n.fams = r.fams /\ n.rows = r.rows
        <3>1. p \in {"wd_all", "wd_list", "wd_others"} BY <1>5, <1>9
        <3> QED BY <1>2, <2>1, <3>1 DEF SameButStep, Request
    <2>4. /\ k \in SUBSET Chain /\ \A c \in k : Holds(c, held)
          /\ r.op \in {"change", "set"} => r.cur[1] \notin k
        BY <2>2, HeldChains
    <2>5. Good(w, n, k, sessions, tokens, held, minted)
        BY <1>1, <1>2, <1>3, <1>5, <1>9, <2>3, <2>4
           DEF SameButStep, Good, Shape, Role, Linked, Ending
    <2>6. req' = [req EXCEPT ![w] = n] /\ cut' = [cut EXCEPT ![w] = k]
        BY <1>9, <2>1, <2>2 DEF Becomes
    <2>7. p \in {"wd_all", "wd_list", "wd_others"} BY <1>5, <1>9
    <2> QED BY <1>1, <1>6, <1>7, <2>3, <2>4, <2>5, <2>6, <2>7, DropStep
<1>10. CASE ~(Becomes(w, Idle) /\ UNCHANGED cut)
    BY <1>5, <1>9, <1>10 DEF Write, Goto, Becomes, Ends
<1> QED BY <1>8, <1>10

LEMMA DropAllKeeps ==
    ASSUME Inv, ops' = ops, NEW w \in Client, DropAll(w)
    PROVE  Inv'
<1> DEFINE r == req[w]
<1>1. w \in Actor /\ w # Admin BY ClientIsActor
<1>2. r \in Request /\ Good(w, r, cut[w], sessions, tokens, held, minted) BY <1>1, Facts
<1>3. r.pc = "wd_all" BY DEF DropAll
<1>4. PICK n : n = [r EXCEPT !.pc = "wd_find"] OBVIOUS
<1>5. SameButStep(n, r) /\ n.pc = "wd_find" /\ n.fams = r.fams /\ n.rows = r.rows
    BY <1>2, <1>4 DEF SameButStep, Request
<1>6. Good(w, n, cut[w], sessions \ sessions, tokens, held, minted)
    BY <1>1, <1>2, <1>3, <1>5 DEF SameButStep, Good, Shape, Role, Linked, Ending
<1>7. Becomes(w, n) BY <1>4 DEF DropAll, Goto, Becomes
<1> QED BY <1>1, <1>5, <1>6, <1>7, DeletingStep DEF DropAll

LEMMA DropOthersKeeps ==
    ASSUME Inv, ops' = ops, NEW w \in Client, DropOthers(w)
    PROVE  Inv'
<1> DEFINE r == req[w]
           rows == sessions \ {r.cur}
<1>1. w \in Actor /\ w # Admin BY ClientIsActor
<1>2. r \in Request /\ Good(w, r, cut[w], sessions, tokens, held, minted) BY <1>1, Facts
<1>3. r.pc = "wd_others" BY DEF DropOthers
<1>4. PICK n : n = [r EXCEPT !.pc = "wd_find"] OBVIOUS
<1>5. SameButStep(n, r) /\ n.pc = "wd_find" /\ n.fams = r.fams /\ n.rows = r.rows
    BY <1>2, <1>4 DEF SameButStep, Request
<1>6. Good(w, n, cut[w], sessions \ rows, tokens, held, minted)
    BY <1>1, <1>2, <1>3, <1>5 DEF SameButStep, Good, Shape, Role, Linked, Ending
<1>7. Becomes(w, n) /\ DeleteRows(rows) BY <1>4 DEF DropOthers, Goto, Becomes
<1> HIDE DEF rows
<1> QED BY <1>1, <1>5, <1>6, <1>7, DeletingStep DEF DropOthers

LEMMA ListOthersKeeps ==
    ASSUME Inv, ops' = ops, NEW w \in Client, ListOthers(w)
    PROVE  Inv'
<1> DEFINE r == req[w]
           rows == sessions \ {r.cur}
<1>1. w \in Actor /\ w # Admin BY ClientIsActor
<1>2. r \in Request /\ Good(w, r, cut[w], sessions, tokens, held, minted) BY <1>1, Facts
<1>3. r.pc = "wd_list" BY DEF ListOthers
<1>4. PICK p \in {"wd_find", "wd_delete"} :
          /\ Becomes(w, [r EXCEPT !.rows = rows, !.pc = p])
          /\ p = "wd_find" => rows = {}
    BY DEF ListOthers
<1>5. PICK n : n = [r EXCEPT !.rows = rows, !.pc = p] OBVIOUS
<1>6. rows \in SUBSET Credential BY DEF Inv, TypeOK
<1>7. SameButStep(n, r) /\ n.pc = p /\ n.fams = r.fams /\ n.rows = rows
    BY <1>2, <1>5, <1>6 DEF SameButStep, Request
<1>8. Good(w, n, cut[w], sessions, tokens, held, minted)
    BY <1>1, <1>2, <1>3, <1>4, <1>7 DEF SameButStep, Good, Shape, Role, Linked, Ending
<1> QED BY <1>1, <1>4, <1>5, <1>7, <1>8, ReadingStep DEF ListOthers

LEMMA DeleteListedKeeps ==
    ASSUME Inv, ops' = ops, NEW w \in Client, DeleteListed(w)
    PROVE  Inv'
<1> DEFINE r == req[w]
<1>1. w \in Actor /\ w # Admin BY ClientIsActor
<1>2. r \in Request /\ Good(w, r, cut[w], sessions, tokens, held, minted) BY <1>1, Facts
<1>3. r.pc = "wd_delete" BY DEF DeleteListed
<1>4. PICK s \in r.rows :
          /\ DeleteRows({s})
          /\ Becomes(w, [r EXCEPT !.rows = @ \ {s},
                                  !.pc = IF r.rows = {s} THEN "wd_find" ELSE "wd_delete"])
    BY DEF DeleteListed
<1>5. PICK p \in {"wd_find", "wd_delete"} : p = IF r.rows = {s} THEN "wd_find" ELSE "wd_delete"
    OBVIOUS
<1>6. PICK rest : rest = r.rows \ {s} OBVIOUS
<1>7. PICK n : n = [r EXCEPT !.rows = rest, !.pc = p] OBVIOUS
<1>8. rest \in SUBSET Credential BY <1>2, <1>6 DEF Request
<1>9. SameButStep(n, r) /\ n.pc = p /\ n.fams = r.fams /\ n.rows = rest
  <2>1. PICK m : m = [r EXCEPT !.rows = rest] OBVIOUS
  <2>2. n = [m EXCEPT !.pc = p] BY <1>7, <2>1, Zenon
  <2>3. SameButStep(m, r) /\ m.fams = r.fams /\ m.rows = rest /\ m \in Request
    BY <1>2, <1>8, <2>1 DEF SameButStep, Request
  <2> QED BY <1>2, <2>2, <2>3 DEF SameButStep, Request
<1>10. Becomes(w, n) BY <1>4, <1>5, <1>6, <1>7
<1>11. Good(w, n, cut[w], sessions \ {s}, tokens, held, minted)
    BY <1>1, <1>2, <1>3, <1>5, <1>6, <1>9
       DEF SameButStep, Good, Shape, Role, Linked, Ending
<1>12. UNCHANGED <<account, active, tokens, used, minted, hisVars>> BY DEF DeleteListed
<1>13. ~Issuing(n) /\ n.pc \notin CheckedPC BY <1>9
<1> QED BY <1>1, <1>4, <1>10, <1>11, <1>12, <1>13, DeletingStep

LEMMA EndSessionKeeps ==
    ASSUME Inv, ops' = ops, NEW w \in Client, EndSession(w)
    PROVE  Inv'
<1> DEFINE r == req[w]
<1>1. w \in Actor /\ w # Admin BY ClientIsActor
<1>2. r \in Request /\ Good(w, r, cut[w], sessions, tokens, held, minted) BY <1>1, Facts
<1>3. r.pc = "wd_one" BY DEF EndSession
<1>4. r.op = "sign_out" /\ r.cur \in Credential /\ r.cur \in held /\ cut[w] \subseteq {r.cur[1]}
    BY <1>2, <1>3, NoneAssumption DEF Good, Shape, Linked, Ending
<1>5. ASSUME NEW x \in sessions \cap held, x # r.cur, x[1] = r.cur[1] PROVE x \in tokens
    <2> SUFFICES ASSUME x \notin tokens PROVE FALSE OBVIOUS
    <2>1. Families(sessions, tokens, held) /\ x \in Credential BY Facts DEF Store
    <2>2. x[2] = 0 BY <2>1 DEF Families
    <2>3. r.cur[2] = 0 BY <1>4, <1>5, <2>1, <2>2 DEF Families
    <2> QED BY <1>4, <1>5, <2>1, <2>2, <2>3, InChain
<1>6. PICK n : n = [r EXCEPT !.pc = "wd_find"] OBVIOUS
<1>7. SameButStep(n, r) /\ n.pc = "wd_find" /\ n.fams = r.fams /\ n.rows = r.rows
    BY <1>2, <1>6 DEF SameButStep, Request
<1>8. \A x \in (sessions \ {r.cur}) \cap held : x[1] \in cut[w] => x \in tokens
    BY <1>4, <1>5
<1>9. Good(w, n, cut[w], sessions \ {r.cur}, tokens, held, minted)
    BY <1>1, <1>2, <1>3, <1>7, <1>8 DEF SameButStep, Good, Shape, Role, Linked, Ending
<1>10. Becomes(w, n) BY <1>6 DEF EndSession, Goto, Becomes
<1> QED BY <1>1, <1>7, <1>9, <1>10, DeletingStep DEF EndSession

(* The families a request is about to delete are all those that hold a     *)
(* token of a chain it has to end, and never the caller's.                 *)
LEMMA DoomedCovers ==
    ASSUME Inv, NEW w \in Actor, req[w].pc = "wd_find"
    PROVE  /\ Doomed(req[w]) \subseteq Chain
           /\ \A y \in tokens : y[1] \in cut[w] => y[1] \in Doomed(req[w])
           /\ req[w].op \in KeepOps => req[w].cur[1] \notin Doomed(req[w])
           /\ req[w].op \in AdminOps => \A y \in tokens : y[1] \in Doomed(req[w])
<1> DEFINE r == req[w]
<1>1. Good(w, r, cut[w], sessions, tokens, held, minted) BY Facts
<1>2. tokens \subseteq Credential /\ Families(sessions, tokens, held) BY Facts DEF Store
<1>3. r.cur # None => \A y \in tokens : y[1] = r.cur[1] => r.cur \in tokens
    BY <1>1, <1>2 DEF Good, Linked, Families
<1>4. CASE r.op = "sign_out"
    <2>1. r.cur \in Credential /\ r.cur # None /\ cut[w] \subseteq {r.cur[1]}
        BY <1>1, <1>4, NoneAssumption DEF Good, Shape, Ending
    <2>2. Doomed(r) = FamiliesOf(tokens \cap {r.cur}) BY <1>4 DEF Doomed
    <2> QED BY <1>2, <1>3, <1>4, <2>1, <2>2, InChain DEF FamiliesOf
<1>5. CASE r.op # "sign_out"
    <2>1. Doomed(r) = FamiliesOf(tokens) \ FamiliesOf(tokens \cap {r.cur}) BY <1>5 DEF Doomed
    <2>2. Doomed(r) \subseteq Chain BY <1>2, <2>1, InChain DEF FamiliesOf
    <2>3. CASE r.op \in KeepOps
        <3>1. r.cur # None /\ r.cur[1] \notin cut[w]
            BY <1>1, <2>3, NoneAssumption DEF Good, Shape, Ending
        <3> QED BY <1>3, <2>1, <2>2, <2>3, <3>1 DEF FamiliesOf
    <2>4. CASE r.op \notin KeepOps
        <3>1. r.cur = None BY <1>1, <1>5, <2>4 DEF Good, Shape
        <3>2. tokens \cap {r.cur} = {} BY <1>2, <3>1, NoneAssumption
        <3> QED BY <2>1, <2>2, <2>4, <3>2 DEF FamiliesOf
    <2> QED BY <2>3, <2>4
<1> QED BY <1>4, <1>5

LEMMA FindFamiliesKeeps ==
    ASSUME Inv, ops' = ops, NEW w \in Actor, FindFamilies(w)
    PROVE  Inv'
<1> DEFINE r == req[w]
<1>1. r \in Request /\ Good(w, r, cut[w], sessions, tokens, held, minted) BY Facts
<1>2. r.pc = "wd_find" BY DEF FindFamilies
<1>3. PICK fams : fams = Doomed(r) OBVIOUS
<1>4. /\ fams \subseteq Chain
      /\ \A y \in tokens : y[1] \in cut[w] => y[1] \in fams
      /\ r.op \in KeepOps => r.cur[1] \notin fams
      /\ r.op \in AdminOps => \A y \in tokens : y[1] \in fams
    BY <1>2, <1>3, DoomedCovers
<1>5. PICK p \in {"ad_sessions", "wd_done", "wd_family"} :
          /\ Becomes(w, [r EXCEPT !.fams = fams, !.pc = p])
          /\ p # "wd_family" => fams = {}
          /\ p = "ad_sessions" => r.op \in AdminOps
          /\ p = "wd_done" => r.op \notin AdminOps
    BY <1>3 DEF FindFamilies
<1>6. PICK n : n = [r EXCEPT !.fams = fams, !.pc = p] OBVIOUS
<1>7. SameButStep(n, r) /\ n.pc = p /\ n.fams = fams /\ n.rows = r.rows
    <2>1. n \in Request BY <1>1, <1>4, <1>6 DEF Request
    <2>2. /\ n.op = r.op /\ n.pw = r.pw /\ n.cur = r.cur /\ n.token = r.token
          /\ n.pc = p /\ n.fams = fams /\ n.rows = r.rows
        BY <1>1, <1>4, <1>6 DEF Request
    <2> QED BY <2>1, <2>2 DEF SameButStep
<1>8. Good(w, n, cut[w], sessions, tokens, held, minted)
    BY <1>1, <1>2, <1>4, <1>5, <1>7 DEF SameButStep, Good, Shape, Role, Linked, Ending
<1>9. ASSUME w = Admin PROVE Suspension(n, active, doomed, sessions, tokens, held)
    <2>1. Suspension(r, active, doomed, sessions, tokens, held) BY <1>9 DEF Inv
    <2>2. r.op \in AdminOps BY <1>1, <1>2, <1>9 DEF Good, Role
    <2> QED BY <1>2, <1>4, <1>5, <1>7, <2>1, <2>2 DEF SameButStep, Suspension
<1> QED BY <1>5, <1>6, <1>7, <1>8, <1>9, ReadingStep DEF FindFamilies

LEMMA DropFamilyKeeps ==
    ASSUME Inv, ops' = ops, NEW w \in Actor, DropFamily(w)
    PROVE  Inv'
<1> DEFINE r == req[w]
<1>1. r \in Request /\ Good(w, r, cut[w], sessions, tokens, held, minted) BY Facts
<1>2. r.pc = "wd_family" BY DEF DropFamily
<1>3. PICK c \in r.fams, p \in {"ad_sessions", "wd_done", "wd_family"} :
          /\ DeleteFamily(c)
          /\ Becomes(w, [r EXCEPT !.fams = @ \ {c}, !.pc = p])
          /\ p # "wd_family" => r.fams = {c}
          /\ p = "ad_sessions" => r.op \in AdminOps
          /\ p = "wd_done" => r.op \notin AdminOps
    BY DEF DropFamily
<1>4. PICK fams : fams = r.fams \ {c} OBVIOUS
<1>5. PICK n : n = [r EXCEPT !.fams = fams, !.pc = p] OBVIOUS
<1>6. fams \in SUBSET Chain BY <1>1, <1>4 DEF Request
<1>7. SameButStep(n, r) /\ n.pc = p /\ n.fams = fams /\ n.rows = r.rows
    <2>1. n \in Request BY <1>1, <1>5, <1>6 DEF Request
    <2>2. /\ n.op = r.op /\ n.pw = r.pw /\ n.cur = r.cur /\ n.token = r.token
          /\ n.pc = p /\ n.fams = fams /\ n.rows = r.rows
        BY <1>1, <1>5, <1>6 DEF Request
    <2> QED BY <2>1, <2>2 DEF SameButStep
<1>8. Becomes(w, n) BY <1>3, <1>4, <1>5
<1>9. /\ \A x : x \in sessions' <=> x \in sessions /\ ~(x[1] = c /\ x \in tokens)
      /\ \A y : y \in tokens' <=> y \in tokens /\ y[1] # c
    BY <1>3 DEF DeleteFamily
<1>10. Good(w, n, cut[w], sessions', tokens', held, minted)
    BY <1>1, <1>2, <1>3, <1>4, <1>7, <1>9
       DEF SameButStep, Good, Shape, Role, Linked, Ending
<1>11. ASSUME w = Admin PROVE Suspension(n, active, doomed, sessions', tokens', held)
    <2>1. Suspension(r, active, doomed, sessions, tokens, held) BY <1>11 DEF Inv
    <2>2. r.op \in AdminOps BY <1>1, <1>2, <1>11 DEF Good, Role
    <2> QED BY <1>2, <1>3, <1>4, <1>7, <1>9, <2>1, <2>2 DEF SameButStep, Suspension
<1>12. UNCHANGED <<account, active, minted, hisVars>> BY DEF DropFamily
<1> QED BY <1>3, <1>7, <1>8, <1>10, <1>11, <1>12, FamilyStep

LEMMA AnswerKeeps ==
    ASSUME Inv, ops' = ops, NEW w \in Client, Answer(w)
    PROVE  Inv'
<1> DEFINE r == req[w]
<1>1. w \in Actor /\ w # Admin BY ClientIsActor
<1>2. r \in Request /\ Good(w, r, cut[w], sessions, tokens, held, minted) BY <1>1, Facts
<1>3. r.pc = "wd_done" BY DEF Answer
<1>4. r.fams = {} BY <1>2, <1>3 DEF Good, Shape
<1>5. \A c \in cut[w] : Gone(c, sessions, tokens, held)
    BY <1>2, <1>3, <1>4 DEF Good, Ending, Gone
<1>6. Store(sessions, tokens, held, minted) /\ cut[w] \subseteq Chain BY <1>1, Facts
<1>7. UNCHANGED <<account, active, sessions, tokens, used, minted, held, chosen, doomed, settled,
                  basis>>
    BY DEF Answer, storeVars
<1>8. Effect(r, sessions, tokens, held, minted, sessions', tokens', held', minted')
    <2>1. Effect(r, sessions, tokens, held, minted, sessions, tokens, held, minted)
        BY <1>6, DropEffect
    <2> QED BY <1>7, <2>1
<1>9. req' = [req EXCEPT ![w] = Idle] /\ cut' = [cut EXCEPT ![w] = {}] /\ ended' = ended \cup cut[w]
    BY DEF Answer, Ends, Becomes
<1>10. Moves(w, Idle, {}) BY <1>8, <1>9, IdleIsGood DEF Moves
<1>11. /\ basis' \in [Chain -> Password \cup {NoPassword}] /\ used' \subseteq tokens'
       /\ ended' \subseteq Chain
    BY <1>6, <1>7, <1>9 DEF Inv, TypeOK
<1>12. Opens(account', chosen') BY <1>7, OpensNow
<1>13. \A c \in ended' \ ended : Gone(c, sessions, tokens, held) BY <1>5, <1>9
<1>14. {} \in SUBSET Chain /\ Idle.pc \notin CheckedPC BY IdleIsGood
<1> QED BY <1>1, <1>7, <1>10, <1>11, <1>12, <1>13, <1>14, Step
------------------------------------------------------------------------------
LEMMA AdminFacts ==
    ASSUME Inv
    PROVE  /\ Admin \in Actor /\ req[Admin] \in Request
           /\ Good(Admin, req[Admin], cut[Admin], sessions, tokens, held, minted)
           /\ Suspension(req[Admin], active, doomed, sessions, tokens, held)
           /\ cut[Admin] = {}
<1>1. Admin \in Actor BY DEF Actor
<1>2. /\ req[Admin] \in Request
      /\ Good(Admin, req[Admin], cut[Admin], sessions, tokens, held, minted)
    BY <1>1, Facts
<1>3. cut[Admin] = {} BY <1>2 DEF Good, Role, Ending
<1> QED BY <1>1, <1>2, <1>3 DEF Inv

LEMMA StatusStartKeeps ==
    ASSUME Inv, ops' = ops, SuspendStart \/ ActivateStart
    PROVE  Inv'
<1>1. active \in BOOLEAN BY DEF Inv, TypeOK
<1>2. ASSUME NEW r, r = [Idle EXCEPT !.pc = "ad_write", !.op = "suspend"],
             Becomes(Admin, r), Reading
      PROVE  Inv'
    <2>1. /\ r.pc = "ad_write" /\ r.op = "suspend" /\ r.cur = None
          /\ r.rows = {} /\ r.fams = {} /\ r \in Request
        BY <1>2 DEF Idle, Request
    <2>2. Good(Admin, r, {}, sessions, tokens, held, minted)
        BY <2>1 DEF Good, Shape, Role, Linked, Ending
    <2>3. Suspension(r, active, doomed, sessions, tokens, held)
        BY <2>1, AdminFacts DEF Suspension
    <2> QED BY <1>2, <2>1, <2>2, <2>3, AdminFacts, ReadingStep
<1>3. ASSUME NEW r, NEW p \in {"ad_write", "wd_find"},
             r = [Idle EXCEPT !.op = "activate", !.user = active, !.pc = p],
             active <=> p = "ad_write", Becomes(Admin, r), Reading
      PROVE  Inv'
    <2>1. /\ r.pc = p /\ r.op = "activate" /\ r.cur = None
          /\ r.rows = {} /\ r.fams = {} /\ r \in Request
        BY <1>1, <1>3 DEF Idle, Request
    <2>2. Good(Admin, r, {}, sessions, tokens, held, minted)
        BY <2>1 DEF Good, Shape, Role, Linked, Ending
    <2>3. Suspension(r, active, doomed, sessions, tokens, held)
        BY <1>3, <2>1, AdminFacts DEF Suspension
    <2> QED BY <1>3, <2>1, <2>2, <2>3, AdminFacts, ReadingStep
<1>4. CASE SuspendStart BY <1>2, <1>4 DEF SuspendStart
<1>5. CASE ActivateStart BY <1>3, <1>5 DEF ActivateStart
<1> QED BY <1>4, <1>5

(* A step of the administrator that deletes sessions at most.              *)
LEMMA AdminStep ==
    ASSUME Inv, NEW r, ops' = ops, Becomes(Admin, r), sessions' \subseteq sessions,
           UNCHANGED <<account, tokens, used, minted, held, chosen, cut, basis>>,
           Good(Admin, r, {}, sessions', tokens, held, minted), ~Issuing(r),
           active' \in BOOLEAN, doomed' \subseteq Chain, ended' \subseteq Chain,
           settled' \in BOOLEAN,
           \A c \in ended' \ ended : Gone(c, sessions, tokens, held),
           Suspension(r, active', doomed', sessions', tokens, held),
           settled' => ~active' /\ sessions' = {}
    PROVE  Inv'
<1>1. Admin \in Actor /\ cut' = [cut EXCEPT ![Admin] = {}]
    BY AdminFacts, Facts
<1>2. Store(sessions, tokens, held, minted) BY Facts
<1>3. Effect(req[Admin], sessions, tokens, held, minted, sessions', tokens', held', minted')
    BY <1>2, DropEffect
<1>4. Moves(Admin, r, {}) BY <1>1, <1>3 DEF Moves, Becomes
<1>5. /\ Requests' /\ Distinct'
      /\ Store(sessions', tokens', held', minted')
      /\ req' \in [Actor -> Request] /\ cut' \in [Actor -> SUBSET Chain]
      /\ \A c : Gone(c, sessions, tokens, held) => Gone(c, sessions', tokens', held')
    BY <1>1, <1>4, MovesKeeps
<1>6. TypeOK' BY <1>5 DEF TypeOK, Inv, Store
<1>7. (\A c \in ended : Gone(c, sessions, tokens, held))' BY <1>5 DEF Inv
<1>8. req'[Admin] = r BY <1>1, Facts DEF Becomes
<1>9. Suspension(req'[Admin], active', doomed', sessions', tokens', held') BY <1>8
<1>10. Settled' BY DEF Settled, Closed
<1> QED BY <1>5, <1>6, <1>7, <1>9, <1>10 DEF Inv, Store, PasswordIsChosen

LEMMA StatusWriteKeeps ==
    ASSUME Inv, ops' = ops, StatusWrite
    PROVE  Inv'
<1> DEFINE r == req[Admin]
<1>1. /\ r \in Request /\ Good(Admin, r, {}, sessions, tokens, held, minted)
      /\ Suspension(r, active, doomed, sessions, tokens, held)
    BY AdminFacts
<1>2. r.pc = "ad_write" BY DEF StatusWrite
<1>3. doomed \subseteq Chain /\ ended \subseteq Chain BY DEF Inv, TypeOK
<1>4. UNCHANGED <<account, sessions, tokens, used, minted, held, chosen, cut, basis>>
      /\ settled' = FALSE
    BY DEF StatusWrite
<1>5. CASE r.op = "activate"
    <2>1. Becomes(Admin, Idle) /\ active' = TRUE /\ doomed' = {} /\ ended' = ended \cup doomed
        BY <1>5 DEF StatusWrite, Ends
    <2>2. \A c \in ended' \ ended : Gone(c, sessions, tokens, held)
        BY <1>1, <1>2, <1>5, <2>1 DEF Suspension
    <2>3. Suspension(Idle, active', doomed', sessions', tokens, held)
        BY <2>1 DEF Suspension, Idle
    <2>4. /\ ended' \subseteq Chain /\ doomed' \subseteq Chain
          /\ active' \in BOOLEAN /\ settled' \in BOOLEAN
        BY <1>3, <1>4, <2>1
    <2>5. Good(Admin, Idle, {}, sessions', tokens, held, minted) /\ ~Issuing(Idle) BY IdleIsGood
    <2> QED BY <1>4, <2>1, <2>2, <2>3, <2>4, <2>5, AdminStep
<1>6. CASE r.op # "activate"
    <2>1. PICK n : n = [r EXCEPT !.pc = "wd_find"] OBVIOUS
    <2>2. /\ Becomes(Admin, n) /\ active' = FALSE /\ doomed' = doomed \cup Held
          /\ ended' = ended
        BY <1>6, <2>1 DEF StatusWrite, Goto, Becomes
    <2>3. SameButStep(n, r) /\ n.pc = "wd_find" /\ n.fams = r.fams /\ n.rows = r.rows
        BY <1>1, <2>1 DEF SameButStep, Request
    <2>4. Good(Admin, n, {}, sessions', tokens, held, minted)
        BY <1>1, <1>2, <1>4, <2>3 DEF SameButStep, Good, Shape, Role, Linked, Ending
    <2>5. Suspension(n, active', doomed', sessions', tokens, held)
        BY <1>1, <1>6, <2>2, <2>3, HeldChains DEF SameButStep, Suspension
    <2>6. /\ ended' \subseteq Chain /\ doomed' \subseteq Chain
          /\ active' \in BOOLEAN /\ settled' \in BOOLEAN
        BY <1>3, <1>4, <2>2, HeldChains
    <2> QED BY <1>4, <2>2, <2>3, <2>4, <2>5, <2>6, AdminStep
<1> QED BY <1>5, <1>6

LEMMA StatusSessionsKeeps ==
    ASSUME Inv, ops' = ops, StatusSessions
    PROVE  Inv'
<1> DEFINE r == req[Admin]
<1>1. /\ r \in Request /\ Good(Admin, r, {}, sessions, tokens, held, minted)
      /\ Suspension(r, active, doomed, sessions, tokens, held)
    BY AdminFacts
<1>2. r.pc = "ad_sessions" BY DEF StatusSessions
<1>3. active = FALSE /\ r.fams = {} BY <1>1, <1>2 DEF Suspension, Good, Shape, Inv, TypeOK
<1>4. doomed \subseteq Chain /\ ended \subseteq Chain BY DEF Inv, TypeOK
<1>5. /\ UNCHANGED <<account, active, tokens, used, minted, held, chosen, cut, ended, doomed,
                     basis>>
      /\ sessions' = {}
      /\ settled' = (r.op # "activate")
    BY DEF StatusSessions, DeleteRows
<1>6. settled' \in BOOLEAN BY DEF StatusSessions
<1>7. CASE r.op = "activate"
    <2>1. PICK n : n = [r EXCEPT !.pc = "ad_write"] OBVIOUS
    <2>2. Becomes(Admin, n) BY <1>7, <2>1 DEF StatusSessions, Goto, Becomes
    <2>3. SameButStep(n, r) /\ n.pc = "ad_write" /\ n.fams = r.fams /\ n.rows = r.rows
        BY <1>1, <2>1 DEF SameButStep, Request
    <2>4. Good(Admin, n, {}, sessions', tokens, held, minted)
        BY <1>1, <1>2, <1>5, <2>3 DEF SameButStep, Good, Shape, Role, Linked, Ending
    <2>5. Suspension(n, active', doomed', sessions', tokens, held)
        BY <1>1, <1>2, <1>3, <1>5, <1>7, <2>3 DEF SameButStep, Suspension, Gone
    <2> QED BY <1>3, <1>4, <1>5, <1>6, <1>7, <2>2, <2>3, <2>4, <2>5, AdminStep
<1>8. CASE r.op # "activate"
    <2>1. Becomes(Admin, Idle) BY <1>8 DEF StatusSessions, Ends
    <2>2. Suspension(Idle, active', doomed', sessions', tokens, held)
        BY <1>1, <1>3, <1>5 DEF Suspension, Idle
    <2>3. Good(Admin, Idle, {}, sessions', tokens, held, minted) /\ ~Issuing(Idle) BY IdleIsGood
    <2> QED BY <1>3, <1>4, <1>5, <1>6, <2>1, <2>2, <2>3, AdminStep
<1> QED BY <1>7, <1>8

LEMMA CrashKeeps ==
    ASSUME Inv, ops' = ops, NEW w \in Actor, Crash(w)
    PROVE  Inv'
<1>1. req' = [req EXCEPT ![w] = Idle] /\ cut' = [cut EXCEPT ![w] = {}]
    BY DEF Crash, Ends, Becomes
<1>2. /\ Good(w, Idle, {}, sessions', tokens, held, minted)
      /\ ~Issuing(Idle) /\ Idle.pc \notin CheckedPC
    BY IdleIsGood
<1>3. Suspension(Idle, active, doomed, sessions, tokens, held) BY IdleSuspension
<1>4. UNCHANGED <<storeVars, held, chosen, ended, doomed, settled, basis>> BY DEF Crash
<1> QED BY <1>1, <1>2, <1>3, <1>4, OpensNow, DropStep DEF storeVars
------------------------------------------------------------------------------
LEMMA InitInv == Init => Inv
<1> SUFFICES ASSUME Init PROVE Inv OBVIOUS
<1>1. Start \in Password \cup {NoPassword} BY IdsAssumption DEF Start
<1>2. First \in Chain /\ <<First, 0>> \in Credential
    BY IdsAssumption, BoundsAssumption DEF Credential
<1>3. TypeOK
    <2>1. req \in [Actor -> Request] BY IdleIsGood DEF Init
    <2>2. minted \in [Chain -> 0 .. MaxGen] BY BoundsAssumption DEF Init
    <2>3. account \in Hash BY <1>1 DEF Init, Hash
    <2> QED BY <1>1, <1>2, <2>1, <2>2, <2>3 DEF Init, TypeOK
<1>4. Requests BY IdleIsGood DEF Init, Requests, Good
<1>5. Distinct BY IdleIsGood DEF Init, Distinct, Apart
<1>6. Numbered(sessions, tokens, held, minted) BY <1>2 DEF Init, Numbered
<1>7. Families(sessions, tokens, held) BY <1>2 DEF Init, Families
<1>8. Suspension(req[Admin], active, doomed, sessions, tokens, held)
    BY DEF Init, Suspension, Idle, Actor
<1> QED BY <1>3, <1>4, <1>5, <1>6, <1>7, <1>8 DEF Init, Inv, Settled, PasswordIsChosen

LEMMA ArriveKeeps ==
    ASSUME Inv, ops' = ops, NEW w \in Client, Arrive(w)
    PROVE  Inv'
BY SignInUserKeeps, ResetStartKeeps, RefreshStartKeeps, RevokeOthersStartKeeps, ChooseStartKeeps,
   EndSessionStartKeeps DEF Arrive

LEMMA SignInKeeps ==
    ASSUME Inv, ops' = ops, NEW w \in Client, SignIn(w)
    PROVE  Inv'
BY SignInAccountKeeps, SignInRehashKeeps, SignInSessionKeeps, SignInCheckKeeps, SignInDropKeeps,
   SignInIssueKeeps, SignInAnswerKeeps DEF SignIn

LEMMA RefreshKeeps ==
    ASSUME Inv, ops' = ops, NEW w \in Client, Refresh(w)
    PROVE  Inv'
BY RefreshValidKeeps, RefreshBurnKeeps, RefreshUserKeeps, RefreshRenewKeeps, RefreshCheckKeeps,
   RefreshRotateKeeps, RefreshFinishKeeps, RefreshAbortKeeps DEF Refresh

LEMMA WithdrawKeeps ==
    ASSUME Inv, ops' = ops, NEW w \in Client, Withdraw(w)
    PROVE  Inv'
BY ClientIsActor, WriteKeeps, DropAllKeeps, DropOthersKeeps, ListOthersKeeps, DeleteListedKeeps,
   EndSessionKeeps, FindFamiliesKeeps, DropFamilyKeeps, AnswerKeeps DEF Withdraw

LEMMA StatusKeeps ==
    ASSUME Inv, ops' = ops, Status
    PROVE  Inv'
BY AdminFacts, StatusStartKeeps, StatusWriteKeeps, StatusSessionsKeeps, FindFamiliesKeeps,
   DropFamilyKeeps DEF Status

LEMMA StutterKeeps ==
    ASSUME Inv, UNCHANGED vars
    PROVE  Inv'
BY DEF Inv, vars, storeVars, hisVars, TypeOK, Requests, Distinct, Settled, PasswordIsChosen

LEMMA StepInv == Inv /\ [Next]_vars => Inv'
<1> SUFFICES ASSUME Inv, [Next]_vars PROVE Inv' OBVIOUS
<1>1. CASE Next
    <2>1. ops' = ops BY <1>1 DEF Next
    <2>2. ASSUME NEW w \in Client, Arrive(w) \/ SignIn(w) \/ Refresh(w) \/ Withdraw(w)
          PROVE  Inv'
        BY <2>1, <2>2, ArriveKeeps, SignInKeeps, RefreshKeeps, WithdrawKeeps
    <2>3. ASSUME Status PROVE Inv' BY <2>1, <2>3, StatusKeeps
    <2>4. ASSUME NEW w \in Actor, Crash(w) PROVE Inv' BY <2>1, <2>4, CrashKeeps
    <2> QED BY <1>1, <2>2, <2>3, <2>4 DEF Next
<1>2. CASE UNCHANGED vars BY <1>2, StutterKeeps
<1> QED BY <1>1, <1>2

LEMMA Invariant == Spec => []Inv
BY InitInv, StepInv, PTL DEF Spec

(* Whatever the requests do and whenever they die, every row, request and  *)
(* history variable has its type; in particular a used token is stored.    *)
THEOREM TypeCorrect == Spec => []TypeOK
<1>1. Inv => TypeOK BY DEF Inv
<1> QED BY <1>1, Invariant, PTL

(* replace_account_password only upgrades the hash it has just verified: a *)
(* password that a reset, change or first setting chose is never undone.   *)
THEOREM ChosenPasswordStays == Spec => []PasswordIsChosen
<1>1. Inv => PasswordIsChosen BY DEF Inv
<1> QED BY <1>1, Invariant, PTL

(* When reset, change, set, revocation, sign-out or suspension has run to  *)
(* its end, the chains it had to end have no token, and no session that a  *)
(* client was given, whichever refresh of them was running.                *)
THEOREM RevokedIsGone == Spec => []RevocationIsComplete
<1>1. Inv => RevocationIsComplete BY DEF Inv, RevocationIsComplete, Gone
<1> QED BY <1>1, Invariant, PTL

(* The families that change, set or revoke-others is about to delete never *)
(* include that of its caller, rotated meanwhile or not.                   *)
THEOREM OwnFamilyStays == Spec => []CallersFamilyStays
<1>1. Inv => CallersFamilyStays
    <2> SUFFICES ASSUME Inv, NEW w \in Client, req[w].op \in {"change", "set", "revoke"}
                 PROVE  req[w].fams \cap FamiliesOf({req[w].cur}) = {}
        BY DEF CallersFamilyStays
    <2>1. req[w].cur[1] \notin req[w].fams BY ClientIsActor, Facts DEF Good, Ending
    <2> QED BY <2>1 DEF FamiliesOf
<1> QED BY <1>1, Invariant, PTL

(* Withdrawing flows end what they have to end and keep the caller's own.  *)
THEOREM WithdrawalIsExact == Spec => []RevocationIsExact
BY RevokedIsGone, OwnFamilyStays, PTL DEF RevocationIsExact

(* After set_active(False) has returned, no sign-in or refresh that read   *)
(* the user as active before it leaves a session in a client's hands.      *)
THEOREM SuspensionHolds == Spec => []SuspendedHoldsNoSession
<1>1. Inv => SuspendedHoldsNoSession BY DEF Inv, Settled, SuspendedHoldsNoSession
<1> QED BY <1>1, Invariant, PTL
------------------------------------------------------------------------------
Using == {"owner", "count", "over", "spend", "u_owner", "u_write"}

(* What is true of a request by its next step.  A copy that is not stale   *)
(* is the row; a reason in force when the request began still is, and the  *)
(* request has not passed the check that would have seen it.               *)
Fit(r) ==
    /\ r.pc \in Using => r.copy \in Row /\ born
    /\ r.pc \notin Using => r.copy = Absent /\ r.since = {}
    /\ r.pc \in {"u_owner", "u_write"} => r.patch \in Patches
    /\ r.copy # Absent /\ ~r.stale /\ row # Absent => r.copy = row
    /\ r.since \subseteq bars /\ "deleted" \notin r.since
    /\ r.pc \in {"count", "over", "spend"} => "suspended" \notin r.since /\ "gone" \notin r.since
    /\ ~lost => "disabled" \notin r.since /\ ("narrowed" \in r.since => ~r.copy.scope)
    /\ r.pc = "spend" /\ plan.limit # 0 => r.window <= clock

(* The key is created before anything else happens to it.                  *)
Alone == \A w \in Caller : Awaits(w, "insert") => ~born /\ \A v \in Caller \ {w} : Awaits(v, "idle")

(* A reason in force shows in the stored state, but for lost updates.      *)
Barred ==
    /\ "deleted" \in bars => born /\ row = Absent
    /\ "suspended" \in bars => owner # "active"
    /\ "gone" \in bars => owner = "gone"
    /\ "disabled" \in bars => born /\ (lost \/ row = Absent \/ ~row.enabled)
    /\ "narrowed" \in bars => born /\ (lost \/ row = Absent \/ ~row.scope)

Most == IF plan.refill > plan.quota THEN plan.refill ELSE plan.quota

(* What was served since the last refill and what is left of it stay       *)
(* within the quota.                                                       *)
WithinQuota ==
    ~lost /\ plan.quota # Absent =>
        /\ ~born => served = 0
        /\ served <= Most
        /\ row # Absent => row.remaining # Absent /\ served + row.remaining <= Most

(* The calls that were counted in a window and may still be answered.      *)
Pending(s) == {w \in Caller : flight[w].pc = "spend" /\ flight[w].window = s}

(* Calls answered and calls about to be answered were all counted.         *)
Windows ==
    /\ counter # Absent => counter.start <= clock
    /\ plan.limit # 0 => \A s \in 0 .. MaxClock :
          /\ taken[s] + Cardinality(Pending(s)) <= plan.limit
          /\ counter = Absent \/ counter.start < s => taken[s] + Cardinality(Pending(s)) = 0
          /\ counter # Absent /\ counter.start = s => taken[s] + Cardinality(Pending(s)) <= counter.count

KeyTyped == KeyTypeOK /\ clock <= MaxClock

KeyInv ==
    /\ KeyTyped /\ Alone /\ \A w \in Caller : Fit(flight[w])
    /\ Barred /\ WithinQuota /\ Windows /\ NoAnswerAfterRevocation
------------------------------------------------------------------------------
LEMMA PlanIs ==
    ASSUME conf \in Confs
    PROVE  /\ conf \in Conf /\ plan \in Plan /\ plan.refill \in Nat /\ plan.every \in Nat /\ plan.expires \in Nat
           /\ plan.limit \in Nat /\ plan.window \in Nat /\ plan.quota \in Nat \cup {Absent}
           /\ plan.quota # 0 /\ (plan.limit # 0 => plan.window # 0)
BY KeyAssumption DEF Conf, Plan, plan

LEMMA VacantIs ==
    /\ Vacant \in Flight /\ Vacant.pc = "idle" /\ Vacant.copy = Absent /\ Vacant.asks = FALSE
    /\ Vacant.mark = 0 /\ Vacant.patch = Absent /\ ~Vacant.stale /\ Vacant.since = {}
    /\ Vacant.window = 0
BY DEF Vacant, Flight

LEMMA VacantFits == Fit(Vacant)
BY VacantIs DEF Fit, Using

LEMMA VacantFitsNext == Fit(Vacant)'
<1>1. Vacant' = Vacant
  BY DEF Vacant
<1> QED BY VacantIs, <1>1 DEF Fit, Using

(* The records that requests become, one field at a time.                  *)
Marked(r, m, x) == [r EXCEPT !.mark = m, !.pc = x]
CountedIn(r, m, x) == [r EXCEPT !.window = m, !.pc = x]
Looking(k, a, B) == [Vacant EXCEPT !.pc = "owner", !.copy = k, !.asks = a, !.since = B]
Updating(k, p) == [Vacant EXCEPT !.pc = "u_owner", !.copy = k, !.patch = p]
Outdated(r, b) == [r EXCEPT !.stale = (@ \/ b)]
Lifted(r, b) == [r EXCEPT !.since = @ \ {b}]

LEMMA MarkedIs ==
    ASSUME NEW r \in Flight, NEW m \in Nat, NEW x \in {"count", "spend"}
    PROVE  LET q == Marked(r, m, x) IN
           /\ q \in Flight /\ q.pc = x /\ q.mark = m /\ q.copy = r.copy /\ q.asks = r.asks
           /\ q.patch = r.patch /\ q.stale = r.stale /\ q.since = r.since /\ q.window = r.window
<1>0. PICK q : q = Marked(r, m, x)
  OBVIOUS
<1>1. PICK e : e = [r EXCEPT !.mark = m]
  OBVIOUS
<1>2. q = [e EXCEPT !.pc = x]
  BY <1>0, <1>1, Zenon DEF Marked
<1>3. /\ e \in Flight /\ e.mark = m /\ e.copy = r.copy /\ e.asks = r.asks
      /\ e.patch = r.patch /\ e.stale = r.stale /\ e.since = r.since /\ e.window = r.window
  BY <1>1 DEF Flight
<1> QED BY <1>0, <1>2, <1>3 DEF Flight

LEMMA CountedIs ==
    ASSUME NEW r \in Flight, NEW m \in Nat, NEW x \in {"over", "spend"}
    PROVE  LET q == CountedIn(r, m, x) IN
           /\ q \in Flight /\ q.pc = x /\ q.mark = r.mark /\ q.copy = r.copy /\ q.asks = r.asks
           /\ q.patch = r.patch /\ q.stale = r.stale /\ q.since = r.since /\ q.window = m
<1>0. PICK q : q = CountedIn(r, m, x)
  OBVIOUS
<1>1. PICK e : e = [r EXCEPT !.window = m]
  OBVIOUS
<1>2. q = [e EXCEPT !.pc = x]
  BY <1>0, <1>1, Zenon DEF CountedIn
<1>3. /\ e \in Flight /\ e.mark = r.mark /\ e.copy = r.copy /\ e.asks = r.asks
      /\ e.patch = r.patch /\ e.stale = r.stale /\ e.since = r.since /\ e.window = m
  BY <1>1 DEF Flight
<1> QED BY <1>0, <1>2, <1>3 DEF Flight

LEMMA ReadIs ==
    ASSUME NEW k \in Row, NEW a \in BOOLEAN, NEW B \in SUBSET Reasons
    PROVE  LET q == Looking(k, a, B) IN
           /\ q \in Flight /\ q.pc = "owner" /\ q.copy = k /\ q.asks = a /\ q.since = B
           /\ ~q.stale /\ q.patch = Absent
<1>0. PICK q : q = Looking(k, a, B)
  OBVIOUS
<1>1. PICK d, e, f, g : /\ d = Vacant /\ e = [d EXCEPT !.pc = "owner"] /\ f = [e EXCEPT !.copy = k]
                        /\ g = [f EXCEPT !.asks = a]
  OBVIOUS
<1>2. d \in Flight /\ ~d.stale /\ d.patch = Absent
  BY <1>1, VacantIs
<1>3. e \in Flight /\ e.pc = "owner" /\ ~e.stale /\ e.patch = Absent
  <2>1. e = [d EXCEPT !.pc = "owner"]
    BY <1>1
  <2> QED BY <1>2, <2>1 DEF Flight
<1>4. f \in Flight /\ f.pc = "owner" /\ f.copy = k /\ ~f.stale /\ f.patch = Absent
  <2>1. f = [e EXCEPT !.copy = k]
    BY <1>1
  <2> QED BY <1>3, <2>1 DEF Flight
<1>5. g \in Flight /\ g.pc = "owner" /\ g.copy = k /\ ~g.stale /\ g.patch = Absent /\ g.asks = a
  <2>1. g = [f EXCEPT !.asks = a]
    BY <1>1
  <2> QED BY <1>4, <2>1 DEF Flight
<1>6. q = [g EXCEPT !.since = B]
  BY <1>0, <1>1, Zenon DEF Looking
<1> QED BY <1>0, <1>5, <1>6 DEF Flight

LEMMA UpdatingIs ==
    ASSUME NEW k \in Row, NEW p \in Patches
    PROVE  LET q == Updating(k, p) IN
           /\ q \in Flight /\ q.pc = "u_owner" /\ q.copy = k /\ q.patch = p /\ q.since = {}
           /\ ~q.stale
<1>0. PICK q : q = Updating(k, p)
  OBVIOUS
<1>1. PICK d, e, f : /\ d = Vacant /\ e = [d EXCEPT !.pc = "u_owner"] /\ f = [e EXCEPT !.copy = k]
  OBVIOUS
<1>2. d \in Flight /\ ~d.stale /\ d.since = {}
  BY <1>1, VacantIs
<1>3. e \in Flight /\ e.pc = "u_owner" /\ ~e.stale /\ e.since = {}
  <2>1. e = [d EXCEPT !.pc = "u_owner"]
    BY <1>1
  <2> QED BY <1>2, <2>1 DEF Flight
<1>4. f \in Flight /\ f.pc = "u_owner" /\ f.copy = k /\ ~f.stale /\ f.since = {}
  <2>1. f = [e EXCEPT !.copy = k]
    BY <1>1
  <2> QED BY <1>3, <2>1 DEF Flight
<1>5. q = [f EXCEPT !.patch = p]
  BY <1>0, <1>1, Zenon DEF Updating
<1> QED BY <1>0, <1>4, <1>5 DEF Flight

LEMMA WritableIs ==
    ASSUME NEW r \in Flight, NEW q, q = [r EXCEPT !.pc = "u_write"]
    PROVE  /\ q \in Flight /\ q.pc = "u_write" /\ q.mark = r.mark /\ q.copy = r.copy /\ q.asks = r.asks
           /\ q.patch = r.patch /\ q.stale = r.stale /\ q.since = r.since /\ q.window = r.window
BY DEF Flight

LEMMA StaleIs ==
    ASSUME NEW r \in Flight, NEW b \in BOOLEAN
    PROVE  LET q == Outdated(r, b) IN
           /\ q \in Flight /\ q.pc = r.pc /\ q.mark = r.mark /\ q.copy = r.copy /\ q.asks = r.asks
           /\ q.patch = r.patch /\ q.stale = (r.stale \/ b) /\ q.since = r.since /\ q.window = r.window
<1>0. PICK q : q = Outdated(r, b)
  OBVIOUS
<1>1. (r.stale \/ b) \in BOOLEAN
  OBVIOUS
<1>2. PICK y \in BOOLEAN : y = (r.stale \/ b)
  BY <1>1
<1>3. q = [r EXCEPT !.stale = y]
  BY <1>0, <1>2 DEF Outdated
<1> QED BY <1>0, <1>2, <1>3 DEF Flight

LEMMA LiftedIs ==
    ASSUME NEW r \in Flight, NEW b
    PROVE  LET q == Lifted(r, b) IN
           /\ q \in Flight /\ q.pc = r.pc /\ q.mark = r.mark /\ q.copy = r.copy /\ q.asks = r.asks
           /\ q.patch = r.patch /\ q.stale = r.stale /\ q.since = r.since \ {b} /\ q.window = r.window
BY DEF Flight, Lifted
------------------------------------------------------------------------------
(* What a request relies on stays while others act: the row it copied is   *)
(* only deleted, or it has been told that its copy is out of date; the     *)
(* reasons it has to honour were in force all the time.                    *)
LEMMA FitStays ==
    ASSUME NEW r \in Flight, Fit(r), NEW q \in Flight, q.pc = r.pc, q.copy = r.copy, q.patch = r.patch,
           q.window = r.window, conf' = conf, q.since \subseteq r.since, q.since \subseteq bars',
           born => born', lost => lost', clock \in Nat, clock' \in Nat, clock <= clock',
           q.stale \/ q.copy = Absent \/ (q.stale = r.stale /\ (row' = row \/ row' = Absent))
    PROVE  Fit(q)'
<1>1. /\ q.pc \in Using => q.copy \in Row /\ born'
      /\ q.pc \notin Using => q.copy = Absent /\ q.since = {}
      /\ q.pc \in {"u_owner", "u_write"} => q.patch \in Patches
  BY DEF Fit
<1>2. q.copy # Absent /\ ~q.stale /\ row' # Absent => q.copy = row'
  BY DEF Fit
<1>3. /\ q.since \subseteq bars' /\ "deleted" \notin q.since
      /\ q.pc \in {"count", "over", "spend"} => "suspended" \notin q.since /\ "gone" \notin q.since
      /\ ~lost' => "disabled" \notin q.since /\ ("narrowed" \in q.since => ~q.copy.scope)
  BY DEF Fit
<1>4. q.pc = "spend" /\ plan'.limit # 0 => q.window <= clock'
  BY DEF Fit, Flight, plan
<1> QED BY <1>1, <1>2, <1>3, <1>4 DEF Fit

(* The calls under way in a window are finitely many.                      *)
LEMMA PendingIsFinite ==
    ASSUME NEW s
    PROVE  IsFiniteSet(Pending(s)) /\ Cardinality(Pending(s)) \in Nat
<1>1. Pending(s) \subseteq Caller
  BY DEF Pending
<1> QED BY <1>1, KeyAssumption, FS_Subset, FS_CardinalityType

LEMMA PendingIsFiniteNext ==
    ASSUME NEW s
    PROVE  IsFiniteSet(Pending(s)') /\ Cardinality(Pending(s)') \in Nat
<1>1. Pending(s)' \subseteq Caller
  BY DEF Pending
<1> QED BY <1>1, KeyAssumption, FS_Subset, FS_CardinalityType

(* No call is counted, none is answered: some may be given up.             *)
LEMMA WindowsStay ==
    ASSUME KeyTyped, Windows, conf' = conf, counter' = counter, taken' = taken, clock' \in Nat, clock <= clock',
           plan.limit # 0 => \A s \in 0 .. MaxClock : Pending(s)' \subseteq Pending(s)
    PROVE  Windows'
<1>1. counter # Absent => counter.start \in Nat /\ counter.start <= clock
  BY DEF Windows, KeyTyped, KeyTypeOK, Counter
<1>2. clock \in Nat
  BY DEF KeyTyped, KeyTypeOK
<1>3. counter' # Absent => counter'.start <= clock'
  BY <1>1, <1>2
<1>4. plan' = plan
  BY DEF plan
<1>5. ASSUME plan.limit # 0, NEW s \in 0 .. MaxClock
      PROVE  /\ taken'[s] + Cardinality(Pending(s)') <= plan.limit
             /\ counter' = Absent \/ counter'.start < s => taken'[s] + Cardinality(Pending(s)') = 0
             /\ counter' # Absent /\ counter'.start = s => taken'[s] + Cardinality(Pending(s)') <= counter'.count
  <2>1. Cardinality(Pending(s)') \in Nat /\ Cardinality(Pending(s)) \in Nat
    BY PendingIsFinite, PendingIsFiniteNext
  <2>2. Cardinality(Pending(s)') <= Cardinality(Pending(s))
    BY <1>5, PendingIsFinite, FS_Subset
  <2>3. PICK a, b : a = Cardinality(Pending(s)) /\ b = Cardinality(Pending(s)')
    OBVIOUS
  <2>4. taken[s] \in Nat /\ (counter # Absent => counter.count \in Nat) /\ plan.limit \in Nat
    BY PlanIs DEF KeyTyped, KeyTypeOK, Counter
  <2>5. /\ taken[s] + a <= plan.limit
        /\ counter = Absent \/ counter.start < s => taken[s] + a = 0
        /\ counter # Absent /\ counter.start = s => taken[s] + a <= counter.count
    BY <1>5, <2>3 DEF Windows
  <2>6. /\ taken[s] + b <= plan.limit
        /\ counter = Absent \/ counter.start < s => taken[s] + b = 0
        /\ counter # Absent /\ counter.start = s => taken[s] + b <= counter.count
    BY <2>1, <2>2, <2>3, <2>4, <2>5
  <2> QED BY <2>3, <2>6
<1> QED BY <1>3, <1>4, <1>5 DEF Windows

(* The rest of the invariant where the row and the history stay.           *)
LEMMA KeyStoreStays ==
    ASSUME KeyInv, UNCHANGED <<conf, row, born, owner, history>>
    PROVE  Barred' /\ WithinQuota' /\ NoAnswerAfterRevocation'
<1>1. bars' = bars /\ breached' = breached /\ lost' = lost /\ served' = served /\ taken' = taken
  BY DEF history
<1>2. plan' = plan
  BY DEF plan
<1> QED BY <1>1, <1>2 DEF KeyInv, Barred, WithinQuota, Most, NoAnswerAfterRevocation

(* A step that moves one request on and writes nothing.                    *)
LEMMA QuietCall ==
    ASSUME KeyInv, NEW w \in Caller, NEW q \in Flight, flight' = [flight EXCEPT ![w] = q],
           UNCHANGED <<conf, row, born, owner, leaving, counter, clock, history>>, calls' \in Nat,
           Fit(q)', plan.limit # 0 => q.pc # "spend",
           IF q.pc = "insert" THEN ~born /\ \A v \in Caller : Awaits(v, "idle") ELSE q.pc = "idle" \/ born
    PROVE  KeyInv'
<1>1. flight \in [Caller -> Flight] /\ clock \in Nat /\ clock <= MaxClock
  BY DEF KeyInv, KeyTyped, KeyTypeOK
<1>2. /\ bars' = bars /\ breached' = breached /\ lost' = lost /\ served' = served /\ taken' = taken
      /\ conf' = conf /\ row' = row /\ born' = born /\ owner' = owner /\ leaving' = leaving
      /\ counter' = counter /\ clock' = clock
  BY DEF history
<1>3. \A v \in Caller : flight'[v] = IF v = w THEN q ELSE flight[v]
  BY <1>1
<1>4. KeyTyped'
  <2>1. flight' \in [Caller -> Flight]
    BY <1>1
  <2> QED BY <1>2, <2>1 DEF KeyInv, KeyTyped, KeyTypeOK
<1>5. Alone'
  BY <1>2, <1>3 DEF KeyInv, Alone, Awaits
<1>6. ASSUME NEW v \in Caller PROVE Fit(flight[v])'
  <2>1. CASE v = w
    <3>1. flight'[v] = q
      BY <1>3, <2>1
    <3> QED BY <3>1 DEF Fit
  <2>2. CASE v # w
    <3>1. PICK r \in Flight : r = flight[v]
      BY <1>1
    <3>2. Fit(r) /\ r.since \subseteq bars
      BY <3>1 DEF KeyInv, Fit
    <3>3. Fit(r)'
      BY <1>1, <1>2, <3>2, FitStays
    <3>4. flight'[v] = r
      BY <1>3, <2>2, <3>1
    <3> QED BY <3>3, <3>4 DEF Fit
  <2> QED BY <2>1, <2>2
<1>7. Windows'
  <2>1. plan.limit # 0 => \A s \in 0 .. MaxClock : Pending(s)' \subseteq Pending(s)
    BY <1>3 DEF Pending
  <2> QED BY <1>1, <1>2, <2>1, WindowsStay DEF KeyInv
<1>8. Barred' /\ WithinQuota' /\ NoAnswerAfterRevocation'
  BY KeyStoreStays
<1> QED BY <1>4, <1>5, <1>6, <1>7, <1>8 DEF KeyInv

LEMMA CreateStartKeeps == ASSUME KeyInv, NEW w \in Caller, CreateStart(w) PROVE KeyInv'
<1>1. PICK q : q = [Vacant EXCEPT !.pc = "insert", !.mark = clock]
  OBVIOUS
<1>2. clock \in Nat /\ calls \in Nat
  BY DEF KeyInv, KeyTyped, KeyTypeOK
<1>3. /\ q \in Flight /\ q.pc = "insert" /\ q.copy = Absent /\ q.since = {}
  <2>1. PICK d, e : d = Vacant /\ e = [d EXCEPT !.pc = "insert"]
    OBVIOUS
  <2>2. d \in Flight /\ d.copy = Absent /\ d.since = {}
    BY <2>1, VacantIs
  <2>3. e = [d EXCEPT !.pc = "insert"]
    BY <2>1
  <2>4. e \in Flight /\ e.pc = "insert" /\ e.copy = Absent /\ e.since = {}
    BY <2>2, <2>3 DEF Flight
  <2>5. q = [e EXCEPT !.mark = clock]
    BY <1>1, <2>1, Zenon
  <2> QED BY <1>2, <2>4, <2>5 DEF Flight
<1>4. /\ flight' = [flight EXCEPT ![w] = q] /\ calls' = calls
      /\ UNCHANGED <<conf, row, born, owner, leaving, counter, clock, history>>
  BY <1>1 DEF CreateStart, Proceed
<1>5. Fit(q)'
  BY <1>3 DEF Fit, Using
<1>6. ~born /\ \A v \in Caller : Awaits(v, "idle")
  BY DEF CreateStart
<1> QED BY <1>2, <1>3, <1>4, <1>5, <1>6, QuietCall

LEMMA LookupKeeps == ASSUME KeyInv, NEW w \in Caller, NEW asks \in BOOLEAN, Lookup(w, asks) PROVE KeyInv'
<1>1. /\ row \in Row \cup {Absent} /\ bars \in SUBSET Reasons /\ calls' \in Nat /\ born
      /\ clock \in Nat
      /\ UNCHANGED <<conf, row, born, owner, leaving, counter, clock, history>>
  BY DEF Lookup, Begin, KeyInv, KeyTyped, KeyTypeOK
<1>2. bars' = bars /\ lost' = lost
  BY <1>1 DEF history
<1>3. CASE row # Absent /\ row.enabled
  <2>1. PICK q : q = Looking(row, asks, bars)
    OBVIOUS
  <2>2. flight' = [flight EXCEPT ![w] = q]
    BY <1>3, <2>1 DEF Lookup, Proceed, Looking
  <2>3. row \in Row /\ bars \in SUBSET Reasons
    BY <1>1, <1>3
  <2>4. q \in Flight /\ q.pc = "owner" /\ q.copy = row /\ q.since = bars
    BY <2>1, <2>3, ReadIs
  <2>5. "deleted" \notin bars /\ (~lost => "disabled" \notin bars /\ ("narrowed" \in bars => ~row.scope))
    BY <1>3 DEF KeyInv, Barred
  <2>6. Fit(q)'
    BY <1>1, <1>2, <2>3, <2>4, <2>5 DEF Fit, Using
  <2> QED BY <1>1, <2>2, <2>4, <2>6, QuietCall
<1>4. CASE ~(row # Absent /\ row.enabled)
  <2>1. flight' = [flight EXCEPT ![w] = Vacant]
    BY <1>4 DEF Lookup, Proceed
  <2>2. PICK q : q = Vacant
    OBVIOUS
  <2>3. Fit(q)'
    BY <2>2, VacantIs DEF Fit, Using
  <2> QED BY <1>1, <2>1, <2>2, <2>3, VacantIs, QuietCall
<1> QED BY <1>3, <1>4

(* Giving a call up.                                                       *)
LEMMA GiveUpKeeps ==
    ASSUME KeyInv, NEW w \in Caller, Proceed(w, Vacant), calls' = calls,
           UNCHANGED <<conf, row, born, owner, leaving, counter, clock, history>>
    PROVE  KeyInv'
<1>1. PICK q : q = Vacant
  OBVIOUS
<1>2. flight' = [flight EXCEPT ![w] = q] /\ calls' \in Nat
  BY <1>1 DEF Proceed, KeyInv, KeyTyped, KeyTypeOK
<1>3. Fit(q)'
  BY <1>1, VacantIs DEF Fit, Using
<1> QED BY <1>1, <1>2, <1>3, VacantIs, QuietCall

LEMMA CallIs ==
    ASSUME KeyInv, NEW w \in Caller
    PROVE  /\ flight[w] \in Flight /\ Fit(flight[w]) /\ row \in Row \cup {Absent} /\ clock \in Nat
           /\ calls \in Nat /\ born \in BOOLEAN /\ (row # Absent => born) /\ conf \in Confs
           /\ bars \in SUBSET Reasons /\ flight \in [Caller -> Flight]
BY DEF KeyInv, KeyTyped, KeyTypeOK

LEMMA CheckOwnerKeeps == ASSUME KeyInv, NEW w \in Caller, CheckOwner(w) PROVE KeyInv'
<1>1. /\ UNCHANGED <<conf, row, born, owner, leaving, counter, clock, history>> /\ calls' = calls
      /\ flight[w].pc = "owner"
  BY DEF CheckOwner, Awaits
<1>2. bars' = bars /\ lost' = lost
  BY <1>1 DEF history
<1>3. CASE ~Authorized \/ Expired(flight[w])
  BY <1>1, <1>3, GiveUpKeeps DEF CheckOwner
<1>4. CASE Authorized /\ ~Expired(flight[w])
  <2>1. PICK r \in Flight : r = flight[w]
    BY CallIs
  <2>2. PICK x \in {"count", "spend"} : x = IF plan.limit = 0 THEN "spend" ELSE "count"
    OBVIOUS
  <2>3. PICK q : q = Marked(r, clock, x)
    OBVIOUS
  <2>4. flight' = [flight EXCEPT ![w] = q]
    <3>1. Proceed(w, [flight[w] EXCEPT !.mark = clock, !.pc = IF plan.limit = 0 THEN "spend" ELSE "count"])
      BY <1>4 DEF CheckOwner
    <3> QED BY <2>1, <2>2, <2>3, <3>1 DEF Proceed, Marked
  <2>5. /\ q \in Flight /\ q.pc = x /\ q.copy = r.copy /\ q.stale = r.stale /\ q.since = r.since
        /\ q.window = r.window /\ q.patch = r.patch
    <3>1. clock \in Nat
      BY CallIs
    <3> QED BY <2>3, <3>1, MarkedIs
  <2>6. "suspended" \notin r.since /\ "gone" \notin r.since
    BY <1>4, <2>1 DEF Authorized, KeyInv, Barred, Fit
  <2>7. r.pc = "owner" /\ Fit(r) /\ born
    BY <1>1, <2>1, CallIs DEF Fit, Using
  <2>8. q.pc = "spend" => plan'.limit = 0
    BY <1>1, <2>2, <2>5 DEF plan
  <2>9. Fit(q)'
    BY <1>1, <1>2, <2>2, <2>5, <2>6, <2>7, <2>8 DEF Fit, Using
  <2> QED BY <1>1, <2>2, <2>4, <2>5, <2>7, <2>9, CallIs, QuietCall
<1> QED BY <1>3, <1>4

LEMMA RefuseScopeKeeps == ASSUME KeyInv, NEW w \in Caller, RefuseScope(w) PROVE KeyInv'
BY GiveUpKeeps DEF RefuseScope

LEMMA UpdateReadKeeps == ASSUME KeyInv, NEW w \in Caller, NEW patch \in Patches, UpdateRead(w, patch) PROVE KeyInv'
<1>1. /\ row \in Row /\ calls' \in Nat /\ born
      /\ UNCHANGED <<conf, row, born, owner, leaving, counter, clock, history>>
  BY DEF UpdateRead, Begin, KeyInv, KeyTyped, KeyTypeOK
<1>2. PICK q : q = Updating(row, patch)
  OBVIOUS
<1>3. flight' = [flight EXCEPT ![w] = q]
  BY <1>2 DEF UpdateRead, Proceed, Updating
<1>4. /\ q \in Flight /\ q.pc = "u_owner" /\ q.copy = row /\ q.patch = patch /\ q.since = {}
      /\ ~q.stale
  <2>1. row \in Row
    BY <1>1
  <2> QED BY <1>2, <2>1, UpdatingIs
<1>5. Fit(q)'
  BY <1>1, <1>4 DEF Fit, Using
<1> QED BY <1>1, <1>3, <1>4, <1>5, QuietCall

LEMMA UpdateOwnerKeeps == ASSUME KeyInv, NEW w \in Caller, UpdateOwner(w) PROVE KeyInv'
<1>1. /\ UNCHANGED <<conf, row, born, owner, leaving, counter, clock, history>> /\ calls' = calls
      /\ flight[w].pc = "u_owner"
  BY DEF UpdateOwner, Awaits
<1>2. bars' = bars /\ lost' = lost
  BY <1>1 DEF history
<1>3. CASE ~Authorized
  BY <1>1, <1>3, GiveUpKeeps DEF UpdateOwner
<1>4. CASE Authorized
  <2>1. PICK r \in Flight : r = flight[w]
    BY CallIs
  <2>2. PICK q : q = [r EXCEPT !.pc = "u_write"]
    OBVIOUS
  <2>3. flight' = [flight EXCEPT ![w] = q]
    BY <1>4, <2>1, <2>2 DEF UpdateOwner, Proceed
  <2>4. /\ q \in Flight /\ q.pc = "u_write" /\ q.copy = r.copy /\ q.stale = r.stale /\ q.since = r.since
        /\ q.patch = r.patch
    BY <2>2, WritableIs
  <2>5. r.pc = "u_owner" /\ Fit(r) /\ born
    BY <1>1, <2>1, CallIs DEF Fit, Using
  <2>6. Fit(q)'
    BY <1>1, <1>2, <2>4, <2>5 DEF Fit, Using
  <2> QED BY <1>1, <2>3, <2>4, <2>5, <2>6, CallIs, QuietCall
<1> QED BY <1>3, <1>4
------------------------------------------------------------------------------
(* Counting a call.                                                        *)
LEMMA BumpedIs ==
    ASSUME KeyTyped, NEW c, c = Bumped(counter)
    PROVE  /\ c \in Counter
           /\ \/ counter # Absent /\ c.start = counter.start /\ c.count = counter.count + 1
              \/ ~InWindow(counter) /\ c.start = clock /\ c.count = 1
<1>1. counter \in Counter \cup {Absent} /\ clock \in Nat
  BY DEF KeyTyped, KeyTypeOK
<1>2. CASE InWindow(counter)
  <2>1. counter \in Counter /\ counter # Absent
    BY <1>1, <1>2 DEF InWindow
  <2>2. c = [counter EXCEPT !.count = @ + 1]
    BY <1>2 DEF Bumped
  <2> QED BY <2>1, <2>2 DEF Counter
<1>3. CASE ~InWindow(counter)
  <2>1. c = [count |-> 1, start |-> clock]
    BY <1>3 DEF Bumped
  <2> QED BY <1>1, <1>3, <2>1 DEF Counter
<1> QED BY <1>2, <1>3

LEMMA CountKeeps == ASSUME KeyInv, NEW w \in Caller, Count(w) PROVE KeyInv'
<1>1. /\ UNCHANGED <<conf, row, born, owner, leaving, clock, calls, history>>
      /\ flight[w].pc = "count" /\ counter' = Bumped(counter)
  BY DEF Count, Awaits
<1>2. /\ bars' = bars /\ lost' = lost /\ breached' = breached /\ served' = served /\ taken' = taken
      /\ conf' = conf /\ row' = row /\ born' = born /\ owner' = owner /\ leaving' = leaving
      /\ clock' = clock /\ calls' = calls
  BY <1>1 DEF history
<1>3. PICK c : c = Bumped(counter)
  OBVIOUS
<1>4. counter' = c /\ KeyTyped
  BY <1>1, <1>3 DEF KeyInv
<1>5. /\ c \in Counter
      /\ \/ counter # Absent /\ c.start = counter.start /\ c.count = counter.count + 1
         \/ ~InWindow(counter) /\ c.start = clock /\ c.count = 1
  BY <1>3, <1>4, BumpedIs
<1>6. c # Absent /\ c.start \in Nat /\ c.count \in Nat /\ c.start <= clock /\ clock \in Nat /\ clock <= MaxClock
  <2>1. counter # Absent => counter.start <= clock
    BY DEF KeyInv, Windows
  <2>2. clock \in Nat /\ clock <= MaxClock
    BY DEF KeyInv, KeyTyped, KeyTypeOK
  <2>3. c # Absent
    BY <1>5, AbsentAssumption
  <2> QED BY <1>5, <2>1, <2>2, <2>3 DEF Counter
<1>7. PICK r \in Flight : r = flight[w]
  BY CallIs
<1>8. PICK x \in {"over", "spend"} : x = IF OverLimit(c) THEN "over" ELSE "spend"
  OBVIOUS
<1>9. PICK q : q = CountedIn(r, c.start, x)
  OBVIOUS
<1>10. flight' = [flight EXCEPT ![w] = q]
  <2>1. Proceed(w, [flight[w] EXCEPT !.window = counter'.start,
                                     !.pc = IF OverLimit(counter') THEN "over" ELSE "spend"])
    BY DEF Count
  <2>2. Proceed(w, [r EXCEPT !.window = c.start, !.pc = IF OverLimit(c) THEN "over" ELSE "spend"])
    BY <1>4, <1>7, <2>1
  <2> QED BY <1>8, <1>9, <2>2 DEF Proceed, CountedIn
<1>11. /\ q \in Flight /\ q.pc = x /\ q.copy = r.copy /\ q.stale = r.stale /\ q.since = r.since
       /\ q.patch = r.patch /\ q.window = c.start
  <2>1. PICK m \in Nat : m = c.start
    BY <1>6
  <2>2. q = CountedIn(r, m, x)
    BY <1>9, <2>1
  <2>3. /\ q \in Flight /\ q.pc = x /\ q.copy = r.copy /\ q.stale = r.stale /\ q.since = r.since
        /\ q.patch = r.patch /\ q.window = m
    BY <2>2, CountedIs
  <2> QED BY <2>1, <2>3
<1>12. r.pc = "count" /\ Fit(r) /\ born
  BY <1>1, <1>7, CallIs DEF Fit, Using
<1>13. Fit(q)'
  BY <1>2, <1>6, <1>11, <1>12 DEF Fit, Using
<1>14. flight \in [Caller -> Flight]
  BY CallIs
<1>15. \A v \in Caller : flight'[v] = IF v = w THEN q ELSE flight[v]
  BY <1>10, <1>14
<1>16. KeyTyped'
  <2>1. flight' \in [Caller -> Flight]
    BY <1>10, <1>11, <1>14
  <2> QED BY <1>2, <1>4, <1>5, <2>1 DEF KeyTyped, KeyTypeOK
<1>17. Alone'
  BY <1>2, <1>7, <1>11, <1>12, <1>15 DEF KeyInv, Alone, Awaits
<1>18. ASSUME NEW v \in Caller PROVE Fit(flight[v])'
  <2>1. CASE v = w
    <3>1. flight'[v] = q
      BY <1>15, <2>1
    <3> QED BY <1>13, <3>1 DEF Fit
  <2>2. CASE v # w
    <3>1. PICK s \in Flight : s = flight[v]
      BY <1>14
    <3>2. Fit(s) /\ s.since \subseteq bars
      BY <3>1 DEF KeyInv, Fit
    <3>3. Fit(s)'
      BY <1>2, <1>6, <3>2, FitStays
    <3>4. flight'[v] = s
      BY <1>15, <2>2, <3>1
    <3> QED BY <3>3, <3>4 DEF Fit
  <2> QED BY <2>1, <2>2
<1>19. Windows'
  <2>1. plan' = plan
    BY <1>2 DEF plan
  <2>2. counter'.start <= clock'
    BY <1>2, <1>4, <1>6
  <2>3. ASSUME plan.limit # 0, NEW s \in 0 .. MaxClock
        PROVE  /\ taken'[s] + Cardinality(Pending(s)') <= plan.limit
               /\ counter' = Absent \/ counter'.start < s => taken'[s] + Cardinality(Pending(s)') = 0
               /\ counter' # Absent /\ counter'.start = s => taken'[s] + Cardinality(Pending(s)') <= counter'.count
    <3>1. Cardinality(Pending(s)') \in Nat /\ Cardinality(Pending(s)) \in Nat
      BY PendingIsFinite, PendingIsFiniteNext
    <3>2. PICK a, b : a = Cardinality(Pending(s)) /\ b = Cardinality(Pending(s)')
      OBVIOUS
    <3>3. Pending(s)' = IF x = "spend" /\ c.start = s THEN Pending(s) \cup {w} ELSE Pending(s)
      BY <1>7, <1>11, <1>12, <1>15 DEF Pending
    <3>4. w \notin Pending(s)
      BY <1>7, <1>12 DEF Pending
    <3>5. b = IF x = "spend" /\ c.start = s THEN a + 1 ELSE a
      BY <3>2, <3>3, <3>4, PendingIsFinite, FS_AddElement
    <3>6. /\ taken[s] + a <= plan.limit
          /\ counter = Absent \/ counter.start < s => taken[s] + a = 0
          /\ counter # Absent /\ counter.start = s => taken[s] + a <= counter.count
      BY <2>3, <3>2 DEF KeyInv, Windows
    <3>7. taken[s] \in Nat /\ plan.limit \in Nat /\ plan.window \in Nat /\ plan.window # 0 /\ a \in Nat
      BY <2>3, <3>1, <3>2, PlanIs DEF KeyInv, KeyTyped, KeyTypeOK
    <3>8. counter # Absent => counter.start \in Nat /\ counter.count \in Nat
      BY DEF KeyInv, KeyTyped, KeyTypeOK, Counter
    <3>9. ~InWindow(counter) => counter = Absent \/ counter.start < clock
      BY <1>6, <3>7, <3>8 DEF InWindow
    <3>10. x = "spend" => c.count <= plan.limit
      BY <1>6, <1>8, <3>7 DEF OverLimit
    <3>11. c.start = s => taken[s] + a + 1 <= c.count
      <4>1. CASE counter # Absent /\ c.start = counter.start /\ c.count = counter.count + 1
        BY <3>6, <3>7, <3>8, <4>1
      <4>2. CASE ~InWindow(counter) /\ c.start = clock /\ c.count = 1
        BY <3>6, <3>7, <3>9, <4>2
      <4> QED BY <1>5, <4>1, <4>2
    <3>12. /\ taken[s] + b <= plan.limit
           /\ c.start < s => taken[s] + b = 0
           /\ c.start = s => taken[s] + b <= c.count
      <4>1. CASE c.start = s
        BY <1>6, <3>5, <3>6, <3>7, <3>10, <3>11, <4>1
      <4>2. CASE c.start # s
        <5>1. b = a
          BY <3>5, <4>2
        <5>2. c.start < s => counter = Absent \/ counter.start < s
          BY <1>5, <1>6, <3>8, <3>9
        <5> QED BY <3>6, <4>2, <5>1, <5>2
      <4> QED BY <4>1, <4>2
    <3> QED BY <1>2, <1>4, <1>6, <3>2, <3>12
  <2> QED BY <2>1, <2>2, <2>3 DEF Windows
<1>20. Barred' /\ WithinQuota' /\ NoAnswerAfterRevocation'
  BY <1>1, KeyStoreStays
<1> QED BY <1>16, <1>17, <1>18, <1>19, <1>20 DEF KeyInv
------------------------------------------------------------------------------
(* What deletes the key or ends its owner, and time: the requests under    *)
(* way are left alone.                                                     *)
LEMMA OwnerStep ==
    ASSUME KeyInv, UNCHANGED <<conf, born, counter, calls, flight, breached, lost, served, taken>>,
           clock' \in Nat, clock <= clock', clock' <= MaxClock,
           row' = row \/ row' = Absent, owner' \in {"active", "suspended", "gone"}, leaving' \in BOOLEAN,
           bars \subseteq bars', bars' \subseteq Reasons, Barred'
    PROVE  KeyInv'
<1>1. flight \in [Caller -> Flight] /\ clock \in Nat
  BY DEF KeyInv, KeyTyped, KeyTypeOK
<1>2. KeyTyped'
  BY DEF KeyInv, KeyTyped, KeyTypeOK
<1>3. Alone'
  BY DEF KeyInv, Alone, Awaits
<1>4. ASSUME NEW v \in Caller PROVE Fit(flight[v])'
  <2>1. PICK r \in Flight : r = flight[v]
    BY <1>1
  <2>2. Fit(r) /\ r.since \subseteq bars
    BY <2>1 DEF KeyInv, Fit
  <2>3. r.since \subseteq bars'
    BY <2>2
  <2>4. Fit(r)'
    BY <1>1, <2>2, <2>3, FitStays
  <2>5. flight'[v] = r
    BY <2>1
  <2> QED BY <2>4, <2>5 DEF Fit
<1>5. Windows'
  <2>1. plan.limit # 0 => \A s \in 0 .. MaxClock : Pending(s)' \subseteq Pending(s)
    BY DEF Pending
  <2> QED BY <1>1, <2>1, WindowsStay DEF KeyInv
<1>6. WithinQuota' /\ NoAnswerAfterRevocation'
  BY DEF KeyInv, WithinQuota, Most, NoAnswerAfterRevocation, plan
<1> QED BY <1>2, <1>3, <1>4, <1>5, <1>6 DEF KeyInv

LEMMA Known ==
    ASSUME KeyInv
    PROVE  /\ row \in Row \cup {Absent} /\ born \in BOOLEAN /\ (row # Absent => born)
           /\ owner \in {"active", "suspended", "gone"} /\ leaving \in BOOLEAN
           /\ bars \subseteq Reasons /\ clock \in Nat /\ clock <= MaxClock /\ Barred
BY DEF KeyInv, KeyTyped, KeyTypeOK

LEMMA DeleteKeeps == ASSUME KeyInv, delete_for_user \/ delete_expired_api_keys PROVE KeyInv'
<1>1. /\ row # Absent /\ row' = Absent /\ bars' = bars \cup {"deleted"}
      /\ UNCHANGED <<conf, born, owner, leaving, counter, clock, calls, flight, breached, lost, served, taken>>
  BY DEF delete_for_user, delete_expired_api_keys, Bar
<1>2. Barred'
  BY <1>1, Known DEF Barred
<1>3. bars' \subseteq Reasons
  BY <1>1, Known DEF Reasons
<1> QED BY <1>1, <1>2, <1>3, Known, OwnerStep

LEMMA SuspendKeeps == ASSUME KeyInv, Suspend PROVE KeyInv'
<1>1. /\ owner = "active" /\ owner' = "suspended" /\ bars' = bars \cup {"suspended"}
      /\ UNCHANGED <<conf, row, born, leaving, counter, clock, calls, flight, breached, lost, served, taken>>
  BY DEF Suspend, Bar
<1>2. Barred'
  BY <1>1, Known DEF Barred
<1>3. bars' \subseteq Reasons
  BY <1>1, Known DEF Reasons
<1> QED BY <1>1, <1>2, <1>3, Known, OwnerStep

LEMMA DeleteUserKeeps == ASSUME KeyInv, delete_user PROVE KeyInv'
<1>1. UNCHANGED <<conf, born, counter, clock, calls, flight, breached, lost, served, taken>>
  BY DEF delete_user
<1>2. \/ owner' = "gone" /\ (row' = row \/ row' = Absent) /\ leaving' \in BOOLEAN /\ bars' = bars \cup {"gone"}
      \/ row' = Absent /\ leaving' = TRUE /\ owner' = owner /\ bars' = bars
  BY Known DEF delete_user, Bar
<1>3. Barred'
  BY <1>1, <1>2, Known DEF Barred
<1>4. bars' \subseteq Reasons /\ bars \subseteq bars'
  BY <1>2, Known DEF Reasons
<1>5. /\ row' = row \/ row' = Absent
      /\ owner' \in {"active", "suspended", "gone"} /\ leaving' \in BOOLEAN
  BY <1>2, Known
<1>6. clock' \in Nat /\ clock <= clock' /\ clock' <= MaxClock
  BY <1>1, Known
<1> QED BY <1>1, <1>3, <1>4, <1>5, <1>6, OwnerStep

LEMMA TimePasses == ASSUME KeyInv, Tick \/ UNCHANGED keyVars PROVE KeyInv'
<1>1. /\ UNCHANGED <<conf, row, born, owner, leaving, counter, calls, flight>>
      /\ UNCHANGED <<bars, breached, lost, served, taken>>
  BY DEF Tick, keyVars, history
<1>2. clock' \in Nat /\ clock <= clock' /\ clock' <= MaxClock
  BY Known, KeyAssumption DEF Tick, keyVars
<1>3. Barred'
  BY <1>1, Known DEF Barred
<1> QED BY <1>1, <1>2, <1>3, Known, OwnerStep

(* Reactivation ends the reason for every request under way.               *)
LEMMA ActivateKeeps == ASSUME KeyInv, Activate PROVE KeyInv'
<1>1. /\ owner = "suspended" /\ owner' = "active" /\ bars' = bars \ {"suspended"}
      /\ UNCHANGED <<conf, row, born, leaving, counter, clock, calls, breached, lost, served, taken>>
      /\ flight' = [v \in Caller |-> [flight[v] EXCEPT !.since = @ \ {"suspended"}]]
  BY DEF Activate, Lift
<1>2. flight \in [Caller -> Flight] /\ clock \in Nat
  BY DEF KeyInv, KeyTyped, KeyTypeOK
<1>3. \A v \in Caller : flight'[v] = Lifted(flight[v], "suspended")
  BY <1>1 DEF Lifted
<1>4. ASSUME NEW v \in Caller
      PROVE  /\ flight'[v] \in Flight /\ flight'[v].pc = flight[v].pc /\ flight'[v].copy = flight[v].copy
             /\ flight'[v].patch = flight[v].patch /\ flight'[v].stale = flight[v].stale
             /\ flight'[v].since = flight[v].since \ {"suspended"} /\ flight'[v].window = flight[v].window
  <2>1. PICK r \in Flight : r = flight[v]
    BY <1>2
  <2>2. flight'[v] = Lifted(r, "suspended")
    BY <1>3, <2>1
  <2> QED BY <2>1, <2>2, LiftedIs
<1>5. KeyTyped'
  <2>1. flight' \in [Caller -> Flight]
    BY <1>1, <1>4
  <2>2. bars' \subseteq Reasons
    BY <1>1, Known
  <2> QED BY <1>1, <2>1, <2>2 DEF KeyInv, KeyTyped, KeyTypeOK
<1>6. Alone'
  BY <1>1, <1>4 DEF KeyInv, Alone, Awaits
<1>7. ASSUME NEW v \in Caller PROVE Fit(flight[v])'
  <2>1. PICK r \in Flight, q \in Flight : r = flight[v] /\ q = flight'[v]
    BY <1>2, <1>4
  <2>2. Fit(r) /\ r.since \subseteq bars
    BY <2>1 DEF KeyInv, Fit
  <2>3. /\ q.pc = r.pc /\ q.copy = r.copy /\ q.patch = r.patch /\ q.stale = r.stale
        /\ q.since = r.since \ {"suspended"} /\ q.window = r.window
    BY <1>4, <2>1
  <2>4. q.since \subseteq bars' /\ q.since \subseteq r.since
    BY <1>1, <2>2, <2>3
  <2>5. Fit(q)'
    BY <1>1, <1>2, <2>2, <2>3, <2>4, FitStays
  <2> QED BY <2>1, <2>5 DEF Fit
<1>8. Windows'
  <2>1. plan.limit # 0 => \A s \in 0 .. MaxClock : Pending(s)' \subseteq Pending(s)
    BY <1>4 DEF Pending
  <2> QED BY <1>1, <1>2, <2>1, WindowsStay DEF KeyInv
<1>9. Barred'
  BY <1>1, Known DEF Barred
<1>10. WithinQuota' /\ NoAnswerAfterRevocation'
  BY <1>1 DEF KeyInv, WithinQuota, Most, NoAnswerAfterRevocation, plan
<1> QED BY <1>5, <1>6, <1>7, <1>8, <1>9, <1>10 DEF KeyInv

LEMMA CreateKeeps == ASSUME KeyInv, NEW w \in Caller, create_api_key(w) PROVE KeyInv'
<1>1. /\ UNCHANGED <<conf, owner, leaving, counter, clock, calls, history>>
      /\ flight[w].pc = "insert" /\ flight' = [flight EXCEPT ![w] = Vacant]
  BY DEF create_api_key, Awaits, Proceed
<1>2. CASE Refused
  BY <1>1, <1>2, GiveUpKeeps DEF create_api_key, Proceed
<1>3. CASE ~Refused
  <2>1. PICK r \in Flight : r = flight[w]
    BY CallIs
  <2>2. /\ bars' = bars /\ lost' = lost /\ breached' = breached /\ served' = served /\ taken' = taken
        /\ conf' = conf /\ owner' = owner /\ leaving' = leaving
        /\ counter' = counter /\ clock' = clock /\ calls' = calls
    BY <1>1 DEF history
  <2>3. born' = TRUE /\ row' = [enabled |-> TRUE, scope |-> TRUE, remaining |-> plan.quota,
                                refilled |-> r.mark, made |-> r.mark]
    BY <1>3, <2>1 DEF create_api_key
  <2>4. /\ row' \in Row /\ row' # Absent /\ row'.remaining = plan.quota
    <3>1. r.mark \in Nat /\ plan.quota \in Nat \cup {Absent}
      BY CallIs, PlanIs DEF Flight
    <3>2. row' \in Row /\ row'.remaining = plan.quota
      BY <2>3, <3>1 DEF Row
    <3> QED BY <3>2, AbsentAssumption
  <2>5. ~born /\ \A v \in Caller : flight'[v].pc = "idle"
    <3>1. ~born /\ \A v \in Caller \ {w} : flight[v].pc = "idle"
      BY <1>1 DEF KeyInv, Alone, Awaits
    <3> QED BY <1>1, <3>1, CallIs, VacantIs
  <2>6. flight' \in [Caller -> Flight] /\ flight \in [Caller -> Flight]
    BY <1>1, CallIs, VacantIs
  <2>7. \A v \in Caller : flight'[v].copy = Absent /\ flight'[v].since = {}
    BY <1>1, <2>5, <2>6, VacantIs DEF KeyInv, Fit, Using
  <2>8. KeyTyped'
    BY <2>2, <2>3, <2>4, <2>6 DEF KeyInv, KeyTyped, KeyTypeOK
  <2>9. Alone' /\ \A v \in Caller : Fit(flight[v])'
    BY <2>5, <2>7 DEF Alone, Awaits, Fit, Using
  <2>10. Windows'
    <3>1. plan.limit # 0 => \A s \in 0 .. MaxClock : Pending(s)' \subseteq Pending(s)
      BY <2>5 DEF Pending
    <3> QED BY <2>2, <3>1, Known, WindowsStay DEF KeyInv
  <2>11. Barred' /\ NoAnswerAfterRevocation'
    BY <2>2, <2>3, <2>5, Known DEF Barred, KeyInv, NoAnswerAfterRevocation
  <2>12. WithinQuota'
    <3>1. plan' = plan
      BY <2>2 DEF plan
    <3>2. plan.quota # Absent => plan.quota \in Nat /\ plan.refill \in Nat
      BY CallIs, PlanIs
    <3>3. ~lost /\ plan.quota # Absent => served = 0
      BY <2>5 DEF KeyInv, WithinQuota
    <3> QED BY <2>2, <2>3, <2>4, <3>1, <3>2, <3>3 DEF WithinQuota, Most
  <2> QED BY <2>8, <2>9, <2>10, <2>11, <2>12 DEF KeyInv
<1> QED BY <1>2, <1>3
------------------------------------------------------------------------------
(* The writes of a whole row.                                              *)
Writing == {"over", "spend", "u_write"}

LEMMA WriterIs ==
    ASSUME KeyInv, NEW w \in Caller, NEW r, r = flight[w], r.pc \in Writing,
           NEW new \in Row, Rewrite(w, new), Loses(w)
    PROVE  /\ r \in Flight /\ Fit(r) /\ r.copy \in Row /\ born
           /\ lost => lost'
           /\ row = Absent => row' = Absent
           /\ row # Absent => row' = new
           /\ row # Absent /\ ~lost' => r.copy = row
           /\ lost' \in BOOLEAN
<1>1. r \in Flight /\ Fit(r) /\ lost \in BOOLEAN
  BY CallIs DEF KeyInv, KeyTyped, KeyTypeOK
<1>2. r.copy \in Row /\ born
  BY <1>1 DEF Fit, Using, Writing
<1>3. (lost => lost') /\ lost' \in BOOLEAN /\ (row # Absent /\ ~lost' => ~r.stale)
  BY <1>1 DEF Loses
<1>4. row # Absent /\ ~lost' => r.copy = row
  BY <1>1, <1>2, <1>3, AbsentAssumption DEF Fit
<1>5. (row = Absent => row' = Absent) /\ (row # Absent => row' = new)
  BY DEF Rewrite
<1> QED BY <1>1, <1>2, <1>3, <1>4, <1>5

(* The writer is done, the others' copies are out of date.                 *)
LEMMA WritingCalls ==
    ASSUME KeyInv, NEW w \in Caller, flight[w].pc \in Writing, born,
           flight' \in [Caller -> Flight], flight'[w] = Vacant,
           \A v \in Caller \ {w} :
               /\ flight'[v].pc = flight[v].pc /\ flight'[v].copy = flight[v].copy
               /\ flight'[v].patch = flight[v].patch /\ flight'[v].window = flight[v].window
               /\ flight'[v].since \subseteq flight[v].since /\ flight'[v].since \subseteq bars'
               /\ flight'[v].stale \/ flight'[v].copy = Absent,
           UNCHANGED <<conf, born, clock>>, lost => lost'
    PROVE  /\ Alone' /\ \A v \in Caller : Fit(flight[v])'
           /\ \A s : Pending(s)' \subseteq Pending(s)
<1>1. flight \in [Caller -> Flight] /\ clock \in Nat
  BY DEF KeyInv, KeyTyped, KeyTypeOK
<1>2. Alone'
  BY VacantIs DEF KeyInv, Alone, Awaits
<1>3. ASSUME NEW v \in Caller PROVE Fit(flight[v])'
  <2>1. CASE v = w
    <3>1. flight'[v] = Vacant
      BY <2>1
    <3> QED BY <3>1, VacantIs DEF Fit, Using
  <2>2. CASE v # w
    <3>1. PICK r \in Flight, q \in Flight : r = flight[v] /\ q = flight'[v]
      BY <1>1
    <3>2. Fit(r)
      BY <3>1 DEF KeyInv
    <3>3. /\ q.pc = r.pc /\ q.copy = r.copy /\ q.patch = r.patch /\ q.window = r.window
          /\ q.since \subseteq r.since /\ q.since \subseteq bars' /\ (q.stale \/ q.copy = Absent)
      BY <2>2, <3>1
    <3>4. Fit(q)'
      BY <1>1, <3>2, <3>3, FitStays
    <3> QED BY <3>1, <3>4 DEF Fit
  <2> QED BY <2>1, <2>2
<1>4. \A s : Pending(s)' \subseteq Pending(s)
  BY VacantIs DEF Pending
<1> QED BY <1>2, <1>3, <1>4

LEMMA AfterRewriteIs ==
    ASSUME KeyInv, NEW w \in Caller, NEW S,
           S = [v \in Caller |-> IF v = w THEN Vacant
                                 ELSE [flight[v] EXCEPT !.stale = (@ \/ flight[v].copy # Absent)]]
    PROVE  /\ S \in [Caller -> Flight] /\ S[w] = Vacant
           /\ \A v \in Caller \ {w} :
               /\ S[v].pc = flight[v].pc /\ S[v].copy = flight[v].copy
               /\ S[v].patch = flight[v].patch /\ S[v].window = flight[v].window
               /\ S[v].since = flight[v].since
               /\ S[v].stale \/ S[v].copy = Absent
<1>1. flight \in [Caller -> Flight]
  BY CallIs
<1>2. ASSUME NEW v \in Caller \ {w}
      PROVE  /\ S[v] \in Flight /\ S[v].pc = flight[v].pc /\ S[v].copy = flight[v].copy
             /\ S[v].patch = flight[v].patch /\ S[v].window = flight[v].window
             /\ S[v].since = flight[v].since
             /\ S[v].stale \/ S[v].copy = Absent
  <2>1. PICK r \in Flight, b \in BOOLEAN : r = flight[v] /\ b = (flight[v].copy # Absent)
    BY <1>1
  <2>2. S[v] = Outdated(r, b)
    BY <2>1 DEF Outdated
  <2>3. PICK q : q = S[v]
    OBVIOUS
  <2>4. /\ q \in Flight /\ q.pc = r.pc /\ q.copy = r.copy /\ q.patch = r.patch
        /\ q.stale = (r.stale \/ b) /\ q.since = r.since /\ q.window = r.window
    BY <2>2, <2>3, StaleIs
  <2>5. q.stale \/ q.copy = Absent
    BY <2>1, <2>4
  <2> QED BY <2>1, <2>3, <2>4, <2>5
<1>3. S[w] = Vacant
  OBVIOUS
<1>4. S \in [Caller -> Flight]
  BY <1>2, <1>3, VacantIs
<1> QED BY <1>2, <1>3, <1>4

(* A write that takes nothing from the quota.                              *)
LEMMA QuotaStays ==
    ASSUME KeyInv, UNCHANGED <<conf, born, served>>, lost => lost',
           row' = Absent \/ (~lost' => row # Absent /\ row'.remaining = row.remaining)
    PROVE  WithinQuota'
<1>1. plan' = plan
  BY DEF plan
<1>2. CASE lost'
  BY <1>2 DEF WithinQuota
<1>3. CASE ~lost'
  BY <1>1, <1>3 DEF KeyInv, WithinQuota, Most
<1> QED BY <1>2, <1>3

LEMMA RefuseOverKeeps == ASSUME KeyInv, NEW w \in Caller, RefuseOver(w) PROVE KeyInv'
<1>1. PICK r : r = flight[w]
  OBVIOUS
<1>2. /\ UNCHANGED <<conf, born, owner, leaving, counter, clock, calls, bars, breached, served, taken>>
      /\ r.pc \in Writing /\ r.pc = "over" /\ Rewrite(w, r.copy) /\ Loses(w) /\ AfterRewrite(w)
  BY <1>1 DEF RefuseOver, Awaits, Writing
<1>3. r.copy \in Row
  BY <1>1, <1>2, CallIs DEF Fit, Using
<1>4. /\ born /\ (lost => lost') /\ lost' \in BOOLEAN
      /\ row = Absent => row' = Absent
      /\ row # Absent => row' = r.copy
      /\ row # Absent /\ ~lost' => r.copy = row
  BY <1>1, <1>2, <1>3, WriterIs
<1>5. row' \in Row \cup {Absent} /\ (row' # Absent => born')
  BY <1>2, <1>3, <1>4
<1>6. /\ flight' \in [Caller -> Flight] /\ flight'[w] = Vacant
      /\ \A v \in Caller \ {w} :
            /\ flight'[v].pc = flight[v].pc /\ flight'[v].copy = flight[v].copy
            /\ flight'[v].patch = flight[v].patch /\ flight'[v].window = flight[v].window
            /\ flight'[v].since = flight[v].since
            /\ flight'[v].stale \/ flight'[v].copy = Absent
  BY <1>2, AfterRewriteIs DEF AfterRewrite
<1>7. \A v \in Caller \ {w} : flight'[v].since \subseteq flight[v].since /\ flight'[v].since \subseteq bars'
  BY <1>2, <1>6 DEF KeyInv, Fit
<1>8. Alone' /\ (\A v \in Caller : Fit(flight[v])') /\ \A s : Pending(s)' \subseteq Pending(s)
  <2>1. flight[w].pc \in Writing /\ UNCHANGED <<conf, born, clock>>
    BY <1>1, <1>2
  <2> QED BY <1>4, <1>6, <1>7, <2>1, WritingCalls
<1>9. KeyTyped'
  BY <1>2, <1>4, <1>5, <1>6 DEF KeyInv, KeyTyped, KeyTypeOK
<1>10. Windows'
  <2>1. clock' \in Nat /\ clock <= clock'
    BY <1>2, Known
  <2> QED BY <1>2, <1>8, <2>1, WindowsStay DEF KeyInv
<1>11. Barred'
  BY <1>2, <1>4, Known DEF Barred
<1>12. WithinQuota'
  BY <1>2, <1>4, QuotaStays
<1>13. NoAnswerAfterRevocation'
  BY <1>2, <1>4 DEF KeyInv, NoAnswerAfterRevocation
<1> QED BY <1>8, <1>9, <1>10, <1>11, <1>12, <1>13 DEF KeyInv

LEMMA PatchedIs ==
    ASSUME NEW r \in Flight, r.copy \in Row, r.patch \in Patches, NEW k, k = Patched(r)
    PROVE  /\ k \in Row /\ k.remaining = r.copy.remaining
           /\ IF r.patch.field = "enabled" THEN k.enabled = r.patch.value /\ k.scope = r.copy.scope
              ELSE k.scope = r.patch.value /\ k.enabled = r.copy.enabled
<1>1. r.patch.value \in BOOLEAN
  BY DEF Patches
<1>2. PICK b \in BOOLEAN, d \in Row : b = r.patch.value /\ d = r.copy
  BY <1>1
<1>3. CASE r.patch.field = "enabled"
  <2>1. k = [d EXCEPT !.enabled = b]
    BY <1>2, <1>3 DEF Patched
  <2> QED BY <1>2, <1>3, <2>1 DEF Row
<1>4. CASE r.patch.field # "enabled"
  <2>1. k = [d EXCEPT !.scope = b]
    BY <1>2, <1>4 DEF Patched
  <2> QED BY <1>2, <1>4, <2>1 DEF Row
<1> QED BY <1>3, <1>4

LEMMA UpdateWriteKeeps == ASSUME KeyInv, NEW w \in Caller, UpdateWrite(w) PROVE KeyInv'
<1>1. PICK r : r = flight[w]
  OBVIOUS
<1>2. PICK S : S = [v \in Caller |-> IF v = w THEN Vacant
                                     ELSE [flight[v] EXCEPT !.stale = (@ \/ flight[v].copy # Absent)]]
  OBVIOUS
<1>3. PICK reason : reason = IF r.patch.field = "enabled" THEN "disabled" ELSE "narrowed"
  OBVIOUS
<1>4. /\ UNCHANGED <<conf, born, owner, leaving, counter, clock, calls, breached, served, taken>>
      /\ r.pc = "u_write" /\ r.pc \in Writing /\ Rewrite(w, Patched(r)) /\ Loses(w)
      /\ \/ row = Absent /\ bars' = bars /\ flight' = S
         \/ row # Absent /\ ~r.patch.value /\ Bar(reason) /\ flight' = S
         \/ row # Absent /\ r.patch.value /\ bars' = bars \ {reason} /\ flight' = Lift(reason, S)
  BY <1>1, <1>2, <1>3, Zenon DEF UpdateWrite, Awaits, Writing
<1>5. r \in Flight /\ r.copy \in Row /\ r.patch \in Patches
  BY <1>1, <1>4, CallIs DEF Fit, Using
<1>6. PICK k : k = Patched(r)
  OBVIOUS
<1>7. /\ k \in Row /\ k.remaining = r.copy.remaining
      /\ IF r.patch.field = "enabled" THEN k.enabled = r.patch.value /\ k.scope = r.copy.scope
         ELSE k.scope = r.patch.value /\ k.enabled = r.copy.enabled
  BY <1>5, <1>6, PatchedIs
<1>8. /\ born /\ (lost => lost') /\ lost' \in BOOLEAN
      /\ row = Absent => row' = Absent
      /\ row # Absent => row' = k
      /\ row # Absent /\ ~lost' => r.copy = row
  BY <1>1, <1>4, <1>6, <1>7, WriterIs
<1>9. row' \in Row \cup {Absent} /\ (row' # Absent => born')
  BY <1>4, <1>7, <1>8
<1>10. bars' \subseteq Reasons
  BY <1>3, <1>4, Known DEF Bar, Reasons
<1>11. /\ S \in [Caller -> Flight] /\ S[w] = Vacant
       /\ \A v \in Caller \ {w} :
            /\ S[v].pc = flight[v].pc /\ S[v].copy = flight[v].copy
            /\ S[v].patch = flight[v].patch /\ S[v].window = flight[v].window
            /\ S[v].since = flight[v].since
            /\ S[v].stale \/ S[v].copy = Absent
  BY <1>2, AfterRewriteIs
<1>12. /\ flight' \in [Caller -> Flight] /\ flight'[w] = Vacant
       /\ \A v \in Caller \ {w} :
            /\ flight'[v].pc = flight[v].pc /\ flight'[v].copy = flight[v].copy
            /\ flight'[v].patch = flight[v].patch /\ flight'[v].window = flight[v].window
            /\ flight'[v].since \subseteq flight[v].since /\ flight'[v].since \subseteq bars'
            /\ flight'[v].stale \/ flight'[v].copy = Absent
  <2>1. \A v \in Caller : flight[v].since \subseteq bars
    BY DEF KeyInv, Fit
  <2>2. CASE flight' = S /\ bars \subseteq bars'
    BY <1>11, <2>1, <2>2
  <2>3. CASE flight' = Lift(reason, S) /\ bars' = bars \ {reason}
    <3>1. ASSUME NEW v \in Caller
          PROVE  /\ flight'[v] \in Flight /\ flight'[v].pc = S[v].pc /\ flight'[v].copy = S[v].copy
                 /\ flight'[v].patch = S[v].patch /\ flight'[v].window = S[v].window
                 /\ flight'[v].since = S[v].since \ {reason} /\ flight'[v].stale = S[v].stale
      <4>1. PICK d \in Flight : d = S[v]
        BY <1>11
      <4>2. flight'[v] = Lifted(d, reason)
        BY <2>3, <4>1 DEF Lift, Lifted
      <4> QED BY <4>1, <4>2, LiftedIs
    <3>2. flight' \in [Caller -> Flight]
      BY <2>3, <3>1 DEF Lift
    <3>3. flight'[w] = Vacant
      <4>1. PICK d : d = Vacant
        OBVIOUS
      <4>2. d \in Flight /\ d.since = {}
        BY <4>1, VacantIs
      <4>3. flight'[w] = [d EXCEPT !.since = @ \ {reason}]
        BY <1>11, <2>3, <4>1 DEF Lift
      <4>4. [d EXCEPT !.since = @ \ {reason}] = d
        BY <4>2 DEF Flight
      <4> QED BY <4>1, <4>3, <4>4
    <3>4. ASSUME NEW v \in Caller \ {w}
          PROVE  /\ flight'[v].pc = flight[v].pc /\ flight'[v].copy = flight[v].copy
                 /\ flight'[v].patch = flight[v].patch /\ flight'[v].window = flight[v].window
                 /\ flight'[v].since = flight[v].since \ {reason}
                 /\ flight'[v].stale \/ flight'[v].copy = Absent
      BY <1>11, <3>1
    <3>5. \A v \in Caller \ {w} : flight'[v].since \subseteq flight[v].since /\ flight'[v].since \subseteq bars'
      BY <2>1, <2>3, <3>4
    <3> QED BY <3>2, <3>3, <3>4, <3>5
  <2> QED BY <1>4, <2>2, <2>3 DEF Bar
<1>13. Alone' /\ (\A v \in Caller : Fit(flight[v])') /\ \A s : Pending(s)' \subseteq Pending(s)
  <2>1. flight[w].pc \in Writing /\ UNCHANGED <<conf, born, clock>>
    BY <1>1, <1>4
  <2> QED BY <1>8, <1>12, <2>1, WritingCalls
<1>14. KeyTyped'
  BY <1>4, <1>8, <1>9, <1>10, <1>12 DEF KeyInv, KeyTyped, KeyTypeOK
<1>15. Windows'
  <2>1. clock' \in Nat /\ clock <= clock'
    BY <1>4, Known
  <2> QED BY <1>4, <1>13, <2>1, WindowsStay DEF KeyInv
<1>16. Barred'
  <2>1. CASE row = Absent
    BY <1>4, <1>8, <2>1, Known DEF Barred
  <2>2. CASE row # Absent /\ ~r.patch.value
    BY <1>3, <1>4, <1>7, <1>8, <2>2, Known DEF Barred, Bar
  <2>3. CASE row # Absent /\ r.patch.value
    BY <1>3, <1>4, <1>7, <1>8, <2>3, Known DEF Barred, Bar
  <2> QED BY <2>1, <2>2, <2>3
<1>17. WithinQuota'
  BY <1>4, <1>7, <1>8, QuotaStays
<1>18. NoAnswerAfterRevocation'
  BY <1>4, <1>8 DEF KeyInv, NoAnswerAfterRevocation
<1> QED BY <1>13, <1>14, <1>15, <1>16, <1>17, <1>18 DEF KeyInv

(* The row a verification writes.                                          *)
LEMMA RefilledIs ==
    ASSUME conf \in Confs, NEW r \in Flight, r.copy \in Row, NEW c, c = Refilled(r)
    PROVE  /\ c \in Row /\ c.enabled = r.copy.enabled /\ c.scope = r.copy.scope
           /\ RefillDue(r) => c.remaining = plan.refill /\ plan.refill \in Nat \ {0}
           /\ ~RefillDue(r) => c = r.copy
<1>1. CASE RefillDue(r)
  <2>1. plan.refill \in Nat /\ plan.refill # 0 /\ r.mark \in Nat
    BY <1>1, PlanIs DEF RefillDue, Flight
  <2>2. PICK d, f, m : d = r.copy /\ d \in Row /\ f = plan.refill /\ m = r.mark
    OBVIOUS
  <2>3. PICK e : e = [d EXCEPT !.remaining = f]
    OBVIOUS
  <2>4. e \in Row /\ e.enabled = d.enabled /\ e.scope = d.scope /\ e.remaining = f
    BY <2>1, <2>2, <2>3 DEF Row
  <2>5. c = [e EXCEPT !.refilled = m]
    <3>1. c = [r.copy EXCEPT !.remaining = plan.refill, !.refilled = r.mark]
      BY <1>1 DEF Refilled
    <3> QED BY <2>2, <2>3, <3>1, Zenon
  <2>6. c \in Row /\ c.enabled = e.enabled /\ c.scope = e.scope /\ c.remaining = e.remaining
    BY <2>1, <2>2, <2>4, <2>5 DEF Row
  <2> QED BY <1>1, <2>1, <2>2, <2>4, <2>6
<1>2. CASE ~RefillDue(r)
  <2>1. c = r.copy
    BY <1>2 DEF Refilled
  <2> QED BY <1>2, <2>1
<1> QED BY <1>1, <1>2

LEMMA SpentIs ==
    ASSUME NEW c \in Row, ~Exhausted(c), NEW k, k = Spent(c)
    PROVE  /\ k \in Row /\ k.enabled = c.enabled /\ k.scope = c.scope
           /\ IF c.remaining = Absent THEN k.remaining = Absent
              ELSE c.remaining \in Nat \ {0} /\ k.remaining \in Nat /\ k.remaining + 1 = c.remaining
<1>1. CASE c.remaining = Absent
  BY <1>1 DEF Spent
<1>2. CASE c.remaining # Absent
  <2>1. c.remaining \in Nat /\ c.remaining > 0
    BY <1>2 DEF Exhausted, Row
  <2>2. PICK n \in Nat : n + 1 = c.remaining
    <3>1. c.remaining - 1 \in Nat /\ (c.remaining - 1) + 1 = c.remaining
      BY <2>1
    <3> QED BY <3>1
  <2>3. k = [c EXCEPT !.remaining = n]
    <3>1. k = [c EXCEPT !.remaining = @ - 1]
      BY <1>2 DEF Spent
    <3>2. c.remaining - 1 = n
      BY <2>1, <2>2
    <3> QED BY <3>1, <3>2
  <2>4. k \in Row /\ k.enabled = c.enabled /\ k.scope = c.scope /\ k.remaining = n
    BY <2>2, <2>3 DEF Row
  <2> QED BY <1>2, <2>1, <2>2, <2>4
<1> QED BY <1>1, <1>2

LEMMA SpendKeeps == ASSUME KeyInv, NEW w \in Caller, Spend(w) PROVE KeyInv'
<1>1. PICK r : r = flight[w]
  OBVIOUS
<1>2. PICK c : c = Refilled(r)
  OBVIOUS
<1>3. PICK k : k = IF Exhausted(c) THEN c ELSE Spent(c)
  OBVIOUS
<1>4. /\ UNCHANGED <<conf, born, owner, leaving, counter, clock, calls, bars>>
      /\ r.pc = "spend" /\ (r.asks => r.copy.scope)
      /\ Rewrite(w, k) /\ Loses(w) /\ AfterRewrite(w)
      /\ IF Exhausted(c) \/ row' = Absent THEN UNCHANGED <<breached, served, taken>>
         ELSE /\ breached' = breached \cup (r.since \ IF r.asks THEN {} ELSE {"narrowed"})
              /\ served' = IF RefillDue(r) THEN 1 ELSE served + 1
              /\ taken' = IF plan.limit = 0 THEN taken ELSE [taken EXCEPT ![r.window] = @ + 1]
  BY <1>1, <1>2, <1>3, Zenon DEF Spend, Awaits
<1>5. r.pc \in Writing
  BY <1>4 DEF Writing
<1>6. r \in Flight /\ Fit(r) /\ r.copy \in Row /\ conf \in Confs
  BY <1>1, <1>4, CallIs DEF Fit, Using
<1>7. /\ c \in Row /\ c.enabled = r.copy.enabled /\ c.scope = r.copy.scope
      /\ RefillDue(r) => c.remaining = plan.refill /\ plan.refill \in Nat \ {0}
      /\ ~RefillDue(r) => c = r.copy
  BY <1>2, <1>6, RefilledIs
<1>8. /\ k \in Row /\ k.enabled = c.enabled /\ k.scope = c.scope
      /\ Exhausted(c) => k = c
      /\ ~Exhausted(c) =>
            IF c.remaining = Absent THEN k.remaining = Absent
            ELSE c.remaining \in Nat \ {0} /\ k.remaining \in Nat /\ k.remaining + 1 = c.remaining
  <2>1. CASE Exhausted(c)
    BY <1>3, <1>7, <2>1
  <2>2. CASE ~Exhausted(c)
    <3>1. k = Spent(c)
      BY <1>3, <2>2
    <3> QED BY <1>7, <2>2, <3>1, SpentIs
  <2> QED BY <2>1, <2>2
<1>9. /\ born /\ (lost => lost') /\ lost' \in BOOLEAN
      /\ row = Absent => row' = Absent
      /\ row # Absent => row' = k
      /\ row # Absent /\ ~lost' => r.copy = row
  BY <1>1, <1>4, <1>5, <1>8, WriterIs
<1>10. row' \in Row \cup {Absent} /\ (row' # Absent => born')
  BY <1>4, <1>8, <1>9
<1>11. /\ flight' \in [Caller -> Flight] /\ flight'[w] = Vacant
       /\ \A v \in Caller \ {w} :
            /\ flight'[v].pc = flight[v].pc /\ flight'[v].copy = flight[v].copy
            /\ flight'[v].patch = flight[v].patch /\ flight'[v].window = flight[v].window
            /\ flight'[v].since = flight[v].since
            /\ flight'[v].stale \/ flight'[v].copy = Absent
  BY <1>4, AfterRewriteIs DEF AfterRewrite
<1>12. \A v \in Caller \ {w} : flight'[v].since \subseteq flight[v].since /\ flight'[v].since \subseteq bars'
  BY <1>4, <1>11 DEF KeyInv, Fit
<1>13. Alone' /\ (\A v \in Caller : Fit(flight[v])') /\ \A s : Pending(s)' \subseteq Pending(s)
  <2>1. flight[w].pc \in Writing /\ UNCHANGED <<conf, born, clock>>
    BY <1>1, <1>4, <1>5
  <2> QED BY <1>9, <1>11, <1>12, <2>1, WritingCalls
<1>14. r.since \subseteq bars /\ bars \subseteq Reasons
  BY <1>6, Known DEF Fit
<1>15. /\ served \in Nat /\ taken \in [0 .. MaxClock -> Nat] /\ breached \subseteq Reasons
  BY DEF KeyInv, KeyTyped, KeyTypeOK
<1>16. breached' \subseteq Reasons /\ served' \in Nat /\ taken' \in [0 .. MaxClock -> Nat]
  <2>1. [taken EXCEPT ![r.window] = @ + 1] \in [0 .. MaxClock -> Nat]
    <3>1. PICK n : n = r.window
      OBVIOUS
    <3>2. CASE n \in 0 .. MaxClock
      <4>1. PICK m \in Nat : m = taken[n] + 1
        BY <1>15, <3>2
      <4>2. [taken EXCEPT ![n] = m] \in [0 .. MaxClock -> Nat]
        BY <1>15, <4>1
      <4> QED BY <3>1, <4>1, <4>2
    <3>3. CASE n \notin 0 .. MaxClock
      BY <1>15, <3>1, <3>3
    <3> QED BY <3>2, <3>3
  <2>2. breached' \subseteq Reasons
    BY <1>4, <1>14, <1>15
  <2>3. served' \in Nat
    BY <1>4, <1>15
  <2>4. taken' \in [0 .. MaxClock -> Nat]
    BY <1>4, <1>15, <2>1
  <2> QED BY <2>2, <2>3, <2>4
<1>17. KeyTyped'
  BY <1>4, <1>9, <1>10, <1>11, <1>16 DEF KeyInv, KeyTyped, KeyTypeOK
<1>18. Barred'
  BY <1>4, <1>7, <1>8, <1>9, Known DEF Barred
<1>19. NoAnswerAfterRevocation'
  <2>1. breached \subseteq IF lost' THEN {"disabled", "narrowed"} ELSE {}
    BY <1>9 DEF KeyInv, NoAnswerAfterRevocation
  <2>2. r.since \subseteq {"disabled", "narrowed"}
    BY <1>4, <1>6, <1>14 DEF Fit, Reasons
  <2>3. ~lost' /\ row' # Absent => "disabled" \notin r.since /\ ("narrowed" \in r.since => ~r.asks)
    BY <1>4, <1>6, <1>9 DEF Fit
  <2>4. ~lost' /\ row' # Absent => r.since \subseteq IF r.asks THEN {} ELSE {"narrowed"}
    BY <2>2, <2>3
  <2>5. breached' = breached \/ (row' # Absent /\ breached' = breached \cup (r.since \ IF r.asks THEN {} ELSE {"narrowed"}))
    BY <1>4
  <2>6. breached' \subseteq IF lost' THEN {"disabled", "narrowed"} ELSE {}
    BY <2>1, <2>2, <2>4, <2>5
  <2> QED BY <2>6 DEF NoAnswerAfterRevocation
<1>20. WithinQuota'
  <2>1. SUFFICES ASSUME ~lost', plan.quota # Absent
                 PROVE  /\ ~born' => served' = 0
                        /\ served' <= Most
                        /\ row' # Absent => row'.remaining # Absent /\ served' + row'.remaining <= Most
    <3>1. plan' = plan
      BY <1>4 DEF plan
    <3> QED BY <3>1 DEF WithinQuota, Most
  <2>2. /\ served <= Most
        /\ row # Absent => row.remaining # Absent /\ served + row.remaining <= Most
    BY <1>9, <2>1 DEF KeyInv, WithinQuota
  <2>3. plan.quota \in Nat /\ plan.refill \in Nat /\ Most \in Nat /\ plan.refill <= Most
    BY <1>6, <2>1, PlanIs DEF Most
  <2>4. CASE row = Absent
    BY <1>4, <1>9, <2>2, <2>4
  <2>5. CASE row # Absent
    <3>1. r.copy = row /\ row' = k /\ row' # Absent
      BY <1>8, <1>9, <2>1, <2>5, AbsentAssumption
    <3>2. row.remaining \in Nat /\ served + row.remaining <= Most
      BY <1>6, <2>2, <2>5, <3>1 DEF Row
    <3>3. CASE RefillDue(r)
      <4>1. c.remaining = plan.refill /\ plan.refill \in Nat \ {0} /\ c.remaining # Absent
        BY <1>7, <3>3, KeyAssumption
      <4>2. ~Exhausted(c)
        BY <4>1 DEF Exhausted
      <4>3. served' = 1
        BY <1>4, <3>1, <3>3, <4>2
      <4>4. k.remaining \in Nat /\ k.remaining + 1 = plan.refill
        BY <1>8, <4>1, <4>2
      <4> QED BY <1>4, <1>9, <2>3, <3>1, <4>3, <4>4, KeyAssumption
    <3>4. CASE ~RefillDue(r)
      <4>1. c = row
        BY <1>7, <3>1, <3>4
      <4>2. c.remaining # Absent
        BY <3>2, <4>1, KeyAssumption
      <4>3. CASE Exhausted(c)
        BY <1>4, <1>8, <1>9, <2>2, <3>1, <3>2, <4>1, <4>2, <4>3
      <4>4. CASE ~Exhausted(c)
        <5>1. served' = served + 1
          BY <1>4, <3>1, <3>4, <4>4
        <5>2. k.remaining \in Nat /\ k.remaining + 1 = row.remaining
          BY <1>8, <4>1, <4>2, <4>4
        <5>3. served' \in Nat /\ served' + k.remaining <= Most
          BY <1>15, <3>2, <5>1, <5>2
        <5>4. served' <= Most /\ k.remaining # Absent
          BY <2>3, <5>2, <5>3, KeyAssumption
        <5> QED BY <1>4, <1>9, <3>1, <5>3, <5>4
      <4> QED BY <4>3, <4>4
    <3> QED BY <3>3, <3>4
  <2> QED BY <2>4, <2>5
<1>21. Windows'
  <2>1. plan' = plan /\ counter' = counter /\ clock' = clock
    BY <1>4 DEF plan
  <2>2. counter # Absent => counter.start <= clock
    BY DEF KeyInv, Windows
  <2>3. ASSUME plan.limit # 0, NEW s \in 0 .. MaxClock
        PROVE  /\ taken'[s] + Cardinality(Pending(s)') <= plan.limit
               /\ counter = Absent \/ counter.start < s => taken'[s] + Cardinality(Pending(s)') = 0
               /\ counter # Absent /\ counter.start = s => taken'[s] + Cardinality(Pending(s)') <= counter.count
    <3>1. PICK a, b : a = Cardinality(Pending(s)) /\ b = Cardinality(Pending(s)')
      OBVIOUS
    <3>2. a \in Nat /\ b \in Nat
      BY <3>1, PendingIsFinite, PendingIsFiniteNext
    <3>3. /\ taken[s] + a <= plan.limit
          /\ counter = Absent \/ counter.start < s => taken[s] + a = 0
          /\ counter # Absent /\ counter.start = s => taken[s] + a <= counter.count
      BY <2>3, <3>1 DEF KeyInv, Windows
    <3>4. taken[s] \in Nat /\ plan.limit \in Nat /\ (counter # Absent => counter.count \in Nat)
      BY <1>6, <1>15, PlanIs DEF KeyInv, KeyTyped, KeyTypeOK, Counter
    <3>5. taken'[s] \in Nat /\ taken'[s] + b <= taken[s] + a
      <4>1. CASE s = r.window
        <5>1. w \in Pending(s)
          BY <1>1, <1>4, <4>1 DEF Pending
        <5>2. Pending(s)' \subseteq Pending(s) \ {w}
          <6>1. w \notin Pending(s)'
            BY <1>11, VacantIs DEF Pending
          <6> QED BY <1>13, <6>1
        <5>3. IsFiniteSet(Pending(s) \ {w}) /\ Cardinality(Pending(s) \ {w}) = a - 1
          BY <3>1, <5>1, PendingIsFinite, FS_RemoveElement
        <5>4. b <= a - 1
          BY <3>1, <5>2, <5>3, FS_Subset
        <5>5. taken'[s] = taken[s] \/ taken'[s] = taken[s] + 1
          BY <1>4, <1>15
        <5> QED BY <3>2, <3>4, <5>4, <5>5
      <4>2. CASE s # r.window
        <5>1. taken'[s] = taken[s]
          BY <1>4, <1>15, <4>2
        <5>2. b <= a
          BY <1>13, <3>1, PendingIsFinite, FS_Subset
        <5> QED BY <3>2, <3>4, <5>1, <5>2
      <4> QED BY <4>1, <4>2
    <3>6. /\ taken'[s] + b <= plan.limit
          /\ counter = Absent \/ counter.start < s => taken'[s] + b = 0
          /\ counter # Absent /\ counter.start = s => taken'[s] + b <= counter.count
      <4>1. taken[s] + a = 0 => taken'[s] + b = 0
        <5>1. PICK t, u : t = taken[s] /\ u = taken'[s]
          OBVIOUS
        <5>2. t \in Nat /\ u \in Nat /\ u + b <= t + a
          BY <3>4, <3>5, <5>1
        <5>3. t + a = 0 => u + b = 0
          BY <3>2, <5>2
        <5> QED BY <5>1, <5>3
      <4>2. ASSUME NEW m \in Nat, taken[s] + a <= m PROVE taken'[s] + b <= m
        BY <3>2, <3>4, <3>5, <4>2
      <4> QED BY <3>3, <3>4, <4>1, <4>2
    <3> QED BY <3>1, <3>6
  <2> QED BY <2>1, <2>2, <2>3 DEF Windows
<1> QED BY <1>13, <1>17, <1>18, <1>19, <1>20, <1>21 DEF KeyInv
------------------------------------------------------------------------------
LEMMA KeyInvInit == KeyInit => KeyInv
<1>1. SUFFICES ASSUME KeyInit PROVE KeyInv
  OBVIOUS
<1>2. /\ conf \in Confs /\ row = Absent /\ born = FALSE /\ owner = "active" /\ leaving = FALSE
      /\ counter = Absent /\ clock = 0 /\ calls = 0 /\ flight = [w \in Caller |-> Vacant]
      /\ bars = {} /\ breached = {} /\ lost = FALSE /\ served = 0
      /\ taken = [s \in 0 .. MaxClock |-> 0]
  BY <1>1 DEF KeyInit
<1>3. KeyTyped
  <2>1. flight \in [Caller -> Flight] /\ taken \in [0 .. MaxClock -> Nat]
    BY <1>2, VacantIs
  <2>2. clock \in Nat /\ clock <= MaxClock /\ calls \in Nat /\ served \in Nat
    BY <1>2, KeyAssumption
  <2>3. bars \subseteq Reasons /\ breached \subseteq Reasons
    BY <1>2
  <2> QED BY <1>2, <2>1, <2>2, <2>3 DEF KeyTyped, KeyTypeOK
<1>4. Alone /\ \A w \in Caller : Fit(flight[w])
  BY <1>2, VacantIs DEF Alone, Awaits, Fit, Using
<1>5. Barred /\ NoAnswerAfterRevocation
  BY <1>2 DEF Barred, NoAnswerAfterRevocation
<1>6. WithinQuota
  BY <1>2, PlanIs DEF WithinQuota, Most
<1>7. Windows
  <2>1. \A s : Pending(s) = {}
    BY <1>2, VacantIs DEF Pending
  <2>2. Cardinality({}) = 0
    BY FS_EmptySet
  <2>3. plan.limit \in Nat
    BY <1>2, PlanIs
  <2>4. ASSUME NEW s \in 0 .. MaxClock PROVE taken[s] + Cardinality(Pending(s)) = 0
    BY <1>2, <2>1, <2>2
  <2> QED BY <1>2, <2>3, <2>4 DEF Windows
<1> QED BY <1>3, <1>4, <1>5, <1>6, <1>7 DEF KeyInv

LEMMA KeyInvNext == KeyInv /\ [KeyNext]_keyVars => KeyInv'
<1>1. SUFFICES ASSUME KeyInv, [KeyNext]_keyVars PROVE KeyInv'
  OBVIOUS
<1>2. CASE UNCHANGED keyVars \/ Tick
  BY <1>1, <1>2, TimePasses
<1>3. ASSUME NEW w \in Caller,
             \/ CreateStart(w) \/ create_api_key(w)
             \/ (\E asks \in BOOLEAN : Lookup(w, asks))
             \/ CheckOwner(w) \/ Count(w) \/ RefuseOver(w) \/ RefuseScope(w) \/ Spend(w)
             \/ (\E patch \in Patches : UpdateRead(w, patch)) \/ UpdateOwner(w) \/ UpdateWrite(w)
      PROVE  KeyInv'
  BY <1>1, <1>3, CreateStartKeeps, CreateKeeps, LookupKeeps, CheckOwnerKeeps, CountKeeps, RefuseOverKeeps,
     RefuseScopeKeeps, SpendKeeps, UpdateReadKeeps, UpdateOwnerKeeps, UpdateWriteKeeps
<1>4. CASE delete_for_user \/ delete_expired_api_keys \/ Suspend \/ Activate \/ delete_user
  BY <1>1, <1>4, DeleteKeeps, SuspendKeeps, ActivateKeeps, DeleteUserKeeps
<1> QED BY <1>1, <1>2, <1>3, <1>4 DEF KeyNext

(* Type correctness of the key, its counter and the requests that use it   *)
(* (plugins/api_key.py), for any number of requests: in particular what    *)
(* remains of a quota never becomes negative.                              *)
THEOREM KeyTypeCorrect == KeySpec => []KeyTypeOK
<1>1. KeyInv => KeyTypeOK
  BY DEF KeyInv, KeyTyped
<1> QED BY <1>1, KeyInvInit, KeyInvNext, PTL DEF KeySpec

(* However many verifications and updates overlap: a key that is deleted,  *)
(* or whose owner is suspended or deleted, is not accepted any more by a   *)
(* verification that begins afterwards; nor one that is disabled or lost   *)
(* the permission, unless a change was overwritten unread                  *)
(* (APIKeyService.verify_key).                                             *)
THEOREM NoAnswerAfterRevocationAlways == KeySpec => []NoAnswerAfterRevocation
<1>1. KeyInv => NoAnswerAfterRevocation
  BY DEF KeyInv
<1> QED BY <1>1, KeyInvInit, KeyInvNext, PTL DEF KeySpec

(* However many verifications overlap, a key is used no more often than    *)
(* its quota allows between two refills, unless a change was overwritten   *)
(* unread, and never more often in a window than its limit.                *)
THEOREM UsesAreBoundedAlways == KeySpec => []UsesAreBounded
<1>1. ASSUME KeyInv PROVE UsesAreBounded
  <2>1. QuotaHolds
    BY <1>1 DEF KeyInv, WithinQuota, Most, QuotaHolds
  <2>2. ASSUME plan.limit # 0, NEW s \in 0 .. MaxClock PROVE taken[s] <= plan.limit
    <3>1. PICK a : a = Cardinality(Pending(s))
      OBVIOUS
    <3>2. a \in Nat /\ taken[s] + a <= plan.limit
      BY <1>1, <2>2, <3>1, PendingIsFinite DEF KeyInv, Windows
    <3>3. taken[s] \in Nat /\ plan.limit \in Nat
      BY <1>1, PlanIs DEF KeyInv, KeyTyped, KeyTypeOK
    <3> QED BY <3>2, <3>3
  <2> QED BY <2>1, <2>2 DEF UsesAreBounded, ValidPerWindow
<1>2. KeyInv => UsesAreBounded
  BY <1>1
<1> QED BY <1>2, KeyInvInit, KeyInvNext, PTL DEF KeySpec
==============================================================================
