--------------------------- MODULE Identity_proofs ---------------------------
(***************************************************************************)
(* For any number of requests, users and addresses: the type invariant of  *)
(* Identity, that a verified address is a proven one, that a user only     *)
(* ever has an address it asked for and nobody else has, and that a row    *)
(* written back late leaves the active flag alone and revives no user.     *)
(*                                                                         *)
(* What makes the first two inductive is a fact about the copies the       *)
(* requests carry: whatever a copy says was true when it was read, and     *)
(* stays true, because proven addresses and wishes are never taken back    *)
(* and a user id is never given twice.                                     *)
(*                                                                         *)
(* The second part is about the signing keys of Jwks: for any number of    *)
(* processes, keys and secrets, and wherever a request dies.  What makes   *)
(* its properties inductive is that with shared secrets the newest stored  *)
(* key is always active, and that whoever will sign or retire later has    *)
(* read what the grace period still covers.                                *)
(***************************************************************************)
EXTENDS Identity, Jwks, NaturalsInduction, WellFoundedInduction, TLAPS

(* What a row of user u may say, where P are the proven addresses, W the   *)
(* wishes and B the ids given so far.                                      *)
Backed(u, row, P, W, B) ==
    /\ u \in B
    /\ row.verified => row.email \in P
    /\ row.email \in W[u]

Wish(u, row, W) == row.pending \in W[u] \cup {None}

(* What a request may carry, by the step it is at.                         *)
Carries(r, P, W, B) ==
    /\ r.id # None => r.id \in B
    /\ r.copy # None => r.id # None /\ Backed(r.id, r.copy, P, W, B)
    /\ r.copy # None /\ r.pc # "store" => Wish(r.id, r.copy, W)

Placed(r, P) ==
    /\ r.pc \in {"check", "store", "recheck", "write"} => r.copy # None
    /\ r.pc \in {"check", "store", "consume"} => r.to \in Address
    /\ r.pc = "store" => r.copy.pending = r.to
    /\ r.pc \in {"find", "recheck", "register"} => r.to \in P
    /\ r.pc = "recheck" => r.copy.pending = r.to
    /\ r.pc = "consume" =>
          /\ r.flow \in Purpose
          /\ r.flow = "verify_otp" => r.id # None
          /\ r.flow \in {"verify_otp", "otp_sign_in"} /\ r.id # None =>
                r.copy # None /\ r.copy.email = r.to
          /\ r.flow = "change_otp" => r.copy # None /\ r.copy.pending = r.to

Good(r, P, W, B) == r \in Request /\ Carries(r, P, W, B) /\ Placed(r, P)

RowGood(u, row, P, W, B) == row # None => Backed(u, row, P, W, B) /\ Wish(u, row, W)

Rows == \A u \in User : RowGood(u, user[u], proven, wanted, born)

Requests == \A w \in Worker : Good(req[w], proven, wanted, born)

Inv == TypeOK /\ Rows /\ Requests
------------------------------------------------------------------------------
LEMMA IdleIsGood == \A P, W, B : Good(Idle, P, W, B)
BY DEF Good, Request, Idle, Carries, Placed, AllFlows

(* Facts about proven addresses, wishes and ids are never taken back.      *)
Grows == /\ proven \subseteq proven' /\ born \subseteq born'
         /\ \A u \in born : wanted[u] \subseteq wanted'[u]

LEMMA GoodStays ==
    ASSUME NEW r, Good(r, proven, wanted, born), Grows
    PROVE  Good(r, proven', wanted', born')
BY DEF Good, Carries, Placed, Backed, Wish, Grows

LEMMA RowStays ==
    ASSUME NEW u, NEW row, RowGood(u, row, proven, wanted, born), Grows
    PROVE  RowGood(u, row, proven', wanted', born')
BY DEF RowGood, Backed, Wish, Grows

(* A step that moves one request.                                          *)
LEMMA OneRequest ==
    ASSUME Inv, NEW w \in Worker, NEW r, Good(r, proven', wanted', born'), Becomes(w, r), Grows
    PROVE  Requests' /\ req' \in [Worker -> Request]
<1>1. req \in [Worker -> Request] BY DEF Inv, TypeOK
<1>2. r \in Request BY DEF Good
<1>3. req' \in [Worker -> Request] BY <1>1, <1>2 DEF Becomes
<1>4. ASSUME NEW v \in Worker PROVE Good(req'[v], proven', wanted', born')
    <2>1. CASE v = w
        BY <1>1, <2>1 DEF Becomes
    <2>2. CASE v # w
        <3>1. req'[v] = req[v] BY <1>1, <2>2 DEF Becomes
        <3>2. Good(req[v], proven, wanted, born) BY DEF Inv, Requests
        <3> QED BY <3>1, <3>2, GoodStays
    <2> QED BY <2>1, <2>2
<1> QED BY <1>3, <1>4 DEF Requests

(* A step that only moves one request.                                     *)
LEMMA ReadingStep ==
    ASSUME Inv, Others, changes' \in 0 .. MaxAsked,
           NEW w \in Worker, NEW r, Good(r, proven, wanted, born), Becomes(w, r)
    PROVE  Inv'
<1>1. Grows BY DEF Others, Grows
<1>2. Requests' /\ req' \in [Worker -> Request] BY <1>1, GoodStays, OneRequest
<1>3. Rows' BY DEF Inv, Rows, Others
<1>5. TypeOK' BY <1>2 DEF Inv, TypeOK, Others
<1> QED BY <1>2, <1>3, <1>5 DEF Inv

(* A step that stores a row for one user and may move a request.           *)
LEMMA StoreStep ==
    ASSUME Inv, Grows, TypeOK', Requests', NEW u \in User, NEW row,
           user' = [user EXCEPT ![u] = row], RowGood(u, row, proven', wanted', born')
    PROVE  Inv'
<1>1. user \in [User -> Row \cup {None}] BY DEF Inv, TypeOK
<1>2. ASSUME NEW v \in User PROVE RowGood(v, user'[v], proven', wanted', born')
    <2>1. CASE v = u BY <1>1, <2>1
    <2>2. CASE v # u
        <3>1. user'[v] = user[v] BY <1>1, <2>2
        <3>2. RowGood(v, user[v], proven, wanted, born) BY DEF Inv, Rows
        <3> QED BY <3>1, <3>2, RowStays
    <2> QED BY <2>1, <2>2
<1> QED BY <1>2 DEF Inv, Rows

LEMMA RequestsStay ==
    ASSUME Inv, Grows, req' = req
    PROVE  Requests'
<1>1. \A w \in Worker : Good(req[w], proven, wanted, born) BY DEF Inv, Requests
<1>2. \A w \in Worker : Good(req[w], proven', wanted', born') BY <1>1, GoodStays
<1> QED BY <1>2 DEF Requests

LEMMA RowsStay ==
    ASSUME Inv, Grows, user' = user
    PROVE  Rows'
<1>1. \A u \in User : RowGood(u, user[u], proven, wanted, born) BY DEF Inv, Rows
<1>2. \A u \in User : RowGood(u, user[u], proven', wanted', born') BY <1>1, RowStays
<1> QED BY <1>2 DEF Rows
------------------------------------------------------------------------------
LEMMA InitInv == Init => Inv
<1> SUFFICES ASSUME Init PROVE Inv OBVIOUS
<1>1. \A a \in Address : NewRow(a) \in Row BY DEF NewRow, Row
<1>2. ASSUME NEW home \in Homes, user = Registered(home),
             wanted = [u \in User |-> {home[u]}], born = User
      PROVE  Rows /\ user \in [User -> Row \cup {None}] /\ wanted \in [User -> SUBSET Address]
    <2>1. home \in [User -> Address] BY <1>2 DEF Homes
    <2> QED BY <1>1, <1>2, <2>1 DEF Rows, RowGood, Backed, Wish, Registered, NewRow
<1>3. ASSUME user = [u \in User |-> None], wanted = [u \in User |-> {}], born = {}
      PROVE  Rows /\ user \in [User -> Row \cup {None}] /\ wanted \in [User -> SUBSET Address]
    BY <1>3 DEF Rows, RowGood
<1>4. Rows /\ user \in [User -> Row \cup {None}] /\ wanted \in [User -> SUBSET Address]
      /\ born \subseteq User
    BY <1>2, <1>3 DEF Init
<1>5. Requests BY IdleIsGood DEF Init, Requests
<1>6. req \in [Worker -> Request] BY IdleIsGood DEF Init, Good
<1>7. TypeOK BY <1>4, <1>6, IdentityAssumption DEF Init, TypeOK
<1> QED BY <1>4, <1>5, <1>7 DEF Inv

(* A row that was read can be carried: what it says is backed.             *)
LEMMA ReadRow ==
    ASSUME Inv, NEW u \in User, user[u] # None
    PROVE  /\ user[u] \in Row
           /\ Backed(u, user[u], proven, wanted, born)
           /\ Wish(u, user[u], wanted)
           /\ u \in born
BY DEF Inv, TypeOK, Rows, RowGood, Backed

LEMMA IsGood ==
    ASSUME Inv, NEW w \in Worker
    PROVE  Good(req[w], proven, wanted, born) /\ req[w] \in Request
BY DEF Inv, Requests, Good

LEMMA SendStartKeeps ==
    ASSUME Inv, NEW w \in Worker, NEW flow, NEW u \in User, NEW a \in Address,
           SendStart(w, flow, u, a)
    PROVE  Inv'
<1> DEFINE r == [Idle EXCEPT !.pc = "send", !.flow = flow, !.id = u, !.to = a]
<1>1. u \in born BY ReadRow DEF SendStart, Has
<1>2. Good(r, proven, wanted, born)
    BY <1>1 DEF SendStart, Good, Carries, Placed, Idle, Request, AllFlows
<1>3. Becomes(w, r) /\ Others /\ changes' \in 0 .. MaxAsked
    BY DEF SendStart, Reading, Inv, TypeOK
<1> QED BY <1>2, <1>3, ReadingStep

LEMMA SendSignInKeeps ==
    ASSUME Inv, NEW w \in Worker, NEW a \in Address, SendSignIn(w, a)
    PROVE  Inv'
<1> DEFINE r == [Idle EXCEPT !.pc = "send", !.flow = "otp_sign_in", !.to = a]
<1>1. Good(r, proven, wanted, born)
    BY DEF Good, Carries, Placed, Idle, Request, AllFlows
<1>2. Becomes(w, r) /\ Others /\ changes' \in 0 .. MaxAsked
    BY DEF SendSignIn, Reading, Inv, TypeOK
<1> QED BY <1>1, <1>2, ReadingStep

LEMMA RequestStartKeeps ==
    ASSUME Inv, NEW w \in Worker, NEW flow, NEW u \in User, NEW a \in Address,
           RequestStart(w, flow, u, a)
    PROVE  Inv'
<1> DEFINE r == [Idle EXCEPT !.pc = "check", !.flow = flow, !.id = u, !.to = a, !.copy = user[u]]
<1>1. /\ user[u] \in Row /\ u \in born
      /\ Backed(u, user[u], proven, wanted, born) /\ Wish(u, user[u], wanted)
    BY ReadRow DEF RequestStart
<1>2. Good(r, proven, wanted, born)
    BY <1>1, IdentityAssumption, NoneAssumption
       DEF RequestStart, Good, Carries, Placed, Idle, Request, AllFlows
<1>3. Becomes(w, r) /\ Others BY DEF RequestStart
<1>4. changes' \in 0 .. MaxAsked
    BY IdentityAssumption DEF RequestStart, Inv, TypeOK
<1> QED BY <1>2, <1>3, <1>4, ReadingStep

LEMMA RequestCheckKeeps ==
    ASSUME Inv, NEW w \in Worker, RequestCheck(w)
    PROVE  Inv'
<1> DEFINE r == req[w]
           next == [r EXCEPT !.pc = "store", !.copy.pending = r.to]
<1>1. Good(r, proven, wanted, born) /\ r \in Request BY IsGood
<1>2. r.copy \in Row /\ r.to \in Address /\ r.id # None
      /\ Backed(r.id, r.copy, proven, wanted, born)
    BY <1>1 DEF RequestCheck, At, Good, Placed, Carries, Request
<1> DEFINE row == [r.copy EXCEPT !.pending = r.to]
<1>a. /\ row \in Row /\ row.pending = r.to
      /\ row.email = r.copy.email /\ row.verified = r.copy.verified
    BY <1>2 DEF Row
<1>b. next = [r EXCEPT !.pc = "store", !.copy = row] BY <1>1 DEF Request
<1> HIDE DEF row
<1>c. row # None /\ Backed(r.id, row, proven, wanted, born)
    BY <1>a, <1>2, NoneAssumption DEF Backed
<1>3. Good(next, proven, wanted, born)
    BY <1>1, <1>2, <1>a, <1>b, <1>c DEF Good, Carries, Placed, Request
<1>4. Others /\ changes' \in 0 .. MaxAsked BY DEF RequestCheck, Reading, Inv, TypeOK
<1>5. Becomes(w, Idle) \/ Becomes(w, next) BY DEF RequestCheck
<1> QED BY <1>3, <1>4, <1>5, IdleIsGood, ReadingStep

LEMMA PresentLinkKeeps ==
    ASSUME Inv, NEW w \in Worker, NEW flow, NEW a \in Address, PresentLink(w, flow, a)
    PROVE  Inv'
<1> DEFINE r == [Idle EXCEPT !.pc = "consume", !.flow = flow, !.to = a]
<1>1. Good(r, proven, wanted, born)
    BY DEF PresentLink, Good, Carries, Placed, Idle, Request, AllFlows, Purpose
<1>2. Becomes(w, r) /\ Others /\ changes' \in 0 .. MaxAsked
    BY DEF PresentLink, Reading, Inv, TypeOK
<1> QED BY <1>1, <1>2, ReadingStep

LEMMA PresentCodeKeeps ==
    ASSUME Inv, NEW w \in Worker, NEW flow, NEW u \in User, NEW a \in Address,
           PresentCode(w, flow, u, a)
    PROVE  Inv'
<1> DEFINE r == [Idle EXCEPT !.pc = "consume", !.flow = flow, !.to = a, !.id = u,
                             !.copy = user[u]]
<1>1. /\ user[u] \in Row /\ u \in born /\ user[u].email = a /\ user[u] # None
      /\ Backed(u, user[u], proven, wanted, born) /\ Wish(u, user[u], wanted)
    BY ReadRow DEF PresentCode, Has
<1>2. flow \in {"verify_otp", "otp_sign_in"} BY DEF PresentCode
<1>3. /\ r.pc = "consume" /\ r.flow = flow /\ r.to = a /\ r.id = u /\ r.copy = user[u]
      /\ r \in Request
    BY <1>1, <1>2 DEF Idle, Request, AllFlows
<1>4. Becomes(w, r) /\ Others /\ changes' \in 0 .. MaxAsked
    BY DEF PresentCode, Reading, Inv, TypeOK
<1> HIDE DEF r
<1>5. Good(r, proven, wanted, born)
    BY <1>1, <1>2, <1>3, IdentityAssumption DEF Good, Carries, Placed, Purpose
<1> QED BY <1>4, <1>5, ReadingStep

LEMMA PresentNewcomerKeeps ==
    ASSUME Inv, NEW w \in Worker, NEW a \in Address, PresentNewcomer(w, a)
    PROVE  Inv'
<1> DEFINE r == [Idle EXCEPT !.pc = "consume", !.flow = "otp_sign_in", !.to = a]
<1>1. Good(r, proven, wanted, born)
    BY DEF Good, Carries, Placed, Idle, Request, AllFlows, Purpose
<1>2. Becomes(w, r) /\ Others /\ changes' \in 0 .. MaxAsked
    BY DEF PresentNewcomer, Reading, Inv, TypeOK
<1> QED BY <1>1, <1>2, ReadingStep

LEMMA PresentChangeKeeps ==
    ASSUME Inv, NEW w \in Worker, NEW u \in User, NEW a \in Address, PresentChange(w, u, a)
    PROVE  Inv'
<1> DEFINE r == [Idle EXCEPT !.pc = "consume", !.flow = "change_otp", !.to = a, !.id = u,
                             !.copy = user[u]]
<1>1. /\ user[u] \in Row /\ u \in born /\ user[u].pending = a /\ user[u] # None
      /\ Backed(u, user[u], proven, wanted, born) /\ Wish(u, user[u], wanted)
    BY ReadRow DEF PresentChange, Expected
<1>2. Good(r, proven, wanted, born)
    BY <1>1, IdentityAssumption, NoneAssumption
       DEF Good, Carries, Placed, Idle, Request, AllFlows, Purpose
<1>3. Becomes(w, r) /\ Others /\ changes' \in 0 .. MaxAsked
    BY DEF PresentChange, Reading, Inv, TypeOK
<1> QED BY <1>2, <1>3, ReadingStep

LEMMA FindKeeps ==
    ASSUME Inv, NEW w \in Worker, Find(w)
    PROVE  Inv'
<1> DEFINE r == req[w]
           verify(u) == [r EXCEPT !.pc = "write", !.id = u, !.copy = [user[u] EXCEPT !.verified = TRUE]]
           recheck(u) == [r EXCEPT !.pc = "recheck", !.id = u, !.copy = user[u]]
<1>1. Good(r, proven, wanted, born) /\ r \in Request /\ r.to \in proven
    BY IsGood DEF Find, At, Good, Placed
<1>2. Others /\ changes' \in 0 .. MaxAsked BY DEF Find, Reading, Inv, TypeOK
<1>3. ASSUME NEW u \in Candidates(r), r.flow = "verify_link"
      PROVE  Good(verify(u), proven, wanted, born)
    <2>1. u \in User /\ user[u] # None /\ user[u].email = r.to BY <1>3 DEF Candidates, Has
    <2>2. /\ user[u] \in Row /\ u \in born
          /\ Backed(u, user[u], proven, wanted, born) /\ Wish(u, user[u], wanted)
        BY <2>1, ReadRow
    <2> DEFINE row == [user[u] EXCEPT !.verified = TRUE]
    <2>3. /\ row \in Row /\ row.pending = user[u].pending /\ row.email = r.to
        BY <2>1, <2>2 DEF Row
    <2>4. /\ verify(u).pc = "write" /\ verify(u).id = u /\ verify(u).copy = row
          /\ verify(u) \in Request
        BY <1>1, <2>1, <2>3 DEF Request
    <2> HIDE DEF row, verify
    <2>5. row # None /\ Backed(u, row, proven, wanted, born) /\ Wish(u, row, wanted)
        BY <2>1, <2>2, <2>3, <1>1, NoneAssumption DEF Backed, Wish
    <2> QED BY <2>1, <2>2, <2>3, <2>4, <2>5, IdentityAssumption DEF Good, Carries, Placed
<1>4. ASSUME NEW u \in Candidates(r), r.flow # "verify_link"
      PROVE  Good(recheck(u), proven, wanted, born)
    <2>1. u \in User /\ user[u] # None /\ user[u].pending = r.to BY <1>4 DEF Candidates
    <2>2. /\ user[u] \in Row /\ u \in born
          /\ Backed(u, user[u], proven, wanted, born) /\ Wish(u, user[u], wanted)
        BY <2>1, ReadRow
    <2>3. /\ recheck(u).pc = "recheck" /\ recheck(u).to = r.to /\ recheck(u).id = u
          /\ recheck(u).copy = user[u] /\ recheck(u).flow = r.flow /\ recheck(u) \in Request
        BY <1>1, <2>1, <2>2 DEF Request
    <2> HIDE DEF recheck
    <2> QED BY <1>1, <2>1, <2>2, <2>3, IdentityAssumption DEF Good, Carries, Placed
<1>5. \/ Becomes(w, Idle)
      \/ \E u \in Candidates(r) : r.flow = "verify_link" /\ Becomes(w, verify(u))
      \/ \E u \in Candidates(r) : r.flow # "verify_link" /\ Becomes(w, recheck(u))
    BY DEF Find
<1> HIDE DEF r, verify, recheck
<1> QED BY <1>2, <1>3, <1>4, <1>5, IdleIsGood, ReadingStep

LEMMA RecheckKeeps ==
    ASSUME Inv, NEW w \in Worker, Recheck(w)
    PROVE  Inv'
<1> DEFINE r == req[w]
           dropped == [r EXCEPT !.pc = "write", !.copy = [@ EXCEPT !.pending = None]]
           moved == [r EXCEPT !.pc = "write", !.copy = Moved(@, r.to)]
<1>1. Good(r, proven, wanted, born) /\ r \in Request BY IsGood
<1>2. /\ r.to \in proven /\ r.copy \in Row /\ r.copy.pending = r.to /\ r.id # None
      /\ Backed(r.id, r.copy, proven, wanted, born) /\ Wish(r.id, r.copy, wanted)
    BY <1>1 DEF Recheck, At, Good, Placed, Carries, Request
<1>3. r.to \in Address BY <1>2 DEF Inv, TypeOK
<1>4. Good(dropped, proven, wanted, born)
    <2> DEFINE row == [r.copy EXCEPT !.pending = None]
    <2>1. /\ row \in Row /\ row.pending = None
          /\ row.email = r.copy.email /\ row.verified = r.copy.verified
        BY <1>2 DEF Row
    <2>2. dropped = [r EXCEPT !.pc = "write", !.copy = row] BY <1>1 DEF Request
    <2> HIDE DEF row, dropped
    <2>3. row # None /\ Backed(r.id, row, proven, wanted, born) /\ Wish(r.id, row, wanted)
        BY <1>2, <2>1, NoneAssumption DEF Backed, Wish
    <2> QED BY <1>1, <1>2, <2>1, <2>2, <2>3 DEF Good, Carries, Placed, Request
<1>5. Good(moved, proven, wanted, born)
    <2> DEFINE row == Moved(r.copy, r.to)
    <2>1. row \in Row /\ row.pending = None /\ row.email = r.to
        BY <1>2, <1>3 DEF Row, Moved
    <2>2. moved = [r EXCEPT !.pc = "write", !.copy = row] BY <1>1 DEF Request
    <2> HIDE DEF row, moved
    <2>3. r.to \in wanted[r.id] BY <1>2, <1>3, IdentityAssumption DEF Wish
    <2>4. row # None /\ Backed(r.id, row, proven, wanted, born) /\ Wish(r.id, row, wanted)
        BY <1>2, <2>1, <2>3, NoneAssumption DEF Backed, Wish
    <2> QED BY <1>1, <1>2, <2>1, <2>2, <2>4 DEF Good, Carries, Placed, Request
<1>6. Others /\ changes' \in 0 .. MaxAsked BY DEF Recheck, Reading, Inv, TypeOK
<1>7. Becomes(w, dropped) \/ Becomes(w, moved) BY DEF Recheck
<1> HIDE DEF r, dropped, moved
<1> QED BY <1>4, <1>5, <1>6, <1>7, ReadingStep

LEMMA ProfileStartKeeps ==
    ASSUME Inv, NEW w \in Worker, NEW u \in User, ProfileStart(w, u)
    PROVE  Inv'
<1> DEFINE r == [Idle EXCEPT !.pc = "write", !.flow = "profile", !.id = u, !.copy = user[u]]
<1>1. /\ user[u] \in Row /\ u \in born /\ user[u] # None
      /\ Backed(u, user[u], proven, wanted, born) /\ Wish(u, user[u], wanted)
    BY ReadRow DEF ProfileStart
<1>2. Good(r, proven, wanted, born)
    BY <1>1, IdentityAssumption DEF Good, Carries, Placed, Idle, Request, AllFlows
<1>3. Becomes(w, r) /\ Others /\ changes' \in 0 .. MaxAsked
    BY DEF ProfileStart, Reading, Inv, TypeOK
<1> QED BY <1>2, <1>3, ReadingStep
------------------------------------------------------------------------------
(* create_user: an id that was never given gets its first row.             *)
LEMMA CreateKeeps ==
    ASSUME Inv, NEW u \in User, NEW a \in Address, NEW verified \in BOOLEAN,
           create_user(u, [NewRow(a) EXCEPT !.verified = verified]),
           verified => a \in proven,
           UNCHANGED <<mix, changes, challenge, proven>>,
           \/ req' = req
           \/ \E w \in Worker : Becomes(w, Idle)
    PROVE  Inv'
<1> DEFINE row == [NewRow(a) EXCEPT !.verified = verified]
<1>1. /\ row \in Row /\ row.email = a /\ row.pending = None /\ row.verified = verified
    BY DEF Row, NewRow
<1>2. /\ u \notin born /\ born' = born \cup {u}
      /\ user' = [user EXCEPT ![u] = row] /\ wanted' = [wanted EXCEPT ![u] = {a}]
    BY <1>1 DEF create_user
<1> HIDE DEF row
<1>3. Grows BY <1>2 DEF Grows, Inv, TypeOK
<1>4. RowGood(u, row, proven', wanted', born')
    BY <1>1, <1>2 DEF RowGood, Backed, Wish, Inv, TypeOK
<1>5. Requests' /\ req' \in [Worker -> Request]
    <2>1. CASE req' = req BY <2>1, <1>3, RequestsStay DEF Inv, TypeOK
    <2>2. ASSUME NEW w \in Worker, Becomes(w, Idle)
          PROVE  Requests' /\ req' \in [Worker -> Request]
        BY <2>2, <1>3, IdleIsGood, OneRequest
    <2> QED BY <2>1, <2>2
<1>6. TypeOK' BY <1>1, <1>2, <1>5 DEF Inv, TypeOK
<1> QED BY <1>2, <1>3, <1>4, <1>5, <1>6, StoreStep

LEMMA RegisterKeeps ==
    ASSUME Inv, NEW w \in Worker, NEW u \in User, NEW a \in Address, Register(w, u, a)
    PROVE  Inv'
<1> DEFINE row == [NewRow(a) EXCEPT !.verified = FALSE]
<1>1. NewRow(a) = row
    <2>1. NewRow(a) \in Row /\ NewRow(a).verified = FALSE BY DEF NewRow, Row
    <2> QED BY <2>1 DEF Row
<1>2. /\ create_user(u, [NewRow(a) EXCEPT !.verified = FALSE])
      /\ UNCHANGED <<mix, changes, challenge, proven>> /\ req' = req
    BY <1>1 DEF Register
<1> QED BY <1>2, CreateKeeps

LEMMA RegisterVerifiedKeeps ==
    ASSUME Inv, NEW w \in Worker, NEW u \in User, RegisterVerified(w, u)
    PROVE  Inv'
<1>1. Good(req[w], proven, wanted, born) BY IsGood
<1>2. req[w].to \in proven BY <1>1 DEF RegisterVerified, At, Good, Placed
<1>3. req[w].to \in Address BY <1>2 DEF Inv, TypeOK
<1>4. CASE Taken(u, req[w].to)
    <2>1. Others /\ changes' \in 0 .. MaxAsked /\ Becomes(w, Idle)
        BY <1>4 DEF RegisterVerified, Others, Inv, TypeOK
    <2> QED BY <2>1, IdleIsGood, ReadingStep
<1>5. CASE ~Taken(u, req[w].to)
    <2>1. /\ create_user(u, [NewRow(req[w].to) EXCEPT !.verified = TRUE])
          /\ UNCHANGED <<mix, changes, challenge, proven>> /\ Becomes(w, Idle)
        BY <1>5 DEF RegisterVerified
    <2> QED BY <1>2, <1>3, <2>1, CreateKeeps
<1> QED BY <1>4, <1>5

LEMMA SendKeeps ==
    ASSUME Inv, NEW w \in Worker, Send(w)
    PROVE  Inv'
<1>1. Grows BY DEF Send, Grows
<1>2. Requests' /\ req' \in [Worker -> Request] BY <1>1, IdleIsGood, OneRequest DEF Send
<1>3. Rows' BY <1>1, RowsStay DEF Send
<1>4. req[w].id \in User \cup {None} BY IsGood DEF Request
<1>5. challenge' \in [Purpose \X Address -> User \cup {Anyone, None}]
    BY <1>4 DEF Send, Inv, TypeOK
<1>6. TypeOK' BY <1>2, <1>5 DEF Send, Inv, TypeOK
<1> QED BY <1>2, <1>3, <1>6 DEF Inv

(* The row that update_user stores is the copy, whatever its active flag.  *)
LEMMA UpdatedRow ==
    ASSUME Inv, NEW u \in User, NEW copy \in Row, user[u] # None
    PROVE  LET row == [copy EXCEPT !.active = user[u].active]
           IN  /\ row \in Row /\ row.email = copy.email
               /\ row.verified = copy.verified /\ row.pending = copy.pending
BY ReadRow DEF Row

LEMMA RequestStoreKeeps ==
    ASSUME Inv, NEW w \in Worker, RequestStore(w)
    PROVE  Inv'
<1> DEFINE r == req[w]
           sending == [r EXCEPT !.pc = "send", !.copy = None]
<1>1. Good(r, proven, wanted, born) /\ r \in Request BY IsGood
<1>2. /\ r.copy \in Row /\ r.to \in Address /\ r.id \in User /\ r.copy.pending = r.to
      /\ Backed(r.id, r.copy, proven, wanted, born)
    BY <1>1 DEF RequestStore, At, Good, Placed, Carries, Request
<1>3. CASE Storable(r)
    <2> DEFINE row == [r.copy EXCEPT !.active = user[r.id].active]
    <2>1. user[r.id] # None BY <1>3 DEF Storable
    <2>2. /\ row \in Row /\ row.email = r.copy.email
          /\ row.verified = r.copy.verified /\ row.pending = r.to
        BY <1>2, <2>1, UpdatedRow
    <2>3. /\ user' = [user EXCEPT ![r.id] = row]
          /\ wanted' = [wanted EXCEPT ![r.id] = @ \cup {r.to}]
          /\ Becomes(w, sending) /\ UNCHANGED <<mix, changes, challenge, proven, born>>
        BY <1>3 DEF RequestStore, Updated
    <2>4. sending \in Request /\ sending.pc = "send" /\ sending.copy = None /\ sending.id = r.id
        BY <1>1, <1>2 DEF Request
    <2> HIDE DEF r, row, sending
    <2>5. Grows BY <2>3, <1>2 DEF Grows, Inv, TypeOK
    <2>6. r.id \in born BY <1>2 DEF Backed
    <2>7. Good(sending, proven', wanted', born')
        BY <2>3, <2>4, <2>6 DEF Good, Carries, Placed
    <2>8. Requests' /\ req' \in [Worker -> Request] BY <2>3, <2>5, <2>7, OneRequest
    <2>9. RowGood(r.id, row, proven', wanted', born')
        BY <1>2, <2>2, <2>3 DEF RowGood, Backed, Wish, Inv, TypeOK
    <2>10. TypeOK' BY <1>2, <2>2, <2>3, <2>8 DEF Inv, TypeOK
    <2> QED BY <1>2, <2>3, <2>5, <2>8, <2>9, <2>10, StoreStep
<1>4. CASE ~Storable(r)
    <2>1. Others /\ changes' \in 0 .. MaxAsked /\ Becomes(w, Idle)
        BY <1>4 DEF RequestStore, Others, Inv, TypeOK
    <2> QED BY <2>1, IdleIsGood, ReadingStep
<1> QED BY <1>3, <1>4

LEMMA WriteKeeps ==
    ASSUME Inv, NEW w \in Worker, Write(w)
    PROVE  Inv'
<1> DEFINE r == req[w]
<1>1. Good(r, proven, wanted, born) /\ r \in Request BY IsGood
<1>2. /\ r.copy \in Row /\ r.id \in User
      /\ Backed(r.id, r.copy, proven, wanted, born) /\ Wish(r.id, r.copy, wanted)
    BY <1>1 DEF Write, At, Good, Placed, Carries, Request
<1>3. Becomes(w, Idle) /\ UNCHANGED <<mix, changes, challenge, proven, wanted, born>>
    BY DEF Write
<1>4. Grows BY <1>3 DEF Grows
<1>5. Requests' /\ req' \in [Worker -> Request] BY <1>3, <1>4, IdleIsGood, OneRequest
<1>6. CASE Storable(r)
    <2> DEFINE row == [r.copy EXCEPT !.active = user[r.id].active]
    <2>1. user[r.id] # None BY <1>6 DEF Storable
    <2>2. /\ row \in Row /\ row.email = r.copy.email
          /\ row.verified = r.copy.verified /\ row.pending = r.copy.pending
        BY <1>2, <2>1, UpdatedRow
    <2>3. user' = [user EXCEPT ![r.id] = row] BY <1>6 DEF Write, Updated
    <2> HIDE DEF r, row
    <2>4. RowGood(r.id, row, proven', wanted', born')
        BY <1>2, <1>3, <2>2 DEF RowGood, Backed, Wish
    <2>5. TypeOK' BY <1>2, <1>3, <1>5, <2>2, <2>3 DEF Inv, TypeOK
    <2> QED BY <1>2, <1>4, <1>5, <2>3, <2>4, <2>5, StoreStep
<1>7. CASE ~Storable(r)
    <2>1. user' = user BY <1>7 DEF Write
    <2>2. Rows' BY <1>4, <2>1, RowsStay
    <2>3. TypeOK' BY <1>3, <1>5, <2>1 DEF Inv, TypeOK
    <2> QED BY <1>5, <2>2, <2>3 DEF Inv
<1> QED BY <1>6, <1>7
------------------------------------------------------------------------------
(* Consuming a challenge proves its address; what the flow then carries is *)
(* backed by that.                                                         *)
LEMMA AfterwardsGood ==
    ASSUME NEW r, NEW P, NEW W, NEW B, Good(r, P, W, B), r.pc = "consume", r.to \in P
    PROVE  Good(Afterwards(r), P, W, B)
<1>1. r \in Request /\ r.to \in Address /\ r.flow \in Purpose BY DEF Good, Placed
<1>2. CASE r.flow \in {"verify_link", "change_link"}
    <2> DEFINE s == [r EXCEPT !.pc = "find"]
    <2>1. s \in Request /\ s.pc = "find" /\ s.id = r.id /\ s.copy = r.copy /\ s.to = r.to
        BY <1>1 DEF Request
    <2>2. Afterwards(r) = s BY <1>2 DEF Afterwards
    <2> HIDE DEF s
    <2> QED BY <2>1, <2>2 DEF Good, Carries, Placed
<1>3. CASE r.flow = "change_otp"
    <2>1. /\ r.copy \in Row /\ r.copy.pending = r.to /\ r.id # None
          /\ Backed(r.id, r.copy, P, W, B) /\ Wish(r.id, r.copy, W)
        BY <1>1, <1>3 DEF Good, Carries, Placed, Request
    <2> DEFINE row == Moved(r.copy, r.to)
               s == [r EXCEPT !.pc = "write", !.copy = row]
    <2>2. row \in Row /\ row.pending = None /\ row.email = r.to
        BY <1>1, <2>1 DEF Row, Moved
    <2>3. s \in Request /\ s.pc = "write" /\ s.id = r.id /\ s.copy = row
        BY <1>1, <2>2 DEF Request
    <2>4. Afterwards(r) = s BY <1>1, <1>3 DEF Afterwards, Request
    <2> HIDE DEF s, row
    <2>5. r.to \in W[r.id] BY <1>1, <2>1, IdentityAssumption DEF Wish
    <2>6. Backed(r.id, row, P, W, B) /\ Wish(r.id, row, W)
        BY <2>1, <2>2, <2>5 DEF Backed, Wish
    <2> QED BY <2>1, <2>2, <2>3, <2>4, <2>6, NoneAssumption DEF Good, Carries, Placed
<1>4. CASE r.flow = "otp_sign_in" /\ r.id = None
    <2> DEFINE s == [r EXCEPT !.pc = "register"]
    <2>1. s \in Request /\ s.pc = "register" /\ s.id = r.id /\ s.copy = r.copy /\ s.to = r.to
        BY <1>1 DEF Request
    <2>2. Afterwards(r) = s BY <1>4 DEF Afterwards
    <2> HIDE DEF s
    <2> QED BY <2>1, <2>2 DEF Good, Carries, Placed
<1>5. CASE r.flow \in {"verify_otp", "otp_sign_in"} /\ ~(r.flow = "otp_sign_in" /\ r.id = None)
    <2>1. /\ r.copy \in Row /\ r.copy.email = r.to /\ r.id # None
          /\ Backed(r.id, r.copy, P, W, B) /\ Wish(r.id, r.copy, W)
        BY <1>1, <1>5 DEF Good, Carries, Placed, Request
    <2> DEFINE row == [r.copy EXCEPT !.verified = TRUE]
               s == [r EXCEPT !.pc = "write", !.copy = row]
    <2>2. row \in Row /\ row.pending = r.copy.pending /\ row.email = r.to
        BY <2>1 DEF Row
    <2>3. s \in Request /\ s.pc = "write" /\ s.id = r.id /\ s.copy = row
        BY <1>1, <2>2 DEF Request
    <2>4. Afterwards(r) = Idle \/ Afterwards(r) = s
        BY <1>1, <1>5 DEF Afterwards, Request
    <2> HIDE DEF s, row
    <2>5. Backed(r.id, row, P, W, B) /\ Wish(r.id, row, W)
        BY <2>1, <2>2 DEF Backed, Wish
    <2>6. Good(s, P, W, B)
        BY <2>1, <2>2, <2>3, <2>5, NoneAssumption DEF Good, Carries, Placed
    <2> QED BY <2>4, <2>6, IdleIsGood
<1> QED BY <1>1, <1>2, <1>3, <1>4, <1>5 DEF Purpose

LEMMA ConsumeKeeps ==
    ASSUME Inv, NEW w \in Worker, Consume(w)
    PROVE  Inv'
<1> DEFINE r == req[w]
           k == <<r.flow, r.to>>
           s == [r EXCEPT !.asked = challenge[k]]
<1>1. Good(r, proven, wanted, born) /\ r \in Request /\ r.pc = "consume"
    BY IsGood DEF Consume, At
<1>2. r.to \in Address /\ r.flow \in Purpose BY <1>1 DEF Good, Placed
<1>3. challenge[k] \in User \cup {Anyone, None} BY <1>2 DEF Inv, TypeOK
<1>4. CASE Open(r.flow, r.to)
    <2>1. /\ proven' = proven \cup {r.to}
          /\ challenge' = [challenge EXCEPT ![k] = None]
          /\ Becomes(w, Afterwards(s))
          /\ UNCHANGED <<mix, changes, user, wanted, born>>
        BY <1>4 DEF Consume, Open
    <2>2. /\ s \in Request /\ s.pc = r.pc /\ s.flow = r.flow /\ s.id = r.id
          /\ s.copy = r.copy /\ s.to = r.to
        BY <1>1, <1>3 DEF Request
    <2> HIDE DEF s, r
    <2>3. Grows BY <2>1 DEF Grows
    <2>4. Good(r, proven', wanted', born') BY <1>1, <2>3, GoodStays
    <2>5. Good(s, proven', wanted', born')
        BY <2>2, <2>4 DEF Good, Carries, Placed
    <2>6. Good(Afterwards(s), proven', wanted', born')
        BY <1>1, <2>1, <2>2, <2>5, AfterwardsGood
    <2>7. Requests' /\ req' \in [Worker -> Request] BY <2>1, <2>3, <2>6, OneRequest
    <2>8. Rows' BY <2>1, <2>3, RowsStay
    <2>9. TypeOK' BY <1>2, <2>1, <2>7 DEF Inv, TypeOK
    <2> QED BY <2>7, <2>8, <2>9 DEF Inv
<1>5. CASE ~Open(r.flow, r.to)
    <2>1. Others /\ changes' \in 0 .. MaxAsked /\ Becomes(w, Idle)
        BY <1>5 DEF Consume, Others, Inv, TypeOK
    <2> QED BY <2>1, IdleIsGood, ReadingStep
<1> QED BY <1>4, <1>5
------------------------------------------------------------------------------
LEMMA StatusKeeps ==
    ASSUME Inv, NEW u \in User, set_user_active(u)
    PROVE  Inv'
<1> DEFINE row == [user[u] EXCEPT !.active = ~@]
<1>1. /\ user[u] \in Row
      /\ Backed(u, user[u], proven, wanted, born) /\ Wish(u, user[u], wanted)
    BY ReadRow DEF set_user_active
<1>2. /\ row \in Row /\ row.email = user[u].email
      /\ row.verified = user[u].verified /\ row.pending = user[u].pending
    BY <1>1 DEF Row
<1>3. /\ user' = [user EXCEPT ![u] = row]
      /\ UNCHANGED <<mix, changes, challenge, req, proven, wanted, born>>
    BY DEF set_user_active
<1> HIDE DEF row
<1>4. Grows BY <1>3 DEF Grows
<1>5. RowGood(u, row, proven', wanted', born')
    BY <1>1, <1>2, <1>3 DEF RowGood, Backed, Wish
<1>6. TypeOK' BY <1>2, <1>3 DEF Inv, TypeOK
<1> QED BY <1>3, <1>4, <1>5, <1>6, RequestsStay, StoreStep

LEMMA DeleteKeeps ==
    ASSUME Inv, NEW u \in User, delete_user(u)
    PROVE  Inv'
<1>1. /\ user' = [user EXCEPT ![u] = None]
      /\ UNCHANGED <<mix, changes, req, proven, wanted, born>>
    BY DEF delete_user
<1>2. Grows BY <1>1 DEF Grows
<1>3. RowGood(u, None, proven', wanted', born') BY DEF RowGood
<1>4. challenge' \in [Purpose \X Address -> User \cup {Anyone, None}]
    BY DEF delete_user, Inv, TypeOK
<1>5. TypeOK' BY <1>1, <1>4 DEF Inv, TypeOK
<1> QED BY <1>1, <1>2, <1>3, <1>5, RequestsStay, StoreStep

LEMMA StutterKeeps == Inv /\ UNCHANGED vars => Inv'
<1> SUFFICES ASSUME Inv, UNCHANGED vars PROVE Inv' OBVIOUS
<1>1. Grows BY DEF vars, Grows
<1>2. TypeOK' BY DEF vars, Inv, TypeOK
<1> QED BY <1>1, <1>2, RequestsStay, RowsStay DEF vars, Inv

LEMMA StepInv == Inv /\ [Next]_vars => Inv'
<1> SUFFICES ASSUME Inv, Next PROVE Inv' BY StutterKeeps
<1>1. ASSUME NEW w \in Worker, NEW u \in User, NEW a \in Address,
             \/ Register(w, u, a)
             \/ \E flow \in AllFlows :
                   SendStart(w, flow, u, a) \/ RequestStart(w, flow, u, a) \/ PresentCode(w, flow, u, a)
             \/ PresentChange(w, u, a)
      PROVE  Inv'
    BY <1>1, RegisterKeeps, SendStartKeeps, RequestStartKeeps, PresentCodeKeeps,
       PresentChangeKeeps
<1>2. ASSUME NEW w \in Worker, NEW a \in Address,
             \/ SendSignIn(w, a) \/ PresentNewcomer(w, a)
             \/ \E flow \in AllFlows : PresentLink(w, flow, a)
      PROVE  Inv'
    BY <1>2, SendSignInKeeps, PresentNewcomerKeeps, PresentLinkKeeps
<1>3. ASSUME NEW w \in Worker, NEW u \in User, ProfileStart(w, u) \/ RegisterVerified(w, u)
      PROVE  Inv'
    BY <1>3, ProfileStartKeeps, RegisterVerifiedKeeps
<1>4. ASSUME NEW w \in Worker,
             \/ Send(w) \/ RequestCheck(w) \/ RequestStore(w)
             \/ Consume(w) \/ Find(w) \/ Recheck(w) \/ Write(w)
      PROVE  Inv'
    BY <1>4, SendKeeps, RequestCheckKeeps, RequestStoreKeeps, ConsumeKeeps, FindKeeps,
       RecheckKeeps, WriteKeeps
<1>5. ASSUME NEW u \in User, set_user_active(u) \/ delete_user(u)
      PROVE  Inv'
    BY <1>5, StatusKeeps, DeleteKeeps
<1> QED BY <1>1, <1>2, <1>3, <1>4, <1>5 DEF Next

(* Every reachable state satisfies the invariant.                          *)
LEMMA InvAlways == Spec => []Inv
BY InitInv, StepInv, PTL DEF Spec

(* The type invariant: the whole-row writes of the flows, whatever copy    *)
(* they carry, only ever store well-formed rows.                           *)
THEOREM TypeCorrect == Spec => []TypeOK
<1>1. Inv => TypeOK BY DEF Inv
<1> QED BY <1>1, InvAlways, PTL

(* A row that says "verified" holds an address whose own challenge was     *)
(* consumed, however late the row that says so was written back.           *)
THEOREM VerifiedIsProvenAlways == Spec => []VerifiedIsProven
<1>1. Inv => VerifiedIsProven BY DEF Inv, Rows, RowGood, Backed, VerifiedIsProven
<1> QED BY <1>1, InvAlways, PTL

(* No confirmation, by link or by code, moves a user to an address that    *)
(* user never signed up with or asked for.                                 *)
THEOREM AddressIsWantedAlways == Spec => []AddressIsWanted
<1>1. Inv => AddressIsWanted BY DEF Inv, Rows, RowGood, Backed, AddressIsWanted
<1> QED BY <1>1, InvAlways, PTL

------------------------------------------------------------------------------
(* What one step does to the active flag of one row.                       *)
KeepsActive == \A u \in User :
    user[u] # None /\ user'[u] # None => user'[u].active = user[u].active

LEMMA UpdatedKeepsActive ==
    ASSUME Inv, NEW w \in Worker, req[w].copy \in Row, req[w].id \in User, Storable(req[w]),
           user' = Updated(req[w])
    PROVE  KeepsActive
<1> DEFINE i == req[w].id
           row == [req[w].copy EXCEPT !.active = user[i].active]
<1>1. user \in [User -> Row \cup {None}] BY DEF Inv, TypeOK
<1>2. user' = [user EXCEPT ![i] = row] BY DEF Updated
<1>3. row.active = user[i].active BY DEF Row
<1> HIDE DEF row, i
<1> QED BY <1>1, <1>2, <1>3 DEF KeepsActive

LEMMA CreateKeepsActive ==
    ASSUME Inv, NEW u \in User, NEW row, create_user(u, row)
    PROVE  KeepsActive
<1>1. user[u] = None BY ReadRow DEF create_user
<1> QED BY <1>1 DEF create_user, KeepsActive, Inv, TypeOK

LEMMA StepKeepsActive ==
    ASSUME Inv, Next
    PROVE  KeepsActive \/ req' = req
<1>1. CASE user' = user BY <1>1 DEF KeepsActive
<1>2. ASSUME NEW w \in Worker, RequestStore(w) \/ Write(w), user' # user
      PROVE  KeepsActive
    <2>1. Good(req[w], proven, wanted, born) /\ req[w] \in Request BY IsGood
    <2>2. req[w].copy \in Row /\ req[w].id \in User
        BY <1>2, <2>1 DEF RequestStore, Write, At, Good, Placed, Carries, Request
    <2>3. Storable(req[w]) /\ user' = Updated(req[w]) BY <1>2 DEF RequestStore, Write
    <2> QED BY <2>2, <2>3, UpdatedKeepsActive
<1>3. ASSUME NEW w \in Worker, NEW u \in User, NEW a \in Address,
             \/ Register(w, u, a)
             \/ \E flow \in AllFlows :
                   SendStart(w, flow, u, a) \/ RequestStart(w, flow, u, a) \/ PresentCode(w, flow, u, a)
             \/ PresentChange(w, u, a)
      PROVE  user' = user \/ req' = req
    BY <1>3 DEF Register, SendStart, RequestStart, PresentCode, PresentChange, Reading, Others
<1>4. ASSUME NEW w \in Worker, NEW a \in Address,
             \/ SendSignIn(w, a) \/ PresentNewcomer(w, a)
             \/ \E flow \in AllFlows : PresentLink(w, flow, a)
      PROVE  user' = user
    BY <1>4 DEF SendSignIn, PresentNewcomer, PresentLink, Reading, Others
<1>5. ASSUME NEW w \in Worker, NEW u \in User, ProfileStart(w, u) \/ RegisterVerified(w, u)
      PROVE  KeepsActive
    <2>1. CASE user' = user BY <2>1 DEF KeepsActive
    <2>2. CASE user' # user
        <3>1. create_user(u, [NewRow(req[w].to) EXCEPT !.verified = TRUE])
            BY <1>5, <2>2 DEF ProfileStart, RegisterVerified, Reading, Others
        <3> QED BY <3>1, CreateKeepsActive
    <2> QED BY <2>1, <2>2
<1>6. ASSUME NEW w \in Worker,
             Send(w) \/ RequestCheck(w) \/ Consume(w) \/ Find(w) \/ Recheck(w)
      PROVE  user' = user
    BY <1>6 DEF Send, RequestCheck, Consume, Find, Recheck, Reading, Others
<1>7. ASSUME NEW u \in User, set_user_active(u) \/ delete_user(u)
      PROVE  req' = req
    BY <1>7 DEF set_user_active, delete_user
<1> QED BY <1>1, <1>2, <1>3, <1>4, <1>5, <1>6, <1>7 DEF Next

(* Whatever a request writes back, and however old its copy of the row is, *)
(* the active flag of the row stays what the administrator made it.        *)
THEOREM OnlyStatusChangesActiveAlways == Spec => OnlyStatusChangesActive
<1>1. Inv /\ [Next]_vars =>
        [\A u \in User : user[u] # None /\ user'[u] # None /\ user'[u].active # user[u].active
            => req' = req]_vars
    BY StepKeepsActive DEF KeepsActive
<1> QED BY <1>1, InvAlways, PTL DEF Spec, OnlyStatusChangesActive

(* What a step stores, of any request: one row, of an id that is new or    *)
(* whose row is still there, under an address nobody else has.             *)
Stores(u, row) ==
    /\ user' = [user EXCEPT ![u] = row]
    /\ u \in born => user[u] # None
    /\ row # None => ~Taken(u, row.email) \/ (user[u] # None /\ row.email = user[u].email)

LEMMA CreateStores ==
    ASSUME NEW u \in User, NEW a \in Address, NEW verified \in BOOLEAN, ~Taken(u, a),
           create_user(u, [NewRow(a) EXCEPT !.verified = verified])
    PROVE  \E row \in Row : Stores(u, row)
<1> DEFINE row == [NewRow(a) EXCEPT !.verified = verified]
<1>1. row \in Row /\ row.email = a BY DEF Row, NewRow
<1>2. user' = [user EXCEPT ![u] = row] /\ u \notin born BY DEF create_user
<1> HIDE DEF row
<1> QED BY <1>1, <1>2 DEF Stores

LEMMA RegisterStores ==
    ASSUME NEW w \in Worker, NEW u \in User, NEW a \in Address, Register(w, u, a)
    PROVE  \E row \in Row : Stores(u, row)
<1>1. NewRow(a) \in Row /\ NewRow(a).email = a BY DEF Row, NewRow
<1>2. user' = [user EXCEPT ![u] = NewRow(a)] /\ u \notin born /\ ~Taken(u, a)
    BY DEF Register, create_user
<1> QED BY <1>1, <1>2 DEF Stores

LEMMA UpdatedStores ==
    ASSUME Inv, NEW r, r.copy \in Row, r.id \in User, Storable(r), user' = Updated(r)
    PROVE  \E row \in Row : Stores(r.id, row)
<1> DEFINE row == [r.copy EXCEPT !.active = user[r.id].active]
<1>1. user[r.id] # None /\ ~Taken(r.id, r.copy.email) BY DEF Storable
<1>2. row \in Row /\ row.email = r.copy.email BY <1>1, UpdatedRow
<1>3. user' = [user EXCEPT ![r.id] = row] BY DEF Updated
<1> HIDE DEF row
<1> QED BY <1>1, <1>2, <1>3 DEF Stores

LEMMA StatusStores ==
    ASSUME Inv, NEW u \in User, set_user_active(u)
    PROVE  \E row \in Row : Stores(u, row)
<1> DEFINE row == [user[u] EXCEPT !.active = ~@]
<1>1. user[u] # None BY DEF set_user_active
<1>2. user[u] \in Row BY <1>1, ReadRow
<1>3. row \in Row /\ row.email = user[u].email BY <1>2 DEF Row
<1>4. user' = [user EXCEPT ![u] = row] BY DEF set_user_active
<1> HIDE DEF row
<1> QED BY <1>1, <1>3, <1>4 DEF Stores

LEMMA StepStores ==
    ASSUME Inv, Next
    PROVE  user' = user \/ \E u \in User, row \in Row \cup {None} : Stores(u, row)
<1> DEFINE Goal == user' = user \/ \E u \in User, row \in Row \cup {None} : Stores(u, row)
<1>1. ASSUME NEW w \in Worker, RequestStore(w) \/ Write(w), user' # user
      PROVE  \E u \in User, row \in Row : Stores(u, row)
    <2>1. Good(req[w], proven, wanted, born) /\ req[w] \in Request BY IsGood
    <2>2. req[w].copy \in Row /\ req[w].id \in User
        BY <1>1, <2>1 DEF RequestStore, Write, At, Good, Placed, Carries, Request
    <2>3. Storable(req[w]) /\ user' = Updated(req[w]) BY <1>1 DEF RequestStore, Write
    <2> QED BY <2>2, <2>3, UpdatedStores
<1>2. ASSUME NEW w \in Worker, NEW u \in User, RegisterVerified(w, u), user' # user
      PROVE  \E row \in Row : Stores(u, row)
    <2>1. Good(req[w], proven, wanted, born) BY IsGood
    <2>2. req[w].to \in proven BY <1>2, <2>1 DEF RegisterVerified, At, Good, Placed
    <2>3. req[w].to \in Address BY <2>2 DEF Inv, TypeOK
    <2>4. /\ ~Taken(u, req[w].to)
          /\ create_user(u, [NewRow(req[w].to) EXCEPT !.verified = TRUE])
        BY <1>2 DEF RegisterVerified
    <2> QED BY <2>3, <2>4, CreateStores
<1>3. ASSUME NEW u \in User, delete_user(u)
      PROVE  Stores(u, None)
    BY <1>3 DEF delete_user, Stores
<1>4. ASSUME NEW w \in Worker, NEW u \in User, NEW a \in Address,
             \/ Register(w, u, a)
             \/ \E flow \in AllFlows :
                   SendStart(w, flow, u, a) \/ RequestStart(w, flow, u, a) \/ PresentCode(w, flow, u, a)
             \/ PresentChange(w, u, a)
      PROVE  Goal
    <2>1. CASE Register(w, u, a) BY <2>1, RegisterStores
    <2>2. CASE ~Register(w, u, a)
        BY <1>4, <2>2 DEF SendStart, RequestStart, PresentCode, PresentChange, Reading, Others
    <2> QED BY <2>1, <2>2
<1>5. ASSUME NEW w \in Worker, NEW a \in Address,
             \/ SendSignIn(w, a) \/ PresentNewcomer(w, a)
             \/ \E flow \in AllFlows : PresentLink(w, flow, a)
      PROVE  Goal
    BY <1>5 DEF SendSignIn, PresentNewcomer, PresentLink, Reading, Others
<1>6. ASSUME NEW w \in Worker, NEW u \in User, ProfileStart(w, u) \/ RegisterVerified(w, u)
      PROVE  Goal
    BY <1>2, <1>6 DEF ProfileStart, Reading, Others
<1>7. ASSUME NEW w \in Worker,
             \/ Send(w) \/ RequestCheck(w) \/ RequestStore(w)
             \/ Consume(w) \/ Find(w) \/ Recheck(w) \/ Write(w)
      PROVE  Goal
    <2>1. CASE RequestStore(w) \/ Write(w) BY <1>1, <2>1
    <2>2. CASE ~(RequestStore(w) \/ Write(w))
        BY <1>7, <2>2 DEF Send, RequestCheck, Consume, Find, Recheck, Reading, Others
    <2> QED BY <2>1, <2>2
<1>8. ASSUME NEW u \in User, set_user_active(u) \/ delete_user(u)
      PROVE  Goal
    BY <1>3, <1>8, StatusStores
<1> HIDE DEF Goal
<1>9. Goal BY <1>4, <1>5, <1>6, <1>7, <1>8 DEF Next
<1> QED BY <1>9 DEF Goal

LEMMA UniqueStep ==
    ASSUME Inv, AddressIsUnique, [Next]_vars
    PROVE  AddressIsUnique'
<1>1. CASE user' = user
    BY <1>1 DEF AddressIsUnique, Taken, Has
<1>2. ASSUME NEW u \in User, NEW row \in Row \cup {None}, Stores(u, row)
      PROVE  AddressIsUnique'
    <2>1. user \in [User -> Row \cup {None}] BY DEF Inv, TypeOK
    <2>2. user'[u] = row /\ \A v \in User \ {u} : user'[v] = user[v]
        BY <1>2, <2>1 DEF Stores
    <2>3. row # None => ~Taken(u, row.email)
        BY <1>2 DEF Stores, AddressIsUnique
    <2>4. ASSUME NEW v \in User, user'[v] # None, NEW x \in User \ {v}, user'[x] # None,
                 user'[x].email = user'[v].email
          PROVE  FALSE
        <3>1. CASE v = u BY <2>2, <2>3, <2>4, <3>1 DEF Taken, Has
        <3>2. CASE x = u BY <2>2, <2>3, <2>4, <3>2 DEF Taken, Has
        <3>3. CASE v # u /\ x # u BY <2>2, <2>4, <3>3 DEF AddressIsUnique, Taken, Has
        <3> QED BY <3>1, <3>2, <3>3
    <2> QED BY <2>4 DEF AddressIsUnique, Taken, Has
<1>3. user' = user \/ \E u \in User, row \in Row \cup {None} : Stores(u, row)
    BY StepStores DEF vars
<1> QED BY <1>1, <1>2, <1>3

(* Two users never have one address, although each flow looks whether it   *)
(* is free calls before it writes.                                         *)
THEOREM AddressIsUniqueAlways == Spec => []AddressIsUnique
<1>1. Init => AddressIsUnique
  <2> SUFFICES ASSUME Init, NEW u \in User, user[u] # None, NEW v \in User \ {u}, user[v] # None,
                      user[v].email = user[u].email
               PROVE  FALSE
    BY DEF AddressIsUnique, Taken, Has
  <2>1. PICK home \in Homes : user = Registered(home) BY DEF Init
  <2>2. home[v] = home[u] BY <2>1 DEF Registered, NewRow
  <2> QED BY <2>2 DEF Homes
<1>2. Inv /\ AddressIsUnique /\ [Next]_vars => AddressIsUnique'
    BY UniqueStep
<1> QED BY <1>1, <1>2, InvAlways, PTL DEF Spec

(* No request brings a user back that was deleted while it held a copy of  *)
(* the row.                                                                *)
THEOREM DeletedStaysDeletedAlways == Spec => DeletedStaysDeleted
<1>1. ASSUME Inv, Next, NEW u \in born, user[u] = None PROVE user'[u] = None
  <2>1. TypeOK BY <1>1 DEF Inv
  <2>2. u \in User /\ user \in [User -> Row \cup {None}] BY <2>1 DEF TypeOK
  <2>3. ASSUME NEW v \in User, NEW row, Stores(v, row) PROVE user'[u] = None
    BY <1>1, <2>2, <2>3 DEF Stores
  <2> QED BY <1>1, <2>3, StepStores
<1>2. Inv /\ [Next]_vars => [\A u \in born : user[u] = None => user'[u] = None]_vars
    BY <1>1
<1> QED BY <1>2, InvAlways, PTL DEF Spec, DeletedStaysDeleted

(* What a whole row written back late can never do, for any number of      *)
(* requests: all of the above.                                             *)
THEOREM LateWritesAreHarmlessAlways == Spec => LateWritesAreHarmless
BY VerifiedIsProvenAlways, AddressIsWantedAlways, AddressIsUniqueAlways,
   OnlyStatusChangesActiveAlways, DeletedStaysDeletedAlways, PTL DEF LateWritesAreHarmless
------------------------------------------------------------------------------
(* The grace period also covers the time a retirement takes.               *)
Covers == conf.grace >= Ttl + Delay

(* Keys are stored under the numbers given so far, and only a stored key   *)
(* has signed.                                                             *)
Numbered(K, U, B) ==
    /\ \A k \in Key : K[k] # NoKey => k <= B
    /\ \A k \in Key : U[k] <= clock + Ttl /\ (U[k] # 0 => K[k] # NoKey)

(* A retired key is published until its last token expires.                *)
Kept(K, U) ==
    Uniform \/ Covers => \A k \in Key : K[k] # NoKey /\ K[k].retired => U[k] <= K[k].expires

(* With shared secrets the newest stored key is active and readable.       *)
Led(K) ==
    Uniform =>
        /\ \A k \in Key : K[k] # NoKey => \E v \in Process : K[k].by = conf.seals[v]
        /\ (\E k \in Key : K[k] # NoKey) =>
              \E t \in Key : K[t] # NoKey /\ ~K[t].retired /\ \A j \in Key : K[j] # NoKey => j <= t

KeySet ==
    /\ Numbered(keys, until, made) /\ Kept(keys, until) /\ Led(keys)
    /\ floor # 0 => keys[floor] # NoKey
    /\ Uniform => ~passed

(* What a request relies on.  A key it inserts is new; those it retires    *)
(* after a rotation are older than the key it has published and sign no    *)
(* more; the candidate it will sign with outlives the token even if others *)
(* retire it meanwhile.                                                    *)
Relied(r) ==
    /\ r.exp <= clock + Ttl
    /\ r.pc = "list" => ~r.rotating
    /\ r.pc = "insert" => r.new \in Key /\ r.new <= made /\ keys[r.new] = NoKey
    /\ r.pc = "insert" /\ ~r.rotating /\ Uniform => r.low = 0
    /\ r.pc \in {"insert", "retire"} /\ r.rotating => \A k \in r.todo : keys[k] # NoKey /\ k < r.new
    /\ r.pc = "retire" =>
          /\ r.todo # {} /\ r.mark <= clock /\ clock <= r.mark + Delay
          /\ \A k \in r.todo : keys[k] # NoKey
    /\ r.pc = "retire" /\ r.rotating =>
          /\ r.new \in Key /\ keys[r.new] # NoKey
          /\ Uniform => \A k \in r.todo : until[k] <= r.mark + Ttl
    /\ r.pc = "retire" /\ ~r.rotating =>
          /\ ~Uniform
          /\ r.pick # 0 => /\ keys[r.pick] # NoKey
                           /\ Covers /\ keys[r.pick].retired => r.exp <= keys[r.pick].expires

(* Two requests never insert the same key.                                 *)
Distinct ==
    \A v, w \in Process : v # w /\ Doing(v, "insert") /\ Doing(w, "insert") => task[v].new # task[w].new

JwksInv == JwksTypeOK /\ KeySet /\ Distinct /\ \A w \in Process : Relied(task[w])
------------------------------------------------------------------------------
LEMMA ConfIs ==
    ASSUME conf \in Confs
    PROVE  /\ conf \in Conf /\ conf.grace \in Nat /\ conf.grace >= Ttl /\ Ttl \in Nat /\ Ttl > 0 /\ Delay \in Nat
           /\ \A w \in Process : conf.seals[w] \in Secret /\ conf.seals[w] \in conf.opens[w]
<1>1. conf \in Conf /\ conf.grace >= Ttl /\ \A w \in Process : conf.seals[w] \in conf.opens[w]
  BY ConfAssumption
<1>2. conf.grace \in Nat /\ conf.seals \in [Process -> Secret]
  BY <1>1 DEF Conf
<1>3. Ttl \in Nat /\ Ttl > 0 /\ Delay \in Nat
  BY ClockAssumption
<1> QED BY <1>1, <1>2, <1>3

LEMMA RestingIs ==
    /\ Resting \in Task /\ Resting.pc = "idle" /\ ~Resting.rotating /\ Resting.exp = 0 /\ Resting.low = 0
    /\ Resting.todo = {}
BY DEF Resting, Task

(* The records that requests become.                                       *)
Fresh(p, o, s, e) == [Resting EXCEPT !.pc = p, !.op = o, !.stage = s, !.exp = e]
Probed(o) == [Resting EXCEPT !.pc = "list", !.op = o, !.stage = "due"]
Listed(r, p, T, l) == [r EXCEPT !.pick = p, !.todo = T, !.low = l]
Marked(r, m) == [r EXCEPT !.pc = "retire", !.mark = m]
Inserting(r, n, m) == [r EXCEPT !.pc = "insert", !.new = n, !.mark = m]
Replacing(r, T) == [r EXCEPT !.rotating = TRUE, !.todo = T]

LEMMA FreshIs ==
    ASSUME NEW p \in {"list", "snapshot"}, NEW o \in {"none", "start", "rotate", "sign"},
           NEW s \in {"probe", "due", "last"}, NEW e \in Nat
    PROVE  LET q == Fresh(p, o, s, e) IN q \in Task /\ q.pc = p /\ ~q.rotating /\ q.exp = e
<1>0. PICK q : q = Fresh(p, o, s, e)
  OBVIOUS
<1>1. PICK a, b, c, d : /\ a = Resting /\ b = [a EXCEPT !.pc = p] /\ c = [b EXCEPT !.op = o]
                        /\ d = [c EXCEPT !.stage = s]
  OBVIOUS
<1>2. a \in Task /\ ~a.rotating
  BY <1>1, RestingIs
<1>3. b \in Task /\ b.pc = p /\ ~b.rotating
  <2>1. b = [a EXCEPT !.pc = p]
    BY <1>1
  <2> QED BY <1>2, <2>1 DEF Task
<1>4. c \in Task /\ c.pc = p /\ ~c.rotating
  <2>1. c = [b EXCEPT !.op = o]
    BY <1>1
  <2> QED BY <1>3, <2>1 DEF Task
<1>5. d \in Task /\ d.pc = p /\ ~d.rotating
  <2>1. d = [c EXCEPT !.stage = s]
    BY <1>1
  <2> QED BY <1>4, <2>1 DEF Task
<1>6. q = [d EXCEPT !.exp = e]
  BY <1>0, <1>1, Zenon DEF Fresh
<1>7. q \in Task /\ q.pc = p /\ ~q.rotating /\ q.exp = e
  BY <1>5, <1>6 DEF Task
<1> QED BY <1>0, <1>7

LEMMA ProbedIs ==
    ASSUME NEW o \in {"none", "start", "rotate", "sign"}
    PROVE  LET q == Probed(o) IN q \in Task /\ q.pc = "list" /\ ~q.rotating /\ q.exp = 0
<1>0. PICK q : q = Probed(o)
  OBVIOUS
<1>1. PICK a, b, c : a = Resting /\ b = [a EXCEPT !.pc = "list"] /\ c = [b EXCEPT !.op = o]
  OBVIOUS
<1>2. a \in Task /\ ~a.rotating /\ a.exp = 0
  BY <1>1, RestingIs
<1>3. b \in Task /\ b.pc = "list" /\ ~b.rotating /\ b.exp = 0
  <2>1. b = [a EXCEPT !.pc = "list"]
    BY <1>1
  <2> QED BY <1>2, <2>1 DEF Task
<1>4. c \in Task /\ c.pc = "list" /\ ~c.rotating /\ c.exp = 0
  <2>1. c = [b EXCEPT !.op = o]
    BY <1>1
  <2> QED BY <1>3, <2>1 DEF Task
<1>5. q = [c EXCEPT !.stage = "due"]
  BY <1>0, <1>1, Zenon DEF Probed
<1>6. q \in Task /\ q.pc = "list" /\ ~q.rotating /\ q.exp = 0
  BY <1>4, <1>5 DEF Task
<1> QED BY <1>0, <1>6

LEMMA ListedIs ==
    ASSUME NEW r \in Task, NEW p \in Key \cup {0}, NEW T \in SUBSET Key, NEW l \in Key \cup {0}
    PROVE  LET q == Listed(r, p, T, l) IN
           /\ q \in Task /\ q.pc = r.pc /\ q.rotating = r.rotating /\ q.exp = r.exp /\ q.stage = r.stage
           /\ q.op = r.op /\ q.pick = p /\ q.todo = T /\ q.low = l
<1>0. PICK q : q = Listed(r, p, T, l)
  OBVIOUS
<1>1. PICK a, b : a = [r EXCEPT !.pick = p] /\ b = [a EXCEPT !.todo = T]
  OBVIOUS
<1>2. /\ a \in Task /\ a.pc = r.pc /\ a.rotating = r.rotating /\ a.exp = r.exp /\ a.stage = r.stage
      /\ a.op = r.op /\ a.pick = p
  <2>1. a = [r EXCEPT !.pick = p]
    BY <1>1
  <2> QED BY <2>1 DEF Task
<1>3. /\ b \in Task /\ b.pc = r.pc /\ b.rotating = r.rotating /\ b.exp = r.exp /\ b.stage = r.stage
      /\ b.op = r.op /\ b.pick = p /\ b.todo = T
  <2>1. b = [a EXCEPT !.todo = T]
    BY <1>1
  <2> QED BY <1>2, <2>1 DEF Task
<1>4. q = [b EXCEPT !.low = l]
  BY <1>0, <1>1, Zenon DEF Listed
<1>5. /\ q \in Task /\ q.pc = r.pc /\ q.rotating = r.rotating /\ q.exp = r.exp /\ q.stage = r.stage
      /\ q.op = r.op /\ q.pick = p /\ q.todo = T /\ q.low = l
  BY <1>3, <1>4 DEF Task
<1> QED BY <1>0, <1>5

LEMMA MarkedIs ==
    ASSUME NEW r \in Task, NEW m \in Nat
    PROVE  LET q == Marked(r, m) IN
           /\ q \in Task /\ q.pc = "retire" /\ q.mark = m /\ q.rotating = r.rotating /\ q.exp = r.exp
           /\ q.todo = r.todo /\ q.new = r.new /\ q.pick = r.pick
<1>0. PICK q : q = Marked(r, m)
  OBVIOUS
<1>1. PICK a : a = [r EXCEPT !.pc = "retire"]
  OBVIOUS
<1>2. /\ a \in Task /\ a.pc = "retire" /\ a.rotating = r.rotating /\ a.exp = r.exp
      /\ a.todo = r.todo /\ a.new = r.new /\ a.pick = r.pick
  BY <1>1 DEF Task
<1>3. q = [a EXCEPT !.mark = m]
  BY <1>0, <1>1, Zenon DEF Marked
<1>4. /\ q \in Task /\ q.pc = "retire" /\ q.mark = m /\ q.rotating = r.rotating /\ q.exp = r.exp
      /\ q.todo = r.todo /\ q.new = r.new /\ q.pick = r.pick
  BY <1>2, <1>3 DEF Task
<1> QED BY <1>0, <1>4

LEMMA InsertingIs ==
    ASSUME NEW r \in Task, NEW n \in Key, NEW m \in Nat
    PROVE  LET q == Inserting(r, n, m) IN
           /\ q \in Task /\ q.pc = "insert" /\ q.new = n /\ q.rotating = r.rotating /\ q.exp = r.exp
           /\ q.todo = r.todo /\ q.low = r.low
<1>0. PICK q : q = Inserting(r, n, m)
  OBVIOUS
<1>1. PICK a, b : a = [r EXCEPT !.pc = "insert"] /\ b = [a EXCEPT !.new = n]
  OBVIOUS
<1>2. a \in Task /\ a.pc = "insert" /\ a.rotating = r.rotating /\ a.exp = r.exp /\ a.todo = r.todo /\ a.low = r.low
  <2>1. a = [r EXCEPT !.pc = "insert"]
    BY <1>1
  <2> QED BY <2>1 DEF Task
<1>3. /\ b \in Task /\ b.pc = "insert" /\ b.new = n /\ b.rotating = r.rotating /\ b.exp = r.exp
      /\ b.todo = r.todo /\ b.low = r.low
  <2>1. b = [a EXCEPT !.new = n]
    BY <1>1
  <2> QED BY <1>2, <2>1 DEF Task
<1>4. q = [b EXCEPT !.mark = m]
  BY <1>0, <1>1, Zenon DEF Inserting
<1>5. /\ q \in Task /\ q.pc = "insert" /\ q.new = n /\ q.rotating = r.rotating /\ q.exp = r.exp
      /\ q.todo = r.todo /\ q.low = r.low
  BY <1>3, <1>4 DEF Task
<1> QED BY <1>0, <1>5

LEMMA ReplacingIs ==
    ASSUME NEW r \in Task, NEW T \in SUBSET Key
    PROVE  LET q == Replacing(r, T) IN
           q \in Task /\ q.rotating /\ q.todo = T /\ q.exp = r.exp /\ q.low = r.low
<1>0. PICK q : q = Replacing(r, T)
  OBVIOUS
<1>1. PICK a : a = [r EXCEPT !.rotating = TRUE]
  OBVIOUS
<1>2. a \in Task /\ a.rotating /\ a.exp = r.exp /\ a.low = r.low
  BY <1>1 DEF Task
<1>3. q = [a EXCEPT !.todo = T]
  BY <1>0, <1>1, Zenon DEF Replacing
<1>4. q \in Task /\ q.rotating /\ q.todo = T /\ q.exp = r.exp /\ q.low = r.low
  BY <1>2, <1>3 DEF Task
<1> QED BY <1>0, <1>4
------------------------------------------------------------------------------
(* Of finitely many keys one is the newest.                                *)
LEMMA Least ==
    ASSUME NEW T, T \subseteq Nat, T # {}
    PROVE  \E m \in T : \A k \in T : m <= k
<1> DEFINE R == OpToRel(<, Nat)
<1>1. IsWellFoundedOn(R, Nat)
  BY NatLessThanWellFounded
<1>2. \A x, y \in Nat : y < x => <<y, x>> \in R
  BY DEF OpToRel
<1> HIDE DEF R
<1>3. PICK m \in T : \A y \in T : ~ (<<y, m>> \in R)
  BY <1>1, WFMin
<1>4. ASSUME NEW y \in T PROVE m <= y
  <2>1. y \in Nat /\ m \in Nat /\ ~(y < m)
    BY <1>2, <1>3
  <2> QED BY <2>1
<1> QED BY <1>4

LEMMA NewestIs ==
    ASSUME NEW S, S \subseteq Key, S # {}
    PROVE  Newest(S) \in S /\ \A j \in S : j <= Newest(S)
<1>1. \A k \in Key : k \in Nat /\ MaxKeys - k \in Nat
  BY BoundAssumption DEF Key
<1>2. PICK T : T = {MaxKeys - k : k \in S}
  OBVIOUS
<1>3. T \subseteq Nat /\ T # {}
  BY <1>1, <1>2
<1>4. PICK m \in T : \A x \in T : m <= x
  BY <1>3, Least
<1>5. PICK k \in S : m = MaxKeys - k
  BY <1>2, <1>4
<1>6. ASSUME NEW j \in S PROVE j <= k
  <2>1. MaxKeys - k <= MaxKeys - j
    BY <1>2, <1>4, <1>5
  <2> QED BY <1>1, <2>1, BoundAssumption
<1> QED BY <1>6 DEF Newest
------------------------------------------------------------------------------
(* What is true of the keys, their tokens and the numbers given.           *)
StoreIs(K, U, B) == K \in [Key -> JwksKey \cup {NoKey}] /\ U \in [Key -> Nat] /\ Numbered(K, U, B) /\ Kept(K, U) /\ Led(K)

(* What a step of w may do to the stored keys: keys stay, those it changes *)
(* are published long enough for any token about to be signed, and the     *)
(* only one it adds is the one it generated.                               *)
Holds(w, K) ==
    /\ \A k \in Key : keys[k] # NoKey =>
          K[k] # NoKey /\ (K[k] = keys[k] \/ (Covers => K[k].expires \in Nat /\ clock + Ttl <= K[k].expires))
    /\ \A k \in Key : keys[k] = NoKey /\ K[k] # NoKey => Doing(w, "insert") /\ task[w].new = k

(* And to their tokens: with shared secrets only the newest key signs.     *)
Signs(U) ==
    Uniform => \A k \in Key : keys[k] # NoKey /\ U[k] # until[k] => \A j \in Key : keys[j] # NoKey => j <= k

LEMMA KeyIs == 0 \notin Key /\ \A k \in Key : k \in Nat /\ k >= 1
BY BoundAssumption DEF Key

LEMMA StoreNow ==
    ASSUME JwksInv
    PROVE  StoreIs(keys, until, made) /\ clock \in Nat /\ made \in Key \cup {0} /\ conf \in Confs
           /\ task \in [Process -> Task]
BY DEF JwksInv, JwksTypeOK, KeySet, StoreIs

(* Other requests can rely on what they relied on.                         *)
LEMMA ReliedStays ==
    ASSUME JwksInv, NEW w \in Process, NEW v \in Process, v # w, NEW r \in Task, r = task[v],
           NEW K \in [Key -> JwksKey \cup {NoKey}], NEW U \in [Key -> Nat], NEW B \in Nat,
           conf' = conf, clock' = clock, keys' = K, until' = U, made' = B, made <= B, Holds(w, K), Signs(U)
    PROVE  Relied(r)'
<1>1. Relied(r) /\ clock \in Nat /\ made \in Nat
  BY KeyIs DEF JwksInv, JwksTypeOK
<1>2. Uniform' = Uniform /\ Covers' = Covers
  BY DEF Uniform, Covers
<1>3. r.exp \in Nat /\ r.todo \subseteq Key /\ r.mark \in Nat /\ r.pick \in Key \cup {0} /\ r.new \in Key \cup {0}
  BY DEF Task
<1>4. ASSUME NEW k \in Key, keys[k] # NoKey PROVE K[k] # NoKey
  BY <1>4 DEF Holds
<1>5. (r.exp <= clock + Ttl)' /\ (r.pc = "list" => ~r.rotating)
  BY <1>1 DEF Relied
<1>6. ASSUME r.pc = "insert" PROVE r.new \in Key /\ r.new <= B /\ K[r.new] = NoKey
  <2>1. r.new \in Key /\ r.new <= made /\ keys[r.new] = NoKey
    BY <1>1, <1>6 DEF Relied
  <2>2. ASSUME K[r.new] # NoKey PROVE FALSE
    <3>1. Doing(w, "insert") /\ task[w].new = r.new
      BY <2>1, <2>2 DEF Holds
    <3>2. Doing(v, "insert") /\ task[v].new = r.new
      BY <1>6 DEF Doing
    <3> QED BY <3>1, <3>2 DEF JwksInv, Distinct
  <2>3. r.new <= B
    BY <1>1, <2>1, KeyIs
  <2> QED BY <2>1, <2>2, <2>3
<1>7. r.pc = "insert" /\ ~r.rotating /\ Uniform => r.low = 0
  BY <1>1 DEF Relied
<1>8. r.pc \in {"insert", "retire"} /\ r.rotating => \A k \in r.todo : K[k] # NoKey /\ k < r.new
  BY <1>1, <1>3, <1>4 DEF Relied
<1>9. ASSUME r.pc = "retire"
      PROVE  r.todo # {} /\ r.mark <= clock /\ clock <= r.mark + Delay /\ \A k \in r.todo : K[k] # NoKey
  BY <1>1, <1>3, <1>4, <1>9 DEF Relied
<1>10. ASSUME r.pc = "retire", r.rotating
       PROVE  r.new \in Key /\ K[r.new] # NoKey /\ (Uniform => \A k \in r.todo : U[k] <= r.mark + Ttl)
  <2>1. r.new \in Key /\ keys[r.new] # NoKey
    BY <1>1, <1>10 DEF Relied
  <2>2. ASSUME Uniform, NEW k \in r.todo PROVE U[k] <= r.mark + Ttl
    <3>1. k \in Key /\ keys[k] # NoKey /\ k < r.new /\ until[k] <= r.mark + Ttl
      BY <1>1, <1>3, <1>10, <2>2 DEF Relied
    <3>2. U[k] = until[k]
      <4>1. ASSUME U[k] # until[k] PROVE FALSE
        <5>1. r.new <= k
          BY <2>1, <2>2, <3>1, <4>1 DEF Signs
        <5> QED BY <2>1, <3>1, <5>1, KeyIs
      <4> QED BY <4>1
    <3> QED BY <3>1, <3>2
  <2> QED BY <1>4, <2>1, <2>2
<1>11. ASSUME r.pc = "retire", ~r.rotating
       PROVE  ~Uniform /\ (r.pick # 0 => K[r.pick] # NoKey /\ (Covers /\ K[r.pick].retired => r.exp <= K[r.pick].expires))
  <2>1. ~Uniform
    BY <1>1, <1>11 DEF Relied
  <2>2. ASSUME r.pick # 0 PROVE K[r.pick] # NoKey /\ (Covers /\ K[r.pick].retired => r.exp <= K[r.pick].expires)
    <3>1. PICK p \in Key : p = r.pick
      BY <1>3, <2>2
    <3>2. keys[p] # NoKey /\ (Covers /\ keys[p].retired => r.exp <= keys[p].expires)
      BY <1>1, <1>11, <2>2, <3>1 DEF Relied
    <3>3. CASE K[p] = keys[p]
      BY <3>1, <3>2, <3>3
    <3>4. CASE K[p] # keys[p]
      <4>1. K[p] # NoKey /\ (Covers => K[p].expires \in Nat /\ clock + Ttl <= K[p].expires)
        BY <3>2, <3>4 DEF Holds
      <4>2. r.exp <= clock + Ttl
        BY <1>1 DEF Relied
      <4>3. Covers => r.exp <= K[p].expires
        BY <1>1, <1>3, <4>1, <4>2, ClockAssumption
      <4> QED BY <3>1, <4>1, <4>3
    <3> QED BY <3>3, <3>4
  <2> QED BY <2>1, <2>2
<1> QED BY <1>2, <1>5, <1>6, <1>7, <1>8, <1>9, <1>10, <1>11 DEF Relied

(* A step that leaves the keys in order, and its own request in a state it *)
(* can rely on, preserves the invariant.                                   *)
LEMMA StepKeeps ==
    ASSUME JwksInv, NEW w \in Process, NEW q \in Task, task' = [task EXCEPT ![w] = q],
           NEW K, NEW U, NEW B \in Key \cup {0}, NEW f \in Key \cup {0}, StoreIs(K, U, B),
           conf' = conf, clock' = clock, keys' = K, until' = U, made' = B, floor' = f, made <= B,
           Holds(w, K), Signs(U), f # 0 => K[f] # NoKey, passed' \in BOOLEAN, Uniform => ~passed',
           Relied(q)', q.pc = "insert" => q.new = made + 1
    PROVE  JwksInv'
<1>1. task \in [Process -> Task] /\ K \in [Key -> JwksKey \cup {NoKey}] /\ U \in [Key -> Nat] /\ B \in Nat
  BY StoreNow, KeyIs DEF StoreIs
<1>2. \A v \in Process : task'[v] = IF v = w THEN q ELSE task[v]
  BY <1>1
<1>3. Uniform' = Uniform /\ Covers' = Covers
  BY DEF Uniform, Covers
<1>4. JwksTypeOK'
  <2>1. task' \in [Process -> Task]
    BY <1>1
  <2> QED BY <1>1, <2>1, StoreNow DEF JwksTypeOK
<1>5. KeySet'
  <2>1. Numbered(K, U, B)' /\ Kept(K, U)' /\ Led(K)'
    BY <1>3 DEF StoreIs, Numbered, Kept, Led
  <2> QED BY <1>3, <2>1 DEF KeySet, Numbered, Kept, Led
<1>6. Distinct'
  <2>1. ASSUME NEW u \in Process, NEW v \in Process, u # v, task'[u].pc = "insert", task'[v].pc = "insert"
        PROVE  task'[u].new # task'[v].new
    <3>1. ASSUME NEW x \in Process, task[x].pc = "insert" PROVE task[x].new # made + 1
      <4>1. task[x].new \in Key /\ task[x].new <= made /\ made \in Nat
        BY <3>1, StoreNow, KeyIs DEF JwksInv, Relied
      <4> QED BY <4>1, KeyIs
    <3>2. CASE u = w
      BY <1>2, <2>1, <3>1, <3>2
    <3>3. CASE v = w
      BY <1>2, <2>1, <3>1, <3>3
    <3>4. CASE u # w /\ v # w
      BY <1>2, <2>1, <3>4 DEF JwksInv, Distinct, Doing
    <3> QED BY <3>2, <3>3, <3>4
  <2> QED BY <2>1 DEF Distinct, Doing
<1>7. ASSUME NEW v \in Process PROVE Relied(task[v])'
  <2>1. CASE v = w
    <3>1. task'[v] = q
      BY <1>2, <2>1
    <3> QED BY <3>1 DEF Relied
  <2>2. CASE v # w
    <3>1. PICK r \in Task : r = task[v]
      BY <1>1
    <3>2. Relied(r)'
      BY <1>1, <2>2, <3>1, ReliedStays
    <3>3. task'[v] = r
      BY <1>2, <2>2, <3>1
    <3> QED BY <3>2, <3>3 DEF Relied
  <2> QED BY <2>1, <2>2
<1> QED BY <1>4, <1>5, <1>6, <1>7 DEF JwksInv
------------------------------------------------------------------------------
(* The keys with a key added, and the expiries with a token signed.        *)
Added(n, x) == [keys EXCEPT ![n] = x]
Signed(k, e) == [until EXCEPT ![k] = IF e > @ THEN e ELSE @]

(* A retirement leaves the keys in order: the tokens of the key are        *)
(* covered by its grace period, and a newer key is there.                  *)
LEMMA RetireKeeps ==
    ASSUME JwksInv, NEW w \in Process, NEW k \in Key, keys[k] # NoKey, NEW m \in Nat,
           m <= clock, clock <= m + Delay,
           Uniform => until[k] <= m + Ttl /\ \E j \in Key : keys[j] # NoKey /\ k < j,
           NEW K, K = RetiredAt(k, m)
    PROVE  /\ StoreIs(K, until, made) /\ Holds(w, K)
           /\ \A j \in Key : K[j] # NoKey <=> keys[j] # NoKey
           /\ \A j \in Key \ {k} : K[j] = keys[j]
           /\ K[k].expires \in Nat /\ (Covers => clock + Ttl <= K[k].expires)
<1>1. /\ keys \in [Key -> JwksKey \cup {NoKey}] /\ until \in [Key -> Nat] /\ clock \in Nat
      /\ Numbered(keys, until, made) /\ Kept(keys, until) /\ Led(keys)
  BY StoreNow DEF StoreIs
<1>2. conf.grace \in Nat /\ conf.grace >= Ttl /\ Ttl \in Nat /\ Delay \in Nat
  BY StoreNow, ConfIs
<1>3. PICK e \in Nat : e = m + conf.grace
  BY <1>2
<1>4. PICK y \in JwksKey : y = keys[k]
  BY <1>1
<1>5. PICK z : z = [y EXCEPT !.retired = TRUE]
  OBVIOUS
<1>6. z \in JwksKey /\ z.by = y.by /\ z.retired
  BY <1>5 DEF JwksKey
<1>7. PICK x : x = [z EXCEPT !.expires = e]
  OBVIOUS
<1>8. x \in JwksKey /\ x.by = y.by /\ x.retired /\ x.expires = e
  BY <1>6, <1>7 DEF JwksKey
<1>9. K = [keys EXCEPT ![k] = x]
  <2>1. PICK L : L = [keys EXCEPT ![k].retired = TRUE]
    OBVIOUS
  <2>2. K = [L EXCEPT ![k].expires = e]
    BY <1>3, <2>1, Zenon DEF RetiredAt
  <2>3. L = [keys EXCEPT ![k] = z]
    BY <1>4, <1>5, <2>1
  <2>4. L[k] = z
    BY <1>1, <2>3
  <2>5. K = [L EXCEPT ![k] = x]
    BY <1>7, <2>2, <2>4
  <2> QED BY <1>1, <2>3, <2>5
<1>10. x # NoKey
  BY <1>8, NoKeyAssumption
<1>11. K \in [Key -> JwksKey \cup {NoKey}] /\ \A j \in Key : K[j] = IF j = k THEN x ELSE keys[j]
  BY <1>1, <1>8, <1>9
<1>12. \A j \in Key : K[j] # NoKey <=> keys[j] # NoKey
  BY <1>10, <1>11
<1>13. Covers => clock + Ttl <= e
  BY <1>1, <1>2, <1>3 DEF Covers
<1>14. Numbered(K, until, made)
  BY <1>1, <1>12 DEF Numbered
<1>15. Kept(K, until)
  <2>1. Uniform \/ Covers => until[k] <= e
    <3>1. until[k] \in Nat /\ until[k] <= clock + Ttl
      BY <1>1 DEF Numbered
    <3>2. Uniform => until[k] <= m + Ttl
      OBVIOUS
    <3> QED BY <1>1, <1>2, <1>3, <1>13, <3>1, <3>2
  <2> QED BY <1>1, <1>8, <1>11, <2>1 DEF Kept
<1>16. Led(K)
  <2>1. ASSUME Uniform, NEW j \in Key, K[j] # NoKey PROVE \E v \in Process : K[j].by = conf.seals[v]
    BY <1>1, <1>4, <1>8, <1>11, <1>12, <2>1 DEF Led
  <2>2. ASSUME Uniform
        PROVE  \E t \in Key : K[t] # NoKey /\ ~K[t].retired /\ \A j \in Key : K[j] # NoKey => j <= t
    <3>1. PICK t \in Key : keys[t] # NoKey /\ ~keys[t].retired /\ \A j \in Key : keys[j] # NoKey => j <= t
      BY <1>1, <2>2 DEF Led
    <3>2. PICK j \in Key : keys[j] # NoKey /\ k < j
      BY <2>2
    <3>3. t # k
      BY <3>1, <3>2, KeyIs
    <3> QED BY <1>11, <1>12, <3>1, <3>3
  <2> QED BY <2>1, <2>2 DEF Led
<1>17. Holds(w, K)
  BY <1>8, <1>10, <1>11, <1>13 DEF Holds
<1> QED BY <1>8, <1>11, <1>12, <1>13, <1>14, <1>15, <1>16, <1>17, <1>1 DEF StoreIs

LEMMA InsertKeeps ==
    ASSUME JwksInv, NEW w \in Process, NEW n \in Key, Doing(w, "insert"), n = task[w].new, NEW x \in JwksKey,
           x.by = conf.seals[w], ~x.retired, NEW K, K = Added(n, x)
    PROVE  /\ StoreIs(K, until, made) /\ Holds(w, K) /\ keys[n] = NoKey
           /\ K[n] # NoKey /\ ~K[n].retired /\ \A j \in Key \ {n} : K[j] = keys[j]
<1>1. /\ keys \in [Key -> JwksKey \cup {NoKey}] /\ until \in [Key -> Nat] /\ clock \in Nat
      /\ Numbered(keys, until, made) /\ Kept(keys, until) /\ Led(keys)
  BY StoreNow DEF StoreIs
<1>2. keys[n] = NoKey /\ n <= made
  BY DEF JwksInv, Relied, Doing
<1>3. x # NoKey
  BY NoKeyAssumption
<1>4. K \in [Key -> JwksKey \cup {NoKey}] /\ \A j \in Key : K[j] = IF j = n THEN x ELSE keys[j]
  BY <1>1 DEF Added
<1>5. Numbered(K, until, made)
  BY <1>1, <1>2, <1>3, <1>4 DEF Numbered
<1>6. Kept(K, until)
  BY <1>1, <1>4 DEF Kept
<1>7. Led(K)
  <2>1. ASSUME Uniform, NEW j \in Key, K[j] # NoKey PROVE \E v \in Process : K[j].by = conf.seals[v]
    BY <1>1, <1>4, <2>1 DEF Led
  <2>2. ASSUME Uniform
        PROVE  \E t \in Key : K[t] # NoKey /\ ~K[t].retired /\ \A j \in Key : K[j] # NoKey => j <= t
    <3>1. CASE \A j \in Key : keys[j] = NoKey
      BY <1>3, <1>4, <3>1, KeyIs
    <3>2. CASE ~\A j \in Key : keys[j] = NoKey
      <4>1. PICK t \in Key : keys[t] # NoKey /\ ~keys[t].retired /\ \A j \in Key : keys[j] # NoKey => j <= t
        BY <1>1, <2>2, <3>2 DEF Led
      <4>2. CASE n <= t
        BY <1>2, <1>4, <4>1, <4>2
      <4>3. CASE ~(n <= t)
        <5>1. \A j \in Key : K[j] # NoKey => j <= n
          BY <1>4, <4>1, <4>3, KeyIs
        <5> QED BY <1>3, <1>4, <5>1
      <4> QED BY <4>2, <4>3
    <3> QED BY <3>1, <3>2
  <2> QED BY <2>1, <2>2 DEF Led
<1>8. Holds(w, K)
  BY <1>2, <1>4 DEF Holds
<1> QED BY <1>1, <1>2, <1>3, <1>4, <1>5, <1>6, <1>7, <1>8 DEF StoreIs

LEMMA SignKeeps ==
    ASSUME JwksInv, NEW K, StoreIs(K, until, made), NEW k \in Key, K[k] # NoKey,
           NEW e \in Nat, e <= clock + Ttl, (Uniform \/ Covers) /\ K[k].retired => e <= K[k].expires,
           NEW U, U = Signed(k, e)
    PROVE  StoreIs(K, U, made) /\ \A j \in Key \ {k} : U[j] = until[j]
<1>1. /\ until \in [Key -> Nat] /\ clock \in Nat
      /\ Numbered(K, until, made) /\ Kept(K, until) /\ Led(K) /\ K \in [Key -> JwksKey \cup {NoKey}]
  BY StoreNow DEF StoreIs
<1>2. PICK x : x = IF e > until[k] THEN e ELSE until[k]
  OBVIOUS
<1>3. x \in Nat /\ (x = e \/ x = until[k])
  BY <1>1, <1>2
<1>4. U = [until EXCEPT ![k] = x]
  BY <1>2 DEF Signed
<1>5. U \in [Key -> Nat] /\ \A j \in Key : U[j] = IF j = k THEN x ELSE until[j]
  BY <1>1, <1>3, <1>4
<1>6. Numbered(K, U, made)
  BY <1>1, <1>3, <1>5 DEF Numbered
<1>7. Kept(K, U)
  BY <1>1, <1>3, <1>5 DEF Kept
<1> QED BY <1>1, <1>5, <1>6, <1>7 DEF StoreIs
------------------------------------------------------------------------------
(* A request that does not write next.                                     *)
Calm(q) == q.pc \in {"idle", "list", "snapshot"} /\ ~q.rotating /\ q.exp <= clock + Ttl

LEMMA CalmRelies ==
    ASSUME NEW q \in Task, Calm(q), clock' = clock
    PROVE  Relied(q)'
BY DEF Calm, Relied

LEMMA RestingIsCalm ==
    ASSUME JwksInv
    PROVE  Calm(Resting)
<1>1. clock \in Nat /\ Ttl \in Nat
  BY StoreNow, ClockAssumption
<1> QED BY <1>1, RestingIs DEF Calm

(* Steps after which a request goes on, or stops, without having signed.   *)
LEMMA CalmKeeps ==
    ASSUME JwksInv, NEW w \in Process, NEW q \in Task, Calm(q), task' = [task EXCEPT ![w] = q],
           NEW K, StoreIs(K, until, made), Holds(w, K), NEW f \in Key \cup {0}, f # 0 => K[f] # NoKey,
           conf' = conf, clock' = clock, keys' = K, until' = until, made' = made, floor' = f, passed' = passed
    PROVE  JwksInv'
<1>1. Relied(q)'
  BY CalmRelies
<1>2. q.pc # "insert"
  BY DEF Calm
<1>3. Signs(until) /\ passed' \in BOOLEAN /\ (Uniform => ~passed')
  BY DEF Signs, JwksInv, JwksTypeOK, KeySet
<1>4. made \in Key \cup {0} /\ made <= made
  BY StoreNow, KeyIs
<1> QED BY <1>1, <1>2, <1>3, <1>4, StepKeeps

LEMMA NotDueIs ==
    ASSUME JwksInv, NEW w \in Process, NEW r \in Task, r.exp <= clock + Ttl, NotDue(w, r)
    PROVE  /\ \E q \in Task : Calm(q) /\ task' = [task EXCEPT ![w] = q]
           /\ UNCHANGED <<made, until, passed>>
<1>1. CASE r.op = "sign"
  <2>1. PICK q : q = Fresh("list", "sign", "last", r.exp)
    OBVIOUS
  <2>2. task' = [task EXCEPT ![w] = q]
    BY <1>1, <2>1 DEF NotDue, Fresh
  <2>3. r.exp \in Nat
    BY DEF Task
  <2>4. q \in Task /\ q.pc = "list" /\ ~q.rotating /\ q.exp = r.exp
    BY <2>1, <2>3, FreshIs
  <2> QED BY <2>2, <2>4 DEF Calm, NotDue
<1>2. CASE r.op # "sign"
  BY <1>2, RestingIs, RestingIsCalm DEF NotDue
<1> QED BY <1>1, <1>2

(* What ensure_key leads to, with the key k in the store it leaves.        *)
LEMMA EnsuredKeeps ==
    ASSUME JwksInv, NEW w \in Process, NEW r \in Task, r.exp <= clock + Ttl, NEW k \in Key,
           NEW K, StoreIs(K, until, made), Holds(w, K), K[k] # NoKey, floor # 0 => K[floor] # NoKey,
           (Uniform \/ Covers) /\ K[k].retired => r.exp <= K[k].expires,
           Uniform => r.low <= k /\ (keys[k] = NoKey \/ \A j \in Key : keys[j] # NoKey => j <= k),
           conf' = conf, clock' = clock, keys' = K, Ensured(w, r, k)
    PROVE  JwksInv'
<1>0. floor \in Key \cup {0} /\ clock \in Nat /\ Ttl \in Nat /\ r.exp \in Nat /\ made \in Key \cup {0}
  BY ClockAssumption DEF JwksInv, JwksTypeOK, Task
<1>1. ASSUME UNCHANGED <<made, until, passed, floor>>, NEW q \in Task, Calm(q), task' = [task EXCEPT ![w] = q]
      PROVE  JwksInv'
  BY <1>0, <1>1, CalmKeeps
<1>2. ASSUME r.stage = "probe", UNCHANGED <<made, until, passed, floor>>,
             task' = [task EXCEPT ![w] = [Resting EXCEPT !.pc = "list", !.op = r.op, !.stage = "due"]]
      PROVE  JwksInv'
  <2>1. PICK q : q = Probed(r.op)
    OBVIOUS
  <2>2. r.op \in {"none", "start", "rotate", "sign"}
    BY DEF Task
  <2>3. q \in Task /\ q.pc = "list" /\ ~q.rotating /\ q.exp = 0
    BY <2>1, <2>2, ProbedIs
  <2>4. task' = [task EXCEPT ![w] = q]
    BY <1>2, <2>1 DEF Probed
  <2>5. Calm(q)
    BY <1>0, <2>3 DEF Calm
  <2> QED BY <1>1, <1>2, <2>3, <2>4, <2>5
<1>3. ASSUME UNCHANGED <<made, until, passed, floor>>,
             task' = [task EXCEPT ![w] = [Resting EXCEPT !.pc = "snapshot", !.op = r.op, !.stage = "due",
                                         !.exp = r.exp]]
      PROVE  JwksInv'
  <2>1. PICK o \in {"none", "start", "rotate", "sign"} : o = r.op
    BY DEF Task
  <2>2. PICK q : q = Fresh("snapshot", o, "due", r.exp)
    OBVIOUS
  <2>3. q \in Task /\ q.pc = "snapshot" /\ ~q.rotating /\ q.exp = r.exp
    BY <1>0, <2>1, <2>2, FreshIs
  <2>4. task' = [task EXCEPT ![w] = q]
    BY <1>3, <2>1, <2>2 DEF Fresh
  <2>5. Calm(q)
    BY <2>3 DEF Calm
  <2> QED BY <1>1, <1>3, <2>3, <2>4, <2>5
<1>4. ASSUME NotDue(w, r), floor' = floor PROVE JwksInv'
  <2>1. UNCHANGED <<made, until, passed, floor>>
    BY <1>4, NotDueIs
  <2>2. PICK q \in Task : Calm(q) /\ task' = [task EXCEPT ![w] = q]
    BY <1>4, NotDueIs
  <2> QED BY <1>1, <2>1, <2>2
<1>5. ASSUME Sign(w, r, k) PROVE JwksInv'
  <2>1. PICK U : U = [until EXCEPT ![k] = IF r.exp > @ THEN r.exp ELSE @]
    OBVIOUS
  <2>2. PICK e \in Nat : e = r.exp
    BY <1>0
  <2>3. /\ U = Signed(k, e) /\ e <= clock + Ttl
        /\ (Uniform \/ Covers) /\ K[k].retired => e <= K[k].expires
    BY <2>1, <2>2 DEF Signed
  <2>4. StoreIs(K, U, made) /\ \A j \in Key \ {k} : U[j] = until[j]
    BY <2>2, <2>3, SignKeeps
  <2>5. /\ until' = U /\ passed' = (passed \/ k < r.low) /\ task' = [task EXCEPT ![w] = Resting]
        /\ made' = made /\ floor' = floor
    BY <1>5, <2>1 DEF Sign
  <2>6. Signs(U)
    <3>1. ASSUME Uniform, NEW j \in Key, keys[j] # NoKey, U[j] # until[j] PROVE \A i \in Key : keys[i] # NoKey => i <= j
      <4>1. j = k
        BY <2>4, <3>1
      <4> QED BY <3>1, <4>1
    <3> QED BY <3>1 DEF Signs
  <2>7. passed' \in BOOLEAN /\ (Uniform => ~passed')
    <3>1. r.low \in Key \cup {0}
      BY DEF Task
    <3>2. Uniform => ~(k < r.low)
      BY <3>1, KeyIs
    <3> QED BY <2>5, <3>2 DEF JwksInv, JwksTypeOK, KeySet
  <2>8. PICK q \in Task : q = Resting /\ Calm(q) /\ q.pc # "insert"
    BY RestingIs, RestingIsCalm
  <2>9. Relied(q)'
    BY <2>8, CalmRelies
  <2>10. made <= made
    BY <1>0, KeyIs
  <2>11. task' = [task EXCEPT ![w] = q]
    BY <2>5, <2>8
  <2> QED BY <1>0, <2>4, <2>5, <2>6, <2>7, <2>8, <2>9, <2>10, <2>11, StepKeeps
<1> QED BY <1>2, <1>3, <1>4, <1>5 DEF Ensured

(* A key is generated: its number is new.                                  *)
LEMMA GenerateKeeps ==
    ASSUME JwksInv, NEW w \in Process, NEW r \in Task, r.exp <= clock + Ttl,
           NEW K, StoreIs(K, until, made), Holds(w, K), \A j \in Key : K[j] # NoKey <=> keys[j] # NoKey,
           ~r.rotating /\ Uniform => r.low = 0, r.rotating => \A k \in r.todo : keys[k] # NoKey,
           conf' = conf, clock' = clock, keys' = K, Generate(w, r)
    PROVE  JwksInv'
<1>0. /\ floor \in Key \cup {0} /\ clock \in Nat /\ made \in Nat /\ r.todo \subseteq Key
      /\ (floor # 0 => keys[floor] # NoKey) /\ passed \in BOOLEAN /\ (Uniform => ~passed)
      /\ \A k \in Key : keys[k] # NoKey => k <= made
  BY KeyIs DEF JwksInv, JwksTypeOK, Task, KeySet, Numbered
<1>1. PICK n \in Key : n = made + 1
  BY DEF Generate
<1>2. PICK q : q = Inserting(r, n, clock)
  OBVIOUS
<1>3. /\ q \in Task /\ q.pc = "insert" /\ q.new = n /\ q.rotating = r.rotating /\ q.exp = r.exp
      /\ q.todo = r.todo /\ q.low = r.low
  BY <1>0, <1>2, InsertingIs
<1>4. made' = n /\ until' = until /\ passed' = passed /\ floor' = floor /\ task' = [task EXCEPT ![w] = q]
  BY <1>1, <1>2 DEF Generate, Inserting
<1>5. StoreIs(K, until, n)
  <2>1. ASSUME NEW k \in Key, K[k] # NoKey PROVE k <= n
    <3>1. k <= made /\ k \in Nat
      BY <1>0, <2>1, KeyIs
    <3> QED BY <1>0, <1>1, <3>1
  <2> QED BY <2>1 DEF StoreIs, Numbered
<1>6. Relied(q)'
  <2>1. K[n] = NoKey
    BY <1>0, <1>1
  <2>2. ASSUME q.rotating, NEW k \in q.todo PROVE K[k] # NoKey /\ k < n
    <3>1. k \in Key /\ keys[k] # NoKey
      BY <1>0, <1>3, <2>2
    <3>2. k <= made /\ k \in Nat
      BY <1>0, <3>1, KeyIs
    <3> QED BY <1>0, <1>1, <3>1, <3>2
  <2>3. n <= n
    BY KeyIs
  <2>4. Uniform' = Uniform
    BY DEF Uniform
  <2> QED BY <1>3, <1>4, <2>1, <2>2, <2>3, <2>4 DEF Relied
<1>7. Signs(until) /\ made <= n /\ n \in Key \cup {0}
  BY <1>0, <1>1 DEF Signs
<1> QED BY <1>0, <1>1, <1>3, <1>4, <1>5, <1>6, <1>7, StepKeeps
------------------------------------------------------------------------------
(* One lemma for each action.                                              *)
LEMMA KeysStay ==
    ASSUME JwksInv, NEW w \in Process
    PROVE  /\ StoreIs(keys, until, made) /\ Holds(w, keys) /\ clock \in Nat /\ made \in Key \cup {0}
           /\ floor \in Key \cup {0} /\ (floor # 0 => keys[floor] # NoKey) /\ task[w] \in Task
           /\ Relied(task[w]) /\ task[w].exp \in Nat /\ task[w].exp <= clock + Ttl
<1>1. task[w] \in Task /\ Relied(task[w])
  BY DEF JwksInv, JwksTypeOK
<1>2. Holds(w, keys)
  BY DEF Holds
<1> QED BY <1>1, <1>2, StoreNow DEF JwksInv, JwksTypeOK, KeySet, Task, Relied

LEMMA StartKeeps ==
    ASSUME JwksInv, NEW w \in Process, NEW o \in {"start", "rotate", "sign"}, NEW s \in {"probe", "due"}, Start(w, o, s)
    PROVE  JwksInv'
<1>1. PICK e : e = IF o = "sign" THEN clock + Ttl ELSE 0
  OBVIOUS
<1>2. PICK x : x = IF o = "rotate" THEN "snapshot" ELSE "list"
  OBVIOUS
<1>3. clock \in Nat /\ Ttl \in Nat
  BY KeysStay, ClockAssumption
<1>4. e \in Nat /\ e <= clock + Ttl /\ x \in {"list", "snapshot"}
  BY <1>1, <1>2, <1>3
<1>5. PICK q : q = Fresh(x, o, s, e)
  OBVIOUS
<1>6. q \in Task /\ q.pc = x /\ ~q.rotating /\ q.exp = e
  BY <1>4, <1>5, FreshIs
<1>7. task' = [task EXCEPT ![w] = q]
  BY <1>1, <1>2, <1>5 DEF Start, Fresh
<1>8. Calm(q)
  BY <1>4, <1>6 DEF Calm
<1>9. UNCHANGED <<conf, keys, made, clock, until, floor, passed>>
  BY DEF Start
<1> QED BY <1>6, <1>7, <1>8, <1>9, KeysStay, CalmKeeps

LEMMA CrashKeeps == ASSUME JwksInv, NEW w \in Process, Crash(w) PROVE JwksInv'
BY RestingIs, RestingIsCalm, KeysStay, CalmKeeps DEF Crash

(* With shared secrets a process reads what is active, and finds the newest *)
(* of all.                                                                  *)
LEMMA AllReadable ==
    ASSUME JwksInv, Uniform, NEW w \in Process
    PROVE  /\ Readable(w) = Active
           /\ \A j \in Key : keys[j] # NoKey => Active # {} /\ j <= Newest(Active)
<1>1. Led(keys)
  BY KeysStay DEF StoreIs
<1>2. Readable(w) = Active
  <2>1. ASSUME NEW k \in Active PROVE Opens(w, k)
    <3>1. k \in Key /\ keys[k] # NoKey
      BY <2>1 DEF Active, Stored
    <3>2. PICK v \in Process : keys[k].by = conf.seals[v]
      BY <1>1, <3>1 DEF Led
    <3> QED BY <3>2 DEF Opens, Uniform
  <2> QED BY <2>1 DEF Readable
<1>3. ASSUME NEW j \in Key, keys[j] # NoKey PROVE Active # {} /\ j <= Newest(Active)
  <2>1. PICK t \in Key : keys[t] # NoKey /\ ~keys[t].retired /\ \A i \in Key : keys[i] # NoKey => i <= t
    BY <1>1, <1>3 DEF Led
  <2>2. t \in Active /\ Active \subseteq Key
    BY <2>1 DEF Active, Stored
  <2>3. Newest(Active) \in Key /\ t <= Newest(Active)
    BY <2>2, NewestIs
  <2>4. j <= t
    BY <1>3, <2>1
  <2> QED BY <2>2, <2>3, <2>4, KeyIs
<1> QED BY <1>2, <1>3

LEMMA EnsureListKeeps == ASSUME JwksInv, NEW w \in Process, EnsureList(w) PROVE JwksInv'
<1>1. PICK p : p = IF Readable(w) = {} THEN 0 ELSE Newest(Readable(w))
  OBVIOUS
<1>2. PICK T : T = {k \in Active : k > p}
  OBVIOUS
<1>3. PICK l : l = IF task[w].stage = "last" THEN floor ELSE 0
  OBVIOUS
<1>4. PICK r : r = Listed(task[w], p, T, l)
  OBVIOUS
<1>5. /\ Doing(w, "list") /\ UNCHANGED <<conf, keys, clock>>
      /\ \/ /\ T # {}
            /\ task' = [task EXCEPT ![w] = [r EXCEPT !.pc = "retire", !.mark = clock]]
            /\ UNCHANGED <<made, until, passed, floor>>
         \/ T = {} /\ p = 0 /\ Generate(w, r)
         \/ T = {} /\ p # 0 /\ Ensured(w, r, p)
  BY <1>1, <1>2, <1>3, <1>4 DEF EnsureList, Listed
<1>6. Readable(w) \subseteq Active /\ Active \subseteq Key
  BY DEF Readable, Active, Stored
<1>7. p \in Key \cup {0} /\ (p # 0 => p \in Readable(w)) /\ (Readable(w) # {} => p # 0 /\ p = Newest(Readable(w)))
  BY <1>1, <1>6, NewestIs, KeyIs
<1>8. /\ r \in Task /\ r.pc = "list" /\ ~r.rotating /\ r.exp = task[w].exp /\ r.pick = p /\ r.todo = T
      /\ r.low = l /\ r.exp <= clock + Ttl /\ r.exp \in Nat
  <2>1. PICK a \in Task : a = task[w]
    BY KeysStay
  <2>2. T \in SUBSET Key /\ l \in Key \cup {0} /\ p \in Key \cup {0}
    BY <1>2, <1>3, <1>6, <1>7, KeysStay
  <2>3. r = Listed(a, p, T, l)
    BY <1>4, <2>1
  <2>4. /\ r \in Task /\ r.pc = a.pc /\ r.rotating = a.rotating /\ r.exp = a.exp /\ r.pick = p /\ r.todo = T
        /\ r.low = l
    BY <2>2, <2>3, ListedIs
  <2>5. a.pc = "list" /\ ~a.rotating /\ a.exp \in Nat /\ a.exp <= clock + Ttl
    BY <1>5, <2>1, KeysStay DEF Relied, Doing
  <2> QED BY <2>1, <2>4, <2>5
<1>9. Uniform => T = {} /\ (p = 0 => l = 0) /\ (p # 0 => l <= p /\ \A j \in Key : keys[j] # NoKey => j <= p)
  <2>1. ASSUME Uniform PROVE T = {} /\ (p = 0 => l = 0) /\ (p # 0 => l <= p /\ \A j \in Key : keys[j] # NoKey => j <= p)
    <3>1. Readable(w) = Active /\ \A j \in Key : keys[j] # NoKey => Active # {} /\ j <= Newest(Active)
      BY <2>1, AllReadable
    <3>2. \A j \in Key : keys[j] # NoKey => p # 0 /\ j <= p
      BY <1>7, <3>1
    <3>3. T = {}
      <4>1. ASSUME NEW k \in T PROVE FALSE
        <5>1. k \in Key /\ keys[k] # NoKey /\ k > p
          BY <1>2, <4>1 DEF Active, Stored
        <5> QED BY <1>7, <3>2, <5>1, KeyIs
      <4> QED BY <4>1
    <3>4. l # 0 => l \in Key /\ keys[l] # NoKey
      BY <1>3, KeysStay
    <3>5. p = 0 => l = 0
      BY <3>2, <3>4
    <3>6. p # 0 => l <= p
      BY <1>7, <3>2, <3>4, KeyIs
    <3> QED BY <3>2, <3>3, <3>5, <3>6
  <2> QED BY <2>1
<1>10. p # 0 => p \in Key /\ keys[p] # NoKey /\ ~keys[p].retired
  BY <1>7 DEF Readable, Active, Stored
<1>11. ASSUME T # {}, task' = [task EXCEPT ![w] = [r EXCEPT !.pc = "retire", !.mark = clock]],
              UNCHANGED <<made, until, passed, floor>>
       PROVE  JwksInv'
  <2>1. PICK q : q = Marked(r, clock)
    OBVIOUS
  <2>2. /\ q \in Task /\ q.pc = "retire" /\ q.mark = clock /\ ~q.rotating /\ q.exp = r.exp
        /\ q.todo = T /\ q.pick = p
    <3>1. clock \in Nat
      BY KeysStay
    <3> QED BY <1>8, <2>1, <3>1, MarkedIs
  <2>3. task' = [task EXCEPT ![w] = q]
    BY <1>11, <2>1 DEF Marked
  <2>4. Uniform' = Uniform /\ keys' = keys /\ clock' = clock
    BY <1>5 DEF Uniform
  <2>5. Relied(q)'
    <3>1. \A k \in T : keys[k] # NoKey
      BY <1>2 DEF Active, Stored
    <3>2. clock <= clock /\ clock <= clock + Delay
      BY KeysStay, ClockAssumption
    <3>3. ~Uniform
      BY <1>9, <1>11
    <3> QED BY <1>8, <1>10, <1>11, <2>2, <2>4, <3>1, <3>2, <3>3 DEF Relied
  <2>6. Signs(until) /\ passed' \in BOOLEAN /\ (Uniform => ~passed')
    BY <1>11 DEF Signs, JwksInv, JwksTypeOK, KeySet
  <2>7. made <= made /\ q.pc # "insert"
    BY <2>2, KeysStay, KeyIs
  <2> QED BY <1>5, <1>11, <2>2, <2>3, <2>5, <2>6, <2>7, KeysStay, StepKeeps
<1>12. ASSUME p = 0, Generate(w, r) PROVE JwksInv'
  BY <1>5, <1>8, <1>9, <1>12, KeysStay, GenerateKeeps
<1>13. ASSUME p # 0, Ensured(w, r, p) PROVE JwksInv'
  BY <1>5, <1>8, <1>9, <1>10, <1>13, KeysStay, EnsuredKeeps
<1> QED BY <1>5, <1>11, <1>12, <1>13

LEMMA RotateSnapshotKeeps == ASSUME JwksInv, NEW w \in Process, RotateSnapshot(w) PROVE JwksInv'
<1>1. PICK a \in Task : a = task[w]
  BY KeysStay
<1>2. PICK T : T = Active
  OBVIOUS
<1>3. T \in SUBSET Key /\ \A k \in T : keys[k] # NoKey
  BY <1>2 DEF Active, Stored
<1>4. PICK r : r = Replacing(a, T)
  OBVIOUS
<1>5. r \in Task /\ r.rotating /\ r.todo = T /\ r.exp = a.exp
  BY <1>3, <1>4, ReplacingIs
<1>6. Generate(w, r) /\ UNCHANGED <<conf, keys, clock>>
  BY <1>1, <1>2, <1>4 DEF RotateSnapshot, Replacing
<1>7. r.exp <= clock + Ttl
  BY <1>1, <1>5, KeysStay
<1> QED BY <1>3, <1>5, <1>6, <1>7, KeysStay, GenerateKeeps

LEMMA EnsureRetireKeeps == ASSUME JwksInv, NEW w \in Process, EnsureRetire(w) PROVE JwksInv'
<1>1. PICK a \in Task : a = task[w]
  BY KeysStay
<1>2. PICK k : k = Newest(a.todo)
  OBVIOUS
<1>3. PICK r : r = [a EXCEPT !.todo = @ \ {k}]
  OBVIOUS
<1>4. PICK K : K = RetiredAt(k, a.mark)
  OBVIOUS
<1>5. /\ a.pc = "retire" /\ ~a.rotating /\ keys' = K /\ UNCHANGED <<conf, clock>>
      /\ \/ /\ r.todo # {}
            /\ task' = [task EXCEPT ![w] = [r EXCEPT !.mark = clock]]
            /\ UNCHANGED <<made, until, passed, floor>>
         \/ r.todo = {} /\ r.pick = 0 /\ Generate(w, r)
         \/ r.todo = {} /\ r.pick # 0 /\ Ensured(w, r, r.pick)
  BY <1>1, <1>2, <1>3, <1>4 DEF EnsureRetire, Doing
<1>6. /\ a.todo # {} /\ a.todo \subseteq Key /\ a.mark \in Nat /\ a.mark <= clock /\ clock <= a.mark + Delay
      /\ (\A j \in a.todo : keys[j] # NoKey) /\ ~Uniform /\ a.exp \in Nat /\ a.exp <= clock + Ttl
      /\ a.pick \in Key \cup {0}
      /\ a.pick # 0 => keys[a.pick] # NoKey /\ (Covers /\ keys[a.pick].retired => a.exp <= keys[a.pick].expires)
  BY <1>1, <1>5, KeysStay DEF Relied, Task
<1>7. k \in a.todo
  BY <1>2, <1>6, NewestIs
<1>8. /\ StoreIs(K, until, made) /\ Holds(w, K) /\ (\A j \in Key : K[j] # NoKey <=> keys[j] # NoKey)
      /\ (\A j \in Key \ {k} : K[j] = keys[j]) /\ K[k].expires \in Nat /\ (Covers => clock + Ttl <= K[k].expires)
  BY <1>4, <1>6, <1>7, RetireKeeps
<1>9. /\ r \in Task /\ r.pc = "retire" /\ ~r.rotating /\ r.exp = a.exp /\ r.pick = a.pick
      /\ r.todo = a.todo \ {k}
  BY <1>3, <1>5 DEF Task
<1>10. r.pick # 0 => r.pick \in Key /\ K[r.pick] # NoKey /\ (Covers /\ K[r.pick].retired => r.exp <= K[r.pick].expires)
  <2>1. ASSUME r.pick # 0
        PROVE  r.pick \in Key /\ K[r.pick] # NoKey /\ (Covers /\ K[r.pick].retired => r.exp <= K[r.pick].expires)
    <3>1. PICK p \in Key : p = r.pick
      BY <1>6, <1>9, <2>1
    <3>2. keys[p] # NoKey /\ (Covers /\ keys[p].retired => r.exp <= keys[p].expires)
      BY <1>6, <1>9, <2>1, <3>1
    <3>3. CASE p = k
      <4>1. Covers => r.exp <= K[p].expires
        BY <1>6, <1>8, <1>9, <3>3, KeysStay, ClockAssumption
      <4> QED BY <1>8, <3>1, <3>2, <4>1
    <3>4. CASE p # k
      BY <1>8, <3>1, <3>2, <3>4
    <3> QED BY <3>3, <3>4
  <2> QED BY <2>1
<1>11. ASSUME r.todo # {}, task' = [task EXCEPT ![w] = [r EXCEPT !.mark = clock]], UNCHANGED <<made, until, passed, floor>>
       PROVE  JwksInv'
  <2>1. PICK q : q = [r EXCEPT !.mark = clock]
    OBVIOUS
  <2>2. /\ q \in Task /\ q.pc = "retire" /\ q.mark = clock /\ ~q.rotating /\ q.exp = r.exp
        /\ q.todo = r.todo /\ q.pick = r.pick
    <3>1. clock \in Nat
      BY KeysStay
    <3> QED BY <1>9, <2>1, <3>1 DEF Task
  <2>3. Uniform' = Uniform /\ Covers' = Covers /\ clock' = clock
    BY <1>5 DEF Uniform, Covers
  <2>4. Relied(q)'
    <3>1. \A j \in q.todo : K[j] # NoKey
      BY <1>6, <1>8, <1>9, <2>2
    <3>2. clock <= clock /\ clock <= clock + Delay
      BY KeysStay, ClockAssumption
    <3>3. q.pick # 0 => K[q.pick] # NoKey /\ (Covers /\ K[q.pick].retired => q.exp <= K[q.pick].expires)
      BY <1>10, <2>2
    <3> QED BY <1>5, <1>6, <1>9, <1>11, <2>2, <2>3, <3>1, <3>2, <3>3 DEF Relied
  <2>5. Signs(until) /\ passed' \in BOOLEAN /\ (Uniform => ~passed')
    BY <1>11 DEF Signs, JwksInv, JwksTypeOK, KeySet
  <2>6. made <= made /\ q.pc # "insert"
    BY <2>2, KeysStay, KeyIs
  <2>7. task' = [task EXCEPT ![w] = q]
    BY <1>11, <2>1
  <2>8. floor # 0 => K[floor] # NoKey
    BY <1>8, KeysStay
  <2> QED BY <1>5, <1>8, <1>11, <2>2, <2>4, <2>5, <2>6, <2>7, <2>8, KeysStay, StepKeeps
<1>12. ASSUME Generate(w, r) PROVE JwksInv'
  BY <1>5, <1>6, <1>8, <1>9, <1>12, KeysStay, GenerateKeeps
<1>13. ASSUME r.pick # 0, Ensured(w, r, r.pick) PROVE JwksInv'
  <2>1. floor # 0 => K[floor] # NoKey
    BY <1>8, KeysStay
  <2>2. PICK p \in Key : p = r.pick
    BY <1>10, <1>13
  <2>3. K[p] # NoKey /\ ((Uniform \/ Covers) /\ K[p].retired => r.exp <= K[p].expires)
    BY <1>6, <1>10, <1>13, <2>2
  <2>4. Ensured(w, r, p)
    BY <1>13, <2>2
  <2> QED BY <1>5, <1>6, <1>8, <1>9, <2>1, <2>3, <2>4, EnsuredKeeps
<1> QED BY <1>5, <1>11, <1>12, <1>13

LEMMA RotatedKeeps ==
    ASSUME JwksInv, NEW w \in Process, NEW r \in Task, r.exp <= clock + Ttl, NEW K, StoreIs(K, until, made),
           Holds(w, K), r.new \in Key, K[r.new] # NoKey, keys' = K, UNCHANGED <<conf, clock>>, Rotated(w, r)
    PROVE  JwksInv'
<1>1. NotDue(w, r)
  BY DEF Rotated
<1>2. UNCHANGED <<made, until, passed>>
  BY <1>1, NotDueIs
<1>3. PICK q \in Task : Calm(q) /\ task' = [task EXCEPT ![w] = q]
  BY <1>1, NotDueIs
<1>4. PICK f : f = IF r.new > floor THEN r.new ELSE floor
  OBVIOUS
<1>5. f \in Key \cup {0} /\ (f # 0 => K[f] # NoKey) /\ floor' = f
  <2>1. floor # 0 => K[floor] # NoKey
    BY KeysStay DEF Holds
  <2> QED BY <1>4, <2>1, KeysStay DEF Rotated
<1> QED BY <1>2, <1>3, <1>5, CalmKeeps

LEMMA CreateKeyKeeps == ASSUME JwksInv, NEW w \in Process, create_key(w) PROVE JwksInv'
<1>1. PICK a \in Task : a = task[w]
  BY KeysStay
<1>2. PICK r : r = [a EXCEPT !.mark = clock]
  OBVIOUS
<1>3. PICK x : x = [by |-> Seals(w), created |-> a.mark, retired |-> FALSE, expires |-> 0]
  OBVIOUS
<1>4. PICK K : K = [keys EXCEPT ![r.new] = x]
  OBVIOUS
<1>5. /\ Doing(w, "insert") /\ keys' = K /\ UNCHANGED <<conf, clock>>
      /\ \/ ~r.rotating /\ Ensured(w, r, r.new)
         \/ /\ r.rotating /\ r.todo # {}
            /\ task' = [task EXCEPT ![w] = [r EXCEPT !.pc = "retire"]]
            /\ UNCHANGED <<made, until, passed, floor>>
         \/ r.rotating /\ r.todo = {} /\ Rotated(w, r)
  BY <1>1, <1>2, <1>3, <1>4 DEF create_key
<1>6. /\ a.pc = "insert" /\ a.new \in Key /\ a.exp \in Nat /\ a.exp <= clock + Ttl /\ a.mark \in Nat /\ a.todo \subseteq Key
      /\ (~a.rotating /\ Uniform => a.low = 0)
      /\ (a.rotating => \A k \in a.todo : keys[k] # NoKey /\ k < a.new)
  BY <1>1, <1>5, KeysStay DEF Doing, Relied, Task
<1>7. /\ r \in Task /\ r.pc = "insert" /\ r.new = a.new /\ r.exp = a.exp /\ r.mark = clock /\ r.low = a.low
      /\ r.rotating = a.rotating /\ r.todo = a.todo
  <2>1. clock \in Nat
    BY KeysStay
  <2> QED BY <1>2, <1>6, <2>1 DEF Task
<1>8. x \in JwksKey /\ x.by = conf.seals[w] /\ ~x.retired
  <2>1. conf.seals[w] \in Secret
    BY StoreNow, ConfIs
  <2> QED BY <1>3, <1>6, <2>1 DEF JwksKey, Seals
<1>9. PICK n \in Key : n = r.new
  BY <1>6, <1>7
<1>10. /\ StoreIs(K, until, made) /\ Holds(w, K) /\ keys[n] = NoKey /\ K[n] # NoKey /\ ~K[n].retired
       /\ \A j \in Key \ {n} : K[j] = keys[j]
  <2>1. K = Added(n, x) /\ n = task[w].new
    BY <1>1, <1>4, <1>7, <1>9 DEF Added
  <2> QED BY <1>5, <1>8, <1>9, <2>1, InsertKeeps
<1>11. floor # 0 => K[floor] # NoKey
  BY <1>10, KeysStay
<1>12. ASSUME ~r.rotating, Ensured(w, r, n) PROVE JwksInv'
  <2>1. Uniform => r.low <= n
    BY <1>6, <1>7, <1>12, KeyIs
  <2> QED BY <1>5, <1>6, <1>7, <1>10, <1>11, <1>12, <2>1, EnsuredKeeps
<1>13. ASSUME r.rotating, r.todo # {}, task' = [task EXCEPT ![w] = [r EXCEPT !.pc = "retire"]],
              UNCHANGED <<made, until, passed, floor>>
       PROVE  JwksInv'
  <2>1. PICK q : q = [r EXCEPT !.pc = "retire"]
    OBVIOUS
  <2>2. /\ q \in Task /\ q.pc = "retire" /\ q.mark = clock /\ q.rotating /\ q.exp = r.exp
        /\ q.todo = r.todo /\ q.new = n
    BY <1>7, <1>9, <1>13, <2>1 DEF Task
  <2>3. Uniform' = Uniform /\ Covers' = Covers /\ clock' = clock /\ until' = until
    BY <1>5, <1>13 DEF Uniform, Covers
  <2>4. Relied(q)'
    <3>1. \A j \in q.todo : K[j] # NoKey /\ j < n
      BY <1>6, <1>7, <1>9, <1>10, <1>13, <2>2
    <3>2. clock <= clock /\ clock <= clock + Delay
      BY KeysStay, ClockAssumption
    <3>3. \A j \in q.todo : until[j] <= clock + Ttl
      BY <1>6, <1>7, <2>2, KeysStay DEF StoreIs, Numbered
    <3> QED BY <1>5, <1>6, <1>7, <1>10, <1>13, <2>2, <2>3, <3>1, <3>2, <3>3 DEF Relied
  <2>5. Signs(until) /\ passed' \in BOOLEAN /\ (Uniform => ~passed')
    BY <1>13 DEF Signs, JwksInv, JwksTypeOK, KeySet
  <2>6. made <= made /\ q.pc # "insert"
    BY <2>2, KeysStay, KeyIs
  <2>7. task' = [task EXCEPT ![w] = q]
    BY <1>13, <2>1
  <2> QED BY <1>5, <1>10, <1>11, <1>13, <2>2, <2>4, <2>5, <2>6, <2>7, KeysStay, StepKeeps
<1>14. ASSUME Rotated(w, r) PROVE JwksInv'
  BY <1>5, <1>6, <1>7, <1>9, <1>10, <1>14, RotatedKeeps
<1>15. ~r.rotating /\ Ensured(w, r, r.new) => Ensured(w, r, n)
  BY <1>9
<1> QED BY <1>5, <1>12, <1>13, <1>14, <1>15

LEMMA RotateRetireKeeps == ASSUME JwksInv, NEW w \in Process, RotateRetire(w) PROVE JwksInv'
<1>1. PICK a \in Task : a = task[w]
  BY KeysStay
<1>2. PICK k \in a.todo :
          LET r == [a EXCEPT !.todo = @ \ {k}]
          IN  /\ keys' = RetiredAt(k, r.mark)
              /\ \/ /\ r.todo # {} /\ task' = [task EXCEPT ![w] = r]
                    /\ UNCHANGED <<made, until, passed, floor>>
                 \/ r.todo = {} /\ Rotated(w, r)
  BY <1>1 DEF RotateRetire
<1>3. PICK r : r = [a EXCEPT !.todo = @ \ {k}]
  OBVIOUS
<1>4. /\ keys' = RetiredAt(k, r.mark)
      /\ \/ /\ r.todo # {} /\ task' = [task EXCEPT ![w] = r]
            /\ UNCHANGED <<made, until, passed, floor>>
         \/ r.todo = {} /\ Rotated(w, r)
  BY <1>2, <1>3
<1>5. a.pc = "retire" /\ a.rotating /\ UNCHANGED <<conf, clock>>
  BY <1>1 DEF RotateRetire, Doing
<1>6. /\ a.todo \subseteq Key /\ a.mark \in Nat /\ a.mark <= clock /\ clock <= a.mark + Delay
      /\ (\A j \in a.todo : keys[j] # NoKey /\ j < a.new) /\ a.exp \in Nat /\ a.exp <= clock + Ttl
      /\ a.new \in Key /\ keys[a.new] # NoKey
      /\ Uniform => \A j \in a.todo : until[j] <= a.mark + Ttl
  BY <1>1, <1>5, KeysStay DEF Relied, Task
<1>7. /\ r \in Task /\ r.pc = "retire" /\ r.rotating /\ r.exp = a.exp /\ r.new = a.new /\ r.mark = a.mark
      /\ r.todo = a.todo \ {k}
  BY <1>3, <1>5 DEF Task
<1>8. PICK K : K = RetiredAt(k, a.mark) /\ keys' = K
  BY <1>4, <1>7
<1>9. /\ StoreIs(K, until, made) /\ Holds(w, K) /\ (\A j \in Key : K[j] # NoKey <=> keys[j] # NoKey)
  BY <1>6, <1>8, RetireKeeps
<1>10. ASSUME r.todo # {}, task' = [task EXCEPT ![w] = r], UNCHANGED <<made, until, passed, floor>>
       PROVE  JwksInv'
  <2>1. Uniform' = Uniform /\ Covers' = Covers /\ clock' = clock /\ until' = until
    BY <1>5, <1>10 DEF Uniform, Covers
  <2>2. Relied(r)'
    <3>1. \A j \in r.todo : K[j] # NoKey /\ j < r.new
      BY <1>6, <1>7, <1>9
    <3>2. Uniform => \A j \in r.todo : until[j] <= r.mark + Ttl
      BY <1>6, <1>7
    <3>3. K[r.new] # NoKey /\ r.new \in Key
      BY <1>6, <1>7, <1>9
    <3> QED BY <1>6, <1>7, <1>8, <1>10, <2>1, <3>1, <3>2, <3>3 DEF Relied
  <2>3. Signs(until) /\ passed' \in BOOLEAN /\ (Uniform => ~passed')
    BY <1>10 DEF Signs, JwksInv, JwksTypeOK, KeySet
  <2>4. made <= made /\ r.pc # "insert"
    BY <1>7, KeysStay, KeyIs
  <2>5. floor # 0 => K[floor] # NoKey
    BY <1>9, KeysStay
  <2> QED BY <1>5, <1>7, <1>8, <1>9, <1>10, <2>2, <2>3, <2>4, <2>5, KeysStay, StepKeeps
<1>11. ASSUME Rotated(w, r) PROVE JwksInv'
  <2>1. r.new \in Key /\ K[r.new] # NoKey /\ r.exp <= clock + Ttl
    BY <1>6, <1>7, <1>9
  <2> QED BY <1>5, <1>7, <1>8, <1>9, <1>11, <2>1, RotatedKeeps
<1> QED BY <1>4, <1>10, <1>11

LEMMA TickKeeps == ASSUME JwksInv, Tick PROVE JwksInv'
<1>1. /\ clock \in Nat /\ clock' = clock + 1 /\ clock' \in Nat /\ Ttl \in Nat /\ Delay \in Nat
      /\ UNCHANGED <<conf, keys, made, until, floor, passed, task>>
  BY StoreNow, ClockAssumption DEF Tick
<1>2. Uniform' = Uniform /\ Covers' = Covers
  BY <1>1 DEF Uniform, Covers
<1>3. JwksTypeOK' /\ Distinct'
  BY <1>1 DEF JwksInv, JwksTypeOK, Distinct, Doing
<1>4. KeySet'
  <2>1. Numbered(keys, until, made)'
    <3>1. Numbered(keys, until, made) /\ until \in [Key -> Nat]
      BY StoreNow DEF StoreIs
    <3>2. \A k \in Key : until[k] <= clock' + Ttl
      <4>1. ASSUME NEW k \in Key PROVE until[k] <= clock' + Ttl
        <5>1. until[k] \in Nat /\ until[k] <= clock + Ttl
          BY <3>1 DEF Numbered
        <5> QED BY <1>1, <5>1
      <4> QED BY <4>1
    <3> QED BY <1>1, <3>1, <3>2 DEF Numbered
  <2>2. Kept(keys, until)' /\ Led(keys)'
    BY <1>1, <1>2 DEF JwksInv, KeySet, Kept, Led
  <2> QED BY <1>1, <1>2, <2>1, <2>2 DEF JwksInv, KeySet
<1>5. ASSUME NEW v \in Process PROVE Relied(task[v])'
  <2>1. PICK r \in Task : r = task[v] /\ r = task'[v]
    BY <1>1, StoreNow
  <2>2. Relied(r) /\ r.exp \in Nat /\ r.mark \in Nat
    BY <2>1 DEF JwksInv, Task
  <2>3. r.exp <= clock' + Ttl
    BY <1>1, <2>2 DEF Relied
  <2>4. r.pc = "retire" => r.mark <= clock' /\ clock' <= r.mark + Delay
    <3>1. r.pc = "retire" => clock < r.mark + Delay
      BY <2>1 DEF Tick, Doing
    <3> QED BY <1>1, <2>2, <3>1 DEF Relied
  <2>5. Relied(r)'
    BY <1>1, <1>2, <2>2, <2>3, <2>4 DEF Relied
  <2> QED BY <2>1, <2>5 DEF Relied
<1> QED BY <1>3, <1>4, <1>5 DEF JwksInv
------------------------------------------------------------------------------
LEMMA JwksInvInit == JwksInit => JwksInv
<1>1. SUFFICES ASSUME JwksInit PROVE JwksInv
  OBVIOUS
<1>2. /\ conf \in Confs /\ keys = [k \in Key |-> NoKey] /\ made = 0 /\ clock = 0 /\ floor = 0
      /\ until = [k \in Key |-> 0] /\ passed = FALSE /\ task = [w \in Process |-> Resting]
  BY <1>1 DEF JwksInit
<1>3. Ttl \in Nat
  BY ClockAssumption
<1>4. JwksTypeOK
  BY <1>2, RestingIs DEF JwksTypeOK
<1>5. KeySet
  BY <1>2, <1>3 DEF KeySet, Numbered, Kept, Led
<1>6. Distinct /\ \A w \in Process : Relied(task[w])
  BY <1>2, <1>3, RestingIs DEF Distinct, Doing, Relied
<1> QED BY <1>4, <1>5, <1>6 DEF JwksInv

LEMMA JwksInvNext == JwksInv /\ [JwksNext]_jwksVars => JwksInv'
<1>1. SUFFICES ASSUME JwksInv, [JwksNext]_jwksVars PROVE JwksInv'
  OBVIOUS
<1>2. ASSUME NEW w \in Process,
             lifespan_startup(w) \/ RotateStart(w) \/ issue_token_for(w) \/ renew(w) \/ rotate(w)
      PROVE  JwksInv'
  BY <1>1, <1>2, StartKeeps DEF lifespan_startup, RotateStart, issue_token_for, renew, rotate
<1>3. ASSUME NEW w \in Process,
             EnsureList(w) \/ EnsureRetire(w) \/ RotateSnapshot(w) \/ create_key(w) \/ RotateRetire(w) \/ Crash(w)
      PROVE  JwksInv'
  BY <1>1, <1>3, EnsureListKeeps, EnsureRetireKeeps, RotateSnapshotKeeps, CreateKeyKeeps, RotateRetireKeeps, CrashKeeps
<1>4. CASE UNCHANGED jwksVars
  BY <1>1, <1>4 DEF jwksVars, JwksInv, JwksTypeOK, KeySet, Numbered, Kept, Led, Uniform, Covers, Distinct, Doing, Relied
<1> QED BY <1>1, <1>2, <1>3, <1>4, TickKeeps DEF JwksNext

(* Type correctness of the key set and the requests that use it            *)
(* (plugins/jwt.py), for any number of processes, keys and secrets.        *)
THEOREM JwksTypeCorrect == JwksSpec => []JwksTypeOK
<1>1. JwksInv => JwksTypeOK
  BY DEF JwksInv
<1> QED BY <1>1, JwksInvInit, JwksInvNext, PTL DEF JwksSpec

(* However many processes rotate, retire and sign at once, and wherever    *)
(* they die: tokens live out their time, a finished rotation takes effect  *)
(* and there is always a key to sign with (JWKSManager.ensure_key,         *)
(* rotate_now).                                                            *)
THEOREM RotationIsSeamlessAlways == JwksSpec => []RotationIsSeamless
<1>1. ASSUME JwksInv PROVE RotationIsSeamless
  <2>1. /\ until \in [Key -> Nat] /\ keys \in [Key -> JwksKey \cup {NoKey}] /\ clock \in Nat
        /\ Numbered(keys, until, made) /\ Kept(keys, until) /\ Led(keys)
    BY <1>1, StoreNow DEF StoreIs
  <2>2. LiveTokenAccepted
    <3>1. ASSUME Uniform \/ Covers, NEW k \in Key, until[k] > clock PROVE Accepts(k, until[k])
      <4>1. until[k] # 0 /\ until[k] \in Nat
        BY <2>1, <3>1
      <4>2. keys[k] # NoKey
        BY <2>1, <4>1 DEF Numbered
      <4>3. keys[k].retired => until[k] <= keys[k].expires /\ keys[k].expires \in Nat
        BY <2>1, <3>1, <4>2 DEF Kept, JwksKey
      <4> QED BY <2>1, <3>1, <4>1, <4>2, <4>3 DEF Accepts, Published, Stored
    <3> QED BY <3>1 DEF LiveTokenAccepted, Covers
  <2>3. RotationTakesEffect
    BY <1>1 DEF JwksInv, KeySet, RotationTakesEffect
  <2>4. AlwaysAKey
    <3>1. ASSUME Uniform, NEW j \in Key, keys[j] # NoKey PROVE Active # {}
      <4>1. PICK t \in Key : keys[t] # NoKey /\ ~keys[t].retired
        BY <2>1, <3>1 DEF Led
      <4> QED BY <4>1 DEF Active, Stored
    <3> QED BY <3>1 DEF AlwaysAKey, Stored
  <2> QED BY <2>2, <2>3, <2>4 DEF RotationIsSeamless
<1>2. JwksInv => RotationIsSeamless
  BY <1>1
<1> QED BY <1>2, JwksInvInit, JwksInvNext, PTL DEF JwksSpec
=============================================================================
