-------------------------------- MODULE Identity -------------------------------
(***************************************************************************)
(* User rows and the flows that write them: sign-up, profile update,       *)
(* verification of the address by link or code, sign-in by code (which     *)
(* verifies, or registers), change of address by link or code, suspension  *)
(* and deletion.  A flow reads a row, waits for one or more store calls    *)
(* and the consumption of a challenge, and then writes the WHOLE row back  *)
(* but for its active flag, without comparing it to what it read.          *)
(*                                                                         *)
(* A challenge is identified by its purpose and its address; the latest    *)
(* one is the only one that can be consumed, and whoever reads the mailbox *)
(* can do so (modules Challenge and Lockout have the rest).  The stores    *)
(* are those with a unique index on the address (PostgreSQL, MongoDB).     *)
(* Left out: accounts and sessions, user names, a failing call.            *)
(***************************************************************************)
EXTENDS Naturals, FiniteSets

CONSTANTS
    Worker,     \* requests in flight
    User,       \* user ids; bounds how many ever sign up
    Address,    \* e-mail addresses
    Mixes,      \* the mixes of flows that run together
    MaxAsked,   \* bound on the changes of address asked for
    Anyone,     \* asked for a challenge without being known
    None

AllFlows == {"sign_up", "profile", "verify_link", "verify_otp", "otp_sign_in",
             "change_link", "change_otp", "status", "delete"}

ASSUME IdentityAssumption ==
    /\ None \notin User \cup Address \cup {Anyone}
    /\ MaxAsked \in Nat /\ Mixes \subseteq SUBSET AllFlows

(* VerificationPurpose: EMAIL_VERIFICATION, EMAIL_OTP_VERIFICATION,        *)
(* EMAIL_OTP_SIGN_IN, EMAIL_CHANGE and EMAIL_OTP_EMAIL_CHANGE.             *)
Purpose == {"verify_link", "verify_otp", "otp_sign_in", "change_link", "change_otp"}

VARIABLES
    mix,        \* the mix of flows of this behaviour
    user,       \* user id -> its row, or None
    challenge,  \* purpose, address -> who asked for the open challenge, or None
    req,        \* the requests in flight
    changes,    \* how many changes of address were asked for
    \* history: addresses whose challenge was consumed, the addresses each
    \* user signed up with or asked for, the users that ever existed
    proven, wanted, born

vars == <<mix, user, challenge, req, changes, proven, wanted, born>>

Row == [email : Address, pending : Address \cup {None}, verified : BOOLEAN, active : BOOLEAN]

ASSUME NoneAssumption == None \notin Row

Request == [pc : {"idle", "check", "store", "send", "consume", "find", "recheck", "write",
                  "register"},
            flow : AllFlows \cup {None},
            id : User \cup {None},          \* the user the request acts on
            copy : Row \cup {None},         \* its row as the request last read or wrote it
            to : Address \cup {None},       \* the address in the request
            asked : User \cup {Anyone, None}] \* history: who asked for the consumed challenge

Idle == [pc |-> "idle", flow |-> None, id |-> None, copy |-> None, to |-> None, asked |-> None]

TypeOK ==
    /\ mix \in Mixes
    /\ user \in [User -> Row \cup {None}]
    /\ challenge \in [Purpose \X Address -> User \cup {Anyone, None}]
    /\ req \in [Worker -> Request]
    /\ proven \subseteq Address
    /\ wanted \in [User -> SUBSET Address]
    /\ born \subseteq User
    /\ changes \in 0 .. MaxAsked

(* Nobody is registered where users sign up; elsewhere everybody is.       *)
NewRow(a) == [email |-> a, pending |-> None, verified |-> FALSE, active |-> TRUE]
Registered(home) == [u \in User |-> NewRow(home[u])]
Homes == {f \in [User -> Address] : \A u, v \in User : f[u] = f[v] => u = v}

Init ==
    /\ mix \in Mixes
    /\ \/ /\ "sign_up" \in mix
          /\ user = [u \in User |-> None]
          /\ wanted = [u \in User |-> {}]
          /\ born = {}
       \/ /\ "sign_up" \notin mix
          /\ \E home \in Homes :
                /\ user = Registered(home)
                /\ wanted = [u \in User |-> {home[u]}]
          /\ born = User
    /\ challenge = [k \in Purpose \X Address |-> None]
    /\ req = [w \in Worker |-> Idle]
    /\ proven = {}
    /\ changes = 0
------------------------------------------------------------------------------
At(w, p) == req[w].pc = p
Starts(w, flow) == At(w, "idle") /\ flow \in mix
Becomes(w, r) == req' = [req EXCEPT ![w] = r]

Others == UNCHANGED <<mix, user, challenge, proven, wanted, born>>
Reading == Others /\ changes' = changes

Has(u, a) == user[u] # None /\ user[u].email = a
Taken(u, a) == \E v \in User \ {u} : Has(v, a)

(* The unique index of the address.                                        *)
create_user(u, row) ==
    /\ u \notin born
    /\ born' = born \cup {u}
    /\ user' = [user EXCEPT ![u] = row]
    /\ wanted' = [wanted EXCEPT ![u] = {row.email}]

Register(w, u, a) ==
    /\ Starts(w, "sign_up")
    /\ ~Taken(u, a)
    /\ create_user(u, NewRow(a))
    /\ UNCHANGED <<mix, changes, challenge, req, proven>>
------------------------------------------------------------------------------
(* send_verification_email, send_otp: the user is looked up, then the      *)
(* challenge is stored for the address.                                    *)
SendStart(w, flow, u, a) ==
    /\ flow \in {"verify_link", "verify_otp"}
    /\ Starts(w, flow)
    /\ Has(u, a)
    /\ flow = "verify_link" => ~user[u].verified
    /\ Becomes(w, [Idle EXCEPT !.pc = "send", !.flow = flow, !.id = u, !.to = a])
    /\ Reading

SendSignIn(w, a) ==
    /\ Starts(w, "otp_sign_in")
    /\ Becomes(w, [Idle EXCEPT !.pc = "send", !.flow = "otp_sign_in", !.to = a])
    /\ Reading

Send(w) ==
    LET r == req[w]
    IN  /\ At(w, "send")
        /\ challenge' = [challenge EXCEPT ![<<r.flow, r.to>>] =
                            IF r.id = None THEN Anyone ELSE r.id]
        /\ Becomes(w, Idle)
        /\ UNCHANGED <<mix, changes, user, proven, wanted, born>>
------------------------------------------------------------------------------
(* request_email_change and request_email_change_otp: the caller's row was *)
(* read when it was authenticated.                                         *)
RequestStart(w, flow, u, a) ==
    /\ flow \in {"change_link", "change_otp"}
    /\ Starts(w, flow)
    /\ user[u] # None
    /\ user[u].active
    /\ user[u].email # a
    /\ changes < MaxAsked
    /\ changes' = changes + 1
    /\ Becomes(w, [Idle EXCEPT !.pc = "check", !.flow = flow, !.id = u, !.to = a,
                               !.copy = user[u]])
    /\ Others

RequestCheck(w) ==
    LET r == req[w]
    IN  /\ At(w, "check")
        /\ Becomes(w, IF Taken(r.id, r.to) THEN Idle
                      ELSE [r EXCEPT !.pc = "store", !.copy.pending = r.to])
        /\ Reading

(* update_user: the row must exist and its address be free; everything but *)
(* the active flag is replaced.                                            *)
Updated(r) == [user EXCEPT ![r.id] = [r.copy EXCEPT !.active = user[r.id].active]]

Storable(r) == user[r.id] # None /\ ~Taken(r.id, r.copy.email)

RequestStore(w) ==
    LET r == req[w]
    IN  /\ At(w, "store")
        /\ IF Storable(r)
           THEN /\ user' = Updated(r)
                /\ wanted' = [wanted EXCEPT ![r.id] = @ \cup {r.to}]
                /\ Becomes(w, [r EXCEPT !.pc = "send", !.copy = None])
           ELSE /\ Becomes(w, Idle)
                /\ UNCHANGED <<user, wanted>>
        /\ UNCHANGED <<mix, changes, challenge, proven, born>>
------------------------------------------------------------------------------
(* The flows that consume a challenge.  verify_email and                   *)
(* confirm_email_change look for the user afterwards; the flows with a     *)
(* code have read it before: by the address, or as the caller, whose       *)
(* pending address must be the one presented.                              *)
PresentLink(w, flow, a) ==
    /\ flow \in {"verify_link", "change_link"}
    /\ Starts(w, flow)
    /\ Becomes(w, [Idle EXCEPT !.pc = "consume", !.flow = flow, !.to = a])
    /\ Reading

PresentCode(w, flow, u, a) ==
    /\ flow \in {"verify_otp", "otp_sign_in"}
    /\ Starts(w, flow)
    /\ Has(u, a)
    /\ Becomes(w, [Idle EXCEPT !.pc = "consume", !.flow = flow, !.to = a, !.id = u,
                               !.copy = user[u]])
    /\ Reading

PresentNewcomer(w, a) ==
    /\ Starts(w, "otp_sign_in")
    /\ \A u \in User : ~Has(u, a)
    /\ Becomes(w, [Idle EXCEPT !.pc = "consume", !.flow = "otp_sign_in", !.to = a])
    /\ Reading

Expected(row, a) == row.pending = a

PresentChange(w, u, a) ==
    /\ Starts(w, "change_otp")
    /\ user[u] # None
    /\ user[u].active
    /\ Expected(user[u], a)
    /\ Becomes(w, [Idle EXCEPT !.pc = "consume", !.flow = "change_otp", !.to = a, !.id = u,
                               !.copy = user[u]])
    /\ Reading

Moved(row, a) == [row EXCEPT !.email = a, !.pending = None, !.verified = TRUE]

(* What a flow does once its challenge is consumed.                        *)
Afterwards(r) ==
    CASE r.flow \in {"verify_link", "change_link"} -> [r EXCEPT !.pc = "find"]
      [] r.flow = "change_otp" -> [r EXCEPT !.pc = "write", !.copy = Moved(@, r.to)]
      [] r.flow = "otp_sign_in" /\ r.id = None -> [r EXCEPT !.pc = "register"]
      [] OTHER -> IF r.copy.verified THEN Idle
                  ELSE [r EXCEPT !.pc = "write", !.copy.verified = TRUE]

Open_ForAnyone(flow, a) == \E b \in Address : challenge[<<flow, b>>] # None
Open(flow, a) == challenge[<<flow, a>>] # None

Consume(w) ==
    LET r == req[w]
        k == <<r.flow, r.to>>
    IN  /\ At(w, "consume")
        /\ IF Open(r.flow, r.to)
           THEN /\ proven' = IF challenge[k] # None THEN proven \cup {r.to} ELSE proven
                /\ challenge' = [challenge EXCEPT ![k] = None]
                /\ Becomes(w, Afterwards([r EXCEPT !.asked = challenge[k]]))
           ELSE /\ Becomes(w, Idle)
                /\ UNCHANGED <<proven, challenge>>
        /\ UNCHANGED <<mix, changes, user, wanted, born>>

(* get_user_by_email, or any user whose pending address is the one; where  *)
(* two users want it PostgreSQL's one_or_none raises, and the link is      *)
(* spent for nothing.                                                      *)
Candidates(r) ==
    IF r.flow = "verify_link" THEN {u \in User : Has(u, r.to)}
    ELSE {u \in User : user[u] # None /\ user[u].pending = r.to}

Find(w) ==
    LET r == req[w]
    IN  /\ At(w, "find")
        /\ \/ /\ Candidates(r) = {} \/ \E u, v \in Candidates(r) : u # v
              /\ Becomes(w, Idle)
           \/ \E u \in Candidates(r) :
                 Becomes(w, IF r.flow = "verify_link"
                            THEN [r EXCEPT !.pc = "write", !.id = u,
                                           !.copy = [user[u] EXCEPT !.verified = TRUE]]
                            ELSE [r EXCEPT !.pc = "recheck", !.id = u, !.copy = user[u]])
        /\ Reading

(* The address may have been taken since; then only the wish is dropped.   *)
Recheck(w) ==
    LET r == req[w]
    IN  /\ At(w, "recheck")
        /\ Becomes(w, [r EXCEPT !.pc = "write",
                                !.copy = IF Taken(r.id, r.to) THEN [@ EXCEPT !.pending = None]
                                         ELSE Moved(@, r.to)])
        /\ Reading

ProfileStart(w, u) ==
    /\ Starts(w, "profile")
    /\ user[u] # None
    /\ user[u].active
    /\ Becomes(w, [Idle EXCEPT !.pc = "write", !.flow = "profile", !.id = u, !.copy = user[u]])
    /\ Reading

Write(w) ==
    LET r == req[w]
    IN  /\ At(w, "write")
        /\ user' = IF Storable(r) THEN Updated(r) ELSE user
        /\ Becomes(w, Idle)
        /\ UNCHANGED <<mix, changes, challenge, proven, wanted, born>>

(* A code that signs in an unknown address registers it as verified.       *)
RegisterVerified(w, u) ==
    LET r == req[w]
    IN  /\ At(w, "register")
        /\ IF Taken(u, r.to)
           THEN UNCHANGED <<user, wanted, born>>
           ELSE create_user(u, [NewRow(r.to) EXCEPT !.verified = TRUE])
        /\ Becomes(w, Idle)
        /\ UNCHANGED <<mix, changes, challenge, proven>>
------------------------------------------------------------------------------
set_user_active(u) ==
    /\ "status" \in mix
    /\ user[u] # None
    /\ user' = [user EXCEPT ![u].active = ~@]
    /\ UNCHANGED <<mix, changes, challenge, req, proven, wanted, born>>

(* The row goes, and the challenges of the two addresses it holds.         *)
delete_user_Blanked(u) ==
    /\ "delete" \in mix
    /\ user[u] # None
    /\ user' = [user EXCEPT ![u].email = None, ![u].active = FALSE]
    /\ UNCHANGED <<mix, changes, challenge, req, proven, wanted, born>>

delete_user(u) ==
    /\ "delete" \in mix
    /\ user[u] # None
    /\ user' = [user EXCEPT ![u] = None]
    /\ challenge' = [k \in Purpose \X Address |->
                        IF k[2] \in {user[u].email, user[u].pending} THEN None ELSE challenge[k]]
    /\ UNCHANGED <<mix, changes, req, proven, wanted, born>>

Next ==
    \/ \E w \in Worker, u \in User, a \in Address :
          \/ Register(w, u, a)
          \/ \E flow \in AllFlows :
                SendStart(w, flow, u, a) \/ RequestStart(w, flow, u, a) \/ PresentCode(w, flow, u, a)
          \/ PresentChange(w, u, a)
    \/ \E w \in Worker, a \in Address :
          SendSignIn(w, a) \/ PresentNewcomer(w, a) \/ \E flow \in AllFlows : PresentLink(w, flow, a)
    \/ \E w \in Worker, u \in User : ProfileStart(w, u) \/ RegisterVerified(w, u)
    \/ \E w \in Worker :
          \/ Send(w) \/ RequestCheck(w) \/ RequestStore(w)
          \/ Consume(w) \/ Find(w) \/ Recheck(w) \/ Write(w)
    \/ \E u \in User : set_user_active(u) \/ delete_user(u)

Spec == Init /\ [][Next]_vars
------------------------------------------------------------------------------
(* Whatever rows are written back in whatever order, a row that says       *)
(* "verified" carries an address whose own challenge was consumed.         *)
VerifiedIsProven ==
    \A u \in User : user[u] # None /\ user[u].verified => user[u].email \in proven

(* No confirmation moves a user to an address it did not sign up with or   *)
(* ask for, also when another user asks for the same address.              *)
AddressIsWanted ==
    \A u \in User : user[u] # None => user[u].email \in wanted[u]

(* Two users never have one address, although each flow looks whether it   *)
(* is free calls before it writes.                                         *)
AddressIsUnique == \A u \in User : user[u] # None => ~Taken(u, user[u].email)

(* A suspension is not undone, nor a reactivation, by a row that was read  *)
(* before it and written back after it.                                    *)
OnlyStatusChangesActive ==
    [][\A u \in User :
          user[u] # None /\ user'[u] # None /\ user'[u].active # user[u].active
             => req' = req]_vars

(* A row that was read before its user was deleted, and is written back    *)
(* after it, does not bring the user back.                                 *)
DeletedStaysDeleted == [][\A u \in born : user[u] = None => user'[u] = None]_vars

(* All of them: rows are read, other requests and the administrator change *)
(* them, and they are written back whole; but no such write shows an       *)
(* address as verified that was not proven, gives a user one it did not    *)
(* want or another has, undoes a suspension, or revives a deleted user.    *)
LateWritesAreHarmless ==
    /\ [](VerifiedIsProven /\ AddressIsWanted /\ AddressIsUnique)
    /\ OnlyStatusChangesActive /\ DeletedStaysDeleted

(* change_email.py: "The user has proved possession of the new address".   *)
(* The user that a link moves is the one that had asked for it.            *)
MovedUserAsked ==
    \A w \in Worker :
        At(w, "write") /\ req[w].flow = "change_link" /\ req[w].copy.email = req[w].to
            => req[w].id = req[w].asked
==============================================================================
