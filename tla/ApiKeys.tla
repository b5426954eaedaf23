------------------------------- MODULE ApiKeys -------------------------------
(***************************************************************************)
(* One API key, from its creation to its deletion: verification with       *)
(* expiry, rate limit, quota and refill; update and deletion by the owner; *)
(* deletion of expired keys; suspension and deletion of the owner.         *)
(*                                                                         *)
(* A verification reads the row, then the owner, counts the call in a      *)
(* counter of its own, and writes the whole row it read back with the      *)
(* quota reduced; an update also writes back the whole row it read.  Every *)
(* store call is a step and requests interleave.  Time is in ticks.        *)
(***************************************************************************)
EXTENDS Integers, FiniteSets

CONSTANTS
    Caller,         \* requests in flight
    Confs,          \* the stores and keys to look at, see Conf
    MaxClock,       \* bound on the clock
    MaxCalls,       \* bound on the verifications and updates begun
    Absent

(* What is fixed when the key is created: remaining at first (Absent where   *)
(* there is no quota), refill_amount and refill_interval_ms (0: no         *)
(* refill), expires_in (0: never), rate_limit_max and its window (0: no    *)
(* limit).                                                                 *)
Plan == [quota : Nat \cup {Absent}, refill : Nat, every : Nat, expires : Nat, limit : Nat, window : Nat]
Conf == [store : {"memory", "postgres", "mongo"}, plan : Plan, ops : SUBSET {"owner", "admin"}]

ASSUME KeyAssumption ==
    /\ IsFiniteSet(Caller) /\ MaxClock \in Nat /\ MaxCalls \in Nat
    /\ Absent \notin Nat
    /\ \A c \in Confs : /\ c \in Conf
                        /\ c.plan.quota # 0 /\ (c.plan.limit = 0 \/ c.plan.window # 0)

VARIABLES
    conf,       \* the store, the plan and the administration of this behaviour
    row,        \* the stored key, or Absent
    born,       \* it was inserted
    owner,      \* "active", "suspended" or "gone"
    leaving,    \* MongoDB has deleted the owner's keys, and the owner not yet
    counter,    \* the row of the rate limiter, or Absent
    clock,
    calls,      \* verifications and updates begun
    flight,     \* the requests in flight
    \* history: why the key must be refused now; reasons against which it was
    \* accepted; whether a row was overwritten unread; valid answers since the
    \* last refill, and in each window of the counter
    bars, breached, lost, served, taken

keyVars == <<conf, row, born, owner, leaving, counter, clock, calls, flight, bars, breached, lost, served, taken>>
history == <<bars, breached, lost, served, taken>>

plan == conf.plan
Row == [enabled : BOOLEAN, scope : BOOLEAN,     \* scope: the permission asked for
        remaining : Nat \cup {Absent}, refilled : Nat, made : Nat]
Counter == [count : Nat, start : Nat]
ASSUME AbsentAssumption == Absent \notin Row /\ Absent \notin Counter
Reasons == {"deleted", "suspended", "gone", "disabled", "narrowed"}
Patches == [field : {"enabled", "scope"}, value : BOOLEAN]

Flight ==
    [pc : {"idle", "insert", "owner", "count", "over", "spend", "u_owner", "u_write"},
     copy : Row \cup {Absent},        \* the row it read
     asks : BOOLEAN,                \* the permission is asked for
     mark : Nat,                    \* the sampled now
     patch : Patches \cup {Absent},
     stale : BOOLEAN,               \* history: the row was written since
     since : SUBSET Reasons,        \* history: reasons in force since it began
     window : Nat]                  \* history: the window it was counted in

Vacant == [pc |-> "idle", copy |-> Absent, asks |-> FALSE, mark |-> 0, patch |-> Absent,
         stale |-> FALSE, since |-> {}, window |-> 0]

KeyTypeOK ==
    /\ conf \in Confs
    /\ row \in Row \cup {Absent} /\ born \in BOOLEAN /\ (row # Absent => born)
    /\ owner \in {"active", "suspended", "gone"} /\ leaving \in BOOLEAN
    /\ counter \in Counter \cup {Absent}
    /\ clock \in Nat /\ calls \in Nat
    /\ flight \in [Caller -> Flight]
    /\ bars \subseteq Reasons /\ breached \subseteq Reasons /\ lost \in BOOLEAN
    /\ served \in Nat /\ taken \in [0 .. MaxClock -> Nat]

KeyInit ==
    /\ conf \in Confs
    /\ row = Absent /\ born = FALSE /\ owner = "active" /\ leaving = FALSE /\ counter = Absent
    /\ clock = 0 /\ calls = 0
    /\ flight = [w \in Caller |-> Vacant]
    /\ bars = {} /\ breached = {} /\ lost = FALSE /\ served = 0
    /\ taken = [s \in 0 .. MaxClock |-> 0]
------------------------------------------------------------------------------
Awaits(w, p) == flight[w].pc = p
Proceed(w, r) == flight' = [flight EXCEPT ![w] = r]
Begin == calls < MaxCalls /\ calls' = calls + 1

(* authorize: a user row that is not suspended.                            *)
Authorized == owner = "active"

(* create_for_user: the key is made, its owner looked up, the row inserted *)
(* by the next step.  PostgreSQL refuses a row without a user.             *)
CreateStart(w) ==
    /\ ~born /\ Authorized
    /\ \A v \in Caller : Awaits(v, "idle")
    /\ Proceed(w, [Vacant EXCEPT !.pc = "insert", !.mark = clock])
    /\ UNCHANGED <<conf, row, born, owner, leaving, counter, clock, calls, history>>

Refused == conf.store = "postgres" /\ owner = "gone"

create_api_key(w) ==
    /\ Awaits(w, "insert")
    /\ IF Refused THEN UNCHANGED <<row, born>>
       ELSE /\ born' = TRUE
            /\ row' = [enabled |-> TRUE, scope |-> TRUE, remaining |-> plan.quota,
                       refilled |-> flight[w].mark, made |-> flight[w].mark]
    /\ Proceed(w, Vacant)
    /\ UNCHANGED <<conf, owner, leaving, counter, clock, calls, history>>

(* A write of the whole row by w: it fails where the row is gone.  Copies  *)
(* that others hold are out of date from now on.                           *)
Rewrite_Upsert(w, new) == row' = new

Rewrite(w, new) == row' = IF row = Absent THEN Absent ELSE new

AfterRewrite(w) ==
    flight' = [v \in Caller |-> IF v = w THEN Vacant
                             ELSE [flight[v] EXCEPT !.stale = (@ \/ flight[v].copy # Absent)]]
Loses(w) == lost' = (lost \/ (row # Absent /\ flight[w].stale))

(* verify_key: the row by its hash; an unknown or disabled key is refused. *)
Lookup(w, asks) ==
    /\ Awaits(w, "idle") /\ born /\ Begin
    /\ Proceed(w, IF row # Absent /\ row.enabled
               THEN [Vacant EXCEPT !.pc = "owner", !.copy = row, !.asks = asks, !.since = bars]
               ELSE Vacant)
    /\ UNCHANGED <<conf, row, born, owner, leaving, counter, clock, history>>

Expired(r) == plan.expires # 0 /\ r.copy.made + plan.expires < clock

CheckOwner(w) ==
    /\ Awaits(w, "owner")
    /\ Proceed(w, IF ~Authorized \/ Expired(flight[w]) THEN Vacant
               ELSE [flight[w] EXCEPT !.mark = clock,
                                   !.pc = IF plan.limit = 0 THEN "spend" ELSE "count"])
    /\ UNCHANGED <<conf, row, born, owner, leaving, counter, clock, calls, history>>

(* increment of the key's counter: one update in every store.              *)
InWindow(c) == c # Absent /\ c.start + plan.window > clock
Bumped(c) == IF InWindow(c) THEN [c EXCEPT !.count = @ + 1] ELSE [count |-> 1, start |-> clock]

OverLimit_ByOne(c) == c.count > plan.limit + 1

OverLimit(c) == c.count > plan.limit

Count(w) ==
    /\ Awaits(w, "count")
    /\ counter' = Bumped(counter)
    /\ Proceed(w, [flight[w] EXCEPT !.window = counter'.start,
                              !.pc = IF OverLimit(counter') THEN "over" ELSE "spend"])
    /\ UNCHANGED <<conf, row, born, owner, leaving, clock, calls, history>>

(* Over the limit: only the statistics of the copy change.                 *)
RefuseOver(w) ==
    /\ Awaits(w, "over")
    /\ Rewrite(w, flight[w].copy) /\ AfterRewrite(w) /\ Loses(w)
    /\ UNCHANGED <<conf, born, owner, leaving, counter, clock, calls, bars, breached, served, taken>>

RefillDue(r) == plan.refill # 0 /\ r.mark - r.copy.refilled >= plan.every
Refilled(r) ==
    IF RefillDue(r) THEN [r.copy EXCEPT !.remaining = plan.refill, !.refilled = r.mark] ELSE r.copy

(* The refill stays local where the permission is missing.                 *)
RefuseScope(w) ==
    /\ Awaits(w, "spend") /\ flight[w].asks /\ ~flight[w].copy.scope
    /\ Proceed(w, Vacant)
    /\ UNCHANGED <<conf, row, born, owner, leaving, counter, clock, calls, history>>

Exhausted_Never(c) == FALSE

Exhausted(c) == c.remaining # Absent /\ c.remaining <= 0
Spent(c) == IF c.remaining = Absent THEN c ELSE [c EXCEPT !.remaining = @ - 1]

(* The last write; the answer is valid if the row was still there.         *)
Spend(w) ==
    LET r == flight[w]
        c == Refilled(r)
    IN  /\ Awaits(w, "spend") /\ (r.asks => r.copy.scope)
        /\ Rewrite(w, IF Exhausted(c) THEN c ELSE Spent(c)) /\ AfterRewrite(w) /\ Loses(w)
        /\ IF Exhausted(c) \/ row' = Absent THEN UNCHANGED <<breached, served, taken>>
           ELSE /\ breached' = breached \cup (r.since \ IF r.asks THEN {} ELSE {"narrowed"})
                /\ served' = IF RefillDue(r) THEN 1 ELSE served + 1
                /\ taken' = IF plan.limit = 0 THEN taken ELSE [taken EXCEPT ![r.window] = @ + 1]
        /\ UNCHANGED <<conf, born, owner, leaving, counter, clock, calls, bars>>

(* update_for_user: the row, the owner, the whole row written back.        *)
UpdateRead(w, patch) ==
    /\ "owner" \in conf.ops /\ Awaits(w, "idle") /\ row # Absent /\ Begin
    /\ Proceed(w, [Vacant EXCEPT !.pc = "u_owner", !.copy = row, !.patch = patch])
    /\ UNCHANGED <<conf, row, born, owner, leaving, counter, clock, history>>

UpdateOwner(w) ==
    /\ Awaits(w, "u_owner")
    /\ Proceed(w, IF Authorized THEN [flight[w] EXCEPT !.pc = "u_write"] ELSE Vacant)
    /\ UNCHANGED <<conf, row, born, owner, leaving, counter, clock, calls, history>>

Patched(r) ==
    IF r.patch.field = "enabled" THEN [r.copy EXCEPT !.enabled = r.patch.value]
    ELSE [r.copy EXCEPT !.scope = r.patch.value]

(* The reason comes into force, or ends for everyone.                      *)
Bar(reason) == bars' = bars \cup {reason}
Lift(reason, S) == [v \in Caller |-> [S[v] EXCEPT !.since = @ \ {reason}]]

UpdateWrite(w) ==
    LET r == flight[w]
        reason == IF r.patch.field = "enabled" THEN "disabled" ELSE "narrowed"
        others == [v \in Caller |-> IF v = w THEN Vacant
                                    ELSE [flight[v] EXCEPT !.stale = (@ \/ flight[v].copy # Absent)]]
    IN  /\ Awaits(w, "u_write")
        /\ Rewrite(w, Patched(r)) /\ Loses(w)
        /\ \/ row = Absent /\ bars' = bars /\ flight' = others
           \/ row # Absent /\ ~r.patch.value /\ Bar(reason) /\ flight' = others
           \/ row # Absent /\ r.patch.value /\ bars' = bars \ {reason} /\ flight' = Lift(reason, others)
        /\ UNCHANGED <<conf, born, owner, leaving, counter, clock, calls, breached, served, taken>>

delete_for_user ==
    /\ "owner" \in conf.ops /\ row # Absent
    /\ row' = Absent /\ Bar("deleted")
    /\ UNCHANGED <<conf, born, owner, leaving, counter, clock, calls, flight, breached, lost, served, taken>>

delete_expired_api_keys ==
    /\ row # Absent /\ plan.expires # 0 /\ row.made + plan.expires <= clock
    /\ row' = Absent /\ Bar("deleted")
    /\ UNCHANGED <<conf, born, owner, leaving, counter, clock, calls, flight, breached, lost, served, taken>>

Suspend ==
    /\ "admin" \in conf.ops /\ owner = "active"
    /\ owner' = "suspended" /\ Bar("suspended")
    /\ UNCHANGED <<conf, row, born, leaving, counter, clock, calls, flight, breached, lost, served, taken>>

Activate ==
    /\ owner = "suspended"
    /\ owner' = "active" /\ bars' = bars \ {"suspended"} /\ flight' = Lift("suspended", flight)
    /\ UNCHANGED <<conf, row, born, leaving, counter, clock, calls, breached, lost, served, taken>>

(* delete_user takes the keys along: at once in memory and in PostgreSQL,  *)
(* before the user in MongoDB.                                             *)
delete_user ==
    /\ "admin" \in conf.ops
    /\ owner # "gone"
    /\ \/ /\ conf.store # "mongo"
          /\ owner' = "gone" /\ row' = Absent /\ leaving' = leaving /\ Bar("gone")
       \/ /\ conf.store = "mongo" /\ ~leaving
          /\ row' = Absent /\ leaving' = TRUE /\ UNCHANGED <<owner, bars>>
       \/ /\ leaving
          /\ owner' = "gone" /\ leaving' = FALSE /\ row' = row /\ Bar("gone")
    /\ UNCHANGED <<conf, born, counter, clock, calls, flight, breached, lost, served, taken>>

Tick ==
    /\ clock < MaxClock
    /\ clock' = clock + 1
    /\ UNCHANGED <<conf, row, born, owner, leaving, counter, calls, flight, history>>

KeyNext ==
    \/ \E w \in Caller :
           \/ CreateStart(w) \/ create_api_key(w)
           \/ (\E asks \in BOOLEAN : Lookup(w, asks))
           \/ CheckOwner(w) \/ Count(w) \/ RefuseOver(w) \/ RefuseScope(w) \/ Spend(w)
           \/ (\E patch \in Patches : UpdateRead(w, patch)) \/ UpdateOwner(w) \/ UpdateWrite(w)
    \/ delete_for_user \/ delete_expired_api_keys
    \/ Suspend \/ Activate \/ delete_user
    \/ Tick

KeySpec == KeyInit /\ [][KeyNext]_keyVars
------------------------------------------------------------------------------
(* A verification that begins after the key was deleted, or its owner      *)
(* suspended or deleted, is never answered valid, whatever overlaps it: no *)
(* write brings the key back.  Nor after the key was disabled or lost the  *)
(* permission, unless a whole-row write overwrote a change it had not      *)
(* read.                                                                   *)
NoAnswerAfterRevocation ==
    breached \subseteq IF lost THEN {"disabled", "narrowed"} ELSE {}

(* Between two refills no more calls are answered valid than the quota (or *)
(* the refill) allows, unless a write overwrote a change it had not read.  *)
QuotaHolds ==
    ~lost /\ plan.quota # Absent
        => served <= IF plan.refill > plan.quota THEN plan.refill ELSE plan.quota

(* Of the calls counted in one window at most rate_limit_max are answered  *)
(* valid, also where row writes are lost: the counter is a row of its own. *)
ValidPerWindow == plan.limit # 0 => \A s \in 0 .. MaxClock : taken[s] <= plan.limit

(* Both bounds on the uses of a key.                                       *)
UsesAreBounded == QuotaHolds /\ ValidPerWindow

(* Disabling a key, or taking a permission from it, is final for every     *)
(* verification that begins afterwards.  It fails: see the README.         *)
DisabledIsRefused == breached = {}
==============================================================================
