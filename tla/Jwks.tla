-------------------------------- MODULE Jwks --------------------------------
(***************************************************************************)
(* The signing keys of stateless sessions, shared by worker processes.     *)
(* Every sign refreshes the shared key set: it retires active keys that it *)
(* cannot decrypt, rotates when the newest key is old, and signs with the  *)
(* newest key left.  A retired key stays in the JWKS document for the      *)
(* grace period.  Every store call is a step, requests interleave and may  *)
(* die.                                                                    *)
(*                                                                         *)
(* Keys are numbered in the order of (created_at, kid): the workers'       *)
(* clocks agree.  An expiry is compared with the clock of the same tick.   *)
(* Left out: other algorithms, claims other than exp, the user's row.      *)
(***************************************************************************)
EXTENDS Naturals, FiniteSets

CONSTANTS
    Process,        \* requests in flight, each in a process with its secrets
    Secret,         \* values of secret_key
    Confs,          \* the configurations to look at, see Conf
    MaxKeys,        \* bound on the generated keys
    Ttl,            \* expires_in, in ticks
    Delay,          \* a retirement reaches the store within so many ticks
    MaxClock,       \* bound on the clock
    NoKey

Key == 1 .. MaxKeys

(* seals: the secret_key of each request's process; opens: that and its    *)
(* secret_key_rotation.  interval: rotation_interval, 0 where it is not    *)
(* set.  ops: what runs, "crash" where requests may die.                   *)
Conf == [seals : [Process -> Secret], opens : [Process -> SUBSET Secret],
         grace : Nat, interval : Nat, ops : SUBSET {"start", "rotate", "sign", "crash"}]

ASSUME ClockAssumption == Ttl \in Nat \ {0} /\ Delay \in Nat /\ MaxClock \in Nat
ASSUME BoundAssumption == MaxKeys \in Nat
ASSUME ConfAssumption ==
    \A c \in Confs : c \in Conf /\ c.grace >= Ttl /\ \A w \in Process : c.seals[w] \in c.opens[w]

VARIABLES
    conf,       \* the configuration of this behaviour
    keys,       \* the stored keys
    made,       \* keys generated so far, stored or not
    clock,
    until,      \* history: key -> the latest expiry of a token signed with it, or 0
    floor,      \* history: the key of the newest finished rotation
    passed,     \* history: a token was signed with an older key after it finished
    task        \* the requests in flight

jwksVars == <<conf, keys, made, clock, until, floor, passed, task>>

JwksKey == [by : Secret, created : Nat, retired : BOOLEAN, expires : Nat]
ASSUME NoKeyAssumption == NoKey \notin JwksKey

Task ==
    [pc : {"idle", "list", "retire", "insert", "snapshot"},
     op : {"none", "start", "rotate", "sign"},
     stage : {"probe", "due", "last"},      \* which call of ensure_key
     rotating : BOOLEAN,                    \* inside rotate_now
     todo : SUBSET Key,                     \* keys still to retire
     mark : Nat,                            \* the sampled now
     new : Key \cup {0},                    \* the key being inserted
     pick : Key \cup {0},                   \* the candidate found, 0 for none
     exp : Nat,                             \* the token's expiry
     low : Key \cup {0}]                    \* history: floor when the sign began

Resting == [pc |-> "idle", op |-> "none", stage |-> "probe", rotating |-> FALSE, todo |-> {},
            mark |-> 0, new |-> 0, pick |-> 0, exp |-> 0, low |-> 0]

JwksTypeOK ==
    /\ conf \in Confs
    /\ keys \in [Key -> JwksKey \cup {NoKey}]
    /\ made \in Key \cup {0} /\ clock \in Nat
    /\ until \in [Key -> Nat]
    /\ floor \in Key \cup {0} /\ passed \in BOOLEAN
    /\ task \in [Process -> Task]

JwksInit ==
    /\ conf \in Confs
    /\ keys = [k \in Key |-> NoKey]
    /\ made = 0 /\ clock = 0 /\ floor = 0
    /\ until = [k \in Key |-> 0] /\ passed = FALSE
    /\ task = [w \in Process |-> Resting]
------------------------------------------------------------------------------
Doing(w, p) == task[w].pc = p

Seals(w) == conf.seals[w]
Opens(w, k) == keys[k].by \in conf.opens[w]

Stored == {k \in Key : keys[k] # NoKey}
Active == {k \in Stored : ~keys[k].retired}
Newest_Oldest(S) == CHOOSE k \in S : \A j \in S : k <= j

Newest(S) == CHOOSE k \in S : \A j \in S : j <= k
Readable(w) == {k \in Active : Opens(w, k)}

(* What as_jwks_json lists now.                                            *)
Published(k) == k \in Stored /\ (keys[k].retired => keys[k].expires > clock)

(* read: the published key verifies the signature, and exp is ahead.       *)
Accepts(k, exp) == Published(k) /\ exp > clock

Start(w, op, stage) ==
    /\ op \in conf.ops /\ Doing(w, "idle")
    /\ task' = [task EXCEPT ![w] = [Resting EXCEPT
                   !.pc = IF op = "rotate" THEN "snapshot" ELSE "list", !.op = op,
                   !.stage = stage, !.exp = IF op = "sign" THEN clock + Ttl ELSE 0]]
    /\ UNCHANGED <<conf, keys, made, clock, until, floor, passed>>

lifespan_startup(w) == Start(w, "start", "probe")
RotateStart(w) == Start(w, "rotate", "due")
issue_token_for(w) == Start(w, "sign", "due")
renew(w) == Start(w, "sign", "due")
rotate(w) == \E k \in Key : Accepts(k, until[k]) /\ renew(w)

(* create_key: the key is generated (and dated) now and inserted by the    *)
(* next step.                                                              *)
Generate(w, r) ==
    /\ made + 1 \in Key
    /\ made' = made + 1
    /\ task' = [task EXCEPT ![w] = [r EXCEPT !.pc = "insert", !.new = made + 1, !.mark = clock]]
    /\ UNCHANGED <<until, passed, floor>>

Sign(w, r, k) ==
    /\ until' = [until EXCEPT ![k] = IF r.exp > @ THEN r.exp ELSE @]
    /\ passed' = (passed \/ k < r.low)
    /\ task' = [task EXCEPT ![w] = Resting]
    /\ UNCHANGED <<made, floor>>

(* What follows rotate_if_due: the startup is over, a sign refreshes the   *)
(* key set once more.                                                      *)
NotDue(w, r) ==
    /\ task' = [task EXCEPT ![w] = IF r.op = "sign" THEN [Resting EXCEPT !.pc = "list", !.op = "sign",
                                        !.stage = "last", !.exp = r.exp] ELSE Resting]
    /\ UNCHANGED <<made, until, passed>>

Due(k) == conf.interval # 0 /\ clock >= keys'[k].created + conf.interval

(* ensure_key returned k to its caller.                                    *)
Ensured(w, r, k) ==
    \/ /\ r.stage = "probe"
       /\ task' = [task EXCEPT ![w] = [Resting EXCEPT !.pc = "list", !.op = r.op, !.stage = "due"]]
       /\ UNCHANGED <<made, until, passed, floor>>
    \/ /\ r.stage = "due" /\ Due(k)
       /\ task' = [task EXCEPT ![w] = [Resting EXCEPT !.pc = "snapshot", !.op = r.op, !.stage = "due",
                                         !.exp = r.exp]]
       /\ UNCHANGED <<made, until, passed, floor>>
    \/ /\ r.stage = "due" /\ ~Due(k)
       /\ NotDue(w, r) /\ floor' = floor
    \/ r.stage = "last" /\ Sign(w, r, k)

(* ensure_key reads the keys.  It will retire the active ones newer than   *)
(* the newest that it can decrypt.                                         *)
EnsureList(w) ==
    LET pick == IF Readable(w) = {} THEN 0 ELSE Newest(Readable(w))
        todo == {k \in Active : k > pick}
        r == [task[w] EXCEPT !.pick = pick, !.todo = todo,
                                 !.low = IF task[w].stage = "last" THEN floor ELSE 0]
    IN  /\ Doing(w, "list")
        /\ UNCHANGED <<conf, keys, clock>>
        /\ \/ /\ todo # {}
              /\ task' = [task EXCEPT ![w] = [r EXCEPT !.pc = "retire", !.mark = clock]]
              /\ UNCHANGED <<made, until, passed, floor>>
           \/ todo = {} /\ pick = 0 /\ Generate(w, r)
           \/ todo = {} /\ pick # 0 /\ Ensured(w, r, pick)

RetiredAt_Undated(k, now) == [keys EXCEPT ![k].retired = TRUE, ![k].expires = NoKey]

(* update_jwks_key writes the whole row of the candidate.                  *)
RetiredAt(k, now) == [keys EXCEPT ![k].retired = TRUE, ![k].expires = now + conf.grace]

EnsureRetire(w) ==
    LET k == Newest(task[w].todo)
        r == [task[w] EXCEPT !.todo = @ \ {k}]
    IN  /\ Doing(w, "retire") /\ ~task[w].rotating
        /\ keys' = RetiredAt(k, task[w].mark)
        /\ \/ /\ r.todo # {}
              /\ task' = [task EXCEPT ![w] = [r EXCEPT !.mark = clock]]
              /\ UNCHANGED <<made, until, passed, floor>>
           \/ r.todo = {} /\ r.pick = 0 /\ Generate(w, r)
           \/ r.todo = {} /\ r.pick # 0 /\ Ensured(w, r, r.pick)
        /\ UNCHANGED <<conf, clock>>

(* rotate_now reads the keys, and publishes the replacement before it      *)
(* retires those it read.                                                  *)
RotateSnapshot(w) ==
    /\ Doing(w, "snapshot")
    /\ Generate(w, [task[w] EXCEPT !.rotating = TRUE, !.todo = Active])
    /\ UNCHANGED <<conf, keys, clock>>

Rotated(w, r) ==
    /\ floor' = IF r.new > floor THEN r.new ELSE floor
    /\ NotDue(w, r)

create_key(w) ==
    LET r == [task[w] EXCEPT !.mark = clock]
    IN  /\ Doing(w, "insert")
        /\ keys' = [keys EXCEPT ![r.new] = [by |-> Seals(w), created |-> task[w].mark,
                                            retired |-> FALSE, expires |-> 0]]
        /\ \/ ~r.rotating /\ Ensured(w, r, r.new)
           \/ /\ r.rotating /\ r.todo # {}
              /\ task' = [task EXCEPT ![w] = [r EXCEPT !.pc = "retire"]]
              /\ UNCHANGED <<made, until, passed, floor>>
           \/ r.rotating /\ r.todo = {} /\ Rotated(w, r)
        /\ UNCHANGED <<conf, clock>>

(* The previous keys are retired in the order the store listed them.       *)
RotateRetire(w) ==
    /\ Doing(w, "retire") /\ task[w].rotating
    /\ \E k \in task[w].todo :
           LET r == [task[w] EXCEPT !.todo = @ \ {k}]
           IN  /\ keys' = RetiredAt(k, r.mark)
               /\ \/ /\ r.todo # {} /\ task' = [task EXCEPT ![w] = r]
                     /\ UNCHANGED <<made, until, passed, floor>>
                  \/ r.todo = {} /\ Rotated(w, r)
    /\ UNCHANGED <<conf, clock>>

(* The request is cancelled or its process dies.                           *)
Crash(w) ==
    /\ "crash" \in conf.ops /\ ~Doing(w, "idle")
    /\ task' = [task EXCEPT ![w] = Resting]
    /\ UNCHANGED <<conf, keys, made, clock, until, floor, passed>>

Tick ==
    /\ clock < MaxClock
    /\ \A w \in Process : Doing(w, "retire") => clock < task[w].mark + Delay
    /\ clock' = clock + 1
    /\ UNCHANGED <<conf, keys, made, until, floor, passed, task>>

JwksNext ==
    \/ \E w \in Process :
           \/ lifespan_startup(w) \/ RotateStart(w) \/ issue_token_for(w) \/ renew(w) \/ rotate(w)
           \/ EnsureList(w) \/ EnsureRetire(w)
           \/ RotateSnapshot(w) \/ create_key(w) \/ RotateRetire(w)
           \/ Crash(w)
    \/ Tick

JwksSpec == JwksInit /\ [][JwksNext]_jwksVars
------------------------------------------------------------------------------
(* Every process can decrypt what every process encrypts.                  *)
Uniform == \A v, w \in Process : conf.seals[v] \in conf.opens[w]

(* A token that has not expired is accepted by every process, whatever     *)
(* rotated or was retired since: by overlapping rotations, or by a process *)
(* with another secret, as long as the grace period also covers the time a *)
(* retirement takes to reach the store ("grace_period must cover           *)
(* expires_in so rotation preserves live tokens").                         *)
LiveTokenAccepted ==
    Uniform \/ conf.grace >= Ttl + Delay
        => \A k \in Key : until[k] > clock => Accepts(k, until[k])

(* Once a rotation has finished, no sign that refreshes the key set uses   *)
(* an older key, although a request can have read the set before.          *)
RotationTakesEffect == Uniform => ~passed

(* Where all processes share their secrets, a key is active at every       *)
(* moment after the first was stored: a rotation never leaves the set      *)
(* without a key that signs.                                               *)
AlwaysAKey == Uniform /\ Stored # {} => Active # {}

(* All three: neither a token nor a signer notices a rotation but by the   *)
(* new key.                                                                *)
RotationIsSeamless == LiveTokenAccepted /\ RotationTakesEffect /\ AlwaysAKey

(* The grace period of a key that cannot be decrypted covers the tokens it *)
(* signed, with any grace period the options accept ("stays in             *)
(* as_jwks_json during the grace period so any in-flight tokens it signed  *)
(* can still verify").  It fails: see the README.                          *)
InFlightTokensVerify == \A k \in Key : until[k] > clock => Accepts(k, until[k])
==============================================================================
