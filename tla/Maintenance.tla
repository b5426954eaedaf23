---------------------------- MODULE Maintenance ----------------------------
(***************************************************************************)
(* Bounded cleanup of expired rows: MaintenanceManager, the bounded        *)
(* deletions of the three stores, and the endpoint that sweeps API keys.   *)
(* A run takes its cutoff when it starts and then drains one resource      *)
(* after the other, in batches; meanwhile rows are issued and used up, the *)
(* store fails, and the process dies.                                      *)
(*                                                                         *)
(* MongoDB selects the rows of a batch and deletes them by id in a second  *)
(* command.  The other two choose and delete in one; a challenge that is   *)
(* issued again gets a new id there, so that a PostgreSQL deletion which   *)
(* waited for that row does not find it.                                   *)
(***************************************************************************)
EXTENDS Naturals, Sequences, FiniteSets

CONSTANTS
    Run,            \* runs of the manager (cron, CLI) and of the endpoint
    Endpoint,       \* those of them that serve the endpoint
    Row,            \* slots for rows; a challenge's slot is its identifier and purpose
    KindOf,         \* slot -> the resource it belongs to
    Deployments,    \* the deployments to look at
    Life,           \* how long a row lives, in ticks
    MaxClock,       \* bound on the clock
    MaxFaults       \* bound on failing calls and dying processes

Resource == {"refresh_tokens", "sessions", "verifications", "api_keys", "audit_logs"}

(* retention 0 is an audit_log_retention of None; rows and runs are those  *)
(* that occur.                                                             *)
Deployment == [store : {"memory", "postgres", "mongo"}, batch : Nat \ {0}, batches : Nat \ {0},
         retention : Nat, continue : BOOLEAN, rows : SUBSET Row, runs : SUBSET Run]

(* What is assumed of them.                                                *)
Settings ==
    /\ IsFiniteSet(Row) /\ KindOf \in [Row -> Resource]
    /\ Endpoint \subseteq Run /\ Deployments \subseteq Deployment
    /\ Life \in Nat \ {0} /\ MaxClock \in Nat \ {0} /\ MaxFaults \in Nat

ASSUME SettingsAssumption == Settings

VARIABLES
    deployment,
    clock,
    stamp,          \* slot -> expires_at (created_at of an audit log); 0: no such row
    sweep,          \* the runs
    faults,
    lost            \* history: rows a run deleted though they were not due

maintenanceVars == <<deployment, clock, stamp, sweep, faults, lost>>

OnMongo == deployment.store = "mongo"
Never == MaxClock + Life + 1    \* an API key without expires_at

(* The operations of a run, in order.                                      *)
Operations(w) ==
    IF w \in Endpoint THEN <<"api_keys">>
    ELSE <<"refresh_tokens", "sessions", "verifications", "api_keys">>
         \o (IF deployment.retention = 0 THEN <<>> ELSE <<"audit_logs">>)

Slots(k) == {x \in Row : KindOf[x] = k}
Count == [Resource -> 0 .. Cardinality(Row)]
Nothing == [k \in Resource |-> 0]

Progress == [pc : {"idle", "batch", "delete", "done", "raised"},
             cutoff : 0 .. MaxClock,
             at : Nat \ {0},            \* the operation, an index of Operations
             batches : Nat, total : Nat,
             picked : SUBSET Row,       \* MongoDB: the ids selected for this batch
             deleted : Count,           \* what the result will say
             failures : SUBSET Resource,
             removed : Count]           \* history: the rows this run removed

Idle == [pc |-> "idle", cutoff |-> 0, at |-> 1, batches |-> 0, total |-> 0, picked |-> {},
         deleted |-> Nothing, failures |-> {}, removed |-> Nothing]

(* The cutoff of a run is a time that has come, and a run removes, and may *)
(* report, no more rows of a resource than there are slots for, whatever   *)
(* is issued in them meanwhile: no row twice.                              *)
MaintenanceTypeOK ==
    /\ deployment \in Deployments
    /\ clock \in 1 .. MaxClock
    /\ stamp \in [Row -> 0 .. Never]
    /\ sweep \in [Run -> Progress]
    /\ \A w \in Run :
          /\ sweep[w].cutoff <= clock
          /\ \A k \in Resource :
                /\ sweep[w].deleted[k] <= sweep[w].removed[k]
                /\ sweep[w].removed[k] <= Cardinality(Slots(k))
    /\ faults \in 0 .. MaxFaults
    /\ lost \subseteq Row

MaintenanceInit ==
    /\ deployment \in Deployments
    /\ clock = 1
    /\ stamp = [x \in Row |-> 0]
    /\ sweep = [w \in Run |-> Idle]
    /\ faults = 0 /\ lost = {}
------------------------------------------------------------------------------
(* Without its retention the audit log would be treated like the rest.     *)
Retention == deployment.retention

Due(x, cutoff) ==
    /\ stamp[x] # 0
    /\ IF KindOf[x] = "audit_logs" THEN stamp[x] + Retention < cutoff ELSE stamp[x] <= cutoff

SweepAt(w, pc) == sweep[w].pc = pc
Op(w) == Operations(w)[sweep[w].at]

DueRows(w) == {x \in Row : KindOf[x] = Op(w) /\ Due(x, sweep[w].cutoff)}

(* sort by the date, limit: the batches a deletion may choose.             *)
Batches(w) ==
    LET S == DueRows(w)
        n == IF Cardinality(S) < deployment.batch THEN Cardinality(S) ELSE deployment.batch
    IN  {T \in SUBSET S : Cardinality(T) = n /\ \A x \in T, y \in S \ T : stamp[x] <= stamp[y]}

MaxBatches(w) == IF w \in Endpoint THEN 1 ELSE deployment.batches

(* The next operation, or the result.                                      *)
Advance(w, p) ==
    IF p.at = Len(Operations(w)) THEN [p EXCEPT !.pc = "done"]
    ELSE [p EXCEPT !.pc = "batch", !.at = p.at + 1, !.batches = 0, !.total = 0]

NextOperation_Returns(w, p) == [p EXCEPT !.pc = "done"]

NextOperation(w, p) == Advance(w, p)

Batched(w, T, count) ==
    [sweep[w] EXCEPT !.batches = @ + 1, !.total = @ + count, !.picked = {},
                     !.removed = [sweep[w].removed EXCEPT ![Op(w)] = @ + Cardinality(T)]]

Reporting(w, p) == [p EXCEPT !.deleted = [@ EXCEPT ![Op(w)] = p.total]]

(* drain, after a batch that removed the rows T and returned count.        *)
Drained(w, T, count) ==
    LET p == Batched(w, T, count)
    IN  IF count < deployment.batch \/ p.batches = MaxBatches(w)
        THEN NextOperation(w, Reporting(w, p))
        ELSE [p EXCEPT !.pc = "batch"]

Remove(T) == stamp' = [x \in Row |-> IF x \in T THEN 0 ELSE stamp[x]]

(* The cutoff of all operations is the time at which the run starts.       *)
Start(w) ==
    /\ SweepAt(w, "idle") \/ SweepAt(w, "done") \/ SweepAt(w, "raised")
    /\ sweep' = [sweep EXCEPT ![w] = [Idle EXCEPT !.pc = "batch", !.cutoff = clock]]
    /\ UNCHANGED <<deployment, clock, stamp, faults, lost>>

(* memory, under its lock; PostgreSQL, in one statement                    *)
DeleteBatch(w) ==
    /\ SweepAt(w, "batch") /\ ~OnMongo
    /\ \E T \in Batches(w) :
        /\ Remove(T)
        /\ lost' = lost \cup {x \in T : ~Due(x, sweep[w].cutoff)}
        /\ sweep' = [sweep EXCEPT ![w] = Drained(w, T, Cardinality(T))]
    /\ UNCHANGED <<deployment, clock, faults>>

(* BeanieAdapter.delete_bounded: the rows, and then the deletion by id.    *)
SelectBatch(w) ==
    /\ SweepAt(w, "batch") /\ OnMongo
    /\ \E T \in Batches(w) :
        sweep' = [sweep EXCEPT ![w] = IF T = {} THEN Drained(w, {}, 0)
                                  ELSE [sweep[w] EXCEPT !.pc = "delete", !.picked = T]]
    /\ UNCHANGED <<deployment, clock, stamp, faults, lost>>

DeletedCount_LastIndex(w, T) == Cardinality(T) - 1

DeletedCount_Selected(w, T) == Cardinality(sweep[w].picked)

DeletedCount(w, T) == Cardinality(T)

DeletePicked(w) ==
    LET T == {x \in sweep[w].picked : stamp[x] # 0}
    IN  /\ SweepAt(w, "delete")
        /\ Remove(T)
        /\ lost' = lost \cup {x \in T : ~Due(x, sweep[w].cutoff)}
        /\ sweep' = [sweep EXCEPT ![w] = Drained(w, T, DeletedCount(w, T))]
        /\ UNCHANGED <<deployment, clock, faults>>

(* A call fails: the run skips to the next operation or raises.  What the  *)
(* earlier batches of this operation removed is not reported.              *)
Fail(w) ==
    /\ SweepAt(w, "batch") \/ SweepAt(w, "delete")
    /\ faults < MaxFaults /\ faults' = faults + 1
    /\ sweep' = [sweep EXCEPT ![w] =
                    IF deployment.continue /\ w \notin Endpoint
                    THEN Advance(w, [sweep[w] EXCEPT !.failures = @ \cup {Op(w)}, !.picked = {}])
                    ELSE [sweep[w] EXCEPT !.pc = "raised", !.picked = {}]]
    /\ UNCHANGED <<deployment, clock, stamp, lost>>

Die(w) ==
    /\ SweepAt(w, "batch") \/ SweepAt(w, "delete")
    /\ faults < MaxFaults /\ faults' = faults + 1
    /\ sweep' = [sweep EXCEPT ![w] = Idle]
    /\ UNCHANGED <<deployment, clock, stamp, lost>>

(* Meanwhile the service creates rows.  A challenge may also replace one,  *)
(* which keeps its id in MongoDB.                                          *)
Insert(x) ==
    /\ stamp[x] = 0 \/ KindOf[x] = "verifications"
    /\ \E s \in (IF KindOf[x] = "audit_logs" THEN {clock}
                 ELSE {clock + Life} \cup IF KindOf[x] = "api_keys" THEN {Never} ELSE {}) :
          stamp' = [stamp EXCEPT ![x] = s]
    /\ sweep' = IF KindOf[x] = "verifications" /\ stamp[x] # 0 /\ OnMongo THEN sweep
              ELSE [w \in Run |-> [sweep[w] EXCEPT !.picked = @ \ {x}]]
    /\ UNCHANGED <<deployment, clock, faults, lost>>

(* A row is signed out, used up, revoked, or collected by a TTL index.     *)
Vanish(x) ==
    /\ stamp[x] # 0 /\ KindOf[x] # "audit_logs"
    /\ Remove({x})
    /\ UNCHANGED <<deployment, clock, sweep, faults, lost>>

Tick ==
    /\ clock < MaxClock /\ clock' = clock + 1
    /\ UNCHANGED <<deployment, stamp, sweep, faults, lost>>

Work(w) == Start(w) \/ DeleteBatch(w) \/ SelectBatch(w) \/ DeletePicked(w)

MaintenanceNext ==
    \/ \E w \in deployment.runs : Work(w) \/ Fail(w) \/ Die(w)
    \/ \E x \in deployment.rows : Insert(x) \/ Vanish(x)
    \/ Tick

MaintenanceSpec == MaintenanceInit /\ [][MaintenanceNext]_maintenanceVars

(* The manager is run again and again.                                     *)
FairMaintenance == MaintenanceSpec /\ \A w \in Run \ Endpoint : WF_maintenanceVars(Work(w))
------------------------------------------------------------------------------
Expired(x) ==
    /\ Due(x, clock)
    /\ KindOf[x] = "audit_logs" => deployment.retention # 0

(* Two runs at once, faults, and rows that are used up or issued in the    *)
(* middle never make a run delete a row that had not expired at its        *)
(* cutoff, nor an audit log inside its retention; the one exception is a   *)
(* MongoDB challenge (see OnlyExpiredGoes).                                *)
NothingLiveIsDeleted ==
    /\ \A x \in lost' : OnMongo /\ KindOf[x] = "verifications"
    /\ \A x \in Row : KindOf[x] = "audit_logs" /\ stamp[x] # 0 /\ stamp'[x] = 0
           => stamp[x] + deployment.retention < clock

(* "The run removes expired sessions, refresh tokens, verifications": what *)
(* has not expired stays.                                                  *)
OnlyExpiredGoes == lost = {}

(* The result of a run counts exactly the rows that this run removed, of   *)
(* every resource without a failure, though others removed some of the     *)
(* rows it had selected.                                                   *)
CountsAreTrue ==
    \A w \in Run : SweepAt(w, "done") =>
        \A k \in Resource : sweep[w].deleted[k] = (IF k \in sweep[w].failures THEN 0 ELSE sweep[w].removed[k])

(* Both, of every step: a run removes only what is due and reports that.   *)
RemovalIsTrue == [][CountsAreTrue' /\ NothingLiveIsDeleted]_maintenanceVars

(* Runs that are repeated remove every expired row in the end, whatever    *)
(* failed or died before and however small the batches are.                *)
EventuallyClean == \A x \in Row : Expired(x) ~> ~Expired(x)
==============================================================================
