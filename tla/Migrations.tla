----------------------------- MODULE Migrations -----------------------------
(***************************************************************************)
(* Bringing the schema up to date while processes start: the numbered      *)
(* migrations of the PostgreSQL adapter, the offline index migration of    *)
(* the MongoDB adapter, and the ledger of plugin migrations in both.       *)
(*                                                                         *)
(* PostgreSQL runs each of its two parts as a transaction under an         *)
(* advisory lock: its effects appear when it commits.  MongoDB has neither *)
(* and does one idempotent command after the other.  Processes of two      *)
(* releases start at the same time, die and are started again.  One plugin *)
(* is followed: release n of it declares the versions 1 .. n.              *)
(***************************************************************************)
EXTENDS Naturals, Sequences, FiniteSets

CONSTANTS
    Runner,         \* processes that start, and runs of "fastauth migrate"
    MaxRelease,     \* the newest release of the plugin
    Element,        \* tables (collections) and indexes the plugin declares
    Builds,         \* release -> its elements, in the order they are built
    Confs,          \* the deployments to look at, see Conf
    Newest,         \* challenges 1 .. Newest are stored at the start
    MaxCrashes      \* bound on the processes that die

Current == 5        \* CURRENT_SCHEMA_VERSION
Release == 1 .. MaxRelease
Mode == {"apply", "check", "disabled"}

(* from: the version of the stored schema; MongoDB's indexes are either    *)
(* those of this version (Current) or older.  serves: the runners that     *)
(* serve requests once started.                                            *)
Conf == [store : {"postgres", "mongo"}, from : 0 .. Current, release : [Runner -> Release],
         core : [Runner -> Mode], plugin : [Runner -> Mode], serves : SUBSET Runner]

ASSUME ReleaseAssumption == MaxRelease \in Nat \ {0}
ASSUME BuildsAssumption == Builds \in [Release -> Seq(Element)]
ASSUME ConfAssumption == Confs \subseteq Conf
ASSUME BoundAssumption == Newest \in Nat \ {0} /\ MaxCrashes \in Nat

VARIABLES
    conf,
    core,           \* the recorded version of PostgreSQL's schema
    refresh,        \* refresh rows: "legacy", and those issued by a process
    challenges,     \* stored challenges of one identifier and purpose
    names,          \* MongoDB's user-name indexes: "legacy", "both", "strings"
    unique,         \* MongoDB's index of current challenges exists
    offline,        \* progress of migrate_mongo_storage_v015
    ledgerMade,     \* the ledger's table exists
    ledgerUnique,   \* MongoDB's unique index of the ledger exists
    ledger,         \* the ledger's rows
    built,          \* the elements that exist
    run,            \* the processes
    crashes,
    fresh           \* history: rows issued on the current schema

storage == <<refresh, challenges, names, unique>>
plugins == <<ledgerMade, ledgerUnique, ledger, built>>
vars == <<conf, core, storage, offline, plugins, run, crashes, fresh>>

(* fingerprint: the release whose plan was hashed; by: who recorded it.    *)
Record == [version : Release, fingerprint : Release, by : Runner]

Process == [pc : {"down", "core", "core_tx", "plugin", "plugin_tx", "list", "load", "ledger",
                  "ledger_index", "build", "record", "compare", "started", "failed"},
            seen : 0 .. Current,        \* the version read under the lock
            pending : SUBSET Release,
            next : Nat]                 \* the element to build

Down == [pc |-> "down", seen |-> 0, pending |-> {}, next |-> 0]

TypeOK ==
    /\ conf \in Confs
    /\ core \in 0 .. Current
    /\ refresh \subseteq {"legacy"} \cup Runner /\ fresh \subseteq Runner
    /\ challenges \subseteq 1 .. Newest
    /\ names \in {"legacy", "both", "strings"} /\ unique \in BOOLEAN
    /\ offline \in {"no", "users", "drop", "dedupe", "fill", "done"}
    /\ ledgerMade \in BOOLEAN /\ ledgerUnique \in BOOLEAN
    /\ ledger \subseteq Record /\ built \subseteq Element
    /\ run \in [Runner -> Process]
    /\ crashes \in 0 .. MaxCrashes

Init ==
    /\ conf \in Confs
    /\ core = conf.from
    /\ refresh = IF conf.from \in 1 .. Current - 1 THEN {"legacy"} ELSE {}
    /\ challenges = IF conf.from = Current THEN {Newest} ELSE IF conf.from = 0 /\ conf.store = "postgres"
                    THEN {} ELSE 1 .. Newest
    /\ names = (IF conf.from = Current THEN "strings" ELSE "legacy")
    /\ unique = (conf.from = Current)
    /\ offline = "no"
    /\ ledgerMade = FALSE /\ ledgerUnique = FALSE /\ ledger = {} /\ built = {}
    /\ run = [r \in Runner |-> Down]
    /\ crashes = 0 /\ fresh = {}
------------------------------------------------------------------------------
At(r, p) == run[r].pc = p
Set(r, p) == run' = [run EXCEPT ![r] = p]
Goto(r, p) == run' = [run EXCEPT ![r].pc = p]
Mongo == conf.store = "mongo"
Rel(r) == conf.release[r]

(* The version is read and the migrations run under the lock, which the    *)
(* transaction holds to its end.                                           *)
LockFree(p) == \A v \in Runner : ~At(v, p)

(* preflight_mongo_storage_v015 *)
Preflight == names = "strings" /\ unique

(* A run of "fastauth migrate" always applies the adapter's migrations; a  *)
(* process does what its options say.                                      *)
CoreMode(r) == IF r \in conf.serves THEN conf.core[r] ELSE "apply"

Startable(r) == (At(r, "down") \/ At(r, "failed")) /\ offline \in {"no", "done"}

StartMongo(r) ==
    /\ Mongo /\ Startable(r)
    /\ Goto(r, IF ~Preflight THEN "failed" ELSE IF conf.plugin[r] = "disabled" THEN "started" ELSE "list")
    /\ UNCHANGED <<conf, core, storage, offline, plugins, crashes, fresh>>

StartPostgres(r) ==
    /\ ~Mongo /\ Startable(r)
    /\ Goto(r, IF CoreMode(r) = "disabled" THEN "plugin" ELSE "core")
    /\ UNCHANGED <<conf, core, storage, offline, plugins, crashes, fresh>>

assert_schema_current(r) ==
    /\ At(r, "core") /\ CoreMode(r) = "check"
    /\ Goto(r, IF core = Current THEN "plugin" ELSE "failed")
    /\ UNCHANGED <<conf, core, storage, offline, plugins, crashes, fresh>>

lock_migrations(r) ==
    /\ At(r, "core") /\ CoreMode(r) = "apply"
    /\ LockFree("core_tx")
    /\ Set(r, [Down EXCEPT !.pc = "core_tx", !.seen = core])
    /\ UNCHANGED <<conf, core, storage, offline, plugins, crashes, fresh>>

(* Version 2 deletes the refresh rows only where it has to add columns:    *)
(* the tables that version 1 creates have them.  Version 4 deletes all     *)
(* refresh rows; version 5 keeps the newest challenge.                     *)
DeletesRefresh(seen) == seen < 4

Kept(S) == {c \in S : \A d \in S : d <= c}

apply_migrations(r) ==
    LET seen == run[r].seen
    IN  /\ At(r, "core_tx")
        /\ core' = Current
        /\ refresh' = IF DeletesRefresh(seen) THEN {} ELSE refresh
        /\ challenges' = IF seen < 5 THEN Kept(challenges) ELSE challenges
        /\ Set(r, [Down EXCEPT !.pc = "plugin"])
        /\ UNCHANGED <<conf, names, unique, offline, plugins, crashes, fresh>>

(* pending_migrations, of the rows S: an unknown version, or another       *)
(* fingerprint of the newest declared version, is an error.                *)
Diverged(r, S) == \E x \in S : x.version > Rel(r)

Changed_Every(r, S) == \E x \in S : x.fingerprint # Rel(r)

Changed(r, S) == \E x \in S : x.version = Rel(r) /\ x.fingerprint # Rel(r)

Pending(r, S) == {v \in 1 .. Rel(r) : \A x \in S : x.version # v}

(* What a process does with the rows it read; next is where applying them  *)
(* starts.                                                                 *)
Decide(r, S, next) ==
    LET pending == Pending(r, S)
        pc == IF Diverged(r, S) \/ Changed(r, S) THEN "failed"
              ELSE IF pending = {} THEN "started"
              ELSE IF conf.plugin[r] = "check" THEN "failed"
              ELSE next
    IN  Set(r, [Down EXCEPT !.pc = pc, !.pending = IF pc = next THEN pending ELSE {}])

SkipPlugins(r) ==
    /\ At(r, "plugin") /\ conf.plugin[r] = "disabled"
    /\ Goto(r, "started")
    /\ UNCHANGED <<conf, core, storage, offline, plugins, crashes, fresh>>

PluginLock(r) ==
    /\ At(r, "plugin") /\ conf.plugin[r] # "disabled"
    /\ LockFree("plugin_tx")
    /\ Decide(r, ledger, "plugin_tx")
    /\ UNCHANGED <<conf, core, storage, offline, plugins, crashes, fresh>>

Elements(r) == {Builds[Rel(r)][i] : i \in DOMAIN Builds[Rel(r)]}

Recorded_NoHash(r, V) == [version : V, fingerprint : {0}, by : {r}]

Recorded(r, V) == [version : V, fingerprint : {Rel(r)}, by : {r}]

execute_postgres_plugin_migrations(r) ==
    /\ At(r, "plugin_tx")
    /\ ledgerMade' = TRUE
    /\ built' = built \cup Elements(r)
    /\ ledger' = ledger \cup Recorded(r, run[r].pending)
    /\ Set(r, [Down EXCEPT !.pc = "started"])
    /\ UNCHANGED <<conf, core, storage, offline, ledgerUnique, crashes, fresh>>

(* MongoDB: whether the ledger exists, and a moment later its rows.        *)
ListCollections(r) ==
    /\ At(r, "list")
    /\ IF ledgerMade THEN Goto(r, "load") ELSE Decide(r, {}, "ledger")
    /\ UNCHANGED <<conf, core, storage, offline, plugins, crashes, fresh>>

load_records(r) ==
    /\ At(r, "load")
    /\ Decide(r, ledger, "ledger_index")
    /\ UNCHANGED <<conf, core, storage, offline, plugins, crashes, fresh>>

CreateLedger(r) ==
    /\ At(r, "ledger")
    /\ ledgerMade' = TRUE
    /\ Goto(r, "ledger_index")
    /\ UNCHANGED <<conf, core, storage, offline, ledgerUnique, ledger, built, crashes, fresh>>

MakesUnique_Never == FALSE

MakesUnique == TRUE

FirstElement(r) == 1

IndexLedger(r) ==
    /\ At(r, "ledger_index")
    /\ ledgerUnique' = (ledgerUnique \/ MakesUnique)
    /\ Set(r, [run[r] EXCEPT !.pc = "build", !.next = FirstElement(r)])
    /\ UNCHANGED <<conf, core, storage, offline, ledgerMade, ledger, built, crashes, fresh>>

(* ensure_collection and create_index do nothing where the name exists.    *)
Build(r) ==
    LET i == run[r].next
    IN  /\ At(r, "build")
        /\ IF i > Len(Builds[Rel(r)])
           THEN Goto(r, "record") /\ built' = built
           ELSE /\ built' = built \cup {Builds[Rel(r)][i]}
                /\ Set(r, [run[r] EXCEPT !.next = i + 1])
        /\ UNCHANGED <<conf, core, storage, offline, ledgerMade, ledgerUnique, ledger, crashes, fresh>>

First(S) == CHOOSE v \in S : \A u \in S : v <= u
Done(r, v) ==
    LET left == run[r].pending \ {v}
    IN  Set(r, IF left = {} THEN [Down EXCEPT !.pc = "started"]
               ELSE [run[r] EXCEPT !.pc = "record", !.pending = left])

(* insert_one: the unique index refuses a version that is recorded.        *)
RecordVersion(r) ==
    LET v == First(run[r].pending)
    IN  /\ At(r, "record")
        /\ IF ledgerUnique /\ (\E x \in ledger : x.version = v)
           THEN Goto(r, "compare") /\ ledger' = ledger
           ELSE ledger' = ledger \cup Recorded(r, {v}) /\ Done(r, v)
        /\ UNCHANGED <<conf, core, storage, offline, ledgerMade, ledgerUnique, built, crashes, fresh>>

CompareRecord(r) ==
    LET v == First(run[r].pending)
    IN  /\ At(r, "compare")
        /\ IF \E x \in ledger : x.version = v /\ x.fingerprint = Rel(r) THEN Done(r, v)
           ELSE Set(r, [Down EXCEPT !.pc = "failed"])
        /\ UNCHANGED <<conf, core, storage, offline, plugins, crashes, fresh>>

(* A started process issues a refresh row.                                 *)
Issue(r) ==
    /\ At(r, "started") /\ r \in conf.serves /\ r \notin refresh
    /\ refresh' = refresh \cup {r}
    /\ fresh' = IF Mongo \/ core = Current THEN fresh \cup {r} ELSE fresh
    /\ UNCHANGED <<conf, core, challenges, names, unique, offline, plugins, run, crashes>>

(* The process dies, or its transaction is rolled back.                    *)
Crash(r) ==
    /\ ~At(r, "down") /\ ~At(r, "started") /\ ~At(r, "failed")
    /\ crashes < MaxCrashes /\ crashes' = crashes + 1
    /\ Set(r, Down)
    /\ UNCHANGED <<conf, core, storage, offline, plugins, fresh>>

(* migrate_mongo_storage_v015, run while no process runs; it may die after *)
(* each command and is then run again from its start.                      *)
Offline(from, to) ==
    /\ Mongo /\ conf.from # Current
    /\ \A r \in Runner : At(r, "down") \/ At(r, "failed")
    /\ offline = from /\ offline' = to
    /\ UNCHANGED <<conf, core, refresh, plugins, run, fresh>>

IndexStrings ==
    /\ Offline("no", "users")
    /\ names' = (IF names = "legacy" THEN "both" ELSE names)
    /\ UNCHANGED <<challenges, unique, crashes>>

DropLegacy ==
    /\ Offline("users", "drop") /\ names' = "strings"
    /\ UNCHANGED <<challenges, unique, crashes>>

(* The cursor runs from the newest challenge to the oldest.                *)
DeleteSuperseded ==
    /\ Offline("drop", "drop")
    /\ challenges # Kept(challenges)
    /\ challenges' = challenges \ Kept(challenges \ Kept(challenges))
    /\ UNCHANGED <<names, unique, crashes>>

IndexChallenges ==
    /\ Offline("drop", "fill")
    /\ challenges = Kept(challenges) /\ unique' = TRUE
    /\ UNCHANGED <<challenges, names, crashes>>

FillConsumed == Offline("fill", "done") /\ UNCHANGED <<challenges, names, unique, crashes>>

OfflineCrash ==
    /\ \E at \in {"users", "drop", "fill"} : Offline(at, "no")
    /\ crashes < MaxCrashes /\ crashes' = crashes + 1
    /\ UNCHANGED <<challenges, names, unique>>

Step(r) ==
    \/ StartMongo(r) \/ StartPostgres(r) \/ assert_schema_current(r) \/ lock_migrations(r) \/ apply_migrations(r)
    \/ SkipPlugins(r) \/ PluginLock(r) \/ execute_postgres_plugin_migrations(r)
    \/ ListCollections(r) \/ load_records(r) \/ CreateLedger(r) \/ IndexLedger(r)
    \/ Build(r) \/ RecordVersion(r) \/ CompareRecord(r)

OfflineStep ==
    \/ IndexStrings \/ DropLegacy \/ DeleteSuperseded \/ IndexChallenges \/ FillConsumed
    \/ OfflineCrash

Next ==
    \/ \E r \in Runner : Step(r) \/ Issue(r) \/ Crash(r)
    \/ OfflineStep

Spec == Init /\ [][Next]_vars
FairSpec == Spec /\ \A r \in Runner : WF_vars(Step(r))
------------------------------------------------------------------------------
(* A process serves only on a schema it can use: the adapter's own schema  *)
(* is current, and every table, index and ledger row that its release      *)
(* declares is there, whoever built it and however often that died.        *)
StartedIsCurrent ==
    \A r \in Runner : At(r, "started") =>
        /\ Mongo => Preflight /\ challenges = Kept(challenges)
        /\ ~Mongo /\ CoreMode(r) # "disabled" => core = Current
        /\ conf.plugin[r] # "disabled" =>
               Elements(r) \subseteq built /\ \A v \in 1 .. Rel(r) : \E x \in ledger : x.version = v

(* Processes that migrate at the same time record a version once.          *)
OneRecordPerVersion == \A x, y \in ledger : x.version = y.version => x = y

(* No migration deletes what was issued on the current schema, though some *)
(* delete every refresh row, nor the newest challenge: an older one never  *)
(* becomes valid again.                                                    *)
NothingNewIsLost ==
    /\ fresh \subseteq refresh
    /\ challenges # {} => Newest \in challenges

(* What the migrations leave at any moment, finished or died halfway.      *)
MigratedIsSound == StartedIsCurrent /\ OneRecordPerVersion /\ NothingNewIsLost

(* Where the processes apply their migrations, those of the newest release *)
(* get started, whatever died in the middle and whatever an older release  *)
(* recorded meanwhile ("retry-safe and converges after partial work").     *)
Applying ==
    /\ Mongo => conf.from = Current
    /\ \A r \in Runner : conf.plugin[r] = "apply" /\ CoreMode(r) = "apply"

IsNewest(r) == \A v \in Runner : Rel(v) <= Rel(r)

Converges == \A r \in Runner : <>[](Applying /\ IsNewest(r) => At(r, "started"))
==============================================================================
