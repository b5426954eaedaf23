-------------------------- MODULE Migrations_proofs --------------------------
(***************************************************************************)
(* Proofs about the two jobs an operator runs against the stores.          *)
(* Migrations: what an accepted set of schema declarations guarantees, for *)
(* any number of plugins, tables, fields and migrations; and what the      *)
(* migrations leave behind at any moment, for any number of processes and  *)
(* releases and any crashes.  Maintenance: what a run deletes and reports, *)
(* for any number of runs, rows and batches.                               *)
(***************************************************************************)
EXTENDS Migrations, SchemaPlan, Maintenance, FiniteSetTheorems, SequenceTheorems,
        WellFoundedInduction, TLAPS

(* One of two different places in the registry comes earlier.              *)
LEMMA EarlierIsTotal ==
    ASSUME NEW S \in Seq(PluginSchema), NEW i \in DOMAIN S, NEW j \in DOMAIN S, i # j
    PROVE  Earlier(S, i, j) \/ Earlier(S, j, i)
<1>1. i \in Nat /\ j \in Nat
  OBVIOUS
<1>2. S[i] \in PluginSchema /\ S[j] \in PluginSchema
  OBVIOUS
<1>3. S[i].plugin_id \in Nat /\ S[j].plugin_id \in Nat
  BY <1>2 DEF PluginSchema, Name
<1> QED BY <1>1, <1>3 DEF Earlier

LEMMA EarlierIsStrict ==
    ASSUME NEW S \in Seq(PluginSchema), NEW i \in DOMAIN S
    PROVE  ~Earlier(S, i, i)
<1>1. i \in Nat /\ S[i] \in PluginSchema
  OBVIOUS
<1>2. S[i].plugin_id \in Nat
  BY <1>1 DEF PluginSchema, Name
<1> QED BY <1>1, <1>2 DEF Earlier

LEMMA DeclarationParts ==
    ASSUME NEW S, NEW d \in Declaration(S)
    PROVE  d[1] \in DOMAIN S /\ d[2] \in S[d[1]].tables /\ d = <<d[1], d[2]>>
BY DEF Declaration

(* The walk over the sorted schemas compares a declaration with the first  *)
(* one of its name only, and still finds every pair: the registry has a    *)
(* conflict exactly when two declarations share a table's name.            *)
THEOREM ConflictsAreComplete ==
    ASSUME NEW S \in Seq(PluginSchema), \A i \in DOMAIN S : ValidSchema(S[i])
    PROVE  find_schema_conflicts(S) = {}
               <=> \A d, e \in Declaration(S) : d[2].name = e[2].name => d = e
<1>1. ASSUME find_schema_conflicts(S) = {}, NEW d \in Declaration(S), NEW e \in Declaration(S),
             d[2].name = e[2].name
      PROVE  d = e
  <2>1. ~Earlier(S, d[1], e[1]) /\ ~Earlier(S, e[1], d[1])
    BY <1>1 DEF find_schema_conflicts
  <2>2. d[1] = e[1]
    BY <2>1, DeclarationParts, EarlierIsTotal
  <2>3. d[2] = e[2]
    BY <1>1, <2>2, DeclarationParts DEF ValidSchema, DistinctNames
  <2> QED BY <2>2, <2>3, DeclarationParts
<1>2. ASSUME \A d, e \in Declaration(S) : d[2].name = e[2].name => d = e,
             NEW e \in find_schema_conflicts(S)
      PROVE  FALSE
  <2>1. PICK d \in Declaration(S) : d[2].name = e[2].name /\ Earlier(S, d[1], e[1])
    BY <1>2 DEF find_schema_conflicts
  <2>2. d = e
    BY <1>2, <2>1 DEF find_schema_conflicts
  <2> QED BY <2>1, <2>2, DeclarationParts, EarlierIsStrict
<1> QED BY <1>1, <1>2

(* In an accepted plan a table is planned once, and a migration has its    *)
(* name and its version for itself: the keys of the ledger.                *)
THEOREM PlanIsKeyed ==
    ASSUME NEW S \in Seq(PluginSchema), Accepted(S)
    PROVE  /\ \A a, b \in PlannedTables(S) : a.name = b.name => a = b
           /\ \A a, b \in PlannedMigrations(S) :
                  a.plugin_id = b.plugin_id /\ (a.version = b.version \/ a.name = b.name) => a = b
<1>1. ASSUME NEW a \in PlannedTables(S), NEW b \in PlannedTables(S), a.name = b.name
      PROVE  a = b
  <2>1. PICK d \in Declaration(S) :
           a = [plugin_id |-> S[d[1]].plugin_id, name |-> d[2].name,
                fields |-> d[2].fields, indexes |-> d[2].indexes]
    BY DEF PlannedTables
  <2>2. PICK e \in Declaration(S) :
           b = [plugin_id |-> S[e[1]].plugin_id, name |-> e[2].name,
                fields |-> e[2].fields, indexes |-> e[2].indexes]
    BY DEF PlannedTables
  <2>3. d[2].name = e[2].name
    BY <1>1, <2>1, <2>2
  <2>4. d = e
    BY <2>3, ConflictsAreComplete DEF Accepted
  <2> QED BY <2>1, <2>2, <2>4
<1>2. ASSUME NEW a \in PlannedMigrations(S), NEW b \in PlannedMigrations(S), a.plugin_id = b.plugin_id,
             a.version = b.version \/ a.name = b.name
      PROVE  a = b
  <2>1. PICK i \in DOMAIN S : \E m \in S[i].migrations :
           a = [plugin_id |-> S[i].plugin_id, name |-> m.name, version |-> m.version]
    BY DEF PlannedMigrations
  <2>2. PICK m \in S[i].migrations :
           a = [plugin_id |-> S[i].plugin_id, name |-> m.name, version |-> m.version]
    BY <2>1
  <2>3. PICK j \in DOMAIN S : \E n \in S[j].migrations :
           b = [plugin_id |-> S[j].plugin_id, name |-> n.name, version |-> n.version]
    BY DEF PlannedMigrations
  <2>4. PICK n \in S[j].migrations :
           b = [plugin_id |-> S[j].plugin_id, name |-> n.name, version |-> n.version]
    BY <2>3
  <2>5. m.name = n.name \/ m.version = n.version
    BY <1>2, <2>2, <2>4
  <2>6. i = j /\ m = n
    BY <1>2, <2>2, <2>4, <2>5 DEF Accepted, UniqueMigrations
  <2> QED BY <2>2, <2>4, <2>6
<1> QED BY <1>1, <1>2

(* What a plugin recorded stays valid whatever other plugins are installed *)
(* and in whatever order: the fingerprint of its migration depends on its  *)
(* own schemas only.                                                       *)
THEOREM FingerprintIsLocal ==
    ASSUME NEW S \in Seq(PluginSchema), NEW T \in Seq(PluginSchema), NEW m,
           {S[i] : i \in {k \in DOMAIN S : S[k].plugin_id = m.plugin_id}}
               = {T[i] : i \in {k \in DOMAIN T : T[k].plugin_id = m.plugin_id}}
    PROVE  schema_fingerprint(S, m) = schema_fingerprint(T, m)
<1> DEFINE Own(R) == {R[i] : i \in {k \in DOMAIN R : R[k].plugin_id = m.plugin_id}}
           Tables(R) == {t \in PlannedTables(R) : t.plugin_id = m.plugin_id}
           Plan(s, t) == [plugin_id |-> s.plugin_id, name |-> t.name, fields |-> t.fields,
                          indexes |-> t.indexes]
<1>1. ASSUME NEW R \in Seq(PluginSchema), NEW p
      PROVE  p \in Tables(R) <=> \E s \in Own(R) : \E t \in s.tables : p = Plan(s, t)
  <2>1. ASSUME p \in Tables(R) PROVE \E s \in Own(R) : \E t \in s.tables : p = Plan(s, t)
    <3>1. PICK d \in Declaration(R) : p = Plan(R[d[1]], d[2])
      BY <2>1 DEF PlannedTables
    <3>2. R[d[1]] \in Own(R) /\ d[2] \in R[d[1]].tables
      BY <2>1, <3>1, DeclarationParts
    <3> QED BY <3>1, <3>2
  <2>2. ASSUME NEW s \in Own(R), NEW t \in s.tables, p = Plan(s, t) PROVE p \in Tables(R)
    <3>1. PICK i \in DOMAIN R : s = R[i] /\ R[i].plugin_id = m.plugin_id
      OBVIOUS
    <3>2. <<i, t>> \in Declaration(R)
      BY <3>1, <2>2 DEF Declaration
    <3>3. p = Plan(R[<<i, t>>[1]], <<i, t>>[2])
      BY <2>2, <3>1
    <3>4. p \in PlannedTables(R)
      BY <3>2, <3>3 DEF PlannedTables
    <3> QED BY <2>2, <3>1, <3>4
  <2> QED BY <2>1, <2>2
<1>2. Own(S) = Own(T)
  OBVIOUS
<1>3. Tables(S) = Tables(T)
  <2> HIDE DEF Own, Tables, Plan
  <2> QED BY <1>1, <1>2
<1> QED BY <1>3 DEF schema_fingerprint
------------------------------------------------------------------------------
LEMMA PlannedTableNames ==
    ASSUME NEW S \in Seq(PluginSchema), NEW t \in PlannedTables(S)
    PROVE  t.name \in Nat
<1>1. PICK d \in Declaration(S) :
         t = [plugin_id |-> S[d[1]].plugin_id, name |-> d[2].name,
              fields |-> d[2].fields, indexes |-> d[2].indexes]
  BY DEF PlannedTables
<1>2. d[1] \in DOMAIN S /\ d[2] \in S[d[1]].tables
  BY DeclarationParts
<1>3. S[d[1]] \in PluginSchema
  BY <1>2
<1>4. d[2] \in TableSpec
  BY <1>2, <1>3 DEF PluginSchema
<1> QED BY <1>1, <1>4 DEF TableSpec, Name

LEMMA PartOfTable ==
    ASSUME NEW t, NEW mongo, NEW p \in TableParts(t, mongo)
    PROVE  p.table = t.name
BY DEF TableParts

(* Building an accepted plan never has two tables half-built at once, and  *)
(* a table is there before its indexes: of two planned tables, whichever   *)
(* plugins declare them, all the parts of one are built before any of the  *)
(* other's.  And where the foreign keys can be resolved, what a field      *)
(* refers to is complete, with the indexes that keep its values unique,    *)
(* before the referring table is created.                                  *)
THEOREM BuildOrder ==
    ASSUME NEW S \in Seq(PluginSchema), Accepted(S), NEW mongo \in BOOLEAN, NEW known,
           Resolvable(S, known)
    PROVE  /\ \A t, u \in PlannedTables(S) : t # u =>
                  \/ \A p \in TableParts(t, mongo), q \in TableParts(u, mongo) : BuiltBefore(p, q)
                  \/ \A p \in TableParts(t, mongo), q \in TableParts(u, mongo) : BuiltBefore(q, p)
           /\ \A t \in PlannedTables(S) : \A p \in TableParts(t, mongo) :
                  p.kind = 0 \/ \E c \in TableParts(t, mongo) : c.kind = 0 /\ BuiltBefore(c, p)
           /\ \A t \in PlannedTables(S) : \A f \in t.fields : \A r \in f.references :
                  \/ r \in known \cup {t.name}
                  \/ \E u \in PlannedTables(S) :
                         /\ u.name = r
                         /\ \A p \in TableParts(u, mongo), q \in TableParts(t, mongo) : BuiltBefore(p, q)
<1>1. ASSUME NEW t \in PlannedTables(S), NEW u \in PlannedTables(S), t.name < u.name,
             NEW p \in TableParts(t, mongo), NEW q \in TableParts(u, mongo)
      PROVE  BuiltBefore(p, q)
  BY <1>1, PartOfTable DEF BuiltBefore
<1>2. ASSUME NEW t \in PlannedTables(S), NEW u \in PlannedTables(S), t # u
      PROVE  t.name < u.name \/ u.name < t.name
  <2>1. t.name # u.name
    BY <1>2, PlanIsKeyed
  <2>2. t.name \in Nat /\ u.name \in Nat
    BY PlannedTableNames
  <2> QED BY <2>1, <2>2
<1>3. ASSUME NEW t \in PlannedTables(S), NEW p \in TableParts(t, mongo), p.kind # 0
      PROVE  \E c \in TableParts(t, mongo) : c.kind = 0 /\ BuiltBefore(c, p)
  <2> DEFINE c == [table |-> t.name, kind |-> 0, name |-> 0]
  <2>1. c \in TableParts(t, mongo)
    BY DEF TableParts
  <2>2. p.table = t.name /\ p.kind \in {1, 2}
    BY <1>3 DEF TableParts
  <2>3. BuiltBefore(c, p)
    BY <2>2 DEF BuiltBefore
  <2> QED BY <2>1, <2>3
<1>4. ASSUME NEW t \in PlannedTables(S), NEW f \in t.fields, NEW r \in f.references,
             r \notin known \cup {t.name}
      PROVE  \E u \in PlannedTables(S) :
                 /\ u.name = r
                 /\ \A p \in TableParts(u, mongo), q \in TableParts(t, mongo) : BuiltBefore(p, q)
  <2>1. PICK u \in PlannedTables(S) : u.name = r /\ r < t.name
    BY <1>4 DEF Resolvable
  <2> QED BY <1>1, <2>1
<1>5. ASSUME NEW t \in PlannedTables(S), NEW u \in PlannedTables(S), t # u
      PROVE  \/ \A p \in TableParts(t, mongo), q \in TableParts(u, mongo) : BuiltBefore(p, q)
             \/ \A p \in TableParts(t, mongo), q \in TableParts(u, mongo) : BuiltBefore(q, p)
  <2>1. CASE t.name < u.name
    BY <1>1, <2>1
  <2>2. CASE u.name < t.name
    BY <1>1, <2>2
  <2> QED BY <1>2, <1>5, <2>1, <2>2
<1> QED BY <1>3, <1>4, <1>5

(* Whatever MongoDB keeps unique PostgreSQL keeps unique, too; and where   *)
(* no index of a table names a unique field, both keep the same: only an   *)
(* index that names the field makes MongoDB drop the field's own.          *)
THEOREM UniqueOnBothStores ==
    ASSUME NEW t \in TableSpec
    PROVE  /\ KeptUnique(t, TRUE) \subseteq KeptUnique(t, FALSE)
           /\ (\A f \in t.fields : f.unique => f.name \notin Explicit(t))
                  => KeptUnique(t, TRUE) = KeptUnique(t, FALSE)
<1>1. ASSUME NEW n \in KeptUnique(t, TRUE) PROVE n \in KeptUnique(t, FALSE)
  BY <1>1 DEF KeptUnique
<1>2. ASSUME \A f \in t.fields : f.unique => f.name \notin Explicit(t), NEW n \in KeptUnique(t, FALSE)
      PROVE  n \in KeptUnique(t, TRUE)
  BY <1>2 DEF KeptUnique, FieldIndexes
<1> QED BY <1>1, <1>2
------------------------------------------------------------------------------
(* The natural numbers are well ordered: the first of the pending versions *)
(* is one of them.                                                         *)
LEMMA Least ==
    ASSUME NEW T, T \subseteq Nat, T # {}
    PROVE  \E m \in T : \A k \in T : m <= k
<1> DEFINE R == OpToRel(<, Nat)
<1>1. IsWellFoundedOn(R, Nat)
  BY NatLessThanWellFounded
<1>2. \A x, y \in Nat : y < x => <<y, x>> \in R
  BY DEF OpToRel
<1> HIDE DEF R
<1>3. PICK m \in T : \A y \in T : ~ (<<y, m>> \in R)
  BY <1>1, WFMin
<1>4. ASSUME NEW y \in T PROVE m <= y
  <2>1. y \in Nat /\ m \in Nat /\ ~(y < m)
    BY <1>2, <1>3
  <2> QED BY <2>1
<1> QED BY <1>4

LEMMA FirstIsPending ==
    ASSUME NEW S, S \subseteq Nat, S # {}
    PROVE  First(S) \in S
BY Least DEF First

(* Of the challenges the newest is kept.                                   *)
LEMMA KeptIsKept ==
    ASSUME NEW S, S \subseteq Nat
    PROVE  /\ Kept(S) \subseteq S /\ Kept(Kept(S)) = Kept(S)
           /\ \A n \in S : (\A m \in S : m <= n) => n \in Kept(S)
BY DEF Kept
------------------------------------------------------------------------------
(* What is known of a process where it is.                                 *)
Migrating == {"ledger", "ledger_index", "build", "record", "compare"}

Versions(r) == 1 .. Rel(r)

HasVersion(v) == \E x \in ledger : x.version = v

BuiltOf(n) == \A i \in DOMAIN Builds[n] : Builds[n][i] \in built

Fit(r, p) ==
    /\ Mongo => p.pc \notin {"core", "core_tx", "plugin", "plugin_tx"}
    /\ ~Mongo => p.pc \notin Migrating \cup {"list", "load"}
    /\ Mongo /\ p.pc \notin {"down", "failed"} => Preflight
    /\ ~Mongo /\ p.pc \in {"plugin", "plugin_tx", "started"} /\ CoreMode(r) # "disabled" => core = Current
    /\ p.pc = "core_tx" => p.seen = core
    /\ p.pc = "plugin_tx" => p.pending = Pending(r, ledger)
    /\ p.pc \in Migrating =>
           p.pending # {} /\ p.pending \subseteq Versions(r) /\ \A v \in Versions(r) \ p.pending : HasVersion(v)
    /\ p.pc \in {"build", "record", "compare"} => ledgerUnique
    /\ p.pc = "build" => p.next >= 1 /\ \A i \in DOMAIN Builds[Rel(r)] : i < p.next => Builds[Rel(r)][i] \in built
    /\ p.pc \in {"record", "compare"} => BuiltOf(Rel(r))
    /\ p.pc = "started" /\ conf.plugin[r] # "disabled" => BuiltOf(Rel(r)) /\ \A v \in Versions(r) : HasVersion(v)

(* Of the ledger: a version is there once, and whoever recorded it has     *)
(* built what its release declares.                                        *)
Transaction == {"core_tx", "plugin_tx"}

Ledgers ==
    /\ OneRecordPerVersion
    /\ \A x \in ledger : BuiltOf(x.fingerprint)

(* Of the rows: those issued on the current schema are there, and no older *)
(* challenge than the newest is.                                           *)
Stored ==
    /\ NothingNewIsLost
    /\ ~Mongo /\ fresh # {} => core = Current
    /\ Mongo /\ unique => challenges = Kept(challenges)

(* The transactions exclude each other.                                    *)
Exclusive == \A u, v \in Runner : \A t \in Transaction : At(u, t) /\ At(v, t) => u = v

Inv ==
    /\ TypeOK /\ Ledgers /\ Stored /\ Exclusive
    /\ \A r \in Runner : Fit(r, run[r])

(* What a step of one process promises to the others.                      *)
Contract(r, q) ==
    /\ run' = [run EXCEPT ![r] = q] /\ q \in Process /\ conf' = conf
    /\ core' = core \/ (At(r, "core_tx") /\ core' = Current)
    /\ ledger' = ledger \/ Mongo \/ At(r, "plugin_tx")
    /\ ledger \subseteq ledger' /\ built \subseteq built' /\ (ledgerUnique => ledgerUnique')
    /\ UNCHANGED <<names, unique, offline>>
    /\ \A t \in Transaction : q.pc = t => LockFree(t)
    /\ Fit(r, q)' /\ Ledgers' /\ Stored'
    /\ core' \in 0 .. Current /\ refresh' \subseteq {"legacy"} \cup Runner /\ fresh' \subseteq Runner
    /\ challenges' \subseteq 1 .. Newest /\ ledgerMade' \in BOOLEAN /\ ledgerUnique' \in BOOLEAN
    /\ ledger' \subseteq Record /\ built' \subseteq Element /\ crashes' \in 0 .. MaxCrashes

LEMMA FitKeeps ==
    ASSUME NEW r \in Runner, NEW q, Contract(r, q), NEW w \in Runner, w # r, NEW p, p = run[w], Fit(w, p), Exclusive
    PROVE  Fit(w, p)'
<1>1. /\ conf' = conf /\ ledger \subseteq ledger' /\ built \subseteq built' /\ (ledgerUnique => ledgerUnique')
      /\ UNCHANGED <<names, unique>>
      /\ core' = core \/ (At(r, "core_tx") /\ core' = Current)
      /\ ledger' = ledger \/ Mongo \/ At(r, "plugin_tx")
  BY DEF Contract
<1>2. (Mongo' <=> Mongo) /\ (Preflight' <=> Preflight) /\ (CoreMode(w)' = CoreMode(w)) /\ (Rel(w)' = Rel(w))
      /\ (Versions(w)' = Versions(w))
  BY <1>1 DEF Mongo, Preflight, CoreMode, Rel, Versions
<1>3. \A v : HasVersion(v) => HasVersion(v)'
  BY <1>1 DEF HasVersion
<1>4. \A n : BuiltOf(n) => BuiltOf(n)'
  BY <1>1 DEF BuiltOf
<1>5. p.pc = "core_tx" => core' = core
  BY <1>1 DEF Exclusive, At, Transaction
<1>6. p.pc = "plugin_tx" => ledger' = ledger
  BY <1>1 DEF Exclusive, At, Transaction, Fit
<1>7. ledger' = ledger => Pending(w, ledger)' = Pending(w, ledger)
  BY <1>2 DEF Pending
<1>8. core = Current => core' = Current
  BY <1>1
<1>9. /\ (Mongo => p.pc \notin {"core", "core_tx", "plugin", "plugin_tx"})'
      /\ (~Mongo => p.pc \notin Migrating \cup {"list", "load"})'
      /\ (Mongo /\ p.pc \notin {"down", "failed"} => Preflight)'
      /\ (~Mongo /\ p.pc \in {"plugin", "plugin_tx", "started"} /\ CoreMode(w) # "disabled" => core = Current)'
  BY <1>2, <1>8 DEF Fit
<1>10. (p.pc = "core_tx" => p.seen = core)' /\ (p.pc = "plugin_tx" => p.pending = Pending(w, ledger))'
  BY <1>5, <1>6, <1>7 DEF Fit
<1>11. /\ (p.pc \in Migrating =>
              p.pending # {} /\ p.pending \subseteq Versions(w) /\ \A v \in Versions(w) \ p.pending : HasVersion(v))'
       /\ (p.pc \in {"build", "record", "compare"} => ledgerUnique)'
  BY <1>1, <1>2, <1>3 DEF Fit
<1>12. /\ (p.pc = "build" => p.next >= 1 /\ \A i \in DOMAIN Builds[Rel(w)] : i < p.next => Builds[Rel(w)][i] \in built)'
       /\ (p.pc \in {"record", "compare"} => BuiltOf(Rel(w)))'
       /\ (p.pc = "started" /\ conf.plugin[w] # "disabled" => BuiltOf(Rel(w)) /\ \A v \in Versions(w) : HasVersion(v))'
  BY <1>1, <1>2, <1>3, <1>4 DEF Fit
<1> QED BY <1>9, <1>10, <1>11, <1>12 DEF Fit

LEMMA ContractKeeps ==
    ASSUME Inv, NEW r \in Runner, NEW q, Contract(r, q)
    PROVE  Inv'
<1>1. run \in [Runner -> Process] /\ run' = [run EXCEPT ![r] = q] /\ q \in Process
  BY DEF Inv, TypeOK, Contract
<1>2. run' \in [Runner -> Process] /\ run'[r] = q /\ \A w \in Runner : w # r => run'[w] = run[w]
  BY <1>1
<1>3. ASSUME NEW w \in Runner PROVE Fit(w, run[w])'
  <2>1. CASE w = r
    BY <1>2, <2>1 DEF Contract
  <2>2. CASE w # r
    <3>1. PICK p : p = run[w]
      OBVIOUS
    <3>2. Fit(w, p)'
      BY <2>2, <3>1, FitKeeps DEF Inv
    <3> QED BY <1>2, <2>2, <3>1, <3>2
  <2> QED BY <2>1, <2>2
<1>4. Exclusive'
  <2>1. ASSUME NEW u \in Runner, NEW v \in Runner, NEW t \in Transaction, run'[u].pc = t, run'[v].pc = t PROVE u = v
    <3>1. CASE u = r /\ v # r
      BY <1>2, <2>1, <3>1 DEF Contract, LockFree, At
    <3>2. CASE v = r /\ u # r
      BY <1>2, <2>1, <3>2 DEF Contract, LockFree, At
    <3>3. CASE u # r /\ v # r
      BY <1>2, <2>1, <3>3 DEF Inv, Exclusive, At
    <3> QED BY <3>1, <3>2, <3>3
  <2> QED BY <2>1 DEF Exclusive, At
<1>5. TypeOK'
  <2>1. conf' \in Confs /\ names' \in {"legacy", "both", "strings"} /\ unique' \in BOOLEAN
        /\ offline' \in {"no", "users", "drop", "dedupe", "fill", "done"}
    BY DEF Inv, TypeOK, Contract
  <2> QED BY <1>2, <2>1 DEF TypeOK, Contract
<1> QED BY <1>3, <1>4, <1>5 DEF Inv, Contract
------------------------------------------------------------------------------
LEMMA FromDown ==
    ASSUME NEW a, NEW b
    PROVE  /\ [Down EXCEPT !.pc = a, !.pending = b] = [pc |-> a, seen |-> 0, pending |-> b, next |-> 0]
           /\ [Down EXCEPT !.pc = a, !.seen = b] = [pc |-> a, seen |-> b, pending |-> {}, next |-> 0]
           /\ [Down EXCEPT !.pc = a] = [pc |-> a, seen |-> 0, pending |-> {}, next |-> 0]
<1> DEFINE d == [Down EXCEPT !.pc = a]
<1>1. d = [pc |-> a, seen |-> 0, pending |-> {}, next |-> 0]
  BY DEF Down
<1>2. [Down EXCEPT !.pc = a, !.pending = b] = [d EXCEPT !.pending = b]
  BY Zenon
<1>3. [Down EXCEPT !.pc = a, !.seen = b] = [d EXCEPT !.seen = b]
  BY Zenon
<1> HIDE DEF d
<1>4. [d EXCEPT !.pending = b] = [pc |-> a, seen |-> 0, pending |-> b, next |-> 0]
  BY <1>1
<1>5. [d EXCEPT !.seen = b] = [pc |-> a, seen |-> b, pending |-> {}, next |-> 0]
  BY <1>1
<1> QED BY <1>1, <1>2, <1>3, <1>4, <1>5, Zenon DEF d
------------------------------------------------------------------------------
(* The types that the steps need.                                          *)
LEMMA Typing ==
    ASSUME Inv, NEW r \in Runner
    PROVE  /\ conf \in Conf /\ run \in [Runner -> Process] /\ run[r] \in Process
           /\ Rel(r) \in Release /\ Release \subseteq Nat /\ Builds[Rel(r)] \in Seq(Element)
           /\ Fit(r, run[r]) /\ crashes \in 0 .. MaxCrashes
<1>1. conf \in Conf
  BY ConfAssumption DEF Inv, TypeOK
<1>2. Rel(r) \in Release
  BY <1>1 DEF Conf, Rel
<1>3. Release \subseteq Nat
  BY ReleaseAssumption DEF Release
<1>4. Builds[Rel(r)] \in Seq(Element)
  BY <1>2, BuildsAssumption
<1> QED BY <1>1, <1>2, <1>3, <1>4 DEF Inv, TypeOK

(* A step that changes nothing but the process itself.                     *)
LEMMA OnlyProcess ==
    ASSUME Inv, NEW r \in Runner, NEW q \in Process, Set(r, q), Fit(r, q),
           UNCHANGED <<conf, core, storage, offline, plugins, fresh>>, crashes' \in 0 .. MaxCrashes,
           \A t \in Transaction : q.pc = t => LockFree(t)
    PROVE  Contract(r, q)
<1>1. /\ conf' = conf /\ core' = core /\ refresh' = refresh /\ challenges' = challenges /\ names' = names
      /\ unique' = unique /\ offline' = offline /\ fresh' = fresh
      /\ ledgerMade' = ledgerMade /\ ledgerUnique' = ledgerUnique /\ ledger' = ledger /\ built' = built
  BY DEF storage, plugins
<1>2. Fit(r, q)'
  BY <1>1 DEF Fit, Mongo, Preflight, CoreMode, Pending, Versions, Rel, HasVersion, BuiltOf
<1>3. Ledgers'
  BY <1>1 DEF Inv, Ledgers, OneRecordPerVersion, BuiltOf
<1>4. Stored'
  BY <1>1 DEF Inv, Stored, NothingNewIsLost, Mongo
<1>5. run' = [run EXCEPT ![r] = q]
  BY DEF Set
<1>6. /\ core' \in 0 .. Current /\ refresh' \subseteq {"legacy"} \cup Runner /\ fresh' \subseteq Runner
      /\ challenges' \subseteq 1 .. Newest /\ ledgerMade' \in BOOLEAN /\ ledgerUnique' \in BOOLEAN
      /\ ledger' \subseteq Record /\ built' \subseteq Element
  BY <1>1 DEF Inv, TypeOK
<1> QED BY <1>1, <1>2, <1>3, <1>4, <1>5, <1>6 DEF Contract

(* A process goes elsewhere and keeps what it knows.                       *)
LEMMA Moved ==
    ASSUME NEW r \in Runner, NEW p, run[r] \in Process, Goto(r, p),
           p \in {"down", "core", "core_tx", "plugin", "plugin_tx", "list", "load", "ledger",
                  "ledger_index", "build", "record", "compare", "started", "failed"}
    PROVE  \E q \in Process : /\ Set(r, q) /\ q.pc = p /\ q.seen = run[r].seen
                              /\ q.pending = run[r].pending /\ q.next = run[r].next
<1> DEFINE q == [run[r] EXCEPT !.pc = p]
<1>1. q \in Process /\ q.pc = p /\ q.seen = run[r].seen /\ q.pending = run[r].pending /\ q.next = run[r].next
  BY DEF Process
<1>2. Set(r, q)
  BY DEF Goto, Set
<1> QED BY <1>1, <1>2

(* What a process decides about its plugins: it is started where its own   *)
(* release is recorded, hence built, and no version is missing.            *)
LEMMA Decided ==
    ASSUME Inv, NEW r \in Runner, NEW S, S \subseteq ledger, NEW next, Decide(r, S, next),
           Mongo => Preflight /\ next \in {"ledger", "ledger_index"},
           ~Mongo => next = "plugin_tx" /\ S = ledger /\ LockFree("plugin_tx"),
           ~Mongo /\ CoreMode(r) # "disabled" => core = Current
    PROVE  \E q \in Process : Set(r, q) /\ Fit(r, q) /\ \A t \in Transaction : q.pc = t => LockFree(t)
<1>1. PICK pending : pending = Pending(r, S)
  OBVIOUS
<1>2. PICK pc : pc = IF Diverged(r, S) \/ Changed(r, S) THEN "failed"
                     ELSE IF pending = {} THEN "started"
                     ELSE IF conf.plugin[r] = "check" THEN "failed" ELSE next
  OBVIOUS
<1>3. PICK left : left = IF pc = next THEN pending ELSE {}
  OBVIOUS
<1> DEFINE q == [pc |-> pc, seen |-> 0, pending |-> left, next |-> 0]
<1>4. Set(r, q)
  <2>1. Set(r, [Down EXCEPT !.pc = pc, !.pending = left])
    BY <1>1, <1>2, <1>3, Zenon DEF Decide
  <2> QED BY <2>1, FromDown, Zenon
<1>5. Release \subseteq Nat /\ Rel(r) \in Release
  BY Typing
<1>6. Versions(r) \subseteq Release
  BY <1>5, ReleaseAssumption DEF Versions, Release
<1>7. pending \subseteq Versions(r) /\ \A v \in Versions(r) \ pending : HasVersion(v)
  BY <1>1 DEF Pending, Versions, HasVersion
<1>8. next \in {"ledger", "ledger_index", "plugin_tx"} /\ pc \in {"failed", "started", next}
  BY <1>2
<1>9. q \in Process
  BY <1>3, <1>6, <1>7, <1>8 DEF Process, Current
<1>10. pc = "started" => BuiltOf(Rel(r)) /\ \A v \in Versions(r) : HasVersion(v)
  <2> SUFFICES ASSUME pc = "started" PROVE BuiltOf(Rel(r)) /\ \A v \in Versions(r) : HasVersion(v)
    OBVIOUS
  <2>1. pending = {} /\ ~Changed(r, S)
    BY <1>2, <1>8
  <2>2. Rel(r) \in 1 .. Rel(r)
    BY <1>5 DEF Release
  <2>3. PICK x \in S : x.version = Rel(r)
    BY <1>1, <2>1, <2>2 DEF Pending
  <2>4. x.fingerprint = Rel(r)
    BY <2>1, <2>3 DEF Changed
  <2> QED BY <1>7, <2>1, <2>3, <2>4 DEF Inv, Ledgers
<1>11. pc = next => left = pending /\ pending # {}
  BY <1>2, <1>3, <1>8
<1>12. Fit(r, q)
  <2>1. pc = "plugin_tx" => left = Pending(r, ledger)
    BY <1>1, <1>8, <1>11
  <2>2. pc \in {"failed", "started", "plugin_tx"} \cup {"ledger", "ledger_index"}
    BY <1>8
  <2>3. Mongo => pc \in {"failed", "started", "ledger", "ledger_index"}
    BY <1>8
  <2>4. ~Mongo => pc \in {"failed", "started", "plugin_tx"}
    BY <1>8
  <2>5. pc \in {"ledger", "ledger_index"} => pc = next
    BY <1>8
  <2> HIDE DEF q
  <2>6. q.pc = pc /\ q.pending = left
    BY DEF q
  <2> QED BY <1>7, <1>10, <1>11, <2>1, <2>2, <2>3, <2>4, <2>5, <2>6 DEF Fit, Migrating
<1>13. \A t \in Transaction : q.pc = t => LockFree(t)
  BY <1>8 DEF Transaction
<1> QED BY <1>4, <1>9, <1>12, <1>13
------------------------------------------------------------------------------
(* Starting, and the adapter's own migrations.                             *)
LEMMA StartMongoGoes ==
    ASSUME Inv, NEW r \in Runner, StartMongo(r)
    PROVE  \E q : Contract(r, q)
<1>1. PICK p : Goto(r, p) /\ p = IF ~Preflight THEN "failed" ELSE IF conf.plugin[r] = "disabled" THEN "started" ELSE "list"
  BY DEF StartMongo
<1>2. p \in {"failed", "started", "list"} /\ Mongo
  BY <1>1 DEF StartMongo
<1>3. PICK q \in Process : Set(r, q) /\ q.pc = p
  BY <1>1, <1>2, Moved, Typing
<1>4. Fit(r, q)
  BY <1>1, <1>2, <1>3 DEF Fit, Migrating
<1>5. \A t \in Transaction : q.pc = t => LockFree(t)
  BY <1>2, <1>3 DEF Transaction
<1>6. UNCHANGED <<conf, core, storage, offline, plugins, fresh>> /\ crashes' \in 0 .. MaxCrashes
  BY Typing DEF StartMongo
<1> QED BY <1>3, <1>4, <1>5, <1>6, OnlyProcess

LEMMA StartPostgresGoes ==
    ASSUME Inv, NEW r \in Runner, StartPostgres(r)
    PROVE  \E q : Contract(r, q)
<1>1. PICK p : Goto(r, p) /\ p = IF CoreMode(r) = "disabled" THEN "plugin" ELSE "core"
  BY DEF StartPostgres
<1>2. p \in {"plugin", "core"} /\ ~Mongo
  BY <1>1 DEF StartPostgres
<1>3. PICK q \in Process : Set(r, q) /\ q.pc = p
  BY <1>1, <1>2, Moved, Typing
<1>4. Fit(r, q)
  BY <1>1, <1>2, <1>3 DEF Fit, Migrating
<1>5. \A t \in Transaction : q.pc = t => LockFree(t)
  BY <1>2, <1>3 DEF Transaction
<1>6. UNCHANGED <<conf, core, storage, offline, plugins, fresh>> /\ crashes' \in 0 .. MaxCrashes
  BY Typing DEF StartPostgres
<1> QED BY <1>3, <1>4, <1>5, <1>6, OnlyProcess

LEMMA AssertGoes ==
    ASSUME Inv, NEW r \in Runner, assert_schema_current(r)
    PROVE  \E q : Contract(r, q)
<1>1. PICK p : Goto(r, p) /\ p = IF core = Current THEN "plugin" ELSE "failed"
  BY DEF assert_schema_current
<1>2. p \in {"plugin", "failed"} /\ ~Mongo
  BY <1>1, Typing DEF assert_schema_current, At, Fit
<1>3. PICK q \in Process : Set(r, q) /\ q.pc = p
  BY <1>1, <1>2, Moved, Typing
<1>4. Fit(r, q)
  BY <1>1, <1>2, <1>3 DEF Fit, Migrating
<1>5. \A t \in Transaction : q.pc = t => LockFree(t)
  BY <1>2, <1>3 DEF Transaction
<1>6. UNCHANGED <<conf, core, storage, offline, plugins, fresh>> /\ crashes' \in 0 .. MaxCrashes
  BY Typing DEF assert_schema_current
<1> QED BY <1>3, <1>4, <1>5, <1>6, OnlyProcess

LEMMA LockGoes ==
    ASSUME Inv, NEW r \in Runner, lock_migrations(r)
    PROVE  \E q : Contract(r, q)
<1> DEFINE q == [pc |-> "core_tx", seen |-> core, pending |-> {}, next |-> 0]
<1>1. Set(r, q)
  BY FromDown, Zenon DEF lock_migrations
<1>2. q \in Process
  BY DEF Inv, TypeOK, Process
<1>3. ~Mongo
  BY Typing DEF lock_migrations, At, Fit
<1>4. Fit(r, q)
  BY <1>3 DEF Fit, Migrating
<1>5. \A t \in Transaction : q.pc = t => LockFree(t)
  BY DEF Transaction, lock_migrations
<1>6. UNCHANGED <<conf, core, storage, offline, plugins, fresh>> /\ crashes' \in 0 .. MaxCrashes
  BY Typing DEF lock_migrations
<1> HIDE DEF q
<1> QED BY <1>1, <1>2, <1>4, <1>5, <1>6, OnlyProcess

(* The migrations that delete run only where the stored schema was not     *)
(* current, and then nothing was issued on a current one.                  *)
LEMMA ApplyGoes ==
    ASSUME Inv, NEW r \in Runner, apply_migrations(r)
    PROVE  \E q : Contract(r, q)
<1> DEFINE q == [pc |-> "plugin", seen |-> 0, pending |-> {}, next |-> 0]
<1>1. Set(r, q)
  BY DEF apply_migrations, Down
<1>2. q \in Process
  BY DEF Process, Current
<1>3. ~Mongo /\ run[r].seen = core /\ At(r, "core_tx")
  BY Typing DEF apply_migrations, At, Fit
<1>4. /\ conf' = conf /\ core' = Current /\ names' = names /\ unique' = unique /\ offline' = offline
      /\ fresh' = fresh /\ crashes' = crashes /\ ledgerMade' = ledgerMade /\ ledgerUnique' = ledgerUnique
      /\ ledger' = ledger /\ built' = built
  BY DEF apply_migrations, plugins
<1>5. refresh' = (IF DeletesRefresh(core) THEN {} ELSE refresh)
      /\ challenges' = (IF core < 5 THEN Kept(challenges) ELSE challenges)
  BY <1>3 DEF apply_migrations
<1>6. fresh \subseteq refresh /\ (fresh # {} => core = Current) /\ (challenges # {} => Newest \in challenges)
      /\ challenges \subseteq 1 .. Newest
  BY <1>3 DEF Inv, Stored, NothingNewIsLost, TypeOK
<1>7. fresh' \subseteq refresh'
  BY <1>4, <1>5, <1>6 DEF DeletesRefresh, Current
<1>8. challenges' \subseteq challenges /\ (challenges # {} => Newest \in challenges')
  <2>1. challenges \subseteq Nat /\ \A n \in challenges : n <= Newest
    BY <1>6, BoundAssumption
  <2>2. Kept(challenges) \subseteq challenges
        /\ \A n \in challenges : (\A m \in challenges : m <= n) => n \in Kept(challenges)
    BY <2>1, KeptIsKept
  <2> QED BY <1>5, <1>6, <2>1, <2>2
<1>9. Stored'
  BY <1>3, <1>4, <1>6, <1>7, <1>8 DEF Stored, NothingNewIsLost, Mongo
<1>10. Ledgers'
  BY <1>4 DEF Inv, Ledgers, OneRecordPerVersion, BuiltOf
<1>11. Fit(r, q)'
  BY <1>3, <1>4 DEF Fit, Migrating, Mongo
<1>12. \A t \in Transaction : q.pc = t => LockFree(t)
  BY DEF Transaction
<1>13. /\ refresh' \subseteq {"legacy"} \cup Runner /\ fresh' \subseteq Runner /\ challenges' \subseteq 1 .. Newest
       /\ core' \in 0 .. Current /\ ledgerMade' \in BOOLEAN /\ ledgerUnique' \in BOOLEAN
       /\ ledger' \subseteq Record /\ built' \subseteq Element /\ crashes' \in 0 .. MaxCrashes
  <2>1. refresh \subseteq {"legacy"} \cup Runner /\ fresh \subseteq Runner /\ ledgerMade \in BOOLEAN
        /\ ledgerUnique \in BOOLEAN /\ ledger \subseteq Record /\ built \subseteq Element /\ crashes \in 0 .. MaxCrashes
    BY DEF Inv, TypeOK
  <2>2. Current \in 0 .. Current
    BY DEF Current
  <2>3. refresh' \subseteq refresh
    BY <1>5
  <2> QED BY <1>4, <1>6, <1>8, <2>1, <2>2, <2>3
<1> HIDE DEF q
<1>14. run' = [run EXCEPT ![r] = q]
  BY <1>1 DEF Set
<1> QED BY <1>2, <1>3, <1>4, <1>9, <1>10, <1>11, <1>12, <1>13, <1>14 DEF Contract
------------------------------------------------------------------------------
(* The plugins' migrations.                                                *)
LEMMA SkipGoes ==
    ASSUME Inv, NEW r \in Runner, SkipPlugins(r)
    PROVE  \E q : Contract(r, q)
<1>1. Goto(r, "started")
  BY DEF SkipPlugins
<1>2. PICK q \in Process : Set(r, q) /\ q.pc = "started"
  BY <1>1, Moved, Typing
<1>3. ~Mongo /\ conf.plugin[r] = "disabled" /\ (CoreMode(r) # "disabled" => core = Current)
  BY Typing DEF SkipPlugins, At, Fit
<1>4. Fit(r, q)
  BY <1>2, <1>3 DEF Fit, Migrating
<1>5. \A t \in Transaction : q.pc = t => LockFree(t)
  BY <1>2 DEF Transaction
<1>6. UNCHANGED <<conf, core, storage, offline, plugins, fresh>> /\ crashes' \in 0 .. MaxCrashes
  BY Typing DEF SkipPlugins
<1> QED BY <1>2, <1>4, <1>5, <1>6, OnlyProcess

LEMMA PluginLockGoes ==
    ASSUME Inv, NEW r \in Runner, PluginLock(r)
    PROVE  \E q : Contract(r, q)
<1>1. ~Mongo /\ (CoreMode(r) # "disabled" => core = Current)
  BY Typing DEF PluginLock, At, Fit
<1>2. Decide(r, ledger, "plugin_tx") /\ LockFree("plugin_tx")
  BY DEF PluginLock
<1>3. PICK q \in Process : Set(r, q) /\ Fit(r, q) /\ \A t \in Transaction : q.pc = t => LockFree(t)
  BY <1>1, <1>2, Decided
<1>4. UNCHANGED <<conf, core, storage, offline, plugins, fresh>> /\ crashes' \in 0 .. MaxCrashes
  BY Typing DEF PluginLock
<1> QED BY <1>3, <1>4, OnlyProcess

LEMMA ListGoes ==
    ASSUME Inv, NEW r \in Runner, ListCollections(r)
    PROVE  \E q : Contract(r, q)
<1>1. Mongo /\ Preflight
  BY Typing DEF ListCollections, At, Fit
<1>2. UNCHANGED <<conf, core, storage, offline, plugins, fresh>> /\ crashes' \in 0 .. MaxCrashes
  BY Typing DEF ListCollections
<1>3. CASE ledgerMade
  <2>1. PICK q \in Process : Set(r, q) /\ q.pc = "load"
    BY <1>3, Moved, Typing DEF ListCollections
  <2>2. Fit(r, q)
    BY <1>1, <2>1 DEF Fit, Migrating
  <2>3. \A t \in Transaction : q.pc = t => LockFree(t)
    BY <2>1 DEF Transaction
  <2> QED BY <1>2, <2>1, <2>2, <2>3, OnlyProcess
<1>4. CASE ~ledgerMade
  <2>1. Decide(r, {}, "ledger")
    BY <1>4 DEF ListCollections
  <2>2. PICK q \in Process : Set(r, q) /\ Fit(r, q) /\ \A t \in Transaction : q.pc = t => LockFree(t)
    BY <1>1, <2>1, Decided
  <2> QED BY <1>2, <2>2, OnlyProcess
<1> QED BY <1>3, <1>4

LEMMA LoadGoes ==
    ASSUME Inv, NEW r \in Runner, load_records(r)
    PROVE  \E q : Contract(r, q)
<1>1. Mongo /\ Preflight
  BY Typing DEF load_records, At, Fit
<1>2. PICK q \in Process : Set(r, q) /\ Fit(r, q) /\ \A t \in Transaction : q.pc = t => LockFree(t)
  BY <1>1, Decided DEF load_records
<1>3. UNCHANGED <<conf, core, storage, offline, plugins, fresh>> /\ crashes' \in 0 .. MaxCrashes
  BY Typing DEF load_records
<1> QED BY <1>2, <1>3, OnlyProcess

LEMMA CrashGoes ==
    ASSUME Inv, NEW r \in Runner, Crash(r)
    PROVE  \E q : Contract(r, q)
<1>1. Down \in Process
  BY DEF Down, Process, Current
<1>2. Set(r, Down) /\ UNCHANGED <<conf, core, storage, offline, plugins, fresh>>
  BY DEF Crash
<1>3. crashes' \in 0 .. MaxCrashes
  BY Typing, BoundAssumption DEF Crash
<1>4. Fit(r, Down)
  BY DEF Fit, Down, Migrating
<1>5. \A t \in Transaction : Down.pc = t => LockFree(t)
  BY DEF Down, Transaction
<1> QED BY <1>1, <1>2, <1>3, <1>4, <1>5, OnlyProcess

(* A started process issues a row.                                         *)
LEMMA IssueGoes ==
    ASSUME Inv, NEW r \in Runner, Issue(r)
    PROVE  \E q : Contract(r, q)
<1>1. run' = [run EXCEPT ![r] = run[r]] /\ run[r] \in Process /\ run[r].pc = "started"
  BY Typing DEF Issue, At
<1>2. /\ conf' = conf /\ core' = core /\ challenges' = challenges /\ names' = names /\ unique' = unique
      /\ offline' = offline /\ crashes' = crashes /\ ledgerMade' = ledgerMade /\ ledgerUnique' = ledgerUnique
      /\ ledger' = ledger /\ built' = built /\ refresh' = refresh \cup {r}
      /\ fresh' = IF Mongo \/ core = Current THEN fresh \cup {r} ELSE fresh
  BY DEF Issue, plugins
<1>3. Fit(r, run[r])
  BY Typing
<1>4. \A q : Fit(r, q) => Fit(r, q)'
  BY <1>2 DEF Fit, Mongo, Preflight, CoreMode, Pending, Versions, Rel, HasVersion, BuiltOf
<1>5. Ledgers'
  BY <1>2 DEF Inv, Ledgers, OneRecordPerVersion, BuiltOf
<1>6. Stored'
  BY <1>2 DEF Inv, Stored, NothingNewIsLost, Mongo
<1>7. /\ core' \in 0 .. Current /\ refresh' \subseteq {"legacy"} \cup Runner /\ fresh' \subseteq Runner
      /\ challenges' \subseteq 1 .. Newest /\ ledgerMade' \in BOOLEAN /\ ledgerUnique' \in BOOLEAN
      /\ ledger' \subseteq Record /\ built' \subseteq Element /\ crashes' \in 0 .. MaxCrashes
  BY <1>2 DEF Inv, TypeOK
<1>8. \A t \in Transaction : run[r].pc = t => LockFree(t)
  BY <1>1 DEF Transaction
<1>9. PICK q : q = run[r]
  OBVIOUS
<1>10. Contract(r, q)
  BY <1>1, <1>2, <1>3, <1>4, <1>5, <1>6, <1>7, <1>8, <1>9 DEF Contract
<1> QED BY <1>10
------------------------------------------------------------------------------
(* A step that changes the plugins' tables and ledger only, and the        *)
(* process.                                                                *)
LEMMA OnlyPlugins ==
    ASSUME Inv, NEW r \in Runner, NEW q \in Process, run' = [run EXCEPT ![r] = q], Fit(r, q)', Ledgers',
           UNCHANGED <<conf, core, storage, offline, fresh, crashes>>,
           ledger \subseteq ledger', built \subseteq built', ledgerUnique => ledgerUnique',
           ledger' = ledger \/ Mongo \/ At(r, "plugin_tx"),
           ledgerMade' \in BOOLEAN, ledgerUnique' \in BOOLEAN, ledger' \subseteq Record, built' \subseteq Element,
           q.pc \notin Transaction
    PROVE  Contract(r, q)
<1>1. /\ conf' = conf /\ core' = core /\ refresh' = refresh /\ challenges' = challenges /\ names' = names
      /\ unique' = unique /\ offline' = offline /\ fresh' = fresh /\ crashes' = crashes
  BY DEF storage
<1>2. Stored'
  BY <1>1 DEF Inv, Stored, NothingNewIsLost, Mongo
<1>3. /\ core' \in 0 .. Current /\ refresh' \subseteq {"legacy"} \cup Runner /\ fresh' \subseteq Runner
      /\ challenges' \subseteq 1 .. Newest /\ crashes' \in 0 .. MaxCrashes
  BY <1>1 DEF Inv, TypeOK
<1> QED BY <1>1, <1>2, <1>3 DEF Contract

(* Recording versions that have no record, by a process whose elements are *)
(* all there, keeps the ledger sound.                                      *)
LEMMA RecordKeeps ==
    ASSUME Inv, NEW r \in Runner, NEW V, V \subseteq Versions(r), \A v \in V : ~HasVersion(v),
           ledger' = ledger \cup Recorded(r, V), conf' = conf, built \subseteq built', BuiltOf(Rel(r))'
    PROVE  Ledgers' /\ ledger \subseteq ledger' /\ ledger' \subseteq Record /\ \A v \in V : HasVersion(v)'
<1>1. Rel(r) \in Release /\ V \subseteq Release
  BY Typing, ReleaseAssumption DEF Versions, Release
<1>2. Recorded(r, V) \subseteq Record
  BY <1>1 DEF Recorded, Record
<1>3. ledger' \subseteq Record /\ ledger \subseteq ledger'
  BY <1>2 DEF Inv, TypeOK
<1>4. ASSUME NEW x \in ledger', NEW y \in ledger', x.version = y.version PROVE x = y
  <2>1. CASE x \in ledger /\ y \in ledger
    BY <1>4, <2>1 DEF Inv, Ledgers, OneRecordPerVersion
  <2>2. CASE x \in Recorded(r, V) /\ y \in Recorded(r, V)
    <3>1. x = [version |-> x.version, fingerprint |-> Rel(r), by |-> r]
      BY <2>2 DEF Recorded
    <3>2. y = [version |-> y.version, fingerprint |-> Rel(r), by |-> r]
      BY <2>2 DEF Recorded
    <3> QED BY <1>4, <3>1, <3>2
  <2>3. ASSUME NEW z \in Recorded(r, V) PROVE ~HasVersion(z.version)
    BY <2>3 DEF Recorded
  <2> QED BY <1>4, <2>1, <2>2, <2>3 DEF HasVersion
<1>5. ASSUME NEW x \in ledger' PROVE BuiltOf(x.fingerprint)'
  <2>1. CASE x \in ledger
    <3>1. BuiltOf(x.fingerprint)
      BY <2>1 DEF Inv, Ledgers
    <3> QED BY <3>1 DEF BuiltOf
  <2>2. CASE x \in Recorded(r, V)
    <3>1. x.fingerprint = Rel(r)
      BY <2>2 DEF Recorded
    <3> QED BY <3>1 DEF BuiltOf, Rel
  <2> QED BY <2>1, <2>2
<1>6. ASSUME NEW v \in V PROVE HasVersion(v)'
  <2>1. [version |-> v, fingerprint |-> Rel(r), by |-> r] \in Recorded(r, V)
    BY DEF Recorded
  <2> QED BY <2>1 DEF HasVersion
<1> QED BY <1>3, <1>4, <1>5, <1>6 DEF Ledgers, OneRecordPerVersion

LEMMA ExecuteGoes ==
    ASSUME Inv, NEW r \in Runner, execute_postgres_plugin_migrations(r)
    PROVE  \E q : Contract(r, q)
<1> DEFINE q == [pc |-> "started", seen |-> 0, pending |-> {}, next |-> 0]
<1>1. run' = [run EXCEPT ![r] = q]
  BY FromDown, Zenon DEF execute_postgres_plugin_migrations, Set
<1>2. q \in Process /\ q.pc = "started" /\ q.pc \notin Transaction
  BY DEF Process, Current, Transaction
<1>3. ~Mongo /\ (CoreMode(r) # "disabled" => core = Current) /\ run[r].pending = Pending(r, ledger) /\ At(r, "plugin_tx")
  BY Typing DEF execute_postgres_plugin_migrations, At, Fit
<1>4. /\ UNCHANGED <<conf, core, storage, offline, fresh, crashes>> /\ ledgerUnique' = ledgerUnique
      /\ ledgerMade' = TRUE /\ built' = built \cup Elements(r) /\ ledger' = ledger \cup Recorded(r, Pending(r, ledger))
  BY <1>3 DEF execute_postgres_plugin_migrations
<1>5. PICK V : V = Pending(r, ledger)
  OBVIOUS
<1>6. V \subseteq Versions(r) /\ (\A v \in V : ~HasVersion(v)) /\ \A v \in Versions(r) \ V : HasVersion(v)
  BY <1>5 DEF Pending, Versions, HasVersion
<1>7. Elements(r) \subseteq Element
  BY Typing DEF Elements
<1>8. BuiltOf(Rel(r))'
  BY <1>4 DEF BuiltOf, Elements, Rel
<1>9. Ledgers' /\ ledger \subseteq ledger' /\ ledger' \subseteq Record /\ \A v \in V : HasVersion(v)'
  BY <1>4, <1>5, <1>6, <1>8, RecordKeeps
<1>10. \A v \in Versions(r) : HasVersion(v)'
  BY <1>6, <1>9 DEF HasVersion
<1> HIDE DEF q
<1>11. (Mongo' <=> Mongo) /\ CoreMode(r)' = CoreMode(r) /\ Versions(r)' = Versions(r) /\ core' = core
  BY <1>4 DEF Mongo, CoreMode, Versions, Rel
<1>12. Fit(r, q)'
  BY <1>2, <1>3, <1>8, <1>10, <1>11 DEF Fit, Migrating
<1>13. built' \subseteq Element /\ ledgerUnique' \in BOOLEAN /\ ledgerMade' \in BOOLEAN /\ built \subseteq built'
  BY <1>4, <1>7 DEF Inv, TypeOK
<1>14. (ledgerUnique => ledgerUnique')
  BY <1>4
<1> QED BY <1>1, <1>2, <1>3, <1>4, <1>9, <1>12, <1>13, <1>14, OnlyPlugins
------------------------------------------------------------------------------
(* MongoDB builds one element after the other and records one version      *)
(* after the other.                                                        *)
LEMMA AtWork ==
    ASSUME Inv, NEW r \in Runner, run[r].pc \in Migrating
    PROVE  /\ Mongo /\ Preflight /\ run[r].pending # {} /\ run[r].pending \subseteq Versions(r)
           /\ \A v \in Versions(r) \ run[r].pending : HasVersion(v)
           /\ (run[r].pc # "ledger" /\ run[r].pc # "ledger_index" => ledgerUnique)
           /\ Versions(r) \subseteq Nat /\ Versions(r) \subseteq Release
<1>1. Fit(r, run[r])
  BY Typing
<1>2. Mongo
  BY <1>1 DEF Fit
<1>3. Preflight
  BY <1>1, <1>2 DEF Fit, Migrating
<1>4. /\ run[r].pending # {} /\ run[r].pending \subseteq Versions(r)
      /\ \A v \in Versions(r) \ run[r].pending : HasVersion(v)
  BY <1>1 DEF Fit
<1>5. run[r].pc # "ledger" /\ run[r].pc # "ledger_index" => ledgerUnique
  BY <1>1 DEF Fit, Migrating
<1>6. Versions(r) \subseteq Release
  BY Typing, ReleaseAssumption DEF Versions, Release
<1>7. Versions(r) \subseteq Nat
  BY DEF Versions
<1> QED BY <1>2, <1>3, <1>4, <1>5, <1>6, <1>7

LEMMA CreateLedgerGoes ==
    ASSUME Inv, NEW r \in Runner, CreateLedger(r)
    PROVE  \E q : Contract(r, q)
<1>1. PICK q \in Process : Set(r, q) /\ q.pc = "ledger_index" /\ q.pending = run[r].pending
  BY Moved, Typing DEF CreateLedger
<1>2. run[r].pc \in Migrating
  BY DEF CreateLedger, At, Migrating
<1>3. /\ UNCHANGED <<conf, core, storage, offline, fresh, crashes>> /\ ledgerUnique' = ledgerUnique
      /\ ledgerMade' = TRUE /\ built' = built /\ ledger' = ledger
  BY DEF CreateLedger
<1>4. Fit(r, q)
  BY <1>1, <1>2, AtWork DEF Fit, Migrating
<1>5. Fit(r, q)'
  BY <1>3, <1>4 DEF Fit, storage, Mongo, Preflight, CoreMode, Pending, Versions, Rel, HasVersion, BuiltOf
<1>6. Ledgers'
  BY <1>3 DEF Inv, Ledgers, OneRecordPerVersion, BuiltOf
<1>7. ledger' \subseteq Record /\ built' \subseteq Element /\ ledgerUnique' \in BOOLEAN /\ ledgerMade' \in BOOLEAN
  BY <1>3 DEF Inv, TypeOK
<1>8. run' = [run EXCEPT ![r] = q] /\ q.pc \notin Transaction
  BY <1>1 DEF Set, Transaction
<1> QED BY <1>3, <1>5, <1>6, <1>7, <1>8, OnlyPlugins

LEMMA IndexLedgerGoes ==
    ASSUME Inv, NEW r \in Runner, IndexLedger(r)
    PROVE  \E q : Contract(r, q)
<1>1. run[r].pc \in Migrating
  BY DEF IndexLedger, At, Migrating
<1>2. /\ UNCHANGED <<conf, core, storage, offline, fresh, crashes>> /\ ledgerUnique' = TRUE
      /\ ledgerMade' = ledgerMade /\ built' = built /\ ledger' = ledger
  BY DEF IndexLedger, MakesUnique
<1>3. PICK d, q : d = [run[r] EXCEPT !.pc = "build"] /\ q = [d EXCEPT !.next = 1] /\ Set(r, q)
  <2>1. Set(r, [run[r] EXCEPT !.pc = "build", !.next = 1])
    BY Zenon DEF IndexLedger, FirstElement
  <2> QED BY <2>1, Zenon
<1>4. d \in Process /\ d.pc = "build" /\ d.pending = run[r].pending
  BY <1>3, Typing DEF Process
<1>5. q \in Process /\ q.pc = "build" /\ q.pending = run[r].pending /\ q.next = 1
  BY <1>3, <1>4 DEF Process
<1>6. DOMAIN Builds[Rel(r)] \subseteq Nat /\ \A i \in DOMAIN Builds[Rel(r)] : i >= 1
  BY Typing
<1>7. q.next >= 1 /\ \A i \in DOMAIN Builds[Rel(r)] : i < q.next => Builds[Rel(r)][i] \in built
  BY <1>5, <1>6
<1>8. /\ (Mongo' <=> Mongo) /\ (Preflight' <=> Preflight) /\ Versions(r)' = Versions(r) /\ Rel(r)' = Rel(r)
      /\ \A v : HasVersion(v) => HasVersion(v)'
  BY <1>2 DEF storage, Mongo, Preflight, Versions, Rel, HasVersion
<1>9. Fit(r, q)'
  BY <1>1, <1>2, <1>5, <1>7, <1>8, AtWork DEF Fit, Migrating
<1>10. Ledgers'
  BY <1>2 DEF Inv, Ledgers, OneRecordPerVersion, BuiltOf
<1>11. ledger' \subseteq Record /\ built' \subseteq Element /\ ledgerUnique' \in BOOLEAN /\ ledgerMade' \in BOOLEAN
  BY <1>2 DEF Inv, TypeOK
<1>12. run' = [run EXCEPT ![r] = q] /\ q.pc \notin Transaction
  BY <1>3, <1>5 DEF Set, Transaction
<1> QED BY <1>2, <1>5, <1>9, <1>10, <1>11, <1>12, OnlyPlugins

LEMMA BuildGoes ==
    ASSUME Inv, NEW r \in Runner, Build(r)
    PROVE  \E q : Contract(r, q)
<1>1. run[r].pc = "build" /\ run[r].pc \in Migrating
  BY DEF Build, At, Migrating
<1>2. PICK i : i = run[r].next
  OBVIOUS
<1>3. i \in Nat /\ i >= 1 /\ (\A k \in DOMAIN Builds[Rel(r)] : k < i => Builds[Rel(r)][k] \in built) /\ ledgerUnique
  BY <1>1, <1>2, Typing DEF Fit, Process
<1>4. PICK b : b = Builds[Rel(r)]
  OBVIOUS
<1>5. b \in Seq(Element) /\ Len(b) \in Nat /\ DOMAIN b = 1 .. Len(b)
  BY <1>4, Typing
<1>6. /\ UNCHANGED <<conf, core, storage, offline, fresh, crashes>> /\ ledgerUnique' = ledgerUnique
      /\ ledgerMade' = ledgerMade /\ ledger' = ledger
  BY DEF Build
<1>7. built \subseteq built' /\ built' \subseteq Element
  <2>1. built' = built \/ (i \in 1 .. Len(b) /\ built' = built \cup {b[i]})
    <3>1. i > Len(b) \/ i \in 1 .. Len(b)
      BY <1>3, <1>5
    <3>2. i > Len(b) => built' = built
      BY <1>2, <1>4, ZenonT(30) DEF Build
    <3>3. ~(i > Len(b)) => built' = built \cup {b[i]}
      BY <1>2, <1>4, ZenonT(30) DEF Build
    <3> QED BY <3>1, <3>2, <3>3
  <2>2. i \in 1 .. Len(b) => b[i] \in Element
    BY <1>5
  <2> QED BY <2>1, <2>2 DEF Inv, TypeOK
<1>8. /\ (Mongo' <=> Mongo) /\ (Preflight' <=> Preflight) /\ Versions(r)' = Versions(r) /\ Rel(r)' = Rel(r)
      /\ \A v : HasVersion(v) => HasVersion(v)'
  BY <1>6 DEF storage, Mongo, Preflight, Versions, Rel, HasVersion
<1>9. Ledgers'
  BY <1>6, <1>7 DEF Inv, Ledgers, OneRecordPerVersion, BuiltOf
<1>10. ledger' \subseteq Record /\ ledgerUnique' \in BOOLEAN /\ ledgerMade' \in BOOLEAN
  BY <1>6 DEF Inv, TypeOK
<1>11. CASE i > Len(b)
  <2>1. PICK q \in Process : Set(r, q) /\ q.pc = "record" /\ q.pending = run[r].pending
    BY <1>2, <1>4, <1>11, Moved, Typing DEF Build
  <2>2. BuiltOf(Rel(r))
    BY <1>3, <1>4, <1>5, <1>11 DEF BuiltOf
  <2>3. BuiltOf(Rel(r))'
    BY <1>7, <1>8, <2>2 DEF BuiltOf
  <2>4. Fit(r, q)'
    BY <1>1, <1>3, <1>6, <1>8, <2>1, <2>3, AtWork DEF Fit, Migrating
  <2>5. run' = [run EXCEPT ![r] = q] /\ q.pc \notin Transaction
    BY <2>1 DEF Set, Transaction
  <2> QED BY <1>6, <1>7, <1>9, <1>10, <2>1, <2>4, <2>5, OnlyPlugins
<1>12. CASE ~(i > Len(b))
  <2>1. Set(r, [run[r] EXCEPT !.next = i + 1]) /\ built' = built \cup {b[i]}
    BY <1>2, <1>4, <1>12, Zenon DEF Build
  <2>2. PICK q : q = [run[r] EXCEPT !.next = i + 1]
    OBVIOUS
  <2>3. q \in Process /\ q.pc = "build" /\ q.pending = run[r].pending /\ q.next = i + 1
    <3>1. run[r] \in Process /\ i + 1 \in Nat
      BY <1>3, Typing
    <3> QED BY <1>1, <2>2, <3>1 DEF Process
  <2>4. \A k \in DOMAIN b : k < i + 1 => b[k] \in built'
    <3>1. ASSUME NEW k \in DOMAIN b, k < i + 1 PROVE b[k] \in built'
      <4>1. k = i \/ k < i
        BY <1>3, <1>5, <3>1
      <4> QED BY <1>3, <1>4, <1>7, <2>1, <3>1, <4>1
    <3> QED BY <3>1
  <2>5. Fit(r, q)'
    BY <1>1, <1>3, <1>4, <1>6, <1>8, <2>3, <2>4, AtWork DEF Fit, Migrating
  <2>6. run' = [run EXCEPT ![r] = q] /\ q.pc \notin Transaction
    BY <2>1, <2>2, <2>3 DEF Set, Transaction
  <2> QED BY <1>6, <1>7, <1>9, <1>10, <2>3, <2>5, <2>6, OnlyPlugins
<1> QED BY <1>11, <1>12

(* One version less to record: the process goes on, or is started.         *)
LEMMA DoneGoes ==
    ASSUME Inv, NEW r \in Runner, NEW v \in run[r].pending, Done(r, v), run[r].pc \in {"record", "compare"},
           UNCHANGED <<conf, core, storage, offline, fresh, crashes>>, ledgerUnique' = ledgerUnique,
           built' = built, ledgerMade' = ledgerMade, ledger \subseteq ledger', ledger' \subseteq Record,
           Ledgers', HasVersion(v)'
    PROVE  \E q : Contract(r, q)
<1>1. run[r].pc \in Migrating /\ run[r].pc # "ledger" /\ run[r].pc # "ledger_index"
  BY DEF Migrating
<1>2. BuiltOf(Rel(r)) /\ ledgerUnique
  BY <1>1, Typing DEF Fit
<1>3. /\ (Mongo' <=> Mongo) /\ (Preflight' <=> Preflight) /\ Versions(r)' = Versions(r) /\ Rel(r)' = Rel(r)
      /\ \A u : HasVersion(u) => HasVersion(u)'
  BY DEF storage, Mongo, Preflight, Versions, Rel, HasVersion
<1>4. BuiltOf(Rel(r))'
  BY <1>2, <1>3 DEF BuiltOf
<1>5. PICK left : left = run[r].pending \ {v}
  OBVIOUS
<1>6. left \subseteq Versions(r) /\ \A u \in Versions(r) \ left : HasVersion(u)'
  BY <1>1, <1>3, <1>5, AtWork
<1>7. built' \subseteq Element /\ ledgerUnique' \in BOOLEAN /\ ledgerMade' \in BOOLEAN /\ ledgerUnique'
  BY <1>2 DEF Inv, TypeOK
<1>8. Mongo /\ Preflight /\ Versions(r) \subseteq Release
  BY <1>1, AtWork
<1>9. CASE left = {}
  <2> DEFINE q == [pc |-> "started", seen |-> 0, pending |-> {}, next |-> 0]
  <2>1. run' = [run EXCEPT ![r] = q]
    BY <1>5, <1>9, FromDown, Zenon DEF Done, Set
  <2>2. q \in Process /\ q.pc = "started" /\ q.pc \notin Transaction
    BY DEF Process, Current, Transaction
  <2> HIDE DEF q
  <2>3. Fit(r, q)'
    BY <1>3, <1>4, <1>6, <1>8, <1>9, <2>2 DEF Fit, Migrating
  <2> QED BY <1>7, <1>8, <2>1, <2>2, <2>3, OnlyPlugins
<1>10. CASE left # {}
  <2>1. PICK d, q : d = [run[r] EXCEPT !.pc = "record"] /\ q = [d EXCEPT !.pending = left] /\ run' = [run EXCEPT ![r] = q]
    <3>1. Set(r, [run[r] EXCEPT !.pc = "record", !.pending = left])
      BY <1>5, <1>10, Zenon DEF Done
    <3> QED BY <3>1, Zenon DEF Set
  <2>2. d \in Process /\ d.pc = "record"
    BY <2>1, Typing DEF Process
  <2>3. q \in Process /\ q.pc = "record" /\ q.pending = left /\ q.pc \notin Transaction
    BY <1>6, <1>8, <2>1, <2>2 DEF Process, Transaction
  <2>4. Fit(r, q)'
    BY <1>3, <1>4, <1>6, <1>7, <1>8, <1>10, <2>3 DEF Fit, Migrating
  <2> QED BY <1>7, <1>8, <2>1, <2>3, <2>4, OnlyPlugins
<1> QED BY <1>9, <1>10

LEMMA RecordGoes ==
    ASSUME Inv, NEW r \in Runner, RecordVersion(r)
    PROVE  \E q : Contract(r, q)
<1>1. run[r].pc = "record" /\ run[r].pc \in Migrating
  BY DEF RecordVersion, At, Migrating
<1>2. PICK v : v = First(run[r].pending)
  OBVIOUS
<1>3. v \in run[r].pending /\ v \in Versions(r)
  BY <1>1, <1>2, AtWork, FirstIsPending
<1>4. BuiltOf(Rel(r)) /\ ledgerUnique
  BY <1>1, Typing DEF Fit
<1>5. /\ UNCHANGED <<conf, core, storage, offline, fresh, crashes>> /\ ledgerUnique' = ledgerUnique
      /\ ledgerMade' = ledgerMade /\ built' = built
  BY DEF RecordVersion
<1>6. BuiltOf(Rel(r))'
  BY <1>4, <1>5 DEF BuiltOf, Rel
<1>7. CASE HasVersion(v)
  <2>1. Goto(r, "compare") /\ ledger' = ledger
    BY <1>2, <1>4, <1>7 DEF RecordVersion, HasVersion
  <2>2. PICK q \in Process : Set(r, q) /\ q.pc = "compare" /\ q.pending = run[r].pending
    BY <2>1, Moved, Typing
  <2>3. Fit(r, q)
    BY <1>1, <1>4, <2>2, AtWork DEF Fit, Migrating
  <2>4. \A t \in Transaction : q.pc = t => LockFree(t)
    BY <2>2 DEF Transaction
  <2>5. UNCHANGED <<conf, core, storage, offline, plugins, fresh>> /\ crashes' \in 0 .. MaxCrashes
    BY <1>5, <2>1, Typing DEF plugins
  <2> QED BY <2>2, <2>3, <2>4, <2>5, OnlyProcess
<1>8. CASE ~HasVersion(v)
  <2>1. ledger' = ledger \cup Recorded(r, {v}) /\ Done(r, v)
    BY <1>2, <1>8 DEF RecordVersion, HasVersion
  <2>2. Ledgers' /\ ledger \subseteq ledger' /\ ledger' \subseteq Record /\ \A u \in {v} : HasVersion(u)'
    <3>1. {v} \subseteq Versions(r) /\ \A u \in {v} : ~HasVersion(u)
      BY <1>3, <1>8
    <3>2. PICK V : V = {v}
      OBVIOUS
    <3> QED BY <1>5, <1>6, <2>1, <3>1, <3>2, RecordKeeps
  <2>3. HasVersion(v)'
    BY <2>2
  <2> QED BY <1>1, <1>3, <1>5, <2>1, <2>2, <2>3, DoneGoes
<1> QED BY <1>7, <1>8

LEMMA CompareGoes ==
    ASSUME Inv, NEW r \in Runner, CompareRecord(r)
    PROVE  \E q : Contract(r, q)
<1>1. run[r].pc = "compare" /\ run[r].pc \in Migrating
  BY DEF CompareRecord, At, Migrating
<1>2. PICK v : v = First(run[r].pending)
  OBVIOUS
<1>3. v \in run[r].pending
  BY <1>1, <1>2, AtWork, FirstIsPending
<1>4. UNCHANGED <<conf, core, storage, offline, plugins, fresh, crashes>>
  BY DEF CompareRecord
<1>5. CASE \E x \in ledger : x.version = v /\ x.fingerprint = Rel(r)
  <2>1. Done(r, v) /\ HasVersion(v)
    BY <1>2, <1>5 DEF CompareRecord, HasVersion
  <2>2. /\ UNCHANGED <<conf, core, storage, offline, fresh, crashes>> /\ ledgerUnique' = ledgerUnique
        /\ ledgerMade' = ledgerMade /\ built' = built /\ ledger' = ledger
    BY <1>4 DEF plugins
  <2>3. HasVersion(v)' /\ ledger' \subseteq Record /\ Ledgers'
    BY <2>1, <2>2 DEF HasVersion, Inv, TypeOK, Ledgers, OneRecordPerVersion, BuiltOf
  <2> QED BY <1>1, <1>3, <2>1, <2>2, <2>3, DoneGoes
<1>6. CASE ~(\E x \in ledger : x.version = v /\ x.fingerprint = Rel(r))
  <2> DEFINE q == [pc |-> "failed", seen |-> 0, pending |-> {}, next |-> 0]
  <2>1. Set(r, q)
    BY <1>2, <1>6, FromDown, Zenon DEF CompareRecord
  <2>2. q \in Process /\ \A t \in Transaction : q.pc = t => LockFree(t)
    BY DEF Process, Current, Transaction
  <2>3. Fit(r, q)
    BY DEF Fit, Migrating
  <2> HIDE DEF q
  <2> QED BY <1>4, <2>1, <2>2, <2>3, OnlyProcess, Typing
<1> QED BY <1>5, <1>6
------------------------------------------------------------------------------
(* The offline migration of MongoDB runs while no process does, and may be *)
(* run again after it died.                                                *)
LEMMA OfflineKeeps ==
    ASSUME Inv, OfflineStep
    PROVE  Inv'
<1>1. PICK from, to : Offline(from, to) /\ to \in {"no", "users", "drop", "fill", "done"}
  BY DEF OfflineStep, IndexStrings, DropLegacy, DeleteSuperseded, IndexChallenges, FillConsumed, OfflineCrash
<1>2. /\ Mongo /\ (\A r \in Runner : At(r, "down") \/ At(r, "failed")) /\ offline' = to
      /\ conf' = conf /\ core' = core /\ refresh' = refresh /\ run' = run /\ fresh' = fresh
      /\ ledgerMade' = ledgerMade /\ ledgerUnique' = ledgerUnique /\ ledger' = ledger /\ built' = built
  BY <1>1 DEF Offline, plugins
<1>3. challenges \subseteq 1 .. Newest /\ challenges \subseteq Nat /\ (challenges # {} => Newest \in challenges)
      /\ (unique => challenges = Kept(challenges)) /\ unique \in BOOLEAN /\ names \in {"legacy", "both", "strings"}
      /\ crashes \in 0 .. MaxCrashes
  BY <1>2, BoundAssumption DEF Inv, TypeOK, Stored, NothingNewIsLost
<1>4. /\ challenges' \subseteq challenges /\ (challenges # {} => Newest \in challenges')
      /\ (unique' => challenges' = Kept(challenges')) /\ unique' \in BOOLEAN
  <2>1. CASE UNCHANGED <<challenges, unique>>
    BY <1>3, <2>1
  <2>2. CASE DeleteSuperseded
    <3>1. Newest \in Kept(challenges) \/ challenges = {}
      <4>1. \A m \in challenges : m <= Newest
        BY <1>3, BoundAssumption
      <4> QED BY <1>3, <4>1, KeptIsKept
    <3>2. challenges' = challenges \ Kept(challenges \ Kept(challenges)) /\ unique' = unique /\ ~unique
      BY <1>3, <2>2 DEF DeleteSuperseded
    <3>3. Kept(challenges \ Kept(challenges)) \subseteq challenges \ Kept(challenges)
      BY DEF Kept
    <3> QED BY <1>3, <3>1, <3>2, <3>3
  <2>3. CASE IndexChallenges
    BY <1>3, <2>3 DEF IndexChallenges
  <2> QED BY <2>1, <2>2, <2>3
          DEF OfflineStep, IndexStrings, DropLegacy, DeleteSuperseded, IndexChallenges, FillConsumed, OfflineCrash
<1>5. names' \in {"legacy", "both", "strings"} /\ crashes' \in 0 .. MaxCrashes
  BY <1>3, BoundAssumption
     DEF OfflineStep, IndexStrings, DropLegacy, DeleteSuperseded, IndexChallenges, FillConsumed, OfflineCrash
<1>6. TypeOK'
  BY <1>1, <1>2, <1>3, <1>4, <1>5 DEF Inv, TypeOK
<1>7. Ledgers'
  BY <1>2 DEF Inv, Ledgers, OneRecordPerVersion, BuiltOf
<1>8. Stored'
  BY <1>2, <1>4 DEF Inv, Stored, NothingNewIsLost, Mongo
<1>9. Exclusive'
  BY <1>2 DEF Inv, Exclusive, At
<1>10. ASSUME NEW r \in Runner PROVE Fit(r, run[r])'
  <2>1. run[r].pc = "down" \/ run[r].pc = "failed"
    BY <1>2 DEF At
  <2>2. run'[r] = run[r]
    BY <1>2
  <2> QED BY <2>1, <2>2 DEF Fit, Migrating
<1> QED BY <1>6, <1>7, <1>8, <1>9, <1>10 DEF Inv

LEMMA InitInv ==
    ASSUME Init
    PROVE  Inv
<1>1. conf \in Conf /\ conf.from \in 0 .. Current /\ conf.store \in {"postgres", "mongo"} /\ Newest \in Nat \ {0} /\ MaxCrashes \in Nat
  BY ConfAssumption, BoundAssumption DEF Init, Conf
<1>2. /\ core = conf.from /\ names = (IF conf.from = Current THEN "strings" ELSE "legacy")
      /\ unique = (conf.from = Current) /\ offline = "no" /\ ledgerMade = FALSE /\ ledgerUnique = FALSE /\ ledger = {}
      /\ built = {} /\ crashes = 0 /\ fresh = {} /\ run = [r \in Runner |-> Down]
  BY DEF Init
<1>3. challenges = {Newest} \/ challenges = {} \/ challenges = 1 .. Newest
  BY DEF Init
<1>4. conf.from = Current => challenges = {Newest}
  BY DEF Init
<1>5. refresh \subseteq {"legacy"}
  BY DEF Init
<1>6. Down \in Process
  BY DEF Down, Process, Current
<1>7. run \in [Runner -> Process] /\ \A r \in Runner : run[r] = Down
  BY <1>2, <1>6
<1>8. challenges \subseteq 1 .. Newest /\ (challenges # {} => Newest \in challenges)
  BY <1>1, <1>3
<1>9. TypeOK
  <2>1. conf \in Confs
    BY DEF Init
  <2>2. core \in 0 .. Current /\ names \in {"legacy", "both", "strings"} /\ unique \in BOOLEAN /\ crashes \in 0 .. MaxCrashes
        /\ offline \in {"no", "users", "drop", "dedupe", "fill", "done"}
    BY <1>1, <1>2
  <2>3. ledgerMade \in BOOLEAN /\ ledgerUnique \in BOOLEAN /\ ledger \subseteq Record /\ built \subseteq Element
        /\ refresh \subseteq {"legacy"} \cup Runner /\ fresh \subseteq Runner
    BY <1>2, <1>5
  <2> QED BY <1>7, <1>8, <2>1, <2>2, <2>3 DEF TypeOK
<1>10. Ledgers
  BY <1>2 DEF Ledgers, OneRecordPerVersion
<1>11. Stored
  <2>1. unique => challenges = Kept(challenges)
    <3>1. {Newest} = Kept({Newest})
      <4>1. Newest <= Newest
        BY <1>1
      <4> QED BY <4>1 DEF Kept
    <3> QED BY <1>2, <1>4, <3>1
  <2> QED BY <1>2, <1>8, <2>1 DEF Stored, NothingNewIsLost
<1>12. Exclusive
  BY <1>7 DEF Exclusive, At, Down, Transaction
<1>13. \A r \in Runner : Fit(r, Down)
  BY DEF Fit, Down, Migrating
<1> QED BY <1>7, <1>9, <1>10, <1>11, <1>12, <1>13 DEF Inv

LEMMA NextKeeps ==
    ASSUME Inv, Next
    PROVE  Inv'
<1>1. ASSUME NEW r \in Runner, Step(r) PROVE \E q : Contract(r, q)
  BY <1>1, StartMongoGoes, StartPostgresGoes, AssertGoes, LockGoes, ApplyGoes, SkipGoes, PluginLockGoes, ExecuteGoes,
     ListGoes, LoadGoes, CreateLedgerGoes, IndexLedgerGoes, BuildGoes, RecordGoes, CompareGoes DEF Step
<1>2. ASSUME NEW r \in Runner, Step(r) \/ Issue(r) \/ Crash(r) PROVE Inv'
  <2>1. PICK q : Contract(r, q)
    BY <1>1, <1>2, IssueGoes, CrashGoes
  <2> QED BY <2>1, ContractKeeps
<1> QED BY <1>2, OfflineKeeps DEF Next

LEMMA StutterKeeps ==
    ASSUME Inv, UNCHANGED vars
    PROVE  Inv'
BY DEF Inv, vars, storage, plugins, TypeOK, Ledgers, Stored, Exclusive, OneRecordPerVersion, NothingNewIsLost, BuiltOf,
       Fit, Mongo, Preflight, CoreMode, Pending, Versions, Rel, HasVersion, At
------------------------------------------------------------------------------
(* Type correctness.                                                       *)
THEOREM TypeCorrect == Spec => []TypeOK
<1>1. Init => Inv
  BY InitInv
<1>2. Inv /\ [Next]_vars => Inv'
  BY NextKeeps, StutterKeeps
<1>3. Inv => TypeOK
  BY DEF Inv
<1> QED BY <1>1, <1>2, <1>3, PTL DEF Spec

(* However many processes of however many releases migrate, die and are    *)
(* started again, a started process has the schema of its release, a       *)
(* version is recorded once, and no migration deletes what was issued on   *)
(* the current schema.                                                     *)
THEOREM MigratedIsSoundAlways == Spec => []MigratedIsSound
<1>1. Init => Inv
  BY InitInv
<1>2. Inv /\ [Next]_vars => Inv'
  BY NextKeeps, StutterKeeps
<1>3. ASSUME Inv PROVE MigratedIsSound
  <2>1. ASSUME NEW r \in Runner, At(r, "started")
        PROVE  /\ Mongo => Preflight /\ challenges = Kept(challenges)
               /\ ~Mongo /\ CoreMode(r) # "disabled" => core = Current
               /\ conf.plugin[r] # "disabled" =>
                      Elements(r) \subseteq built /\ \A v \in 1 .. Rel(r) : \E x \in ledger : x.version = v
    <3>1. Fit(r, run[r]) /\ run[r].pc = "started"
      BY <1>3, <2>1, Typing DEF At
    <3>2. Mongo => Preflight
      BY <3>1 DEF Fit
    <3>3. Mongo => challenges = Kept(challenges)
      BY <1>3, <3>2 DEF Inv, Stored, Preflight
    <3>4. ~Mongo /\ CoreMode(r) # "disabled" => core = Current
      BY <3>1 DEF Fit
    <3>5. conf.plugin[r] # "disabled" => BuiltOf(Rel(r)) /\ \A v \in Versions(r) : HasVersion(v)
      BY <3>1 DEF Fit
    <3> QED BY <3>2, <3>3, <3>4, <3>5 DEF BuiltOf, Versions, HasVersion, Elements
  <2>2. StartedIsCurrent
    BY <2>1 DEF StartedIsCurrent
  <2> QED BY <1>3, <2>2 DEF Inv, Ledgers, Stored, MigratedIsSound
<1> QED BY <1>1, <1>2, <1>3, PTL DEF Spec
------------------------------------------------------------------------------
(* Maintenance.                                                            *)

(* The plan of a run names each resource once.                             *)
LEMMA PlanIs ==
    ASSUME NEW w
    PROVE  /\ Len(Operations(w)) \in Nat \ {0}
           /\ \A i \in 1 .. Len(Operations(w)) : Operations(w)[i] \in Resource
           /\ \A i, j \in 1 .. Len(Operations(w)) : Operations(w)[i] = Operations(w)[j] => i = j
<1> DEFINE P == <<"refresh_tokens", "sessions", "verifications", "api_keys">>
           L == <<"audit_logs">>
<1>1. CASE w \in Endpoint
  BY <1>1 DEF Operations, Resource
<1>2. CASE w \notin Endpoint
  <2>1. /\ P \in Seq(Resource) /\ Len(P) = 4
        /\ P[1] = "refresh_tokens" /\ P[2] = "sessions" /\ P[3] = "verifications" /\ P[4] = "api_keys"
    BY DEF Resource
  <2>2. L \in Seq(Resource) /\ Len(L) = 1 /\ L[1] = "audit_logs" /\ <<>> \in Seq(Resource)
    BY DEF Resource
  <2> HIDE DEF P, L
  <2>3. Operations(w) = P \o <<>> \/ Operations(w) = P \o L
    <3>1. Operations(w) = P \o (IF deployment.retention = 0 THEN <<>> ELSE L)
      BY <1>2 DEF Operations, P, L
    <3> QED BY <3>1
  <2>4. CASE Operations(w) = P \o <<>>
    <3>1. Len(Operations(w)) = 4 /\ \A i \in 1 .. 4 : Operations(w)[i] = P[i]
      BY <2>1, <2>2, <2>4
    <3> QED BY <2>1, <3>1 DEF Resource
  <2>5. CASE Operations(w) = P \o L
    <3>1. /\ Len(P \o L) = Len(P) + Len(L)
          /\ \A i \in 1 .. Len(P) + Len(L) : (P \o L)[i] = IF i <= Len(P) THEN P[i] ELSE L[i - Len(P)]
      BY <2>1, <2>2, ConcatProperties
    <3>2. Len(P \o L) = 5 /\ (\A i \in 1 .. 4 : (P \o L)[i] = P[i]) /\ (P \o L)[5] = L[1]
      BY <2>1, <2>2, <3>1
    <3> QED BY <2>1, <2>2, <2>5, <3>2 DEF Resource
  <2> QED BY <2>3, <2>4, <2>5
<1> QED BY <1>1, <1>2

(* What the run has yet to remove, and may still remove, of a resource:    *)
(* nothing is added to it, for what is issued now is due at none of the    *)
(* cutoffs taken so far.                                                   *)
StillDue(w, k) == {x \in Row : KindOf[x] = k /\ (Due(x, sweep[w].cutoff) \/ x \in sweep[w].picked)}

(* A run removes no more rows of a resource than there are slots for.      *)
Spent(w) ==
    \A k \in Resource :
        /\ sweep[w].deleted[k] <= sweep[w].removed[k]
        /\ sweep[w].removed[k] + Cardinality(StillDue(w, k)) <= Cardinality(Slots(k))

Working(w) == sweep[w].pc \in {"batch", "delete"}

(* The result is right for the operations behind the current one, the      *)
(* current one has its total yet, and those to come have nothing.          *)
Booked(w) ==
    /\ sweep[w].at <= Len(Operations(w))
    /\ sweep[w].total = sweep[w].removed[Op(w)]
    /\ \A j \in sweep[w].at .. Len(Operations(w)) :
          /\ sweep[w].deleted[Operations(w)[j]] = 0
          /\ Operations(w)[j] \notin sweep[w].failures
          /\ j > sweep[w].at => sweep[w].removed[Operations(w)[j]] = 0
    /\ \A k \in Resource \ {Op(w)} :
          sweep[w].deleted[k] = (IF k \in sweep[w].failures THEN 0 ELSE sweep[w].removed[k])

(* What was selected is of the operation, and due unless it is gone or a   *)
(* challenge was issued again under its id.                                *)
Selected(w) ==
    /\ sweep[w].pc = "delete" => OnMongo
    /\ \A x \in sweep[w].picked :
          /\ sweep[w].pc = "delete" /\ KindOf[x] = Op(w)
          /\ stamp[x] # 0 /\ ~Due(x, sweep[w].cutoff) => KindOf[x] = "verifications"

SweepState == [pc : {"idle", "batch", "delete", "done", "raised"},
          cutoff : Nat, at : Nat \ {0}, batches : Nat, total : Nat, picked : SUBSET Row,
          deleted : [Resource -> Nat], failures : SUBSET Resource, removed : [Resource -> Nat]]

SweepTyped ==
    /\ deployment \in Deployments
    /\ clock \in 1 .. MaxClock
    /\ stamp \in [Row -> 0 .. Never]
    /\ sweep \in [Run -> SweepState]
    /\ faults \in 0 .. MaxFaults
    /\ lost \subseteq Row

Reported(w) ==
    SweepAt(w, "done") =>
        \A k \in Resource : sweep[w].deleted[k] = (IF k \in sweep[w].failures THEN 0 ELSE sweep[w].removed[k])

SweepGood(w) == sweep[w].cutoff <= clock /\ Spent(w) /\ Selected(w) /\ (Working(w) => Booked(w)) /\ Reported(w)

SweepInv == SweepTyped /\ \A w \in Run : SweepGood(w)
------------------------------------------------------------------------------
(* One field at a time.                                                    *)
LEMMA BatchedIs ==
    ASSUME NEW w, sweep[w] \in SweepState, Op(w) \in Resource, NEW T, Cardinality(T) \in Nat,
           NEW count \in Nat, NEW q, q = Batched(w, T, count)
    PROVE  /\ q \in SweepState
           /\ q.cutoff = sweep[w].cutoff /\ q.at = sweep[w].at /\ q.total = sweep[w].total + count
           /\ q.picked = {} /\ q.deleted = sweep[w].deleted /\ q.failures = sweep[w].failures
           /\ q.removed = [sweep[w].removed EXCEPT ![Op(w)] = sweep[w].removed[Op(w)] + Cardinality(T)]
<1> DEFINE d == [sweep[w].removed EXCEPT ![Op(w)] = sweep[w].removed[Op(w)] + Cardinality(T)]
<1>1. PICK r, e, f, g : /\ r = sweep[w] /\ e = [r EXCEPT !.batches = sweep[w].batches + 1]
                        /\ f = [e EXCEPT !.total = sweep[w].total + count] /\ g = [f EXCEPT !.picked = {}]
  OBVIOUS
<1>2. q = [g EXCEPT !.removed = d]
  BY <1>1, Zenon DEF Batched
<1>3. sweep[w].batches + 1 \in Nat /\ sweep[w].total + count \in Nat /\ d \in [Resource -> Nat]
  BY DEF SweepState
<1> HIDE DEF d
<1>4. e = [r EXCEPT !.batches = sweep[w].batches + 1] /\ r \in SweepState
  BY <1>1
<1>5. /\ e \in SweepState /\ e.cutoff = r.cutoff /\ e.at = r.at /\ e.deleted = r.deleted /\ e.failures = r.failures
  BY <1>3, <1>4 DEF SweepState
<1>6. f = [e EXCEPT !.total = sweep[w].total + count]
  BY <1>1
<1>7. /\ f \in SweepState /\ f.cutoff = e.cutoff /\ f.at = e.at /\ f.total = sweep[w].total + count
      /\ f.deleted = e.deleted /\ f.failures = e.failures
  BY <1>3, <1>5, <1>6 DEF SweepState
<1>8. g = [f EXCEPT !.picked = {}]
  BY <1>1
<1>9. /\ g \in SweepState /\ g.cutoff = f.cutoff /\ g.at = f.at /\ g.total = f.total
      /\ g.picked = {} /\ g.deleted = f.deleted /\ g.failures = f.failures
  BY <1>7, <1>8 DEF SweepState
<1>10. /\ q \in SweepState /\ q.cutoff = g.cutoff /\ q.at = g.at /\ q.total = g.total
       /\ q.picked = {} /\ q.deleted = g.deleted /\ q.failures = g.failures /\ q.removed = d
  BY <1>2, <1>3, <1>9 DEF SweepState
<1>11. r = sweep[w]
  BY <1>1
<1>12. q.removed = [sweep[w].removed EXCEPT ![Op(w)] = sweep[w].removed[Op(w)] + Cardinality(T)]
  BY <1>10 DEF d
<1> QED BY <1>5, <1>7, <1>9, <1>10, <1>11, <1>12

LEMMA ReportingIs ==
    ASSUME NEW w, Op(w) \in Resource, NEW r \in SweepState, NEW q, q = Reporting(w, r)
    PROVE  /\ q \in SweepState
           /\ q.cutoff = r.cutoff /\ q.at = r.at /\ q.picked = r.picked /\ q.failures = r.failures
           /\ q.removed = r.removed /\ q.deleted = [r.deleted EXCEPT ![Op(w)] = r.total]
<1> DEFINE d == [r.deleted EXCEPT ![Op(w)] = r.total]
<1>1. d \in [Resource -> Nat]
  BY DEF SweepState
<1>2. q = [r EXCEPT !.deleted = d]
  BY Zenon DEF Reporting
<1> HIDE DEF d
<1>3. /\ q \in SweepState
      /\ q.cutoff = r.cutoff /\ q.at = r.at /\ q.picked = r.picked /\ q.failures = r.failures
      /\ q.removed = r.removed /\ q.deleted = d
  BY <1>1, <1>2 DEF SweepState
<1> QED BY <1>3 DEF d

LEMMA MovedIs ==
    ASSUME NEW r \in SweepState, NEW p \in {"batch", "done"}, NEW q, q = [r EXCEPT !.pc = p]
    PROVE  /\ q \in SweepState
           /\ q.pc = p /\ q.cutoff = r.cutoff /\ q.at = r.at /\ q.batches = r.batches /\ q.total = r.total
           /\ q.picked = r.picked /\ q.deleted = r.deleted /\ q.failures = r.failures /\ q.removed = r.removed
BY DEF SweepState

(* The next operation starts with nothing, after the last one the run is   *)
(* done.                                                                   *)
LEMMA AdvanceIs ==
    ASSUME NEW w, NEW r \in SweepState, NEW q, q = Advance(w, r)
    PROVE  /\ q \in SweepState
           /\ q.cutoff = r.cutoff /\ q.picked = r.picked /\ q.deleted = r.deleted
           /\ q.failures = r.failures /\ q.removed = r.removed
           /\ \/ r.at = Len(Operations(w)) /\ q.pc = "done" /\ q.at = r.at
              \/ r.at # Len(Operations(w)) /\ q.pc = "batch" /\ q.at = r.at + 1 /\ q.total = 0
<1>1. CASE r.at = Len(Operations(w))
  <2>1. q = [r EXCEPT !.pc = "done"]
    BY <1>1 DEF Advance
  <2> QED BY <1>1, <2>1, MovedIs
<1>2. CASE r.at # Len(Operations(w))
  <2>1. PICK e, f, g : /\ e = [r EXCEPT !.pc = "batch"] /\ f = [e EXCEPT !.at = r.at + 1]
                       /\ g = [f EXCEPT !.batches = 0]
    OBVIOUS
  <2>2. q = [g EXCEPT !.total = 0]
    BY <1>2, <2>1, Zenon DEF Advance
  <2>3. /\ e \in SweepState /\ e.pc = "batch" /\ e.cutoff = r.cutoff /\ e.picked = r.picked /\ e.deleted = r.deleted
        /\ e.failures = r.failures /\ e.removed = r.removed
    BY <2>1, MovedIs
  <2>4. /\ f \in SweepState /\ f.pc = "batch" /\ f.cutoff = e.cutoff /\ f.picked = e.picked /\ f.deleted = e.deleted
        /\ f.failures = e.failures /\ f.removed = e.removed /\ f.at = r.at + 1
    <3>1. f = [e EXCEPT !.at = r.at + 1] /\ r.at + 1 \in Nat \ {0} /\ e \in SweepState /\ e.pc = "batch"
      BY <2>1, <2>3 DEF SweepState
    <3> QED BY <3>1 DEF SweepState
  <2>5. /\ g \in SweepState /\ g.pc = "batch" /\ g.cutoff = f.cutoff /\ g.picked = f.picked /\ g.deleted = f.deleted
        /\ g.failures = f.failures /\ g.removed = f.removed /\ g.at = f.at
    <3>1. g = [f EXCEPT !.batches = 0]
      BY <2>1
    <3> QED BY <2>4, <3>1 DEF SweepState
  <2>6. /\ q \in SweepState /\ q.pc = "batch" /\ q.cutoff = g.cutoff /\ q.picked = g.picked /\ q.deleted = g.deleted
        /\ q.failures = g.failures /\ q.removed = g.removed /\ q.at = g.at /\ q.total = 0
    BY <2>2, <2>5 DEF SweepState
  <2> QED BY <1>2, <2>3, <2>4, <2>5, <2>6
<1> QED BY <1>1, <1>2

(* A batch that removed n rows: the operation goes on, or its total is     *)
(* reported and the run advances.                                          *)
LEMMA DrainedIs ==
    ASSUME NEW w, sweep[w] \in SweepState, Op(w) \in Resource, NEW T, Cardinality(T) \in Nat,
           NEW count \in Nat, NEW q, q = Drained(w, T, count)
    PROVE  /\ q \in SweepState
           /\ q.cutoff = sweep[w].cutoff /\ q.picked = {} /\ q.failures = sweep[w].failures
           /\ q.removed = [sweep[w].removed EXCEPT ![Op(w)] = sweep[w].removed[Op(w)] + Cardinality(T)]
           /\ \/ /\ q.pc = "batch" /\ q.at = sweep[w].at /\ q.total = sweep[w].total + count
                 /\ q.deleted = sweep[w].deleted
              \/ /\ q.deleted = [sweep[w].deleted EXCEPT ![Op(w)] = sweep[w].total + count]
                 /\ \/ sweep[w].at = Len(Operations(w)) /\ q.pc = "done" /\ q.at = sweep[w].at
                    \/ sweep[w].at # Len(Operations(w)) /\ q.pc = "batch" /\ q.at = sweep[w].at + 1 /\ q.total = 0
<1>1. PICK p : p = Batched(w, T, count)
  OBVIOUS
<1>2. PICK e : e = Reporting(w, p)
  OBVIOUS
<1>3. q = Advance(w, e) \/ q = [p EXCEPT !.pc = "batch"]
  BY <1>1, <1>2, Zenon DEF Drained, NextOperation
<1>4. /\ p \in SweepState
      /\ p.cutoff = sweep[w].cutoff /\ p.at = sweep[w].at /\ p.total = sweep[w].total + count
      /\ p.picked = {} /\ p.deleted = sweep[w].deleted /\ p.failures = sweep[w].failures
      /\ p.removed = [sweep[w].removed EXCEPT ![Op(w)] = sweep[w].removed[Op(w)] + Cardinality(T)]
  BY <1>1, BatchedIs
<1>5. CASE q = [p EXCEPT !.pc = "batch"]
  BY <1>4, <1>5, MovedIs
<1>6. CASE q = Advance(w, e)
  <2>1. /\ e \in SweepState /\ e.cutoff = p.cutoff /\ e.at = p.at /\ e.picked = p.picked
        /\ e.failures = p.failures /\ e.removed = p.removed /\ e.deleted = [p.deleted EXCEPT ![Op(w)] = p.total]
    BY <1>2, <1>4, ReportingIs
  <2>2. /\ q \in SweepState /\ q.cutoff = e.cutoff /\ q.picked = e.picked /\ q.deleted = e.deleted
        /\ q.failures = e.failures /\ q.removed = e.removed
        /\ \/ e.at = Len(Operations(w)) /\ q.pc = "done" /\ q.at = e.at
           \/ e.at # Len(Operations(w)) /\ q.pc = "batch" /\ q.at = e.at + 1 /\ q.total = 0
    BY <1>6, <2>1, AdvanceIs
  <2> QED BY <1>4, <2>1, <2>2
<1> QED BY <1>3, <1>5, <1>6
------------------------------------------------------------------------------
LEMMA SlotsCount ==
    ASSUME Settings, NEW k
    PROVE  IsFiniteSet(Slots(k)) /\ Cardinality(Slots(k)) \in Nat /\ Cardinality(Slots(k)) <= Cardinality(Row)
<1>1. Slots(k) \in SUBSET Row /\ IsFiniteSet(Row)
  BY DEF Slots, Settings
<1> QED BY <1>1, FS_Subset, FS_CardinalityType

(* What is removed leaves that much less to remove.                        *)
LEMMA Shrinks ==
    ASSUME Settings, NEW k, NEW n \in Nat, NEW L \in SUBSET Row, NEW U \in SUBSET Row, NEW T \in SUBSET L,
           n + Cardinality(L) <= Cardinality(Slots(k)), U \subseteq L \ T
    PROVE  Cardinality(T) \in Nat /\ n + Cardinality(T) + Cardinality(U) <= Cardinality(Slots(k))
<1>1. IsFiniteSet(Row) /\ IsFiniteSet(L) /\ IsFiniteSet(T) /\ IsFiniteSet(U)
  BY FS_Subset DEF Settings
<1>2. T \cap U = {} /\ T \cup U \in SUBSET L
  OBVIOUS
<1>3. /\ IsFiniteSet(T \cup U)
      /\ Cardinality(T \cup U) = Cardinality(T) + Cardinality(U) - Cardinality(T \cap U)
  BY <1>1, FS_Union
<1>4. Cardinality(T \cap U) = 0
  BY <1>2, FS_EmptySet
<1>5. Cardinality(T \cup U) <= Cardinality(L)
  BY <1>1, <1>2, FS_Subset
<1>6. /\ Cardinality(T) \in Nat /\ Cardinality(U) \in Nat /\ Cardinality(L) \in Nat
      /\ Cardinality(T \cup U) \in Nat /\ Cardinality(Slots(k)) \in Nat
  BY <1>1, <1>3, SlotsCount, FS_CardinalityType
<1> QED BY <1>3, <1>4, <1>5, <1>6

LEMMA Fits ==
    ASSUME Settings, NEW k, NEW L \in SUBSET Slots(k)
    PROVE  0 + Cardinality(L) <= Cardinality(Slots(k))
<1>1. IsFiniteSet(L) /\ Cardinality(L) <= Cardinality(Slots(k))
  BY SlotsCount, FS_Subset
<1> QED BY <1>1, SlotsCount, FS_CardinalityType

(* What is issued now is due at no cutoff taken so far.                    *)
Late(x) == stamp'[x] \in Nat /\ IF KindOf[x] = "audit_logs" THEN clock <= stamp'[x] ELSE clock < stamp'[x]

LEMMA LateIsNotDue ==
    ASSUME SweepTyped, NEW x \in Row, NEW c \in Nat, c <= clock, deployment' = deployment, Settings,
           stamp'[x] = 0 \/ Late(x)
    PROVE  ~Due(x, c)'
<1>1. clock \in Nat /\ deployment.retention \in Nat
  BY DEF SweepTyped, Settings, Deployment
<1> QED BY <1>1 DEF Due, Late, Retention

(* A run that does nothing is still good, whatever the others, the service *)
(* and the clock do.                                                       *)
LEMMA GoodKept ==
    ASSUME Settings, SweepInv, NEW v \in Run, deployment' = deployment, clock' \in Nat, clock <= clock',
           sweep'[v] \in SweepState, sweep'[v].pc = sweep[v].pc, sweep'[v].cutoff = sweep[v].cutoff,
           sweep'[v].at = sweep[v].at, sweep'[v].total = sweep[v].total, sweep'[v].deleted = sweep[v].deleted,
           sweep'[v].failures = sweep[v].failures, sweep'[v].removed = sweep[v].removed,
           sweep'[v].picked \subseteq sweep[v].picked,
           \A x \in Row : \/ stamp'[x] = stamp[x] \/ stamp'[x] = 0
                          \/ Late(x) /\ (x \in sweep'[v].picked => KindOf[x] = "verifications")
    PROVE  SweepGood(v)'
<1>0. /\ SweepTyped /\ sweep[v] \in SweepState /\ clock \in Nat /\ sweep[v].cutoff \in Nat
      /\ sweep[v].removed \in [Resource -> Nat] /\ sweep[v].picked \subseteq Row
  BY DEF SweepInv, SweepTyped, SweepState, Settings
<1>1. sweep[v].cutoff <= clock /\ Spent(v) /\ Selected(v) /\ (Working(v) => Booked(v)) /\ Reported(v)
  BY DEF SweepInv, SweepGood
<1>2. Operations(v)' = Operations(v) /\ Op(v)' = Op(v)
  BY DEF Operations, Op
<1>3. \A x \in Row : Due(x, sweep[v].cutoff)' => Due(x, sweep[v].cutoff) /\ stamp'[x] = stamp[x]
  <2>1. SUFFICES ASSUME NEW x \in Row, Due(x, sweep[v].cutoff)'
                 PROVE  Due(x, sweep[v].cutoff) /\ stamp'[x] = stamp[x]
    OBVIOUS
  <2>2. PICK c : c = sweep[v].cutoff /\ c = sweep'[v].cutoff
    OBVIOUS
  <2>3. Due(x, c)'
    BY <2>1, <2>2 DEF Due, Retention
  <2>4. ~(stamp'[x] = 0 \/ Late(x))
    BY <1>0, <1>1, <2>2, <2>3, LateIsNotDue
  <2>5. stamp'[x] = stamp[x]
    BY <2>4
  <2> QED BY <2>1, <2>2, <2>3, <2>5 DEF Due, Retention
<1>4. Spent(v)'
  <2>1. SUFFICES ASSUME NEW k \in Resource
                 PROVE  /\ sweep'[v].deleted[k] <= sweep'[v].removed[k]
                        /\ sweep'[v].removed[k] + Cardinality(StillDue(v, k)') <= Cardinality(Slots(k))
    BY DEF Spent
  <2>2. StillDue(v, k)' \subseteq StillDue(v, k)
    <3>1. SUFFICES ASSUME NEW x \in StillDue(v, k)' PROVE x \in StillDue(v, k)
      OBVIOUS
    <3>2. x \in Row /\ KindOf[x] = k /\ (Due(x, sweep[v].cutoff)' \/ x \in sweep'[v].picked)
      BY <3>1 DEF StillDue
    <3> QED BY <1>3, <3>2 DEF StillDue
  <2>3. /\ sweep[v].deleted[k] <= sweep[v].removed[k] /\ sweep[v].removed[k] \in Nat
        /\ sweep[v].removed[k] + Cardinality(StillDue(v, k)) <= Cardinality(Slots(k))
    BY <1>0, <1>1 DEF Spent
  <2>4. StillDue(v, k) \in SUBSET Row /\ StillDue(v, k)' \in SUBSET Row /\ StillDue(v, k)' \subseteq StillDue(v, k) \ {}
    BY <2>2 DEF StillDue
  <2>5. {} \in SUBSET StillDue(v, k) /\ Cardinality({}) = 0
    BY FS_EmptySet
  <2>6. sweep[v].removed[k] + Cardinality({}) + Cardinality(StillDue(v, k)') <= Cardinality(Slots(k))
    BY <2>3, <2>4, <2>5, Shrinks
  <2>7. sweep[v].removed[k] + 0 = sweep[v].removed[k]
    BY <2>3
  <2> QED BY <2>3, <2>5, <2>6, <2>7
<1>5. Selected(v)'
  <2>1. sweep'[v].pc = "delete" => OnMongo'
    BY <1>1 DEF Selected, OnMongo
  <2>2. ASSUME NEW x \in sweep'[v].picked
        PROVE  /\ sweep'[v].pc = "delete" /\ KindOf[x] = Op(v)
               /\ stamp'[x] # 0 /\ ~Due(x, sweep[v].cutoff)' => KindOf[x] = "verifications"
    <3>1. /\ x \in Row /\ x \in sweep[v].picked /\ sweep[v].pc = "delete" /\ KindOf[x] = Op(v)
          /\ stamp[x] # 0 /\ ~Due(x, sweep[v].cutoff) => KindOf[x] = "verifications"
      BY <1>0, <1>1, <2>2 DEF Selected
    <3>2. stamp'[x] = stamp[x] => (Due(x, sweep[v].cutoff)' <=> Due(x, sweep[v].cutoff))
      BY DEF Due, Retention
    <3> QED BY <3>1, <3>2
  <2> QED BY <1>2, <2>1, <2>2 DEF Selected
<1>6. (Working(v) => Booked(v))'
  BY <1>1, <1>2 DEF Working, Booked
<1>7. Reported(v)'
  BY <1>1 DEF Reported, SweepAt
<1> QED BY <1>0, <1>1, <1>4, <1>5, <1>6, <1>7 DEF SweepGood
------------------------------------------------------------------------------
LEMMA OpIs ==
    ASSUME SweepInv, NEW w \in Run, Working(w)
    PROVE  /\ sweep[w] \in SweepState /\ Booked(w) /\ sweep[w].at \in 1 .. Len(Operations(w))
           /\ Op(w) \in Resource
<1>1. sweep[w] \in SweepState /\ Booked(w)
  BY DEF SweepInv, SweepTyped, SweepGood
<1>2. sweep[w].at \in 1 .. Len(Operations(w))
  BY <1>1, PlanIs DEF Booked, SweepState
<1> QED BY <1>1, <1>2, PlanIs DEF Op

(* The books after a batch that removed the rows T.                        *)
LEMMA BooksKept ==
    ASSUME Settings, SweepInv, NEW w \in Run, Working(w), NEW T \in SUBSET StillDue(w, Op(w)),
           deployment' = deployment, sweep'[w] = Drained(w, T, Cardinality(T))
    PROVE  /\ sweep'[w] \in SweepState /\ sweep'[w].cutoff = sweep[w].cutoff /\ sweep'[w].picked = {}
           /\ sweep'[w].pc \in {"batch", "done"}
           /\ \A k \in Resource : sweep'[w].deleted[k] <= sweep'[w].removed[k]
           /\ sweep'[w].removed = [sweep[w].removed EXCEPT ![Op(w)] = sweep[w].removed[Op(w)] + Cardinality(T)]
           /\ (Working(w) => Booked(w))' /\ Reported(w)'
<1> DEFINE n == Cardinality(T)
<1>1. /\ sweep[w] \in SweepState /\ Booked(w) /\ sweep[w].at \in 1 .. Len(Operations(w)) /\ Op(w) \in Resource
      /\ Len(Operations(w)) \in Nat
  BY OpIs, PlanIs
<1>2. n \in Nat
  <2>1. IsFiniteSet(Row) /\ T \in SUBSET Row
    BY DEF Settings, StillDue
  <2> QED BY <2>1, FS_Subset, FS_CardinalityType
<1> HIDE DEF n
<1>3. PICK q : q = Drained(w, T, n) /\ q = sweep'[w]
  BY DEF n
<1>4. /\ q \in SweepState
      /\ q.cutoff = sweep[w].cutoff /\ q.picked = {} /\ q.failures = sweep[w].failures
      /\ q.removed = [sweep[w].removed EXCEPT ![Op(w)] = sweep[w].removed[Op(w)] + n]
      /\ \/ /\ q.pc = "batch" /\ q.at = sweep[w].at /\ q.total = sweep[w].total + n
            /\ q.deleted = sweep[w].deleted
         \/ /\ q.deleted = [sweep[w].deleted EXCEPT ![Op(w)] = sweep[w].total + n]
            /\ \/ sweep[w].at = Len(Operations(w)) /\ q.pc = "done" /\ q.at = sweep[w].at
               \/ sweep[w].at # Len(Operations(w)) /\ q.pc = "batch" /\ q.at = sweep[w].at + 1 /\ q.total = 0
  BY <1>1, <1>2, <1>3, DrainedIs DEF n
<1>5. /\ sweep[w].removed \in [Resource -> Nat] /\ sweep[w].deleted \in [Resource -> Nat] /\ sweep[w].total \in Nat
      /\ sweep[w].total = sweep[w].removed[Op(w)]
      /\ \A k \in Resource : sweep[w].deleted[k] <= sweep[w].removed[k]
      /\ sweep[w].at \in Nat
  BY <1>1 DEF SweepState, Booked, SweepInv, SweepGood, Spent
<1>6. \A k \in Resource : q.deleted[k] <= q.removed[k]
  BY <1>1, <1>2, <1>4, <1>5
<1>7. Operations(w)' = Operations(w) /\ q.pc \in {"batch", "done"}
  BY <1>4 DEF Operations
<1>8. /\ Op(w) = Operations(w)[sweep[w].at] /\ Op(w) \notin sweep[w].failures
      /\ \A j \in sweep[w].at .. Len(Operations(w)) :
          /\ sweep[w].deleted[Operations(w)[j]] = 0
          /\ Operations(w)[j] \notin sweep[w].failures
          /\ j > sweep[w].at => sweep[w].removed[Operations(w)[j]] = 0
      /\ \A k \in Resource \ {Op(w)} :
          sweep[w].deleted[k] = (IF k \in sweep[w].failures THEN 0 ELSE sweep[w].removed[k])
  BY <1>1 DEF Booked, Op
<1>9. \A j \in 1 .. Len(Operations(w)) : Operations(w)[j] \in Resource /\ (j # sweep[w].at => Operations(w)[j] # Op(w))
  BY <1>1, <1>8, PlanIs
<1>10. CASE q.pc = "batch" /\ q.at = sweep[w].at /\ q.total = sweep[w].total + n /\ q.deleted = sweep[w].deleted
  <2>1. Op(w)' = Op(w)
    BY <1>3, <1>7, <1>10 DEF Op
  <2>2. q.at <= Len(Operations(w)) /\ q.total = q.removed[Op(w)]
    BY <1>1, <1>4, <1>5, <1>10
  <2>3. \A k \in Resource \ {Op(w)} : q.deleted[k] = (IF k \in q.failures THEN 0 ELSE q.removed[k])
    BY <1>4, <1>5, <1>8, <1>10
  <2>4. \A j \in q.at .. Len(Operations(w)) :
            /\ q.deleted[Operations(w)[j]] = 0
            /\ Operations(w)[j] \notin q.failures
            /\ j > q.at => q.removed[Operations(w)[j]] = 0
    <3>1. SUFFICES ASSUME NEW j \in sweep[w].at .. Len(Operations(w))
                   PROVE  /\ sweep[w].deleted[Operations(w)[j]] = 0
                          /\ Operations(w)[j] \notin sweep[w].failures
                          /\ j > sweep[w].at => q.removed[Operations(w)[j]] = 0
      BY <1>4, <1>10
    <3>2. j \in 1 .. Len(Operations(w))
      BY <1>1, <1>5
    <3>3. j > sweep[w].at => Operations(w)[j] \in Resource /\ Operations(w)[j] # Op(w)
      BY <1>5, <1>9, <3>2
    <3>4. ASSUME j > sweep[w].at PROVE q.removed[Operations(w)[j]] = 0
      BY <1>4, <1>5, <1>8, <3>3, <3>4
    <3> QED BY <1>8, <3>4
  <2>5. Booked(w)'
    BY <1>3, <1>7, <2>1, <2>2, <2>3, <2>4 DEF Booked
  <2> QED BY <1>3, <1>4, <1>6, <1>10, <2>5 DEF Reported, SweepAt, n
<1>11. CASE /\ q.deleted = [sweep[w].deleted EXCEPT ![Op(w)] = sweep[w].total + n]
            /\ \/ sweep[w].at = Len(Operations(w)) /\ q.pc = "done" /\ q.at = sweep[w].at
               \/ sweep[w].at # Len(Operations(w)) /\ q.pc = "batch" /\ q.at = sweep[w].at + 1 /\ q.total = 0
  <2>1. \A k \in Resource : k = Op(w) \/ Operations(w)[sweep[w].at] # k =>
            q.deleted[k] = (IF k \in q.failures THEN 0 ELSE q.removed[k])
    <3>1. q.deleted[Op(w)] = (IF Op(w) \in q.failures THEN 0 ELSE q.removed[Op(w)])
      <4>1. q.deleted[Op(w)] = sweep[w].total + n
        BY <1>1, <1>5, <1>11
      <4>2. q.removed[Op(w)] = sweep[w].removed[Op(w)] + n /\ q.failures = sweep[w].failures
        BY <1>1, <1>4, <1>5
      <4>3. Op(w) \notin sweep[w].failures
        BY <1>8
      <4> QED BY <1>5, <4>1, <4>2, <4>3
    <3>2. \A k \in Resource \ {Op(w)} : q.deleted[k] = (IF k \in q.failures THEN 0 ELSE q.removed[k])
      BY <1>4, <1>5, <1>8, <1>11
    <3> QED BY <1>8, <3>1, <3>2
  <2>2. CASE q.pc = "done"
    <3>1. Reported(w)'
      BY <1>3, <1>8, <2>1 DEF Reported
    <3> QED BY <1>3, <1>4, <1>6, <2>2, <3>1 DEF Working, n
  <2>3. CASE sweep[w].at # Len(Operations(w)) /\ q.pc = "batch" /\ q.at = sweep[w].at + 1 /\ q.total = 0
    <3>1. q.at \in 1 .. Len(Operations(w)) /\ q.at > sweep[w].at
      BY <1>1, <1>5, <2>3
    <3>2. Op(w)' = Operations(w)[q.at] /\ Operations(w)[q.at] # Op(w) /\ Operations(w)[q.at] \in Resource
      BY <1>3, <1>7, <1>9, <3>1 DEF Op
    <3>3. \A j \in q.at .. Len(Operations(w)) :
            /\ q.deleted[Operations(w)[j]] = 0
            /\ Operations(w)[j] \notin q.failures
            /\ q.removed[Operations(w)[j]] = 0
      <4>1. SUFFICES ASSUME NEW j \in q.at .. Len(Operations(w))
                     PROVE  /\ q.deleted[Operations(w)[j]] = 0
                            /\ Operations(w)[j] \notin q.failures
                            /\ q.removed[Operations(w)[j]] = 0
        OBVIOUS
      <4>2. j \in sweep[w].at .. Len(Operations(w)) /\ j > sweep[w].at /\ j \in 1 .. Len(Operations(w))
        BY <1>1, <1>5, <2>3, <3>1
      <4>3. Operations(w)[j] \in Resource /\ Operations(w)[j] # Op(w)
        BY <1>5, <1>9, <4>2
      <4> QED BY <1>4, <1>5, <1>8, <1>11, <4>2, <4>3
    <3>4. Operations(w)[q.at] = Operations(w)[q.at] /\ q.total = q.removed[Operations(w)[q.at]]
      BY <2>3, <3>1, <3>3
    <3>5. \A k \in Resource : q.deleted[k] = (IF k \in q.failures THEN 0 ELSE q.removed[k])
      BY <1>8, <2>1
    <3>6. Booked(w)'
      BY <1>3, <1>7, <3>1, <3>2, <3>3, <3>4, <3>5 DEF Booked
    <3> QED BY <1>3, <1>4, <1>6, <2>3, <3>6 DEF Reported, SweepAt, n
  <2> QED BY <1>4, <1>7, <1>11, <2>2, <2>3
<1> QED BY <1>4, <1>10, <1>11
------------------------------------------------------------------------------
(* A step of one run that removes the rows T at most.                      *)
LEMMA OthersKept ==
    ASSUME Settings, SweepInv, NEW w \in Run, deployment' = deployment, clock' = clock, NEW q \in SweepState,
           sweep' = [sweep EXCEPT ![w] = q], \A x \in Row : stamp'[x] = stamp[x] \/ stamp'[x] = 0,
           stamp' \in [Row -> 0 .. Never], faults' \in 0 .. MaxFaults, lost' \subseteq Row, SweepGood(w)'
    PROVE  SweepInv'
<1>1. SweepTyped /\ sweep \in [Run -> SweepState] /\ clock \in Nat
  BY DEF SweepInv, SweepTyped
<1>2. SweepTyped'
  BY <1>1 DEF SweepTyped, Never
<1>3. ASSUME NEW v \in Run, v # w PROVE SweepGood(v)'
  <2>1. sweep'[v] = sweep[v] /\ sweep[v] \in SweepState /\ clock <= clock' /\ clock' \in Nat
    BY <1>1, <1>3
  <2> QED BY <2>1, GoodKept
<1> QED BY <1>2, <1>3 DEF SweepInv

(* A batch that removes the rows T, due or selected before.                *)
LEMMA BatchKeeps ==
    ASSUME Settings, SweepInv, NEW w \in Run, Working(w), NEW T \in SUBSET StillDue(w, Op(w)),
           deployment' = deployment, clock' = clock, faults' = faults, lost' \subseteq Row,
           Remove(T), sweep' = [sweep EXCEPT ![w] = Drained(w, T, Cardinality(T))]
    PROVE  SweepInv'
<1>1. SweepTyped /\ sweep \in [Run -> SweepState] /\ clock \in Nat /\ stamp \in [Row -> 0 .. Never] /\ Never \in Nat
  BY DEF SweepInv, SweepTyped, Settings, Never
<1>2. PICK q : q = Drained(w, T, Cardinality(T))
  OBVIOUS
<1>3. sweep' = [sweep EXCEPT ![w] = q] /\ sweep'[w] = q
  BY <1>1, <1>2
<1>4. /\ q \in SweepState /\ q.cutoff = sweep[w].cutoff /\ q.picked = {}
      /\ q.pc \in {"batch", "done"}
      /\ \A k \in Resource : q.deleted[k] <= q.removed[k]
      /\ q.removed = [sweep[w].removed EXCEPT ![Op(w)] = sweep[w].removed[Op(w)] + Cardinality(T)]
      /\ (Working(w) => Booked(w))' /\ Reported(w)'
  BY <1>2, <1>3, BooksKept
<1>5. /\ sweep[w].cutoff \in Nat /\ sweep[w].cutoff <= clock /\ Spent(w) /\ sweep[w].removed \in [Resource -> Nat]
      /\ Op(w) \in Resource /\ T \subseteq Row
  BY <1>1, OpIs DEF SweepInv, SweepGood, SweepState, StillDue
<1>6. stamp' = [x \in Row |-> IF x \in T THEN 0 ELSE stamp[x]]
  BY DEF Remove
<1>7. Spent(w)'
  <2>1. SUFFICES ASSUME NEW k \in Resource
                 PROVE  /\ q.deleted[k] <= q.removed[k]
                        /\ q.removed[k] + Cardinality(StillDue(w, k)') <= Cardinality(Slots(k))
    BY <1>3 DEF Spent
  <2>2. PICK G : G = IF k = Op(w) THEN T ELSE {}
    OBVIOUS
  <2>3. G \in SUBSET StillDue(w, k) /\ StillDue(w, k) \in SUBSET Row /\ StillDue(w, k)' \in SUBSET Row
    BY <2>2 DEF StillDue
  <2>4. StillDue(w, k)' \subseteq StillDue(w, k) \ G
    <3>1. SUFFICES ASSUME NEW x \in StillDue(w, k)' PROVE x \in StillDue(w, k) \ G
      OBVIOUS
    <3>2. x \in Row /\ KindOf[x] = k /\ Due(x, sweep[w].cutoff)'
      BY <1>3, <1>4, <3>1 DEF StillDue
    <3>3. stamp'[x] # 0 /\ x \notin T /\ stamp'[x] = stamp[x]
      BY <1>6, <3>2 DEF Due
    <3>4. Due(x, sweep[w].cutoff)
      BY <1>3, <1>4, <3>2, <3>3 DEF Due, Retention
    <3> QED BY <2>2, <3>2, <3>3, <3>4 DEF StillDue
  <2>5. sweep[w].removed[k] \in Nat /\ sweep[w].removed[k] + Cardinality(StillDue(w, k)) <= Cardinality(Slots(k))
    BY <1>5 DEF Spent
  <2>6. Cardinality(G) \in Nat /\ sweep[w].removed[k] + Cardinality(G) + Cardinality(StillDue(w, k)') <= Cardinality(Slots(k))
    BY <2>3, <2>4, <2>5, Shrinks
  <2>7. q.removed[k] = sweep[w].removed[k] + Cardinality(G)
    <3>1. CASE k = Op(w)
      BY <1>4, <1>5, <2>2, <3>1
    <3>2. CASE k # Op(w)
      BY <1>4, <1>5, <2>2, <3>2, FS_EmptySet
    <3> QED BY <3>1, <3>2
  <2> QED BY <1>4, <2>6, <2>7
<1>8. Selected(w)'
  BY <1>3, <1>4 DEF Selected
<1>9. SweepGood(w)'
  BY <1>3, <1>4, <1>5, <1>7, <1>8 DEF SweepGood
<1>10. /\ stamp' \in [Row -> 0 .. Never] /\ \A x \in Row : stamp'[x] = stamp[x] \/ stamp'[x] = 0
       /\ faults' \in 0 .. MaxFaults
  BY <1>1, <1>6 DEF SweepTyped
<1> QED BY <1>3, <1>4, <1>9, <1>10, OthersKept
------------------------------------------------------------------------------
LEMMA StartKeeps == ASSUME Settings, SweepInv, NEW w \in Run, Start(w) PROVE SweepInv'
<1>1. SweepTyped /\ sweep \in [Run -> SweepState] /\ clock \in Nat /\ clock \in 1 .. MaxClock
  BY DEF SweepInv, SweepTyped, Settings
<1>2. PICK e, q : e = [Idle EXCEPT !.pc = "batch"] /\ q = [e EXCEPT !.cutoff = clock]
  OBVIOUS
<1>3. sweep' = [sweep EXCEPT ![w] = q]
  BY <1>2, Zenon DEF Start
<1>4. /\ e \in SweepState /\ e.pc = "batch" /\ e.at = 1 /\ e.total = 0 /\ e.picked = {} /\ e.deleted = Nothing
      /\ e.failures = {} /\ e.removed = Nothing
  <2>1. e = [Idle EXCEPT !.pc = "batch"] /\ Nothing \in [Resource -> Nat]
    BY <1>2 DEF Nothing
  <2> QED BY <2>1 DEF Idle, SweepState
<1>5. q = [e EXCEPT !.cutoff = clock]
  BY <1>2
<1>6. /\ q \in SweepState /\ q.pc = "batch" /\ q.at = 1 /\ q.total = 0 /\ q.picked = {} /\ q.deleted = Nothing
      /\ q.failures = {} /\ q.removed = Nothing /\ q.cutoff = clock
  BY <1>1, <1>4, <1>5 DEF SweepState
<1>7. sweep'[w] = q /\ deployment' = deployment /\ clock' = clock /\ stamp' = stamp /\ faults' = faults /\ lost' = lost
  BY <1>1, <1>3 DEF Start
<1>8. \A k \in Resource : Nothing[k] = 0
  BY DEF Nothing
<1>9. Spent(w)'
  <2>1. SUFFICES ASSUME NEW k \in Resource PROVE 0 + Cardinality(StillDue(w, k)') <= Cardinality(Slots(k))
    BY <1>6, <1>7, <1>8 DEF Spent
  <2>2. StillDue(w, k)' \in SUBSET Slots(k)
    BY DEF StillDue, Slots
  <2> QED BY <2>2, Fits
<1>10. Selected(w)'
  BY <1>6, <1>7 DEF Selected
<1>11. Booked(w)'
  <2>1. Operations(w)' = Operations(w) /\ Len(Operations(w)) \in Nat \ {0} /\ Op(w)' = Operations(w)[1] /\ Op(w)' \in Resource
        /\ \A j \in 1 .. Len(Operations(w)) : Operations(w)[j] \in Resource
    BY <1>6, <1>7, PlanIs DEF Operations, Op
  <2> QED BY <1>6, <1>7, <1>8, <2>1 DEF Booked
<1>12. SweepGood(w)'
  BY <1>1, <1>6, <1>7, <1>9, <1>10, <1>11 DEF SweepGood, Reported, SweepAt
<1> QED BY <1>1, <1>3, <1>6, <1>7, <1>12, OthersKept DEF SweepTyped

LEMMA BatchesAreDue ==
    ASSUME NEW w, NEW T \in Batches(w)
    PROVE  T \in SUBSET StillDue(w, Op(w)) /\ T \in SUBSET DueRows(w)
<1>1. T \in SUBSET DueRows(w)
  BY DEF Batches
<1> QED BY <1>1 DEF DueRows, StillDue

LEMMA DeleteBatchKeeps == ASSUME Settings, SweepInv, NEW w \in Run, DeleteBatch(w) PROVE SweepInv'
<1>1. Working(w) /\ lost \subseteq Row
  BY DEF DeleteBatch, SweepAt, Working, SweepInv, SweepTyped
<1>2. PICK T \in Batches(w) :
        /\ Remove(T)
        /\ lost' = lost \cup {x \in T : ~Due(x, sweep[w].cutoff)}
        /\ sweep' = [sweep EXCEPT ![w] = Drained(w, T, Cardinality(T))]
  BY DEF DeleteBatch
<1>3. T \in SUBSET StillDue(w, Op(w)) /\ T \subseteq Row
  BY BatchesAreDue DEF StillDue
<1>4. lost' \subseteq Row /\ deployment' = deployment /\ clock' = clock /\ faults' = faults
  BY <1>1, <1>2, <1>3 DEF DeleteBatch
<1> QED BY <1>1, <1>2, <1>3, <1>4, BatchKeeps

LEMMA DeletePickedKeeps == ASSUME Settings, SweepInv, NEW w \in Run, DeletePicked(w) PROVE SweepInv'
<1> DEFINE T == {x \in sweep[w].picked : stamp[x] # 0}
<1>1. /\ Working(w) /\ lost \subseteq Row /\ Remove(T)
      /\ lost' = lost \cup {x \in T : ~Due(x, sweep[w].cutoff)}
      /\ sweep' = [sweep EXCEPT ![w] = Drained(w, T, Cardinality(T))]
      /\ deployment' = deployment /\ clock' = clock /\ faults' = faults
  BY DEF DeletePicked, DeletedCount, SweepAt, Working, SweepInv, SweepTyped
<1>2. sweep[w].picked \subseteq Row /\ \A x \in sweep[w].picked : KindOf[x] = Op(w)
  BY DEF SweepInv, SweepGood, Selected, SweepTyped, SweepState
<1>3. T \in SUBSET StillDue(w, Op(w)) /\ T \subseteq Row
  BY <1>2 DEF StillDue
<1> HIDE DEF T
<1>4. lost' \subseteq Row
  BY <1>1, <1>3
<1> QED BY <1>1, <1>3, <1>4, BatchKeeps

LEMMA SelectBatchKeeps == ASSUME Settings, SweepInv, NEW w \in Run, SelectBatch(w) PROVE SweepInv'
<1>1. /\ Working(w) /\ OnMongo /\ sweep[w].pc = "batch" /\ deployment' = deployment /\ clock' = clock /\ stamp' = stamp
      /\ faults' = faults /\ lost' = lost
  BY DEF SelectBatch, SweepAt, Working
<1>2. SweepTyped /\ sweep \in [Run -> SweepState] /\ sweep[w] \in SweepState /\ lost \subseteq Row /\ clock \in Nat
      /\ stamp \in [Row -> 0 .. Never] /\ faults \in 0 .. MaxFaults
  BY DEF SweepInv, SweepTyped, Settings
<1>3. PICK T \in Batches(w) :
        sweep' = [sweep EXCEPT ![w] = IF T = {} THEN Drained(w, {}, 0)
                                  ELSE [sweep[w] EXCEPT !.pc = "delete", !.picked = T]]
  BY DEF SelectBatch
<1>4. T \in SUBSET StillDue(w, Op(w)) /\ T \subseteq Row /\ T \in SUBSET DueRows(w)
  BY BatchesAreDue DEF StillDue
<1>5. CASE T = {}
  <2>1. PICK c : c = Cardinality({}) /\ c = 0
    BY FS_EmptySet
  <2>2. sweep' = [sweep EXCEPT ![w] = Drained(w, {}, Cardinality({}))]
    BY <1>3, <1>5, <2>1
  <2>3. Remove({})
    BY <1>1, <1>2 DEF Remove
  <2> QED BY <1>1, <1>2, <2>2, <2>3, BatchKeeps
<1>6. CASE T # {}
  <2>1. PICK e, q : e = [sweep[w] EXCEPT !.pc = "delete"] /\ q = [e EXCEPT !.picked = T]
    OBVIOUS
  <2>2. sweep' = [sweep EXCEPT ![w] = q]
    BY <1>3, <1>6, <2>1, Zenon
  <2>3. /\ e \in SweepState /\ e.pc = "delete" /\ e.at = sweep[w].at /\ e.total = sweep[w].total
        /\ e.deleted = sweep[w].deleted /\ e.failures = sweep[w].failures /\ e.removed = sweep[w].removed
        /\ e.cutoff = sweep[w].cutoff
    <3>1. e = [sweep[w] EXCEPT !.pc = "delete"]
      BY <2>1
    <3> QED BY <1>2, <3>1 DEF SweepState
  <2>4. /\ q \in SweepState /\ q.pc = "delete" /\ q.at = e.at /\ q.total = e.total /\ q.picked = T
        /\ q.deleted = e.deleted /\ q.failures = e.failures /\ q.removed = e.removed
        /\ q.cutoff = e.cutoff
    <3>1. q = [e EXCEPT !.picked = T]
      BY <2>1
    <3> QED BY <1>4, <2>3, <3>1 DEF SweepState
  <2>5. sweep'[w] = q
    BY <1>2, <2>2
  <2>6. Op(w)' = Op(w) /\ Operations(w)' = Operations(w)
    BY <1>1, <2>3, <2>4, <2>5 DEF Op, Operations
  <2>7. sweep[w].cutoff <= clock /\ Spent(w) /\ Booked(w)
    BY <1>1 DEF SweepInv, SweepGood
  <2>8. Spent(w)'
    <3>1. \A k \in Resource : StillDue(w, k)' \subseteq StillDue(w, k)
      <4>1. SUFFICES ASSUME NEW k \in Resource, NEW x \in StillDue(w, k)' PROVE x \in StillDue(w, k)
        OBVIOUS
      <4>2. x \in Row /\ KindOf[x] = k /\ (Due(x, sweep[w].cutoff) \/ x \in T)
        BY <1>1, <2>3, <2>4, <2>5, <4>1 DEF StillDue, Due, Retention
      <4> QED BY <1>4, <4>2 DEF StillDue, DueRows
    <3>2. SUFFICES ASSUME NEW k \in Resource
                   PROVE  sweep[w].removed[k] + Cardinality(StillDue(w, k)') <= Cardinality(Slots(k))
      BY <2>3, <2>4, <2>5, <2>7 DEF Spent
    <3>3. /\ sweep[w].removed[k] \in Nat /\ sweep[w].removed[k] + Cardinality(StillDue(w, k)) <= Cardinality(Slots(k))
          /\ StillDue(w, k) \in SUBSET Row /\ StillDue(w, k)' \in SUBSET Row
          /\ {} \in SUBSET StillDue(w, k) /\ StillDue(w, k)' \subseteq StillDue(w, k) \ {}
      BY <1>2, <2>7, <3>1 DEF Spent, SweepState, StillDue
    <3>4. sweep[w].removed[k] + Cardinality({}) + Cardinality(StillDue(w, k)') <= Cardinality(Slots(k))
      BY <3>3, Shrinks
    <3> QED BY <3>3, <3>4, FS_EmptySet
  <2>9. Selected(w)'
    <3>1. \A x \in T : KindOf[x] = Op(w) /\ Due(x, sweep[w].cutoff)
      BY <1>4 DEF DueRows
    <3>2. \A x \in T : Due(x, sweep[w].cutoff)' <=> Due(x, sweep[w].cutoff)
      BY <1>1, <2>3, <2>4, <2>5 DEF Due, Retention
    <3>3. OnMongo'
      BY <1>1 DEF OnMongo
    <3> QED BY <2>3, <2>4, <2>5, <2>6, <3>1, <3>2, <3>3 DEF Selected
  <2>10. Booked(w)'
    BY <2>3, <2>4, <2>5, <2>6, <2>7 DEF Booked
  <2>11. SweepGood(w)'
    BY <1>1, <2>3, <2>4, <2>5, <2>7, <2>8, <2>9, <2>10 DEF SweepGood, Reported, SweepAt
  <2> QED BY <1>1, <1>2, <2>2, <2>4, <2>11, OthersKept
<1> QED BY <1>5, <1>6

(* A run that only gives up, or moves on, may remove less than before.     *)
LEMMA SpentLess ==
    ASSUME Settings, SweepInv, NEW w \in Run, deployment' = deployment, stamp' = stamp, sweep'[w].cutoff = sweep[w].cutoff,
           sweep'[w].picked = {}, sweep'[w].deleted = sweep[w].deleted, sweep'[w].removed = sweep[w].removed
    PROVE  Spent(w)'
<1>1. /\ Spent(w) /\ sweep[w].removed \in [Resource -> Nat]
  BY DEF SweepInv, SweepGood, SweepTyped, SweepState
<1>2. SUFFICES ASSUME NEW k \in Resource
               PROVE  sweep[w].removed[k] + Cardinality(StillDue(w, k)') <= Cardinality(Slots(k))
  BY <1>1 DEF Spent
<1>3. StillDue(w, k)' \subseteq StillDue(w, k)
  <2>1. SUFFICES ASSUME NEW x \in StillDue(w, k)' PROVE x \in StillDue(w, k)
    OBVIOUS
  <2>2. x \in Row /\ KindOf[x] = k /\ Due(x, sweep[w].cutoff)
    BY <2>1 DEF StillDue, Due, Retention
  <2> QED BY <2>2 DEF StillDue
<1>4. /\ sweep[w].removed[k] \in Nat /\ sweep[w].removed[k] + Cardinality(StillDue(w, k)) <= Cardinality(Slots(k))
      /\ StillDue(w, k) \in SUBSET Row /\ StillDue(w, k)' \in SUBSET Row
      /\ {} \in SUBSET StillDue(w, k) /\ StillDue(w, k)' \subseteq StillDue(w, k) \ {}
  BY <1>1, <1>3 DEF Spent, StillDue
<1>5. sweep[w].removed[k] + Cardinality({}) + Cardinality(StillDue(w, k)') <= Cardinality(Slots(k))
  BY <1>4, Shrinks
<1> QED BY <1>4, <1>5, FS_EmptySet

LEMMA FailKeeps == ASSUME Settings, SweepInv, NEW w \in Run, Fail(w) PROVE SweepInv'
<1>1. /\ Working(w) /\ deployment' = deployment /\ clock' = clock /\ stamp' = stamp /\ lost' = lost
      /\ faults < MaxFaults /\ faults' = faults + 1
  BY DEF Fail, SweepAt, Working
<1>2. /\ SweepTyped /\ sweep \in [Run -> SweepState] /\ sweep[w] \in SweepState /\ lost \subseteq Row /\ clock \in Nat
      /\ stamp \in [Row -> 0 .. Never] /\ faults' \in 0 .. MaxFaults
  BY <1>1 DEF SweepInv, SweepTyped, Settings
<1>3. /\ Booked(w) /\ Op(w) \in Resource /\ sweep[w].at \in 1 .. Len(Operations(w)) /\ sweep[w].cutoff <= clock
      /\ Len(Operations(w)) \in Nat /\ \A i, j \in 1 .. Len(Operations(w)) : Operations(w)[i] = Operations(w)[j] => i = j
      /\ \A i \in 1 .. Len(Operations(w)) : Operations(w)[i] \in Resource
  BY <1>1, OpIs, PlanIs DEF SweepInv, SweepGood
<1>4. PICK q, e, f, g : /\ e = [sweep[w] EXCEPT !.failures = sweep[w].failures \cup {Op(w)}]
                        /\ f = [e EXCEPT !.picked = {}]
                        /\ g = [sweep[w] EXCEPT !.pc = "raised"]
                        /\ q = IF deployment.continue /\ w \notin Endpoint THEN Advance(w, f)
                               ELSE [g EXCEPT !.picked = {}]
  OBVIOUS
<1>5. sweep' = [sweep EXCEPT ![w] = q]
  BY <1>4, Zenon DEF Fail
<1>6. sweep'[w] = q /\ Operations(w)' = Operations(w)
  BY <1>1, <1>2, <1>5 DEF Operations
<1>7. CASE q = [g EXCEPT !.picked = {}]
  <2>1. /\ g \in SweepState /\ g.pc = "raised" /\ g.cutoff = sweep[w].cutoff /\ g.deleted = sweep[w].deleted
        /\ g.removed = sweep[w].removed
    <3>1. g = [sweep[w] EXCEPT !.pc = "raised"]
      BY <1>4
    <3> QED BY <1>2, <3>1 DEF SweepState
  <2>2. /\ q \in SweepState /\ q.pc = "raised" /\ q.cutoff = g.cutoff /\ q.deleted = g.deleted
        /\ q.removed = g.removed /\ q.picked = {}
    BY <1>7, <2>1 DEF SweepState
  <2>3. Spent(w)'
    BY <1>1, <1>6, <2>1, <2>2, SpentLess
  <2>4. SweepGood(w)'
    BY <1>1, <1>3, <1>6, <2>1, <2>2, <2>3 DEF SweepGood, Selected, Working, Reported, SweepAt
  <2> QED BY <1>1, <1>2, <1>5, <2>2, <2>4, OthersKept
<1>8. CASE q = Advance(w, f)
  <2>1. /\ e \in SweepState /\ e.cutoff = sweep[w].cutoff /\ e.deleted = sweep[w].deleted /\ e.removed = sweep[w].removed
        /\ e.failures = sweep[w].failures \cup {Op(w)} /\ e.at = sweep[w].at
    <3>1. e = [sweep[w] EXCEPT !.failures = sweep[w].failures \cup {Op(w)}]
      BY <1>4
    <3> QED BY <1>2, <1>3, <3>1 DEF SweepState
  <2>2. /\ f \in SweepState /\ f.cutoff = e.cutoff /\ f.deleted = e.deleted /\ f.removed = e.removed
        /\ f.failures = e.failures /\ f.at = e.at /\ f.picked = {}
    <3>1. f = [e EXCEPT !.picked = {}]
      BY <1>4
    <3> QED BY <2>1, <3>1 DEF SweepState
  <2>3. /\ q \in SweepState
        /\ q.cutoff = f.cutoff /\ q.picked = f.picked /\ q.deleted = f.deleted
        /\ q.failures = f.failures /\ q.removed = f.removed
        /\ \/ f.at = Len(Operations(w)) /\ q.pc = "done" /\ q.at = f.at
           \/ f.at # Len(Operations(w)) /\ q.pc = "batch" /\ q.at = f.at + 1 /\ q.total = 0
    BY <1>8, <2>2, AdvanceIs
  <2>4. Spent(w)'
    BY <1>1, <1>6, <2>1, <2>2, <2>3, SpentLess
  <2>5. Selected(w)'
    BY <1>6, <2>2, <2>3 DEF Selected
  <2>6. /\ Op(w) = Operations(w)[sweep[w].at]
        /\ \A j \in sweep[w].at .. Len(Operations(w)) :
            /\ sweep[w].deleted[Operations(w)[j]] = 0
            /\ Operations(w)[j] \notin sweep[w].failures
            /\ j > sweep[w].at => sweep[w].removed[Operations(w)[j]] = 0
        /\ \A k \in Resource \ {Op(w)} :
            sweep[w].deleted[k] = (IF k \in sweep[w].failures THEN 0 ELSE sweep[w].removed[k])
    BY <1>3 DEF Booked, Op
  <2>7. \A k \in Resource : q.deleted[k] = (IF k \in q.failures THEN 0 ELSE q.removed[k])
    BY <1>3, <2>1, <2>2, <2>3, <2>6
  <2>8. Reported(w)'
    BY <1>6, <2>7 DEF Reported
  <2>9. CASE q.pc = "done"
    BY <1>1, <1>2, <1>3, <1>5, <1>6, <2>1, <2>2, <2>3, <2>4, <2>5, <2>8, <2>9, OthersKept DEF SweepGood, Working
  <2>10. CASE f.at # Len(Operations(w)) /\ q.pc = "batch" /\ q.at = f.at + 1 /\ q.total = 0
    <3>1. sweep[w].at \in Nat /\ q.at \in 1 .. Len(Operations(w)) /\ q.at > sweep[w].at
      BY <1>2, <1>3, <2>1, <2>2, <2>10 DEF SweepState
    <3>2. \A j \in q.at .. Len(Operations(w)) :
            /\ q.deleted[Operations(w)[j]] = 0
            /\ Operations(w)[j] \notin q.failures
            /\ q.removed[Operations(w)[j]] = 0
      <4>1. SUFFICES ASSUME NEW j \in q.at .. Len(Operations(w))
                     PROVE  /\ q.deleted[Operations(w)[j]] = 0
                            /\ Operations(w)[j] \notin q.failures
                            /\ q.removed[Operations(w)[j]] = 0
        OBVIOUS
      <4>2. j \in sweep[w].at .. Len(Operations(w)) /\ j > sweep[w].at /\ j \in 1 .. Len(Operations(w))
        BY <1>3, <3>1
      <4>3. Operations(w)[j] # Op(w)
        BY <1>3, <2>6, <3>1, <4>2
      <4> QED BY <2>1, <2>2, <2>3, <2>6, <4>2, <4>3
    <3>3. Op(w)' = Operations(w)[q.at] /\ q.removed[Operations(w)[q.at]] = 0
      BY <1>6, <3>1, <3>2 DEF Op
    <3>4. Booked(w)'
      BY <1>6, <2>7, <2>10, <3>1, <3>2, <3>3 DEF Booked
    <3>5. SweepGood(w)'
      BY <1>1, <1>3, <1>6, <2>1, <2>2, <2>3, <2>4, <2>5, <2>8, <3>4 DEF SweepGood
    <3> QED BY <1>1, <1>2, <1>5, <2>3, <3>5, OthersKept
  <2> QED BY <2>3, <2>9, <2>10
<1> QED BY <1>4, <1>7, <1>8

LEMMA IdleIs ==
    /\ Idle \in SweepState
    /\ Idle.pc = "idle" /\ Idle.cutoff = 0 /\ Idle.picked = {}
    /\ \A k \in Resource : Idle.deleted[k] = 0 /\ Idle.removed[k] = 0
BY DEF Idle, Nothing, SweepState

LEMMA IdleIsGood ==
    ASSUME Settings, NEW w \in Run, sweep'[w] = Idle, clock' \in Nat
    PROVE  SweepGood(w)'
<1>1. Spent(w)'
  <2>1. SUFFICES ASSUME NEW k \in Resource PROVE 0 + Cardinality(StillDue(w, k)') <= Cardinality(Slots(k))
    BY IdleIs DEF Spent
  <2>2. StillDue(w, k)' \in SUBSET Slots(k)
    BY DEF StillDue, Slots
  <2> QED BY <2>2, Fits
<1> QED BY <1>1, IdleIs DEF SweepGood, Selected, Working, Reported, SweepAt

LEMMA CrashKeeps == ASSUME Settings, SweepInv, NEW w \in Run, Die(w) PROVE SweepInv'
<1>1. /\ deployment' = deployment /\ clock' = clock /\ stamp' = stamp /\ lost' = lost
      /\ faults < MaxFaults /\ faults' = faults + 1 /\ sweep' = [sweep EXCEPT ![w] = Idle]
  BY DEF Die
<1>2. /\ SweepTyped /\ sweep \in [Run -> SweepState] /\ lost \subseteq Row /\ clock \in Nat
      /\ stamp \in [Row -> 0 .. Never] /\ faults' \in 0 .. MaxFaults /\ sweep'[w] = Idle
  BY <1>1 DEF SweepInv, SweepTyped, Settings
<1>3. SweepGood(w)'
  BY <1>1, <1>2, IdleIsGood
<1> QED BY <1>1, <1>2, <1>3, IdleIs, OthersKept

LEMMA IssueKeeps == ASSUME Settings, SweepInv, NEW x \in Row, Insert(x) PROVE SweepInv'
<1>1. /\ SweepTyped /\ sweep \in [Run -> SweepState] /\ lost \subseteq Row /\ clock \in Nat /\ clock \in 1 .. MaxClock
      /\ stamp \in [Row -> 0 .. Never] /\ Never = MaxClock + Life + 1 /\ MaxClock \in Nat /\ Life \in Nat \ {0}
  BY DEF SweepInv, SweepTyped, Settings, Never
<1>2. PICK s \in (IF KindOf[x] = "audit_logs" THEN {clock}
                  ELSE {clock + Life} \cup IF KindOf[x] = "api_keys" THEN {Never} ELSE {}) :
        stamp' = [stamp EXCEPT ![x] = s]
  BY DEF Insert
<1>3. /\ deployment' = deployment /\ clock' = clock /\ faults' = faults /\ lost' = lost
      /\ s \in 1 .. Never /\ (IF KindOf[x] = "audit_logs" THEN s = clock ELSE clock < s)
  BY <1>1, <1>2 DEF Insert
<1>4. stamp' \in [Row -> 0 .. Never] /\ (\A y \in Row : y # x => stamp'[y] = stamp[y]) /\ Late(x)
  BY <1>1, <1>2, <1>3 DEF Late
<1>5. \A v \in Run : /\ sweep'[v] \in SweepState /\ sweep'[v].pc = sweep[v].pc /\ sweep'[v].cutoff = sweep[v].cutoff
                     /\ sweep'[v].at = sweep[v].at /\ sweep'[v].total = sweep[v].total /\ sweep'[v].deleted = sweep[v].deleted
                     /\ sweep'[v].failures = sweep[v].failures /\ sweep'[v].removed = sweep[v].removed
                     /\ sweep'[v].picked \subseteq sweep[v].picked
                     /\ x \in sweep'[v].picked => KindOf[x] = "verifications"
  <2>1. CASE KindOf[x] = "verifications" /\ sweep' = sweep
    BY <1>1, <2>1
  <2>2. CASE sweep' = [w \in Run |-> [sweep[w] EXCEPT !.picked = @ \ {x}]]
    <3>1. SUFFICES ASSUME NEW v \in Run
                   PROVE  /\ sweep'[v] \in SweepState /\ sweep'[v].pc = sweep[v].pc /\ sweep'[v].cutoff = sweep[v].cutoff
                          /\ sweep'[v].at = sweep[v].at /\ sweep'[v].total = sweep[v].total /\ sweep'[v].deleted = sweep[v].deleted
                          /\ sweep'[v].failures = sweep[v].failures /\ sweep'[v].removed = sweep[v].removed
                          /\ sweep'[v].picked \subseteq sweep[v].picked
                          /\ x \in sweep'[v].picked => KindOf[x] = "verifications"
      OBVIOUS
    <3>2. PICK r, q : r = sweep[v] /\ q = [r EXCEPT !.picked = r.picked \ {x}]
      OBVIOUS
    <3>3. sweep'[v] = q
      BY <2>2, <3>2
    <3>4. r \in SweepState /\ q = [r EXCEPT !.picked = r.picked \ {x}]
      BY <1>1, <3>2
    <3>5. /\ q \in SweepState /\ q.pc = r.pc /\ q.cutoff = r.cutoff
          /\ q.at = r.at /\ q.total = r.total /\ q.deleted = r.deleted
          /\ q.failures = r.failures /\ q.removed = r.removed
          /\ q.picked = r.picked \ {x}
      BY <3>4 DEF SweepState
    <3>6. r = sweep[v]
      BY <3>2
    <3> QED BY <3>3, <3>5, <3>6
  <2> QED BY <2>1, <2>2 DEF Insert
<1>6. sweep' \in [Run -> SweepState]
  <2>1. sweep' = sweep \/ sweep' = [w \in Run |-> [sweep[w] EXCEPT !.picked = @ \ {x}]]
    BY DEF Insert
  <2>2. \E f : sweep' = [w \in Run |-> f[w]]
    <3>1. CASE sweep' = sweep
      BY <1>1, <3>1
    <3>2. CASE sweep' = [w \in Run |-> [sweep[w] EXCEPT !.picked = @ \ {x}]]
      <4>1. sweep' = [w \in Run |-> sweep'[w]]
        BY <3>2, Zenon
      <4> QED BY <4>1
    <3> QED BY <2>1, <3>1, <3>2
  <2> QED BY <1>5, <2>2
<1>7. SweepTyped'
  BY <1>1, <1>3, <1>4, <1>6 DEF SweepTyped, Never
<1>8. ASSUME NEW v \in Run PROVE SweepGood(v)'
  <2>1. \A y \in Row : \/ stamp'[y] = stamp[y] \/ stamp'[y] = 0
                       \/ Late(y) /\ (y \in sweep'[v].picked => KindOf[y] = "verifications")
    BY <1>4, <1>5
  <2>2. clock' \in Nat /\ clock <= clock'
    BY <1>1, <1>3
  <2> QED BY <1>3, <1>5, <2>1, <2>2, GoodKept
<1> QED BY <1>7, <1>8 DEF SweepInv

(* Rows go by themselves, and time passes.                                 *)
LEMMA RestKeeps ==
    ASSUME Settings, SweepInv, (\E x \in Row : Vanish(x)) \/ Tick \/ UNCHANGED maintenanceVars
    PROVE  SweepInv'
<1>1. /\ SweepTyped /\ sweep \in [Run -> SweepState] /\ clock \in Nat /\ MaxClock \in Nat
      /\ stamp \in [Row -> 0 .. Never] /\ Never \in Nat
  BY DEF SweepInv, SweepTyped, Settings, Never
<1>2. /\ deployment' = deployment /\ sweep' = sweep /\ faults' = faults /\ lost' = lost
      /\ clock' \in 1 .. MaxClock /\ clock' \in Nat /\ clock <= clock'
  <2>1. clock \in 1 .. MaxClock
    BY <1>1 DEF SweepTyped
  <2>2. clock' = clock \/ (clock < MaxClock /\ clock' = clock + 1)
    BY DEF Vanish, Tick, maintenanceVars
  <2>3. clock' \in 1 .. MaxClock /\ clock' \in Nat /\ clock <= clock'
    BY <1>1, <2>1, <2>2
  <2> QED BY <2>3 DEF Vanish, Tick, maintenanceVars
<1>3. stamp' \in [Row -> 0 .. Never] /\ \A x \in Row : stamp'[x] = stamp[x] \/ stamp'[x] = 0
  <2>1. CASE \E x \in Row : Vanish(x)
    BY <1>1, <2>1 DEF Vanish, Remove
  <2>2. CASE stamp' = stamp
    BY <1>1, <2>2
  <2> QED BY <2>1, <2>2 DEF Tick, maintenanceVars
<1>4. SweepTyped'
  BY <1>1, <1>2, <1>3 DEF SweepTyped, Never
<1>5. ASSUME NEW v \in Run PROVE SweepGood(v)'
  <2>1. sweep'[v] = sweep[v] /\ sweep[v] \in SweepState
    BY <1>1, <1>2
  <2> QED BY <1>2, <1>3, <2>1, GoodKept
<1> QED BY <1>4, <1>5 DEF SweepInv
------------------------------------------------------------------------------
LEMMA SweepInvInit == ASSUME Settings, MaintenanceInit PROVE SweepInv
<1>1. clock = 1 /\ sweep = [w \in Run |-> Idle] /\ stamp = [x \in Row |-> 0] /\ MaxClock \in Nat
  BY DEF MaintenanceInit, Settings
<1>2. ASSUME NEW w \in Run PROVE SweepGood(w)
  <2>1. sweep[w] = Idle
    BY <1>1
  <2>2. Spent(w)
    <3>1. SUFFICES ASSUME NEW k \in Resource PROVE 0 + Cardinality(StillDue(w, k)) <= Cardinality(Slots(k))
      BY <2>1, IdleIs DEF Spent
    <3>2. StillDue(w, k) \in SUBSET Slots(k)
      BY DEF StillDue, Slots
    <3> QED BY <3>2, Fits
  <2> QED BY <1>1, <2>1, <2>2, IdleIs DEF SweepGood, Selected, Working, Reported, SweepAt
<1>3. SweepTyped
  BY <1>1, IdleIs DEF MaintenanceInit, SweepTyped, Settings, Never
<1> QED BY <1>2, <1>3 DEF SweepInv

LEMMA SweepInvNext == ASSUME Settings, SweepInv, [MaintenanceNext]_maintenanceVars PROVE SweepInv'
<1>1. deployment.runs \subseteq Run /\ deployment.rows \subseteq Row
  BY DEF SweepInv, SweepTyped, Settings, Deployment
<1>2. CASE \E w \in deployment.runs : Work(w) \/ Fail(w) \/ Die(w)
  BY <1>1, <1>2, StartKeeps, DeleteBatchKeeps, SelectBatchKeeps, DeletePickedKeeps, FailKeeps, CrashKeeps DEF Work
<1>3. CASE \E x \in deployment.rows : Insert(x) \/ Vanish(x)
  BY <1>1, <1>3, IssueKeeps, RestKeeps
<1>4. CASE Tick \/ UNCHANGED maintenanceVars
  BY <1>4, RestKeeps
<1> QED BY <1>2, <1>3, <1>4 DEF MaintenanceNext
------------------------------------------------------------------------------
(* Only a MongoDB challenge that was issued again under its id may go      *)
(* before it is due.                                                       *)
Reissued == \A x \in lost : OnMongo /\ KindOf[x] = "verifications"

LEMMA NothingLive ==
    ASSUME Settings, SweepInv, Reissued, [MaintenanceNext]_maintenanceVars
    PROVE  Reissued' /\ NothingLiveIsDeleted
<1>1. /\ deployment.runs \subseteq Run /\ deployment.rows \subseteq Row /\ deployment' = deployment /\ SweepTyped
      /\ clock \in Nat /\ deployment.retention \in Nat /\ sweep \in [Run -> SweepState] /\ stamp \in [Row -> 0 .. Never]
  <2>1. deployment' = deployment
    BY DEF MaintenanceNext, Work, Start, DeleteBatch, SelectBatch, DeletePicked, Fail, Die, Insert, Vanish, Tick, maintenanceVars
  <2>2. deployment \in Deployment /\ SweepTyped /\ clock \in Nat
    BY DEF SweepInv, SweepTyped, Settings
  <2> QED BY <2>1, <2>2 DEF SweepTyped, Deployment
<1>2. OnMongo' = OnMongo
  BY <1>1 DEF OnMongo
<1>3. CASE \E w \in Run : DeleteBatch(w) \/ DeletePicked(w)
  <2>1. PICK w \in Run : \E T :
                            /\ stamp' = [x \in Row |-> IF x \in T THEN 0 ELSE stamp[x]]
                            /\ lost' = lost \cup {x \in T : ~Due(x, sweep[w].cutoff)}
                            /\ \A x \in T : /\ x \in Row /\ stamp[x] # 0
                                            /\ ~Due(x, sweep[w].cutoff) => OnMongo /\ KindOf[x] = "verifications"
    <3>1. PICK w \in Run : DeleteBatch(w) \/ DeletePicked(w)
      BY <1>3
    <3>2. CASE DeleteBatch(w)
      <4>1. PICK T \in Batches(w) : Remove(T) /\ lost' = lost \cup {x \in T : ~Due(x, sweep[w].cutoff)}
        BY <3>2 DEF DeleteBatch
      <4>2. \A x \in T : x \in Row /\ Due(x, sweep[w].cutoff)
        BY <4>1, BatchesAreDue DEF DueRows
      <4> QED BY <4>1, <4>2 DEF Remove, Due
    <3>3. CASE DeletePicked(w)
      <4>1. Selected(w) /\ sweep[w].picked \subseteq Row /\ sweep[w].pc = "delete"
        BY <1>1, <3>3 DEF SweepInv, SweepGood, SweepState, DeletePicked, SweepAt
      <4>2. \A x \in sweep[w].picked : stamp[x] # 0 /\ ~Due(x, sweep[w].cutoff) => OnMongo /\ KindOf[x] = "verifications"
        BY <4>1 DEF Selected
      <4>3. PICK T : /\ T = {x \in sweep[w].picked : stamp[x] # 0} /\ Remove(T)
                     /\ lost' = lost \cup {x \in T : ~Due(x, sweep[w].cutoff)}
        BY <3>3 DEF DeletePicked
      <4> QED BY <4>1, <4>2, <4>3 DEF Remove
    <3> QED BY <3>1, <3>2, <3>3
  <2>2. \A x \in lost' : OnMongo /\ KindOf[x] = "verifications"
    BY <2>1 DEF Reissued
  <2>3. ASSUME NEW x \in Row, KindOf[x] = "audit_logs", stamp[x] # 0, stamp'[x] = 0
        PROVE  stamp[x] + deployment.retention < clock
    <3>1. Due(x, sweep[w].cutoff)
      BY <2>1, <2>3
    <3>2. sweep[w].cutoff <= clock /\ sweep[w].cutoff \in Nat /\ stamp[x] \in Nat
      BY <1>1 DEF SweepInv, SweepGood, SweepState
    <3> QED BY <1>1, <2>3, <3>1, <3>2 DEF Due, Retention
  <2> QED BY <1>2, <2>2, <2>3 DEF Reissued, NothingLiveIsDeleted
<1>4. CASE /\ lost' = lost
           /\ \A x \in Row : KindOf[x] = "audit_logs" /\ stamp[x] # 0 => stamp'[x] # 0
  BY <1>2, <1>4 DEF Reissued, NothingLiveIsDeleted
<1>5. CASE \E x \in Row : Insert(x)
  <2>1. PICK x \in Row : Insert(x)
    BY <1>5
  <2>2. PICK s \in (IF KindOf[x] = "audit_logs" THEN {clock}
                    ELSE {clock + Life} \cup IF KindOf[x] = "api_keys" THEN {Never} ELSE {}) :
          stamp' = [stamp EXCEPT ![x] = s]
    BY <2>1 DEF Insert
  <2>3. clock \in 1 .. MaxClock /\ Life \in Nat /\ Never = MaxClock + Life + 1 /\ MaxClock \in Nat
    BY <1>1 DEF SweepTyped, Settings, Never
  <2>4. s # 0
    BY <2>2, <2>3
  <2> QED BY <1>1, <1>4, <2>1, <2>2, <2>4 DEF Insert
<1>6. CASE \E x \in Row : Vanish(x)
  BY <1>1, <1>4, <1>6 DEF Vanish, Remove
<1>7. CASE stamp' = stamp /\ lost' = lost
  BY <1>4, <1>7
<1> QED BY <1>1, <1>3, <1>5, <1>6, <1>7 DEF MaintenanceNext, Work, Start, SelectBatch, Fail, Die, Tick, maintenanceVars

(* How much a result can say: a run removes each row at most once.         *)
LEMMA SweepTypes == ASSUME Settings, SweepInv PROVE MaintenanceTypeOK
<1>1. SweepTyped /\ \A w \in Run : sweep[w].cutoff <= clock /\ Spent(w)
  BY DEF SweepInv, SweepGood
<1>2. MaxClock \in Nat \ {0} /\ Cardinality(Row) \in Nat
  BY FS_CardinalityType DEF Settings
<1>3. ASSUME NEW w \in Run, NEW k \in Resource
      PROVE  /\ sweep[w].deleted[k] \in Nat /\ sweep[w].removed[k] \in Nat
             /\ sweep[w].deleted[k] <= sweep[w].removed[k]
             /\ sweep[w].removed[k] <= Cardinality(Slots(k))
  <2>1. StillDue(w, k) \in SUBSET Row /\ IsFiniteSet(Row) /\ sweep[w] \in SweepState
    BY <1>1 DEF StillDue, Settings, SweepTyped
  <2>2. Cardinality(StillDue(w, k)) \in Nat /\ Cardinality(Slots(k)) \in Nat
    BY <2>1, SlotsCount, FS_Subset, FS_CardinalityType
  <2>3. /\ sweep[w].deleted[k] \in Nat /\ sweep[w].removed[k] \in Nat
        /\ sweep[w].deleted[k] <= sweep[w].removed[k]
        /\ sweep[w].removed[k] + Cardinality(StillDue(w, k)) <= Cardinality(Slots(k))
    BY <1>1, <2>1 DEF Spent, SweepState
  <2> QED BY <2>2, <2>3
<1>4. ASSUME NEW w \in Run PROVE sweep[w] \in Progress
  <2>1. sweep[w] \in SweepState /\ clock \in 1 .. MaxClock /\ sweep[w].cutoff <= clock
    BY <1>1 DEF SweepTyped
  <2>2. \A k \in Resource : sweep[w].deleted[k] \in 0 .. Cardinality(Row) /\ sweep[w].removed[k] \in 0 .. Cardinality(Row)
    BY <1>2, <1>3, SlotsCount
  <2>3. sweep[w].deleted \in Count /\ sweep[w].removed \in Count
    BY <2>1, <2>2 DEF Count, SweepState
  <2>4. sweep[w].cutoff \in 0 .. MaxClock
    BY <1>2, <2>1 DEF SweepState
  <2> QED BY <2>1, <2>3, <2>4 DEF SweepState, Progress
<1>5. sweep \in [Run -> Progress]
  BY <1>1, <1>4 DEF SweepTyped
<1> QED BY <1>1, <1>3, <1>5 DEF SweepTyped, MaintenanceTypeOK

(* Type correctness.  In particular the cutoff of a run is never in the    *)
(* future, and a run removes and reports no more rows of a resource than   *)
(* there are slots for, though rows are issued in them all the time        *)
(* (MaintenanceManager.run).                                               *)
THEOREM MaintenanceTypeCorrect == MaintenanceSpec => []MaintenanceTypeOK
<1>1. MaintenanceInit => SweepInv
  BY SettingsAssumption, SweepInvInit
<1>2. SweepInv /\ [MaintenanceNext]_maintenanceVars => SweepInv'
  BY SettingsAssumption, SweepInvNext
<1>3. SweepInv => MaintenanceTypeOK
  BY SettingsAssumption, SweepTypes
<1> QED BY <1>1, <1>2, <1>3, PTL DEF MaintenanceSpec

(* However many runs work at once, fail or die, and whatever is issued or  *)
(* used up meanwhile: a run deletes only what was due at its cutoff (but   *)
(* for a MongoDB challenge issued again under its id), keeps audit logs    *)
(* for their retention, and its result counts exactly what it removed      *)
(* (BeanieAdapter.delete_bounded, MaintenanceManager.drain).               *)
THEOREM RemovalIsTrueAlways == MaintenanceSpec => RemovalIsTrue
<1>1. MaintenanceInit => SweepInv /\ Reissued
  BY SettingsAssumption, SweepInvInit DEF MaintenanceInit, Reissued
<1>2. SweepInv /\ Reissued /\ [MaintenanceNext]_maintenanceVars => SweepInv' /\ Reissued' /\ NothingLiveIsDeleted
  BY SettingsAssumption, SweepInvNext, NothingLive
<1>3. SweepInv => CountsAreTrue
  BY DEF SweepInv, SweepGood, Reported, CountsAreTrue
<1> QED BY <1>1, <1>2, <1>3, PTL DEF MaintenanceSpec, RemovalIsTrue
==============================================================================
