----------------------------- MODULE SchemaPlan -----------------------------
(***************************************************************************)
(* What plugins declare to be stored, and the plan that is made of it when *)
(* the process starts: which declarations are accepted together, what is   *)
(* built of them in which order on either store, and what the fingerprint  *)
(* of a migration covers.  Only the order of names matters: a name is its  *)
(* place in the alphabet.  Module Migrations runs such plans.              *)
(***************************************************************************)
EXTENDS Naturals, Sequences

Name == Nat

(* references: the table (one at most) that a foreign key points to.       *)
FieldSpec == [name : Name, unique : BOOLEAN, indexed : BOOLEAN, references : SUBSET Name]
IndexSpec == [name : Name, fields : SUBSET Name, unique : BOOLEAN]
TableSpec == [name : Name, fields : SUBSET FieldSpec, indexes : SUBSET IndexSpec]
MigrationSpec == [name : Name, version : Nat \ {0}]
PluginSchema == [plugin_id : Name, tables : SUBSET TableSpec, migrations : SUBSET MigrationSpec]

(* What pydantic checks of one declaration; a repeated entry of a tuple is *)
(* refused like two entries of one name.                                   *)
DistinctNames(S) == \A a, b \in S : a.name = b.name => a = b

ValidTable(t) ==
    /\ DistinctNames(t.fields) /\ DistinctNames(t.indexes)
    /\ \A x \in t.indexes : x.fields # {} /\ x.fields \subseteq {f.name : f \in t.fields}

ValidSchema(s) ==
    /\ DistinctNames(s.tables) /\ DistinctNames(s.migrations)
    /\ \A t \in s.tables : ValidTable(t)
------------------------------------------------------------------------------
(* The registry's schemas are a sequence S; a plugin may give several.     *)
Declaration(S) ==
    {d \in (DOMAIN S) \X UNION {S[i].tables : i \in DOMAIN S} : d[2] \in S[d[1]].tables}

(* find_schema_conflicts walks them sorted by plugin, in a stable order.   *)
Earlier(S, i, j) == S[i].plugin_id < S[j].plugin_id \/ (S[i].plugin_id = S[j].plugin_id /\ i < j)

find_schema_conflicts(S) ==
    {e \in Declaration(S) :
        \E d \in Declaration(S) : d[2].name = e[2].name /\ Earlier(S, d[1], e[1])}

(* A plugin's migrations, of all its schemas, by name and by version       *)
UniqueMigrations(S) ==
    \A i, j \in DOMAIN S : S[i].plugin_id = S[j].plugin_id =>
        \A m \in S[i].migrations, n \in S[j].migrations :
            m.name = n.name \/ m.version = n.version => i = j /\ m = n

Accepted(S) ==
    /\ \A i \in DOMAIN S : ValidSchema(S[i])
    /\ find_schema_conflicts(S) = {}
    /\ UniqueMigrations(S)

PlannedTables(S) ==
    {[plugin_id |-> S[d[1]].plugin_id, name |-> d[2].name, fields |-> d[2].fields, indexes |-> d[2].indexes] :
        d \in Declaration(S)}

PlannedMigrations(S) ==
    UNION {{[plugin_id |-> S[i].plugin_id, name |-> m.name, version |-> m.version] : m \in S[i].migrations} :
             i \in DOMAIN S}

(* The hash covers the migration and every table of its plugin.            *)
schema_fingerprint(S, m) ==
    [migration |-> m, tables |-> {t \in PlannedTables(S) : t.plugin_id = m.plugin_id}]
------------------------------------------------------------------------------
(* Parts: the table itself (kind 0), an index that comes with a field (1), *)
(* an index of its own (2).  The field's index is left out when any index  *)
(* names the field; MongoDB makes one for a unique field too, for          *)
(* PostgreSQL has a column constraint.                                     *)
Explicit(t) == UNION {x.fields : x \in t.indexes}

FieldIndexes(t, mongo) == {f \in t.fields : (f.indexed \/ (mongo /\ f.unique)) /\ f.name \notin Explicit(t)}

TableParts(t, mongo) ==
    {[table |-> t.name, kind |-> 0, name |-> 0]}
    \cup {[table |-> t.name, kind |-> 1, name |-> f.name] : f \in FieldIndexes(t, mongo)}
    \cup {[table |-> t.name, kind |-> 2, name |-> x.name] : x \in t.indexes}

Parts(S, mongo) == UNION {TableParts(t, mongo) : t \in PlannedTables(S)}

(* The order in which MongoDB builds them: the tables by name, each with   *)
(* its indexes behind it.  PostgreSQL sorts a table's indexes by the full  *)
(* name, whatever their kind.                                              *)
BuiltBefore(a, b) ==
    \/ a.table < b.table
    \/ a.table = b.table /\ a.kind < b.kind
    \/ a.table = b.table /\ a.kind = b.kind /\ a.name < b.name

(* The fields whose values the store keeps unique.                         *)
KeptUnique(t, mongo) ==
    {f.name : f \in {g \in t.fields : g.unique /\ (mongo => g \in FieldIndexes(t, mongo))}}
    \cup {n \in Explicit(t) : \E x \in t.indexes : x.unique /\ x.fields = {n}}

(* PostgreSQL creates one table after the other, each with its foreign     *)
(* keys: what a field refers to must have been created before.             *)
Resolvable(S, core) ==
    \A t \in PlannedTables(S) : \A f \in t.fields : \A r \in f.references :
        r \in core \/ r = t.name \/ (r < t.name /\ \E u \in PlannedTables(S) : u.name = r)
==============================================================================
