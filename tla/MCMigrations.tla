---------------------------- MODULE MCMigrations ----------------------------
(* Model-checking instances of Migrations.                                 *)
EXTENDS Migrations, SchemaPlan, TLC

LOCAL INSTANCE SequencesExt

CONSTANTS p1, p2

(* The plugin's table 1 has an indexed field; its release 2 adds table 2,  *)
(* which refers to table 1 and has an index over both of its fields.       *)
Plain(n) == [name |-> n, unique |-> FALSE, indexed |-> FALSE, references |-> {}]

Table1 == [name |-> 1, fields |-> {Plain(1), [Plain(2) EXCEPT !.indexed = TRUE]}, indexes |-> {}]
Table2 == [name |-> 2, fields |-> {Plain(1), [Plain(2) EXCEPT !.references = {1}]},
           indexes |-> {[name |-> 1, fields |-> {1, 2}, unique |-> TRUE]}]

TheSchemas(v) ==
    <<[plugin_id |-> 1, tables |-> {Table1} \cup (IF v = 2 THEN {Table2} ELSE {}),
       migrations |-> {[name |-> n, version |-> n] : n \in 1 .. v}]>>

ASSUME PlansAssumption ==
    \A v \in 1 .. 2 : /\ Accepted(TheSchemas(v)) /\ Resolvable(TheSchemas(v), {})
                      /\ Parts(TheSchemas(v), TRUE) = Parts(TheSchemas(v), FALSE)

(* The parts of the plan, in the order in which both stores build them     *)
TheElements == Parts(TheSchemas(2), TRUE)
TheBuilds == [v \in 1 .. 2 |-> SetToSortSeq(Parts(TheSchemas(v), TRUE), BuiltBefore)]
All(m) == [r \in Runner |-> m]
Releases(a, b) == (p1 :> a @@ p2 :> b)

(* One release, two releases, and a deployment in which p1 migrates and p2 *)
(* checks; on an older and on a current schema.                            *)
TheConfs ==
    [store : {"postgres"}, from : {0, 1, 3, 4, Current}, release : {Releases(2, 2), Releases(1, 2)},
     core : {All("apply"), Releases("apply", "check"), Releases("apply", "disabled")},
     plugin : {All("apply"), Releases("apply", "check"), Releases("apply", "disabled")},
     serves : {Runner, {p2}}]
    \cup
    [store : {"mongo"}, from : {0, Current}, release : {Releases(2, 2), Releases(1, 2), Releases(2, 1)},
     core : {All("apply")}, plugin : {All("apply"), Releases("apply", "check"), Releases("apply", "disabled")},
     serves : {Runner, {p2}}]
==============================================================================
