--------------------------- MODULE MCMaintenance ---------------------------
EXTENDS Maintenance, TLC

CONSTANTS cron, endpoint, s1, s2, challenge, key, log

mc_KindOf == (s1 :> "sessions") @@ (s2 :> "sessions") @@ (challenge :> "verifications")
             @@ (key :> "api_keys") @@ (log :> "audit_logs")

C(store, batch, batches, continue, runs, rows) ==
    [store |-> store, batch |-> batch, batches |-> batches, retention |-> 1, continue |-> continue,
     runs |-> runs, rows |-> rows]

mc_Deployments == {C("mongo", 1, 2, FALSE, {cron}, {s1, s2, log}), C("mongo", 2, 1, TRUE, {cron}, {s1, challenge, log}),
             C("mongo", 1, 1, TRUE, {cron, endpoint}, {challenge, key}),
             C("postgres", 1, 1, TRUE, {cron}, {s1, challenge, log})}
==============================================================================
