# TLA+ verification of fastauth

fastauth is an asynchronous Python authentication library: password and
one-time-code sign-in, database or JWT sessions, rotating refresh tokens,
account recovery, API keys and an audit log, over an in-memory, a PostgreSQL or
a MongoDB (Beanie) store.  Its requests are coroutines that suspend at every
store call, so between any two calls of one request every other request, on
this process or on another one, may run.  The modules of this directory model
that: **one store call is one step**, and the steps of concurrent requests
interleave freely.

Paths below are relative to `src/src/fastauth/`.

## 1. Inventory

| Component | State it keeps | Operations | What makes it hard |
|---|---|---|---|
| Refresh families: `security/refresh_tokens.py`, `flows/refresh.py`, `storage/beanie/adapter.py` | token documents, the family's coordination document, session rows | open (sign-in), rotate, detect reuse, revoke | no transactions on a standalone MongoDB: ten calls per rotation, each of which may fail or be the last one of the process |
| Sign-in and recovery: `flows/credentials.py`, `flows/password_reset.py`, `flows/change_password.py`, `flows/user_management.py`, `security/policy.py` | credential account (password hash), `active` flag, sessions, refresh tokens | sign in (with rehash), reset, change and set password, suspend and reactivate, sign out | the flow keeps an account it read several calls ago; two flows write the same account |
| Challenges: `storage/verification.py`, `flows/challenges.py`, `flows/verification.py`, `flows/email_otp.py` | one row per address and purpose with attempt counter and consumption mark | issue, attempt, consume | a reissue racing an attempt, the attempt limit, expiry at the boundary, consumption before the effect |
| Lockout and rate limits: `security/lockout.py`, `security/rate_limit.py`, `storage/beanie/adapter.py` | counter buckets per key with a window start | increment, check, reset, rekey | a bucket moved to another key while sign-ins count on both, a bounded compare-and-set loop |
| Identity changes: `flows/change_email.py`, `flows/creation.py`, `runtime/hooks.py` | user rows (email, username, pending address), accounts | create, request and confirm a change of address, update a profile, delete | whole-row writes of a row read earlier; uniqueness checked before it is used |
| Sessions: `security/sessions.py`, `flows/sessions.py` | session rows with absolute and idle expiry | create, read (slides the idle expiry), revoke one, others, all | a read that writes, racing a revocation |
| Stores: `storage/memory.py`, `storage/postgres/adapter.py`, `storage/beanie/adapter.py` | all rows | the `DatabaseAdapter` protocol of `storage/base.py` | atomic under a lock, one transaction, or several calls |
| JWT sessions: `security/jwt.py`, `plugins/jwt.py` | signing keys with a grace deadline | sign, verify, rotate and retire keys, publish the key set | several processes rotate one set over calls that are no transaction, while another signs; a changed secret |
| API keys: `plugins/api_key.py` | keys with remaining uses, a rate counter of their own | create, verify, update, delete, sweep | the whole row is written back as it was read, several calls later |
| Migrations: `plugins/schema.py`, `plugins/migrations.py`, `storage/*/migrations.py`, `storage/*/plugin_migrations.py` | the stored version, the plugin ledger, tables and indexes | plan, preflight, apply, record; the offline index migration of MongoDB | a crash between an effect and its record, two processes, two releases |
| Events and audit: `runtime/event_bus.py`, `plugins/audit_logs.py` | subscribers, audit rows | subscribe, publish, record, retain | handlers that fail, or are subscribed while an event is being published |
| Maintenance: `runtime/maintenance.py`, the bounded deletions of the stores | nothing of its own | delete expired rows in batches, per resource | bounded loops against rows that keep expiring, selected in one call and deleted in another |
| Runtime: `runtime/auth.py`, the plugins' lifespans | phase, readiness flag, started plugins | start, serve, stop, report | each start, stop and close may fail after others succeeded |
| HTTP: `web/fastapi.py`, `web/csrf.py`, `security/rate_limit.py` | routes, rate buckets | CSRF check, rate limit, route guard, hooks, middlewares, dependency, handler, response hooks | the order of these, and a session that ends between two of them |
| Accounts: `flows/creation.py`, `flows/user_management.py`, the stores' `delete_user` | users, accounts, and what hangs on a user | create with compensation, delete, re-delete | writes that are lost or cancelled halfway; a deletion that is not one step |
| Facades and CLI: `runtime/api.py`, `runtime/managers.py`, `cli/` | none | parse, call one flow, print | input and output |

How they interact.  A route calls a flow; a flow calls the store, the password
executor, the lockout tracker and the session and refresh services in sequence,
with an `await` at each; nothing is locked across two of these calls.  A
sign-in checks the lockout, reads the account, verifies the password, then
creates a session through `PolicySessionStrategy` and a refresh token through
`RefreshTokenService`; `POST /auth/refresh` rotates both; a reset or a change
of password writes the account and then withdraws sessions and families; a
challenge is consumed by `consume_token` or `consume_otp` before the flow that
presented it goes on.  Every route is reached through the guards of
`web/fastapi.py`, and what an operation publishes runs, handler by handler,
inside the request.  Shared state is only what is stored.  The properties
that make each component correct are the ones of section 5; everything found
hard to test is listed in `PROJECT.json` under "hazards", at its line.

## 2. Modules, and how they correspond to the code

| Module | Models | State | Actions |
|---|---|---|---|
| `RefreshFamily` | what a refresh store promises; the in-memory adapter, atomic under its lock | live token, spent tokens, closed, honoured sessions | `Open`, `Rotate`, `Forget`, `Revoke` |
| `MongoRefresh` | the same on MongoDB, call by call, with sign-in, `/auth/refresh` and sign-out around it | `active`, `revoked`, `famSessions`, `famExpires`, `famCreated` are the fields of the family's coordination document; `docs`, `consumed`, `docSession`, `expires` the token documents; `sessions` the session rows | one per database call of `create_refresh_token`, `rotate_refresh_token` and `delete_refresh_token_family`, and of the flows around them; `CallFails` (before or after its effect), `Crash`, `ExpireToken` (TTL), `Tick` |
| `Credentials` | every flow that issues or withdraws the credentials of one account, on PostgreSQL | the account's hash, `active`, session rows, refresh-token rows | one per transaction of sign-in with rehash, refresh, reset, change and set password, revoke others, revoke one, sign-out, suspend and reactivate; `Crash` |
| `Challenge` | one verification row, on any store | the row, the requests | issue, attempt (check or consume), the flow's effect, crash, removal, time |
| `Lockout` | failure counters and the rename that moves them, on the three stores | `bucket` per identifier, the user's `name` | sign-in (check, verify, count, clear), a missed code, recovery, rename and each store's `rekey_rate_limit` |
| `Identity` | user rows and every flow that writes them | `user` rows, the open `challenge` per purpose and address | sign-up, send and consume of verification, sign-in and change challenges by link or code, profile update, suspension, deletion |
| `Accounts` | creation with compensation and cancellation, what is added to a user, deletion, on the three stores | `users`, `rows` (sessions, accounts, keys, challenges) | one per store call of `persist_user_account`, sign-in, deletion and the additions; calls that fail before or after their effect, cancellation |
| `Jwks` | the signing keys of stateless sessions | `keys`, a clock | start, sign, renew, rotate, one per store call (`EnsureList`, `EnsureRetire`, `RotateSnapshot`, `create_key`, `RotateRetire`), crash |
| `ApiKeys` | one API key and its owner, on the three stores | `row`, `owner`, `counter` | verification call by call, update, deletion, sweep, suspension and deletion of the owner |
| `SchemaPlan` | what plugins declare and the plan made of it: no state, operators only | | `Accepted`, `Parts`, `BuiltBefore`, `Fingerprint` |
| `Migrations` | processes of two releases bringing either store up to date | `core`, `ledger`, `built`, `unique`, the `run`s | the transaction under the advisory lock on PostgreSQL; command by command on MongoDB; the offline index migration; crashes |
| `Maintenance` | runs of the manager and the sweep of API keys | `stamp` (the rows), the `sweep`s | `Start`, `DeleteBatch` (atomic) or `SelectBatch` and `DeletePicked` (MongoDB), `Fail`, `Die`, and rows issued (`Insert`) or used up (`Vanish`) meanwhile |
| `Runtime` | one process: its lifespan and its event bus | `phase`, `db`, `started`, `ready`, `subscribers` | `OpenDatabase`, `StartPlugin`, `Serve`, `Leave`, `StopPlugin`, `CloseDatabase`, `On`; `Publish` and `Advance` are used by the requests |
| `Requests` | the requests of such a process, from the CSRF check to the response hooks | `req`, the sessions (`rows`), rate `bucket`s, `audit` | one per stage and one per read or write of the session |

A request is a record whose `pc` is the next call it will make and whose other
fields are the local variables that live across calls: `copy`, `seen` or `cur`
is a row the code read earlier and still holds.  A guard is the code's
condition or early return; a step does everything the code does up to its next
call.  The names of the code are kept where TLA+ allows it (`attempt_verification`,
`check_locked`, `rekey`, `create_user`); `PROJECT.json` "map" names the lines.

What is composed with what.  `RefreshFamily` is the abstract specification of a
rotation family and `MongoRefresh` is shown to implement it (`Family ==
INSTANCE RefreshFamily WITH ...`): a rotation happens at the compare-and-set of
the family document, a revocation at the update that sets its flag, a session
is honoured while its row exists and the family lists it.  `Credentials` uses
the family as the transaction PostgreSQL makes of it and composes it with
sessions, passwords and suspension.  `Identity` uses a challenge as `Challenge`
leaves it: the latest issue can be consumed once.  The recovery step of
`Lockout` and the renames of a profile update are the ones `Credentials` and
`Identity` leave out.  `Requests` EXTENDS `Runtime`: its requests run while the
process starts and stops, and publish on its bus.  `MCMigrations` does not
invent a plan: it derives the elements that `Migrations` builds from two
releases of a plugin's schema with the operators of `SchemaPlan`, and assumes
what the planner has to have accepted.

The modules have one request record per worker and a `mix`, `ops`, `store` or
`conf` variable that `Init` picks from a constant (`Mixes`, `Stores`, `Confs`) and
nothing changes: which flows, which store, which options this behaviour has.  It keeps one
checking run per component affordable, because the flows that cross each other
on the same rows are put together and the others are not.

## 3. Runs

| Run | Question |
|---|---|
| `mongo_refresh_faults` | two requests on a family, failing calls, dying processes, a moving clock: safety, and the refinement of `RefreshFamily` |
| `mongo_refresh_live` | without faults, does a started revocation finish, and does sign-out end the family |
| `credentials` | four mixes of two client requests and an administrator |
| `challenge` | attempts, checks, reissues and expiry of one row |
| `lockout` | sign-ins, resets and a rename on each store |
| `identity` | six mixes of flows that write user rows |
| `accounts` | three calls that create, extend and delete users, with failures and cancellation, on each store |
| `jwks` | two processes sign, start and rotate, with one secret, a rolling change of it, and one that forgot the old one |
| `api_keys` | two overlapping verifications and updates, and what happens to the owner meanwhile |
| `migrations` | two processes of one or two releases, on five stored versions, that apply, check or skip, and die twice |
| `maintenance` | runs in small batches beside each other, beside the API-key sweep and beside rows that come and go |
| `requests` | the lifespan with everything failing; races on one session; every accepted set of endpoints; all combinations of cookie, bearer token and origin; handlers that fail or come late |

The sizes are between 10^4 and 3 * 10^6 distinct states; each run takes under
three minutes.

### Bounds, and why they are enough

* Two workers.  Every hazard listed is a race of two requests, or of one
  request and a fault or the clock; a third worker adds repetitions of the
  same roles, and where a theorem of section 6 states the property the proof
  covers any number.  `Credentials` has the administrator as a third actor.
* `MongoRefresh`: three tokens and three sessions, so a chain root, successor,
  successor's successor, or two candidates for one token.  `MaxAge = 1`,
  `AbsoluteAge = 2` and one tick, so a token may expire between the check and
  the compare-and-set.  Liveness is checked without time and faults.
* `Credentials`: two sign-in chains of two generations (`MaxGen = 2`): the
  credential presented, and the one that replaces it; two passwords, old and
  new.  A crash is part of two of the mixes.
* `Challenge`: two attempts allowed, two issues, a lifetime of one tick and a
  clock up to 2: before, exactly at and after the expiry.
* `Lockout`: a window of two ticks and a clock up to 2, so the boundary is
  reached; `Passes = 2` of MongoDB's eight, so that one retry and giving up
  both happen; one failure locks, and the two workers make the count pass the
  limit; one rename.
* `Identity`: three addresses for two users, so an address is free, held or
  wanted by both; three changes may be asked for.
* `Accounts`: three calls, because two that create or add need a third that
  deletes or renames; two addresses and a user name, so uniqueness can fail.
* `Jwks`: three keys, so a rotation can be overtaken by another one; a lifetime
  and a delay of one tick and a grace of one or two, around the promised
  `grace >= Ttl + Delay`.
* `ApiKeys`: quotas of one and refills of one or two, a limit of one, so each
  counter is at its limit at once; four calls, two of them at a time.
* `Migrations`: two releases and two deaths: a process that dies, another that
  resumes and dies, and a third start that has to arrive.
* `Maintenance`: batches of one or two against at most three rows, so a batch is
  full, short or empty; one fault.
* `Requests`: two plugins, so one has started when the other fails; two requests;
  an idle timeout of one tick and a clock up to 2.

`MaxClock`, `MaxIssues`, `MaxMisses`, `MaxCount`, `MaxRenames`, `MaxGen` and `MaxAsked` occur
only in guards of arrivals and time, never in a step of a request that has
started, except that a chain's credentials are numbered below `MaxGen`.
Deadlock is not checked because a bounded instance really stops: users, tokens
or ticks run out.  Symmetry is used in safety runs only.

### Fairness

* `MongoRefresh`: weak fairness of `Serve(w)`, the steps of a request that has
  been accepted: the event loop resumes a coroutine when its database call
  returns, and these steps never disable each other for good.  Arrivals,
  faults, deletion by the TTL index and the clock are not fair: nothing makes
  clients come back, and a process may die.
* `Migrations`: weak fairness of each process's steps, its start included: a
  deployment restarts a process that died (`Crash` is not fair and bounded).
  The offline migration is run by an operator and is not fair.
* `Maintenance`: weak fairness of the manager's runs, started again when they
  end, as `docs/guides/maintenance.md` asks of a scheduler.  Not of the endpoint,
  which a client has to call.
* `Requests`: weak fairness of the steps of each request and of those of a
  lifespan that was begun; not of the shutdown, of arrivals or of the clock.

## 4. Where the code does not do what its documentation says

The modules admit these; the formulas that would exclude them are defined in
them, and TLC shows the behaviour when the formula is added to the run's
configuration.  They belong to no run, whose properties all hold.

| Formula | What happens | Said otherwise by |
|---|---|---|
| `MongoRefresh!SignOutEndsFamily` with faults | sign-out deletes the session first and finds the family through it; when a later call fails, the client's retry finds no session, skips the family and succeeds (`flows/credentials.py:421`), and the refresh token stays exchangeable | `docs/migrating/0.15-sessions.md:52` |
| `MongoRefresh!RefusedStaysRefused` | a database session is read in two look-ups, the row and then a revoked family that lists it (`storage/beanie/adapter.py:300-307`); a clean-up between them deletes the row and takes it off the list, which its `$pull` does of a revoked family, too (line 498), so a read begun after the revocation accepts a session of the family | `docs/migrating/0.15-sessions.md:87` |
| `Credentials!OldPasswordIsGone` | a sign-in that verified the old password creates its session after a reset revoked everything (`flows/credentials.py:380`) | `docs/guides/password-reset.md:4` |
| `Credentials!CallersSessionStays` | a change of password deletes "all listed sessions but the caller's id"; when that session is being refreshed, its replacement is in the list (`flows/change_password.py:71`) | its own comment at line 35 |
| `Lockout!FailuresAreKept` | PostgreSQL's rename deletes the old key by name; a failure counted there after the select is lost (`storage/postgres/adapter.py:1064`) | `CHANGELOG.md:133` |
| `Lockout!LockFollowsName` | the merge of two counters compares counts first, so a lock that had longer to run gives way to a larger count that ends sooner (`storage/memory.py:608`) | `docs/superpowers/specs/2026-07-30-integration-ergonomics-design.md:134` |
| `Identity!MovedUserAsked` | a pending address is not unique and a link belongs to an address, not to a user; the link sent for the second user who asked moves the first (`flows/change_email.py:186`) | its comment at line 200 |
| `Maintenance!OnlyExpiredGoes` | MongoDB reuses the row of a challenge that is issued again; a run that had selected it deletes the new one (`storage/beanie/adapter.py:167`) | `docs/guides/maintenance.md:11` |
| `Jwks!InFlightTokensVerify` | after a change of the secret that forgets the old one, another process signs with the key until the retirement arrives, longer than a grace that equals the lifetime covers | the comment on keys that cannot be decrypted in `security/jwt.py` |
| `ApiKeys!DisabledIsRefused` | a verification writes back the row it read before the key was disabled (`plugins/api_key.py:497`), which enables it again | the endpoint's purpose |

Seen while modelling, without a formula:

* the sixth password is examined after five failures (`lockout.py` compares with
  `>` what the README calls a limit of five), and every failure above the
  threshold publishes the lockout event again; two renames in a row leave the
  lock under a name in between; a refresh token is stored after the last check
  that the user is active;
* the docstring of `change_email.py` says the pending address is cleared when the
  new one was taken, which is not so when the unique index refuses; the
  in-memory store's `update_user` does not look at the address at all, its
  `get_user_by_email` lowers the case, and its `create_account` accepts a second
  account of a provider;
* where two users want one address, PostgreSQL's look-up by the pending address
  raises (`storage/postgres/adapter.py:356`), after the link was consumed, and the
  other stores take one of the two;
* `EventBus.publish` walks a dict across awaits: a handler of a new type that is
  subscribed meanwhile makes the walk raise (`event_bus.py:37`), after the
  operation that published has taken effect;
* `DatabaseSessionStrategy.read` decides that a session is idle from a row it
  read before and deletes it after another request used it; signing out of an
  idle session leaves its refresh family;
* a middleware that awaited `call_next` and returns `None` makes the route run
  twice (`web/fastapi.py:445`); a database context that suppresses a startup
  error leaves a generator that did not yield; a server-only endpoint with the
  name of a core route changes that route's guard;
* on MongoDB the compensation of a creation stops when the user is already
  gone, and a challenge asked for during a deletion outlives the user;
* PostgreSQL's `create(checkfirst=True)` never adds a field to an existing table
  but records the version; plugin tables are created in alphabetical order, so
  a foreign key to a later table fails at startup (`Resolvable` says which plans
  start); MongoDB replaces a unique field's own index by an explicit index that
  names the field, where PostgreSQL keeps both; names of indexes are unique per
  table only, and a plugin's table with the name of a core table reuses that;
* an API key is valid at the instant of its expiry while maintenance already
  deletes it; `docs/concepts/rate-limit.md:3` calls a fixed window a sliding one;
  the header of `flows/sessions.py` says that the list of JWT sessions is empty.

## 5. Properties

Where several promises have one subject, the property of the run is their
conjunction and each has a name and a comment of its own in the module.

`RefreshFamily`/`MongoRefresh`: a token is exchanged for at most one successor,
and not after its expiry (`ExchangedOnceInTime`); a revoked family vouches for no
session that still has a row, nor for its current one
(`RevocationReachesSessions`), and is never reopened (`RevokedIsFinal`); clean-up never
takes the session of the holder of the live token (`HolderKeepsSession`); the
calls implement the atomic family (`ImplementsFamily`); a revocation that
started ends (`RevocationCompletes`); without faults, sign-out leaves nothing
exchangeable (`SignOutEndsFamily`).

`Credentials`: the rehash of a sign-in never brings a replaced password back
(`PasswordIsChosen`); a withdrawing flow ends exactly what it has to, whatever
refresh was under way: all the others, and not the caller's own family
(`RevocationIsExact`); after a suspension no client holds a stored session
(`SuspendedHoldsNoSession`).

`Challenge`: one effect per issued value, none accepted late and a consumed row
stays so (`WorksOnceInTime`); at most `MaxAttempts` misses (`GuessesAreBounded`); MongoDB's
pipeline and the shared Python function agree (`PipelineAgrees`).

`Lockout`: `GuessesPerWindow` bounds wrong passwords although check and count
are apart; `ExistingFailuresAreKept`: a rename forgets no failure that its
transaction, lock or loop could see.

`Identity`: `LateWritesAreHarmless`: whole rows written back late neither verify an
address nobody proved, nor give a user an address it did not ask for or that
another user has, nor undo a suspension, nor bring a deleted user back.

`Accounts`: `IdentityIsWhole`: a creation that was committed has its account, one
that was not left nothing behind, also when its caller was cancelled, and
addresses and names stay unique; `DeletedIsGone`: a deleted user does not come
back, authenticates nobody, and leaves only rows that were added in the middle
of its deletion.

`Jwks`: `RotationIsSeamless`: live tokens stay verifiable, nobody signs with an
older key after a rotation has finished, and a key that signs is always there.

`ApiKeys`: `NoAnswerAfterRevocation`: no late write revives a deleted key, or the
key of a suspended owner; `UsesAreBounded`: neither the quota between two refills
nor the limit of a window is exceeded.

`Migrations`: `MigratedIsSound`: a process serves only on a schema it can use, a
version is recorded once, and nothing issued on the new schema is deleted;
`Converges`: whatever died, the processes of the newest release get started.

`Maintenance`: `RemovalIsTrue`: nothing live is deleted and the result counts just
what this run removed; `EventuallyClean`: repeated runs remove all that expired.

`Runtime`/`Requests`: `LifespanIsTrue`: the readiness flag tells the truth, and
whatever failed, what had started is stopped once in reverse and every error is
reported; `SeenWithSession`: no part of a plugin sees a request to a guarded route
without a live session, whatever endpoints the registry accepted; `RevokedStaysGone`:
no late write of a read revives a session; `EventsReachHandlers`: a finished
publication called each handler once and left one audit row; `EverythingEnds`:
no request and no lifespan hangs.

Every property has a mutant in `PROJECT.json`: a mapped definition changed the
way a plausible bug would change the code.  The alternatives stand in the
modules beside what they alter and are named after it (`Rewrite_Upsert`,
`Raised_Primary`, `Sweeps_UserFirst`, ...), and TLC finds the property violated
with it.

## 6. Proofs

The theorems are in `MongoRefresh_proofs`, `Credentials_proofs`,
`Challenge_proofs`, `Lockout_proofs`, `Identity_proofs`, `Accounts_proofs`,
`Migrations_proofs` and `Requests_proofs`, for any number of requests, workers,
tokens, sessions, chains, codes, users, addresses, processes, plugins and
endpoints, any mix of flows and any bounds, from the named assumptions on the
constants only.  The assumptions say that identities are distinct from the
markers of absence (`NameAssumption`, `NoneAssumption`, `AbsentAssumption`,
`NoKeyAssumption`), that what is counted is finite (the workers of `Lockout`, the
callers of `ApiKeys`, the rows of `Maintenance`), that the deployments are of the
kind the options allow (`ConfAssumption`, `KeyAssumption`), and that no handler
subscribes twice (`SubscribedAssumption`).  Two theorems are about some of the
deployments only: `SignOutIsComplete` (`~Faulty`) and `FailuresSurvive`
(`OneRenamer`), for the reasons given with them.

* `MongoRefresh_proofs`: `TypeCorrect`, `SingleExchange`, `RevocationIsDurable`,
  `NoReopening`, `ExpiryIsKept`, `ExchangeIsSound`.  The inductive invariant is
  `TypeOK /\ Locals /\ Minted /\ Opening /\ Chain /\ ExchangedOnce /\ Listed`.
  `ExchangedOnce` alone is not inductive: that two requests cannot both win
  needs `Chain` (a candidate was never published, a winner's token is no longer
  active, two winners hold different tokens), which needs `Opening` (before the
  family document exists one sign-in is alone at work).  `Listed` (a session
  that was or may be handed out is in the family document while its row
  exists) is what makes one flag end all sessions, with `Ownership` (below) for the
  current session, whose row a read may have found before it went.  Each step is a lemma;
  `QuietStep` covers all steps that only move a request.  `ExpiryIsKept` adds
  `Timed`, inductive beside it: the expiry in the family document is that of the
  active token, and a candidate waits with one within the age of the family.
  `HolderIsKept` (`HolderKeepsSession`) needs to know whom a session belongs to:
  `Ownership` is `Paired /\ Owned /\ Apart /\ HolderKeepsSession`.  Each session
  belongs to one token; a request that may still delete its own session has
  handed it to nobody; two requests never own the same; and what a clean-up is
  going to delete is only of tokens already superseded (`Past`).
  `FamilyIsImplemented` is the refinement: under the mapping of
  `ImplementsFamily` the initial states are initial states of `RefreshFamily`,
  and every step of a request, with its five or more calls, is one step of the
  atomic family or leaves it as it is.
  `SignOutIsComplete` assumes `~Faulty`: after a failed call a retry of the
  sign-out finds the session row gone and skips the family (section 4).  Its
  invariant `Signing` says of every session signed out that it is `Covered`: its
  family is closed or has no token left, or a request is still closing it.
* `Credentials_proofs`: `TypeCorrect`, `ChosenPasswordStays`, `RevokedIsGone`,
  `OwnFamilyStays`, `WithdrawalIsExact`, `SuspensionHolds`: every safety property of the passing run.
  The invariant is about three things.  `Families`: the rows of a family are
  stored all or none, and a session a client holds either has its row there or
  opened a chain without one; so deleting by family misses no session.
  `Linked`: nobody else writes to a chain a sign-in has just opened, and what a
  refresh is about to hand out is in the family if the session is stored.
  `Ending`: how far each withdrawing request is with each chain it has to end.
  `Effect` says what any step may do to the rows (a new token follows one of its
  chain or opens it, a token goes with its family and its session), and
  the heart of the argument is five lemmas (`LinkedStays`, `EndingStays`,
  `GoneStays`, `SuspensionStays`, `ClosedStays`): under any `Effect` what the
  other requests rely on stays.  Each action then only has to show its own
  `Effect` and its own next step.  That a request can resurrect nothing after
  `RevocationIsComplete` was established is `GoneStays`.
  On API keys, `KeyTypeCorrect`, `NoAnswerAfterRevocationAlways` and
  `UsesAreBoundedAlways` with `KeyInv`.  A verification writes back a copy of the
  row it read calls earlier, so `Fit` says what the copy is worth: unless it is
  stale it is the row, and of the reasons to refuse that were already in force
  when the request began none is lifted and none of those it has checked applies.
  `Barred` ties a reason in force to what is stored, but for a change a late
  write has undone (section 4).  `WithinQuota` and `Windows` are the accounts of
  use: what was answered since the last refill and what is left are together never
  more than the larger of quota and refill; in each window, the calls answered and the calls counted and not
  yet answered are together within the limit and within the counter (with the
  cardinality lemmas of `PendingIsFinite`, which is why callers are finitely many).
  `Alone` says that nothing reads a key while its creation is being written.
* `Challenge_proofs`: `TypeCorrect`, `WorksOnce`, `GuessLimit`, `NotAfterExpiry`,
  `Burned`, `OnceInTime`, `StoresAgree`, with the invariant `TypeOK /\ Newest /\ Acting /\ Counting /\
  AcceptedInTime /\ Carrying`: the stored row is the newest issue, a row
  somebody is acting on is consumed and its effect not yet counted, the counter
  in the row is the number of misses.  The lemma `SameUpdate` (pipeline and
  function change a row alike) lets one proof serve all stores.
* `Lockout_proofs`: `TypeCorrect`, `GuessesAreBounded` (`GuessesPerWindow`),
  `FailuresSurvive` (`ExistingFailuresAreKept`).  A guess is made between the
  check and the count, so the bound is about guesses made and guesses under way
  together: above the limit they are at most `MaxFailures` and one for each
  worker (`Counted`, with the cardinality lemmas of `Sizes`).  `Locks` says that a
  row a PostgreSQL rename has locked is still the row it read, unless the other
  rename deleted it, and that nobody else holds it.  For renames, `Moving`
  follows what the transaction or the loop carries: the merged row is at least
  as strict as each of the rows it came from (`BestKeeps`, `MergedKeeps`).
  `FailuresSurvive` assumes `OneRenamer`: of the requests of a MongoDB deployment
  at most one renames.  Two MongoDB loops under way at once can lose a failure;
  PostgreSQL needs no such assumption because it renames under the locks of both
  rows, and the in-memory store because it renames in one step.
* `Identity_proofs`: `TypeCorrect`, `VerifiedIsProvenAlways`, `AddressIsWantedAlways`,
  `AddressIsUniqueAlways`, `OnlyStatusChangesActiveAlways`, `DeletedStaysDeletedAlways`
  and all five in `LateWritesAreHarmlessAlways`, with `TypeOK /\ Rows /\ Requests`.  The
  properties speak of rows, but rows are overwritten by copies read earlier, so
  the invariant says of every copy what the properties say of every row
  (`Carries`), and of every control point what makes the copy writable
  (`Placed`: a request past the consumption has a proven address, one that will
  move a user holds a copy that wants it).  It is inductive because proofs and
  wishes are never taken back and an id is never reused (`GoodStays`).  `Stores` says
  what any step may store: one row, of a new id or of one whose row is still there,
  under an address that is free; the rest follows from it.
  On signing keys, `JwksTypeCorrect` and `RotationIsSeamlessAlways` with `JwksInv`.
  `Led` says that with shared secrets the newest stored key is active and everybody
  can decrypt it; so nobody finds a key to retire but the rotation that has already
  stored a newer one, and a sign uses the newest.  `Kept` is the promise of the
  grace period, and `Relied` what makes it hold although a request retires or signs
  several calls after it read: the tokens of a key a rotation will retire expire at
  most a lifetime after the time it noted, and the key it will sign with, were
  another process to retire it first, is published for a lifetime.  `Holds` and `Signs` are
  what every step leaves to the other requests (`ReliedStays`).  From
  `ConfAssumption` (the grace period is at least a lifetime, which
  `JwtOptions` enforces) and `ClockAssumption`.

* `Accounts_proofs`: `TypeCorrect`, `IdentityIsWholeAlways`, `DeletedIsGoneAlways`, with
  `Typed /\ Unique /\ Rows /\ Gone /\ Basic /\ Relies`.  An identifier is born once:
  what a creation has not inserted yet does not exist (`Unborn`), and what was
  deleted is not inserted again.  `Rows` says of every row whose user is gone that
  it was added in the middle of the deletion (`raced`), and that outside MongoDB
  an ownerless session still has the sign-in at work that will withdraw it.
  `Through` says how far a MongoDB deletion has got: of the tables behind it only
  raced rows are left.  `Relies` is what a request relies on at each of its
  control points; every step promises the other requests a `Contract`, under
  which what they rely on stays (`ContractKeeps`, `ReliesKept`), and three lemmas
  (`OnlyRequest`, `Removes`, `Adds`) give the contract for the quiet, the removing
  and the adding steps.  That PostgreSQL has a foreign key and that calls on the
  in-memory store do not fail is what leaves no session behind there.
* `Migrations_proofs`: `TypeCorrect`, `MigratedIsSoundAlways`, with
  `TypeOK /\ Ledgers /\ Stored /\ Exclusive /\ Fit`.  `Ledgers`: a version has one
  record, and who recorded it has built it; `Stored`: what was issued on the
  current schema is still there; `Exclusive`: two PostgreSQL transactions of the
  runner exclude each other; `Fit`: what is true of a process at each point of
  its start, whoever else is starting or has died.
  On the plan (`SchemaPlan`), the lemmas the runner's correctness rests on:
  `ConflictsAreComplete` (comparing each declaration with the first of its name
  finds every conflict), `PlanIsKeyed` (a plan has one migration per plugin and
  version, the key of the ledger), `FingerprintIsLocal` (no other plugin changes a
  fingerprint), `BuildOrder` (of two planned tables all the parts of one are built
  before any of the other's, a table before its indexes, and where the foreign
  keys can be resolved what a field refers to is complete before the referring
  table is created), `UniqueOnBothStores`.
  On the cleanup (`Maintenance`), `MaintenanceTypeCorrect` (no run reports more rows
  of a resource than there are, and every cutoff lies in the past) and `RemovalIsTrueAlways`
  with `SweepInv`, from `SettingsAssumption` (finitely many rows).  That a counter
  stays within its bound is not a matter of the step that moves it: `Spent` says
  that what a run has removed and what is still due for it are together never
  more than there are rows, because nothing issued later is due at its cutoff.
  `Booked` is the books of a run, operation by operation: those behind it are
  reported, the current one has its total, those to come have nothing.
  `Selected` says that what MongoDB selected is of the current operation and still
  due, unless it is gone or a challenge that was issued again.  `GoodKept` is what
  every other run, insertion and deletion leaves true of a run.
* `Requests_proofs`: `TypeCorrect`, `LifespanAlways`, `SeenWithSessionAlways`,
  `RevokedStaysGoneAlways`, `EventsReachHandlersAlways`.  For the lifespan, `Steady`
  says of every phase what has started and what has been stopped so far, entry
  by entry from either end of one sequence (`Placed`), so that the last stop
  leaves the reverse (`Mirror`); requests leave all of it alone.  For sessions,
  `Requesting` says that a session which was not there when a request arrived is
  `Dead`: absent, or idle with no read in progress that could still renew it.
  Dead sessions stay dead (`DeadStaysDead`), because only a read that found a
  fresh row may write one, and `Effect` says that of every step.  That the guard
  a request passed is the one its own endpoint declares is `GuardIsOwn`, from
  what the registry accepts.  For events, every handler has one place in the bus
  (`Wired`) and subscribing moves nobody else (`Longer`), so a publication that
  stands at a place has called exactly the handlers before it (`Reached`, `Heard`)
  and has left one audit row if the audit handler is among them (`Recorded`).
  The bus is assembled by a recursive function; that it exists and what it
  returns is shown by the least counterexample (`Least`), since the induction
  theorems of the library take an operator.

Every safety and action property of a passing run is stated by one of these
theorems.  Only model-checked: liveness (`Converges`, `EventuallyClean`,
`EverythingEnds`, `RevocationCompletes`), which is outside this prover.

## 7. What the modules leave out

* `MongoRefresh`: one family; the look-up of the user and the account policy
  during a refresh (in `Credentials`); JWT sessions; expiry of session rows.
  A request that arrives makes its first database call in the same step: before
  it, it holds nothing and has changed nothing.
* `Credentials`: one account and one administrator; lockout, challenges, expiry,
  the policy hook, e-mail verification, deletion.  The in-memory and MongoDB
  stores do in fewer, or more, steps what PostgreSQL does.
* `Challenge`: delivery of the message; the steps of the one-time-code flows
  around the consumption.
* `Lockout`: the uniqueness check of the name, the per-address rules of the rate
  limiter, more than one PostgreSQL rename at a time; hosts share one clock;
  the `_id` of a counter document is a flag saying that the row read is still
  the one stored.
* `Identity`: accounts, sessions, user names, the optional code sent to the
  current address; a failing call; the in-memory store, which has no unique
  index on an update.
* `Accounts`: passwords and what a challenge is worth; the application's own
  hooks but for one that may raise; refresh tokens, which MongoDB's deletion
  sweeps between the sessions and the accounts (`storage/beanie/adapter.py:274`):
  without its user such a token cannot be exchanged.
* `Jwks`: claims but for the expiry, other algorithms, the user's row, the HTTP
  handlers.
* `ApiKeys`: one key; creation and listing, hashing, scopes beyond "asked for and
  not allowed".
* `Migrations`: one plugin's ledger; the SQL and the commands of a step; field
  types.  `SchemaPlan`: types and defaults of fields, which no plan orders or
  compares by.
* `Maintenance`: the selection by index; time passes between two batches as it
  likes, a cutoff is one tick.
* `Requests`: cookies, headers and bodies as text; which of several limit rules
  applies; the refresh family of a revoked session (in `MongoRefresh`); what a
  plugin's own endpoint does beyond publishing (in the modules of the plugins);
  the absolute expiry of a session and the look-up of its user
  (`security/sessions.py:114`, `125`), which refuse more requests than the model,
  and so take nothing from what it shows of the requests it lets through; a
  middleware that raises after it has called the next one.
* Not modelled at all: e-mail delivery, which is external; the adapter contract
  tests, which are a test suite; templates, parsing and printing of the command
  line; the typed facades of `runtime/`, which call one flow each; option
  validation, inspection and observability, which only report.

## 8. Plan

Every component with state has its module.  Next, the most important first:

1. `EmailOtp`: the steps of the code flows around `Challenge`, with `Lockout`.
2. Listing and pagination of the stores, against rows that come and go.
