# A TLA+ model of the Go backend template

This directory holds TLA+ modules that model the API of this repository, TLC
configurations that check them on small instances, and TLAPS proofs of the
properties that matter most. Paths below are relative to the repository root.

## 1. The system

The API is a set of identical processes (`cmd/api`) behind one HTTP address.
They share one PostgreSQL database and nothing else. An operator runs
`cmd/migrate` against the same database, possibly while the API serves.

| part | state it keeps | operations | what makes it correct |
|---|---|---|---|
| database schema and queries (`migrations/`, `sql/queries/`, `internal/db/sqlc`) | five tables | the queries of sqlc, each in autocommit | keys stay unique, references never dangle, a cascade takes everything with it |
| migrations and seed (`migrations/`) | schema, seed rows | six up and six down files | re-running the seed over live accounts grants no role to the wrong one |
| migration command (`cmd/migrate`) | version and dirty flag, advisory lock | up, down, reset, version, force | the recorded version is true, success is true, a command ends |
| auth middleware (`internal/middleware/http.go`) | the user in the request context | RequireAuth, RequireAdmin | a token opens the account it was signed for |
| auth service (`internal/auth`) | none of its own | Register, Login, GetUserFromToken, the whitelist operations | an account gets its role, a failure leaves nothing behind, only admins write the whitelist |
| default role cache (`internal/auth/rolecache.go`) | one uuid per process | get, set, InitDefaultRoles | it never names another role than `user` |
| todo service (`internal/todo`) | none of its own | list, create, get, update, delete | only the owner changes a todo, concurrent patches merge, a deleted row stays deleted |
| API process (`cmd/api/main.go`, `internal/db`) | its stage, two listeners, the signal channel, the pool | start, serve, shut down | a clean exit means every accepted request was answered, or outlasted the write timeout; a shutdown gives the grace it promises; a signal ends the process |
| router (`internal/router`, `internal/http`) | the request being served | routing, body validation, 30 s timeout | errors are mapped to the documented answers |
| rate limiter (`internal/middleware/ratelimit.go`) | token bucket per client in a `sync.Map`, two counters | allow, sweep | a client gets what its bucket grants; idle buckets go |
| configuration (`internal/config`) | none | Load | a configuration is accepted exactly when it is sound, and says what the environment says |
| logging, tracing, generated code, Swagger, deployment | none that a request reads | | |

How the parts interact: the router hands a protected request to the
middleware, which verifies the token, reads the user with its roles in one query
and hands it to the handler through the request context; the handler calls a
service, which executes queries one after the other. No handler opens a transaction. The role
cache is the only memory shared by the requests of one process.

What is hard here:

* every handler with more than one query can be interleaved with any other
  handler, on this or another replica, between any two of its queries;
* what RequireAuth read (user, roles, `approved_user_id`) may be outdated when
  the handler uses it;
* a query can fail before it takes effect, or take effect and lose its
  acknowledgement (timeout, client gone, connection lost);
* a process can stop between two queries of one request;
* migrations replace accounts and roles, with new uuids, under a running API
  whose cache is never invalidated;
* the rate limiter locks nothing across two accesses: requests and any number of
  sweeps read and write the map, the entries and the counters in any order;
* shutdown has one deadline for the metrics server and the API, and each wait in
  it depends on somebody else: a scraper, a client, the database;
* an answer can come after the write deadline of its connection, and a listener
  can fail with requests open, which ends the process without a shutdown;
* `cmd/migrate` writes the version, runs the file and writes the version again:
  it can be killed between any two of these, and several can run at a time.

`PROJECT.json` lists each of these at the line where it bites (`hazards`), with
the properties that would catch it going wrong.

## 2. Modules

```
Database -> Migrations -> Middleware -> AuthService -> AuthTypeProofs -> AuthProofs
                              |             |  \-> AuthRefinement -> MCAuth
                              |             |           |  (INSTANCE)
                              |             |        Registry
                              \-> TodoService -> Backend -> MCBackend

AuthProofs + Backend -> SchemaProofs -> TodoProofs
SchemaProofs + AuthRefinement -> RegisterProofs

RateLimit  -> RateLimitProofs, MCRateLimit
Config -> Lifecycle -> LifecycleProofs, MCLifecycle
MigrateCli -> MigrateCliProofs, MCMigrateCli
```

An arrow is EXTENDS. The first group is about the data that replicas share; the
three below it are about one process each, and share nothing with the first but
the program: a restart in `AuthService` is what `Lifecycle` shows in detail, and
the files that `MigrateCli` applies are those of `Migrations`.

**Database.** A table is a set of records. A read is an operator that returns
the selected rows. A write is an action on the tables; `...Refused` says when a
constraint rejects it. ON DELETE CASCADE and SET NULL are part of the deleting
statement. `used` records every uuid `gen_random_uuid()` has returned: a
version-4 uuid does not come back. `NewIds` yields one canonical draw of unused
uuids (the choice is invisible to every other part, so one stands for all). A
bcrypt hash is a record of the password it verifies.

**Migrations.** `level` counts the files in force (0 to 6). Each file takes
effect in one step, requests run between two steps, and a run may stop at any
file. A bcrypt hash that verifies no password of the model (`SeedHash`) stands
for the hash the seed stores.

**Middleware.** A connection carries one request at a time. `pc[p]` names the
goroutine's next statement (a query or an access to the role cache), `args[p]`
what the client sent, `ctx[p]` the locals it keeps between statements
(the user and `approved_user_id` of the request context or of the account just
created, and the role id), `status[p]` the answer. The module holds the request
life cycle, RequireAuth and RequireAdmin, and what each handler does when a
query returns an error: `ErrorStatus` (500; 401 in authentication and login; 404
in todo lookups) and `Swallowed` for the two lookups whose error is ignored
(GetRoleByName in `assignDefaultRole`, the email lookup of
CreateApprovedUser). Clients present tokens that the API issued, or none.

**AuthService.** One action per statement of Register, Login and the whitelist
handlers; the processes (start with `InitDefaultRoles`, restart); the operator
(deactivating accounts, setting the password of a seed account); the clock;
the migrations. `Spec` is the specification, `FairSpec` adds fairness.

**TodoService**, **Backend.** The todo handlers, and their composition with
`AuthService` over the same variables.

**Registry**, **AuthRefinement.** `Registry` is what registration promises its
clients, without queries, caches or roles: a request takes effect in one step
between its arrival and its answer. 201 says that this request created the
account; 404 and 409 are answered only if there was a moment during the request
when they were right; without trouble (a fault, a rollback, a schema that is not
complete) a 500 leaves no account of this request. `AuthRefinement` maps the
statements of `Register` to it: the effect is the commit of `CreateUser`, the
whitelist and the accounts are the rows of the two tables, and the call is read
off the goroutine.

**RateLimit.** One action per access of a request or of a sweep to shared
memory: `LoadOrStore`, `lastSeen.Store`, `Allow`; `Range` with its
callback, `Delete`, the two stores at its end. Only the arrival takes several in
one step (section 4). Also the client address
(`GetRealIP`, trusted peers only, and the fallback for a blank header) and the
conversion of the configured limit to a whole rate, with both values that
`int(+Inf)` may take. Entries are objects: a request keeps the one it looked up
even if a sweep deletes its key, and unreferenced ones are collected. The token
bucket of `golang.org/x/time/rate` is external.

**Config.** `Load` as a function of the environment: the parser that keeps its
first error, defaults, lists (sets of entries: nothing looks at their order), the
narrowing to `int32`, `Validate`. The largest `int32` is a constant, so that
wrapping can be checked with small numbers. `IsEnv` says which environments there
are: a variable is unset, malformed if it is parsed, or gives a value of its type.

**Lifecycle.** One process from its environment to its exit. `stage` is where
`run()` and `startHTTPServer` are; beside it go the two listeners, signals,
requests that take a connection of the pool, a scrape, and a database that works,
refuses or hangs. `grace` is the seconds left of the shutdown deadline, `age` the
seconds since the header of an open request was read. A handler that ends when `age`
has reached the write timeout has its answer `lost`: net/http (external) has set the
deadline of the connection when it read the header, and closes it. `ApiListens`
fails to bind, `ApiFails` fails in `Accept` with the listener up; either way
`TakeServerError` ends the process without `Shutdown` or `Close`, while idle
connections may still bring requests, the pool is closed under the handlers, and
`Exit` cuts what is left.

**MigrateCli.** Processes of `cmd/migrate` against one database: which command a
command line comes to, the advisory lock and its timeout, and per file the three
steps of golang-migrate (mark dirty, run, mark clean). `Crash` kills a process
between any two steps. `applied` is the truth, `version` and `dirty` the record.

**AuthTypeProofs**, **AuthProofs**, **SchemaProofs**, **TodoProofs**,
**RegisterProofs**, **RateLimitProofs**, **LifecycleProofs**,
**MigrateCliProofs.** Section 5.

**MC...** Constants for TLC: model values for uuids, the two
seed addresses and one or two others, which replica serves which connection,
environments, arrivals, command lines and symmetry sets.

Operators marked `mutant` next to a definition are plausible bugs in it. Each
property of a passing run is known to fail when one of them replaces the
definition (`mutants` in `PROJECT.json`).

## 3. Runs

Run any of them with `tlc -config <cfg> <module>`.

| run | cfg | what is asked |
|---|---|---|
| register | MCAuthRegister | Registrations, logins and whitelist deletes while the migrations are still running (replicas serve from level 2), with one failed or unacknowledged statement. `RolelessInFlight`: an account without a role belongs to a Register that is about to assign it. `FailedRegisterLeavesNothing`: after a 500 the client can retry. `RegisterIsAtomic`: the handlers implement `Registry`. `TypeOK`, `UniqueKeys`. |
| replicas | MCAuthReplicas | Two replicas with caches of their own, a fault, a restart, expiring tokens. `EveryRequestAnswered` under weak fairness, `RegisterIsAtomic` across replicas. |
| reset | MCAuthReset | `down` or `reset` under live registrations and a restart. `OnlySeedAdmin`, `CacheNamesUser`, `TokenBinding` and `UuidInv`, the inductive invariant behind them. |
| admin | MCAuthAdmin | Concurrent edits of the whitelist, single and bulk, with one fault. `RefIntegrity`, `UniqueKeys`, `OnlyLiveAdminsApprove`. |
| todo | MCBackend | Two connections create, read, patch and delete todos while accounts are removed, with one fault. `OwnerOnly`, `PatchKeepsOthers`, `NoResurrection`, `RefIntegrity`. |
| ratelimit | MCRateLimit | Two requests and two sweeps at a time, directly and through a trusted proxy. `AdmissionBound`: never more than the bucket grants. `RetryAfterSuffices`: a 429 tells the truth about when to retry. `SweptClean`: a sweep misses nothing. `NoIdleStorm`: sweeps do not go on starting. `RateTypeOK`. |
| lifecycle | MCLifecycle | One process with requests, health checks, a scrape, outages, a listener that fails and a signal at any moment. `LoadExact`: accepted exactly when sound, field by field what the environment says. `CleanExit`: with exit status 0 every request was answered or outlasted the write timeout. `GraceKept`: a shutdown cuts nothing early. `ServedWithPool`: only a process that lost its listener closes the pool under requests. `SignalEndsProcess` under weak fairness. `LifecycleTypeOK`. |
| migrate | MCMigrateCli | Two processes, one of which may be killed, with right and wrong uses of `force`. `VersionTrue`: the record is true up to the file at hand. `DirtyHasCause`: overlapping processes never make the schema refuse a file, so a dirty database had a crash, a seed refused by the rows or a wrong force. `SuccessIsTrue`; `CommandsEnd` under weak fairness. `CliTypeOK`. |
| duplicate | MCAuthDuplicate | violated: `DuplicateIs409` |
| pre_approved | MCAuthPreApproved | violated: `PreApprovedEmail` |
| gone_todo | MCBackendGone | violated: `GoneTodoIs404` |
| migrate_down | MCMigrateDown | violated: `MakeDownRollsBackOne` |

The four violated properties state what the documentation says and the code
does not do:

* **duplicate.** `docs/api.md` documents 409 for an email that is already
  registered. When two registrations race, the loser's INSERT is refused by
  UNIQUE(email) and answered with 500.
* **pre_approved.** `docs/api.md` says that only pre-approved emails can
  register. Register checks that the `approved_id` exists, not that its email is
  the one being registered.
* **gone_todo.** `docs/api.md` documents 404 for a missing todo. A PATCH whose
  row is deleted between its ownership check and its UPDATE is answered with 500.
* **migrate_down.** `README.md` and the `Makefile` say that `make migrate-down`
  rolls back the last migration. The `Makefile` passes the command as an argument,
  `cmd/migrate` reads the flag `-command` and ignores arguments, so every target
  runs `up` and reports success. As `-command down` it would roll back all files.

What the passing runs show, in short: the database constraints carry the
concurrency of this code. Handlers check first and write later without a
transaction, and every such race ends in a refused statement, never in a
dangling reference, a duplicate or another user's row. What the code does *not*
guarantee is stated in the conditions of the properties: with a fault, a restart
or a down migration, an account may be left without a role for good
(`RolelessInFlight` and `FailedRegisterLeavesNothing` assume there is none), and
a replica whose cached role was replaced by a `reset` answers every later
Register with 500 after it has created the account.

The same holds of the other runs; the conditions in their properties are facts
about the code worth knowing:

* A sweep deletes by key, so it can delete an entry that a request has just
  touched. `AdmissionBound` holds for clients that were never idle for
  `idleTimeout`; one that was, and comes back while a sweep walks the map, may get
  a second full bucket. Until a sweep has reset the counter every request starts
  another one; `NoIdleStorm` says that this ends with the sweeps.
* `/health` pings the database with `context.Background()`. If the database
  hangs, such a ping holds a connection and `pool.Close` waits for it, so that a
  process with a signal may not end as long as the database hangs: the exception in
  `SignalEndsProcess`.
* The default write timeout, 30 s from the header, is no longer than the timeout of a
  request (`timeoutMiddleware`). A request that runs into its timeout writes its error
  after the write deadline: the client sees a closed connection, `Shutdown` waits for
  the handler and returns nil, and the exit status is 0. A health check whose ping takes
  longer than the write timeout is lost whatever the configuration. `CleanExit` names
  these cases (`MayBeLost`): a request of the API is never lost if
  `SERVER_WRITE_TIMEOUT` is longer than its timeout, or 0.
* When `Accept` fails for good, `startHTTPServer` returns at once: open requests have
  no grace, find the pool closed, and are cut at exit. The exit status is 1. It is the
  exception in `GraceKept` and `ServedWithPool`.
* A scrape that is going on at the signal delays the closing of the API's
  listener within the shared deadline, so requests that come in late get less
  than the shutdown timeout: the exception in `GraceKept`.
* A value of DATABASE_MAX_CONNS that does not fit an `int32` wraps around
  silently: `LoadExact` speaks of values that fit.
* `force` writes any version as clean, true or not: `misforced` in `VersionTrue`.
  It refuses 0, and only `-version=-1` gets a database that became dirty at its
  first file back to the beginning.

### Bounds

| constant | meaning | why the value is enough |
|---|---|---|
| `Request` | two connections | every race here is between two requests, or a request and the operator; a connection serves any number of requests in turn |
| `Replica`, `Home` | one replica, or two with one connection each | replicas share only the database, and one cache per replica is what differs |
| uuid pools | as many as the run can draw | a request that may insert is accepted while the pool outlasts what is in flight, so no statement ever blocks on the pool |
| `ServeFrom` | level from which replicas start | 2 lets the API serve before roles exist; 6 elsewhere, to keep the space small |
| `MaxFaults`, `MaxRestarts` | 0 or 1 | one fault at any statement reaches each error path |
| `MaxRollbacks` | 0 or 1 | one `down` or `reset` makes every cached uuid stale |
| `MaxInactive`, `ResetEmails` | accounts an operator deactivates or gives a password | without the latter nobody can log in to a seed account |
| `MaxTime`, `JwtExpiry` | 1 tick, tokens last 1 tick | a token that is valid when parsed and expires later |
| `Email`, `Password`, `Patches`, `Bulks` | one or two of each | equality is all the code tests |
| `Goroutine`, `Sweeper` (rate limiter) | two each | two requests race for one entry, two sweeps for one key, a request with a sweep |
| `MaxRequests` 3, `SweepEvery` 2, `IdleTimeout` and `SweepInterval` 1, `MaxTime` 2 | | both conditions that start a sweep become true, a bucket goes idle, is swept and comes back |
| `Configs` | 1 request in 2 s, 2 requests in 0 s | a rate below one, which is raised, and both conversions of +Inf |
| `MaxInt32` | 31 | 65 connections wrap to 1, 64 to 0; -33 wraps to 31 |
| `ApiRequest`, `HealthRequest` | two, one | with one connection in the pool, one request holds it, one waits, and the ping competes |
| `RequestTimeout` 2; write timeout 2, 3 or 0; shutdown timeout 3, 1 or 0 | seconds | the write timeout as long as a request's, longer, and none; a request that ends before, at and after each deadline |
| `MaxOutages`, `MaxSignals` | 2, 1 | a database that hangs and comes back; the channel holds one signal and a second has no effect |
| `Process`, `MaxCommands`, `MaxCrashes` | 2, 3, 1 | two overlapping commands, a crash in one, and a command that meets what they left |

Symmetry: connections to one replica are interchangeable; with one connection
per replica the two pairs are; so are the goroutines and the sweeps of the rate
limiter. Runs with liveness properties use no symmetry.

Deadlock is checked in the runs of `MCAuth` and `MCBackend`. The others turn it off,
because there the system stops: the process exits, or the bounded number of requests or
commands is used up.

### Fairness

Weak fairness is asked of the steps of goroutines and processes that can run, and
of nobody else: the Go and the operating system's scheduler run whatever is runnable.

* `FairSpec`: `AuthStep(p)` for each connection. A query returns (with rows, a
  refusal or, at the latest when the 30 s request timeout cancels its context, an
  error). Nothing is assumed of clients, operators, migrations, restarts or
  clocks.
* `LifecycleSpec`: the main goroutine, the opening of the API's listener, each
  request's statement, and the clock. Nothing is assumed of clients, the scraper,
  the operator who sends the signal, the metrics listener or the database: it may hang for ever.
* `CliSpec`: `ProcessStep(p)` for each process that is running.

## 4. Abstractions

* Columns that nothing here tells apart (names, timestamps, descriptions of
  roles) are left out. Bodies are accepted or rejected (`BodyErr`) without
  modelling the string tests of the validator.
* The decoding of a body that a protected handler performs after RequireAuth is
  part of `Admit`: it reads and writes nothing shared.
* `TodoIdsLeft` and its siblings are bounds of the model, not of the code.
* In `Migrations` a stopped run may be started again, as after a `force`; the
  dirty flag is modelled in `MigrateCli`, where a file may be refused by the
  schema or, for the seed, by the rows (`RunFile` leaves that open).
* The seed's password hash (`SeedHash`) verifies no password of the model. The
  comment in `000006_seed_data.up.sql` names a password for it; nobody logs in to
  a seed account here unless an operator has set another (`ResetEmails`).
* `Range` of the rate limiter's map visits the keys it held at the start; a key
  stored later is too young to be deleted whether it is visited or not. Time is
  in whole seconds, so tokens are whole numbers.
* The arrival of a request at the rate limiter (`Arrive`) counts it, reads `lastSweep`
  and starts a sweep if one is due, in one step. In the code these are three
  accesses; a sweep that ends between them can only change whether one more sweep is
  started, which any later arrival may do as well.
* `RegisterCreate` has no outcome for an error of bcrypt (`service.go:65`). The
  validator refuses passwords of more than 72 bytes, so only a configured cost above
  31 makes it fail, for every Register alike; the answer is then that of a statement
  that failed before it took effect (500, no account).
* In `Lifecycle` a request needs one connection of the pool for one statement and
  answers in the step in which that statement ends; spans are never exported, because
  the router does not use the tracer. A second does not pass while the main
  goroutine has something to do in the shutdown sequence, or while a handler
  whose context has ended has not answered: such a handler is in a query of pgx,
  which returns when its context ends.
* Of the server's timeouts, `Lifecycle` has those for writing and for the shutdown.
  `SERVER_READ_TIMEOUT` can also end the context of a request that is being served
  (net/http then sees a read fail): `RequestTimeout` stands for the shorter of the two.
  The idle timeout and clients that hang up close connections on which nobody waits
  for an answer. A connection whose header has not been read is no request yet.
* A restart in `AuthService` loses the requests of its replica, as a crash does; the
  orderly stop is in `Lifecycle`.
* A missing table is an error like any other; a replica is never started on an
  unreachable database, which makes `run()` return.

## 5. Proofs

The proofs hold for every value of the constants under the named assumptions
`NullAssumption` (the null value is none of the others), `SeedAssumption` (the
seed's rows are in the pools), `MaxRollbacksAssumption`, `RequestAssumption` and
`AuthAssumption` (types of the parameters), `RateLimitAssumption` (types, finitely
many hosts and goroutines), `Int32Assumption` (the defaults of the pool fit),
`LifecycleAssumption` (environments satisfy `IsEnv`), `MigrateCliAssumption`; TLC
evaluates them in the runs of their modules.

`AuthTypeProofs` proves **TypeCorrect**, `Spec => []TypeOK`. `TypeOK` is not
inductive. AssignRoleToUser is well-typed only because a Register that has
reached it holds a role id and not NULL, and IssueToken only because the
goroutine holds an account. `LocalInv(p)` records what a goroutine relies on at
each point, and `TypeInv` adds it to `TypeOK`. There is one lemma per statement
of the database, one per group of actions, and two lemmas (`GotoStep`,
`RespondStep`) that reduce a step of one goroutine to what it changes.

`AuthProofs` proves **UuidsKeepTheirMeaning** (`[]UuidInv`) and from it
**TokensBound** (`[]TokenBinding`), **CacheCorrect** (`[]CacheNamesUser`) and
**OnlyTheSeedAdmin** (`[]OnlySeedAdmin`). None of the three is inductive: a row
drawn later could take the uuid that a token, the cache, a goroutine or a row of
`user_roles` still holds. `UuidInv` says that all of these uuids have been drawn
(`used`), so a later draw cannot hit them, and that the row they name, if it is
still there, is the one they were read from (`Bound` for accounts, `NamesUser`
for roles). The argument has two halves: every step keeps the meaning of the
uuids in the tables (`KeepsTables`, one lemma per statement and migration), and
every uuid newly held outside of them was read from a row or drawn for one
(`KeepsHeld`, one lemma per group of actions); `UuidStep` puts them together.

`SchemaProofs` proves **BackendTypeCorrect** (`TypeOK` of the composition with the
todo handlers), **KeysUnique** (`[]UniqueKeys`) and **ReferencesIntact**
(`[]RefIntegrity`), for `BackendSpec` and, since every step of `Spec` is one of
`BackendSpec`, for `Spec`. The two are inductive only together and with two more
facts (`SchemaInv`): every row's uuid has been drawn, so that a new row cannot take
the key of an old one, and no table has rows before its migration (`LevelInv`), so that a
down migration drops a table that nothing refers to. One lemma per statement and
per migration file; `TableSteps` puts them together.

`TodoProofs` proves the action properties of the todo handlers: **OwnersOnly**
(`OwnerOnly`), **PatchesMerge** (`PatchKeepsOthers`) and **DeletedStaysDeleted**
(`NoResurrection`). `OwnInv` carries the ownership check over to the write: the uuid
that a handler holds after its lookup has been drawn, and a row that has it belongs to the
caller. It survives a delete by another request because no row drawn later has a used
uuid, and an update because an update keeps the owner.

`RegisterProofs` proves **FailuresLeaveNothing** (`FailedRegisterLeavesNothing`),
**LiveAdminsApprove** (`OnlyLiveAdminsApprove`), **RolelessAccounts**
(`RolelessInFlight`) and **RegisterAtomic** (`RegisterIsAtomic`, that `Register`
implements `Registry`), for any number of replicas and connections. The properties
speak of different statements of different handlers, and hold for one reason, which
`RegisterInv` states: as long as no migration is taken back, nobody can register
before the seed and both roles exist after it (`CalmTables`); a role id that the cache or
a handler has read stays the id of a role (`RoleStays`); and the admin who passed
RequireAdmin is there as long as the whitelist entry that the INSERT will name as
`created_by` is (`AdminStays`): an account goes only with its entry, and the foreign
key then refuses the INSERT. `CalmStep` says what any step may do to the tables in
that time, and one lemma per group of actions says what it does to the handlers. For the
refinement, a step that commits `CreateUser` maps to the abstract effect, an answer
to an answer, statements that change rows of the whitelist or the accounts to the abstract
steps that do, and every other step to a stutter; there is one lemma per kind of
step. The proof needs `AllInv` (types, schema, uuids, `RegisterInv`): a rejection
maps to an abstract rejection only if the row the handler saw, or missed, was right
at that moment.

`MigrateCliProofs` proves **CliTypeCorrect**, **VersionAlwaysTrue**,
**DirtyAlwaysHasCause** and **SuccessAlwaysTrue** for any number of processes,
commands and crashes. `CliInv` adds to the properties that whoever is past the
lock holds it (so there is at most one), and, as long as nobody has forced a
wrong version, what its step implies: at `mark` the version is clean and the job is the next
file; at `run` the version is dirty, at the target, and the file is not yet done;
at `clean` it is done. `VersionTrue` alone does not say how far the one process at work has come.
That exactly the files below the one at hand are in force is also why the schema never
refuses it (`NeverRefused`), on which **DirtyAlwaysHasCause** rests.

`LifecycleProofs` proves **LifecycleTypeCorrect**, **ExitStatusHonest** (`CleanExit`),
**GraceAlwaysKept**, **AlwaysServedWithPool** and **LoadAlwaysExact** (`LoadExact`)
for any number of requests, any environments and any timeouts. `LifeInv` ties the stage to everything else: which listeners can be
open, that the pool is open from `roles` to `closePool`, that requests are open in
the stages after `stopApi` only if the listener failed, and then without a deadline and
with result `"1"`, and that whatever is cut comes with that result. That an open request of the API is
within its timeout (`RequestInv`, from the urgency of `Tick`) bounds when its answer
can be lost. `LoadExact` rests on lemmas about the operators of
`Config`: no two variables have one name; there is a first error if and only if some
variable is malformed (`ParseErrors`); every field is the value or the default
(`FieldsExact`, `OthersExact`); `int32` keeps what fits (`Int32Fits`).

`RateLimitProofs` proves **RateTypeCorrect**, **AdmissionsBounded**, **StormsEnd**
(`NoIdleStorm`), **RetryAfterHonest** (`RetryAfterSuffices`) and **SweepsMissNothing**
(`SweptClean`) for any number of clients, requests and sweeps at a time and any rate.
`RateInv` says that no two keys share an entry and that the requests of a key that
never went idle hold the entry in the map (`OwnerInv`); that what was let through
plus what is left never exceeds what the bucket was given (`CreditInv`); that a
bucket drawn from in this second has let a request through in it (`ServedInv`);
and that a sweep deletes only keys that went idle and still has before it
everything idle at its cutoff (`SweepInv`). Pointers are
never short: there are more entries than the map and the goroutines can hold,
which is a counting argument over finite sets.

Model-checked only: `EveryRequestAnswered`, `SignalEndsProcess` and `CommandsEnd`,
since liveness under fairness is beyond the prover. Every other property of a passing run is
proved. The four violations of section 3 are counterexamples, which TLC finds.

## 6. Not modelled

* CORS, security headers, request ids, access logs, log output and trace
  exporters: they change no state that anything reads.
* The predicates of the validator, the parsing of dates and uuids, and the
  conversions between pgtype and Go values: string and value tests without state.
  Their outcome (accepted, 400, 413) is modelled.
* `internal/api`, generated by oapi-codegen from `api/openapi.yaml`: a dispatcher
  and a client without logic of their own.
* Swagger UI (static files) and deployment files.
* Queries that no handler calls.

Reasons per component are in `components` of `PROJECT.json`.

## 7. Plan

1. The safety half of the liveness properties: that a request that has not been
   answered always has a step of its own to take, or waits for a replica that is
   down, and that a process of `cmd/migrate` waits only for one that can move.
2. What `Registry` promises its clients, proved of `Registry` alone and carried over
   to the handlers by **RegisterAtomic**.
