# bun-query-builder: a TLA+ verification project

Models, model checks and machine-checked proofs about the code under
`src/packages/bun-query-builder/src` (called `P/` here). Every definition is
translated from that code; `PROJECT.json` names, for each of them, the file and
the lines it stands for.

Contents: [1 the system](#1-the-system), [2 modules](#2-modules-and-how-they-correspond-to-the-code),
[3 runs](#3-runs), [4 bounds](#4-bounds), [5 fairness](#5-fairness), [6 proofs](#6-proofs),
[7 divergences](#7-where-code-and-documentation-disagree), [8 not modelled](#8-what-is-not-modelled-and-why),
[9 plan](#9-plan).

To check a run: `tlc -config MC<module>_<run>.cfg MC<module>` (section 3 names
them); to check the proofs: `tlapm <module>_proofs.tla`, and
`tlapm SharedLemmas.tla`, which holds the lemmas several of them use.

## 1 The system

A TypeScript query builder and ORM over PostgreSQL, MySQL (and its relatives),
SQLite and DynamoDB, with a migration generator and runner. JavaScript runs one
thing at a time, so a step of a model is the code between two `await`s; every
`await` is a point where other requests, timers, hooks and other processes go on.

| Component | Where | State it keeps | Operations | What is hard | What makes it correct |
|---|---|---|---|---|---|
| Transactions on SQLite | `P/db.ts` | one engine connection, the counter `txDepth` | `begin`, `savepoint` | one counter for all callers; the epilogue's failure paths | a scope's work becomes durable or vanishes as a whole; no transaction is left open |
| `transaction()` control | `P/client.ts` | attempt counter, option callbacks | retry loop, nesting, `afterCommit`, `onRetry`, `onRollback` | retries at two levels, callbacks that throw, COMMIT that fails | applied at most once; the caller is told the truth; every call settles |
| Running a query | `P/client.ts` | a promise race, a timer, an abort listener | `runWithHooks` | answer, timer and abort in any order | hooks tell what happened; an abort reaches every query |
| Paging and walks | `P/client.ts`, `P/orm.ts` | a cursor or an offset | `paginate`, `chunk`, `chunkById`, `lazy` | rows that come and go between pages | a row that stays is seen once; a walk ends |
| Read-then-write helpers | `P/client.ts`, `P/orm.ts` | none | `firstOrCreate`, `updateOrCreate`, `updateOrInsert`, `upsert` | two callers between the look and the write | one row per match; a caller gets its own row back |
| Many-to-many relations | `P/orm.ts`, `P/pivot.ts` | pivot rows | `attach`, `detach`, `sync`, `toggle` | two syncs at once, statements that fail midway | the pivot is what the caller listed, and the answer says what was done |
| Query cache, cached reads | `P/client.ts` | an insertion-ordered map with expiry times, a cap; rows in flight | `get`, `set`, `clear`, `setMaxSize`; `.cache(ttl).get()` | eviction, caps that move, expiry; a read before an `await`, stored after it | LRU victims, cap respected; staleness is bounded; rows belong to the query |
| SELECT builder | `P/client.ts`, `P/sql-fragments.ts` | text, WHERE terms, parameters, a memoised query | `where…`, joins, `with`, unions, `get` and the other terminals | order of clauses and of parameters over any call sequence | the n-th placeholder gets the n-th value; the filter is the one asked |
| INSERT, UPDATE, DELETE builders | `P/client.ts` | the same | `values`, `set`, `where`, `returning` | the same | the same |
| Connection manager | `P/db.ts` | the cached connection and its signature | `getOrCreateBunSql`, `resetConnection`, `withFreshConnection`, the lazy proxy | two callers refresh at once; captured connections | a call runs on the configured dialect and address; one drop is survived |
| Sessions, advisory lock | `P/client.ts`, `P/actions/migrate.ts` | pooled connections, session locks | `reserve`, `advisoryLock`, `withMigrationLock` | statements that need the same connection; a pool of one | one run at a time; nothing is left behind |
| Migration runner | `P/actions/migrate.ts` | schema, ledger table, files on disk | `executeMigration` | concurrent boots, crashes between two calls, dialects without transactional DDL, recovery of unrecorded files | a recorded file has been applied, once, in order |
| Migration generator, snapshots | `P/migrations.ts`, `P/actions/migrate.ts`, `P/drivers/*`, `P/actions/introspect-db.ts` | plan, snapshot, files | `buildMigrationPlan`, `generateDiffSql`, `generateMigration`, `buildPlanFromDatabase` | renames, order of drops and creates, apply then record then snapshot | the files rebuild the models; data is lost only where announced |
| Rollback and reset | `P/actions/migrate-rollback.ts`, `P/actions/migrate.ts` | schema, ledger | `migrateRollback`, `resetDatabase` | partial failure | ledger and schema agree; rolling back restores |
| Model queries, relations, executors | `P/orm.ts` | builder state, a relation cache, the executor | `where`, `with`, `get`, scopes, walks, `getExecutor` | soft-delete scope against OR; loads torn by others' writes; a configuration that changes | a statement means its chain; loaded rows are related |
| Model instance | `P/orm.ts` | `_attributes`, `_original` | `set`, `fill`, `save`, `delete`, `restore`, `refresh` | changes while a method awaits; several instances of one row | no change is forgotten, none undoes another's |
| DynamoDB migrations | `P/dynamodb/migration-*.ts`, `P/dynamodb/migrations.ts` | tables, records by version | `migrateModel`, `recordMigration` | changes that take time, drivers at the same time, crashes | success means the target; versions are not reused |
| DynamoDB clients and models | `P/dynamodb-*.ts`, `P/dynamodb/*` | a request being built, pages, instances | four read builders, `getAll`, `save`, `update`, batches, transactions | pages while others write, conditions, half-made items | an answer means its chain; clean means saved |
| Schema, metadata, configuration, types | `P/schema.ts`, `P/meta.ts`, `P/config.ts`, … | metadata records | derivation | | |
| Browser client | `P/browser.ts` | a token | builder over `fetch` | | |
| Actions, CLI, seeding, benchmarks | `P/actions/*`, `bin/cli.ts`, … | none | scripts | | |

How they interact: the builder returned by `createQueryBuilder` captures a
connection from the connection manager. `get()` of a SELECT goes through the
query cache if asked to, then through `runWithHooks` to the driver.
`transaction()` asks the driver for `begin` (or `savepoint` when the builder is
already a transaction's) and hands its callback a builder on that connection; on
SQLite the driver is the wrapper of `db.ts`, where that connection is the one
everybody has. The migration runner reserves a connection for its lock and uses
transactions of the builder for each file; the generator's files are its input,
and both read the migrations table. Model queries and instances use an executor
over the same connections, with hooks of the application awaited in between.

## 2 Modules and how they correspond to the code

Components that meet only through a promise of the driver or the database are
composed side by side: a composing module has a variable `part` (and `group`)
that says which component a behaviour is about, and the others stand still in one
initial state. Where components share state their modules share variables.

### Calls of the client: `ClientCalls` (run by `MCClientCalls`)

**`NestedTransactions`** is the abstract specification of transactions: a stack
of open scopes that own statements. `Resolve` hands a scope's work outwards (at
the bottom: to the database), `Reject` drops it. `Abort` is the database rolling back by
itself: every open scope goes with its work, and `gone` counts the callbacks that run
on without a scope; what they write is written outside every scope.

**`SqliteBegin`** is `begin()` of `createSQLiteSQL`. `txDepth` is the wrapper's
counter; `calls[t]` the `begin()` calls a caller is inside, each with the
`isSavepoint` and name it computed at entry; `eng` is the engine, with a savepoint
stack (bun:sqlite, modelled from its use). `BeginCall` is everything up to the
callback; `CallbackResolves`, `CallbackRejects` and `CloseFails` are the epilogue,
the last with both decrements of the counter; the inner `try` whose error is
swallowed is `Cleanup`. `StatementAborts` is the engine rolling the transaction back
under the callbacks: `lost[t]` says how many of the open calls are without their
transaction (`Held(t)` are the others), and nothing in `begin()` knows. Any callback may
catch the error and go on: its statements autocommit, a `begin()` of its own opens a
savepoint in autocommit mode or a transaction, and its own call rejects
when it closes. `Serialised` is an assumption about the application:
callers await each other. `ScopesAreAtomic` is the refinement: under it the
connection implements `NestedTransactions` (`durable <- eng.durable`, `scopes <-`
the works of the calls still held, `gone <-` the number of the lost ones). So the code
does not promise that a call that rejected left nothing behind once the engine
rolled back inside it: the work done after the caught error stays.

**`TransactionCall`** is `transaction()`: `pc` is where the retry loop is,
`attempt` its counter, `error` what the `catch` block holds. `pending` and
`applied` count the runs of the callback whose writes are in an open transaction or
durable; `reported` records callbacks. `Begin` to `Close` is `runWith`,
`AfterCommit` and `AfterCommitThrows` the rest of the `try` block, `Retry`,
`OnRetryThrows`, `Wake` and `GiveUp` the `catch` block. A nested call runs on a
savepoint and has a loop of its own. The driver's side is what `NestedTransactions`
promises.

**`QueryRun`** is `runWithHooks` for several queries that may share one
`AbortSignal`: `Call`/`CallAborted` is the synchronous part, `Answer`,
`TimerFires` and `Abort` are the events, `Settle` is the race with its handlers.

**`RowWalk`** reads a table page by page while rows come and go: `paginate()`, the
offset walk of `chunk()`, the key walks of `chunkById()` and `lazy()`. A row is its
key, and key 0 is the one JavaScript takes for no cursor. `Ordered(S)`, what ORDER BY
on the key does, is the one increasing sequence of the keys in `S`.

**`KeyedWrites`** is every helper that looks before it writes, of the client and of
the models, with `create` and `insertGetId` under them and the one-statement
writes beside them; on MySQL the id is asked for in a second statement on the pool.
All callers want the same match. `overlap` and `crossed` are ghosts that say which
callers came between each other's two steps.

**`PivotSync`** is `attach`, `detach`, `updateExistingPivot`, `sync` and `toggle` on
one parent's pivot rows: a call reads, plans its statements and sends them one by
one, each of which may fail and leaves the ones before it done.

### Caches: `QueryCaches` (run as it is)

**`QueryCache`** holds the operators of class `QueryCache`: the map in insertion
order is a sequence of keyed entries; `get` re-inserts, `set` evicts (`DropOne` is one
round of its loop, at the `Place` of an expired entry or of the oldest). `QueryCaches`
drives them over any history of calls and passing time; its ghosts `uses` and `colder`
say which keys were used and, of each, which others had been used longer ago. **`CachedReads`** is the
cached path of `get()`: lookup, the awaited query, the `set` afterwards, with
writers, transactions that are undone, and `clearQueryCache` in between.
`TextIsShown` says whether `String(query)` is the SQL text.

### Statements: `StatementBuilders`, `BuilderPromises` (run by `MCStatements`)

**`SqlText`** is the text of a statement as the builder handles it: a sequence of
clause tokens, each with its placeholders, with the operators of
`P/sql-fragments.ts` that render WHERE terms, find clauses at the top level and
move them (`reorderSelectClauses` and its relatives). A placeholder remembers the
value it was written for, which is what makes a wrong binding visible. It also says what
a term, a printed body and a chain of calls mean to the database (`TermHolds`,
`BodyHolds`, `ChainHolds`); `ModelQuery` uses the same.

**`SelectBuilder`** has one operator for each clause method of the SELECT builder,
from a builder record to the builder after the call, and in a section of its own the
smaller builder of `selectFromSub`; **`WriteBuilders`** INSERT, UPDATE and DELETE.
**`StatementBuilders`** first has the methods over relations (`with`, `withCount`,
`whereHas`, pivot filters) over the declared relations, then the machine: a builder of
one `kind`, a chain of `calls`, `sent` what the terminal hands to the driver, `asked` a
ghost of the conditions as the caller wrote them. **`BuilderPromises`** states what
the statements must satisfy. Its promises exclude some chains by name (`Did`,
`Before`, `Twice`); each exclusion is a behaviour listed in section 7.

### Connections and the runner: `Connections` (run by `MCConnections`)

**`ConnectionManager`** is `getOrCreateBunSql`, `resetConnection`,
`setSqlInstance`, `withFreshConnection` and the lazy proxy: `conns` the connections
there ever were, `instance` the cached one, `user` the calls under way with the
connection they captured. `hit` is a ghost: calls whose connection this module
closed under them. A configuration is a dialect, an `address` (all that
`connectionSignature` compares beside it) and a `rest` (`ssl` and the `DB_*` variables,
which `createConnectionString` reads and the signature does not). `GetOrCreate` detaches
and closes first and opens then; an opening that throws (`OpenNone`) leaves no
connection and rejects the call, on SQLite it leaves a database in memory, cached as the
configured one.

**`MigrationLock`** is `withMigrationLock`, process by process: reserve, lock, the
statements on the pool, unlock, release, and a process that dies anywhere.

**`MigrationRunner`** is `executeMigration` for several processes. `ledger` is the
migrations table, `schema` the objects that exist, `pending` the files a process has
not come to (it takes them by number, `Current` is the least), `times` a ghost that
counts each statement's effects. `WrappedFile` is the transaction with its ledger row;
`BareStatement` and `Record` are the unwrapped path; `Caught` is the `catch` block
with its already-applied recovery; `LedgerReadFails` is `getExecutedMigrations`
returning `[]`; `Crash` ends a session with its lock and transaction. `dialect` is
chosen in the initial state; transactional DDL and the lock depend on it.

### Plans: `MigrationHistory` (run by `MCMigrationHistory`)

**`ModelPlan`** is `buildMigrationPlan`: from declared models to tables, foreign
keys, indexes, pivots, trait tables. **`SchemaDiff`** is `generateSql` and
`generateDiffOperations` with the dialect drivers' decisions: the files, in order,
each a list of statements and whether it was reported destructive.
**`DatabaseSchema`** is a database that executes them (external: what the three
engines do with a statement, and when they refuse it) and `buildPlanFromDatabase`,
which reads a plan back. A column knows where its values came from.
**`MigrationHistory`** is a project over time: models change, `generateMigration`
compares with the snapshot or the database and writes files, the runner executes
what is pending, `apply` runs its own statements, files are rolled back, the
database is reset, the snapshot is lost, someone adds a column by hand, a process
dies. A reset is `resetDatabase` statement by statement: the record, each table, each
enum type, the snapshot, each file; each may fail, which is swallowed, and the process
may die between any two. `gap` is a ghost that names a difference the generator is known not to carry
through (section 7).

### Models: `ModelQueries` (run by `MCModelQueries`)

**`ModelQuery`** is `ModelQueryBuilder`: conditions, groups and scopes are chained,
a terminal evaluates what was rendered over a table of rows while others write
between the pages of a walk; `asked` is a ghost of the chain's meaning.
**`ModelRelations`** is `resolveRelation`, `eagerLoadRelation` for each kind of
relation, with the loads of one `get()` interleaved, and the query side of the
belongs-to-many builder. **`OrmExecutor`** is `getExecutor` and `configureOrm`:
methods of models begin with an executor, keep it for all their statements, and end, while
the program calls `setConfig` and `configureOrm`; opening a database may throw, after the
keys of the cache were set (`BeginThrows`). `reached` and `refused` are ghosts: where the
last statement went, and that the executor stands in for one that could not be made.
**`ModelInstance`** is class `ModelInstance` for a row that exists: `attrs` is
`_attributes`, `orig` is `_original`, `carried` what the statement under way
carries. `Save`, `SendUpdate`, `Update` and `SaveResolves` are the parts of `save()`
between its awaits; calls are named (`MethodCalls`), and two of them may be on one
instance at once, since nothing in the code prevents it. `acked`, `touched`, `meant`,
`since` and `overtaken` are ghosts: what the database confirmed, which columns were set, by
now and when a save took its changes, which have changed since it did, and which were
declared clean although they were not.

### DynamoDB: `DynamoMigration`, `DynamoReads`, `DynamoItems` (run by `MCDynamoClients`)

**`DynamoMigration`** is the migration driver and tracker: plan, each operation with
its wait, the record with its version, for several drivers, with crashes, lost
requests and lost answers, over a service that works on a change for a while
(external). The read of the newest version may show the records as they were earlier
(`Shows`), since the tracker's Query is not a consistent one. **`DynamoReads`** is the four read builders (`DynamoDBQueryBuilder`, the
entity builder, the model's and the single-table one): a chain becomes a request
with placeholders, the service answers page by page. **`DynamoItems`** is the writes:
model instances, item builders, repositories, batches, transactions. A method call of an
instance (`requests`) goes from the call to the request (`Save`, `Update`, ...), the request
takes effect at the service (`PutItem`, `UpdateItem`, `DeleteItem`, `GetItem`) or is lost
before it does (`Lost`), its answer arrives or is lost (`Effect`), and the method goes on from
there (`UpdateAnswered`, ...); calls are named (`MethodCalls`), and several may be on one
instance. `past` is what a GetItem may still show. `current` (columns nobody wrote since the
instance was told them), `overtaken`, `dropped`, `blind` and a call's `since` are ghosts.

`MC<module>` modules only give the constants their values; `MCDynamoClients` also puts
the three DynamoDB components, which share nothing, side by side. Each property has a
plausible mistake in the code (a mutant, named for the mistake and defined right
after or before what it alters) that violates it under the configuration of its
run; `PROJECT.json` lists them. No definition of the models uses them.

## 3 Runs

Seven runs in which everything holds:

| Run | Configuration | Checks | Shows |
|---|---|---|---|
| `calls` | `MCClientCalls_calls` | `TypeOK`, `NoDanglingTransaction`, `ScopesAreAtomic`, `AppliedAtMostOnce`, `OutcomeIsTruthful`, `HooksTellTheOutcome`, `AbortReachesEveryQuery`, `WalksAccountForRows`, `DuplicatesNeedOverlap`, `OwnIdComesBack`, `PivotCallsAreSound`, `EveryCallEnds` | Whatever is nested, caught, refused at COMMIT or rolled back by the engine, scopes stay atomic; two nested retry loops apply the work at most once and tell the truth (unless `afterCommit` throws); every order of answers, timers and the abort; walks lose a row only to a write they are known not to see; a second row with the same match, or a stranger's id, needs two callers in each other's gap |
| `caches` | `QueryCaches_caches` | `OwnRows`, `AnswersAreRecent`, `EvictionIsFair` | Eviction is least-recently-used through re-sets, moving caps and expiry; concurrent misses, clears and evictions cannot make an answer older than one TTL and one delivery, nor show rolled-back work for longer than one TTL |
| `statements` | `MCStatements_chains` | `BindingsMeetTheirValues`, `FilterIsTheOneAsked`, `ClausesAreInOrder`, `MemoIsFresh` | Every chain of calls up to the bound, then any terminal, on a `?` and on a `$n` dialect |
| `connections` | `MCConnections_calls` | `TypeOK`, `CallsReachTheConfiguredDatabase`, `OneDropIsSurvived`, `LockIsSound`, `FilesAreUnitsInOrder`, `ConcurrentRunsDoNotCollide`, `EveryoneEnds` | Resets, injections, drops and retries of two callers; two processes under the lock on pools of one and two; two processes that run files with crashes, failing calls and re-runs, on each of three dialects |
| `plans` | `MCMigrationHistory_plans` | `CorpusRebuildsTheModels`, `MigratedMeansModels`, `RollbackIsInverse`, `LossIsAnnounced` | The files rebuild the schema from nothing, keep the data, and stay in step with record and snapshot over every history of commands up to the bound |
| `models` | `MCModelQueries_models` | `TypeOK`, `StatementsMeanTheChain`, `LoadedRowsAreRelated`, `StatementsGoWhereConfigured`, `UnsavedIsDirty`, `SavesKeepOthersColumns` | Chains under every terminal, loads torn by others' writes, a configuration that changes, two instances of one row with every interleaving at the awaits |
| `dynamo` | `MCDynamoClients_tables` | `SuccessMeansTarget`, `VersionsAreNotReused`, `AnswersMeanTheChain`, `ItemsMeanTheirWrites` | Two migration drivers that fail and start over on one table; every chain of the four read builders; the writes on the same items, with methods of one instance that overlap, answers that are lost and reads that show the past |

Five runs in which a sentence of the repository is refuted (section 7):
`sqlite_concurrent` (`RejectedLeavesNothing`), `tx_aftercommit`
(`RollbackCallbackIsTruthful`), `reads_opaque` (`OwnRows` with `TextIsShown =
FALSE`), `mig_partial` (`RecordedMeansApplied`) and `dynamo_select`
(`SelectionsKeepTheItems`).

`CHECK_DEADLOCK FALSE` is said where a system may really stop: a bound is used up,
every call has settled, every migration has run. `statements` does without it: a
chain at its bound is done, and stays so.

## 4 Bounds

* `calls`, connection: three levels of `begin` (an inner scope that fails inside one
  that is itself nested needs three), four `begin` calls (two after a failure, so
  that a wrong counter is used again), three statements (one per level), two
  callers that take turns. Transactions: one outermost call with two nested ones,
  budgets 2, 1 and 0: a retry inside a retry, a budget used up at each level, and
  two siblings of which one is durable when the other fails. Queries: one with a
  timeout, one with the signal, one with both.
* `calls`, tables: walks over keys 0 to 4 in pages of one and two (a page that ends
  with key 0, a last page that is full, one that is not), two writes in between.
  Two callers of the helpers on pools of one and two connections, one deletion. Two
  related ids, two syncers with one call each and one failing statement.
* `caches`: four keys, caps 0 to 3: eviction of one among several, a cap lowered by
  more than one. Time up to 3 with lifetimes 0 and 2: expired and live entries
  together. Two readers, two writes, two queries, a cache of one entry, one unit of
  TTL and latency: an entry can be filled, overtaken, evicted, refilled late and
  expire. Readers and writes are interchangeable, which is used as a symmetry.
* `statements`: chains of three calls, terminals included, two dialects (all others
  print `?` or `$n` the same way), with and without soft deletes, four relations: a
  direct one, one over a pivot, one through a table, one back. Three calls are what the
  known mistakes of this kind take (a clause out of order, one that moves it, one
  that builds on the moved text).
* `connections`: two callers, three configurations (a server with and without TLS, a file
  of the same name), three connections, two drops (a retry can be dropped as well) and one
  failed opening; two processes with two statements each and a crash;
  two processes, four files (a generated one with several statements, an authored
  one, one that cannot be wrapped, one with a drop), two mishaps: a crash and
  another one during the recovery from it.
* `plans`: five versions of a project of two models (a unique column and a second
  model that belongs to the first; a rename beside stricter and wider columns; models
  that point at each other, with an enum; a pivot, trait tables, uuid and polymorphic
  columns), three dialects, two generates, four commands, one crash: generate, run,
  generate, run or apply, roll back.
* `models`: three rows (plain, trashed, NULL), four calls and a row of others; two
  parents with two related and two pivot rows in five worlds, two changes during a
  load; two methods, three configurations and one database that cannot be opened; two
  instances with two columns of two values, one with a mutator that is not idempotent,
  two calls under way and five calls in all: set, save, set and a refresh during the save,
  and save again, some of them on the other instance.
* `dynamo`: two drivers, two indexes, three definitions (each next to each is a change
  of index, of TTL or of stream and billing), one new definition, one fault; four keys
  in pages of two, chains of five calls, one write of others; one item, two instances
  with two columns of two values, two method calls under way, three calls or writes in all
  (a read, an update beside it and another's write; two calls of one instance that cross),
  one request or answer that is lost. A second item or a fourth call takes TLC past its
  time; the proof of `ItemsKeepTheirWord` is for any number of both. `dynamo_select` needs
  no migration.

The bounds (`Max…`, `Sends`, `MaxTime`) appear in guards only and are bounds of the
exploration, not of the code. A cap of the engine's or the code's own that is not in
the code (`MaxRows` of `PivotSync`) is a bound as well.

## 5 Fairness

* `ClientCalls`: weak fairness of `Advance(c)` (callbacks return or throw, the driver
  answers, `setTimeout` fires), of `TimerFires` for queries (the database owes nobody
  an answer, so that the end of a query with a timeout rests on the timer alone), and
  of the next step of a walk, a helper and a pivot call (their statements are
  answered). Nothing makes the application call, and others' writes are bounded by
  `MaxWrites`: a walk that others outrun for ever need not end.
* `Connections`: weak fairness of the end of a call, and of a process's own steps (the
  database answers); strong fairness of a run's step to the lock, and of taking it
  while waiting: PostgreSQL and MySQL grant a session lock to a waiter. `RunsEnd` is
  stated for pools with room for a statement beside the reserved session (section 7).
  A crash is never forced and never excluded.

The other specifications state safety only and have no fairness.

## 6 Proofs

All for every value of the constants, under the named assumptions of the modules:
any number of callers, statements and levels, calls, instances, queries, processes,
connections, keys, rows and writes, any columns, values and migration files. Beyond the
assumptions that say what a constant is, five say something about the world:
`Serialised` (callers of the SQLite connection await each other; the run
`sqlite_concurrent` shows what happens otherwise), `TextIsShown` (a query prints as its
SQL; `reads_opaque`), `CreatedOnce` (no two CREATE statements of the files make the same
object), that a pivot row refers to a related row that is there (`ModelRelationsAssumption`;
a foreign key of the pivot table) and that pools, related ids and keys are finite.

**`ClientCalls_proofs`** proves the parts of `ClientCalls` and the composition.

* `begin()` and `savepoint()`: `NothingDangles` and the refinement `BeginIsNested`, both
  under `Serialised`. `NoDanglingTransaction` is not inductive: that the last scope's
  RELEASE or COMMIT finds its own savepoint depends on all the scopes under it.
  `BeginInv` says that at most one caller is inside; that the engine's stack mirrors
  the caller's open calls one by one, each with the name it will release and the
  work (`Under(d, s, i - 1)`) it will come back to; that it mirrors only the calls held
  (`Held`) when the engine has rolled back by itself, and that the lost ones are the
  outermost; and that the counter is never ahead of the calls. The counter may fall behind, which is
  why the mirror is about names and not about `txDepth`. The refinement then takes
  one lemma for each action (`BeginCallOpens`, `StatementWrites`,
  `CallbackResolvesResolves`, `ScopeRejections`, `EngineAborts`): each is the abstract step or leaves
  `durable` and the works alone.
* `transaction()`: `TypeCorrect`, `AppliedOnce`, `TruthfulOutcome`. `AppliedAtMostOnce`
  is not inductive: that a new attempt may begin rests on the previous one having been
  undone. The invariant relates each `pc` to the counts: work is pending exactly while
  the body runs (for a nested call, also after its savepoint was released, while the
  enclosing body runs), it is applied only when the outermost call has closed, and
  nothing nested is under way unless the enclosing body is. `Begin` resets the nested
  calls, `Undo` their work.
* `runWithHooks`: `QueryTypes`, `TruthfulHooks`, `AbortReaches`. The event lists are
  inductive together with the types; the abort needs `Reached`: before the abort every
  unanswered query with the signal has its listener, after it each has been cancelled.
* The helpers that look before they write: `DuplicatesComeFromOverlap`,
  `CreateReadsItsOwnRow`. `KeyedInv` adds what a caller's position says about the rows:
  one that found nothing while a row is there by now is in an overlap (`LookersKnow`,
  without which `DuplicatesNeedOverlap` fails at the insert), what was found or inserted
  is there while nobody deletes (`NothingIsLost`), and on a pool of one the session's
  last id is the caller's own until another INSERT came (`IdsAreKept`).
* `attach`, `sync`, `toggle`: `PivotCallsKeepTheirWord`, an action property. `PivotInv`
  carries from the read to the answer what a call has left to do: its remaining
  statements are a part of the work its read planned, and for a call that is alone each
  row is as the caller wants it, or the statement that makes it so is still to come and
  the row is as it was read (`HasDone`). `PlanIs` shows that the planned statements
  are that work, `StatementDoesItsPart` that each of them does its part, also when it is sent
  again after a failure.
* The composition: `WalksKeepTheirRows`, `CallsTypes` and `CallsKeepTheirWord` state all
  of these, the scopes of `begin()` included, for the specification the run
  checks. `StepsOfParts` shows once that a step of `ClientCalls` is a step or a stutter of
  every part, so that each part's own theorem carries over.

* The walks: `WalkInv`. By key (`KeysInOrder`) what was handed over lies behind the cursor,
  in order, and of the rows that were there all along nothing else does. By offset
  (`OffsetsAddUp`) it is a count: of the rows that stayed no more are missing before the
  offset than were deleted, and none has been handed over more often than once and once for
  each insertion, because a row is passed over only when a deletion moves it to before the
  offset and met again only when an insertion moves it back. `QuietSoFar` is that nothing is
  missing or repeated without writes. The lemmas are about counting: which part of the
  ordered keys a page is (`PageIs`, `CursorPageIs`), and how an insertion or a deletion
  changes the number of keys before another.

**`Connections_proofs`**: `LockIsSafe`, `ConfiguredDatabase`, `DropSurvived`,
`FilesGoAsUnits`, `ConnectionsTypes`.

* `LockInv` ties the connections a process has out to where it is (`Out`), and the
  holder of the lock to a process between locking and unlocking: mutual exclusion is
  that there is one holder. That `LockIsSound` is about drivers that can reserve a
  session is in the property.
* `ManagerInv` is per call: the connection it captured has the signature of the
  configuration it wants, is on memory only for SQLite after a failed opening, and if it is not open, either the server dropped it (and the count of drops says
  so) or this module closed it and the call is among `hit`; two failures of one call
  therefore are two drops. Connections are numbered in the order they were opened, so
  that a fresh one is nobody's.
* `RunnerInv` is about the files. A process at a file finds all the files it has left
  behind in the ledger, which is what `FilesGoInOrder` rests on; where DDL can be rolled
  back a wrappable file has taken effect once and as a whole exactly when it is recorded;
  and what exists was created by a statement that took effect. The last makes the
  recovery right: by `CreatedOnce`, "already exists" of a wrappable file can only come
  from another run of the same file (`WhatAScriptDoes`), which has recorded it. What the
  statements of a file do one after the other (`ExecuteFile`) is shown with
  `ScriptHasTrace` for any number of statements.

**`QueryCaches_proofs`**: `EachGetsItsOwnRows` (under `TextIsShown`), `AnswersStayRecent`
and the action property `CacheEvictsFairly`. `ReadsInv` gives every entry, rows on
their way and rows given the writes they may miss or wrongly show, each as a bound on the
time that has passed (`Recent`, `RowsOnTheWay`, `RowsGiven`): a delivery, then the time
to live. `UseInv` is that the sequence has each key once and is in the order of use, as
`colder` tells it, so that the one at its head is the coldest; `LeftIsAsGood` says that
what is left of a cache after any evictions keeps all that.

**`ModelQueries_proofs`**: `TypesAreKept`, `NothingForgotten`, `NoClobbering`,
`ConfiguredExecutor`, `LoadsAreRelated`, `ModelStatements`; `ModelsTypes` and
`ModelsKeepTheirWord` for the composition.

* Instances: `Confirmed` says, column by column, that unless it was overtaken the
  snapshot (or the attributes, when there is none) has what the database last confirmed;
  `Carries` says of each save that has taken its changes, and for the columns that did not
  change since, that the attributes are the confirmed values overlaid with what it
  carries. Without it the snapshot `save()` takes at its end could not be shown to be
  confirmed; it is about calls, not instances, since several saves of one instance may be
  under way. `Owned` says that only columns that have been set are dirty. A step of one
  instance or call leaves the others alone (`StandingInstance`, `StandingCall`), so that
  all three are shown for what steps.
* Executors: `ExecutorInv` says that the cached executor is the one its keys say, unless
  opening that one failed, and the same of what each method under way was given and of the
  configuration it began in. `GivenExecutor` shows both for each of the ways `getExecutor`
  may go; a statement follows from what its method holds.
* Loading relations: `LoadedRowsAreRelated` is about the end of a load, others write
  between its statements, and each half of a link is read at another moment. `RelatedInv`
  carries what was read: the rows of the first statement held when they were read, and any
  link that has stayed all along goes through one of them (`MidsOk`); a relation that is
  done handed over links that held and, where there was a key to read, everything that
  stayed (`HandedOver`). Around it: a cached guess is about the table and never about the kind
  (`CacheOk`), and the rows `pivot()` answers with are the pivot rows there are (`PivotOk`).
  `LinksMean` says once what a link of each kind is, `RestStays` that a step elsewhere
  leaves a load alone.
* The builder's types need `NextPageKnown`: the next page of a walk starts from the limit
  and the page number the last one left on the builder.
* `ModelStatements`: `StatementsMeanTheChain`, for any table, any conditions and chains of any
  length, while others write between the pages of a walk. It rests on `ModelQueryAssumption`:
  a table is finite, its ids are numbers and a row says whether it is trashed. It takes three
  things. *The text*: how terms are printed and what that means is in `SharedLemmas`;
  `ConditionMeans` and `BetweenMeans` relate it to what was asked, one call at a time: a `whereBetween` that an
  `orWhere` follows is the one chain it leaves out (`SplitBetween`). `StatementSelects` says that a statement selects the rows that are meant. *The rows*:
  `RowsInv` adds that a table is one and that no answer is told while a statement is under
  way. *The walks*: in an order by id first a row has a place (`Rank`), and a page is the
  rows of its places (`PageGives`). While a walk is under way, `Tallied` bounds what it missed
  up to its place by the rows that left, and what it repeated together with what it gave too
  early by the rows that came; a row that comes or goes moves one row across the place
  (`RowGone`, `RowComes`, by `FirstShrinks`), a page moves the place (`PageTallied`). The
  last page of `paginate` is known from a count that may be old (`TotalKnown`), so it may
  leave as many rows as came since (`BeyondFew`); the one of `chunk` is a page that is not
  full, and leaves none.

**`StatementBuilders_proofs`**: `MemoStaysFresh` and `StatementsKeepTheirFilter`, for chains
of any length on every kind of builder, any relations, paths and dialects.

* `MemoStaysFresh`: `MemoIsFresh` names the calls it leaves out, so `MemoInv` says of the
  other chains what the builder is: it has asked for no pivot columns, and its memo is empty
  or the statement it renders now. A builder remembers pivot columns only after `withPivot`,
  which is left out, so `with()`, which adds them again, is left with its joins (`WithKeeps`,
  over the hops of a path). Each clause method forgets the memo or changes only what no
  statement tells (`DirtyIs`, `SendsKeep`), and `Called` relates the names of a longer chain to
  those of the shorter one.
* `StatementsKeepTheirFilter`: what is sent chooses the rows that were asked for. The property
  is about what has been sent; `FilterInv` says of every builder on the way there where the
  filter is. A SELECT builder (`Faithful`) is `Open`, its text says nothing of a WHERE and its
  terms are, one by one, the conditions asked (`Alike`); or a set operator has made it
  `Closed`: it has no terms, and its text says, operand by operand, what was asked (`Means`).
  Its memo, if it has one, says that too (`Remembers`), although it need not be fresh.
  The write builders print as they go, so their text says it (`Chosen`). The chains the property
  leaves out are `Barred` (once barred, always barred), and the others are what
  `SelectOK` needs to know about the past: a builder is closed only by a set operator, what
  is moved behind the WHERE comes only from a trailing clause (`NoLater`), and the
  default filter of soft deletes is still to come until a terminal added it. It takes
  three things. *Texts*: `Filters` reads what a text prints, token by token. `ReorderReads`
  says that `computeReorderedClauses` leaves that alone where nothing of it follows a clause
  that is moved (`Ordered`), `SpliceReads` that `currentSql` puts the terms where they are
  read as the WHERE of the last operand, `InsertedIs` that a clause put in between (a join, a
  CTE, a column) says nothing (`Mute`). *Meaning*: that the brackets make SQL's precedence
  read the chain is shared with the models (`SharedLemmas`), whatever the conditions are;
  `MovedAgrees` and `MovedOperand` say that an operand whose conditions are numbered on from
  the left one's still means what it did. *Calls*: one lemma for each group of methods
  (`SelectSteps`, `SubSteps`, `InsertSteps`, `UpdateSteps`, `DeleteSteps`).

**`StatementBindings_proofs`**: `StatementsBindTheirValues`, for the same chains: every
placeholder of what is sent receives the value it was written for. The invariant is
`BindInv`, by kind of builder.

* *SELECT* (`BindsOK`). `Tallied`: each of the values given so far has its placeholder in the text
  or among the recorded conditions, and there is no other. With `$n` that is all a statement
  needs; with `?` the order counts, and `InLine` says it of the builder before anything is put
  together: the marks of the text and those of the terms rise, the terms go before the text
  or, once a set operator has put a WHERE of its own behind it (`tail`), after. The text is not sent as it
  stands: `computeReorderedClauses` sorts its clauses, so `Sorted` says that already of the
  marks per clause (`View`, which a call changes token by token, `Seen`), and where a HAVING came
  first, that no later clause has marks before it. Then `ReorderMarks` and `ViewSplice` carry the
  order over to what is sent. `reorder()` cuts the text at its ORDER BY, which loses no value
  because nothing behind it has one (`Droppable`), and a memo was made like that when it was made
  (`Settled`).
* *The chains left out* are `Excluded`: once in it, always in it, so `Included` may say of a chain that is not what its last call is and
  that the shorter chain is not either. The property asks for the dialect of
  what was sent; `Speaks` shows that no call changes a builder's, so a chain is left out from the
  beginning or not at all.
* *The others* append. A subquery has its values ahead of its text and in it, in order
  (`Along`), and is left alone by what it cannot do. The text of a write holds the first so many values
  exactly (`Dealing`), and where `returning` on MySQL sends another SELECT for the rows of an
  UPDATE, that one takes the values from the end, as many as the WHERE has.

**`DynamoClients_proofs`**: two results about migration drivers, for any number of
them, of indexes and of definitions, one about the read builders and one about the
writes of items.

* `VersionsStay`, an action property. `VersionInv` says that the recorded versions have no
  gap, and that a driver about to put holds a version that is at most the next one, and is
  the next one unless another driver recorded since it read the newest, or the read did not
  show the newest. Every other step is
  shown once to leave that alone (`RunMoveKeeps`, `RunStepKeeps`, `RequestKeeps`);
  `PutAppends` says what a put leaves.
* `SuccessIsTarget`. `SuccessMeansTarget` is about the end of a migration; `CourseInv` says
  what holds all along: of a table nobody else has touched, what the driver has not sent yet
  is exactly what the table differs by from its target (`OnCourse`), an index on its way
  out counted as gone, a created table's TTL as one operation more, and an unreported TTL as
  something that may be set again. `EachIs` and `PlanIs` show that `buildMigrationPlan` starts
  it, by induction over the indexes; `AddDone`, `DeleteDone`, `UpdateDone`, `TtlDone` that
  carrying out an operation takes just that one out of the difference; `SettlingKeeps`
  that the service's own work leaves the difference alone; `AskKeeps` that a request
  does, however it ends, and that a refusal as a duplicate needs another driver;
  `NothingLeft` that a table with nothing left to do is what the model asks for. It rests
  on `DynamoMigrationAssumption`: `Indexes` lists the names the definitions use, each once.
* `ItemsKeepTheirWord`: `ItemsMeanTheirWrites`, invariants and action part, for any number
  of items, columns, values, instances and calls under way. `ItemInv` has four parts.
  `TableOk`: an id holds one item at most, and one without a type was deleted or updated
  blindly. `InstancesOk`: of the columns an instance was told and nobody wrote since, its
  original is what is stored, but for those an update made clean. `CallsOk`: what a call
  that took effect will tell is stored, in the columns nobody wrote `since`. `OwnersOk`: a
  call still to give an instance away is the only one on it. `Spares` and `Goes` name what a
  write leaves alone and what it makes of the columns it takes; `WritesKeep`, `OneWrite`,
  `EffectKeeps` and `CarriedKeeps` use it for each kind of write, `SendsKeeps` for a call,
  `MovesKeep`, `AnswersKeep` and `BecomesKeeps` for an answer. It rests on
  `DynamoItemsAssumption`: there is a column, and what items are made of are columns with
  values.

* `ReadsMeanTheChain`: `AnswersMeanTheChain`, for any keys, table, page size and chains of any
  length of the four builders, while others write. Two things are said of data of any length.
  A request says what the chain says (`RequestOfSays`): the writes of a list are numbered
  (`WritesAre`), lists with prefixes of their own share no placeholder (`JoinNames`), and a
  placeholder written once stands for what it was written for (`ResolvesItself`). And
  sequences of places in the order of a read (`Ordered`) are known by what they hold:
  `AmongIs`, by induction over the sequence, says what is taken from one, `BeginsWith` that
  the part that comes first is a prefix, `SameOrder` that equal sets are equal
  sequences, `CutIs` and `PageIs` what the limit cuts off before the filter, so that the last
  key lies between the page and the rest. `ReadInv` adds the walk (`Walking`): what it has is
  in order and at or before the start key of the next page, and what it
  must not miss still satisfies the chain and is had or lies ahead (`NextPageKeeps`,
  `OtherWritesKeep`). It rests on `DynamoReadsAssumption`: a table gives every key an item or
  none, limits and page sizes are at least 1 (the service refuses 0), and conditions are
  records as the chain's methods make them, those of `SkConditions` about `sk`.

**`SharedLemmas`** has what stands in for induction, which the provers cannot
instantiate: a set of numbers that is not empty has a least one, a set that holds 0 and
with each number the next holds all up to n, and what is computed step by step has a
trace. Recursive definitions in the modules with theorems are functions. It also has what
`renderWhereTerms` prints: how terms are grouped into runs is a recursion over the chain
(`OrRuns`), and so is what they mean. `AskedIs` says what a chain asked for by its last call,
`RunsHoldIs` what the runs say, `PrintedMeansTheChain` that the two agree, and
`RenderedMeans` that the brackets make SQL's precedence read the runs back.

The theorems of `SqliteBegin`, of `transaction()`, of `runWithHooks`, of instances and
executors, and those about DynamoDB are over the component's own specification (`BeginSpec`, `TxSpec`,
`RunSpec`, `InstanceSpec`, `ExecutorSpec`, `DynamoSpec`, `ReadSpec`, `ItemSpec`), whose steps are the steps of the
composed one in which that component moves; all others are over the composed `Spec`.

Only model-checked:

* all liveness, and the fairness it rests on, which is out of the prover's reach;
* `ConcurrentRunsDoNotCollide`: it is about the given files. With others it is false (two
  files one of which drops what the other creates do collide), and the condition on
  the files that makes it true would be the property again;
* `ClausesAreInOrder` for chains longer than the run's. It is stated so that it holds for
  those too (its exclusions speak of calls anywhere in the chain, and random walks of up
  to seven calls found no other), but why it holds is a case for every pair of clause
  methods in every order;
* the promises of `MigrationHistory`: what they evaluate is built by folds over a corpus of
  any length, and are about the given versions of a project.

## 7 Where code and documentation disagree

Five disagreements have a run that shows them (the quotes are under "findings" in
`PROJECT.json`):

* `sqlite_concurrent`: `docs/features/transactions.md` promises a rollback of the
  transaction that throws; on SQLite two transactions at once share the connection and
  its counter, and work of a rejected one becomes durable (`P/db.ts:618`).
* `tx_aftercommit`: `onRollback` is called for a transaction that is durable, when
  `afterCommit` throws (`P/client.ts:8181`).
* `reads_opaque`: on Bun's driver a query prints as `[object Promise]`, so queries with
  equal parameters share a cache entry (`P/client.ts:6176`).
* `mig_partial`: a MySQL file that died half way is recorded by the already-applied
  recovery (`P/actions/migrate.ts:592`).
* `dynamo_select`: `select()` of the single-table builder makes its result empty
  (`P/dynamodb-single-table.ts:541`).

The rest were met while reading or while a property was being stated. The models
behave as the code does, and the properties leave these cases out by name, so that
they hold for everything else; no run asserts them.

**Calls.** `P/db.ts:659` says a nested call always runs with `txDepth > 0`; when COMMIT
throws, both decrements run (632, 639) and a later nested `savepoint()` issues a BEGIN,
which is refused. The logger's `commit` event precedes COMMIT (`P/client.ts:8169`).
When `onRetry` throws, `onRollback` is not called (8186). The docs show a logger event
`retry` that is never emitted. With a signal aborted beforehand the query has been
executed all the same and its timer stays armed (3362). `chunkById()` ends at a falsy
cursor, and `chunk()` walks by offset, so deletions between pages hide rows.
`insertGetId` on MySQL asks for `LAST_INSERT_ID()` in a second statement on the pool.
`lazy()` and `lazyById()` add a second WHERE from their second page on when the builder
has one (6244). `beginDistributed` does not mark its builder as a transaction.

**Caches.** A cap of zero keeps one entry (538).

**Statements.** (Named exclusions of `BuilderPromises`.) A join subquery's own LIMIT is
rewritten by `limit()` (322). The right operand's WHERE of a union is moved, ordering
or grouping before a union moves the left one's, and conditions after a union bind
wrongly or print AND for `orWhere`. `get()`, `first()` and `count()` send the text before
it is reordered. `withCount`, `over` and `withPivot` rebuild the memo without its
parameters; `addToSelectClause` leaves the memo without the column on Bun's drivers.
With a scalar subquery or a CTE first, the first " FROM " is an inner one, and later
edits of the list go into its parentheses. `onlyTrashed()` next to a `where` prints two
WHEREs, alone it runs an empty statement; `find` and `findMany` print a second WHERE.
`distinct()` twice prints it twice; `selectAllRelations` drops it. `reorder()` drops
everything after ORDER BY; `forPage` after `limit`, and `first`/`value`/`paginate`,
double LIMIT. A HAVING before a `where` misbinds on `?` dialects. `lockForUpdate` then
other clauses is out of order, so are joins behind a set operator, and the lock moves with
the clause before it when those came out of order. A GROUP BY, HAVING or ORDER BY that is
taken up again after another clause prints its continuation behind that one (5475, 5675,
5694), so a second HAVING can land behind a moved one. `get()` memoises the text before it
is reordered, and `execute()` sends the memo. Conditions after a set operator print behind
the clauses that trail it. `reorder()` that drops a HAVING or a right operand keeps its values. `with('a', 'a.b')` is
reported as a cycle; `with()` that throws midway leaves its joins; `with()` after
`wherePivot`, or back to the root table, joins twice. `ensurePivotJoined` puts its JOIN
at the end. Empty lists print `IN ()` in `whereX([])`, `update`, `delete` and
`selectFromSub`; `orWhere('c', 'in', […])` binds one placeholder. `selectFromSub` ignores
a callback or an undefined in `where`, and its `withTimeout`, `abort`, `lockForUpdate`,
`withCTE`, `withTrashed`, `onlyTrashed` and scopes do nothing. The soft-delete default is
applied by `get()` only, and only to the right operand of a union. INSERT takes its
columns from the first row; `where()` before `set()` prints in that order; UPDATE with
`returning` on MySQL counts its placeholders; `deleteFrom().executeTakeFirst…` and
`returningAll` skip the hooks (comment at 7824); `withCTE` on the SQLite wrapper returns
no rows.

**Connections and the runner.** The comment at `P/db.ts:872` says that the signature is of
every field that affects the connection; `ssl` and `DB_*` are not in it, so a `setConfig`
that changes only those keeps the old connection. When the SQLite file cannot be opened
all later calls go to an empty database in memory until the configuration changes or is
reset (855-863). That one run whose `reserve()` fails goes on unlocked while others lock
(`P/actions/migrate.ts:460`) is not modelled: the lock is there for all runs or for none.
`setSqlInstance` never closes the connection it pushes
out. Another caller's forced fresh connection can close one under a retry. With
`pool.max = 1` a run waits for the session it holds itself. SQLite runs unlocked
(`P/actions/migrate.ts:452`): of two concurrent boots one can fail, where
`test/migrate-atomicity.test.ts` expects none to. Recovery records a file whose other
statements were rolled back.

**Plans.** (The cases of the ghost `gap`, and the conditions of the properties.)
PostgreSQL echoes boolean defaults in a spelling that is not recognised. On SQLite a
rename together with `useTimestamps` is not detected. A change that is made, undone and
made again is taken for a duplicate of the first file. Two generates within seconds
interleave their file names. A table that others point at cannot be dropped first on
MySQL and SQLite. The removal of a foreign key is never emitted on PostgreSQL and MySQL,
and its change adds a second constraint or a duplicate; MySQL drops a column or modifies
its type under its foreign key. SQLite's in-place ADD COLUMN loses its reference, and its
files are not ordered by reference, so that a rollback can drop a table others point at.
Enum values are never altered on PostgreSQL, a column that becomes an enum has no type, and
the type of a dropped one stays. A NOT NULL column without default is added to rows. A
rebuild from a snapshot drops hand-made columns unannounced; rolling one back drops only
its indexes. A rollback deletes its record although statements were skipped. A reset leaves
the tables and types of removed models. A reset that dies, or whose DROP fails, after the
record is gone is followed by a run that skips what is there and records it: on
PostgreSQL, where CASCADE took the constraints of tables that stayed, and for a file of
several statements the schema then lacks what the skipped file had (`gap` has "dropped" or
"left"); one that could not drop the record leaves a ledger of files whose tables are gone
("recorded"); one that dies between the snapshot and the last file leaves files that the
next generate numbers its own over ("erased"). What holds in the meantime is
`RerunMakesUp` and that a corpus the reset did not come to still rebuilds the schema; a
reset that goes through ends all of it. Types are aligned to a reference in one pass. An
`apply` that dies before its snapshot makes the next one fail; `apply` with pending files
runs only the difference. A lost snapshot with deterministic names overwrites files. A
rebuild file carries its own BEGIN, COMMIT and PRAGMA. `CREATE INDEX` on MySQL has no IF
NOT EXISTS (`P/drivers/mysql.ts:307`).

**Models.** `P/orm.ts:775` says the executor is rebuilt whenever the dialect or the database
name changes; the keys are set first (795), so that after a database that could not be
opened the executor of before goes on under the new keys. A method keeps its executor, and a
driver's takes the connection of the moment (694), so that a configuration that changes
during the method gives the new connection a statement in the old dialect's text. A
column changed while a `save()` of its instance is under way, by `set` or by a `refresh()`
that read earlier, is clean afterwards and not saved (1314). `restore()` makes earlier
unsaved changes clean (`P/orm.ts:1385`); a guarded
column is left out of the INSERT and marked clean (1256). `whereBetween` is two terms, so
that a following `orWhere` binds to its upper bound only, while `whereNotBetween` is one.
`where(c, op, undefined)` compares with the operator's text; `where(c, '>', null)` is IS
NOT NULL. A belongs-to-many `count()` and `exists()` ignore `where()` and `limit()`;
`wherePivotIn([])` does nothing. Eager loading ignores the soft deletes of related rows; a
slot stays undefined when all keys are null. The relation cache keeps a guess made before
the related model was registered. `first`, `last`, `sole` and `paginate` leave their limit
and order on the builder; `chunk()` ignores the caller's; OFFSET without LIMIT is a syntax
error on SQLite and MySQL. A has-through load can pair a parent with a row never linked to
it. `destroy(id)` and `truncate` delete softly deletable rows for good. Changing the
configuration away and back drops an in-memory SQLite database. `lastPage` is 0 for an
empty result.

**DynamoDB.** DescribeTable carries no TTL, so every migration of a model with one asks for
it again and is refused; the TTL of another attribute cannot be removed or changed. A
deletion of an index is not awaited, and one that is being deleted counts as present. An
index redefined under its name, a changed stream view and a changed key are not applied,
though success is recorded; LSIs are dropped on the way although the header names them.
Every migration records a version, by a read and an unconditional put. Of two drivers that
create the migrations table the second fails after its own table was migrated. `getAll`
leaves its start key on the builder. `count` is one page; a limit applies before the
filters, so `first()` can miss. `entity` and `all` do not filter by type. `update()` makes
a deleted item again; it also marks every other unsaved attribute clean. A failed `find`
reads as none, so that `updateOrCreate` creates. `batchWrite` ignores unprocessed items.
Assigning `user.name` is not a change for `save()`. `wherePartitionKey` of the single-table
builder needs the fields of both keys. Conditions on a sort key alone, or on an index after a
key, are refused by the service. An update that only removes sends empty values.
The tracker reads the newest version without `ConsistentRead`
(`P/dynamodb/migration-tracker.ts:106`), so one driver alone that records two models of
one table in a row can overwrite the first record; likewise an instance found or refreshed
may be told what the item was. What is set or unsaved while an update is under way becomes
clean with its answer, and the answer of a creation overwrites what was set meanwhile.
`update()` of an instance that was never saved, and an update in a transaction, make an
item without its type. A delete whose answer is lost leaves an instance that `exists` of an
item that is gone; an instance found of an item without its own attributes has no key.

## 8 What is not modelled, and why

* **Types** are compile-time. **CLI, benchmarks, seeding, operational actions** are
  straight-line scripts over the components above. **SQLite pragmas** are sent once when a
  connection opens.
* **Browser client** (`P/browser.ts`): its clauses are a subset of `ModelQuery`'s, rendered
  into a URL; what the answers mean is up to a server that is not in the repository.
* **DynamoDB tooling adapter**: a translation of another package's definitions to the
  requests of `DynamoReads`. Signing, sending and marshalling are left out of the client.
* **Partly modelled**: isolation levels and the `SET` statements of `transaction()`;
  `beginDistributed` (it hands over to the driver); the try- and transaction-scoped
  variants of advisory locks; the spelling of types in the drivers, SingleStore and
  Vitess; `splitSqlStatements` (a scan of characters); inflection and reading model
  files; casts, accessors and serialisation of instances, `updated_at`, which every `save()`
  with changes writes (`P/orm.ts:1225`) and no instance takes over, and the create branch of
  `save()` apart from what it writes beside others; the connection that a reset switches constraints off on.

Abstractions in the modules that exist:

* Values are positions (a placeholder knows which value it was written for), rows are a
  key or one column, and names are members of small sets. Parsing SQL is only what the
  code itself does to its own text.
* Isolation between concurrent transactions of a server: from the driver only that a
  transaction is atomic is used; what it reports as an error is a choice.
* Amounts of time: backoff delays and timers only have a moment at which they end; the
  caches and the names of files have a clock of small integers.
* `runWithHooks` without hooks, timeout and signal is the driver's promise itself and is
  left out. Tracing spans go with the hooks.
* The database of `plans` is what the engines document of the statements used; MySQL's
  automatic indexes on foreign keys are left out.
* In `DynamoMigration` and `DynamoReads`, DescribeTable, Query and Scan show the table as it
  is when they are answered (a page at a time). In `DynamoItems` an instance keeps its key:
  one told of an item without key attributes writes to the same id. A transaction's update
  that removes or adds writes the column like one that sets it; batches and transactions put
  one fixed item. Static `create()` is `New` and `Save`.
* Two weaknesses have no property of their own, since the code promises nothing there: a
  batch write's unprocessed items (`P/dynamodb/index.ts:625`) are simply not written, and
  the mutators of a failed `save()` run again when it is repeated (`P/orm.ts:1208`).

## 9 Plan

What the first plan named has been written, and the safety of `ClientCalls`, `QueryCaches`,
`Connections`, `ModelQueries` and `DynamoClients` is proved (but for one property, section 6).
What is left, in order:

1. A proof of `ClausesAreInOrder` for chains of any length.
2. `MigrationRunner` over the lock of `MigrationLock` itself instead of its promise, with a
   refinement; `MigrationHistory` over the runner's crashes.
3. `ModelInstance`: the create branch with guarded columns.
4. The browser client, once the repository has a server that answers it.
