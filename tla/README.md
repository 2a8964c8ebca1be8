# Formal models of asqueel

asqueel turns a declared relational model into queries, writes and migrations
for PostgreSQL and SQLite. This directory holds TLA+ models of its code, TLC
configurations that check them on small instances and proofs, checked by TLAPS,
that hold for every instance. Paths below are relative to `src/asqueel` of the
repository unless they say otherwise.

## 1. Inventory

| Component | Files | State | Operations | What makes it hard | What makes it correct |
|---|---|---|---|---|---|
| Execution service | `runtime.py` | per thread: named connections (session, pending, failed, executing, committing, completion_failed, deferred queues, outcome), write depth, closed | execute, write scopes, commit, rollback, defer*, deferredRaise, closeConnection, close | user code runs inside every operation, catches exceptions and calls back; the driver may fail at any call, COMMIT may fail after it worked | no half-done work becomes durable, no doomed unit commits, no session or callback is lost or kept too long, the outcome is the truth |
| Table writes and hooks | `writes.py`, `triggers.py` | trigger stack, the records in flight, row locks in the database | insert, update, delete, raw forms, batches | hooks between the locked read and the statement, other threads, nested writes | locked snapshot stays current, failed writes leave nothing, the trigger stack mirrors the writes |
| Application tables | `application.py`, `application_table.py` | lazily loaded record snapshots | query, record, refresh, soft_delete, restore | a snapshot is stale as soon as something else writes | a failed refresh must not serve old data |
| Environment | `environment.py`, `contracts.py` | one mapping per thread, open scopes | temp_env, updateEnv, currentEnv setter, clearCurrentEnv | scopes that overlap with direct assignments, compiled queries used later | leaving a scope restores what it found; stale queries are refused |
| Drivers | `drivers/*` | none beyond the session | prepare, connect, execute, commit, rollback, close | text with parameters in it | every value is bound to the place it was written for |
| Query compiler and plan | `compiler.py`, `query_plan.py` | bindings, joins and references under way while one query is compiled | plan_*, compile_plan | generated names against the caller's names; joins shared with subqueries; policies on writes | no value captures another's place; references reach their row; rows outside the scope are not reached |
| Model, builder, validators | `model.py`, `builder.py`, `validators.py`, `common.py` | the source tree, the resolved model | build, validate, resolve | references that are resolved twice, by different code | what validates resolves to the same thing or is refused |
| Catalogue, projection, reader | `catalog*.py`, `projection.py`, `reader.py` | name dictionaries | project, read | names made up for composites; shared dictionaries | reading back what was projected yields the structure |
| Migration, command line | `migration.py`, `cli.py` | the database itself | plan, apply, verify | a failure between two statements, another command line | exit code 0 means the structure was seen to have converged |
| Registry, configuration | `registry.py`, `configuration.py` | cards in a directory | register, resolve, remove | other processes, a process that dies half way | a name means what was registered under it |
| Dialects, rendering, emitter | `dialects/*`, `renderer.py`, `object_renderer.py`, `emitter.py` | none | render | options that exclude each other, two dialects, names that meet | accepted options give a statement that runs and one answer; a recipe rebuilds its tree |
| Grammar and its pages | `elements.py`, `grammar_doc.py` | none | declarations | names in nested collections | what a parent accepts |
| Importers | `importers.py` | the model under construction | import of a catalogue | several queries while the structure changes | relations point at imported tables, nothing is lost in silence |
| Errors | `errors.py` | none | - | - | - |

How they interact: an application builds a model (builder, validators, model),
opens a database (`application.py`, which is a `Database` of `runtime.py` with
`WriteMixin` of `writes.py`) and calls tables. A table write enters a write
scope of the runtime, locks the row, calls hooks, compiles a statement
(compiler, query plan, dialect, driver) and executes it through the runtime.
Hooks and deferred callbacks call everything again, from inside. Threads share
the database object and tables; connections, environment and trigger stack are
thread-local, so threads meet only in the database.

`PROJECT.json` lists the hazards, each at its line, with the property that
guards it or the reason why none does yet.

## 2. Modules

| Module | Models |
|---|---|
| `UnitOfWork` | what a caller may rely on: units of work per connection name, begun, committed whole, doubted, blocked, released |
| `Connections` | `runtime.py` for one thread: the detailed specification |
| `MCConnections` | symmetry for TLC |
| `Writes`, `MCWrites` | `writes.py`, `triggers.py` and the write part of `application_table.py`, for several threads over one table |
| `DeferredSet` | what a deferred queue promises, in any order |
| `DeferredQueue` | one queue of `runtime.py` with blocks, order and collected arguments |
| `Environment` | `environment.py`: the live mapping of a thread and its temporary scopes |
| `MigrationRun` | `cli.py`: prepare, apply and verify, by several command lines |
| `Registry` | `registry.py`: cards shared by processes without locks |
| `RecordReader` | `application_table.py`: query(), record(), the snapshot of a record |
| `MCServices` | the five above, side by side |
| `ParameterNames` | the names made up for parameters (`query_plan.py`), their origins |
| `ParameterBinding` | `compiler.py`, `_Context`: contexts, bindings, inputs, environment keys |
| `DirectSql` | `drivers/sql.py`: the same for SQL given as text |
| `RowPolicies` | partitions, drafts and logical deletion, from the model to the rows reached |
| `QueryRendering` | options of a query: refusals, dialects, select and count over rows |
| `QueryJoins` | relation paths, aliases, formulas and subqueries: joins and rings |
| `MCStatements` | `ParameterBinding`, `DirectSql`, `RowPolicies`, `QueryRendering` and `QueryJoins`, side by side |
| `SqlModel` | `elements.py`, `builder.py`, `catalog.py`: the source tree and its calls |
| `ModelValidation` | `validators.py` |
| `ModelResolution` | `model.py`: the tables and relations the compiler works on |
| `ModelProjection` | `migration.py` and `projection.py`: the structure, the physical model |
| `ModelReader` | `reader.py`: a structure read into a model |
| `Emitter` | `emitter.py`: a tree written as a recipe |
| `CatalogImport` | `importers.py`: a catalogue imported by several queries |
| `MCModels` | the chain from `SqlModel` to `ModelReader`, `Emitter` and `CatalogImport`, side by side |
| `<Module>Proofs` | inductive invariants, lemmas and theorems about `Connections`, `Writes`, `DeferredQueue`, `QueryJoins` and `CatalogImport` |
| `QueryProofs` | the same about `RowPolicies` and `QueryRendering` |
| `ServicesProofs` | the same about `Environment`, `MigrationRun`, `Registry` and `RecordReader` |
| `BindingProofs` | the same about `ParameterNames`, `ParameterBinding` and `DirectSql` |

`Connections` and `Writes` both implement `UnitOfWork`: the first takes the
connection apart (statements with user code inside, deferred work, closing), the
second takes the writes apart and keeps of the connection what a write depends on.
`DeferredQueue` implements `DeferredSet`, which is how `Connections` has its queues.

Side by side: `MCServices`, `MCStatements` and `MCModels` each check several
specifications that share no state in one run. A variable `part` is chosen at the
start and never changes; the behaviour is one of that part's own specification,
and the variables of the others keep their initial values. It is the disjoint
union of the state spaces, not their product. A property about one part says
nothing of the states of the others.

### Connections

State and code: `conn[n]` is the `_ConnectionState` of name `n` (a state that
does not exist yet is the one `_connection_state` would create); `stack` is the
Python call stack reduced to what matters, one frame per operation of the
runtime in progress; `exc` is the exception that propagates through it; `closed`
is `_ThreadState.closed`; `write_depth` is the number of write frames. The other
variables are history: which unit of work a connection is in, which units the
database accepted, which write ran SQL in which unit, which write an exception
escaped from, which unit a `deferredRaise` or a failed write doomed, how many
sessions are open.

User code has control at the outermost level, in the body of a write (hooks), in
a driver callback during a statement and in a deferred callback. Whenever it has
control it may call any operation on any connection name, raise, or, when a call
raised, catch. A call the code refuses raises and changes nothing: `UserRaise`.
An exception is `NoError`, the number of the failed statement (the identity
`execution_error is error` depends on it) or `Other`; user code may keep a
caught SQL exception and raise it again later (`held`).

Each driver call (connect, execute, commit, rollback, close) succeeds or raises.
A COMMIT that raises may have been accepted.

Abstractions:
* The deferred queue is a set: entries run in any order, which covers the order
  by block and insertion of the code. Arguments of callbacks are left out.
* The driver's commit or rollback is one step: no user code runs inside it.
* Statements have no effect but that they belong to a unit; rows are the subject
  of `Writes`.
* Exceptions arise in calls and in user code, not between two bytecodes
  (KeyboardInterrupt).
* One thread: `_check_connection_owner` only fails for a state handed to another
  thread, which the public API does not do.

### Writes

State and code: `conn[t]`, `stack[t]`, `exc[t]` are as in `Connections`, for one
connection per thread. A frame is a call of `_insert`, `_update`, `_delete` or of
a scope around other writes ("batch": the list form of `raw_insert`,
`soft_delete`, `restore`) and its phase says how far it is: before the locked
read, in the hooks before the statement, in the hooks after it. `triggers[t]` is
`TriggerStack.stack`. The database is rows, the lock on each row and the row as
the locking unit sees it. A column's value is the number of the write it comes
from, so a row says which writes it is made of: `merged = old_record` overlaid
with the values of caller and hooks is then a statement about provenance.

What the database does is external and modelled as PostgreSQL does it at READ
COMMITTED: FOR UPDATE and writing statements wait for a locked row and then see
its newest committed version; locks last until the unit ends; an insert waits for
whoever holds its key. A wait that never ends (two threads, crosswise) is broken
by the database failing a statement, and any statement may fail. SQLite locks the
whole database at the first statement (`drivers/sqlite.py:80`), which allows
fewer behaviours.

Abstractions:
* A selector is the set of rows it matches; values are not evaluated. One that matches
  no row or several fails its write, which is modelled; that the unit cannot be
  committed then, although it wrote nothing, is in no property.
* Primary keys do not change, returned columns are not mapped back.
* Hooks do what the model lets user code do: assign columns of the record, enter
  writes, run statements that fail, raise, catch. SQL of theirs that succeeds and
  changes this table without a write is left out.
* User code does not raise a caught SQL exception again (`Connections` covers it)
  and does not switch connection names.
* No deferred work: commit is one step.

### Services

`DeferredQueue`: `blocks` is the dictionary of the queue, per block the entries in
the order of first registration; what an entry `collects` stands for the argument
lists that callers who register again add to. `CallbackBegin` takes the first
entry of the block in progress, or of the first block in order; `CallbackReturns`
drops what the callback queued for itself unless it is recursive; a block ends
when it is empty. Only the callback that runs may register while a drain is on,
for the drain holds the thread. A callback that raises ends the drain and leaves
the entries it has not reached (`CallbackRaises`), which for the after-queue a
later commit drains (`runtime.py:449`, `docs/guide/transactions.md:124`); a
statement that fails in a callback (`ExecutionFails`), a rollback and a closed
connection clear the queue (`Clear`). What may come between is for `Connections`:
the before-queue of a connection that failed is cleared before it is drained
again. `made` and `ran` are history, of all drains since the queue was last empty or
cleared.

`Environment`: a mapping is a function from the keys it has. A scope puts aside
what the keys held and notes what it added (`scopes`); leaving it removes what it
added and is still there unchanged, and puts back the rest. `frames` is history:
what the mapping was at entry and what has been assigned since. Snapshots and
compiled queries that outlive them are in `RowPolicies`.

`MigrationRun`: the database is a set of objects, `planned` what the migrator
compared. DDL that fails may leave any part of its plan behind, also when another
run was faster; KeyboardInterrupt may strike anywhere.

`Registry`: `open(..., "x")` and the write that follows are two steps; a card is a
file of its own, so one that was unlinked is written without effect. `resolve`
looks, reads and checks in three steps. Cards may be edited by hand, project
directories may go.

`RecordReader`: a record is refused, compiled, loaded, copied and refreshed as in
the code; rows, environment and the dictionary the caller was given change
meanwhile. A primary key is the sequence of its values, of any length.

### Statements

`ParameterNames` keeps names as sequences of pieces (`<<"env", "k">>` is `env_k`;
a number in a name is written in strokes, so that two numbers give two names),
and names made up by the compiler meet names a caller may choose.
`ParameterBinding` walks a statement in the order of the code: one step per place
that binds a value, a stack of contexts for subqueries. `placed` is history: which
value each place was written for. `DirectSql` is the one scan of `prepare_text`,
a step per parameter of the text; it keeps parameters of its own, under names that
begin with `text_`.

A collection may be empty: its input counts as used, it decides the text, and
nothing is bound (`emptied` is history of that).

`RowPolicies`: a table has a partition and fields for drafts and deletion, as far
as the model accepts them; actors compile at one time and execute at another, in an environment
that changes; rows have three-valued conditions (NULL is neither). What a
statement reaches is compared with the scope its actor has when it is executed.

`QueryRendering` evaluates what the database answers over contents of a small
table (`Contents`): projections, DISTINCT, grouping, order, limit, lock. `QueryJoins` compiles
expressions frame by frame, as the recursion of the code does, a relation of a
path at a time, and notes with each reference it writes (`leaves`) the alias it
got, the row its path leads to and the subqueries it stands in.

Abstractions: SQL text is a sequence of references or of clauses; tokens, quoting,
operators and types are left out. A partition is on a column of the table: one
on a column behind a relation (`compiler.py:230`) is left out.

### Models

`SqlModel` has one action per kind of element: a call of the builder with its
parent, its name and its attributes. Names are sequences of words because the code
joins and hashes them: `a_b` and `a`, `b` meet. `ModelValidation` has one operator
per check that looks at more than one element; `ModelResolution` follows
`resolve_model` and its aliases, `ModelProjection` the migration renderer and
`to_physical_builder`, with entities keyed as asqueel_migration's factories key
them (external, modelled from the calls). `ModelReader` grows a structure entity
by entity and reads each state of it. `Emitter` writes one statement per node and
interprets the recipe again. `CatalogImport` has one step per query, with the
catalogue of the moment or of the snapshot.

The names the projection makes up are those of the code: `unique_<n>` with the
number of constraints before it, `_native_key_<n>` with the number of keys met
before it, in any order (`Numberings`), and longer while a logical column has the
name. They are not always free: see Divergences.

Abstractions: types, labels, comments and check clauses are carried or left out;
attribute checks that look at a single value are left out. `CatalogImport` leaves
out the query of routines (`importers.py:199`) and the filter on kinds in the query of
columns (`importers.py:94`).

### Bounds

For `Writes`: `MaxWrites` write operations, `MaxDepth` nested ones, `MaxFailures`
failing statements or completions. Two writes of two threads are enough for one
to slip between the read and the statement of the other; two columns for a value
that is copied and one that is assigned; two keys for a selector that matches
two rows, which are both there at first or neither (`Starts`); three nested writes
for a write in the hook of a write in a hook.

For `Connections`: `MaxExecs` statements, `MaxWrites` write operations and `MaxDepth` nested
operations, all in guards of the actions that count. Two statements are enough
for a failure after success; three for a write whose first statement is lost and
whose last one is kept, and for two writes with SQL before and between. Depth
three holds a commit, its callback's statement and a write in it; two names nest
a commit in another's callback. `closed` threads stop, and a thread may always
do nothing more, so deadlock is not checked.

For the services: scopes three deep, so that an inner scope overrides what a
middle one added; two blocks and two callbacks with four registrations until the
queue is empty or cleared (`MaxRegistrations`), as many as there are entries: one
may be repeated by a callback, and what an exception leaves be asked for again;
two command lines that want different structures and one that only plans; three
processes and two cards (`MaxFiles`), enough for one to be removed and replaced
between the steps of another.

For statements: three places (`MaxPlaces`), two subqueries, nested or not
(`MaxSubqueries`), and one policy per table (`MaxPolicies`) in `ParameterBinding`,
enough for a name of a subquery, of its parent and of a policy to meet; the
names are a collection, what its first member would be called, what a subquery
would call it, a collection in the environment and, in `BindingMembers` only, what
a member of that would be called. Of the collections one of the caller has two
members, another of the caller, and in `Statements` the one of the environment, has
none; in `BindingMembers` the latter has two. `DirectSql` has six places
(`MaxTextPlaces`), which is three collections. There are two actors and two values in `RowPolicies`;
four contents of up to four rows in `QueryRendering`, where `Largest`, SQLite's
largest integer, is 9, above any offset and limit asked for; requests of up to three references in
`QueryJoins`, with a ring through two tables, within `MaxDepth` frames.

For models: two tables, with one call of each kind that a rule is about, a
vocabulary each for keys, aliases, names that collections share and names like
those the projection makes up; every subset of one in every order that the grammar
allows is built. In `Emitter` trees
of at most nine nodes (`MaxNodes`), in `CatalogImport` four catalogues, each of
which may replace any other between two queries.

## 3. Runs

| Run | Asks | Instance |
|---|---|---|
| ConnectionsWrites | broken writes stay out; the outcome is honest | one name, three statements, two writes, depth 3 |
| ConnectionsNamed | the service implements `UnitOfWork`; sessions and flags | two names, one callback, two statements, depth 3 |
| ConnectionsDeferred | doomed units stay out, callbacks follow their unit; the inductive invariant; every operation ends | two callbacks, one recursive, one write, depth 3, fairness |
| WritesRows | locked snapshots hold; commits bring only their own work; each thread's connection implements `UnitOfWork` | two threads, two rows, two columns, two writes, depth 2, one failure |
| WritesNested | broken writes leave nothing; the trigger stack | one thread, three writes, depth 3, one failure |
| WritesStale | *violated*: what was rolled back stays out | one thread, two writes, one failure |
| Statements | see below | five parts |
| BindingMembers | *violated*: members of a collection keep their place | one statement whose names meet |
| StatementsDirect | *violated*: SQL given as text has the rules of a query | one text, the names of `Statements` |
| Models | see below | seven parts |
| ModelShared | *violated*: collections of a table do not collide | a column and a composite of one name |
| Services | see below | five parts, weak fairness of the drain |

`Statements`: values keep the place they were written for in compiled statements
(`PlacesAreKept`); SQL given as text, once prepared, binds every place to the
value it was read with, which is the caller's or the environment's unless the name
was made up for a member before, and has told which keys of the environment it
read (`PreparedAsRead`); a statement that depends on the environment, be it on an
empty collection in it, says so (`EnvironmentIsRecorded`); the inputs reported as
used are those whose value the statement depends on (`ConsumedInputsAreBound`), so
that an unused one is refused and an empty collection is not; what is reached when
a compiled statement is executed is in its actor's scope of that moment
(`ReachesItsScope`), and an update leaves it there (`WritesStayInScope`); options
that were accepted make a statement that runs (`AcceptedQueriesRun`), which
`count()` counts (`CountMatchesFetch`) and both dialects answer alike
(`DialectsAgree`); references reach the row of their path (`LeavesReachTheirRow`);
exactly the rings are refused (`OnlyCyclesAreRefused`).

`Models`: of the models with names that do not collide, one that validates
resolves, is refused, or has a target written with blanks, on which the resolver
breaks; and where it resolves, validator, resolver and renderer read each relation
alike (`ImplementationsAgree`); resolved aliases end at a column (`AliasesEnd`);
the physical model renders the structure of the model it was made from, its foreign
keys and their indexes excepted if a made-up key has the name of a physical column
(`ProjectionKeepsTables`); a
structure read into a model renders itself (`RoundTrip`); a recipe rebuilds its
tree (`RebuildsTheTree`); an imported model is closed and what was left out is
reported (`ImportIsFaithful`).

`Services`: what is queued is served in order and every registration once, in one
drain or, when callbacks raise, in several, unless it is cleared
(`ServesTheQueue`); a drain ends (`DrainTerminates`) and implements the queue of
`Connections` (`ImplementsSet`); exit code 0 of apply means that the structure was
seen to be what the model asks (`RunsEndHonestly`); a name of the registry means
what was registered (`NamesKeepTheirMeaning`); a record gives the one row that was
asked for, and never that of before a refresh (`GivesWhatWasAsked`); leaving a
scope restores what it changed and keeps what was assigned to any other key, new
or not (`LeavingRestores`).

Each property of a passing run has a mutant: an operator beside the one it
changes, which makes TLC find the property violated.

### Violated properties

* `RolledBackStaysOut`: an ordinary update writes every column of the record it
  read before the hooks. When a hook swallows an SQL error in between, what
  earlier writes of the unit had put into that record is written again, in a new
  unit, and committed. `docs/guide/writes.md:173` says that an SQL error rolls
  back earlier writes. `CommitsItsOwnWork` sets such units apart and holds for
  all others: without a swallowed SQL error there is no lost update.
* `MembersKeepTheirPlace`: a member of a collection is bound under a name that is
  free at that time, but a parameter of the root is bound under its own name
  without looking. In `$id IN :env_k AND $n = :env_k_0` the second takes the name
  of the first's member, whose value is lost (`compiler.py:206`, `212`).
  `PlacesAreKept` sets such names apart and holds for all others.
* `TextFollowsTheRules`: `docs/guide/queries.md:144` says that `db.execute` applies
  the rules and the errors of a query. Direct SQL looks names up among the members
  it made up itself (`drivers/sql.py:38`, `52`): after `IN :ids`, `:ids_0` is the
  first member, where the compiler reports a missing parameter. `PreparedAsRead`
  sets such names apart.
* `CollectionsDoNotCollide`: columns, virtual columns and composite columns of a
  table share one dictionary of the catalogue; a composite called like a column
  validates and hides it, although `elements.py:37` says that unrelated names do
  not collide. `ImplementationsAgree` is about models without such names.

### Divergences

Met while modelling, without a run of their own:

* An after-commit callback that runs SQL and then calls `deferAfterCommit` has the
  new callback run before its SQL is committed: the after-queue is drained to the
  end before `_commit_pending` goes round again (`runtime.py:448`).
  `docs/guide/transactions.md:63` says such callbacks run after a successful
  commit.
* A failed statement rolls back the whole unit. If a hook catches the error, the
  write goes on in a new unit and returns; its earlier statements are gone, its
  later ones are committed (`runtime.py:379`). `docs/guide/hooks.md:90` has SQL of
  a hook succeed or fail with the write, `docs/guide/writes.md:176` says a list
  insert has no partial success.
* The validator and the renderer strip the parts of a relation's target
  (`validators.py:255`), the resolver does not (`model.py:128`): a target with
  blanks around its schema or its table validates, and resolving the model raises
  KeyError. `ImplementationsAgree` says that this happens for such targets and for
  no others.
* `projection.py:13` says that anything lossy is rejected. Extensions are dropped in
  silence. So are foreign keys when names meet: a composite made up for a key is
  called `_native_key_<n>`, longer if a column has that name in the model, but not
  if one has it in the database (`projection.py:137`). With `x_sql_name` of
  `_native_key_0` on a column with a foreign key, the physical model has a column
  and a composite of one name, of which the catalogue keeps one (`catalog.py:130`, as in
  `CollectionsDoNotCollide`), and the column's key is read as the composite's.
  `KeyNamesMeet` in `ModelProjection` is that case.
* A unique composite becomes the constraint `unique_<n>` (`projection.py:95`). If the
  author has given that name to a constraint, the projection stops with the
  builder's ValueError of a duplicate name, though nothing would be lost.
* A drain need not end (`runtime.py:320`): see Fairness.

### Fairness

`ConnectionsDeferred`: weak fairness of the runtime's own steps, which the running
thread takes, and of hooks, callbacks and driver calls coming back. Nothing
obliges the application to call anything or user code to catch an exception.
`EveryOperationEnds` assumes that from some point on no callback queues another
one, nor a recursive one itself: without that a drain goes on for as long as
they do, two callbacks that queue each other for ever, for only the key that runs
is dropped when it returns (`runtime.py:328`). That `deferredCommitRecursion` asks for
repetition is documented, that two plain callbacks may repeat each other is not. A
callback may queue itself as often as it likes, which is what the drop is for.
The number of statements is finite.

`Services` (`QueueFairness`): weak fairness of the loop of the drain and of the
callback that runs coming back; nothing obliges a callback to register or to
raise. The other parts have no fairness.

## 4. Proofs

Each theorem holds for every value of the constants that meets the assumptions
of the module; the run of the same property shows it on the instance of section 2.

| Module | Theorem | Property | Rests on |
|---|---|---|---|
| `ConnectionsProofs` | Invariance | `IInv` | - |
| | TypeCorrect | `TypeOK` | `IInv` |
| | BrokenWritesStayOut | `BrokenWriteNeverDurable` | `IInv` |
| | DoomedUnitsStayOut | `DoomedNeverDurable` | `IInv` |
| | CallbacksFollowTheirUnit | `NoOrphanCallback` | `IInv` |
| | OutcomesAreHonest | `OutcomeIsHonest` | `IInv` |
| | SessionsAreKept | `NoLeakedSession` | `IInv` |
| | FlagsMirrorStack | `FlagsMatchStack` | `IInv` |
| | ConnectionsAreUnitsOfWork | `ImplementsUnitOfWork` | `IInv`, `ClosedOK` |
| `WritesProofs` | WritesTypeCorrect | `TypeOK` | `Shape` |
| | SnapshotsAreKept | `LockedSnapshotHolds` | `Shape`, `SnapshotIInv` |
| | BrokenWritesLeaveNothing | `BrokenWriteLeavesNothing` | `Shape`, `CleanIInv` |
| | CommitsAreGenuine | `CommitsItsOwnWork` | `Shape`, `SnapshotIInv`, `OwnIsGenuine` |
| | WritesAreUnitsOfWork | `ImplementsUnitOfWork` | `Shape` |
| | TriggersFollowWrites | `TriggersMirrorWrites` | `Shape`, `Mirrored` |
| `DeferredQueueProofs` | QueueImplementsSet | `ImplementsSet` | `QueueShape` |
| | QueueServes | `ServesTheQueue` | `QueueShape`, `ServedIInv`, `OrderIInv` |
| `ServicesProofs` | ScopesRestore | `LeavingRestores` | `EnvironmentIInv` |
| | MigrationHonest | `RunsEndHonestly` | `MigrationIInv` |
| | RegistryKeepsNames | `NamesKeepTheirMeaning` | `RegistryIInv` |
| | RecordGives | `GivesWhatWasAsked` | `RecordIInv` |
| `QueryProofs` | StatementsReachTheirScope | `ReachesItsScope` | `PoliciesIInv` |
| | WritesKeepToTheirScope | `WritesStayInScope` | `PoliciesIInv` |
| | RenderingInvariance | `RenderingInv` | - |
| | QueriesRun | `AcceptedQueriesRun` | `RenderingInv` |
| | CountsMatch | `CountMatchesFetch` | `RenderingInv` |
| | DialectsAlike | `DialectsAgree` | `RenderingInv` |
| `BindingProofs` | BindingInvariance | `BindingIInv` | - |
| | BindingTypes | `BindingTypeOK` | `BindingIInv` |
| | ScalarPlacesKeep | `PlacesAreKept` | `BindingIInv` |
| | EnvironmentRecorded | `EnvironmentIsRecorded` | `BindingIInv` |
| | ConsumedAreBound | `ConsumedInputsAreBound` | `BindingIInv` |
| | DirectInvariance | `DirectIInv` | - |
| | PreparedKeepsPlaces | `PreparedAsRead` | `DirectIInv` |
| `QueryJoinsProofs` | JoinsInvariance | `JoinsIInv` | - |
| | LeavesReach | `LeavesReachTheirRow` | `JoinsIInv` |
| `CatalogImportProofs` | ImportInvariance | `ImportIInv` | - |
| | ImportKeepsFaith | `ImportIsFaithful` | `ImportIInv` |

Every invariant in the last column is proved the same way: the initial states
have it, one lemma per action (or per kind of step) shows that the action keeps
it, and the property follows from it in every state or on every step.

### Assumptions

`CallbackAssumption` and `BoundAssumption` of `Connections`; `RowAssumption`,
`ThreadAssumption` and `WriteBoundAssumption` of `Writes` (the keys of the table
are finitely many, and the row that is not there and the thread that is nobody are
neither rows nor threads); `DeferredAssumption` (blocks are finitely many and
ordered by number); `EnvironmentAssumption` (a mapping is a dictionary, which None
is not); `MigrationAssumption` (a model wants objects, a command line plans or
applies); `RegistryAssumption` (a working directory is not the base of relative
folders, and no file is the one that is not there); `RecordAssumption` (a row has
both columns of its key, and None is neither a row nor a record);
`PolicyAssumption` of `RowPolicies` (fields are columns, the environment keys of
the two roles are distinct, a current value is a value and an allowed one a set of
them, a write is given columns and values); `NamesAssumption` of
`ParameterNames` (the pieces that made-up names are put together from are pieces
of names, a name has at least one piece, a caller supplies finitely many, a
collection has a number of members, none included); `QueryJoinsAssumption` (relations lead to tables,
virtual columns are expressions, references have the fields of their kind);
`CatalogAssumption` of `CatalogImport` (a catalogue has the shape `IsCatalogue`
says, and none is none of them); `RenderingAssumption` of `QueryRendering` (queries
and plans have the fields of their kind, the option that is not given is no value
of one, a table has no more rows than SQLite's largest integer, and that is two at
least). `BindingAssumption` and `DirectAssumption` are
about bounds. No theorem assumes anything about
bounds but that they are numbers. TLC evaluates each assumption in the run that
extends its module.

### Why the properties need more

`Connections`. None of the promises is inductive. That a broken write stays out
depends on who may still complete its unit, hence on the stack: a commit cannot
stand above a write (`StackOrder`), an execution or a commit occurs at most once
per name, and what a write in progress has touched is neither durable nor open on
another connection (`OpenWritesOK`). That a broken write whose SQL failed need not
mark its connection depends on `execution_error` being cleared by every statement
that starts: an open unit follows the last failed statement (`UnitsOK`). That
flags mirror the stack needs both directions: a frame implies its flag
(`FramesOK`) and a flag its frame (`FlagsHaveFrames`). `IInv` is the conjunction,
which TLC checks as an invariant of `ConnectionsDeferred`. The refinement maps a
step to a stutter or to one of the steps of `UnitOfWork`, and needs one more fact
than `IInv`: while connections are being closed, and after that, no unit is open
on those already dealt with (`ClosedOK`).

`Writes`. `Shape` is the frame of the rest: identifiers of frames grow up the
stack and are those of no other stack, a row that is not locked is the committed
one, a lock belongs to a unit that is open. `LockedSnapshotHolds` of an outer
write is disturbed by the locked read of an inner one, which reads what the outer
one's hooks have written; so the invariant also relates what two writes on one
stack have read (`SnapshotsNest`). `BrokenWriteLeavesNothing` depends on where a
value may come from at each stage: what a write in progress has read, what an open
unit has in the rows, what is committed (`ReadsAreClean`, `OwnIsClean`,
`CommittedIsClean`), each of which speaks of the writes above and below it in the
stack. `CommitsItsOwnWork` needs that a value in a locked row, or in a snapshot
of this unit, is the committed one or from a write of the unit (`OwnIsGenuine`).

`DeferredQueue`. An entry occurs once in its block (`QueueShape`). A registration
waits in exactly one place or was served, or is one that its own callback may not
make (`ServedIInv`); that holds between drains as well, since an exception leaves
both the queue and what has run as they are, so a later drain finds the rest and
does not repeat what ran. What the drain began with has run or is still queued, in its
block and before all of it that was asked for later, and a block is drained when
those before it have been (`OrderIInv`).

`Environment`. Scopes are nested, and what a scope restores is the mapping its
outer scope goes on with. `EnvironmentIInv` says of every pair of neighbouring
scopes that the inner one found what the outer one has overlaid but for keys that
were assigned since, so that the argument for the innermost scope applies to each
in its turn.

`MigrationRun`: what each phase of a run knows of the database it read last.
`Registry`: a file has one writer and one name; a file that names a lasting
registration is written, hence nobody's to write. `RecordReader`: the row kept is
among those that matched alone since the last refresh, and the options of the
record are those of its call.

`RowPolicies`. A compiled statement was compiled in some environment: its
conditions, its guarded values and its binding are those of one environment
(`SoundIn`). If it is still valid it agrees with the environment of the moment on
every key it looked at, absence included, and is sound in that one (`StillSound`);
then `partition_predicates`, `guard_values` and the guide's scope agree on every
value (`ConditionMeans`). `Accepted` is needed: a draft that is also the tombstone
would be asked two things of.

`ParameterBinding`. A place is bound under a name that is free at that moment, or
that its own context bound before; what has to be excluded is that another
context binds the name later with a value of its own. A subquery takes free names
only, and every name that is bound is reserved, as those of the caller are from
the start (`NamesAreReserved`, `ContextsNest`). The root does not look: what it
binds is a name of the caller or one that begins, after underscores, with `env`,
`value` or `policy`, and those of a subquery begin with `s`. So what it may meet is
what it bound itself (`PlacesAre`), with the same value (`BindingsAre`), or a
member of a collection whose name it makes up (`MadeUpAtRoot`, which is why
`PlacesAreKept` excepts members of such names, and `MembersKeepTheirPlace` is
violated). That a free name exists at all, so that the loops `while name in names`
end, is proved by counting: there are more candidates than names taken
(`OneIsFree`). `EnvironmentIsRecorded` and `ConsumedInputsAreBound` need that what a
context has under a name comes from where it says: the caller for its
`input_origins`, a subquery's own parameters, or the environment, whose key was
recorded when it was looked up (`ValuesAre`). Both speak of what the statement
depends on (`DependsOn`): the values it binds and the empty collections.

`DirectSql`. The scan removes no parameter before it ends, and what it adds is
named by names that are free; so `DirectIInv` says the same of each moment of the
scan. What is left at the end needs one more fact, which `Prepare` tests: the
driver refuses a place whose parameter was taken out with its collection. That a
parameter is the caller's or the environment's is true of all but those made up
for members; so the invariant tells these by their names (`MadeUp`).

`QueryJoins`. A leaf is right when its alias is declared in a select that is in
scope where it is written and the joins of that select lead from its base to that
alias along the path. Joins are only ever added (`LeadsStays` and the lemmas
beside it), so what is led to stays led to; a path under way, the owner of a
formula and the outer row of a subquery have to be right in the same way before
the leaf is reached (`FrameHolds`); and the selects of a scope are numbered
upwards (`Nests`), so that a subquery that has ended is in nobody's scope.

`QueryRendering`. `RenderingInv` only says how the state came about: the plan is the
compiler's, of a query it accepts, and the statement the dialect's, of a plan it
accepts. The promises then follow from what a statement says (`Says`): which
clauses it has, with which expressions, and its projections in their order, all of
which the lemmas derive from the concatenation of its pieces, also when it is
nested in a count (`RenderSelectSays`, `NestedSays`). Statements that say the same
of the rows find equally many (`FoundAlike`). A statement runs because the compiler
or the dialect refused what it could not run (`StatementRuns`); a count over
columns needs that there are as many singletons of rows as rows (`SinglesAre`);
the limit SQLite adds cuts nothing off because what is found is never more than
the table has or two groups (`FoundIs`, `LargestPage`).

`CatalogImport`. Under read committed each query may see another catalogue, and
what remains true is that relations stay within the tables the second query gave
the model (`RelationsStay`). Under repeatable read all see one snapshot, and
`AsSeen` says for each stage what the queries so far have taken from it and what
they have warned of.

### Only model-checked

* `EveryOperationEnds` and `DrainTerminates`: liveness under fairness.
* `RolledBackStaysOut`, `MembersKeepTheirPlace`, `TextFollowsTheRules`,
  `CollectionsDoNotCollide`: they are violated.
* `OnlyCyclesAreRefused`: that nothing else is refused rests on the depth bound and
  on the closure of the references, which is a fold.
* `ImplementationsAgree`, `AliasesEnd`, `ProjectionKeepsTables`, `RoundTrip`,
  `RebuildsTheTree`: they compare functions over trees and structures that go
  through them by recursion or by folds, where induction over data is out of
  the prover's reach.
* The type invariants of `RowPolicies`, `QueryRendering`, `QueryJoins` and
  `CatalogImport` are part of their inductive invariants and proved with them; the
  modules of the model chain have none that is proved.

## 5. Plan

What was planned is modelled and checked. What would come next:

1. `runtime.py` on two threads that share a name's session by mistake: the owner
   check (`_check_connection_owner`) fails for it, the model has one thread.
2. The text of expressions, where a quote or a comment decides what a parameter is.

## 6. Not modelled

* Text: tokens of SQL expressions, rendering of INSERT, UPDATE and DELETE, quoting
  and layout of recipes, and the pages of `grammar_doc.py`. They are functions of
  their input without state; what their options decide is in `QueryRendering`.
* `configuration.py`: resolvers and views look a value up in a tree.
* `SqlEnvironment` and its contextvar: it carries the SQL level's settings and has
  the scopes of contextvars, not those of `temp_env`.
* `errors.py`: classes without behaviour.
* Opening real databases, adapting values and the migrator: other packages,
  modelled by what the code does with their answers.
