# A TLA+ model of the query builder

The repository (`@slashfi/query-builder`, TypeScript) is a typed SQL query
builder for CockroachDB with two stateful halves:

* at run time, builders turn calls into SQL strings and hand them to the `query`
  function of the user's configuration; `db.transaction()` and
  `db.addTransactionSideEffect()` tie queries and callbacks to a transaction
  through an `AsyncLocalStorage`;
* at development time, `qb generate` reads the tables of a database, compares
  them with the declared ones and writes migrations.

This directory holds TLA+ modules translated from `src/`, the TLC runs that check
them on small instances, and TLAPS proofs of the main theorems about
transactions, migrations, selects, index queries, conditions, SQL strings and index
metadata. `PROJECT.json` maps every definition to the lines it stands for.

## Inventory

Paths are relative to `src/src/`.

| part | state it keeps | operations | talks to | hard behaviour |
|---|---|---|---|---|
| Transactions and side effects (`run-in-transaction.ts`, `db-helper.ts`) | the store of an `AsyncLocalStorage`: manager and `sideEffects` array; the clients and transactions of the user's runner | `transaction` (opens or joins), `addTransactionSideEffect`, every builder's read of `getStore()?.manager`, `db.sql` | the user's `runQueriesInTransaction` and `query`, the server | interleaved tasks, promises left running, retries, lost COMMIT answers, rejecting side effects |
| Introspection (`introspection/introspect-schema.ts`, `introspect.ts`) | the snapshot under construction | list tables, read columns, `SHOW CREATE TABLE` per table | the database, three queries with no transaction | the table changes between queries, a query fails and is skipped |
| Schema diff (`introspection/schema-diff.ts`) | none | compare columns, indexes, primary key under options and patterns | introspection, declared tables | options that hide part of the table, texts the database rewrites |
| Migration generation (`ddl/generate-migrations.ts`, `ddl/table/`, `migrations/`) | none | up and down statements in order, constraints | diff, files | order of statements, downs that do not restore, constraints that are false |
| CLI (`cli/index.ts`) | the migration file | `qb generate`, `qb index-codegen` | all of the above | repeated runs that never come to rest |
| Select queries (`from-builder.ts`, `QueryBuilder.ts`, `QueryResult.ts`, `writeSql.ts`, `paginate.ts`) | immutable parameters per builder | clauses, `query`, `queryAndNarrow`, pagination | `query`, the store | pages that are the same query again, `throwsIfEmpty` given in two places |
| Index queries (`index-query-builder.ts`, `ddl/index-config.ts`) | immutable parameters per builder, awaitable | `where`, `andWhere`, `select`, `limit`, `expectOne`, `orderBy`, awaiting it | `query`, the store | operators and NULL, later calls that replace earlier ones, `expectOne` over a limit |
| Inserts and updates (`InsertBuilder.ts`, `UpdateBuilder.ts`, `values-builder.ts`) | parameters | rows, defaults, `ON CONFLICT`, `RETURNING`, awaiting it | `query`, the store | rows with different columns, zero rows, awaiting twice |
| SQL strings (`sql-string/`) | parts and parameters | template, `join`, `append`, numbering of parameters | all builders | parts and parameters out of step |
| Expressions, functions, clauses, constants | expression trees | operators, `and`, `or`, `not`, writing SQL | select, update, insert | brackets and precedence, three-valued logic |
| Type narrowing (`type-narrower.ts`) | none | judge a result against a condition | select | a condition judged on the wrong operand |
| Entity registry (`db-helper.ts`) | tables known to a `Db` | register, look up | table declarations | |
| Index metadata codegen (`ddl/codegen/`) | generated file | parse predicates, print metadata | CLI | |
| Table declarations, type-level helpers | declared tables | column and index builders | everything | compile time only |

What makes each part correct:

* transactions: the queries of a block are durable together or not at all, whoever
  else runs; side effects run in order, after COMMIT, each once, and are not lost
  when `transaction()` resolves; code never sees the manager of a transaction that
  has ended, unless its func left it running; a builder or a nested call never waits
  for a client while its task holds one; a call whose func has settled is answered;
* schema tools: a migration can be applied to the table it was generated for, down
  undoes it, its constraints are true of that table, nothing the options protect
  is touched, and repeating `qb generate` comes to rest;
* queries: the rows returned are the rows asked for; a later call of a builder
  method does not undo an earlier one in silence; text and parameters agree;
  a condition printed means what its expression says.

## Plan

Most important behaviour first. Done: 1 to 7.

1. **Transaction** and its contract, with proofs, that of the refinement too.
2. **Catalog, SchemaDiff, Migrations, SchemaSync**: the database's table, the
   diff, the statements, and the cycle introspect - generate - up - down, with proofs.
3. **IndexQuery**: the meaning of an index query's conditions, and awaiting it,
   with proofs.
4. **Expressions, Conditions**: what the combinators of expressions print against
   what they mean, under the precedence of the database, with proofs.
5. **Narrowing, Select**: a select built call by call and run in four ways, its
   pages against a table others change, the grouping of its rows into objects and
   the verdict of the type narrower on them. It takes its conditions from
   Expressions. With proofs.
6. **SqlString, Write**: inserts, updates and tables of values, printed token by
   token and read back by position, with proofs.
7. **IndexMetadata**: declaration, generated file and database, each at its own age,
   with proofs.
8. To come: several actions of one `ALTER TABLE` and their downs; subqueries as
   tables; two `Db` instances, which share one `AsyncLocalStorage`.

## Modules

| module | models | extends |
|---|---|---|
| `TransactionContract` | what transactions and side effects promise, without tasks, clients or runner | |
| `Transaction` | `createTransaction`, the store, builders, side effects, runner, server | |
| `TransactionProofs` | theorems about `Transaction`, and that it implements the contract | `Transaction` |
| `MCTransaction` | instances for TLC | `Transaction` |
| `Catalog` | tables, DDL statements, what CockroachDB makes of them | |
| `SchemaDiff` | the diff of a declared table and a snapshot | `Catalog` |
| `Migrations` | statements of a migration, their downs and constraints | `SchemaDiff` |
| `SchemaSync` | introspection in three reads, `qb generate`, up, down, other actors | `Migrations` |
| `SchemaSyncProofs` | theorems about `SchemaSync` and the statements of a migration | `SchemaSync`, `SequenceLemmas` |
| `MCSchemaSync` | instances for TLC | `SchemaSync` |
| `IndexQuery` | an index query: its builder, its WHERE clause, the answer | |
| `IndexQueryProofs` | theorems about `IndexQuery` | `IndexQuery` |
| `MCIndexQuery` | instances for TLC | `IndexQuery` |
| `Expressions` | boolean expressions: text, meaning, how the two are related | |
| `Conditions` | a program that builds expressions out of each other | `Expressions` |
| `ConditionsProofs` | theorems about `Conditions` | `Conditions` |
| `MCConditions` | an instance for TLC | `Conditions` |
| `Narrowing` | rows into objects, and the type narrower's verdict | `Expressions` |
| `Select` | the select builder and the ways to run it | `Narrowing` |
| `SelectProofs` | theorems about `Select` | `Select`, `SequenceLemmas` |
| `MCSelect` | an instance for TLC | `Select` |
| `SqlString` | fragments of SQL and the numbering of parameters | |
| `Lists` | what several parts of the program do with a list of words | |
| `Write` | inserts, updates, tables of values, and the database that reads them | `SqlString`, `Lists` |
| `WriteProofs` | theorems about fragments nested in fragments, and about `Write` | `Write`, `SequenceLemmas` |
| `MCWrite` | an instance for TLC | `Write` |
| `IndexMetadata` | what is generated of an index and what queries make of it | `Lists` |
| `IndexMetadataProofs` | theorems about `IndexMetadata` | `IndexMetadata`, `SequenceLemmas` |
| `MCIndexMetadata` | an instance for TLC | `IndexMetadata` |
| `SequenceLemmas` | induction over numbers as sets, flattening, reversing and walking along sequences | |

A few definitions are wrong variants of the one after them (`RowCellsByRow` of
`RowCells`); each breaks a property, `PROJECT.json` says which under "mutants",
and none is used by a specification.

### Transaction

A `Task` is an asynchronous flow. JavaScript runs the code between two awaits
without interruption, so one action is one such stretch and tasks interleave at
awaits only.

| state | in the code |
|---|---|
| `store[t]` | `managerLocalStorage.getStore()` in the code of `t`; `attempt` tells the store objects of two callbacks apart |
| `flow`, `query`, `joins` | whether `t` runs code, awaits its `transaction()` call or a client of the pool, and for which statement; how many nested calls it is in |
| `stage`, `owner`, `attempt`, `client`, `fate` of a call | where `createTransaction` and the runner stand, the current callback and its manager, what the server did |
| `sideEffects`, `cursor` | the array of `createTransaction`, and the position of its `for` loop |
| `reply` | how the promise of `transaction()` settled |
| `holder`, `failed`, `pending`, `committed` | the server: open transactions per connection, aborted ones, uncommitted and durable writes |
| `log`, `outlived` | history, read by properties only: how each write was issued, and which tasks have a store whose func has settled |

`StartTransaction`, `RunFunc`, `FuncSettles`, `EnterLoop`, `StartEffect`,
`EffectResolves`, `EffectRejects` and `ReturnResult` are the stretches of
`createTransaction` between its awaits; `JoinTransaction` and `LeaveNested` are its
early return for a caller with a store. `RunQuery` is the `query()` of every builder,
`RunRawSql` is `db.sql`, which passes no manager, in a block either. Both go through
`Query`, the `manager ?? pool` of `docs/overview.md:246`: a statement without a manager
asks the pool for a client (`AskPool`), and its task awaits it until the pool has one
free (`PoolServes`) or gives up (`PoolRefuses`). `AddTransactionSideEffect` is the
function of `db-helper.ts`. `Spawn` starts a promise without awaiting it: the new flow
inherits the store. `BeginFails`, `Commit...`, `RollBack` and `QueryFails` belong to the
runner and the server, which are not in the repository: the runner follows the one of
`docs/overview.md` and the one of the tests, and `ResolvesAfter` says after which ends
of an attempt its promise resolves. A configuration without a runner is left out: every
call then throws before anything changes (`run-in-transaction.ts:15-20`). A store always
has a manager, as the runner calls back with a client, so the code's test of
`getStore()?.manager` is that there is a store.

`TransactionContract` is the abstract specification: writes of a call are staged
and become durable together or are forgotten; side effects fire in their order,
after the commit, before the answer. `Transaction` implements it under the mapping
of `Contract` (`stage` to `status`, the pending writes of the client to `staged`,
`cursor` to `fired`) whenever the runner resolves only after a COMMIT that took
effect.

### SchemaSync

One declared table, one table of the database. `ReadTables`, `ReadColumns` and
`ReadCreateStatement` are the three queries of `introspectSchema`, which run
outside of any transaction, so that `Drift` (another actor's statement) may come
between any two (the first two are sent together by one `Promise.all`; the model
answers the list of tables first); `CreateStatementUnread` is the failing query that is logged and
skipped. `Generate` is the rest of `qb generate`: `diffSchemas`,
`generateMigrations`, `extractConstraints` and the file. `Up` and `Down` execute a
migration in one transaction: all of it or nothing. `Do` is one statement, `Course` the
table after each of them, `Execute` the last of these; after a refused statement it is
`Failed` to the end.

The diff and the statements are operators of `SchemaDiff` and `Migrations`, one for
one with the functions of the source: `MissingColumns`, `ModifiedColumns`,
`ExtraIndexes`, `KeyDiffers` and `DiffThrows` for `schema-diff.ts`; `ColumnSteps`,
`KeySteps`, `IndexSteps`, `AlterSteps`, `CreateSteps` for `generate-migrations.ts` in
its order; `Ups`, `Downs` for the formatter; `ColumnConstraints`,
`IndexConstraints` for `extract-constraints.ts`.

### IndexQuery

`params` are the parameters of the builder that will be awaited; `Where`,
`AndWhere`, `Limit`, `ThrowsIfEmpty` and `ExpectOne` are its methods. `Write` is the
text written for one condition, as a record of what the text says, and `Eval` the
truth of that text in the database; `Means` is the reference: what the
operator's name says under three-valued logic. `Reject`, `Refuse` and `Judge` are
the ways an await ends: a condition cannot be written, the statement cannot be
parsed, or rows come back and are checked. `Returned` leaves open which rows a
LIMIT keeps, since a builder may go without `orderBy`.

### Expressions, Conditions

Expressions are immutable and printing has no effect, so an expression is a record:
its `text` as the database reads it (disjuncts of factors, a factor being a test or
what stands in brackets), what its calls mean (`means`, per row, under three-valued
logic), and `agreement`, how far the two go together: the `same`, `collapsed` (FALSE
where the meaning is NULL, as after `not()`, which prints `IS FALSE`), or `lost`.
`AndMethod`, `AndFunction`, `Or`, `Not` and `If` are the calls. `Conditions` lets a
program apply any of them to any expressions it has.

### Narrowing, Select

`params` are the parameters of the builder. `JoinTable`, `SelectItems`, `Where`,
`OrderBy`, `Limit`, `Offset`, `ThrowsIfEmpty`, `AssertLength` and `AddTypeNarrower` are
its methods, each guarded by what the types of the builder allow at that point
(`CanJoin`, `CanSelect`, ... of `QueryBuilderParams.ts`). `Await`, `Query`,
`QueryAndNarrow` and `QueryPages` run it; `NextPage` is one turn of
`paginateQueryResult` (`TakePage` appends its rows to those of the pages before: `again`
keeps the rows the array then has twice) and `Change` another client's write before it.
`Selected` and `Windows` are the statement as the database reads it, `Ends` the checks
of `runQueryResult`: NULL where none may be, an empty answer, the narrower. `Judge` is
`applyTypeNarrowingOnExpression` on the tree of a condition, which is the sequence of
its nodes, each after its parts, so that the walk is a recursive function of the place.

### SqlString, Write

A fragment is the sequence of its tokens and that of its parameters
(`Construct`, `JoinedBy`, `P`), as in `internalSqlConstructor`; `Bound` is what the
server reads once holes and parameters are matched by number. `builder` holds the
parameters of the builder in hand; the calls of the program fill it, `Await` prints
it (`InsertText`, `UpdateText`, `ValuesText`) and sends it. The database's half reads
the text back with no knowledge of the objects, token by token: `Section` listens for a
keyword and keeps what follows it up to the next (`Hear`), `Split` cuts a list at the
commas outside of brackets (`ReadToken`). It pairs names and cells by position
(`Named`), and runs the statement (`InsertRow`, `UpdateOutcomes`) or refuses it. A default
is an expression that each statement evaluates anew, a generated key or the time for
instance: `DefaultsOf` has the values it may come to and `drawn` those it comes to in
the statement at hand. A function of `doUpdateSet` may give any expression over the row
and the excluded one, printed as it is: `Expressions` are their words and `Evaluate`
their values. The properties compare that with what the objects
mean (`InsertIsMeant`, `UpdateIsMeant`), which knows nothing of the text.

### IndexMetadata

`declared` is the index in the program (`Build` makes it of a builder's properties),
`generated` what `generateIndexTypes` has last written, `database` the index the
migrations have last made. `Declare`, `Generate` and `Migrate` change one each, in
any order; `Ask` is a query in between, whose condition and order are limited to what
the generated type admits (`Admits`, `AdmitsOrder`: any columns of the index with the first
among them, in either direction each), `AskByPrimaryKey` one over the
configuration that needs no file. `Answer` and `Refuse` are the database, which holds
a query to the index it names.

## Runs

Twelve runs; ten hold, two show a disagreement.

| run | question | bounds | result |
|---|---|---|---|
| `structured` | atomic blocks, side effects, answers, who holds one client and waits for another, the contract, for an application that awaits what it starts | 3 tasks, 2 calls, 2 clients, 2 writes, 2 side effects, 1 attempt, nesting 1 | holds, 225 thousand states |
| `floating` | what remains when promises outlive their func and the runner retries; which code sees a store that is over | 2 tasks, 2 calls, 2 clients, 1 write, 1 effect, 2 attempts | holds, 484 thousand states |
| `settles` | does `transaction()` answer? | 2 tasks, 2 calls, 1 client, any runner | holds under `FairSpec`, 120 thousand states |
| `documentedRunner` | do side effects follow a commit with the runner of the documentation? | 2 tasks, 1 client | violated |
| `generated` | can migrations be applied and undone, are their constraints true, is one enough, are options respected? | 2 columns, 1 declared index, every pair of declared and present tables over 7 column definitions each, 8 option sets | holds, 210 thousand states |
| `shared` | with another actor and failing reads between the three queries and before up: what survives a migration, and does the cycle come to rest? | 1 foreign statement, 1 failure | holds, `Settles` under `FairSpec`, 63 thousand states |
| `conditions` | are the rows those asked for, is `expectOne` exact? | chains of 3 calls, 2 columns, 2 values and NULL, every operator under 0 to 2 nots, a partial index, limits 0 to 2 | holds, 501 thousand states |
| `expressions` | does every clause select the rows its calls ask for? | 7 tests over 2 columns, one of them nullable, 4 expressions made in any order | holds |
| `fetch` | are a select's answer, refusals and narrowing true, and does pagination end? | up to 4 parts set, 1 join, tables of 0 to 2 rows against 2, pages of 2, 9 conditions | holds, `PaginationSettles` under `FairSpec`, 341 thousand states |
| `write` | does the database make of a statement what its objects mean, and what does a second await do? | batches of 0 to 2 of 6 objects, 2 defaults of 2 values each, 5 lists of fields, 9 assignments on conflict by constants and 4 expressions, 4 conditions, tables of 0 to 2 rows, 2 awaits | holds, 377 thousand states |
| `metadata` | what do queries answer while program, file and database differ in age? | 6 declarations, 3 columns, 2 values, every condition, orders of up to 3 columns in both directions | holds, 116 thousand states |
| `notIn` | is a condition under `not` negated? | one condition | violated |

Why the bounds are enough. Two calls and two clients give a client reused by another
call, a call waiting for a client, and a leftover promise that meets a later transaction
on its old client; a third task gives a caller outside both. Two attempts give a store
of an attempt that is over while its call goes on. One write per block and one outside
distinguish every fate of a write, and atomicity is stated write by write. Two side
effects give an order and one that is skipped after a rejection. For tables, two columns
give a column in and outside of the key and of the index; the definitions cover every
pair of type families, nullability, defaults and computed expressions that the diff
treats differently, and a foreign statement at each point between two reads is enough to
make a snapshot of two times. For index queries each operator acts on one column at a
time and columns are joined by AND, so two columns, two values and NULL show each truth
value; two nots show parity; three calls give `where` twice with another call between.
The bounds in guards are `MaxAttempts`, `MaxNesting`, `MaxForeign`, `MaxUnread`,
`MaxCalls`, `MaxExprs`, `MaxParts`, `MaxKeys` and `MaxSends`. Four expressions are
enough for an AND over an OR and for a `not()` over a `not()`, and what they show for
four is proved for any number. In a select every clause acts on the rows by itself and
four parts let any four meet; tables of two rows give a full page of two, and a write
between the pages gives one that is not full. An insert of two objects shows a column
that one of them lacks and that both lack, two rows of one key, and a row that conflicts
beside one that does not; two awaits give a retry with nothing in between, and a default
of two values one that comes to the same again and one that does not. For an index three
columns tell the first, a later one and one outside, and let an order skip one in the
middle; two values tell a row that the predicate has from one it has not. Symmetry is
used in safety runs only, over constants that are used symmetrically.

`Idle`, `Rest` and `Done` stutter where the application has nothing left to do, so
deadlock is checked in every run but `write`, whose program stops when it has sent
`MaxSends` statements.

### Exceptions that passing properties name

A property that holds with exceptions lists them as definitions, and each is a
behaviour of the code:

* `UpApplies`: an index dropped after its column, which is gone with
  it (`generate-migrations.ts:475`), a key column
  dropped or made nullable before the key is changed, a type changed to an array,
  keys and indexes over columns the options keep out of the migration;
* `DownUndoes`: `Irreversible` downs (a primary key that was not read, an
  index recreated without quotes around a mixed-case column, an index recreated before
  the dropped column it is on, a type changed back to an array); a column dropped and
  added again in one migration; defaults, computed
  expressions and dropped indexes are outside of `Outline`, because down does
  not restore them;
* `ConstraintsHold`: a column whose type changes may be described as NOT NULL while
  it is nullable, because the constraint takes its nullability from the
  change;
* `OneMigrationIsEnough`: not for tables with computed columns, whose expression is
  compared with the database's rendering of it, nor where indexes are not read: with
  `indexes: 'ignore'` the key is taken to be empty and every run writes an
  `ALTER PRIMARY KEY` (`schema-diff.ts:708`);
  the index the database keeps of a replaced key is dropped by a second migration;
* `OptionsHold`: an index that is to be kept goes with a column that is dropped; and
  it says nothing of `ignoreColumns`, because a column of the database that matches
  one and is not declared is dropped (`schema-diff.ts:615-644`), against
  `docs/schema-management.md:114`;
* `BlockIsAtomic` and `NoHoldAndWait` are about builders and nested calls: `db.sql`
  passes no manager (`db-helper.ts:264`), against `docs/overview.md:285`. Its query is not
  part of the block, and in a block it waits for a second client of the pool while its
  task holds the first, so that as many blocks as the pool has clients may wait for each
  other until the pool gives up;
* `StoresAreLive`: promises that func left running when it settled, and what they start,
  see a store that is over (`outlived`), and a `transaction()` they call joins it;
* `UnseenStays`: an index goes with a column it is on when that column is dropped;
* `AnswersWhatWasAsked`: a second `where` or `andWhere` replaces the first
  (`Forgets`); `not(between)`, `not(in)` (`LosesNot`) and comparisons with a missing
  bound, which become IS NULL (`LosesBound`);
* `ExpectOneIsExact`: a limit of 1 hides further rows, a limit of 0 all;
* `SelectsWhatIsAsked`: the function `and()` writes its arguments without brackets, so
  an OR inside of it is torn apart; a `not()` over an expression with a `not()` in it
  takes the rows where that is NULL (both `agreement = "lost"`);
* `EmptyIsRefused`: `query()` and `queryAndNarrow()` do not know of the builder's
  `throwsIfEmpty()`, though the type of `query()` (`QueryBuilder.ts:293`) says so;
* `NarrowedIsTrue`: comparisons, IF and columns selected apart from their entity
  (`IsJudgeable`): a comparison is judged on its left operand twice. An object that
  is absent makes the narrower throw; an await drops its verdict;
* `NullsAreExpected`: a right join makes no column nullable, and its result is
  rejected;
* `AnswersWhatWasAsked` of `fetch`: a paginated query repeats its first page until one
  is not full, so with an offset it may miss rows, and after a full first page it has rows
  twice (`again`); `PaginationSettles` holds only once fewer rows match than a page holds;
* `WritesWhatWasMeant`: fields that the objects of an update lack (`setFields` called
  again after `values`) become NULL; of several objects that match a row, any one is
  written; a `doUpdateSet` that gives the key itself a constant moves the row away from
  its object (`MovesKeys`);
* `RefusedForCause`: computed columns may be assigned to by `setFields` and
  `doUpdateSet`, an update of no rows is sent, a conflict may move a row onto
  another's key, or give NULL to a column that takes none (`IsRefusable`);
* `RetryIsHarmless` (`IsSettled`): an update where two objects match one row; an insert
  that leaves the key to a default evaluated anew, such as a generated key, which inserts
  its rows again; a conflict that assigns a constant, or an expression other than the
  excluded row's value of the same column (a toggle, a sum, a swap of two columns); a
  conflict that assigns a column an object leaves to a default evaluated anew
  (`InsertBuilder.ts:591-605`, `:370`);
* `UpToDateIsServed` and `OrderIsOfTheIndex`: indexes of columns only, none of them
  called like a word of SQL (`IsOfColumns`). In an expression every word but SQL's own
  is taken for a column, a function's name too, and the default select of such an index
  throws; a program that overrides the minimum of a query with other columns than
  the first need not fix the first (`KeepsFirst`). `OrderIsOfTheIndex` is about columns
  that some arrangement can read off the index: an order that leaves out a column before
  another, or whose directions are neither the index's nor the opposite ones, is let
  through by the type (`index-query-builder.ts:707`) and sorted by the database;
* `DatabaseDriftIsLoud`: a generated file of an older declaration filters by its own
  predicate, and nothing says so.

### Findings

Two disagreements have a run: side effects after ROLLBACK with the documented runner
(`documentedRunner`), and negated `in` and `between` (`notIn`). The others are the
exceptions above that quote a document, a type or a comment: ignored columns that are
dropped, an index dropped after its column, a key changed for a table that is in step,
`db.sql` outside the transaction of its block (`docs/overview.md:285`), a nested call of
leftover code, which joins a transaction that is over (`docs/overview.md:286`), and
`throwsIfEmpty()` of a builder that is run by `query()`. Two more are outside of the
model's inputs, because the types of the repository already reject them: a numeric key of
`orderBy` beyond the minimum throws, though the comment at `index-query-builder.ts:702`
shows `{ 1: 'asc', 2: 'desc' }`; and an explicit `null` in `insert().values()`.

## Fairness

`Transaction!FairSpec` is weakly fair to the runner and to the side effect loop of
each call: server and driver answer, side effects settle, and the event loop runs
what is ready. Nothing is assumed of the application's func, so `CallSettles`
starts where func has settled. `SchemaSync!FairSpec` is weakly fair to the
developer's tool as a whole: someone goes on running `qb generate` and the
migrations. Reverting, foreign statements and failing reads are nobody's
duty and are not fair; they are finite by their bounds, which is what `Settles`
needs ("once the table is left alone"). `Select!FairSpec` is weakly fair to `NextPage`:
the database answers each page and the loop of `paginateQueryResult` goes on; other
clients are not fair, and `PaginationSettles` supposes what the answer depends on,
that fewer rows match than a page holds from some time on. `Settles` has two premises, that
refused or reverted migrations stop and that indexes are read and no column is
computed; without them the tool keeps writing the same migration.

## Proofs

`TransactionProofs` proves, for any numbers of tasks, calls, clients, writes,
side effects, attempts and nested calls, from `ConstantsAssumption` alone:

* `TypeCorrect`: `Spec => []TypeOK`, together with `Links`. Type correctness is not
  inductive: COMMIT publishes what is pending on the client of the call, and the
  client exists only because calls, owners, stores and clients are linked one to
  one.
* `Invariant`: `Spec => []IInv`. `IInv` adds to `TypeOK` and `Links` that a store names
  an attempt the runner has begun and its client (`StoreLink`) and whose is over
  (`OutlivedLink`), who asks the pool (`WaitLink`), where each write is at each stage
  (`WriteLink`), and that a builder's query of a running block went to the transaction
  of the block (`QueryLink`).
* `BlocksAreAtomic`: from `QueryLink` and `WriteLink`.
* `OnlyRawSqlHoldsAndWaits`: `NoHoldAndWait`, from `Links` and `WaitLink`; a task that
  waits for a client owns one call, and a builder that asks the pool sees no store.
* `EffectsOnlyAfterCommit`, for `ResolvesAfter = {"commit"}`: `EffectLink` is
  inductive relative to `IInv`. The run `documentedRunner` shows that the
  assumption is needed.
* `StoresAreLiveOrOutlived`: `StoresAreLive`, for every application, from `OutlivedLink`:
  a store is over exactly where func left its code running, and stays so through later
  attempts of the same call.
* `AnswersAreTrue`, for `ResolvesAfter = {"commit"}` and `Structured`: a resolved call
  has committed and run its side effects (`ReplyLink`).
* `ContractIsImplemented`, for `ResolvesAfter = {"commit"}`: every step of
  `Transaction` is a step of `TransactionContract` or none of its concern, under the
  mapping `Contract`. One lemma per kind of step: the end of an attempt publishes or
  forgets what is staged (`EndImplements`), a statement is staged or durable at once
  (`ExecuteImplements`), a side effect is added to the list of a call that has begun
  (`AddingAdds`) and started in its order (`StartEffectFires`), a call settles with
  nothing staged (`SettlingAnswers`), and a runner's new attempt starts on an empty
  client (`RunFuncStutters`). It rests on `IInv` and on `UnusedLink`, that a call not
  begun has no attempt.

`SchemaSyncProofs` proves, for any columns and indexes (finitely many, in any number),
any declared tables and options, any table in the database, any statements of other
actors and any number of them, from `CatalogAssumption`, `SentinelAssumption` and
`SyncAssumption` (declared tables are ones the builders and the database take:
`IsDeclarable`):

* `SchemaSyncInvariant`: `Spec => []IInv`. Neither the table nor the promises of a
  migration are inductive. `IInv` adds that the database's table and the one the
  migration was generated for are sound; `MigrationFits`, that the file at hand is the
  migration of the snapshot and the declaration; `SnapshotFits`, how much of the
  table each of the three reads has told, while nobody else changed it; and `TableFits`,
  that the table is then what the migration has made of it. Soundness is the long
  part: each kind of statement keeps it (`AfterIsSound`), thus a migration does
  (`ExecuteKeeps`), and every migration the generator writes consists of proper
  statements (`StepsAreSteps`, `WrittenIsProper`).
* `ConstraintsHoldAlways` and `OptionsHoldAlways`, from `AlterSays`: which statements
  are in a migration, and which difference each of them comes from.
* `UpAppliesAlways`. Each block of statements (drop columns, add, change, change the
  key, drop and make indexes) takes every table of one `Stage` to a table of the
  next, or to `Failed` where one of the four named cases applies (`OrFailed`):
  `DropBlockUp`, `AddBlockUp`, `ModifyBlockUp`, `KeyUp`, `IndexesUp`. Within a block the
  steps come in whatever order the objects' keys have: `InOrderExecutes` carries a
  family of tables, indexed by the set of columns already dealt with, along any order.
* `OneMigrationIsEnoughAlways`: the table a migration leaves agrees with the declared
  one (`AlteredAgrees`, `CreatedAgrees`), and the diff of such a table has nothing
  but the index the database made of the old key (`LittleIsLeft`).
* `DownUndoesAlways`: the same stages walked back, block by block (`IndexesDown`,
  `ModifyBlockDown`, `AddBlockDown`, `DropBlockDown`, `KeyDown`); a statement no table
  of its stage accepts refuses the whole (`ExecuteRefuses`), and there is one only in the
  cases of `Irreversible`; what is left has the outline of what was there
  (`BackInOutline`).

`SelectProofs` proves, for any tables, conditions and selections, and any sequence of
the builder's methods, from `ExpressionAssumption`, `NarrowingAssumption`,
`SelectAssumption` and `RankAssumption`:

* `SelectInvariant`: `Spec => []IInv`. `IInv` adds to the types what the select list
  is as long as nobody gave another (`ListFits`), that the narrowers are those asked for,
  and that a call that has ended came to its end over rows its statement may have
  returned last (`CameTo`): the rows of an answer alone do not tell which window of the
  table they came from, nor that the last page was not a full one.
* `EmptyAnswersAreRefused`, `NullsOfJoinsAreExpected`, `AnswersAreAskedFor`, from the
  sizes of windows (`WindowSize`, `FirstRows`).
* `NarrowedRowsAreTrue`: where the narrower passes, the condition is true
  (`PassIsTrue`), by induction along the nodes of its tree (`ForestInduction`).

`IndexQueryProofs` proves, for every table, every set of conditions, any depth of
`not` and any chain of calls, from `QueryAssumption`:

* `WriteMeans`: what is written for an operator is true of a value exactly when the
  operator is, NULL included; one lemma per operator, the negation by the parity
  of the nots.
* `AnswersAreAsked` and `ExpectOneHolds`. The invariant `IInv` links the
  parameters to the history of calls (`ParamsLink`) and the answer to the checks
  it has passed (`AnswerLink`); `SelectedIsAsked` lifts `WriteMeans` from one
  value to the rows of a table.
* `TypeCorrect`.

`ConditionsProofs` proves, for every set of tests, rows and values and expressions of
any depth, from `ExpressionAssumption` and `ConditionAssumption`:

* `AgreementInvariant`: `Spec => []IInv`. What an expression is good for is known row
  by row and is passed on by each call; there is one lemma per call (`AndMethodFits`,
  `AndFunctionFits`, `OrFits`, `NotFits`, `IfFits`, `TestFits`), over lemmas on texts:
  what becomes of the truth of two texts side by side (`BesideText`) or joined
  by OR (`OrText`), for any number of disjuncts.
* `ConditionsSelect`: `SelectsWhatIsAsked`, because an expression that is the same or
  collapsed is true of the same rows.

`WriteProofs` proves, for templates of any length over fragments of any length:

* `ConstructBinds`: in what a template makes of balanced fragments there is one
  parameter per hole, and what the server reads of it, after the holes are numbered, is
  the pieces of text with what it reads of each value in between. So a value nested
  however deep reaches its place. The holes of a text before another are
  counted first (`HolesBeside`), so the parameters of two fragments side by side do not
  mix (`BoundBeside`).
* `ParameterBinds`: a bound value is such a fragment.

and, for every table of columns, arrays, defaults and computed columns, batches, sets and
conditions of any size, any initial rows and any number of awaits, from `WriteAssumption`:

* `WriteInvariant`: `Spec => []IInv`. That a refusal has its cause is not inductive: it
  depends on the text that was sent. `IInv` adds that the rows are a table, that the
  builder holds what its calls may give it (`IsBuilder`), that the text which is
  out is the one it prints and nothing in it throws (`SentIsPrinted`), that its defaults
  come to what they may (`DrawnFits`), and that running the builder that ran last would
  change nothing (`IsDone`).
* `RefusalsHaveCause`, `WritesAreMeant` and `RetriesAreHarmless`, along one argument.
  The printed text is known token by token (`InsertPrinted`, `UpdatePrinted`,
  `ValuesPrinted`, over `ConstructBinds`). A text read after another goes on from where
  the other left it, so each keyword hears its own clause, and a list splits into the
  items it was joined of, because each item closes the brackets it opens
  (`SplitList`); what is read of a cell is the value it was printed from (`ValueItem`, `CellItem`).
  So the tuples, the names and the assignments are those of the builder (`InsertRead`,
  `UpdateRead`, `ValuesRead`). An insert is then followed tuple by tuple: after `i` of
  them the rows are `Expected` of the keys seen so far (`InsertedAll`), which in the end
  is what the objects mean (`InsertMeant`). An update is a choice of a way for each row
  (`PickedMeant`). Either keeps keys apart and leaves no NULL where none may be, so the
  database takes it (`ExpectedAccepted`, `PickedAccepted`): the other way round, what it
  does not take has a cause in the objects (`RefuseCause`). And what a statement leaves, it
  leaves again (`InsertSettled`, `UpdateSettled`), also when the defaults are drawn anew for
  the second await: where `IsSettled` holds the keys are the same and so is what a conflict
  assigns (`Redrawn`). Of `Evaluate` nothing is assumed.

`IndexMetadataProofs` proves, for every table, every set of declarations and every order
of edits, builds and migrations, from `MetadataAssumption` (no index is called
`primaryKey`):

* `DriftIsLoud`, from `StatementLink`: a query under way over an index carries the
  predicate of the file and columns the file's type admits, and the file is not written
  until it is over. That the database lets it through says nothing of the rows; the
  predicate does.
* `OrdersAreOfTheIndex` and `UpToDateIndexServes`, from the same and from what the
  generator's loops return: the keys of a Map in the order of their first insertion
  (`DistinctKeys`), and the words it keeps (`AmongWords`). Of an index of columns that is
  the list of its columns, each at its first place (`IndexedIsFirstWords`, `Places`). The
  columns of an order that can be read off the index have all of the index's before them,
  but for the fixed ones, so any arrangement that goes through the index is the one sent.

`SequenceLemmas` holds what these share. The library's induction theorems take an
operator for the statement to prove, which the installed provers cannot instantiate;
here the statement is a set of numbers (`NatSetInduction`, `UpTo`), so an
induction is a fact about a set: that 0 is in it and each number takes the next along. A
walk along a sequence is then known by its defining equation (`WalkExists`,
`Flattening`), and `FlattenSeq`, `Reverse` and `ToSet` of joined sequences follow.

The runs check the same properties on instances; `floating`, `expressions`, `generated`,
`shared`, `fetch` and `write` check the invariants of the proofs themselves (`IInv`) too.

Only model-checked: liveness (`CallSettles`, `Settles`, `PaginationSettles`), which is
out of the prover's reach, and `UnseenStays`.

## Assumptions of the models

* The runner opens a transaction on a connection of its own for each callback and
  sends COMMIT or ROLLBACK when the callback settles, as in `docs/overview.md` and
  the tests. A runner without such a connection is outside of the model.
* `config.query` is that of `docs/overview.md:246-249`: a statement without a manager
  runs on a client of the pool that holds no transaction, when there is one.
* A statement that fails aborts its transaction; COMMIT of an aborted transaction
  answers without an error and commits nothing.
* DDL has the effects CockroachDB gives it: DROP COLUMN CASCADE takes indexes
  along, a replaced primary key lives on as an index, expressions are shown in the
  database's own rendering (`Rendered`), a computed column of CREATE TABLE is
  nullable and has no default. A migration runs in one transaction. Rows are not
  modelled, so a statement is never refused because of data.
* The developer applies a written migration before generating the next one.
* A declared table has a primary key of its columns, none of them nullable, indexes of
  its own columns, and none named like the index the database makes of a replaced key;
  a column has a default or is computed, not both (`IsDeclarable`).
* No index is called `primaryKey`, which is the name of the configuration that needs no
  file (`MetadataAssumption`).
* The parsing of `SHOW CREATE TABLE` output is taken to be right for what the
  database prints.
* An `andWhere` expression and a predicate are the set of rows they are true of.
* A statement runs at once: other clients change the table between the pages of a
  select, and between an await and the answer nothing else is written in `Write`.
* Column types in `Write` are sets of scalars (`Fitting`); a database has the defaults
  and NOT NULL constraints that are declared, and no others.
* In the texts of `Write`, values and names are told apart from the words of a statement,
  as quotes tell them in a real one (`Plain`), and an expression of `doUpdateSet` is one
  word of its own (`Expressions`); the columns of a `doUpdateSet` are the keys
  of one object, so none comes twice (`IsSet`).
* A query that names an index with a predicate may be refused unless it repeats the
  predicate word for word, and is answered only if it implies it.

## Not modelled, and why

Naming migrations and writing files is input and output. Type-level helpers are
erased before the program runs; what the types let a caller do is in the guards of
`Select`, `Write` and `IndexMetadata`. The entity registry is one `Map`. The builder
of `sql-query-builder/SqlQueryBuilder.ts` is constructed nowhere. In the parts that
are modelled, left out are:

* migrations: operator classes, index modifications under `allowModifications`,
  groups of several `ALTER TABLE` actions;
* expressions: casts, dates, `contains`, JSON paths, aggregates, comparisons and NULL
  tests whose operands are conditions;
* selects: GROUP BY, `forUpdate`, `skipLocked`, subqueries as tables, more than one
  join, index hints, the same entity named twice in a select list;
* writes: RETURNING and the transformation of its rows, casts, aliases, query names,
  an explicit `null`;
* index queries: a select of one's own, operations per column and `requiredColumns`
  (written into the metadata and enforced by nothing), an error thrown by the
  caller's own `then` callback.
