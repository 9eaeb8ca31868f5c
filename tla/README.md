# db-agent: specifications, model checks and proofs

db-agent connects to a relational database (PostgreSQL or SQL Server), discovers
what is in it and what it means, stores that as a *knowledge map* in a metadata
database of its own, and answers questions in natural language by generating,
validating and executing SQL. This directory holds TLA+ models of its two
pipelines and of what they compute, the TLC runs that check them on small instances,
and TLAPS proofs of their main safety properties for every instance. Line numbers below refer to
files under `src/`.

## 1. The system

### Parts, state, operations

| Part | State it keeps | Operations that change it | Model |
|---|---|---|---|
| Discovery pipeline (`app/pipelines/database_discovery_pipeline.py`) | per run: list of steps with a status each, `run_globals`, one metadata session; rows of `database_discovery_runs` | `run`, `_persist_run`, `_mark_step_*`, `get_status` | `Discovery` |
| Agent facade (`app/agents/database_agent.py`) | none (holds the services); starts background tasks | connect, delete, start discovery, ask, explain | `Discovery`, `QueryPipeline` |
| Context repository and service (`app/repositories/context_repository.py`, `app/services/database_context_service.py`) | context versions, tables, columns, relationships, ... of a connection | `save_context_full`; multi-SELECT `get_knowledge_map` | `Discovery` (write), `QueryPipeline` (read), `PublishedMaps`, `StoredMap` (what readers may rely on), `KnowledgeMap` (what is in a map) |
| Connection registry (`app/repositories/database_repository.py`, `app/services/database_connection_service.py`) | `database_connections` rows with a status | create with tested status, update status, delete (cascades) | `Discovery` |
| Query pipeline (`app/pipelines/query_pipeline.py`) | locals of a request: map, retrieved tables, attempt, retries, last statement, last validated statement, connection configuration | `run`, `explain` | `QueryPipeline` |
| SQL generation, validation, execution, result (`app/services/sql_*_service.py`, `app/services/query_result_service.py`, `app/security/*`) | an engine and a session on the target per attempt | generate (appends LIMIT), validate, execute (guards, limit, truncation), process rows | `QueryPipeline` |
| Schema retrieval (`app/services/schema_retrieval_service.py`) | none | scores documents of the map, collects what belongs to the best | `KnowledgeMap`; a choice in `QueryPipeline` |
| Intent, semantic plan, answer services | none | rules and prompts | a choice in `QueryPipeline` |
| Relationship graph (`app/services/relationship_graph_service.py`) | none | `build_graph`; `find_join_path` and `expand_related_tables` have no live caller: retrieval is built without the service and `get_knowledge_map` returns an empty graph (`context_repository.py:559`) | `KnowledgeMap` (`build_graph`) |
| LLM client (`app/llm/client.py`) | cache of models | structured call with two nested retry loops, plain call | `LLMCalls`; one call that returns or fails in `QueryPipeline` |
| Metadata sessions (`app/database/session.py`) | engine, pool of 10+20 connections, 30 s timeout | init, dispose, checkout | `MetadataLocks`; elsewhere a full pool is the failure of a call |
| Lifespan (`app/main.py`) | the two above | startup, shutdown | crash/shutdown in `Discovery` |
| Discovery services (`database_discovery_service.py`, `database_sampling_service.py`, `column_profiling_service.py`) | the metadata, samples and profiles of a run; an engine on the target | read the target, statement by statement | `Introspection`; success or failure of a step in `Discovery` |
| Semantic services (`business_*_service.py`, `dimension_service.py`, `date_semantic_service.py`, `terminology_service.py`, `database_semantic_analyzer.py`) | the layers of a run, in `run_globals` | each derives its layer from the tables and the layers below | `BusinessLayers`, `SemanticLayers` |
| Semantic and embedding repositories | tables | no caller reaches them: no service is given a `semantic_repository`, and EmbeddingGeneration is skipped because the map has no id yet (`database_discovery_pipeline.py:694`) | not modelled |
| Target adapters and inspectors (`app/database/adapters/*`, `app/database/inspectors/schema_inspector.py`) | an engine each | catalogue queries, one connection per query | `Introspection` |
| HTTP API, UI, core, models | none | each endpoint is one agent operation | through the agent operations |

`PROJECT.json` lists every part with its sources and what is left out of it.

### How they interact

* `POST /database/discover` reads the connection row, writes a first run row in a
  session of its own, calls `asyncio.create_task` and answers. Nobody awaits the
  task, nothing resumes it after a restart, and nothing stops a second one on the
  same connection.
* A run holds **one session** for its whole life. After each step `_persist_run`
  adds one more row to `database_discovery_runs` (not an update), updates the
  connection's status, re-creates the connection row as a placeholder if it is
  gone, and commits. All failures of that are logged and swallowed, with a
  rollback.
* `ContextPersistence`, the last step, flushes the map in the same session; it
  becomes visible with the commit of the row that follows, or is rolled back with
  it.
* Before that, `SchemaDiscovery` reads the target through an adapter: schemas, tables,
  and seven calls per table, each on a connection of its own; an error skips the table
  or the schema. Two more steps sample and profile the tables over a second engine.
  The ten steps after them make no statement to the target: each takes the layers of
  the steps before from `run_globals` and adds its own, matched by keywords and not by
  identity.
* `get_status` reads the newest run row and whether any map is stored.
* Discoveries, deletes and questions share one pool of 30 connections, and the locks of
  their transactions. `VectorIndexCreation` goes past the run's session: it takes a
  connection of its own and locks nine tables against writers in one transaction.
* A question reads the map in a series of SELECTs (isolation READ COMMITTED),
  then loops over SQL attempts; each opens and disposes of an engine on the
  target. It shares nothing with discoveries but the metadata database.

### What is hard, and what makes each part correct

`PROJECT.json` lists every hazard at its line with the properties that would
catch it. In short:

* *Discovery*: overlapping runs of one connection, deletes between two commits of
  a run, a save rejected half-way in a session that is used again, commits that
  fail, death of the process. Correct means: a reader sees a whole map or none, a
  stored map is never damaged, rows never outlive their connection, statuses say
  what happened, every run ends and lets its locks go.
* *Questions*: a map that changes between two SELECTs, five stages of an attempt
  each of which may fail with state left over from the attempt before, three
  places that cap rows. Correct means: only names of the map, and those that the
  validator exempts, reach the target, attempts are counted right, missing rows are flagged, engines are given back,
  every request is answered.
* *LLM calls*: three loops around each other (SQL attempts, rounds of a structured
  call, tries of a round), each with its own list of errors. Correct means: their
  product bounds the requests of a question, an outage does not multiply, and a
  retry has what it needs to correct the attempt before it.
* *Reading the target*: it is read while it is in use and may go out of reach; errors
  are swallowed table by table. Correct means: a table is whole or absent, one
  table's error costs no other, relationships lead to keys that exist, and
  the two engines are closed on every way out.
* *Layers*: eight services refer to each other's results by code, table and column.
  Correct means: every reference resolves, whatever the LLM answers and in whatever
  order sets are walked; no layer changes once it was used; every code can be asked
  for by name.
* *The map*: it is built, written as rows, read back and cut down for a question, each
  by code of its own. Correct means: a query sees what discovery found, and a question
  gets all tables, and the relationships between them, of what it matched.

* *The metadata database*: transactions of different kinds take the same locks, each in
  the order of its own statements, from a pool that questions keep across their LLM
  calls. Correct means: discoveries do not deadlock with each other, a map is not lost
  to somebody else's delete, and nobody who has a connection waits for a second one, so
  that a full pool makes calls fail after 30 s and cannot block the agent.

## 2. Modules

### `PublishedMaps`: what the metadata database promises

One variable, `owner[c][t]`: the run whose map holds table `t` of connection `c`.
A run publishes its whole map in one step, never over a table that is there, and a
catalogue is only emptied as a whole. `Discovery` is shown to implement it
(`PublishedAtomically`), with `owner` mapped to itself and all else hidden.

### `StoredMap`: what a question sees of one connection

Three variables, `alive`, `mapped` and `stored`, and three moves: a discovery publishes
new tables, the connection's row appears, the connection is dropped with its map.
It is the interface at which the two pipelines meet: `Discovery` is shown to implement
it for each connection (`ReadersView`), `QueryPipeline` instantiates it and runs its
requests against every order of its moves.

### `Discovery`: the discovery pipeline and the metadata database

| Model | Code |
|---|---|
| `kind`, `status` | row of `database_connections`: absent, saved by connect, or the placeholder of `_persist_run` (286); its status column |
| `header`, `owner` | the context-version row (there is never more than one per connection: `save_context_full` reuses the latest), and its tables |
| `log` | rows of `database_discovery_runs`, each reduced to steps done, step in error, `started_at` |
| `pc` | where a run stands: `prep` (first row of `start_discovery`), `queued` (task created), `body` (a step's body), `write` (between the SELECT and the flushes of `save_context_full`), `persist` (row and commit after a step), `final`, `failing` (exception handler), then `returned`, `raised` or `lost` |
| `sess` | FALSE: a flush failed and the session refuses everything until rollback |
| `held` | the map is flushed and not committed: row locks are held |
| `saw` | the version `save_context_full` found |
| `Connect`, `ConnectAndDiscover`, `Delete`, `StartDiscovery` | agent operations behind the endpoints |
| `PrepareRun` .. `FailRun` | from one commit, or one await that lets others in, to the next |
| `Crash` | shutdown or death of the process: every run at work is lost, open transactions are rolled back |

A step's result is abstracted to the set of tables its map will hold. A row's
status column is computed from it (`RowStatus`), as `_steps_to_context_status`
does; no row is ever written while a step is marked running, so the intermediate
statuses never show. Uncommitted context rows make a delete and a second save of
that connection wait (`Unlocked`), as the unique index and the foreign key do in
PostgreSQL. `refresh_context` is not an action: its second definition in the
agent replaces the first and needs another argument, so the endpoint raises
TypeError before it has any effect.

### `QueryPipeline`: questions

`stage[q]` is the call request `q` is in; between two stages other requests and the
metadata database may move: `PublishMap`, `RestoreConnection` and `DropConnection` are
the moves of `StoredMap`. `FindVersion`, `ReadVersion`, `ReadTables` and `ReadJoins` are
the SELECTs of the map. The statement the LLM writes is any set of tables, one of
four forms (`plain`, `nested`: the word LIMIT is in the text but not on the outer
select, `grouped`, `union`) and a LIMIT or none; the target answers any number of
matching rows. `Fetched` computes what the executor keeps and flags, `Processed`
what the result service leaves of it.

A table has a name and a schema (`NameOf`, `SchemaOf`), because validation looks at
them separately: a qualified name passes when its bare name is that of an allowed
table and its schema that of a possibly different one. Some names need not be allowed
(`Exempt`): those in a system schema (`SystemSchemas`), those with a system table's
prefix (`SystemNames`), and the names of the statement's own common table expressions
(`ctes`), which are compared with the bare name, so that a table with its schema in
front passes under them. `NamesCovered` states exactly what this ensures, and not that
every table of an accepted statement is a table of the map: with `a.x` and `b.y`
retrieved, `b.x` passes; nor that no system catalogue is among them, as the documents say
(section 4). A reference without a
schema has none to check: the target looks for it in `SearchPath`. `Public` is the schema
that is allowed when nothing was retrieved.

Rows that cannot be converted are skipped by the executor; the model has no such rows.
The intent falls back to rules when its LLM call fails; a blank question fails.

### `LLMCalls`: the requests behind one question

`caller` is what a request is for: the intent, the SQL of an attempt, the wording of
the answer; `sqlAttempt`, `round` and `tries` are the three loop counters (the SQL
attempts of `query_pipeline.py:325`, `attempt` of `async_generate_structured`, the
tries of tenacity). The actions are what one request may come to: `Answered`,
`TransientError` (the only one tenacity repeats), `InvalidOutput` (the only one that
starts a new round), `OtherError`, and `NoModel` (no model can be made, so that no
request is sent). With `reraise=True` exhausted tries surface as the transient error
itself, which ends the call: the branch of the code for `RetryError` is never taken,
and that is what keeps an outage from multiplying. `FinishAttempt` stands for
validation and execution, which `QueryPipeline` has in detail.

`wrote` and `corrected` say of the attempt before this one whether it had a
statement and whether the record a retry reads carries it.

### `MetadataLocks`: who waits for whom

| Model | Code |
|---|---|
| `job` | the transaction at hand: a run's rows before the indexes (`persist`), `index`, the map and its row (`save`), the last row (`final`), the row of the exception handler (`handler`); a `delete`; a `question` |
| `conns` | connections of the pool, by who asked for them: the session or, for `index`, the engine |
| `todo`, `wants`, `got` | locks the transaction has yet to ask for, waits for, has |
| `stored` | whether the connection's row, and a map of it, are there: what a request is refused for |
| `Transactions`, `Before` | what each transaction locks, and in which order the code asks |
| `Begin`, `GiveUp` | the first statement takes a connection from the pool, or the timeout expires |
| `Take`, `Reject`, `Victim` | a lock is granted; its row is gone or there already; the deadlock check ends a transaction |
| `Commit`, `Fail`, `Raise` | the ways a transaction, or a step, ends |

A lock is on a table as a whole (`On`: CREATE INDEX takes `share`, a write `row
exclusive`) or on the rows of a connection (`Row`). Locks that conflict with none that
anyone here takes, such as those of SELECTs and on a run's own rows, are left out. The
order of a session is that of its flushes: version, table by table, then all layers in
an order of SQLAlchemy's (any, in the model), the status of the connection last. An
update that changes nothing is not sent: hence the several sets in `RunRow` and
`VersionLocks`. The part of PostgreSQL (`Conflict`, `Cycles`, `Refused`, `Victim`) is
modelled as external.

`DeleteOrder` goes from columns to tables and `IndexOrder` from tables to columns, so
that an index creation and a delete of *any* connection can deadlock, which costs the
indexes or fails the delete. `NoDeadlockWithoutDelete` and `SavesLostToDeletes` say that
nothing worse happens.

### `Introspection`: reading the target

| Model | Code |
|---|---|
| `step` | the step of the run (`_run_step_body`), or how the run ended |
| `schemas`, `todo`, `call`, `read` | the loops of `SchemaInspector.build_database_metadata` and of sampling and profiling: what is left, the call to make for the first table, what its calls returned so far |
| `tables`, `columnsOf`, `foreign`, `rels` | the `DatabaseMetadata` that is built: tables, their columns as read, `fk_target_table` and `fk_target_column`, relationships |
| `pools` | the adapter's engine and the engine of the later steps |
| `up`, `exists`, `outages` | the target: in reach or not, tables that are still there |
| `OpenAdapter` .. `EndSchema` | SchemaDiscovery, one action per call to the adapter |
| `OpenTarget`, `SampleTable`, `ProfileTable`, ... | SampleDiscovery and ColumnProfiling, table by table |

`Outage`, `Recovery` and `DropTable` are the environment and may come between any two
calls. `Raises` says which call fails: on PostgreSQL those that cast the name of a
table to `regclass` once the table is gone (`LostTable`); on SQL Server the statement
for the columns, always (`UnknownName`). Materialized views (`MatViews`) are listed after
the tables of their schema, have no rows in `information_schema.columns` (`Cols`) and
make no call raise: they are kept without a column.

`JoinRows` is the foreign-key query as it is written: `key_column_usage` (`KeyUsage`) and
`constraint_column_usage` (`ColumnUsage`) are joined by the name of the constraint and
its schema, not by its table. So the columns of a composite key come back paired with
*each* referred column, in an order that is open within a position (`RowOrders`), the
last pair winning per column (`Target`); constraints of one name on two tables get each
other's columns; and the schema in the second view being that of the table referred to, a
key to another schema has no rows. `KeyEntry` is the merge by name, where the first row
says which table is referred to. `table_constraints` shows constraints of tables that the role
may write to (`Writable`), `constraint_column_usage` those on tables it owns (`Owned`).

### `BusinessLayers`, `SemanticLayers`: what discovery derives

`BusinessLayers` has domains, entities, concepts and metrics as operators, one per
service; `SemanticLayers` extends it with dimensions, dates and terms and has the
steps: one action each, with one variable for each layer in `run_globals`. The
services match names with keyword lists; the constants say which lists a name hits
(`RuleHits`, `EntityOf`, the `hits` of a preset, `Preset`), and keep the orders that
decide between several hits. What the LLM may answer is any sequence of at most
`MaxItems` domains with any raw names of tables. The order in which the code walks a
Python set is a choice (`DomainChoices`). Confidences are kept where a comparison uses
them (dimensions).

### `KnowledgeMap`: from the layers to a question's context

Adds the graph, the map (`BuildMap`), its rows (`Rows`), the map `get_knowledge_map`
makes of the rows (`Load`, with `TargetRead` for the targets of foreign keys) and the
context of a question (`ContextOf`). The hash of a map is left out: it is stored and
written into the version, and never compared with another. The graph has an edge for each pair of columns of a
relationship and for each column named after a table, and their reverses. Scores are
abstracted: the best documents may be any `TopN` of them. Failures of the save and
maps that change while they are read are in `Discovery` and `QueryPipeline`.

### `MCDiscovery`, `MCQueryPipeline`, `MCMetadataLocks`, `MCIntrospection`, `MCKnowledgeMap`

Instances for TLC: values of the constants, and, in `MCDiscovery`, `SerialSpec`, in
which clients wait for one discovery to end before they start the next.

Lists of the code that are sorted are `Listed` sets in the models, with their order
as an operator (`Earlier`, `DomainBefore`, ...), and loops that add to a result are
`Accumulated`, one step per element (`AddDimension`, `Merged`, `AddEntry`, `AddFamily`):
plain functions, so that both TLC and the provers can compute with them.

### `DiscoveryProofs`, `OutcomeProofs`, `QueryPipelineProofs`, `MetadataLocksProofs`, `LLMCallsProofs`, `KnowledgeMapProofs`, `LayersProofs`

The theorems, see section 5. `ListLemmas` has what the last two rest on: facts about
least elements, orders, sorted lists, flattened lists and folds.

## 3. Runs

| Run | Question | Result |
|---|---|---|
| `discovery_safety` | two runs that may overlap on one connection, two tables, a failing commit, a crash, deletes at any time | types, `Referential`, `MapWhole`, `ReadyIsQueryable`, `FirstDiscoveryStored`, `OutcomeRecorded`, `StoredTablesKept`, `GoneForGood` hold; `PublishedMaps` and, for the connection, `StoredMap` are implemented (`PublishedAtomically`, `ReadersView`); every run ends (`RunsEnd`), lock waits and failures included |
| `discovery_refresh` | is a re-discovery stored? | **no**, finding 1 |
| `discovery_delete` | does a removed connection stay removed? | **no**, finding 2 |
| `discovery_ready` | does READY mean the discovery is complete? | **no**, finding 3 |
| `query_safety` | one question against a map that changes, failures everywhere | types, `AttemptsAccounted`, `MissingRowsFlagged`, `EnginesReleased` hold, and every request ends (`EveryQuestionEnds`) |
| `query_names` | any statement over three tables and a system catalogue, with a system name and a common table expression, discoveries that commit between two SELECTs, a delete | `NamesCovered`, `JoinsCoverTables` hold |
| `query_sentinel` | is truncation by the LIMIT the agent adds detected? | **no**, finding 4 |
| `query_readonly` | does the statement run in a read-only transaction? | **no**, finding 5 |
| `metadata_locks` | two runs and a delete of one connection, a delete of another and a question, a pool of two | types, `NoDeadlockWithoutDelete`, `SavesLostToDeletes`, `PoolTurnsOver` hold |
| `llm_calls` | one question, every mix of errors in its LLM calls | types, `RequestsBounded` (at most 9 requests per structured call), `OutageNotMultiplied` (at most 3 in an outage) hold |
| `llm_correction` | does a retry see the statement it is to correct? | **no**, finding 6 |
| `knowledge_map` | a whole discovery of a small shop, on both kinds of target, with an outage or a dropped table anywhere, a materialized view and a key that shares its name with a CHECK, to the context of a question | types; `TablesWhole`, `FaultsStayLocal`, `RelationshipsGrounded`, `PoolsReleased` (reading); `LayersResolve`, `MetricColumnsExist`, `EntityDomain`, `FirstColumnWins`, `EveryCodeHasTerm`, `LayersSettle` (layers); `GraphGrounded`, `MapSurvives`, `ContextComplete` (map) hold |

Each property of a passing run is paired in `PROJECT.json` with a bug in the code
(an operator `X_Suffix` before `X`) that makes the run fail.

Deadlock is not checked: all of these systems stop when every run and request is
over and the bounded clients have nothing left to do. That nobody waits for ever
is what `RunsEnd` and `EveryQuestionEnds` say; in `MetadataLocks`, which states no fairness,
`PoolTurnsOver` says that a full pool does not stand still.

### Bounds

* *Discovery*: one connection, because two share no row; two runs, because the
  interactions (locks, a stale version, the newest row) are between pairs; two
  tables, the least for which a map can overlap another without being equal to
  it and for which half a map is neither empty nor whole; two steps out of
  nineteen in `discovery_safety`, the one that finds the tables and the one that saves
  them, the others being steps that succeed or fail; the runs with a violation add one
  that needs the connection's row, real or placeholder, and the proofs hold for any number;
  one database failure and one crash. `started_at` values are counted by `clock`, which each run advances at most twice.
* *Questions*: one, because requests share only the metadata database, which they
  do not write. `query_names` has three tables, two of one name in different schemas
  and one that shares a schema with the second: the least that tells a table from a
  name and a schema; and a system catalogue, which no discovery lists. Its statements have
  at most one table, as each is checked by itself, and differ in it and in the names of
  their expressions only (`MCPlain`); one retry. `query_safety` and the runs about rows
  and transactions have one table (a statement inside or outside the map),
  `SqlRetryCount` 2, so that an attempt is first, middle or last; a cap of 2 rows
  with LIMITs below (1) and above (3) it and up to 4 matching rows, so that every
  comparison with the cap and with the cap plus one goes both ways. All runs take
  PostgreSQL, whose guards can go wrong; the proofs take both kinds of target.

* *Metadata database*: two runs and a delete of one connection, for the locks on its
  rows; a delete of another, which they meet on whole tables only; a question for those
  who hold a connection and no lock. A pool of two is full while others wait, and two are
  enough for every circle of a pair; longer ones are left to the proofs. Two of the nine
  indexed tables, which have an order of their own in every transaction; the layers, which
  a session writes in any order, are left to the proofs.
  The runs differ in nothing but their names, hence the symmetry. All unbounded in the
  proofs.
* *LLM calls*: `SqlRetryCount` 2; the limits of the inner loops are those of the
  code, and nothing is bounded besides.

* *A discovery's content* (`knowledge_map`): four tables in two schemas and a materialized
  view, the fewest with keys within a schema and to another, a key that shares its name
  with a constraint of another table, a `_id` column without a key, two tables of one
  entity that fall into different domains, a table of several domains, two columns with
  one dimension code, terms that two layers share. The role owns all tables, or there
  would be no keys. There is no key of two columns, whose rows come in several orders,
  each of which is a run of its own: these are left to the proofs. One fault
  (an outage or a dropped table), because the properties are about what one costs;
  one domain from the LLM (a code of the rules or a new one, with any of three raw
  names: in full, a part of two names, of no table); one document of the map per
  question, as the context is a union over documents. Both database types; the columns
  of `pg_stats` and `sys.columns` are those of the servers.

### Fairness

* `FairSpec` of `Discovery` (`OrderedSpec` of `MCDiscovery` adds that the runs, which
  differ in their names only, start in a given order): weak fairness of `Progress(r)` for each run. The event
  loop resumes every task whose await is over; a run waits for other actors only in
  `WriteMap`, for a lock, and `RunsEnd` shows that the lock is let go. Clients,
  faults and crashes are not fair: nobody has to delete or to fail.
* `FairSpec` of `QueryPipeline`: weak fairness of `Work(q)`. Every call it awaits
  returns or raises: LLM calls and connections have timeouts and statements run
  under `statement_timeout`. When it cannot succeed it raises, which is always an
  enabled outcome.

## 4. Findings

The code does what its runs show; the quoted documents say something else.

1. **A re-discovery is not stored** (`discovery_refresh`,
   `context_repository.py:765`). `save_context_full` adds every table of the new map
   to the stored version and meets the unique constraint at the first table that
   is there already; the step is marked done and the run returns READY.
2. **A removed connection comes back** (`discovery_delete`,
   `database_discovery_pipeline.py:286`), as the placeholder row of a discovery
   that was at work on it.
3. **READY while a discovery is running** (`discovery_ready`,
   `database_discovery_pipeline.py:1146`): any stored map turns IDLE into READY.
4. **Truncation goes unnoticed** (`query_sentinel`, `sql_generation_service.py:72`):
   the generator appends `LIMIT MAX_QUERY_ROWS`, after which the executor does not
   ask for its one extra row.
5. **Not a read-only transaction** (`query_readonly`,
   `sql_execution_service.py:155`): the commit after `SET TRANSACTION READ ONLY`
   ends the transaction it was for.
6. **A retry does not see what it is to correct** (`llm_correction`,
   `query_pipeline.py:405`): its prompt takes the previous statement from
   `corrected_sql`, which the exception handler leaves empty in every case. The error
   message is all that reaches the next attempt.

Met while modelling, and part of the models as the code has it, without a run of
their own:

* `explain` awaits `build_semantic_plan`, a plain function (`query_pipeline.py:577`): every
  request that gets there raises TypeError.
* SQL Server discovery keeps no table: the statement for the columns names
  `sys.columns.column_ordinal` (`sqlserver.py:347`, `372`), which does not exist
  (`UnknownName`). Its `get_foreign_keys` and `get_indexes` return other keys than the
  inspector reads.
* PostgreSQL profiles are empty: `pg_stats` has no `min_val` and `max_val`
  (`column_profiling_service.py:68`), and the error aborts the transaction that the
  scans for the column share (`Aborted`).
* With the SELECT-only role of `README.md:981` the information schema shows no keys
  (`Writable` and `Owned` empty): no foreign key is found, only what names suggest.
* System catalogues pass validation: the lists of tables and of schemas both skip tables
  of `information_schema`, `pg_catalog`, `pg_toast` and `sys`, that of tables also names
  with a system prefix (`sql_validator.py:540`, `570`; `Exempt`), and the schemas that are
  blocked are others (49). README.md:66 ("no `pg_catalog` / `information_schema`"), 81 ("Block pg_catalog /
  information_schema") and 985 say that they are blocked, and
  `tests/unit/test_sql_validator.py:44` and `tests/integration/test_security_sql.py:46`
  list statements over them as rejected. `NamesCovered` excepts them.
* A table outside the map passes validation, with its schema in front, when a common
  table expression of the statement has its name (`sql_validator.py:537`), although
  README.md:82 speaks of a whitelist of tables. `NamesCovered` excepts it.
* For a key of several columns every column is paired with every other
  (`postgresql.py:452`, `JoinRows`), and the graph has an edge for each pair.
* No dimension ever gets a join: the target of a foreign key within its schema is stored
  as a bare table name (`schema_inspector.py:131`) and looked up under a full one
  (`dimension_service.py:370`, `JoinsOf`).
* Foreign keys to another schema are never read (`postgresql.py:457`), unless another
  constraint of the name helps out; constraints of one name on two tables of a schema
  are mixed with each other (`JoinRows`). `RelationshipsGrounded` and `GraphGrounded` say what
  is left to rely on.
* Materialized views are kept without columns (`postgresql.py:285`, `313`); `TablesWhole`
  and `FaultsStayLocal` except them.
* The table of a foreign key does not survive the map's rows: `customers` and `id` are
  stored as `customers.id`, which is read back as column `id` of `customers.public`
  (`context_repository.py:183`, `TargetRead`). `MapSurvives` has the column only.
* The map holds every relationship twice (`BuildMap`), and so do the prompts.
* What a map loses on its way through the database: the graph, date semantics, column
  semantics; the tables of domains; domain of concepts; entity and domain of metrics.
* The graph assumes a key column `id` where a table has none (`AssumedKey`);
  `GraphGrounded` excepts it. The filter for overdue invoices names `due_date` whether or
  not there is one; `MetricColumnsExist` excepts it.
* Of two domains with one table the smaller one is its entity's candidate (`DomainOf`).

## 5. Proofs

The eight proof modules are checked from nothing by `tlapm`. They hold for every value
of the constants that satisfies the named assumptions of the models:
`StepsAssumption` (the pipeline ends with its only ContextPersistence, the schema
is discovered before), `ConstantsAssumption`, `SettingsAssumption` and
`RetryAssumption` (types; the retry count may be negative, as the code guards against),
`EnginesAssumption` and `SysColsAssumption` (the two database types; `sys.columns` as
the server has it), `LocksAssumption` and `NoLockAssumption` (types; an actor has one role;
the tables get their indexes in an order that begins with `database_tables_metadata`),
and, for the contents of a discovery,

* `CatalogueAssumption`: finitely many tables, with a place in each of two orders (by
  name, and that of the metadata), each with a list of columns that its primary key is
  part of, in one of the schemas; a materialized view has no key;
* `KeysAssumption`: a foreign key has as many columns as it refers to, columns of the two
  tables; a table has no two constraints of one name (two tables may); who owns a table
  may write to it: what a database enforces;
* `PresetsAssumption`: the patterns and presets are finite lists with one entry per code,
  as the constants of the services are;
* `NamesAssumption`: the order in which a list comes out is an order of its codes. Lists
  are sorted by name; two codes can have one name (the rules' HR, and a domain the LLM
  calls Human Resources), and Python's sort then keeps the order in which they were met;
* `MainAssumption`, `AliasesAssumption`, `AnswerAssumption`, `DimensionsAssumption` (types: aliases
  are lists, codes have a place in the order of names).

**`DiscoveryProofs`**: `TypeOK`, `Referential`, `MapWhole` as invariants,
`StoredTablesKept`, and the implementation of `PublishedMaps` and `StoredMap`, for any
number of connections, runs, tables and steps. None of them is inductive. `Ind` adds what the
code relies on without saying so:

* `Position`: how many steps are done where; a body always has a step left, and a
  save is the last one;
* `Pending`: a run holds an uncommitted map only between its save and the next
  commit or rollback, none of the map's tables is stored yet, and no other run of
  the connection holds one: this is what the row locks (`Unlocked`) buy;
* `Stored`: a run whose tables are stored is past its last commit that could carry
  a map, so that it cannot publish twice, and they are all it found;
* `Versioned`: no tables without a version.

Each commit then publishes a whole map over free tables, an empty map, or nothing,
which is a step of `PublishedMaps` or a stuttering one (`OwnerSteps`), and for each
connection a step of `StoredMap` or a stuttering one (`ReaderSteps`).

**`OutcomeProofs`**: `OutcomeRecorded`, `ReadyIsQueryable`, `FirstDiscoveryStored` and
`GoneForGood`. The first three speak of a connection only while the database never
failed and the connection was not deleted (`Sound`); both end for good, so that
`OutcomeInd` can be about the whole past of a connection. Its parts, per run or
connection:

* `Upset` and `Faithful`: a run is marked broken exactly when a step failed, and only
  such a run heads for the exception handler; a broken session lasts until the next
  commit;
* `Present`: the connection of a run that started is there, so that no row is refused;
* `Recorded`: no complete row before the last commit, no failed one unless the run
  raised, and the last row is there when the run is over;
* `Saving`: a run whose map is neither pending nor committed lost to a stored map;
* `Backed`: a complete row, and the status READY, have a map behind them.

The lemma `Local` says what one run's step leaves alone, and `OthersKept` turns it into
the invariant of every other run and connection, so that each action is treated for
its own run only. `FirstInd` adds, for a run that is alone on its connection, that nobody
else stored a map and that its own appears whole, with its last commit.

**`QueryPipelineProofs`**: `TypeOK`, `NamesCovered`, `JoinsCoverTables`, `AttemptsAccounted`,
`MissingRowsFlagged` and `EnginesReleased`, for any number of questions, tables,
retries, caps, limits and rows, on both kinds of target. `Ind` is made of three parts
per question: `Counted` (attempts and retries in every stage), `Mapped` (what was
retrieved lies within the map in memory, and the tables of the validated statement,
from its validation to the answer, are covered by it) and `Running` (where an engine may be open; a result is there only
from a statement's end to the answer, and its rows and flag agree with the
statement's LIMIT). The lemma `FetchedFaithful` says why one extra row is enough for
the executor: rows are all there or flagged, whatever the form and the LIMIT.

`JoinsCoverTables` has an invariant of its own, `Covered`: short of a delete, the tables a
question read are still stored when it reads the relationships, because stored maps
only grow.

**`MetadataLocksProofs`**: all four invariants of `MetadataLocks`, for any number
of runs, deletes, questions, connections and indexed tables. `IInv` says of each run
what its transaction is made of and that it asked in order (`RunShape`), that no two
actors have locks that conflict (`Apart`), and that a connection of the pool is that of
the transaction at hand (`Lent`). All steps that ask for locks go through the lemma
`Asking`, all that end a transaction through `Ending`. `NoCircle` then rules out, one after
the other, what a run in a circle of runs could be waiting for: not for the connection's row, because
whoever has a lock on it that excludes another run's asks for nothing more
(`ConnectionIsLast`); not, as a save, for a table, because an index creation that has any
table has `database_tables_metadata`, which stands against every save that has written a
table (`IndexPasses`); not for the version, because it is asked for first; and then
not, as an index creation, for its first table. The argument takes a bounded number of
waits, so that no induction along the circle is needed.
`SavesLost` needs a second invariant, `Own` (the rows a run or delete locks are those of its
own connection), and that each member of a least circle is also waited for
(`EachWaitedFor`): who waits for a save then has a lock already, so it is no index
creation, no other save at its version row, and only a delete of the same connection is left.

**`LLMCallsProofs`**: `TypeOK`, `RequestsBounded` and `OutageNotMultiplied` for every retry count.
`Ind` says how many calls lie behind a question (`CallsDone`) and how many requests
behind the round and try of the current one: `Spent` in general, `SpentInOutage`
without rounds, since in an outage no call leaves its first. Both are needed at the
end of a call, where the counters start again.

**`KnowledgeMapProofs`**, about `MapSpec`, of which `IntroSpec` is the first part, for all
tables, columns, keys, presets, faults and answers of the LLM. Each theorem has an invariant of its own:

* `PoolsReleased` by `PoolsInd`: before the adapter is opened no engine is, and the
  second is opened only after the first was closed.
* `TablesWhole` by `WholeInd`: the call at hand is past "primary keys" only if the columns
  that were read are the table's (none for a materialized view), because a table that was
  gone when its columns were read stays gone and makes the next call raise. On SQL Server no call gets past the
  columns. It rests on `EnginesAssumption` and `SysColsAssumption`.
* `LayersSettle` by `LayersInd`: which layers are still empty at each step; the lemma
  `SecondPassEmpty` says that the second detection of concepts finds the codes of the
  first, since it does not look at the metrics.
* `MapSurvives` by `MapInd /\ WholeInd`: what is stored and loaded is `Rows` and `Load` of a
  map built from the metadata and layers, which do not change after it; `LoadedMap`
  then follows each part of the map through both conversions.

* `RelationshipsGrounded` by `GroundedInd`: besides what it says of each relationship, the
  keys that were read for the table at hand are those the query may return for it, and are
  held only between the call for them and the end of the table. What the query may return
  is followed from its rows (`RowGrounded`: each is made of two constraints of the name in
  the schema; `SoleRow`: of one only, if no other table bears the name) to the key they are
  merged into (`KeyEntryGrounded`). For relationships that are inferred, the tables are
  those found so far; none is taken back later.
* `FaultsStayLocal` by `LocalInd`: as long as there is no outage, a table that exists is
  among the tables found, those still to do, or those of a schema still to do, at every
  call, and likewise for the samples.
* `GraphGrounded` by `GraphInd`: the graph is that of the tables, which stay. That every
  pair of a relationship has its edge, and that edges of keys lie on columns unless the
  name is shared, rests on `RelationshipsGrounded`.

**`LayersProofs`**, about `MapSpec` too. `MadeInd` says what the layers are: each is empty until
its step and from then on what its service makes of the layers below it, which do not
change any more (`EmptyInd` says which layers are still empty when a lower one is set).
With it, a property of the layers of every run is a property of the operators that
stand for the services, and is proved of each in turn, from the tables up:

* `DomainsOk`, `EntitiesOk`, `ConceptsOk`, `MetricsOk`: what comes of any tables, any answer of
  the LLM and any lower layers of which the lemma before holds. `BusinessHolds` puts them
  together (`BusinessOk`). `MetricColumnsExist`, `EntityDomain` and the `TypeOK` of `SemanticLayers`
  follow. Every list is finite and its order strict (`SizeOrder`, `SourceOrder`, `TableOrder`), so that
  "the first one with ..." is one of them.
* `DimensionsOk`: `Led` and `Covered` are kept by each column that is added: a dimension in the
  list follows the first column with its code and is no more confident than that one's
  (`DimensionAdded`); then `Kept`, by each one that is merged: the one that stays is the first, with
  the joins of all (`DimensionMerged`). `FirstColumnWins` follows: the comparison when a code is
  met again lets only equal or lower confidences through, so that the comparison of
  `_dedupe_dimensions` never replaces what it has.
* `TerminologyOk`: `AddEntry` keeps the keys it has and adds that of the new entry, whether or not it
  appends it (`EntryAdded`), a family of aliases only repeats a target that is there
  (`FamilyAdded`), and sorting leaves out no code (`ListedBySize`, `ListedByName`). `EveryCodeHasTerm` follows, and the part of
  `LayersResolve` about terms; its other parts come from `BusinessOk` and `DimensionsOk`.
* `ContextComplete` by `ContextInd` (a context was made of the loaded map and some documents) and
  `MapSurvives`: what a match brings from the map is what the run found.

A loop over a list is proved about as follows. `FoldAlong` (in `ListLemmas`): a set of pairs of a
place and a result that has the first pair, and with each pair the next one, has
the last. `DimensionFold`, `MergeFold`, `EntryFold` and `FamilyFold` apply it to the four loops. The sets
take the place of the predicates of the library's induction theorems, which the
installed provers cannot instantiate; `Upwards`, induction as a fact about a set of numbers, is
proved from the least element of such a set.

All invariants and action properties of the passing runs are proved. The inductive
invariants were checked as invariants of the instances of section 3 before. Beyond the
provers and left to TLC: liveness (`RunsEnd`, `EveryQuestionEnds`), and that the six properties
of the runs with a violation are violated.

## 6. Not modelled

* The heuristic flags of columns, the types of columns, row counts, comments, indexes
  and constraints; which of many columns are sampled and the values that are read;
  redaction; the wording of prompts, descriptions and answers. Nothing in the models
  depends on them.
* Keyword matching itself: which lists a name hits is a constant.
* Scores of the retrieval: any best documents.
* Code without a live caller: `find_join_path`, `expand_related_tables`, `persist_graph`;
  `semantic_repository.py`, `embedding_repository.py`; `execute_raw`, `sample_rows`,
  `profile_column` and `extract_schema` of the adapters, `postgres_inspector.py`; the
  analyzer but for `analyze_table_semantics`.
* The walk of the SQL validator over the syntax tree: only that it may reject, and
  which names it accepts, exemptions included. Names are compared without regard to case
  there; names in the models are told apart by what is left of them then.
* Encryption, masking, logging, the web page, migrations and scripts: no protocol.
* Endpoints that only read.

## 7. Plan

Done: 1 to 6. Left, by what they would add: 7 and 8.

1. `Discovery` with `PublishedMaps` and `StoredMap`, and its proofs (`DiscoveryProofs`, `OutcomeProofs`).
2. `QueryPipeline` and its proofs.
3. `LLMCalls` and its proofs.
4. `Introspection`, `BusinessLayers`, `SemanticLayers`: what the steps of a discovery compute.
5. `KnowledgeMap` and its proofs: graph, map, rows, retrieval (`KnowledgeMapProofs`, `LayersProofs`).
6. `MetadataLocks` and its proofs: lock waits and the pool.
7. `SqlWalk`: the validator's checks on a syntax tree as a function.
8. `RowLimits` as functions: `apply_row_limit`, the caps and the token budget on
   sequences of rows, against a reference definition.
