---------------------------- MODULE Introspection ----------------------------
(***************************************************************************)
(* What a discovery run reads from the target database: the tables with    *)
(* their columns and keys (SchemaInspector over an adapter), sample rows    *)
(* (DatabaseSamplingService) and column profiles (ColumnProfilingService).  *)
(*                                                                         *)
(* The reading is a long series of statements, each on a connection of its *)
(* own.  Meanwhile the target may be out of reach for a time and its owner *)
(* may drop tables: Outage, Recovery and DropTable are the environment.    *)
(***************************************************************************)
EXTENDS Naturals, SequencesExt

CONSTANTS
  Table,        \* tables and views of the target database, and materialized views:
  MatViews,     \* those of its tables that are materialized views
  Column,       \* column names; columns of one name have one type
  NoTable,      \* None, for a table
  NamePos,      \* a table's place among all, by name
  Pos,          \* its place in the metadata: by schema, then tables before views
                \* before materialized views, then by name
  SchemaOf,     \* the schema of a table
  Schemas,      \* the schemas, sorted by name
  Attributes,   \* the columns of a table, in order
  Pk,           \* the columns of its primary key
  KeyName,      \* names of constraints
  NoKey,        \* no such name: the relationship was inferred
  Constraints,  \* a table's constraints, by name: a sequence of [name, foreign, cols,
                \* target, to]; one that is no foreign key has the columns it is on as
                \* "to" with the table itself, and a CHECK has no "cols"
  StemNames,    \* the table of its own schema that a column <stem>_id names, or NoTable
  BlobCols,     \* columns that are never sampled
  Writable,     \* tables with which the role of the connection may do more than read
  Owned,        \* tables that the role owns
  StatsCols,    \* the columns of the target's pg_stats
  SysCols,      \* the columns of the target's sys.columns
  Engines,      \* database types to look at
  MaxFaults     \* bound: times the target goes out of reach, and tables dropped

\* sys.columns, which the statement for the columns of a SQL Server table reads,
\* has no such column; sys.index_columns and sys.foreign_key_columns come close.
ASSUME SysColsAssumption == "column_ordinal" \notin SysCols

\* The columns that information_schema.columns lists: it has no rows for
\* materialized views, which get_tables takes from pg_matviews.
Cols == [t \in Table |-> IF t \in MatViews THEN <<>> ELSE Attributes[t]]

\* The catalogue: finitely many tables, one at each place, each in a schema;
\* a primary key has columns of its table, and a materialized view has none.
ASSUME CatalogueAssumption ==
  /\ IsFiniteSet(Table) /\ NoTable \notin Table
  /\ \A place \in {Pos, NamePos} :
       place \in [Table -> Nat] /\ \A t, u \in Table : place[t] = place[u] => t = u
  /\ Schemas \in Seq(ToSet(Schemas)) /\ \A t \in Table : SchemaOf[t] \in ToSet(Schemas)
  /\ Attributes \in [Table -> Seq(Column)]
  /\ \A t \in Table : Pk[t] \subseteq ToSet(Cols[t])

\* A constraint is on columns of its table and refers to columns of another, a
\* foreign key to as many as it has; a materialized view has none.  A name is
\* met once per table: constraints of two tables may well share one.  An owner
\* may do more than read.
ASSUME KeysAssumption ==
  /\ NoKey \notin KeyName /\ Owned \subseteq Writable
  /\ \A t \in Table :
       /\ Constraints[t] \in Seq([name : KeyName, foreign : BOOLEAN, cols : Seq(Column),
                                  target : Table, to : Seq(Column)])
       /\ \A k \in ToSet(Constraints[t]) :
            /\ ToSet(k.cols) \subseteq ToSet(Cols[t]) /\ ToSet(k.to) \subseteq ToSet(Cols[k.target])
            /\ k.foreign => Len(k.cols) = Len(k.to)
            /\ \A l \in ToSet(Constraints[t]) : k.name = l.name => k = l

\* There is an adapter for each of these two.
ASSUME EnginesAssumption == Engines \subseteq {"postgresql", "sqlserver"}

VARIABLES
  step,         \* the step to run next, "done" or "failed"
  engine,       \* the database type
  up,           \* the target can be reached
  outages,      \* history: how often it could not
  exists,       \* the tables that were not dropped
  schemas,      \* schemas left to list
  todo,         \* tables left in this schema, or left to sample or profile
  call,         \* the call to make for the first of them, or "none"
  read,         \* what the calls for it returned: [columns, keys], a key being a
                \* [name, target, pairs]
  tables,       \* metadata: the tables that were kept
  columnsOf,    \* their columns, as read
  foreign,      \* fk_target_table and fk_target_column of their columns
  rels,         \* metadata.relationships: [source, pairs, target, key], with the name
                \* of the foreign key (their evidence), or NoKey
  pools,        \* engines with an open pool: "adapter", "target"
  samples,      \* tables with sample rows
  profiles      \* filled fields of column profiles: <<table, column, field>>

database == <<engine, up, outages, exists>>
cursor == <<schemas, todo, call, read>>
metadata == <<tables, columnsOf, foreign, rels>>
discovered == <<database, cursor, metadata, samples, profiles>>
introVars == <<step, pools, discovered>>

Nothing == [columns |-> <<>>, keys |-> <<>>]

Earlier(t, u) == Pos[t] < Pos[u]

\* The elements of a finite set in a strict order: before the first of them
\* there is none, before the second one, and so on.
Listed(S, Less(_, _)) ==
  [i \in 1..Cardinality(S) |-> CHOOSE x \in S : Cardinality({y \in S : Less(y, x)}) = i - 1]

\* Bug: the engine is closed on the way out of a good run only.
Fail_Leaky ==
  /\ step' = "failed"
  /\ UNCHANGED pools

\* The last error of a step ends the run; its engine is closed on the way out,
\* by discover_schema or by run().
Fail ==
  /\ step' = "failed"
  /\ pools' = {}

-----------------------------------------------------------------------------
(* The environment *)

\* Bound: outages and dropped tables of a run.
Faults == outages + Cardinality(Table \ exists)

Reading == step \in {"SchemaDiscovery", "SampleDiscovery", "ColumnProfiling"}

Outage ==
  /\ Reading /\ up /\ Faults < MaxFaults
  /\ up' = FALSE
  /\ outages' = outages + 1
  /\ UNCHANGED <<step, engine, exists, cursor, metadata, pools, samples, profiles>>

Recovery ==
  /\ Reading /\ ~up
  /\ up' = TRUE
  /\ UNCHANGED <<step, engine, outages, exists, cursor, metadata, pools, samples, profiles>>

\* The owner drops a table, and the foreign keys to it.
DropTable(t) ==
  /\ Reading /\ t \in exists /\ Faults < MaxFaults
  /\ exists' = exists \ {t}
  /\ UNCHANGED <<step, engine, up, outages, cursor, metadata, pools, samples, profiles>>

-----------------------------------------------------------------------------
(* SchemaDiscovery *)

\* build_engine_for: the engine is there once SELECT 1 was answered.
OpenAdapter ==
  /\ step = "SchemaDiscovery" /\ call = "open"
  /\ IF up THEN /\ pools' = pools \cup {"adapter"}
                /\ call' = "schemas"
                /\ step' = step
           ELSE /\ Fail
                /\ call' = "none"
  /\ UNCHANGED <<database, schemas, todo, read, metadata, samples, profiles>>

\* Without the list of schemas there is no discovery.
GetSchemas ==
  /\ step = "SchemaDiscovery" /\ call = "schemas"
  /\ IF up THEN /\ schemas' = Schemas
                /\ call' = "tables"
                /\ UNCHANGED <<step, pools>>
           ELSE /\ Fail
                /\ call' = "none"
                /\ schemas' = schemas
  /\ UNCHANGED <<database, todo, read, metadata, samples, profiles>>

ByTableName(t, u) == NamePos[t] < NamePos[u]

\* Tables and views by name, then materialized views.
TablesIn(s) ==
  LET here == {t \in exists : SchemaOf[t] = s}
  IN  Listed(here \ MatViews, ByTableName) \o Listed(here \cap MatViews, ByTableName)

\* A schema whose tables cannot be listed is skipped.
GetTables ==
  /\ step = "SchemaDiscovery" /\ call = "tables" /\ todo = <<>> /\ schemas # <<>>
  /\ todo' = IF up THEN TablesIn(Head(schemas)) ELSE <<>>
  /\ schemas' = Tail(schemas)
  /\ call' = IF todo' = <<>> THEN "tables" ELSE "columns"
  /\ UNCHANGED <<step, database, read, metadata, pools, samples, profiles>>

NextCall(c) ==
  CASE c = "columns" -> "primary keys"
    [] c = "primary keys" -> "foreign keys"
    [] c = "foreign keys" -> "indexes"
    [] c = "indexes" -> "constraints"

\* Bug: a table without a primary key to be found is kept, as is.
LostTable_NotKeys(c, t) == FALSE

\* Of a table that is gone, PostgreSQL's information_schema has no rows, and
\* the cast to regclass in the other statements fails.
LostTable(c, t) == c \in {"primary keys", "indexes"} /\ t \notin exists

\* SQL Server rejects the statement for the columns: it names a column that
\* sys.columns does not have.
UnknownName(c) == c = "columns" /\ "column_ordinal" \notin SysCols

\* A call for one table raises when the target is out of reach, or when the
\* database refuses its statement.
Raises(c, t) ==
  \/ ~up
  \/ engine = "postgresql" /\ LostTable(c, t)
  \/ engine = "sqlserver" /\ UnknownName(c)

\* After a table was kept or skipped.
AfterTable(rest) ==
  /\ todo' = rest
  /\ call' = IF rest = <<>> THEN "tables" ELSE "columns"
  /\ read' = Nothing

\* Bug: the error of one table ends the loop over its schema.
SkipRest_Schema(ts) == <<>>

\* The error of a table is logged, and the next table is read.
SkipRest(ts) == Tail(ts)

SkipTable ==
  /\ step = "SchemaDiscovery" /\ todo # <<>>
  /\ Raises(call, Head(todo))
  /\ AfterTable(SkipRest(todo))
  /\ UNCHANGED <<step, database, schemas, metadata, pools, samples, profiles>>

\* The constraints of a name, with their tables: one whose table, or the table
\* it refers to, was dropped is gone.
Live(n) ==
  {x \in UNION {{t} \X ToSet(Constraints[t]) : t \in exists} : x[2].name = n /\ x[2].target \in exists}

\* key_column_usage and constraint_column_usage for a name and a schema.  The
\* schema is that of the table in the first, of the table referred to in the
\* second, which shows tables of one's own only.
KeyUsage(n, s) ==
  UNION {{<<x, i, x[2].cols[i]>> : i \in DOMAIN x[2].cols} : x \in {y \in Live(n) : SchemaOf[y[1]] = s}}

ColumnUsage(n, s) ==
  UNION {{<<x, x[2].target, c>> : c \in ToSet(x[2].to)} :
           x \in {y \in Live(n) : SchemaOf[y[2].target] = s /\ y[2].target \in Owned}}

\* The join of get_foreign_keys, which compares name and schema and not the
\* table: columns of a key are paired with every column that any constraint of
\* its name refers to, as are those of other keys of that name.
JoinRows(n, s) == KeyUsage(n, s) \X ColumnUsage(n, s)

\* ORDER BY ordinal_position leaves the rows of one position in any order.
RowOrders(rows) ==
  {f \in SetToSeqs(rows) : \A i, j \in DOMAIN f : i < j => f[i][1][2] <= f[j][1][2]}

\* fk_map: one key for all rows of a name, its table that of the first row.
KeyEntry(n, f) ==
  [name |-> n, target |-> f[1][2][2], pairs |-> [i \in DOMAIN f |-> <<f[i][1][3], f[i][2][3]>>]]

\* The foreign keys of a table for which there are rows: never those to
\* another schema, unless a constraint of the same name helps out.
VisibleKeys(t) ==
  LET IfVisible(k) == IF k.foreign /\ <<t, k>> \in Live(k.name) /\ t \in Writable
                         /\ JoinRows(k.name, SchemaOf[t]) # {} THEN <<k.name>> ELSE <<>>
  IN  FlattenSeq([i \in DOMAIN Constraints[t] |-> IfVisible(Constraints[t][i])])

\* What the call may return.
ReadKeys(t) ==
  LET names == VisibleKeys(t)
      Key(i) == {KeyEntry(names[i], f) : f \in RowOrders(JoinRows(names[i], SchemaOf[t]))}
  IN  {ks \in [DOMAIN names -> UNION {Key(i) : i \in DOMAIN names}] :
         \A i \in DOMAIN names : ks[i] \in Key(i)}

\* Every pair of every key, in order, with the table it leads to.
Links(keys) ==
  FlattenSeq([i \in DOMAIN keys |->
    [j \in DOMAIN keys[i].pairs |-> keys[i].pairs[j] \o <<keys[i].target>>]])

\* fk_targets_by_col: the last pair of a column replaces the earlier ones.
Target(keys, c) == Links(keys)[Max({i \in DOMAIN Links(keys) : Links(keys)[i][1] = c})]

ColumnTargets(keys, cols) ==
  [c \in {Links(keys)[i][1] : i \in DOMAIN Links(keys)} \cap ToSet(cols) |->
     [table |-> Target(keys, c)[3], column |-> Target(keys, c)[2]]]

RelationshipsOf(t, keys) ==
  {[source |-> t, pairs |-> keys[i].pairs, target |-> keys[i].target, key |-> keys[i].name] :
     i \in DOMAIN keys}

\* The columns of a table, of which there are none when it is gone: no call
\* for a materialized view raises.
ColumnsRead(t) == IF t \in exists THEN Cols[t] ELSE <<>>

\* The row count and the comment, which come first and swallow their errors,
\* leave nothing in the model.
ReadTable ==
  /\ step = "SchemaDiscovery" /\ todo # <<>> /\ call # "constraints"
  /\ ~Raises(call, Head(todo))
  /\ \/ /\ call = "columns"
        /\ read' = [read EXCEPT !.columns = ColumnsRead(Head(todo))]
     \/ /\ call = "foreign keys"
        /\ \E keys \in ReadKeys(Head(todo)) : read' = [read EXCEPT !.keys = keys]
     \/ /\ call \in {"primary keys", "indexes"}
        /\ read' = read
  /\ call' = NextCall(call)
  /\ UNCHANGED <<step, database, schemas, todo, metadata, pools, samples, profiles>>

Put(f, t, v) == [u \in tables \cup {t} |-> IF u = t THEN v ELSE f[u]]

\* After the last call the relationships and the table are appended.
KeepTable ==
  /\ step = "SchemaDiscovery" /\ todo # <<>> /\ call = "constraints"
  /\ ~Raises(call, Head(todo))
  /\ tables' = tables \cup {Head(todo)}
  /\ columnsOf' = Put(columnsOf, Head(todo), read.columns)
  /\ foreign' = Put(foreign, Head(todo), ColumnTargets(read.keys, read.columns))
  /\ rels' = rels \cup RelationshipsOf(Head(todo), read.keys)
  /\ AfterTable(Tail(todo))
  /\ UNCHANGED <<step, database, schemas, pools, samples, profiles>>

\* Bug: the table that a column's name says need not have been found.
InferTarget_Any(t, c) == StemNames[t][c]

\* The table that a column's name says, among the tables that were kept.
InferTarget(t, c) ==
  IF StemNames[t][c] \in tables \ {t} THEN StemNames[t][c] ELSE NoTable

\* The key column it would refer to: id, else one of the same name.
KeyColumns(u, c) == IF "id" \in Pk[u] THEN {"id"} ELSE {c} \cap Pk[u]

\* _infer_relationships: columns without a foreign key that are named after a
\* table.
InferRelationships ==
  UNION {{[source |-> x[1], pairs |-> <<<<x[2], k>>>>, target |-> InferTarget(x[1], x[2]),
           key |-> NoKey] : k \in KeyColumns(InferTarget(x[1], x[2]), x[2])} :
         x \in {y \in tables \X Column :
                  /\ y[2] \in ToSet(columnsOf[y[1]]) \ DOMAIN foreign[y[1]]
                  /\ InferTarget(y[1], y[2]) # NoTable}}

\* The rest of discover_schema: relationships are added and the engine is
\* closed.  RelationshipDiscovery only counts them.
EndSchema ==
  /\ step = "SchemaDiscovery" /\ call = "tables" /\ todo = <<>> /\ schemas = <<>>
  /\ rels' = rels \cup InferRelationships
  /\ pools' = {}
  /\ call' = "open"
  /\ step' = "SampleDiscovery"
  /\ UNCHANGED <<database, schemas, todo, read, tables, columnsOf, foreign, samples, profiles>>

-----------------------------------------------------------------------------
(* SampleDiscovery and ColumnProfiling *)

InOrder(ts) == Listed(ts, Earlier)

\* The engine of the stored connection, else one of the request: both need
\* the target.
OpenTarget ==
  /\ step = "SampleDiscovery" /\ call = "open"
  /\ IF up THEN /\ pools' = {"target"}
                /\ todo' = InOrder(tables)
                /\ step' = step
           ELSE /\ Fail
                /\ todo' = todo
  /\ call' = "none"
  /\ UNCHANGED <<database, schemas, read, metadata, samples, profiles>>

Sampleable(t) == ~(ToSet(columnsOf[t]) \subseteq BlobCols)

\* A table that cannot be sampled has no sample rows.
SampleTable ==
  /\ step = "SampleDiscovery" /\ call = "none" /\ todo # <<>>
  /\ samples' = IF up /\ Head(todo) \in exists /\ Sampleable(Head(todo))
                THEN samples \cup {Head(todo)} ELSE samples
  /\ todo' = Tail(todo)
  /\ UNCHANGED <<step, database, schemas, call, read, metadata, pools, profiles>>

EndSamples ==
  /\ step = "SampleDiscovery" /\ call = "none" /\ todo = <<>>
  /\ step' = "ColumnProfiling"
  /\ todo' = InOrder(tables)
  /\ UNCHANGED <<database, schemas, call, read, metadata, pools, samples, profiles>>

StatsSelect == {"n_distinct", "null_frac", "most_common_vals", "min_val", "max_val"}

\* PostgreSQL refuses every statement of a transaction after one that failed,
\* and the statements for a column share a connection.
Aborted == ~(StatsSelect \subseteq StatsCols)

\* What the statement over pg_stats and the scan of the table, or of a sample
\* of it, fill in.
ProfileFields(t) == IF Aborted \/ t \notin exists THEN {} ELSE {"distinct", "nulls", "values"}

ProfileTable ==
  /\ step = "ColumnProfiling" /\ todo # <<>>
  /\ profiles' = IF up THEN profiles \cup ({Head(todo)} \X ToSet(columnsOf[Head(todo)])
                                            \X ProfileFields(Head(todo)))
                 ELSE profiles
  /\ todo' = Tail(todo)
  /\ UNCHANGED <<step, database, schemas, call, read, metadata, pools, samples>>

\* The target is not read any more; its engine is open until the run ends.
EndProfiles ==
  /\ step = "ColumnProfiling" /\ todo = <<>>
  /\ step' = "TableSemanticAnalysis"
  /\ UNCHANGED <<database, cursor, metadata, pools, samples, profiles>>

-----------------------------------------------------------------------------

IntroInit ==
  /\ step = "SchemaDiscovery"
  /\ engine \in Engines
  /\ up = TRUE /\ outages = 0 /\ exists = Table
  /\ schemas = <<>> /\ todo = <<>> /\ call = "open" /\ read = Nothing
  /\ tables = {} /\ columnsOf = <<>> /\ foreign = <<>> /\ rels = {}
  /\ pools = {} /\ samples = {} /\ profiles = {}

Environment == Outage \/ Recovery \/ \E t \in Table : DropTable(t)

IntroStep ==
  \/ OpenAdapter \/ GetSchemas \/ GetTables \/ ReadTable \/ SkipTable \/ KeepTable \/ EndSchema
  \/ OpenTarget \/ SampleTable \/ EndSamples
  \/ ProfileTable \/ EndProfiles

IntroNext == Environment \/ IntroStep

IntroSpec == IntroInit /\ [][IntroNext]_introVars

-----------------------------------------------------------------------------
(* Properties *)

\* Whatever happened to the target between the calls for a table, it was kept
\* with all the columns that it has, or it was skipped.  Materialized views are
\* the exception: they are always kept without a column.
TablesWhole ==
  \A t \in tables : columnsOf[t] = IF t \in MatViews THEN <<>> ELSE Attributes[t]

\* Tables with a constraint of that name in a schema, or on a table of it.
Bearers(n, s) ==
  {t \in Table : \E k \in ToSet(Constraints[t]) : k.name = n /\ s \in {SchemaOf[t], SchemaOf[k.target]}}

\* Whether no other table bears the name of the key, or none is needed.
Sole(r) == r.key = NoKey \/ Bearers(r.key, SchemaOf[r.source]) = {r.source}

\* A relationship starts at a kept table.  One that was inferred leads from a
\* column of it to the key of another kept table.  One that was read bears the
\* name of a foreign key of its table and stays in its schema; it is that
\* foreign key if it has one column and its name is its own.  Otherwise its
\* columns are those of any constraints with that name in the schema.
RelationshipsGrounded ==
  \A r \in rels :
    /\ r.source \in tables
    /\ IF r.key = NoKey
       THEN /\ r.target \in tables
            /\ r.pairs[1][1] \in ToSet(Cols[r.source]) /\ r.pairs[1][2] \in Pk[r.target]
       ELSE \E k \in ToSet(Constraints[r.source]) :
              /\ k.foreign /\ k.name = r.key /\ SchemaOf[r.target] = SchemaOf[r.source]
              /\ Sole(r) => /\ r.target = k.target
                            /\ \A p \in ToSet(r.pairs) : p \in ToSet(k.cols) \X ToSet(k.to)
                            /\ Len(k.cols) = 1 => r.pairs = <<<<k.cols[1], k.to[1]>>>>
              /\ \A p \in ToSet(r.pairs) :
                   \E t, u \in Bearers(r.key, SchemaOf[r.source]) :
                     \E x \in ToSet(Constraints[t]), y \in ToSet(Constraints[u]) :
                       {x.name, y.name} = {r.key} /\ p \in ToSet(x.cols) \X ToSet(y.to)

\* One engine is open at a time, and none when the run is over.
PoolsReleased ==
  /\ Cardinality(pools) <= 1
  /\ step \in {"done", "failed"} => pools = {}

\* What goes wrong with one table costs no other table: while the target is
\* in reach, every PostgreSQL table that is there is found, materialized views
\* included, and sampled, materialized views excluded, if it has a column to
\* sample.
FaultsStayLocal ==
  (engine = "postgresql" /\ outages = 0) =>
    /\ step # "SchemaDiscovery" => exists \subseteq tables
    /\ step = "ColumnProfiling" =>
         {t \in exists \ MatViews : ~(ToSet(Attributes[t]) \subseteq BlobCols)} \subseteq samples
=============================================================================
