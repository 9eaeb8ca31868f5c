--------------------------- MODULE QueryPipeline ---------------------------
(***************************************************************************)
(* Questions to the agent: QueryPipeline.run (POST /query) and             *)
(* QueryPipeline.explain (POST /query/explain), with the SQL execution     *)
(* service and the processing of the rows they call.                       *)
(*                                                                         *)
(* A question reads the stored knowledge map of the connection in several  *)
(* SELECTs, so that discovery runs and deletes may come in between; then   *)
(* generates, validates and executes SQL, starting again after any failure *)
(* until the attempts are used up.  Each attempt opens an engine of its    *)
(* own on the target database and one session on it.                       *)
(*                                                                         *)
(* The map's tables stand for the map; what the LLM writes is any          *)
(* statement over any tables; what the target answers is a number of rows. *)
(***************************************************************************)
EXTENDS Integers, FiniteSets

CONSTANTS
  Question,       \* requests
  Table,          \* tables of the target, its system catalogues included, and
                  \* tables the LLM makes up
  NameOf,         \* NameOf[t]: the table's name without its schema, in lower case
  SchemaOf,       \* SchemaOf[t]: its schema, in lower case
  CteName,        \* what the LLM may call a common table expression
  SystemSchemas,  \* information_schema, pg_catalog, pg_toast and sys
  SystemNames,    \* names that begin with pg_, gp_, spt_, sysx or dtproperties
  SearchPath,     \* the connection's schema, where unqualified names are looked up
  Public,         \* the schema "public"
  TargetKind,     \* the connection's database_type
  SqlRetryCount,  \* settings.SQL_RETRY_COUNT
  MaxQueryRows,   \* settings.MAX_QUERY_ROWS
  Limits,         \* LIMITs the LLM writes
  MaxMatching     \* bound on the rows a statement matches

ASSUME SettingsAssumption ==
  /\ TargetKind \in {"postgresql", "sqlserver"}
  /\ SqlRetryCount \in Int
  /\ MaxQueryRows \in Nat \ {0}
  /\ Limits \subseteq Nat \ {0}
  /\ MaxMatching \in Nat

MaxAttempts == IF SqlRetryCount + 1 > 1 THEN SqlRetryCount + 1 ELSE 1

\* A statement: its tables, the names of its common table expressions, its form,
\* its LIMIT (0: none), and whether the agent added that LIMIT.  A "nested" one
\* has the word LIMIT in its text but no LIMIT on the outer select; "grouped"
\* ones aggregate; "union" ones are set operations.
Forms == {"plain", "nested", "grouped", "union"}
Statement == [tables : SUBSET Table, ctes : SUBSET CteName, form : Forms,
              limit : Limits \cup {0, MaxQueryRows}, added : BOOLEAN]
NoStatement == [tables |-> {}, ctes |-> {}, form |-> "none", limit |-> 0, added |-> FALSE]

\* Rows of an execution: how many are kept, whether they are flagged as
\* truncated, and how many the statement matches without any LIMIT.
Result == [rows : Nat, truncated : BOOLEAN, matching : Nat]
NoResult == [rows |-> 0, truncated |-> FALSE, matching |-> -1]

Stages == { "idle", "version", "map", "tables", "joins", "retrieve", "intent",
            "generate", "validate", "config", "open", "guard", "execute",
            "close", "respond", "done" }
OnTarget == {"guard", "execute", "close"}

VARIABLES
  \* The metadata database.
  alive,     \* the connection's row exists
  mapped,    \* a context version is stored; what is stored is READY
  stored,    \* its tables
  \* The requests.
  mode,      \* mode[q]: "ask" or "explain"
  stage,     \* stage[q]: the call request q is in
  kmap,      \* kmap[q]: tables of the map in memory
  joins,     \* joins[q]: tables its relationships are about
  relevant,  \* relevant[q]: tables retrieved for the question
  attempt,   \* attempt[q]: number of the SQL attempt
  retries,   \* retries[q]: length of the list of failed attempts
  plan,      \* plan[q]: the statement generated last
  valid,     \* valid[q]: the statement validated last
  config,    \* config[q]: the target's configuration is loaded
  engine,    \* engine[q]: an engine on the target is open
  tx,        \* tx[q]: transaction of the session on the target
  result,    \* result[q]: the rows of the statement that ran
  outcome,   \* outcome[q]: how the request ended
  \* Bookkeeping.
  dropped    \* the connection was deleted at some time

dbVars  == <<alive, mapped, stored, dropped>>
mapVars == <<mode, kmap, joins, relevant>>
sqlVars == <<attempt, retries, plan, valid, config>>
runVars == <<engine, tx, result>>
vars    == <<dbVars, mapVars, sqlVars, runVars, stage, outcome>>

Outcomes == {"none", "answered", "not_a_query", "not_found", "failed", "raised"}

TypeOK ==
  /\ alive \in BOOLEAN /\ mapped \in BOOLEAN /\ dropped \in BOOLEAN
  /\ stored \in SUBSET Table
  /\ mode \in [Question -> {"ask", "explain"}]
  /\ stage \in [Question -> Stages]
  /\ kmap \in [Question -> SUBSET Table]
  /\ joins \in [Question -> SUBSET Table]
  /\ relevant \in [Question -> SUBSET Table]
  /\ attempt \in [Question -> 0..MaxAttempts]
  /\ retries \in [Question -> 0..MaxAttempts]
  /\ plan \in [Question -> Statement \cup {NoStatement}]
  /\ valid \in [Question -> Statement \cup {NoStatement}]
  /\ config \in [Question -> BOOLEAN]
  /\ engine \in [Question -> BOOLEAN]
  /\ tx \in [Question -> {"none", "read_only", "read_write", "aborted"}]
  /\ result \in [Question -> Result \cup {NoResult}]
  /\ outcome \in [Question -> Outcomes]

\* A connected database that is not discovered yet, and no request.
Init ==
  /\ alive = TRUE /\ mapped = FALSE /\ stored = {} /\ dropped = FALSE
  /\ mode = [q \in Question |-> "ask"]
  /\ stage = [q \in Question |-> "idle"]
  /\ kmap = [q \in Question |-> {}]
  /\ joins = [q \in Question |-> {}]
  /\ relevant = [q \in Question |-> {}]
  /\ attempt = [q \in Question |-> 0]
  /\ retries = [q \in Question |-> 0]
  /\ plan = [q \in Question |-> NoStatement]
  /\ valid = [q \in Question |-> NoStatement]
  /\ config = [q \in Question |-> FALSE]
  /\ engine = [q \in Question |-> FALSE]
  /\ tx = [q \in Question |-> "none"]
  /\ result = [q \in Question |-> NoResult]
  /\ outcome = [q \in Question |-> "none"]

-----------------------------------------------------------------------------
(***************************************************************************)
(* The metadata database, as Discovery.tla leaves it to readers: it moves  *)
(* between any two steps of a request.                                     *)
(***************************************************************************)

Database == INSTANCE StoredMap

\* A discovery commits a map.
PublishMap ==
  /\ Database!Publish
  /\ UNCHANGED <<dropped, mapVars, sqlVars, runVars, stage, outcome>>

\* A discovery re-creates the deleted connection.
RestoreConnection ==
  /\ ~alive
  /\ Database!Appear
  /\ UNCHANGED <<dropped, mapVars, sqlVars, runVars, stage, outcome>>

\* The connection is deleted, and its map with it.
DropConnection ==
  /\ Database!Drop
  /\ dropped' = TRUE
  /\ UNCHANGED <<mapVars, sqlVars, runVars, stage, outcome>>

-----------------------------------------------------------------------------
(***************************************************************************)
(* Loading the map and understanding the question.                         *)
(***************************************************************************)

Goto(q, s) == stage' = [stage EXCEPT ![q] = s] /\ UNCHANGED outcome

End(q, how) == /\ stage' = [stage EXCEPT ![q] = "done"]
               /\ outcome' = [outcome EXCEPT ![q] = how]

\* POST /query or POST /query/explain.
Ask(q) ==
  /\ stage[q] = "idle"
  /\ \E m \in {"ask", "explain"} : mode' = [mode EXCEPT ![q] = m]
  /\ Goto(q, "version")
  /\ UNCHANGED <<dbVars, kmap, joins, relevant, sqlVars, runVars>>

\* get_latest_context_version: the id of the newest version.  A failing
\* SELECT is answered "not found" too.
FindVersion(q) ==
  /\ stage[q] = "version"
  /\ \/ mapped /\ Goto(q, "map")
     \/ End(q, "not_found")
  /\ UNCHANGED <<dbVars, mapVars, sqlVars, runVars>>

\* get_knowledge_map: the version's row, by that id.
ReadVersion(q) ==
  /\ stage[q] = "map"
  /\ \/ mapped /\ Goto(q, "tables")
     \/ End(q, "not_found")
  /\ UNCHANGED <<dbVars, mapVars, sqlVars, runVars>>

\* Its tables, with a SELECT of their own ...
ReadTables(q) ==
  /\ stage[q] = "tables"
  /\ \/ kmap' = [kmap EXCEPT ![q] = stored] /\ Goto(q, "joins")
     \/ UNCHANGED kmap /\ End(q, "not_found")
  /\ UNCHANGED <<dbVars, mode, joins, relevant, sqlVars, runVars>>

\* ... and its relationships, with another.
ReadJoins(q) ==
  /\ stage[q] = "joins"
  /\ \/ joins' = [joins EXCEPT ![q] = stored] /\ Goto(q, "retrieve")
     \/ UNCHANGED joins /\ End(q, "not_found")
  /\ UNCHANGED <<dbVars, mode, kmap, relevant, sqlVars, runVars>>

\* SchemaRetrievalService: some of the map's tables, or an error.
Retrieve(q) ==
  /\ stage[q] = "retrieve"
  /\ \/ /\ \E ts \in SUBSET kmap[q] : relevant' = [relevant EXCEPT ![q] = ts]
        /\ Goto(q, "intent")
     \/ UNCHANGED relevant /\ End(q, "failed")
  /\ UNCHANGED <<dbVars, mode, kmap, joins, sqlVars, runVars>>

\* The intent falls back to rules, and fails for a blank question only.  run()
\* then builds the plan and goes on with a question about the data; explain()
\* awaits build_semantic_plan, which is no coroutine, and raises TypeError.
DetectIntent(q) ==
  /\ stage[q] = "intent"
  /\ \/ /\ mode[q] = "ask"
        /\ \/ Goto(q, "generate") /\ attempt' = [attempt EXCEPT ![q] = 1]
           \/ End(q, "not_a_query") /\ UNCHANGED attempt
     \/ /\ mode[q] = "explain"
        /\ End(q, "raised")
        /\ UNCHANGED attempt
     \/ End(q, "failed") /\ UNCHANGED attempt
  /\ UNCHANGED <<dbVars, mapVars, retries, plan, valid, config, runVars>>

-----------------------------------------------------------------------------
(***************************************************************************)
(* The SQL attempts.                                                       *)
(***************************************************************************)

\* Bug: one attempt too many.
LastAttempt_TooLate(q) == attempt[q] > MaxAttempts

LastAttempt(q) == attempt[q] >= MaxAttempts

\* Any exception in an attempt: it is recorded, and the next one starts.
FailAttempt(q) ==
  /\ retries' = [retries EXCEPT ![q] = @ + 1]
  /\ IF LastAttempt(q)
     THEN End(q, "failed") /\ UNCHANGED attempt
     ELSE Goto(q, "generate") /\ attempt' = [attempt EXCEPT ![q] = @ + 1]

Advance(q, s) == Goto(q, s) /\ UNCHANGED <<attempt, retries>>

\* _sql_has_limit looks at the text of the statement.
HasLimit(s) == s.limit # 0 \/ s.form = "nested"

\* SQLGenerationService: the LLM writes a statement; when the plan names no
\* grouping and no aggregate metric, which need not agree with the statement,
\* and the text has no LIMIT, LIMIT MAX_QUERY_ROWS is appended.
Generate(q) ==
  /\ stage[q] = "generate"
  /\ \/ /\ \E ts \in SUBSET Table, cs \in SUBSET CteName, f \in Forms, n \in Limits \cup {0},
              hinted \in BOOLEAN :
             LET s == [tables |-> ts, ctes |-> cs, form |-> f, limit |-> n, added |-> FALSE]
             IN  plan' = [plan EXCEPT ![q] =
                            IF hinted /\ ~HasLimit(s)
                            THEN [s EXCEPT !.limit = MaxQueryRows, !.added = TRUE] ELSE s]
        /\ Advance(q, "validate")
     \/ FailAttempt(q) /\ UNCHANGED plan
  /\ UNCHANGED <<dbVars, mapVars, valid, config, runVars>>

\* Tables a statement may name: the retrieved ones, or the whole map when
\* nothing was retrieved.
Allowed(q) == IF relevant[q] # {} THEN relevant[q] ELSE kmap[q]

\* Schemas it may name: those of the retrieved tables, or "public".
AllowedSchemas(q) == IF relevant[q] # {} THEN {SchemaOf[t] : t \in relevant[q]} ELSE {Public}

\* Names that need not be allowed: a system schema's, a system table's, and
\* those of the statement's own expressions, which are compared with the bare
\* name, so that a table with its schema in front passes under them.
Exempt(s, t) == SchemaOf[t] \in SystemSchemas \/ NameOf[t] \in SystemNames \cup s.ctes

\* allowed_tables holds qualified and bare names, so that a qualified name
\* passes when its bare name is allowed and, apart from that, its schema is.
\* An unqualified one has no schema to check.
MayName(q, s, t) ==
  /\ Exempt(s, t) \/ \E a \in Allowed(q) : NameOf[a] = NameOf[t]
  /\ SchemaOf[t] \in AllowedSchemas(q) \cup {SearchPath} \cup SystemSchemas

\* Bug: a corrected statement is not validated again.
Acceptable_Once(q) == attempt[q] > 1 \/ \A t \in plan[q].tables : MayName(q, plan[q], t)

\* SQLValidationService rejects for many reasons; it accepts no other table.
Acceptable(q) == \A t \in plan[q].tables : MayName(q, plan[q], t)

Validate(q) ==
  /\ stage[q] = "validate"
  /\ \/ /\ Acceptable(q)
        /\ valid' = [valid EXCEPT ![q] = plan[q]]
        /\ Advance(q, IF config[q] THEN "open" ELSE "config")
     \/ FailAttempt(q) /\ UNCHANGED valid
  /\ UNCHANGED <<dbVars, mapVars, plan, config, runVars>>

\* _load_connection_config, once per request: raises when the row is gone.
LoadConfig(q) ==
  /\ stage[q] = "config"
  /\ \/ /\ alive
        /\ config' = [config EXCEPT ![q] = TRUE]
        /\ Advance(q, "open")
     \/ FailAttempt(q) /\ UNCHANGED config
  /\ UNCHANGED <<dbVars, mapVars, plan, valid, runVars>>

-----------------------------------------------------------------------------
(***************************************************************************)
(* SQLExecutionService.                                                    *)
(***************************************************************************)

OpenEngine(q) ==
  /\ stage[q] = "open"
  /\ \/ engine' = [engine EXCEPT ![q] = TRUE] /\ Advance(q, "guard")
     \/ UNCHANGED engine /\ FailAttempt(q)
  /\ UNCHANGED <<dbVars, mapVars, plan, valid, config, tx, result>>

\* _set_session_statement_timeout.  PostgreSQL: SET TRANSACTION READ ONLY is
\* followed by a commit, which ends the transaction it was for; a failing SET
\* is swallowed and leaves the transaction aborted.  SQL Server: the SETs
\* open a transaction and cannot abort it.
GuardSession(q) ==
  /\ stage[q] = "guard"
  /\ \E t \in IF TargetKind = "postgresql" THEN {"none", "aborted"} ELSE {"read_write"} :
       tx' = [tx EXCEPT ![q] = t]
  /\ Advance(q, "execute")
  /\ UNCHANGED <<dbVars, mapVars, plan, valid, config, engine, result>>

\* Rows a statement returns when n rows match.
Yield(s, n) == IF s.limit # 0 /\ s.limit < n THEN s.limit ELSE n

\* The executor's own limit: one row more than the client may get.
SentinelLimit == MaxQueryRows + 1

\* The executor puts its limit on statements that do not aggregate and whose
\* text has no LIMIT; apply_row_limit leaves set operations as they are.
Limited(s) == s.form # "grouped" /\ ~HasLimit(s)

Fetched(s, n) ==
  LET sent == IF Limited(s) /\ s.form # "union" THEN [s EXCEPT !.limit = SentinelLimit] ELSE s
      got  == Yield(sent, n)
      cut  == Limited(s) /\ got > MaxQueryRows
  IN  [rows |-> IF cut THEN MaxQueryRows ELSE got, truncated |-> cut, matching |-> n]

\* Bug: a statement that cannot run is waited for.
Execute_Waits(q) ==
  /\ stage[q] = "execute"
  /\ tx[q] # "aborted"
  /\ \E n \in 0..MaxMatching : result' = [result EXCEPT ![q] = Fetched(valid[q], n)]
  /\ tx' = [tx EXCEPT ![q] = "read_write"]
  /\ Advance(q, "close")
  /\ UNCHANGED <<dbVars, mapVars, plan, valid, config, engine>>

\* The statement runs, in a transaction it opens itself if none is open, or
\* fails: on a timeout, an error, or a transaction that is aborted.
Execute(q) ==
  /\ stage[q] = "execute"
  /\ \/ /\ tx[q] # "aborted"
        /\ \E n \in 0..MaxMatching : result' = [result EXCEPT ![q] = Fetched(valid[q], n)]
        /\ tx' = [tx EXCEPT ![q] = IF @ = "none" THEN "read_write" ELSE @]
     \/ UNCHANGED <<result, tx>>
  /\ Advance(q, "close")
  /\ UNCHANGED <<dbVars, mapVars, plan, valid, config, engine>>

\* Bug: the engine is closed only when the statement succeeded.
EngineAfter_SuccessOnly(q) == [engine EXCEPT ![q] = result[q] = NoResult]

\* finally: close_engine.
EngineAfter(q) == [engine EXCEPT ![q] = FALSE]

\* The session is closed, which rolls back, and the engine disposed of.
CloseEngine(q) ==
  /\ stage[q] = "close"
  /\ engine' = EngineAfter(q)
  /\ tx' = [tx EXCEPT ![q] = "none"]
  /\ IF result[q] # NoResult THEN Advance(q, "respond") ELSE FailAttempt(q)
  /\ UNCHANGED <<dbVars, mapVars, plan, valid, config, result>>

-----------------------------------------------------------------------------
(***************************************************************************)
(* The answer.                                                             *)
(***************************************************************************)

\* Bug: rows over the token budget are dropped without a word.
Processed_Silent(r, k) == [r EXCEPT !.rows = k, !.truncated = @ \/ r.rows > MaxQueryRows]

\* QueryResultService.process_results keeps k of the rows: at most
\* MAX_QUERY_ROWS, and no more than fit the token budget.
Processed(r, k) == [r EXCEPT !.rows = k, !.truncated = @ \/ k < r.rows]

\* The token budget always lets the first row through.  Wording the answer
\* falls back to a fixed text when the LLM fails.
Respond(q) ==
  /\ stage[q] = "respond"
  /\ \E k \in 0..MaxQueryRows :
       /\ k <= result[q].rows
       /\ result[q].rows > 0 => k > 0
       /\ result' = [result EXCEPT ![q] = Processed(@, k)]
  /\ End(q, "answered")
  /\ UNCHANGED <<dbVars, mapVars, sqlVars, engine, tx>>

Work(q) == \/ FindVersion(q) \/ ReadVersion(q) \/ ReadTables(q) \/ ReadJoins(q)
           \/ Retrieve(q) \/ DetectIntent(q)
           \/ Generate(q) \/ Validate(q) \/ LoadConfig(q)
           \/ OpenEngine(q) \/ GuardSession(q) \/ Execute(q) \/ CloseEngine(q)
           \/ Respond(q)

Next == \/ PublishMap \/ RestoreConnection \/ DropConnection
        \/ \E q \in Question : Ask(q) \/ Work(q)

Spec == Init /\ [][Next]_vars

\* The event loop runs every request, and every call it awaits returns: LLM
\* and database calls have timeouts of their own.
FairSpec == Spec /\ \A q \in Question : WF_vars(Work(q))

-----------------------------------------------------------------------------
(***************************************************************************)
(* What holds of the code.                                                 *)
(***************************************************************************)

\* Stages at which valid[q] is the statement at hand.
Accepted == {"config", "open", "guard", "execute", "close", "respond"}

\* The schemas of a map, and those that are always open.
SchemasOf(ts) == {SchemaOf[a] : a \in ts} \cup {Public, SearchPath}

\* Tables with the name of a table of the set ts and a schema of one, or a
\* schema that is always open.
Namesakes(ts) ==
  {t \in Table : (\E a \in ts : NameOf[a] = NameOf[t]) /\ SchemaOf[t] \in SchemasOf(ts)}

\* Tables of a statement that are covered by a map: the others are in a system
\* schema, or have a schema of the map and a name that validation exempts.
CoveredBy(s, ts) ==
  \A t \in s.tables \ Namesakes(ts) :
    \/ SchemaOf[t] \in SystemSchemas
    \/ SchemaOf[t] \in SchemasOf(ts) /\ NameOf[t] \in SystemNames \cup s.ctes

\* Whatever attempt a statement comes from, and however the stored map changed
\* since, a table that it names at the target bears the name of a table, and the
\* schema of a table, of the map the question was asked against; or it is in a
\* system schema; or its schema is one of these and its name one that validation
\* exempts.  That one table of the map bears both is more than the code ensures:
\* with a.x and b.y retrieved, b.x passes.
NamesCovered ==
  \A q \in Question :
    stage[q] \in Accepted \/ outcome[q] = "answered" => CoveredBy(valid[q], kmap[q])

\* Relationships are read after the tables: short of a delete in between, a
\* question never sees tables without the relationships they came with.
JoinsCoverTables ==
  \A q \in Question :
    ~dropped /\ stage[q] \notin {"idle", "version", "map", "tables", "joins"} =>
      kmap[q] \subseteq joins[q] \/ outcome[q] = "not_found"

\* Every failed attempt is on record, and no more than SQL_RETRY_COUNT of
\* them are followed by another one: an answer from attempt n lists n - 1
\* retries, a failed question lists them all.
AttemptsAccounted ==
  \A q \in Question :
    /\ retries[q] <= MaxAttempts
    /\ stage[q] # "done" /\ attempt[q] > 0 => retries[q] = attempt[q] - 1
    /\ outcome[q] = "answered" => retries[q] = attempt[q] - 1 /\ retries[q] < MaxAttempts
    /\ outcome[q] = "failed" /\ attempt[q] > 0 => retries[q] = MaxAttempts

\* An answer never carries more than MAX_QUERY_ROWS rows, and one that does
\* not carry all the rows of the statement it shows says so.
MissingRowsFlagged ==
  \A q \in Question : outcome[q] = "answered" =>
    /\ result[q].rows <= MaxQueryRows
    /\ result[q].truncated \/ result[q].rows = Yield(valid[q], result[q].matching)

\* Engines are open only while a statement is on its way; every attempt, also
\* one that fails, gives its own back before the next one opens another.
EnginesReleased ==
  \A q \in Question : engine[q] => stage[q] \in OnTarget

\* Every request is answered, whatever fails on the way.
EveryQuestionEnds ==
  \A q \in Question : stage[q] = "version" ~> stage[q] = "done"

-----------------------------------------------------------------------------
(***************************************************************************)
(* What the documentation says and the code does not do.                   *)
(***************************************************************************)

\* README: the pipeline adds LIMIT MAX_QUERY_ROWS + 1, the extra row being
\* there to detect truncation.
AddedLimitDetected ==
  \A q \in Question : outcome[q] = "answered" /\ valid[q].added =>
    result[q].truncated \/ result[q].rows = result[q].matching

\* README: statements execute in a read-only transaction.
ReadOnlyTransaction ==
  \A q \in Question : result[q] # NoResult /\ stage[q] = "close" => tx[q] = "read_only"
=============================================================================
