----------------------------- MODULE Discovery -----------------------------
(***************************************************************************)
(* The discovery pipeline of the agent against its metadata database.      *)
(*                                                                         *)
(* DatabaseAgent.start_discovery checks that the connection is stored,     *)
(* writes a first discovery-run row and leaves                             *)
(* DatabaseDiscoveryPipeline.run in a background task that nobody awaits.  *)
(* A run works through the pipeline's steps with one database session;     *)
(* after each step it appends one more row to database_discovery_runs and  *)
(* commits, swallowing every failure.  Its ContextPersistence step writes  *)
(* the knowledge map in the same session.  Clients poll get_status and may *)
(* delete the connection at any time; the process may die at any time.     *)
(*                                                                         *)
(* A session's writes become visible at commit.  The only writes that stay *)
(* uncommitted over an await of another component are those of             *)
(* ContextPersistence ("held"), and while they do, the row locks of the    *)
(* database make a delete and a second save of the same connection wait.   *)
(***************************************************************************)
EXTENDS Naturals, Sequences, FiniteSets

CONSTANTS
  Conn,        \* connection ids (UUIDs handed out by the connection table)
  Run,         \* executions of DatabaseDiscoveryPipeline.run
  Table,       \* tables a target database may hold
  NoRun,       \* a value that is no run
  Target,      \* Target[r]: the connection run r works on
  Steps,       \* the pipeline's steps, in order
  MaxFaults,   \* bound on failing database commits and failing saves
  MaxCrashes   \* bound on deaths of the agent's process

\* _STEP_NAMES: the steps of the code.  A model may run a subsequence of them.
StepNames ==
  { "ConnectionValidation", "SchemaDiscovery", "RelationshipDiscovery",
    "SampleDiscovery", "ColumnProfiling", "DataSanitization",
    "TableSemanticAnalysis", "BusinessDomainDiscovery",
    "BusinessEntityDiscovery", "BusinessConceptDiscovery", "MetricDiscovery",
    "DimensionDiscovery", "DateSemanticDiscovery", "TerminologyDiscovery",
    "RelationshipGraphCreation", "KnowledgeMapGeneration",
    "EmbeddingGeneration", "VectorIndexCreation", "ContextPersistence" }

\* Steps whose body cannot raise: their failures are returned or swallowed.
QuietSteps == { "ConnectionValidation", "RelationshipDiscovery",
                "EmbeddingGeneration", "ContextPersistence" }

NSteps == Len(Steps)

\* The pipeline ends with ContextPersistence, and the schema is discovered
\* by one earlier step.
ASSUME StepsAssumption ==
  /\ Steps \in Seq(StepNames)
  /\ NSteps > 0
  /\ \A i \in 1..NSteps : Steps[i] = "ContextPersistence" <=> i = NSteps
  /\ \E i \in 1..NSteps : Steps[i] = "SchemaDiscovery"

ASSUME ConstantsAssumption ==
  /\ NoRun \notin Run
  /\ Target \in [Run -> Conn]
  /\ MaxFaults \in Nat
  /\ MaxCrashes \in Nat

-----------------------------------------------------------------------------
VARIABLES
  \* The metadata database, as committed.
  kind,      \* kind[c]: "absent", "real" (saved by connect) or "orphan" (placeholder)
  status,    \* status[c]: status column of the connection row
  header,    \* header[c]: the context-version row, as the run that inserted it, or NoRun
  owner,     \* owner[c][t]: run that inserted table t of that version, or NoRun
  log,       \* log[c]: rows of database_discovery_runs
  \* The discovery runs.
  pc,        \* pc[r]: where run r stands
  start,     \* start[r]: its started_at
  pos,       \* pos[r]: number of steps marked done
  broken,    \* broken[r]: a step is marked error
  found,     \* found[r]: tables of the map it built
  sess,      \* sess[r]: FALSE once a flush failed and rollback was not called
  saw,       \* saw[r]: the stored version save_context_full found, or NoRun
  held,      \* held[r]: the map is flushed, not committed
  \* Bookkeeping.
  used,      \* connection ids handed out
  removed,   \* connections a client was told are removed
  clock,     \* last started_at handed out
  faults, crashes

dbVars    == <<kind, status, header, owner, log>>
runVars   == <<pc, start, pos, broken, found, sess, saw, held>>
bookVars  == <<used, removed, clock, faults, crashes>>
vars      == <<dbVars, runVars, bookVars>>

ConnStatus == { "DISCOVERED", "CONNECTED", "READY", "ERROR" }
Idle       == { "idle" }
Active     == { "prep", "queued", "body", "write", "persist",
                "final", "failing" }
Over       == { "raised", "returned", "lost" }
PCs        == Idle \cup Active \cup Over

\* One row of database_discovery_runs: its steps column (how many are done,
\* whether one is in error), its started_at, and the run that wrote it.
Row == [run : Run, start : Nat, done : 0..NSteps, failed : BOOLEAN]

NoTables == [t \in Table |-> NoRun]

TypeOK ==
  /\ kind \in [Conn -> {"absent", "real", "orphan"}]
  /\ status \in [Conn -> ConnStatus]
  /\ header \in [Conn -> Run \cup {NoRun}]
  /\ owner \in [Conn -> [Table -> Run \cup {NoRun}]]
  /\ log \in [Conn -> SUBSET Row]
  /\ pc \in [Run -> PCs]
  /\ start \in [Run -> Nat]
  /\ pos \in [Run -> 0..NSteps]
  /\ broken \in [Run -> BOOLEAN]
  /\ found \in [Run -> SUBSET Table]
  /\ sess \in [Run -> BOOLEAN]
  /\ saw \in [Run -> Run \cup {NoRun}]
  /\ held \in [Run -> BOOLEAN]
  /\ used \in SUBSET Conn
  /\ removed \in SUBSET Conn
  /\ clock \in Nat
  /\ faults \in 0..MaxFaults
  /\ crashes \in 0..MaxCrashes

\* An empty metadata database and no run.
Init ==
  /\ kind = [c \in Conn |-> "absent"]
  /\ status = [c \in Conn |-> "DISCOVERED"]
  /\ header = [c \in Conn |-> NoRun]
  /\ owner = [c \in Conn |-> NoTables]
  /\ log = [c \in Conn |-> {}]
  /\ pc = [r \in Run |-> "idle"]
  /\ start = [r \in Run |-> 0]
  /\ pos = [r \in Run |-> 0]
  /\ broken = [r \in Run |-> FALSE]
  /\ found = [r \in Run |-> {}]
  /\ sess = [r \in Run |-> TRUE]
  /\ saw = [r \in Run |-> NoRun]
  /\ held = [r \in Run |-> FALSE]
  /\ used = {}
  /\ removed = {}
  /\ clock = 0
  /\ faults = 0
  /\ crashes = 0

-----------------------------------------------------------------------------
(***************************************************************************)
(* Statuses.                                                               *)
(***************************************************************************)

\* Bug: a run counts as complete one step early.
RowStatus_EarlyReady(row) == IF row.failed THEN "ERROR"
                             ELSE IF row.done + 1 >= NSteps THEN "READY" ELSE "IDLE"

\* _steps_to_context_status of a row.  No row is ever written while a step
\* is marked running, so the nine statuses of a running step never show.
RowStatus(row) == IF row.failed THEN "ERROR"
                  ELSE IF row.done = NSteps THEN "READY" ELSE "IDLE"

\* Bug: the context status is stored in the connection row as it is.
ConnStatusOf_Raw(row) == RowStatus(row)

\* The connection status _persist_run derives from it.
ConnStatusOf(row) == LET s == RowStatus(row)
                     IN  IF s \in {"READY", "ERROR"} THEN s ELSE "DISCOVERED"

\* The rows get_status may pick: ORDER BY started_at DESC LIMIT 1 does not
\* say which of the many rows a run wrote with one started_at comes first.
NewestRows(c) == {x \in log[c] : \A y \in log[c] : y.start <= x.start}

\* What get_status may answer for connection c.  Any stored map counts as
\* ready (its id is set), and overrides a status of IDLE.
Reports(c) ==
  LET base == IF log[c] = {} THEN {"IDLE"} ELSE {RowStatus(x) : x \in NewestRows(c)}
  IN  {IF s = "IDLE" /\ header[c] # NoRun THEN "READY" ELSE s : s \in base}

-----------------------------------------------------------------------------
(***************************************************************************)
(* The metadata database.                                                  *)
(***************************************************************************)

\* Bug: _persist_run without its placeholder row.
KindAfterPersist_NoPlaceholder(c) == kind[c]

\* A missing connection row is re-created as a placeholder.
KindAfterPersist(c) == IF kind[c] = "absent" THEN "orphan" ELSE kind[c]

\* _persist_run followed by a successful commit.
PersistRun(c, row) ==
  /\ kind' = [kind EXCEPT ![c] = KindAfterPersist(c)]
  /\ status' = [status EXCEPT ![c] = ConnStatusOf(row)]
  /\ log' = [log EXCEPT ![c] = @ \cup {row}]

NothingPersisted == UNCHANGED <<kind, status, log>>

\* A commit, or a statement of a save, that fails in the database.
Fault == faults < MaxFaults /\ faults' = faults + 1

\* A _persist_run, with its commit, that comes to nothing: the database
\* fails, or the connection was deleted after _persist_run looked for it and
\* before it inserted its row.
Refused(c) == \/ Fault
              \/ kind[c] = "absent" /\ c \in removed /\ UNCHANGED faults

RowOf(r) == [run |-> r, start |-> start[r], done |-> pos[r], failed |-> broken[r]]

\* Bug: the tables a save inserted are lost although its commit succeeded.
MapAfterSave_Dropped(r) == owner[Target[r]]

\* Bug: the tables another run stored are replaced.
MapAfterSave_Replaced(r) == [t \in Table |-> IF t \in found[r] THEN r ELSE NoRun]

\* The tables stored for the connection once run r's map is committed.
MapAfterSave(r) ==
  [t \in Table |-> IF t \in found[r] THEN r ELSE owner[Target[r]][t]]

PublishHeld(r) ==
  IF held[r]
  THEN /\ header' = [header EXCEPT ![Target[r]] = IF @ = NoRun THEN r ELSE @]
       /\ owner' = [owner EXCEPT ![Target[r]] = MapAfterSave(r)]
  ELSE UNCHANGED <<header, owner>>

\* Bug: a failed commit leaves the transaction, and its locks, open.
HeldAfterRollback_Kept(r) == held

\* Session.rollback(), or the end of a commit: nothing is pending any more.
HeldAfterRollback(r) == [held EXCEPT ![r] = FALSE]

\* Nobody holds uncommitted context rows of connection c.
Unlocked(c) == \A r \in Run : Target[r] = c => ~held[r]

ActiveOn(c) == {r \in Run : Target[r] = c /\ pc[r] \in Active}

-----------------------------------------------------------------------------
(***************************************************************************)
(* Clients: connecting, deleting, asking for a discovery.                  *)
(***************************************************************************)

\* test_and_save_connection: the row is stored whether the test passed or not.
StoreConnection(c) ==
  /\ c \notin used
  /\ used' = used \cup {c}
  /\ \/ \E s \in {"CONNECTED", "ERROR"} :
          /\ kind' = [kind EXCEPT ![c] = "real"]
          /\ status' = [status EXCEPT ![c] = s]
          /\ UNCHANGED faults
     \/ Fault /\ UNCHANGED <<kind, status>>

\* POST /database/connect.
Connect(c) ==
  /\ StoreConnection(c)
  /\ UNCHANGED <<header, owner, log, runVars, removed, clock, crashes>>

\* connect_and_discover: a failed commit is logged and discovery goes ahead.
ConnectAndDiscover(r) ==
  /\ pc[r] = "idle"
  /\ StoreConnection(Target[r])
  /\ pc' = [pc EXCEPT ![r] = "queued"]
  /\ UNCHANGED <<header, owner, log, start, pos, broken, found, sess, saw,
                 held, removed, clock, crashes>>

\* DELETE /database/connections/{id}: the delete cascades to the context and
\* the run rows.  A failed commit is rolled back and still answered "ok".
Delete(c) ==
  /\ kind[c] # "absent"
  /\ Unlocked(c)
  /\ removed' = removed \cup {c}
  /\ \/ /\ kind' = [kind EXCEPT ![c] = "absent"]
        /\ header' = [header EXCEPT ![c] = NoRun]
        /\ owner' = [owner EXCEPT ![c] = NoTables]
        /\ log' = [log EXCEPT ![c] = {}]
        /\ UNCHANGED faults
     \/ Fault /\ UNCHANGED <<kind, header, owner, log>>
  /\ UNCHANGED <<status, runVars, used, clock, crashes>>

\* Bug: the connection is not looked up first.
MayStart_Unchecked(c) == c \in used

\* _connection_request_from_stored raises when the row is missing.
MayStart(c) == kind[c] # "absent"

\* POST /database/discover: nothing prevents a second run on a connection.
StartDiscovery(r) ==
  /\ pc[r] = "idle"
  /\ MayStart(Target[r])
  /\ pc' = [pc EXCEPT ![r] = "prep"]
  /\ UNCHANGED <<dbVars, start, pos, broken, found, sess, saw, held, bookVars>>

\* start_discovery writes a first row, in a session of its own and with a
\* started_at of its own, then creates the background task.
PrepareRun(r) ==
  /\ pc[r] = "prep"
  /\ clock' = clock + 1
  /\ pc' = [pc EXCEPT ![r] = "queued"]
  /\ \/ /\ PersistRun(Target[r], [RowOf(r) EXCEPT !.start = clock + 1])
        /\ UNCHANGED faults
     \/ Refused(Target[r]) /\ NothingPersisted
  /\ UNCHANGED <<header, owner, start, pos, broken, found, sess, saw, held,
                 used, removed, crashes>>

-----------------------------------------------------------------------------
(***************************************************************************)
(* DatabaseDiscoveryPipeline.run.                                          *)
(***************************************************************************)

\* The task starts: started_at is taken and the initial row is written.
BeginRun(r) ==
  /\ pc[r] = "queued"
  /\ clock' = clock + 1
  /\ start' = [start EXCEPT ![r] = clock + 1]
  /\ pc' = [pc EXCEPT ![r] = "body"]
  /\ \/ /\ PersistRun(Target[r], [RowOf(r) EXCEPT !.start = clock + 1])
        /\ UNCHANGED faults
     \/ Refused(Target[r]) /\ NothingPersisted
  /\ UNCHANGED <<header, owner, pos, broken, found, sess, saw, held,
                 used, removed, crashes>>

NextStep(r) == Steps[pos[r] + 1]

\* What the step at hand needs of the stored connection: the schema is read
\* with its credentials, the samples can fall back to the request's.
StepCanSucceed(r) ==
  CASE NextStep(r) = "SchemaDiscovery" -> kind[Target[r]] = "real"
    [] NextStep(r) = "SampleDiscovery" -> kind[Target[r]] # "absent"
    [] OTHER                           -> TRUE

\* The body of a step other than ContextPersistence ends well.
RunStep(r) ==
  /\ pc[r] = "body"
  /\ NextStep(r) # "ContextPersistence"
  /\ StepCanSucceed(r)
  /\ pos' = [pos EXCEPT ![r] = @ + 1]
  /\ IF NextStep(r) = "SchemaDiscovery"
     THEN \E ts \in SUBSET Table : found' = [found EXCEPT ![r] = ts]
     ELSE UNCHANGED found
  /\ pc' = [pc EXCEPT ![r] = "persist"]
  /\ UNCHANGED <<dbVars, start, broken, sess, saw, held, bookVars>>

\* Bug: the exception of a step is not marked on the step.
BrokenAfter_Unmarked(r) == broken

\* _mark_step_error.
BrokenAfter(r) == [broken EXCEPT ![r] = TRUE]

\* The body of a step raises: the step is marked, run()'s handler takes over.
FailStep(r) ==
  /\ pc[r] = "body"
  /\ NextStep(r) \notin QuietSteps
  /\ broken' = BrokenAfter(r)
  /\ pc' = [pc EXCEPT ![r] = "failing"]
  /\ UNCHANGED <<dbVars, start, pos, found, sess, saw, held, bookVars>>

\* ContextPersistence, save_context_full: look for a stored version.
SelectVersion(r) ==
  /\ pc[r] = "body"
  /\ NextStep(r) = "ContextPersistence"
  /\ saw' = [saw EXCEPT ![r] = header[Target[r]]]
  /\ pc' = [pc EXCEPT ![r] = "write"]
  /\ UNCHANGED <<dbVars, start, pos, broken, found, sess, held, bookVars>>

\* Bug: rows of tables that are already stored are overwritten.
SaveFits_Upsert(r) == header[Target[r]] = saw[r]

\* The flushes of save_context_full meet no constraint: the version read is
\* still there and none of the tables is stored under it; or there is none
\* yet, version 1 is inserted, and its connection exists.
SaveFits(r) ==
  /\ header[Target[r]] = saw[r]
  /\ \/ saw[r] = NoRun /\ kind[Target[r]] # "absent"
     \/ saw[r] # NoRun /\ \A t \in found[r] : owner[Target[r]][t] = NoRun

\* save_context_full flushes the map.  A violated constraint breaks the
\* session; so does the retry in the same session, and the step is "done"
\* all the same.
WriteMap(r) ==
  /\ pc[r] = "write"
  /\ Unlocked(Target[r])
  /\ \/ SaveFits(r) /\ held' = [held EXCEPT ![r] = TRUE] /\ UNCHANGED <<sess, faults>>
     \/ ~SaveFits(r) /\ sess' = [sess EXCEPT ![r] = FALSE] /\ UNCHANGED <<held, faults>>
     \/ Fault /\ sess' = [sess EXCEPT ![r] = FALSE] /\ UNCHANGED held
  /\ pos' = [pos EXCEPT ![r] = @ + 1]
  /\ pc' = [pc EXCEPT ![r] = "persist"]
  /\ UNCHANGED <<dbVars, start, broken, found, saw, used, removed, clock, crashes>>

\* After a step: _persist_run and commit ...
CommitStep(r) ==
  /\ pc[r] = "persist"
  /\ sess[r]
  /\ PersistRun(Target[r], RowOf(r))
  /\ PublishHeld(r)
  /\ held' = [held EXCEPT ![r] = FALSE]
  /\ pc' = [pc EXCEPT ![r] = IF pos[r] = NSteps THEN "final" ELSE "body"]
  /\ UNCHANGED <<start, pos, broken, found, sess, saw, bookVars>>

\* ... or a commit that raises, in a broken session or refused: everything
\* since the last commit is rolled back and the run goes on.
LoseStep(r) ==
  /\ pc[r] = "persist"
  /\ \/ ~sess[r] /\ UNCHANGED faults
     \/ sess[r] /\ Refused(Target[r])
  /\ held' = HeldAfterRollback(r)
  /\ sess' = [sess EXCEPT ![r] = TRUE]
  /\ pc' = [pc EXCEPT ![r] = IF pos[r] = NSteps THEN "final" ELSE "body"]
  /\ UNCHANGED <<dbVars, start, pos, broken, found, saw, used, removed, clock, crashes>>

\* After the last step one more row is written; when that commit raises, the
\* run falls into its own exception handler.
FinishRun(r) ==
  /\ pc[r] = "final"
  /\ \/ /\ PersistRun(Target[r], RowOf(r))
        /\ pc' = [pc EXCEPT ![r] = "returned"]
        /\ UNCHANGED faults
     \/ /\ Refused(Target[r])
        /\ NothingPersisted
        /\ pc' = [pc EXCEPT ![r] = "failing"]
  /\ UNCHANGED <<header, owner, start, pos, broken, found, sess, saw, held,
                 used, removed, clock, crashes>>

\* The exception handler: roll back, write the row of the failed run, raise.
FailRun(r) ==
  /\ pc[r] = "failing"
  /\ \/ PersistRun(Target[r], RowOf(r)) /\ UNCHANGED faults
     \/ Refused(Target[r]) /\ NothingPersisted
  /\ held' = HeldAfterRollback(r)
  /\ sess' = [sess EXCEPT ![r] = TRUE]
  /\ pc' = [pc EXCEPT ![r] = "raised"]
  /\ UNCHANGED <<header, owner, start, pos, broken, found, saw, used, removed,
                 clock, crashes>>

\* The process dies, or shuts down, under its background tasks; nothing
\* resumes them when it starts again.
Crash ==
  /\ crashes < MaxCrashes
  /\ crashes' = crashes + 1
  /\ pc' = [r \in Run |-> IF pc[r] \in Active THEN "lost" ELSE pc[r]]
  /\ held' = [r \in Run |-> FALSE]
  /\ sess' = [r \in Run |-> TRUE]
  /\ UNCHANGED <<dbVars, start, pos, broken, found, saw, used, removed, clock, faults>>

Progress(r) == \/ PrepareRun(r) \/ BeginRun(r)
               \/ RunStep(r) \/ FailStep(r)
               \/ SelectVersion(r) \/ WriteMap(r)
               \/ CommitStep(r) \/ LoseStep(r)
               \/ FinishRun(r) \/ FailRun(r)

Next == \/ \E c \in Conn : Connect(c) \/ Delete(c)
        \/ \E r \in Run : ConnectAndDiscover(r) \/ StartDiscovery(r) \/ Progress(r)
        \/ Crash

Spec == Init /\ [][Next]_vars

\* The event loop keeps running every task that can run.
FairSpec == Spec /\ \A r \in Run : WF_vars(Progress(r))

-----------------------------------------------------------------------------
(***************************************************************************)
(* What holds of the code.                                                 *)
(***************************************************************************)

\* Foreign keys: whatever the interleaving of deletes, placeholders and
\* saves, no context version, table or run row outlives its connection row.
Referential ==
  \A c \in Conn : kind[c] = "absent" =>
    header[c] = NoRun /\ owner[c] = NoTables /\ log[c] = {}

Contribution(c, r) == {t \in Table : owner[c][t] = r}

\* A run's map is stored whole or not at all: the flushes of save_context_full
\* that went through before one failed never reach a reader.
MapWhole ==
  \A c \in Conn, r \in Run :
    Contribution(c, r) # {} => c = Target[r] /\ Contribution(c, r) = found[r]

HasReadyRow(r) == \E x \in log[Target[r]] : x.run = r /\ RowStatus(x) = "READY"

\* A client that is told READY, by the status endpoint or in the list of
\* connections, finds a map to query, unless the database failed or the
\* connection was deleted: a save that was rejected lost to another map.
ReadyIsQueryable ==
  \A c \in Conn :
    (faults = 0 /\ c \notin removed /\ ("READY" \in Reports(c) \/ status[c] = "READY"))
      => header[c] # NoRun

\* The only discovery a connection ever had, once it is READY, is the map
\* that is stored: nothing on its way to the database is dropped.
FirstDiscoveryStored ==
  \A r \in Run :
    (/\ faults = 0 /\ Target[r] \notin removed /\ HasReadyRow(r)
     /\ \A w \in Run : Target[w] = Target[r] /\ pc[w] # "idle" => w = r)
      => header[Target[r]] = r /\ Contribution(Target[r], r) = found[r]

\* How run() ended is on record: a run that returned has a READY row, a run
\* that raised has an ERROR row and no READY row, unless the database failed
\* or the connection was deleted.
OutcomeRecorded ==
  \A r \in Run :
    faults = 0 /\ Target[r] \notin removed =>
      LET stored == {RowStatus(x) : x \in {y \in log[Target[r]] : y.run = r}}
      IN  /\ pc[r] = "returned" => "READY" \in stored /\ "ERROR" \notin stored
          /\ pc[r] = "raised" => "ERROR" \in stored /\ "READY" \notin stored

\* A failing, losing or racing re-discovery never damages the map that
\* queries are answered from: a stored table stays, attributed to the same
\* run, until its connection is deleted.
StoredTablesKept ==
  [][\A c \in Conn, t \in Table :
       owner[c][t] # NoRun => owner'[c][t] = owner[c][t] \/ kind'[c] = "absent"]_vars

\* Once a connection is gone and no run is at work on it, it is gone for
\* good: only a run that was started while it existed can bring it back.
GoneForGood ==
  [][\A c \in used :
       kind[c] = "absent" /\ ActiveOn(c) = {} =>
         kind'[c] = "absent" /\ ActiveOn(c)' = {}]_vars

\* The metadata database implements the catalogue of published maps.
Catalogue == INSTANCE PublishedMaps
PublishedAtomically == Catalogue!Spec

\* What questions see of a connection is what StoredMap says: maps grow until
\* the connection goes, and go with it.
Reader(c) == INSTANCE StoredMap WITH
  alive  <- kind[c] # "absent",
  mapped <- header[c] # NoRun,
  stored <- {t \in Table : owner[c][t] # NoRun}
ReadersView ==
  /\ \A c \in Conn : Reader(c)!Init
  /\ [][\A c \in Conn : [Reader(c)!Next]_(Reader(c)!view)]_vars

\* Every background run ends, however many of them save the same connection
\* at once: no lock outlives the run that holds it.
RunsEnd == \A r \in Run : pc[r] \in Active ~> pc[r] \in Over

-----------------------------------------------------------------------------
(***************************************************************************)
(* What the documentation says and the code does not do.                   *)
(***************************************************************************)

\* README: POST /database/discover persists the context version it built with
\* its tables.  Of runs that all returned, without any fault, the tables of
\* the last one should then be stored as it found them.
RefreshStored ==
  \A r \in Run :
    (/\ pc[r] = "returned"
     /\ \A w \in Run : Target[w] = Target[r] => pc[w] \in {"idle", "returned"} /\ start[w] <= start[r]
     /\ Target[r] \notin removed)
      => Contribution(Target[r], r) = found[r]

\* README: DELETE /database/connections/{id} removes a connection.
RemovedStaysRemoved ==
  [][\A c \in removed : kind[c] = "absent" => kind'[c] = "absent"]_vars

\* README: the client polls the status until READY, which says that the
\* discovery it started is complete.
ReadyMeansComplete ==
  \A c \in Conn : "READY" \in Reports(c) =>
    \A x \in NewestRows(c) : \E y \in NewestRows(c) : y.run = x.run /\ y.done = NSteps
=============================================================================
