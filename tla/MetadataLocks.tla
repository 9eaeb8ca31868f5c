---------------------------- MODULE MetadataLocks ----------------------------
(***************************************************************************)
(* Who waits for whom in the metadata database.                            *)
(*                                                                         *)
(* Discoveries, deletes of connections and questions take connections from *)
(* one pool.  Each works in transactions; in a transaction it asks for     *)
(* locks one at a time and keeps them to the commit or rollback, with the  *)
(* connection.  A run's session gives its connection back at each commit;  *)
(* the VectorIndexCreation step goes past the session and takes one of the *)
(* engine's.  A question keeps its connection from the first SELECT to the *)
(* answer, through all its LLM calls, and takes no lock that anyone here   *)
(* waits for.                                                              *)
(*                                                                         *)
(* Discovery.tla says what is written; here a transaction is the set of    *)
(* the locks it asks for and the order the code asks in.  The locks, what  *)
(* conflicts and the victim of a deadlock are PostgreSQL's.                *)
(***************************************************************************)
EXTENDS Naturals, Sequences, FiniteSets

CONSTANTS
  Run,        \* executions of DatabaseDiscoveryPipeline.run
  Delete,     \* requests to delete a connection
  Question,   \* requests to answer a question
  Conn,       \* stored connections
  Target,     \* Target[a]: the connection run or delete a is about
  Indexes,    \* the database's tables that get a vector index, in this order
  PoolSize,   \* connections the pool lends at most
  NoConn,     \* no connection: the lock is on a whole table
  NoLock      \* no lock is waited for

Actor == Run \cup Delete \cup Question
Relation == {Indexes[i] : i \in DOMAIN Indexes}

\* pool_size + max_overflow is 30; the list of VectorIndexCreation has nine
\* tables, of which a model may leave some out.
ASSUME LocksAssumption ==
  /\ Run \cap (Delete \cup Question) = {}
  /\ Delete \cap Question = {}
  /\ Target \in [Run \cup Delete -> Conn]
  /\ Indexes \in Seq({"tables", "columns", "domains", "entities", "concepts",
                      "metrics", "dimensions", "terminology", "embeddings"})
  /\ \A i, j \in DOMAIN Indexes : Indexes[i] = Indexes[j] => i = j
  /\ Len(Indexes) > 0 /\ Indexes[1] = "tables"
  /\ PoolSize \in Nat \ {0}
  /\ NoConn \notin Conn

\* Locks on a table and on rows of a connection c: "connection" is its row,
\* "version" the row of its context version, "rows" the rows of its tables.
Modes == {"share", "row exclusive", "key share", "no key update", "update", "insert"}
Lock == [what : Relation \cup {"connection", "version", "rows"},
         of : Conn \cup {NoConn}, mode : Modes]

ASSUME NoLockAssumption == NoLock \notin Lock

On(x, mode) == [what |-> x, of |-> NoConn, mode |-> mode]
Row(what, c, mode) == [what |-> what, of |-> c, mode |-> mode]

\* PostgreSQL's table of conflicts; two inserts of one key, and an insert of
\* a key whose row is being deleted, wait like a lock.
Conflicting == { {"share", "row exclusive"}, {"key share", "update"},
                 {"no key update"}, {"no key update", "update"}, {"update"},
                 {"insert"}, {"insert", "update"} }
Conflict(l, m) ==
  l.what = m.what /\ l.of = m.of /\ {l.mode, m.mode} \in Conflicting

-----------------------------------------------------------------------------
VARIABLES
  job,     \* job[a]: the transaction a is in or is about to begin
  conns,   \* conns[a]: connections of the pool it has, by who asked for them
  todo,    \* todo[a]: locks its transaction has yet to ask for
  wants,   \* wants[a]: the lock it has asked for, or NoLock
  got,     \* got[a]: locks it has
  stored   \* stored[c]: "none", a row "alone", or a row "with map"

vars == <<job, conns, todo, wants, got, stored>>

\* A run writes a row after each step ("persist" stands for those before
\* VectorIndexCreation), then indexes, saves the map and its row in one
\* transaction, and writes a last row; its exception handler writes another.
Jobs == {"persist", "index", "save", "final", "handler", "delete", "question", "over"}

\* A lost "save" is swallowed with its row, a lost index by the step itself;
\* a last row that is lost is the handler's, and the handler's is swallowed.
AfterCommit == [persist |-> "index", index |-> "save", save |-> "final",
                final |-> "over", handler |-> "over", delete |-> "over", question |-> "over"]
AfterLoss == [j \in Jobs \ {"over"} |-> IF j = "final" THEN "handler" ELSE AfterCommit[j]]
\* VectorIndexCreation raises without a connection, or when its commit fails.
AfterRaise == [j \in Jobs \ {"over"} |-> IF j = "index" THEN "handler" ELSE AfterLoss[j]]

\* Who asks the pool for a transaction's connection.
Via(j) == IF j = "index" THEN "engine" ELSE "session"
Busy(a) == Via(job[a]) \in conns[a]
InUse == UNION {{a} \X conns[a] : a \in Actor}
Full == Cardinality(InUse) >= PoolSize

Init ==
  /\ job = [a \in Actor |-> IF a \in Run THEN "persist"
                            ELSE IF a \in Delete THEN "delete" ELSE "question"]
  /\ conns = [a \in Actor |-> {}]
  /\ todo = [a \in Actor |-> {}]
  /\ wants = [a \in Actor |-> NoLock]
  /\ got = [a \in Actor |-> {}]
  /\ stored \in [Conn -> {"alone", "with map"}]

\* _persist_run: a placeholder for a connection row that is gone; else the
\* run row, which refers to it, and its status where that changes.
Reference(c) == Row("connection", c, "key share")
\* Bug: the row is locked FOR UPDATE to change its status.
NewStatus_Update(c) == Row("connection", c, "update")
NewStatus(c) == Row("connection", c, "no key update")
RunRow(c) == {{Reference(c)}, {Reference(c), NewStatus(c)}}
Placeholder(c) == Row("connection", c, "insert")
PersistLocks(c) ==
  IF stored[c] = "none" THEN {{Placeholder(c)}} ELSE RunRow(c)

\* The tables a map has rows in: none, or tables first of all.
MapRelations == {R \in SUBSET (Relation \ {"embeddings"}) : R # {} => "tables" \in R}
Written(R) == {On(x, "row exclusive") : x \in R}

\* save_context_full: the version row is inserted, or updated where it
\* changes; else the rows of R refer to it.
VersionLocks(c, R) ==
  IF stored[c] # "with map"
  THEN {{Row("version", c, "insert")}}
  ELSE {{Row("version", c, "no key update")}, {Row("version", c, "key share") : x \in R}}

StoredAnew(c, R) == {V \cup Written(R) \cup W : V \in VersionLocks(c, R), W \in RunRow(c)}

\* A table that is stored already is a key twice, and the end of the save.
StoredTwice(c, R) ==
  {V \cup Written(R) \cup {Row("rows", c, "insert")} : V \in VersionLocks(c, R)}
Reached(c) ==
  {R \in MapRelations : stored[c] = "with map" /\ R # {} /\ R \subseteq {"tables", "columns"}}

SaveLocks(c) == UNION ({StoredAnew(c, R) : R \in MapRelations} \cup
                       {StoredTwice(c, R) : R \in Reached(c)})

IndexLocks == {On(x, "share") : x \in Relation}

\* DatabaseConnectionRepository.delete: the rows the ORM's cascade reaches.
DeleteLocks(c) ==
  CASE stored[c] = "none"     -> {{}}
    [] stored[c] = "alone"    -> {{Row("connection", c, "update")}}
    [] stored[c] = "with map" ->
         {Written(R) \cup {Row("rows", c, "update") : x \in R} \cup
             {Row("version", c, "update"), Row("connection", c, "update")} : R \in MapRelations}

Transactions(a) ==
  CASE job[a] = "question" -> {{}}
    [] job[a] = "index"    -> {IndexLocks}
    [] job[a] = "save"     -> SaveLocks(Target[a])
    [] job[a] = "delete"   -> DeleteLocks(Target[a])
    [] OTHER               -> PersistLocks(Target[a])

\* The order in which a transaction of each kind asks.  In a session the
\* version row is first, unless it is only referred to; then the rows of the
\* first table, before those of any layer; the status of the connection last.
\* The reference to the connection is checked with whichever row has it first.
\* Bug: layers are flushed as they come, before the tables.
SessionOrder_LayersFirst(l, m) ==
  \/ l.what = "version" /\ (l.mode # "key share" \/ m.what = "connection")
  \/ l.what = "tables" /\ m.what = "rows"
  \/ l.what = "tables" /\ m.what = "version" /\ m.mode = "key share"
  \/ m.what = "connection" /\ m.mode = "no key update"
SessionOrder(l, m) ==
  \/ l.what = "version" /\ (l.mode # "key share" \/ m.what = "connection")
  \/ l.what = "tables" /\ m.what \in Relation \cup {"rows"}
  \/ l.what = "tables" /\ m.what = "version" /\ m.mode = "key share"
  \/ m.what = "connection" /\ m.mode = "no key update"
IndexOrder(l, m) ==
  \E i, j \in DOMAIN Indexes : i < j /\ l.what = Indexes[i] /\ m.what = Indexes[j]
\* Children before parents.
DeleteOrder(l, m) ==
  \/ l.what = "columns" /\ m.what = "tables"
  \/ l.what = "tables" /\ m.what = "rows"
  \/ m.what = "version" /\ l.what # "connection"
  \/ m.what = "connection"
Before(j, l, m) ==
  /\ l # m
  /\ \/ j = "index" /\ IndexOrder(l, m)
     \/ j = "delete" /\ DeleteOrder(l, m)
     \/ j \notin {"index", "delete"} /\ SessionOrder(l, m)

-----------------------------------------------------------------------------
\* a waits for b.
Waits(a, b) == a # b /\ wants[a] # NoLock /\ \E m \in got[b] : Conflict(wants[a], m)
Blocked(a) == \E b \in Actor : Waits(a, b)

\* Each of S waits for another of S; a cycle is a least such set.
Stuck(S) == \A a \in S : \E b \in S : Waits(a, b)
Cycles ==
  LET stuck == {S \in SUBSET {a \in Actor : Blocked(a)} : S # {} /\ Stuck(S)}
  IN  {S \in stuck : \A T \in stuck : T \subseteq S => T = S}

\* What the database answers to a request whose row came or went meanwhile.
Refused(l) ==
  CASE l.what = "connection" -> (l.mode = "insert") # (stored[l.of] = "none")
    [] l.what = "version"    -> (l.mode = "insert") = (stored[l.of] = "with map")
    [] l.what = "rows"       -> l.mode = "insert" \/ stored[l.of] # "with map"
    [] OTHER                 -> FALSE

\* The transaction of a asks for the first of the locks L, or has them all.
Ask(a, L) ==
  \/ /\ L = {}
     /\ wants' = [wants EXCEPT ![a] = NoLock]
     /\ todo' = [todo EXCEPT ![a] = {}]
  \/ \E l \in L :
       /\ \A m \in L : ~Before(job[a], m, l)
       /\ wants' = [wants EXCEPT ![a] = l]
       /\ todo' = [todo EXCEPT ![a] = L \ {l}]

\* The first statement of a transaction takes a connection from the pool ...
Begin(a) ==
  /\ job[a] # "over" /\ ~Busy(a) /\ ~Full
  /\ conns' = [conns EXCEPT ![a] = @ \cup {Via(job[a])}]
  /\ \E L \in Transactions(a) : Ask(a, L)
  /\ UNCHANGED <<job, got, stored>>

\* ... or gives up after pool_timeout.
GiveUp(a) ==
  /\ job[a] # "over" /\ ~Busy(a) /\ Full
  /\ job' = [job EXCEPT ![a] = AfterRaise[@]]
  /\ UNCHANGED <<conns, todo, wants, got, stored>>

Take(a) ==
  /\ Busy(a) /\ wants[a] # NoLock /\ ~Blocked(a) /\ ~Refused(wants[a])
  /\ got' = [got EXCEPT ![a] = @ \cup {wants[a]}]
  /\ Ask(a, todo[a])
  /\ UNCHANGED <<job, conns, stored>>

\* The end of a transaction: its locks and connection are free again.
\* Bug: the session keeps its connection while the engine's is asked for.
Returned_Kept(a) == IF job[a] = "persist" THEN {"session"} ELSE {}
Returned(a) == {}
\* Bug: what the transaction locked stays locked.
Release_KeepsLocks(a) ==
  /\ conns' = [conns EXCEPT ![a] = Returned(a)]
  /\ todo' = [todo EXCEPT ![a] = {}]
  /\ wants' = [wants EXCEPT ![a] = NoLock]
  /\ UNCHANGED got
Release(a) ==
  /\ conns' = [conns EXCEPT ![a] = Returned(a)]
  /\ todo' = [todo EXCEPT ![a] = {}]
  /\ wants' = [wants EXCEPT ![a] = NoLock]
  /\ got' = [got EXCEPT ![a] = {}]

Lose(a) ==
  /\ Release(a)
  /\ job' = [job EXCEPT ![a] = AfterLoss[@]]
  /\ UNCHANGED stored

\* A second placeholder is a key twice: _persist_run rolls back, finds the
\* row and goes on; any other refusal ends the transaction.
Reject(a) ==
  /\ Busy(a) /\ wants[a] # NoLock /\ ~Blocked(a) /\ Refused(wants[a])
  /\ \/ /\ wants[a] = Placeholder(Target[a])
        /\ \E L \in RunRow(Target[a]) : Ask(a, L)
        /\ UNCHANGED <<job, conns, got, stored>>
     \/ /\ wants[a].mode # "insert" \/ wants[a].what # "connection"
        /\ Lose(a)

\* PostgreSQL ends a transaction of a cycle.
Victim(a) == Busy(a) /\ (\E S \in Cycles : a \in S) /\ Lose(a)

\* What a commit leaves stored of the connection it is about.
Effect(a) ==
  CASE job[a] = "save"   -> "with map"
    [] job[a] = "delete" -> "none"
    [] Placeholder(Target[a]) \in got[a] -> "alone"
    [] OTHER -> stored[Target[a]]

Commit(a) ==
  /\ Busy(a) /\ wants[a] = NoLock
  /\ stored' = IF a \in Question THEN stored ELSE [stored EXCEPT ![Target[a]] = Effect(a)]
  /\ job' = [job EXCEPT ![a] = AfterCommit[@]]
  /\ Release(a)

Step(a) == Begin(a) \/ GiveUp(a) \/ Take(a) \/ Reject(a) \/ Victim(a) \/ Commit(a)

\* A statement fails for reasons of its own, or a pipeline step raises.
Fail(a) ==
  /\ Busy(a) /\ ~Blocked(a)
  /\ Release(a)
  /\ \/ job' = [job EXCEPT ![a] = AfterLoss[@]]
     \/ wants[a] = NoLock /\ job' = [job EXCEPT ![a] = AfterRaise[@]]
  /\ UNCHANGED stored
Raise(r) ==
  /\ job[r] = "index" /\ ~Busy(r)
  /\ job' = [job EXCEPT ![r] = "handler"]
  /\ UNCHANGED <<conns, todo, wants, got, stored>>

Next == \/ \E a \in Actor : Step(a) \/ Fail(a)
        \/ \E r \in Run : Raise(r)

Spec == Init /\ [][Next]_vars

-----------------------------------------------------------------------------
\* Types; and who is in no transaction holds no lock and asks for none.
TypeOK ==
  /\ job \in [Actor -> Jobs]
  /\ conns \in [Actor -> SUBSET {"session", "engine"}]
  /\ todo \in [Actor -> SUBSET Lock]
  /\ wants \in [Actor -> Lock \cup {NoLock}]
  /\ got \in [Actor -> SUBSET Lock]
  /\ stored \in [Conn -> {"none", "alone", "with map"}]
  /\ \A a \in Actor : ~Busy(a) => got[a] = {} /\ todo[a] = {} /\ wants[a] = NoLock

\* Discoveries never wait for each other in a circle, on one connection or on
\* several: save_context_full writes database_tables_metadata before all that
\* VectorIndexCreation locks after it, and _persist_run's reference to the
\* connection does not exclude another run's.
NoDeadlockWithoutDelete == \A S \in SUBSET Run : S # {} => ~Stuck(S)

\* A map is lost in a deadlock only when its own connection is being deleted.
\* (VectorIndexCreation and a delete, which goes from columns to tables, can
\* deadlock: that costs the indexes, or fails the delete, of anyone.)
SavesLostToDeletes ==
  \A S \in Cycles :
    \A r \in S \cap Run : job[r] = "save" =>
      \E d \in S \cap Delete : Target[d] = Target[r]

\* A full pool without a delete in it has a transaction that can go on: no
\* one who has a connection waits for a second one, or all for each other.
PoolTurnsOver ==
  Full /\ (\A d \in Delete : ~Busy(d)) =>
    \E a \in Actor : Busy(a) /\ ~Blocked(a)
=============================================================================
