------------------------ MODULE MetadataLocksProofs -------------------------
(***************************************************************************)
(* Proofs about MetadataLocks.tla, for any number of runs, deletes and     *)
(* questions and any size of the pool.                                     *)
(***************************************************************************)
EXTENDS MetadataLocks, FiniteSetTheorems, TLAPS

\* The locks a transaction of job j of a run may ask for.
LocksOf(j) ==
  {l \in Lock :
     \/ j = "index" /\ l.what \in Relation /\ l.of = NoConn /\ l.mode = "share"
     \/ j = "save" /\ l.what \in Relation /\ l.of = NoConn /\ l.mode = "row exclusive"
     \/ j = "save" /\ l.what = "version" /\ l.mode \in {"insert", "no key update", "key share"}
     \/ j = "save" /\ l.what = "rows" /\ l.mode = "insert"
     \/ j # "index" /\ l.what = "connection" /\ l.mode \in {"key share", "no key update"}
     \/ j \notin {"index", "save"} /\ l.what = "connection" /\ l.mode = "insert"}

NoUpdate(l) == l.mode # "update"

\* What the transaction of run r is made of, and how far it is.
Remaining(r) == todo[r] \cup ({wants[r]} \ {NoLock})
Gate(j) == On("tables", IF j = "index" THEN "share" ELSE "row exclusive")

RunJobs == {"persist", "index", "save", "final", "handler"}

RunShape(r) ==
  /\ job[r] \in RunJobs \cup {"over"}
  /\ \A l \in Remaining(r) \cup got[r] : l \in LocksOf(job[r]) /\ NoUpdate(l)
  /\ wants[r] \notin todo[r] /\ got[r] \cap Remaining(r) = {}
  /\ wants[r] = NoLock => todo[r] = {}
  /\ \A m \in todo[r] : ~Before(job[r], m, wants[r])
  /\ \A l \in got[r], m \in Remaining(r) : ~Before(job[r], m, l)
  /\ \A l \in Remaining(r) \cup got[r] : l.what \in Relation => Gate(job[r]) \in Remaining(r) \cup got[r]
  /\ \A l \in got[r] : l.what # "rows"
  /\ \A l \in Remaining(r) : l.what = "connection" /\ l.mode = "insert" => got[r] = {} /\ todo[r] = {}
  /\ \A l \in got[r] : l.what = "connection" /\ l.mode = "insert" => wants[r] = NoLock

\* No two transactions have locks that conflict.
Apart ==
  \A a, b \in Actor : a # b => \A l \in got[a], m \in got[b] : ~Conflict(l, m)

Roles ==
  /\ \A d \in Delete : job[d] \in {"delete", "over"}
  /\ \A q \in Question : /\ job[q] \in {"question", "over"}
                        /\ todo[q] = {} /\ wants[q] = NoLock /\ got[q] = {}

\* A connection of the pool is that of the transaction a is in.
Lent == \A a \in Actor : conns[a] # {} => job[a] # "over" /\ conns[a] = {Via(job[a])}

IInv == TypeOK /\ Roles /\ Lent /\ Apart /\ \A r \in Run : RunShape(r)
-----------------------------------------------------------------------------
(***************************************************************************)
(* What the transactions are made of.                                      *)
(***************************************************************************)
LEMMA RelationType ==
  /\ "tables" \in Relation
  /\ Relation \cap {"connection", "version", "rows"} = {}
  <1>1. Indexes \in Seq({"tables", "columns", "domains", "entities", "concepts",
                         "metrics", "dimensions", "terminology", "embeddings"})
    BY LocksAssumption
  <1>2. DOMAIN Indexes = 1..Len(Indexes) /\ 1 \in DOMAIN Indexes
    BY <1>1, LocksAssumption
  <1>3. \A i \in DOMAIN Indexes : Indexes[i] \notin {"connection", "version", "rows"}
    BY <1>1
  <1> QED
    BY <1>2, <1>3, LocksAssumption DEF Relation

LEMMA LockType ==
  /\ \A x \in Relation, mode \in Modes : On(x, mode) \in Lock
  /\ \A what \in {"connection", "version", "rows"}, c \in Conn, mode \in Modes :
       Row(what, c, mode) \in Lock
  BY DEF On, Row, Lock

LEMMA TargetType == \A a \in Run \cup Delete : Target[a] \in Conn
  BY LocksAssumption

LEMMA RunRowShape ==
  ASSUME NEW r \in Run \cup Delete, NEW L \in RunRow(Target[r])
  PROVE  /\ L \subseteq Lock
         /\ \A l \in L : /\ l.what = "connection"
                         /\ l.mode \in {"key share", "no key update"}
  <1>1. Reference(Target[r]) \in Lock /\ NewStatus(Target[r]) \in Lock
    BY LockType, TargetType DEF Reference, NewStatus, Modes
  <1>2. \A l \in L : l = Reference(Target[r]) \/ l = NewStatus(Target[r])
    BY DEF RunRow
  <1>3. Reference(Target[r]).what = "connection" /\ Reference(Target[r]).mode = "key share"
    BY DEF Reference, Row
  <1>4. NewStatus(Target[r]).what = "connection" /\ NewStatus(Target[r]).mode = "no key update"
    BY DEF NewStatus, Row
  <1> QED
    BY <1>1, <1>2, <1>3, <1>4

LEMMA WrittenShape ==
  ASSUME NEW R \in SUBSET Relation
  PROVE  /\ Written(R) \subseteq Lock
         /\ \A l \in Written(R) : /\ l.what \in Relation
                                  /\ l.of = NoConn
                                  /\ l.mode = "row exclusive"
  <1> SUFFICES ASSUME NEW l \in Written(R)
               PROVE  l \in Lock /\ l.what \in Relation /\ l.of = NoConn /\ l.mode = "row exclusive"
    OBVIOUS
  <1>1. PICK x \in R : l = On(x, "row exclusive")
    BY DEF Written
  <1>2. l \in Lock
    BY <1>1, LockType DEF Modes
  <1> QED
    BY <1>1, <1>2 DEF On

LEMMA VersionShape ==
  ASSUME NEW r \in Run, NEW R, NEW V \in VersionLocks(Target[r], R)
  PROVE  /\ V \subseteq Lock
         /\ \A l \in V : l.what = "version" /\ l.mode \in {"insert", "no key update", "key share"}
  <1> DEFINE c == Target[r]
  <1>1. /\ Row("version", c, "insert") \in Lock
        /\ Row("version", c, "key share") \in Lock
        /\ Row("version", c, "no key update") \in Lock
    BY LockType, TargetType DEF Modes
  <1>2. \A l \in V : \/ l = Row("version", c, "insert")
                    \/ l = Row("version", c, "key share")
                    \/ l = Row("version", c, "no key update")
    BY DEF VersionLocks
  <1> SUFFICES ASSUME NEW l \in V
               PROVE  /\ l \in Lock
                      /\ l.what = "version" /\ l.mode \in {"insert", "no key update", "key share"}
    OBVIOUS
  <1>3. CASE l = Row("version", c, "insert")
    BY <1>1, <1>3 DEF Row
  <1>4. CASE l = Row("version", c, "key share")
    BY <1>1, <1>4 DEF Row
  <1>5. CASE l = Row("version", c, "no key update")
    BY <1>1, <1>5 DEF Row
  <1> QED
    BY <1>2, <1>3, <1>4, <1>5

\* The transactions of a run: the locks of the job, the table of all tables
\* among them where the layers are, a placeholder alone.
LEMMA RunTransaction ==
  ASSUME NEW r \in Run, job[r] \in RunJobs,
         NEW L \in Transactions(r)
  PROVE  /\ \A l \in L : l \in LocksOf(job[r]) /\ NoUpdate(l)
         /\ \A l \in L : l.what \in Relation => Gate(job[r]) \in L
         /\ \A l \in L : l.what = "connection" /\ l.mode = "insert" => L = {l}
  <1>1. CASE job[r] = "index"
    <2>1. L = IndexLocks
      BY <1>1 DEF Transactions
    <2>2. \A l \in L : /\ l \in Lock /\ l.what \in Relation
                       /\ l.of = NoConn /\ l.mode = "share"
      <3> SUFFICES ASSUME NEW l \in L
                   PROVE  l \in Lock /\ l.what \in Relation /\ l.of = NoConn /\ l.mode = "share"
        OBVIOUS
      <3>1. PICK x \in Relation : l = On(x, "share")
        BY <2>1 DEF IndexLocks
      <3>2. l \in Lock
        BY <3>1, LockType DEF Modes
      <3> QED
        BY <3>1, <3>2 DEF On
    <2>3. Gate(job[r]) \in L
      BY <1>1, <2>1, RelationType DEF Gate, IndexLocks
    <2> QED
      BY <1>1, <2>2, <2>3, RelationType DEF LocksOf, NoUpdate
  <1>2. CASE job[r] = "save"
    <2>1. L \in SaveLocks(Target[r])
      BY <1>2 DEF Transactions
    <2>2. ASSUME NEW R \in MapRelations, NEW V \in VersionLocks(Target[r], R)
          PROVE  /\ R \in SUBSET Relation /\ (R # {} => "tables" \in R)
                 /\ R # {} => Gate(job[r]) \in Written(R)
                 /\ \A l \in V \cup Written(R) :
                      l \in LocksOf(job[r]) /\ NoUpdate(l) /\ l.what # "connection"
                 /\ \A l \in V : l.what \notin Relation
                 /\ R = {} => Written(R) = {}
      <3>1. R \in SUBSET Relation /\ (R # {} => "tables" \in R)
        BY DEF MapRelations
      <3>2. R # {} => Gate(job[r]) \in Written(R)
        BY <1>2, <3>1 DEF Gate, Written
      <3>3. \A l \in V : /\ l \in LocksOf(job[r]) /\ NoUpdate(l)
                         /\ l.what # "connection" /\ l.what \notin Relation
        BY <1>2, VersionShape, RelationType DEF LocksOf, NoUpdate
      <3>4. \A l \in Written(R) : l \in LocksOf(job[r]) /\ NoUpdate(l) /\ l.what # "connection"
        BY <1>2, <3>1, WrittenShape, RelationType DEF LocksOf, NoUpdate
      <3> QED
        BY <3>1, <3>2, <3>3, <3>4 DEF Written
    <2>3. ASSUME NEW R \in MapRelations, NEW V \in VersionLocks(Target[r], R),
                 NEW W \in RunRow(Target[r]), L = V \cup Written(R) \cup W
          PROVE  /\ \A l \in L : l \in LocksOf(job[r]) /\ NoUpdate(l)
                 /\ \A l \in L : l.what \in Relation => Gate(job[r]) \in L
                 /\ \A l \in L : ~(l.what = "connection" /\ l.mode = "insert")
      <3>1. \A l \in W : /\ l \in LocksOf(job[r]) /\ NoUpdate(l)
                         /\ l.mode # "insert" /\ l.what \notin Relation
        BY <1>2, RunRowShape, RelationType DEF LocksOf, NoUpdate
      <3> QED
        BY <2>2, <2>3, <3>1
    <2>4. ASSUME NEW R \in MapRelations, NEW V \in VersionLocks(Target[r], R),
                 L = V \cup Written(R) \cup {Row("rows", Target[r], "insert")}
          PROVE  /\ \A l \in L : l \in LocksOf(job[r]) /\ NoUpdate(l)
                 /\ \A l \in L : l.what \in Relation => Gate(job[r]) \in L
                 /\ \A l \in L : ~(l.what = "connection" /\ l.mode = "insert")
      <3> DEFINE k == Row("rows", Target[r], "insert")
      <3>1. k \in Lock
        BY LockType, TargetType DEF Modes
      <3>2. k.what = "rows" /\ k.mode = "insert"
        BY DEF Row
      <3>3. /\ k \in LocksOf(job[r]) /\ NoUpdate(k)
            /\ k.what # "connection" /\ k.what \notin Relation
        BY <1>2, <3>1, <3>2, RelationType DEF LocksOf, NoUpdate
      <3> QED
        BY <2>2, <2>4, <3>3
    <2>5. CASE \E R \in MapRelations : L \in StoredAnew(Target[r], R)
      <3>1. \E R \in MapRelations :
              \E V \in VersionLocks(Target[r], R), W \in RunRow(Target[r]) :
                L = V \cup Written(R) \cup W
        BY <2>5 DEF StoredAnew
      <3> QED
        BY <1>2, <2>3, <3>1
    <2>6. CASE \E R \in Reached(Target[r]) : L \in StoredTwice(Target[r], R)
      <3>1. \E R \in MapRelations : \E V \in VersionLocks(Target[r], R) :
              L = V \cup Written(R) \cup {Row("rows", Target[r], "insert")}
        BY <2>6 DEF StoredTwice, Reached
      <3> QED
        BY <1>2, <2>4, <3>1
    <2>7. \/ \E R \in MapRelations : L \in StoredAnew(Target[r], R)
          \/ \E R \in Reached(Target[r]) : L \in StoredTwice(Target[r], R)
      BY <2>1 DEF SaveLocks
    <2> QED
      BY <2>5, <2>6, <2>7
  <1>3. CASE job[r] \notin {"index", "save"}
    <2>1. L \in PersistLocks(Target[r])
      BY <1>3 DEF Transactions, RunJobs
    <2>2. CASE stored[Target[r]] = "none"
      <3>1. L = {Placeholder(Target[r])}
        BY <2>1, <2>2 DEF PersistLocks
      <3>2. Placeholder(Target[r]) \in Lock
        BY LockType, TargetType DEF Placeholder, Modes
      <3> QED
        <4>1. /\ Placeholder(Target[r]).what = "connection"
              /\ Placeholder(Target[r]).mode = "insert"
          BY DEF Placeholder, Row
        <4> QED
          BY <1>3, <3>1, <3>2, <4>1, RelationType DEF LocksOf, NoUpdate
    <2>3. CASE stored[Target[r]] # "none"
      <3>1. L \in RunRow(Target[r])
        BY <2>1, <2>3 DEF PersistLocks
      <3> QED
        BY <1>3, <3>1, RunRowShape, RelationType DEF LocksOf, NoUpdate
    <2> QED
      BY <2>2, <2>3
  <1> QED
    BY <1>1, <1>2, <1>3 DEF RunJobs

LEMMA TransactionType ==
  ASSUME NEW a \in Actor, TypeOK, NEW L \in Transactions(a),
         a \in Run => RunShape(a), job[a] # "over",
         a \in Delete => job[a] = "delete", a \in Question => job[a] = "question"
  PROVE  L \subseteq Lock
  <1>1. CASE a \in Run
    BY <1>1, RunTransaction DEF RunShape, LocksOf
  <1>2. CASE a \in Question
    BY <1>2 DEF Transactions
  <1>3. CASE a \in Delete
    <2>1. L \in DeleteLocks(Target[a])
      BY <1>3 DEF Transactions
    <2> DEFINE c == Target[a]
    <2>2. \A what \in {"rows", "version", "connection"} : Row(what, c, "update") \in Lock
      BY <1>3, LockType, TargetType DEF Modes
    <2>3. stored[c] \in {"none", "alone", "with map"}
      BY <1>3, TargetType DEF TypeOK
    <2>4. CASE stored[c] = "none"
      BY <2>1, <2>4 DEF DeleteLocks
    <2>5. CASE stored[c] = "alone"
      BY <2>1, <2>2, <2>5 DEF DeleteLocks
    <2>6. CASE stored[c] = "with map"
      <3>1. PICK R \in MapRelations :
              L = Written(R) \cup {Row("rows", c, "update") : x \in R} \cup
                    {Row("version", c, "update"), Row("connection", c, "update")}
        BY <2>1, <2>6 DEF DeleteLocks
      <3>2. Written(R) \subseteq Lock
        BY WrittenShape DEF MapRelations
      <3> QED
        BY <2>2, <3>1, <3>2
    <2> QED
      BY <2>3, <2>4, <2>5, <2>6
  <1> QED
    BY <1>1, <1>2, <1>3 DEF Actor

\* Which job is next.
LEMMA NextJob ==
  /\ \A j \in RunJobs : {AfterCommit[j], AfterLoss[j], AfterRaise[j]} \subseteq RunJobs \cup {"over"}
  /\ \A j \in {"delete", "question"} :
       AfterCommit[j] = "over" /\ AfterLoss[j] = "over" /\ AfterRaise[j] = "over"
  BY DEF AfterCommit, AfterLoss, AfterRaise, RunJobs, Jobs

\* a may go on with job j.
MayTurnTo(a, j) ==
  \/ a \in Run /\ j \in RunJobs \cup {"over"}
  \/ a \notin Run /\ j = "over"

LEMMA TurnsTo ==
  ASSUME Roles, NEW a \in Actor, job[a] # "over", a \in Run => RunShape(a)
  PROVE  MayTurnTo(a, AfterCommit[job[a]]) /\ MayTurnTo(a, AfterLoss[job[a]])
           /\ MayTurnTo(a, AfterRaise[job[a]])
  <1>1. CASE a \in Run
    BY <1>1, NextJob DEF RunShape, MayTurnTo
  <1>2. CASE a \notin Run
    BY <1>2, NextJob DEF Roles, Actor, MayTurnTo
  <1> QED
    BY <1>1, <1>2

-----------------------------------------------------------------------------
(***************************************************************************)
(* What the steps have in common.                                          *)
(***************************************************************************)
LEMMA AskResult ==
  ASSUME TypeOK, NEW a \in Actor, NEW L \in SUBSET Lock, Ask(a, L)
  PROVE  /\ wants' \in [Actor -> Lock \cup {NoLock}]
         /\ todo' \in [Actor -> SUBSET Lock]
         /\ \A b \in Actor : b # a => wants'[b] = wants[b] /\ todo'[b] = todo[b]
         /\ todo'[a] \cup ({wants'[a]} \ {NoLock}) = L
         /\ wants'[a] \notin todo'[a]
         /\ wants'[a] = NoLock => todo'[a] = {}
         /\ \A m \in todo'[a] : ~Before(job[a], m, wants'[a])
  <1>1. CASE L = {} /\ wants' = [wants EXCEPT ![a] = NoLock] /\ todo' = [todo EXCEPT ![a] = {}]
    BY <1>1 DEF TypeOK
  <1>2. ASSUME NEW l \in L, \A m \in L : ~Before(job[a], m, l),
               wants' = [wants EXCEPT ![a] = l], todo' = [todo EXCEPT ![a] = L \ {l}]
        PROVE  /\ wants' \in [Actor -> Lock \cup {NoLock}]
               /\ todo' \in [Actor -> SUBSET Lock]
               /\ \A b \in Actor : b # a => wants'[b] = wants[b] /\ todo'[b] = todo[b]
               /\ todo'[a] = L \ {l} /\ wants'[a] = l /\ l # NoLock
    BY <1>2, NoLockAssumption DEF TypeOK
  <1> QED
    BY <1>1, <1>2 DEF Ask

\* Nothing changes for run r.
LEMMA Frame ==
  ASSUME NEW r \in Run, RunShape(r), job'[r] = job[r], conns'[r] = conns[r],
         todo'[r] = todo[r], wants'[r] = wants[r], got'[r] = got[r]
  PROVE  RunShape(r)'
  <1>1. Remaining(r)' = Remaining(r) /\ Busy(r)' = Busy(r)
    BY DEF Remaining, Busy
  <1> QED
    BY <1>1 DEF RunShape

\* A run that is in no transaction is in shape.
LEMMA EmptyNext ==
  ASSUME NEW r \in Run, job'[r] \in RunJobs \cup {"over"}, ~Busy(r)',
         todo'[r] = {}, wants'[r] = NoLock, got'[r] = {}
  PROVE  RunShape(r)'
  BY DEF RunShape, Remaining

\* The end of a transaction.
LEMMA Ending ==
  ASSUME IInv, NEW a \in Actor, Release(a), NEW j, MayTurnTo(a, j),
         job' = [job EXCEPT ![a] = j],
         stored' \in [Conn -> {"none", "alone", "with map"}]
  PROVE  IInv'
  <1>1. /\ job'[a] = j /\ conns'[a] = {} /\ todo'[a] = {} /\ wants'[a] = NoLock /\ got'[a] = {}
        /\ \A b \in Actor : b # a => /\ job'[b] = job[b] /\ conns'[b] = conns[b]
                                    /\ todo'[b] = todo[b] /\ wants'[b] = wants[b]
                                    /\ got'[b] = got[b]
    BY DEF IInv, TypeOK, Release, Returned
  <1>2. ~Busy(a)'
    BY <1>1 DEF Busy
  <1>3. TypeOK'
    <2>1. j \in Jobs
      BY DEF MayTurnTo, RunJobs, Jobs
    <2>2. /\ job' \in [Actor -> Jobs] /\ conns' \in [Actor -> SUBSET {"session", "engine"}]
          /\ todo' \in [Actor -> SUBSET Lock] /\ wants' \in [Actor -> Lock \cup {NoLock}]
          /\ got' \in [Actor -> SUBSET Lock]
      BY <2>1 DEF IInv, TypeOK, Release, Returned
    <2>3. \A b \in Actor : ~Busy(b)' => got'[b] = {} /\ todo'[b] = {} /\ wants'[b] = NoLock
      BY <1>1 DEF IInv, TypeOK, Busy
    <2> QED
      BY <2>2, <2>3 DEF TypeOK
  <1>4. Roles'
    <2>1. \A d \in Delete : job'[d] \in {"delete", "over"}
      BY <1>1, LocksAssumption DEF IInv, Roles, MayTurnTo, Actor
    <2>2. ASSUME NEW q \in Question
          PROVE  /\ job'[q] \in {"question", "over"}
                 /\ todo'[q] = {} /\ wants'[q] = NoLock /\ got'[q] = {}
      <3>1. q \in Actor /\ q \notin Run
        BY LocksAssumption DEF Actor
      <3>2. CASE q = a
        BY <1>1, <3>1, <3>2 DEF MayTurnTo
      <3>3. CASE q # a
        BY <1>1, <3>1, <3>3 DEF IInv, Roles
      <3> QED
        BY <3>2, <3>3
    <2> QED
      BY <2>1, <2>2 DEF Roles
  <1>5. Lent'
    BY <1>1 DEF IInv, Lent
  <1>6. Apart'
    BY <1>1 DEF IInv, Apart
  <1>7. ASSUME NEW r \in Run
        PROVE  RunShape(r)'
    <2>1. CASE r = a
      BY <1>1, <1>2, <2>1, EmptyNext DEF MayTurnTo
    <2>2. CASE r # a
      BY <1>1, <2>2, Frame DEF IInv, Actor
    <2> QED
      BY <2>1, <2>2
  <1> QED
    BY <1>3, <1>4, <1>5, <1>6, <1>7 DEF IInv

\* A transaction that is not begun.
LEMMA Skipping ==
  ASSUME IInv, NEW a \in Actor, ~Busy(a), NEW j, MayTurnTo(a, j),
         job[a] # "over", job' = [job EXCEPT ![a] = j],
         UNCHANGED <<conns, todo, wants, got, stored>>
  PROVE  IInv'
  <1>1. conns[a] = {} /\ todo[a] = {} /\ wants[a] = NoLock /\ got[a] = {}
    BY DEF IInv, TypeOK, Lent, Busy
  <1>2. job'[a] = j /\ \A b \in Actor : b # a => job'[b] = job[b]
    BY DEF IInv, TypeOK
  <1>3. ~Busy(a)'
    BY <1>1 DEF Busy
  <1>4. TypeOK'
    <2>1. j \in Jobs
      BY DEF MayTurnTo, RunJobs, Jobs
    <2>2. job' \in [Actor -> Jobs]
      BY <2>1 DEF IInv, TypeOK
    <2>3. \A b \in Actor : ~Busy(b)' => got'[b] = {} /\ todo'[b] = {} /\ wants'[b] = NoLock
      BY <1>1, <1>2 DEF IInv, TypeOK, Busy
    <2> QED
      BY <2>2, <2>3 DEF IInv, TypeOK
  <1>5. Roles'
    BY <1>2, LocksAssumption DEF IInv, Roles, MayTurnTo, Actor
  <1>6. Lent'
    BY <1>1, <1>2 DEF IInv, Lent
  <1>7. Apart'
    BY DEF IInv, Apart
  <1>8. ASSUME NEW r \in Run
        PROVE  RunShape(r)'
    <2>1. CASE r = a
      BY <1>1, <1>2, <1>3, <2>1, EmptyNext DEF MayTurnTo
    <2>2. CASE r # a
      BY <1>2, <2>2, Frame DEF IInv, Actor
    <2> QED
      BY <2>1, <2>2
  <1> QED
    BY <1>4, <1>5, <1>6, <1>7, <1>8 DEF IInv

\* What a transaction of job j has yet to get, L, fits what it has got, G.
Fits(j, L, G) ==
  /\ \A l \in L \cup G : l \in LocksOf(j) /\ NoUpdate(l)
  /\ L \cap G = {}
  /\ \A l \in G, m \in L : ~Before(j, m, l)
  /\ \A l \in L \cup G : l.what \in Relation => Gate(j) \in L \cup G
  /\ \A l \in G : l.what # "rows"
  /\ \A l \in L : l.what = "connection" /\ l.mode = "insert" => G = {} /\ L = {l}
  /\ \A l \in G : l.what = "connection" /\ l.mode = "insert" => L = {}

LEMMA Symmetry == \A l, m : Conflict(l, m) => Conflict(m, l)
  <1> SUFFICES ASSUME NEW l, NEW m, Conflict(l, m)
               PROVE  Conflict(m, l)
    OBVIOUS
  <1>1. {l.mode, m.mode} = {m.mode, l.mode}
    OBVIOUS
  <1> QED
    BY <1>1 DEF Conflict

\* A transaction that asks for its next lock.
LEMMA Asking ==
  ASSUME IInv, NEW a \in Actor, job[a] # "over", UNCHANGED <<job, stored>>,
         conns' \in [Actor -> SUBSET {"session", "engine"}],
         conns'[a] = {Via(job[a])},
         NEW L \in SUBSET Lock, Ask(a, L),
         NEW G \in SUBSET Lock, got' \in [Actor -> SUBSET Lock], got'[a] = G,
         \A b \in Actor : b # a => conns'[b] = conns[b] /\ got'[b] = got[b],
         \A b \in Actor : b # a => \A l \in G, m \in got[b] : ~Conflict(l, m),
         a \in Question => L = {} /\ G = {},
         a \in Run => Fits(job[a], L, G)
  PROVE  IInv'
  <1>1. /\ wants' \in [Actor -> Lock \cup {NoLock}]
        /\ todo' \in [Actor -> SUBSET Lock]
        /\ \A b \in Actor : b # a => wants'[b] = wants[b] /\ todo'[b] = todo[b]
        /\ todo'[a] \cup ({wants'[a]} \ {NoLock}) = L
        /\ wants'[a] \notin todo'[a]
        /\ wants'[a] = NoLock => todo'[a] = {}
        /\ \A m \in todo'[a] : ~Before(job[a], m, wants'[a])
    BY AskResult DEF IInv
  <1>2. Busy(a)'
    BY DEF Busy
  <1>3. TypeOK'
    <2>1. \A b \in Actor : ~Busy(b)' => got'[b] = {} /\ todo'[b] = {} /\ wants'[b] = NoLock
      BY <1>1, <1>2 DEF IInv, TypeOK, Busy
    <2> QED
      BY <1>1, <2>1 DEF IInv, TypeOK
  <1>4. Roles'
    <2>1. ASSUME NEW q \in Question
          PROVE  todo'[q] = {} /\ wants'[q] = NoLock /\ got'[q] = {}
      <3>1. q \in Actor
        BY DEF Actor
      <3>2. CASE q = a
        BY <1>1, <3>2
      <3>3. CASE q # a
        BY <1>1, <3>1, <3>3 DEF IInv, Roles
      <3> QED
        BY <3>2, <3>3
    <2> QED
      BY <2>1 DEF IInv, Roles
  <1>5. Lent'
    BY DEF IInv, Lent
  <1>6. Apart'
    <2> SUFFICES ASSUME NEW b \in Actor, NEW c \in Actor, b # c,
                        NEW l \in got'[b], NEW m \in got'[c]
                 PROVE  ~Conflict(l, m)
      BY DEF Apart
    <2>1. CASE b = a
      BY <2>1
    <2>2. CASE c = a
      BY <2>2, Symmetry
    <2>3. CASE b # a /\ c # a
      BY <2>3 DEF IInv, Apart
    <2> QED
      BY <2>1, <2>2, <2>3
  <1>7. ASSUME NEW r \in Run
        PROVE  RunShape(r)'
    <2>1. CASE r # a
      BY <1>1, <2>1, Frame DEF IInv, Actor
    <2>2. CASE r = a
      <3>1. Remaining(a)' = L
        BY <1>1 DEF Remaining
      <3>2. job[a] \in RunJobs \cup {"over"} /\ Fits(job[a], L, G)
        BY <2>2 DEF IInv, RunShape
      <3>3. \A l \in L : L = {l} => todo'[a] = {}
        BY <1>1
      <3>4. L = {} => wants'[a] = NoLock
        BY <1>1
      <3> QED
        BY <1>1, <2>2, <3>1, <3>2, <3>3, <3>4 DEF RunShape, Fits
    <2> QED
      BY <2>1, <2>2
  <1> QED
    BY <1>3, <1>4, <1>5, <1>6, <1>7 DEF IInv

-----------------------------------------------------------------------------
(***************************************************************************)
(* Each step keeps the invariant.                                          *)
(***************************************************************************)
LEMMA BusyJob ==
  ASSUME IInv, NEW a \in Actor, Busy(a)
  PROVE  job[a] # "over" /\ conns[a] = {Via(job[a])}
  BY DEF IInv, Lent, Busy

LEMMA BeginKeeps ==
  ASSUME IInv, NEW a \in Actor, Begin(a)
  PROVE  IInv'
  <1>1. PICK L \in Transactions(a) : Ask(a, L)
    BY DEF Begin
  <1>2. conns[a] = {} /\ got[a] = {} /\ job[a] # "over"
    BY DEF IInv, TypeOK, Lent, Busy, Begin
  <1>3. /\ conns' \in [Actor -> SUBSET {"session", "engine"}]
        /\ conns'[a] = {Via(job[a])}
        /\ \A b \in Actor : b # a => conns'[b] = conns[b]
    <2>1. {Via(job[a])} \subseteq {"session", "engine"}
      BY DEF Via
    <2> QED
      BY <1>2, <2>1 DEF IInv, TypeOK, Begin
  <1>4. L \in SUBSET Lock
    BY <1>2, TransactionType DEF IInv, Roles
  <1>5. a \in Question => L = {}
    BY <1>2 DEF IInv, Roles, Transactions
  <1>6. a \in Run => Fits(job[a], L, {})
    BY <1>2, RunTransaction DEF IInv, RunShape, Fits
  <1>7. UNCHANGED <<job, got, stored>>
    BY DEF Begin
  <1>8. got \in [Actor -> SUBSET Lock]
    BY DEF IInv, TypeOK
  <1> QED
    BY <1>1, <1>2, <1>3, <1>4, <1>5, <1>6, <1>7, <1>8, Asking

LEMMA TakeKeeps ==
  ASSUME IInv, NEW a \in Actor, Take(a)
  PROVE  IInv'
  <1> DEFINE l == wants[a]
             G == got[a] \cup {l}
             L == todo[a]
  <1>1. job[a] # "over" /\ conns[a] = {Via(job[a])} /\ l # NoLock
    BY BusyJob DEF Take
  <1>2. l \in Lock /\ L \in SUBSET Lock /\ got[a] \in SUBSET Lock
    BY <1>1 DEF IInv, TypeOK
  <1>3. /\ got' \in [Actor -> SUBSET Lock] /\ got'[a] = G
        /\ \A b \in Actor : b # a => got'[b] = got[b]
    BY <1>2 DEF IInv, TypeOK, Take
  <1>4. \A b \in Actor : b # a => \A k \in G, m \in got[b] : ~Conflict(k, m)
    <2> SUFFICES ASSUME NEW b \in Actor, b # a, NEW k \in G, NEW m \in got[b]
                 PROVE  ~Conflict(k, m)
      OBVIOUS
    <2>1. CASE k \in got[a]
      BY <2>1 DEF IInv, Apart
    <2>2. CASE k = l
      BY <1>1, <2>2 DEF Take, Blocked, Waits
    <2> QED
      BY <2>1, <2>2
  <1>5. a \notin Question
    BY <1>1 DEF IInv, Roles
  <1>6. ASSUME a \in Run
        PROVE  Fits(job[a], L, G)
    <2>1. RunShape(a) /\ Busy(a) /\ ~Refused(l)
      BY <1>6 DEF IInv, Take
    <2>2. L \cup G = Remaining(a) \cup got[a] /\ l \in Remaining(a) /\ L \subseteq Remaining(a)
      BY <1>1 DEF Remaining
    <2>3. l.what # "rows"
      <3>1. l \in LocksOf(job[a])
        BY <2>1, <2>2 DEF RunShape
      <3>2. l.what = "rows" => l.mode = "insert"
        BY <3>1, RelationType DEF LocksOf
      <3> QED
        BY <2>1, <3>2 DEF Refused
    <2>4. \A k \in L \cup G : k \in LocksOf(job[a]) /\ NoUpdate(k)
      BY <2>1, <2>2 DEF RunShape
    <2>5. L \cap G = {}
      BY <2>1, <2>2 DEF RunShape
    <2>6. \A k \in G, m \in L : ~Before(job[a], m, k)
      BY <2>1, <2>2 DEF RunShape
    <2>7. \A k \in L \cup G : k.what \in Relation => Gate(job[a]) \in L \cup G
      BY <2>1, <2>2 DEF RunShape
    <2>8. \A k \in G : k.what # "rows"
      BY <2>1, <2>3 DEF RunShape
    <2>9. \A k \in L : ~(k.what = "connection" /\ k.mode = "insert")
      BY <2>1, <2>2 DEF RunShape
    <2>10. \A k \in G : k.what = "connection" /\ k.mode = "insert" => L = {}
      BY <1>1, <2>1, <2>2 DEF RunShape
    <2> QED
      BY <2>4, <2>5, <2>6, <2>7, <2>8, <2>9, <2>10 DEF Fits
  <1>7. Ask(a, L) /\ UNCHANGED <<job, conns, stored>>
    BY DEF Take
  <1>8. conns \in [Actor -> SUBSET {"session", "engine"}]
    BY DEF IInv, TypeOK
  <1>9. G \in SUBSET Lock
    BY <1>2
  <1> HIDE DEF l, G, L
  <1> QED
    BY <1>1, <1>2, <1>3, <1>4, <1>5, <1>6, <1>7, <1>8, <1>9, Asking DEF L

\* _persist_run finds the row that a placeholder of another run has put there.
LEMMA RetryKeeps ==
  ASSUME IInv, NEW a \in Actor, Busy(a), wants[a] # NoLock,
         wants[a] = Placeholder(Target[a]),
         NEW L \in RunRow(Target[a]), Ask(a, L), UNCHANGED <<job, conns, got, stored>>
  PROVE  IInv'
  <1>1. a \notin Question
    BY DEF IInv, Roles
  <1>2. a \in Run \cup Delete
    BY <1>1 DEF Actor
  <1>3. L \in SUBSET Lock /\ \A l \in L : /\ l.what = "connection"
                                         /\ l.mode \in {"key share", "no key update"}
    BY <1>2, RunRowShape
  <1>4. job[a] # "over" /\ conns[a] = {Via(job[a])}
    BY BusyJob
  <1>5. ASSUME a \in Run
        PROVE  Fits(job[a], L, got[a])
    <2>1. wants[a] \in Remaining(a) /\ RunShape(a)
      BY <1>5 DEF Remaining, IInv
    <2>2. wants[a].what = "connection" /\ wants[a].mode = "insert"
      BY DEF Placeholder, Row
    <2>3. got[a] = {}
      BY <2>1, <2>2 DEF RunShape
    <2>4. wants[a] \in LocksOf(job[a])
      BY <2>1 DEF RunShape
    <2>5. job[a] \notin {"index", "save"}
      BY <2>2, <2>4, RelationType DEF LocksOf
    <2> QED
      BY <1>3, <2>3, <2>5, RelationType DEF Fits, LocksOf, NoUpdate
  <1>6. got \in [Actor -> SUBSET Lock] /\ conns \in [Actor -> SUBSET {"session", "engine"}]
    BY DEF IInv, TypeOK
  <1>7. \A b \in Actor : b # a => \A l \in got[a], m \in got[b] : ~Conflict(l, m)
    BY DEF IInv, Apart
  <1> DEFINE G == got[a]
  <1>8. G \in SUBSET Lock
    BY <1>6
  <1> QED
    BY <1>1, <1>3, <1>4, <1>5, <1>6, <1>7, <1>8, Asking

LEMMA LoseKeeps ==
  ASSUME IInv, NEW a \in Actor, Busy(a), Lose(a)
  PROVE  IInv'
  <1>1. MayTurnTo(a, AfterLoss[job[a]])
    BY BusyJob, TurnsTo DEF IInv
  <1>2. stored' \in [Conn -> {"none", "alone", "with map"}]
    BY DEF IInv, TypeOK, Lose
  <1> QED
    BY <1>1, <1>2, Ending DEF Lose

LEMMA RejectKeeps ==
  ASSUME IInv, NEW a \in Actor, Reject(a)
  PROVE  IInv'
  BY LoseKeeps, RetryKeeps DEF Reject

LEMMA CommitKeeps ==
  ASSUME IInv, NEW a \in Actor, Commit(a)
  PROVE  IInv'
  <1>1. MayTurnTo(a, AfterCommit[job[a]])
    BY BusyJob, TurnsTo DEF IInv, Commit
  <1>2. stored' \in [Conn -> {"none", "alone", "with map"}]
    <2>1. CASE a \in Question
      BY <2>1 DEF IInv, TypeOK, Commit
    <2>2. CASE a \notin Question
      <3>1. Target[a] \in Conn
        BY <2>2, TargetType DEF Actor
      <3>2. Effect(a) \in {"none", "alone", "with map"}
        BY <3>1 DEF IInv, TypeOK, Effect
      <3> QED
        BY <2>2, <3>1, <3>2 DEF IInv, TypeOK, Commit
    <2> QED
      BY <2>1, <2>2
  <1> QED
    BY <1>1, <1>2, Ending DEF Commit

LEMMA FailKeeps ==
  ASSUME IInv, NEW a \in Actor, Fail(a)
  PROVE  IInv'
  <1>1. MayTurnTo(a, AfterLoss[job[a]]) /\ MayTurnTo(a, AfterRaise[job[a]])
    BY BusyJob, TurnsTo DEF IInv, Fail
  <1>2. stored' \in [Conn -> {"none", "alone", "with map"}]
    BY DEF IInv, TypeOK, Fail
  <1> QED
    BY <1>1, <1>2, Ending DEF Fail

LEMMA GiveUpKeeps ==
  ASSUME IInv, NEW a \in Actor, GiveUp(a)
  PROVE  IInv'
  <1>1. MayTurnTo(a, AfterRaise[job[a]])
    BY TurnsTo DEF IInv, GiveUp
  <1> QED
    BY <1>1, Skipping DEF GiveUp

LEMMA RaiseKeeps ==
  ASSUME IInv, NEW r \in Run, Raise(r)
  PROVE  IInv'
  <1>1. MayTurnTo(r, "handler") /\ r \in Actor
    BY DEF MayTurnTo, RunJobs, Actor
  <1> QED
    BY <1>1, Skipping DEF Raise

LEMMA InitKeeps == Init => IInv
  <1> SUFFICES ASSUME Init
               PROVE  IInv
    OBVIOUS
  <1>1. \A r \in Run : r \in Actor /\ r \notin Delete /\ r \notin Question
    BY LocksAssumption DEF Actor
  <1>2. /\ job \in [Actor -> Jobs]
        /\ \A r \in Run : job[r] = "persist"
        /\ \A d \in Delete : job[d] = "delete"
        /\ \A q \in Question : job[q] = "question"
    BY LocksAssumption DEF Init, Jobs, Actor
  <1>3. \A a \in Actor : conns[a] = {} /\ todo[a] = {} /\ wants[a] = NoLock /\ got[a] = {}
    BY DEF Init
  <1>4. TypeOK
    BY <1>2 DEF Init, TypeOK
  <1>5. Roles
    BY <1>2, <1>3 DEF Roles, Actor
  <1>6. Lent /\ Apart
    BY <1>3 DEF Lent, Apart
  <1>7. \A r \in Run : RunShape(r)
    BY <1>1, <1>2, <1>3 DEF RunShape, Remaining, RunJobs, Busy
  <1> QED
    BY <1>4, <1>5, <1>6, <1>7 DEF IInv

LEMMA NextKeeps == IInv /\ [Next]_vars => IInv'
  <1> SUFFICES ASSUME IInv, [Next]_vars
               PROVE  IInv'
    OBVIOUS
  <1>1. ASSUME NEW a \in Actor, Step(a)
        PROVE  IInv'
    <2>1. CASE Begin(a)
      BY <2>1, BeginKeeps
    <2>2. CASE GiveUp(a)
      BY <2>2, GiveUpKeeps
    <2>3. CASE Take(a)
      BY <2>3, TakeKeeps
    <2>4. CASE Reject(a)
      BY <2>4, RejectKeeps
    <2>5. CASE Victim(a)
      BY <2>5, LoseKeeps DEF Victim
    <2>6. CASE Commit(a)
      BY <2>6, CommitKeeps
    <2> QED
      BY <1>1, <2>1, <2>2, <2>3, <2>4, <2>5, <2>6 DEF Step
  <1>2. ASSUME NEW a \in Actor, Fail(a)
        PROVE  IInv'
    BY <1>2, FailKeeps
  <1>3. ASSUME NEW r \in Run, Raise(r)
        PROVE  IInv'
    BY <1>3, RaiseKeeps
  <1>4. CASE UNCHANGED vars
    <2>1. UNCHANGED <<TypeOK, Roles, Lent, Apart>>
      BY <1>4 DEF vars, TypeOK, Roles, Lent, Apart, Busy
    <2>2. ASSUME NEW r \in Run
          PROVE  RunShape(r)'
      BY <1>4, Frame DEF IInv, vars
    <2> QED
      BY <2>1, <2>2 DEF IInv
  <1> QED
    BY <1>1, <1>2, <1>3, <1>4 DEF Next

LEMMA Invariance == Spec => []IInv
  BY InitKeeps, NextKeeps, PTL DEF Spec

\* In every state nobody outside a transaction holds a lock or asks for one
\* (the locks and connections go at commit, rollback and the victim's end).
THEOREM TypeCorrect == Spec => []TypeOK
  <1>1. IInv => TypeOK
    BY DEF IInv
  <1> QED
    BY <1>1, Invariance, PTL

-----------------------------------------------------------------------------
(***************************************************************************)
(* Why runs alone never close a circle.  In a circle of runs a wait on the *)
(* connection's row ends at a run that asks for nothing more; a wait of    *)
(* a save on a relation, at an index that has one; a wait on the version,  *)
(* at a save that waits for none of these; and what is left, an index at   *)
(* its first lock, at a save.                                              *)
(***************************************************************************)
LEMMA RunWaits ==
  ASSUME IInv, NEW r \in Run, wants[r] # NoLock
  PROVE  /\ wants[r] \in Remaining(r) /\ wants[r] \in LocksOf(job[r]) /\ NoUpdate(wants[r])
         /\ \A l \in got[r] : /\ l \in LocksOf(job[r]) /\ NoUpdate(l) /\ l.what # "rows"
                              /\ l # wants[r] /\ ~Before(job[r], wants[r], l)
  BY DEF IInv, RunShape, Remaining

\* Who holds a lock on a connection that excludes a lock of another run asks
\* for nothing more: the status is updated last, a placeholder is alone.
LEMMA ConnectionIsLast ==
  ASSUME IInv, NEW r \in Run, NEW m \in got[r], m.what = "connection",
         m.mode \in {"no key update", "insert"}
  PROVE  wants[r] = NoLock
  <1> SUFFICES ASSUME wants[r] # NoLock
               PROVE  FALSE
    OBVIOUS
  <1>1. /\ m \in LocksOf(job[r]) /\ m # wants[r] /\ ~Before(job[r], wants[r], m)
    BY RunWaits
  <1>2. CASE m.mode = "insert"
    BY <1>2 DEF IInv, RunShape
  <1>3. CASE m.mode = "no key update"
    <2>1. job[r] # "index"
      BY <1>1, RelationType DEF LocksOf
    <2>2. job[r] # "delete"
      BY DEF IInv, RunShape, RunJobs
    <2> QED
      BY <1>1, <1>3, <2>1, <2>2 DEF Before, SessionOrder
  <1> QED
    BY <1>2, <1>3

\* Which of the modes two locks of runs conflict in.
LEMMA ModesInConflict ==
  ASSUME NEW l, NEW m, Conflict(l, m), NoUpdate(l), NoUpdate(m)
  PROVE  /\ l.what = m.what /\ l.of = m.of
         /\ \/ l.mode = "share" /\ m.mode = "row exclusive"
            \/ l.mode = "row exclusive" /\ m.mode = "share"
            \/ l.mode = "no key update" /\ m.mode = "no key update"
            \/ l.mode = "insert" /\ m.mode = "insert"
  <1>1. {l.mode, m.mode} \in Conflicting /\ l.mode # "update" /\ m.mode # "update"
    BY DEF Conflict, NoUpdate
  <1> QED
    BY <1>1 DEF Conflict, Conflicting

\* An index that has a lock has the one on the tables; no save that holds a
\* relation stands against it.
LEMMA IndexPasses ==
  ASSUME IInv, NEW i \in Run, NEW s \in Run, i # s, job[i] = "index", got[i] # {},
         wants[i] # NoLock, NEW m \in got[s], NoUpdate(m)
  PROVE  ~Conflict(wants[i], m)
  <1> SUFFICES ASSUME Conflict(wants[i], m)
               PROVE  FALSE
    OBVIOUS
  <1>1. /\ wants[i].what \in Relation /\ wants[i].of = NoConn /\ wants[i].mode = "share"
    BY RunWaits DEF LocksOf
  <1>2. m.what = wants[i].what /\ m.of = NoConn /\ m.mode = "row exclusive"
    BY <1>1, RunWaits, ModesInConflict
  <1>3. m \in LocksOf(job[s])
    BY DEF IInv, RunShape
  <1>4. job[s] = "save"
    BY <1>1, <1>2, <1>3, RelationType DEF LocksOf
  <1>5. On("tables", "row exclusive") \in got[s]
    <2> DEFINE g == On("tables", "row exclusive")
    <2>1. g \in Remaining(s) \cup got[s]
      BY <1>1, <1>2, <1>4 DEF IInv, RunShape, Gate
    <2>2. g.what = "tables"
      BY DEF On
    <2>3. CASE m = g
      BY <2>3
    <2>4. CASE m # g
      <3>1. Before("save", g, m)
        BY <1>1, <1>2, <2>2, <2>4 DEF Before, SessionOrder
      <3> QED
        BY <1>4, <2>1, <3>1 DEF IInv, RunShape
    <2> QED
      BY <2>3, <2>4
  <1>6. On("tables", "share") \in got[i]
    <2> DEFINE g == On("tables", "share")
    <2>1. PICK l \in got[i] : TRUE
      OBVIOUS
    <2>2. l \in Lock /\ l.what \in Relation /\ l.of = NoConn /\ l.mode = "share"
      BY <2>1 DEF IInv, RunShape, LocksOf
    <2>3. g \in Remaining(i) \cup got[i]
      BY <2>2 DEF IInv, RunShape, Gate
    <2>4. CASE l.what = "tables"
      <3>1. l = g
        BY <2>2, <2>4 DEF Lock, On
      <3> QED
        BY <3>1
    <2>5. CASE l.what # "tables"
      <3>1. PICK j \in DOMAIN Indexes : Indexes[j] = l.what
        BY <2>2 DEF Relation
      <3>2. DOMAIN Indexes = 1..Len(Indexes) /\ Indexes[1] = "tables" /\ Len(Indexes) \in Nat /\ Len(Indexes) > 0
        BY LocksAssumption
      <3>3. 1 \in DOMAIN Indexes /\ 1 < j
        BY <2>5, <3>1, <3>2
      <3>4. Before("index", g, l)
        BY <2>5, <3>1, <3>2, <3>3 DEF Before, IndexOrder, On
      <3> QED
        BY <2>3, <3>4 DEF IInv, RunShape
    <2> QED
      BY <2>4, <2>5
  <1>7. Conflict(On("tables", "share"), On("tables", "row exclusive"))
    BY DEF Conflict, Conflicting, On
  <1> QED
    BY <1>5, <1>6, <1>7 DEF IInv, Apart, Actor

LEMMA NoCircle == IInv => NoDeadlockWithoutDelete
  <1> SUFFICES ASSUME IInv, NEW S \in SUBSET Run, S # {}, Stuck(S)
               PROVE  FALSE
    BY DEF NoDeadlockWithoutDelete
  <1>1. \A a \in S : wants[a] # NoLock
    BY DEF Stuck, Waits
  <1>2. ASSUME NEW a \in S
        PROVE  \E b \in S : /\ a # b
                            /\ \E m \in got[b] : /\ Conflict(wants[a], m)
                                                 /\ NoUpdate(m) /\ m \in LocksOf(job[b])
    <2>1. PICK b \in S : a # b /\ \E m \in got[b] : Conflict(wants[a], m)
      BY DEF Stuck, Waits
    <2> QED
      BY <1>1, <2>1, RunWaits
  <1>3. \A a \in S : wants[a].what # "connection"
    <2> SUFFICES ASSUME NEW a \in S, wants[a].what = "connection"
                 PROVE  FALSE
      OBVIOUS
    <2>1. PICK b \in S : \E m \in got[b] :
            Conflict(wants[a], m) /\ NoUpdate(m)
      BY <1>2
    <2>2. PICK m \in got[b] :
            Conflict(wants[a], m) /\ NoUpdate(m)
      BY <2>1
    <2>3. wants[a].mode \notin {"share", "row exclusive"}
      BY <1>1, RunWaits, RelationType DEF LocksOf
    <2>4. m.what = "connection" /\ m.mode \in {"no key update", "insert"}
      BY <1>1, <2>2, <2>3, RunWaits, ModesInConflict
    <2> QED
      BY <1>1, <2>4, ConnectionIsLast
  <1>4. \A i \in S : job[i] = "index" => got[i] = {}
    BY <1>1, <1>2, IndexPasses
  <1>5. ASSUME NEW s \in S, job[s] # "index", wants[s].what \in Relation
        PROVE  FALSE
    <2>1. PICK b \in S : \E m \in got[b] :
            Conflict(wants[s], m) /\ NoUpdate(m) /\ m \in LocksOf(job[b])
      BY <1>2
    <2>2. PICK m \in got[b] :
            Conflict(wants[s], m) /\ NoUpdate(m) /\ m \in LocksOf(job[b])
      BY <2>1
    <2>3. wants[s].mode = "row exclusive"
      BY <1>1, <1>5, RunWaits, RelationType DEF LocksOf
    <2>4. m.mode = "share" /\ m.what \in Relation
      BY <1>1, <1>5, <2>2, <2>3, RunWaits, ModesInConflict
    <2>5. job[b] = "index"
      BY <2>2, <2>4, RelationType DEF LocksOf
    <2> QED
      BY <1>4, <2>5
  <1>6. ASSUME NEW s \in S, job[s] # "index"
        PROVE  FALSE
    <2>1. wants[s].what \in {"version", "rows"} /\ job[s] = "save"
      BY <1>1, <1>3, <1>5, <1>6, RunWaits DEF LocksOf
    <2>2. PICK b \in S : \E m \in got[b] :
            Conflict(wants[s], m) /\ NoUpdate(m) /\ m \in LocksOf(job[b])
      BY <1>2
    <2>3. PICK m \in got[b] :
            Conflict(wants[s], m) /\ NoUpdate(m) /\ m \in LocksOf(job[b])
      BY <2>2
    <2>4. m.what = wants[s].what /\ m.what # "rows"
      BY <1>1, <2>3, RunWaits, ModesInConflict
    <2>5. m.what = "version" /\ job[b] = "save"
      BY <2>1, <2>3, <2>4, RelationType DEF LocksOf
    <2>6. wants[b].what \in {"version", "rows"} /\ job[b] = "save"
      BY <1>1, <1>3, <1>5, <2>5, RunWaits DEF LocksOf
    <2>7. PICK c \in S : \E n \in got[c] :
            Conflict(wants[b], n) /\ NoUpdate(n) /\ n \in LocksOf(job[c])
      BY <1>2
    <2>8. PICK n \in got[c] :
            Conflict(wants[b], n) /\ NoUpdate(n) /\ n \in LocksOf(job[c])
      BY <2>7
    <2>9. wants[b].what = "version" /\ wants[b].mode # "key share"
      <3>1. n.what = wants[b].what /\ n.what # "rows"
        BY <1>1, <2>8, RunWaits, ModesInConflict
      <3> QED
        BY <1>1, <2>6, <2>8, <3>1, RunWaits, ModesInConflict
    <2>10. m # wants[b] /\ ~Before("save", wants[b], m)
      BY <1>1, <2>5, RunWaits
    <2> QED
      BY <2>9, <2>10 DEF Before, SessionOrder
  <1>7. PICK i \in S : job[i] = "index"
    BY <1>6
  <1>8. \E b \in S : got[b] # {}
    BY <1>2
  <1> QED
    BY <1>4, <1>6, <1>8

\* Discoveries never wait for each other in a circle, however many run, on
\* whatever connections: save_context_full writes tables before the layers,
\* VectorIndexCreation locks tables first, _persist_run its status last.
THEOREM DeadlockFreedom == Spec => []NoDeadlockWithoutDelete
  BY Invariance, NoCircle, PTL

\* In a full pool without a delete some connection's holder can go on.
THEOREM PoolTurning == Spec => []PoolTurnsOver
  <1>1. IInv => PoolTurnsOver
    <2> SUFFICES ASSUME IInv, Full, \A d \in Delete : ~Busy(d),
                        \A a \in Actor : Busy(a) => Blocked(a)
                 PROVE  FALSE
      BY DEF PoolTurnsOver
    <2> DEFINE S == {a \in Run : Busy(a)}
    <2>1. \A a \in Actor : Busy(a) => a \in S
      BY DEF Blocked, Waits, IInv, Roles, Actor
    <2>2. S # {}
      <3>1. Cardinality(InUse) # 0
        BY LocksAssumption, PoolSize \in Nat DEF Full
      <3>2. InUse # {}
        BY <3>1, FS_EmptySet
      <3>3. PICK a \in Actor : conns[a] # {}
        BY <3>2 DEF InUse
      <3>4. Busy(a)
        BY <3>3 DEF IInv, Lent, Busy
      <3> QED
        BY <2>1, <3>4
    <2>3. Stuck(S)
      <3> SUFFICES ASSUME NEW a \in S
                   PROVE  \E b \in S : Waits(a, b)
        BY DEF Stuck
      <3>1. PICK b \in Actor : Waits(a, b)
        BY DEF Blocked, Actor
      <3>2. Busy(b)
        BY <3>1 DEF Waits, IInv, TypeOK
      <3> QED
        BY <2>1, <3>1, <3>2
    <2> QED
      BY <2>2, <2>3, NoCircle DEF NoDeadlockWithoutDelete
  <1> QED
    BY <1>1, Invariance, PTL

-----------------------------------------------------------------------------
(***************************************************************************)
(* Why a deadlock takes no save but those of a connection that is deleted. *)
(* Each of a circle is also waited for.  Who waits for a save is then not  *)
(* an index without a lock, nor a save at its version row, which have      *)
(* nothing yet; an index with a lock passes; so it is a delete, and the    *)
(* row it waits for is of the connection of both.                          *)
(***************************************************************************)

\* The rows that a run or delete locks are of its own connection; what a
\* delete locks is what it deletes.
Owned(a, l) ==
  /\ l.what \notin Relation => l.of = Target[a]
  /\ a \in Delete => l.mode \in {"row exclusive", "update"}
Own == \A a \in Run \cup Delete : \A l \in Remaining(a) \cup got[a] : Owned(a, l)

LEMMA WrittenOwned ==
  ASSUME NEW a \in Run \cup Delete, NEW R \in SUBSET Relation
  PROVE  \A l \in Written(R) : Owned(a, l)
  BY WrittenShape DEF Owned

LEMMA RowOwned ==
  ASSUME NEW a \in Run \cup Delete, NEW what, NEW mode,
         a \in Delete => mode \in {"row exclusive", "update"}
  PROVE  Owned(a, Row(what, Target[a], mode))
  BY DEF Owned, Row

LEMMA RunRowOwned ==
  ASSUME NEW r \in Run, NEW L \in RunRow(Target[r])
  PROVE  \A l \in L : Owned(r, l)
  <1>1. r \notin Delete
    BY LocksAssumption
  <1>2. Owned(r, Reference(Target[r])) /\ Owned(r, NewStatus(Target[r]))
    BY <1>1, RowOwned DEF Reference, NewStatus
  <1> QED
    BY <1>2 DEF RunRow

LEMMA VersionOwned ==
  ASSUME NEW r \in Run, NEW R, NEW V \in VersionLocks(Target[r], R)
  PROVE  \A l \in V : Owned(r, l)
  <1> DEFINE c == Target[r]
  <1>1. r \notin Delete
    BY LocksAssumption
  <1>2. \A mode : Owned(r, Row("version", c, mode))
    BY <1>1, RowOwned
  <1>3. \A l \in V : \E mode : l = Row("version", c, mode)
    BY DEF VersionLocks
  <1> HIDE DEF c
  <1> QED
    BY <1>2, <1>3

LEMMA SaveOwned ==
  ASSUME NEW r \in Run, NEW L \in SaveLocks(Target[r])
  PROVE  \A l \in L : Owned(r, l)
  <1>1. r \notin Delete
    BY LocksAssumption
  <1>2. Owned(r, Row("rows", Target[r], "insert"))
    BY <1>1, RowOwned
  <1>3. \A R \in MapRelations : R \in SUBSET Relation
    BY DEF MapRelations
  <1>4. CASE \E R \in MapRelations : L \in StoredAnew(Target[r], R)
    <2>1. \E R \in MapRelations :
            \E V \in VersionLocks(Target[r], R), W \in RunRow(Target[r]) :
              L = V \cup Written(R) \cup W
      BY <1>4 DEF StoredAnew
    <2>2. PICK R \in MapRelations :
            \E V \in VersionLocks(Target[r], R), W \in RunRow(Target[r]) :
              L = V \cup Written(R) \cup W
      BY <2>1
    <2>3. PICK V \in VersionLocks(Target[r], R), W \in RunRow(Target[r]) :
            L = V \cup Written(R) \cup W
      BY <2>2
    <2> QED
      BY <1>3, <2>3, VersionOwned, WrittenOwned, RunRowOwned
  <1>5. CASE \E R \in Reached(Target[r]) : L \in StoredTwice(Target[r], R)
    <2>1. \E R \in MapRelations : \E V \in VersionLocks(Target[r], R) :
            L = V \cup Written(R) \cup {Row("rows", Target[r], "insert")}
      BY <1>5 DEF StoredTwice, Reached
    <2>2. PICK R \in MapRelations : \E V \in VersionLocks(Target[r], R) :
            L = V \cup Written(R) \cup {Row("rows", Target[r], "insert")}
      BY <2>1
    <2>3. PICK V \in VersionLocks(Target[r], R) :
            L = V \cup Written(R) \cup {Row("rows", Target[r], "insert")}
      BY <2>2
    <2> QED
      BY <1>2, <1>3, <2>3, VersionOwned, WrittenOwned
  <1>6. \/ \E R \in MapRelations : L \in StoredAnew(Target[r], R)
        \/ \E R \in Reached(Target[r]) : L \in StoredTwice(Target[r], R)
    BY DEF SaveLocks
  <1> QED
    BY <1>4, <1>5, <1>6

LEMMA TransactionOwned ==
  ASSUME NEW a \in Run \cup Delete, IInv, job[a] # "over", NEW L \in Transactions(a)
  PROVE  \A l \in L : Owned(a, l)
  <1>1. CASE a \in Run
    <2>1. a \notin Delete /\ job[a] \in RunJobs
      BY <1>1, LocksAssumption DEF IInv, RunShape
    <2>2. CASE job[a] = "index"
      <3>1. L = IndexLocks
        BY <2>2 DEF Transactions
      <3> SUFFICES ASSUME NEW l \in L
                   PROVE  Owned(a, l)
        OBVIOUS
      <3>2. PICK x \in Relation : l = On(x, "share")
        BY <3>1 DEF IndexLocks
      <3>3. l.what \in Relation
        BY <3>2 DEF On
      <3> QED
        BY <2>1, <3>3 DEF Owned
    <2>3. CASE job[a] = "save"
      BY <1>1, <2>3, SaveOwned DEF Transactions
    <2>4. CASE job[a] \notin {"index", "save"}
      <3>1. L = {Placeholder(Target[a])} \/ L \in RunRow(Target[a])
        BY <2>1, <2>4 DEF Transactions, RunJobs, PersistLocks
      <3>2. Owned(a, Placeholder(Target[a]))
        BY <2>1, RowOwned DEF Placeholder
      <3> QED
        BY <1>1, <3>1, <3>2, RunRowOwned
    <2> QED
      BY <2>2, <2>3, <2>4
  <1>2. CASE a \in Delete
    <2> DEFINE c == Target[a]
    <2>1. L \in DeleteLocks(c)
      BY <1>2 DEF Transactions, IInv, Roles
    <2>2. \A what \in {"rows", "version", "connection"} : Owned(a, Row(what, c, "update"))
      BY RowOwned
    <2>3. stored[c] \in {"none", "alone", "with map"}
      BY TargetType DEF IInv, TypeOK
    <2>4. CASE stored[c] = "none"
      BY <2>1, <2>4 DEF DeleteLocks
    <2>5. CASE stored[c] = "alone"
      BY <2>1, <2>2, <2>5 DEF DeleteLocks
    <2>6. CASE stored[c] = "with map"
      <3>1. PICK R \in MapRelations :
              L = Written(R) \cup {Row("rows", c, "update") : x \in R} \cup
                    {Row("version", c, "update"), Row("connection", c, "update")}
        BY <2>1, <2>6 DEF DeleteLocks
      <3>2. \A l \in Written(R) : Owned(a, l)
        BY WrittenOwned DEF MapRelations
      <3> QED
        BY <2>2, <3>1, <3>2
    <2> QED
      BY <2>3, <2>4, <2>5, <2>6
  <1> QED
    BY <1>1, <1>2

\* Whatever only a changes, and what a has is its own.
LEMMA OwnKept ==
  ASSUME Own, NEW a \in Actor,
         \A b \in Actor : b # a =>
           todo'[b] = todo[b] /\ wants'[b] = wants[b] /\ got'[b] = got[b],
         a \in Run \cup Delete => \A l \in Remaining(a)' \cup got'[a] : Owned(a, l)
  PROVE  Own'
  <1> SUFFICES ASSUME NEW b \in Run \cup Delete, NEW l \in Remaining(b)' \cup got'[b]
               PROVE  Owned(b, l)
    BY DEF Own, Owned
  <1>1. CASE b = a
    BY <1>1
  <1>2. CASE b # a
    <2>1. Remaining(b)' = Remaining(b) /\ got'[b] = got[b]
      BY <1>2 DEF Actor, Remaining
    <2> QED
      BY <2>1 DEF Own
  <1> QED
    BY <1>1, <1>2

LEMMA AskOwned ==
  ASSUME Own, IInv, NEW a \in Actor, NEW L \in SUBSET Lock, Ask(a, L),
         NEW G, got'[a] = G, \A b \in Actor : b # a => got'[b] = got[b],
         a \in Run \cup Delete => \A l \in L \cup G : Owned(a, l)
  PROVE  Own'
  <1>1. /\ \A b \in Actor : b # a => wants'[b] = wants[b] /\ todo'[b] = todo[b]
        /\ todo'[a] \cup ({wants'[a]} \ {NoLock}) = L
    BY AskResult DEF IInv
  <1>2. Remaining(a)' = L
    BY <1>1 DEF Remaining
  <1> QED
    BY <1>1, <1>2, OwnKept

LEMMA ReleaseOwned ==
  ASSUME Own, IInv, NEW a \in Actor, Release(a)
  PROVE  Own'
  <1>1. /\ todo'[a] = {} /\ wants'[a] = NoLock /\ got'[a] = {}
        /\ \A b \in Actor : b # a =>
             todo'[b] = todo[b] /\ wants'[b] = wants[b] /\ got'[b] = got[b]
    BY DEF IInv, TypeOK, Release
  <1>2. Remaining(a)' = {}
    BY <1>1 DEF Remaining
  <1> QED
    BY <1>1, <1>2, OwnKept

LEMMA BeginOwned ==
  ASSUME Own, IInv, NEW a \in Actor, Begin(a)
  PROVE  Own'
  <1>1. PICK L \in Transactions(a) : Ask(a, L)
    BY DEF Begin
  <1>2. got[a] = {} /\ job[a] # "over" /\ UNCHANGED got
    BY DEF IInv, TypeOK, Begin
  <1>3. L \in SUBSET Lock
    BY <1>2, TransactionType DEF IInv, Roles
  <1>4. a \in Run \cup Delete => \A l \in L : Owned(a, l)
    BY <1>2, TransactionOwned
  <1> DEFINE G == got[a]
  <1>5. G = {} /\ got'[a] = G /\ \A b \in Actor : b # a => got'[b] = got[b]
    BY <1>2
  <1> HIDE DEF G
  <1> QED
    BY <1>1, <1>3, <1>4, <1>5, AskOwned

LEMMA TakeOwned ==
  ASSUME Own, IInv, NEW a \in Actor, Take(a)
  PROVE  Own'
  <1> DEFINE G == got[a] \cup {wants[a]}
             L == todo[a]
  <1>1. got'[a] = G /\ \A b \in Actor : b # a => got'[b] = got[b]
    BY DEF IInv, TypeOK, Take
  <1>2. a \in Run \cup Delete => \A l \in L \cup G : Owned(a, l)
    BY DEF Own, Remaining, Take
  <1>3. L \in SUBSET Lock /\ Ask(a, L)
    BY DEF IInv, TypeOK, Take
  <1> HIDE DEF G, L
  <1> QED
    BY <1>1, <1>2, <1>3, AskOwned

LEMMA RejectOwned ==
  ASSUME Own, IInv, NEW a \in Actor, Reject(a)
  PROVE  Own'
  <1>1. CASE Lose(a)
    BY <1>1, ReleaseOwned DEF Lose
  <1>2. ASSUME wants[a] = Placeholder(Target[a]), NEW L \in RunRow(Target[a]), Ask(a, L),
               UNCHANGED got
        PROVE  Own'
    <2>1. wants[a] # NoLock /\ wants[a].mode = "insert"
      BY <1>2 DEF Reject, Placeholder, Row
    <2>2. a \in Run
      <3>1. a \notin Question
        BY <2>1 DEF IInv, Roles
      <3>2. a \notin Delete
        BY <2>1 DEF Own, Owned, Remaining
      <3> QED
        BY <3>1, <3>2 DEF Actor
    <2>3. L \in SUBSET Lock
      BY <1>2, <2>2, RunRowShape
    <2> DEFINE G == got[a]
    <2>4. G = got[a] /\ got'[a] = G /\ \A b \in Actor : b # a => got'[b] = got[b]
      BY <1>2
    <2>5. \A l \in L \cup G : Owned(a, l)
      BY <1>2, <2>2, RunRowOwned DEF Own
    <2> HIDE DEF G
    <2> QED
      BY <1>2, <2>3, <2>4, <2>5, AskOwned
  <1> QED
    BY <1>1, <1>2 DEF Reject

LEMMA OwnInvariant == Spec => []Own
  <1>1. Init => Own
    BY DEF Init, Own, Remaining, Actor
  <1>2. IInv /\ Own /\ [Next]_vars => Own'
    <2> SUFFICES ASSUME IInv, Own, [Next]_vars
                 PROVE  Own'
      OBVIOUS
    <2>1. CASE UNCHANGED <<todo, wants, got>>
      BY <2>1 DEF Own, Owned, Remaining
    <2>2. ASSUME NEW a \in Actor, Step(a)
          PROVE  Own'
      <3>1. CASE Begin(a)
        BY <3>1, BeginOwned
      <3>2. CASE GiveUp(a)
        BY <2>1, <3>2 DEF GiveUp
      <3>3. CASE Take(a)
        BY <3>3, TakeOwned
      <3>4. CASE Reject(a)
        BY <3>4, RejectOwned
      <3>5. CASE Victim(a)
        BY <3>5, ReleaseOwned DEF Victim, Lose
      <3>6. CASE Commit(a)
        BY <3>6, ReleaseOwned DEF Commit
      <3> QED
        BY <2>2, <3>1, <3>2, <3>3, <3>4, <3>5, <3>6 DEF Step
    <2>3. ASSUME NEW a \in Actor, Fail(a)
          PROVE  Own'
      BY <2>3, ReleaseOwned DEF Fail
    <2>4. ASSUME NEW r \in Run, Raise(r)
          PROVE  Own'
      BY <2>1, <2>4 DEF Raise
    <2> QED
      BY <2>1, <2>2, <2>3, <2>4 DEF Next, vars
  <1> QED
    BY <1>1, <1>2, Invariance, PTL DEF Spec

\* In a least circle each is waited for: the others would be one without it.
LEMMA EachWaitedFor ==
  ASSUME NEW S \in Cycles, NEW b \in S
  PROVE  \E a \in S : Waits(a, b)
  <1>1. /\ S \in SUBSET {a \in Actor : Blocked(a)} /\ Stuck(S)
        /\ \A T \in SUBSET {a \in Actor : Blocked(a)} :
             T # {} /\ Stuck(T) /\ T \subseteq S => T = S
    BY DEF Cycles
  <1> SUFFICES ASSUME \A a \in S : ~Waits(a, b)
               PROVE  FALSE
    OBVIOUS
  <1> DEFINE T == S \ {b}
  <1>2. Stuck(T)
    BY <1>1 DEF Stuck
  <1>3. T # {}
    <2>1. PICK a \in S : Waits(b, a)
      BY <1>1 DEF Stuck
    <2> QED
      BY <2>1 DEF Waits
  <1> QED
    BY <1>1, <1>2, <1>3

LEMMA SavesLost == IInv /\ Own => SavesLostToDeletes
  <1> SUFFICES ASSUME IInv, Own, NEW S \in Cycles, NEW r \in S \cap Run, job[r] = "save"
               PROVE  \E d \in S \cap Delete : Target[d] = Target[r]
    BY DEF SavesLostToDeletes
  <1>1. S \subseteq Actor /\ \A a \in S : wants[a] # NoLock
    BY DEF Cycles, Blocked, Waits
  <1>2. \A a \in S : got[a] # {}
    BY EachWaitedFor DEF Waits
  <1>3. PICK a \in S : Waits(a, r)
    BY EachWaitedFor
  <1>4. PICK m \in got[r] : Conflict(wants[a], m)
    BY <1>3 DEF Waits
  <1>5. /\ m \in LocksOf("save") /\ NoUpdate(m) /\ m.what # "rows" /\ a # r
        /\ wants[a].what = m.what /\ wants[a].of = m.of
    BY <1>1, <1>3, <1>4, RunWaits DEF Waits, Conflict
  <1>6. a \notin Question
    BY <1>1 DEF IInv, Roles
  <1>7. a \notin Run
    <2> SUFFICES ASSUME a \in Run
                 PROVE  FALSE
      OBVIOUS
    <2>1. /\ wants[a] \in LocksOf(job[a]) /\ NoUpdate(wants[a])
          /\ \A l \in got[a] : l # wants[a] /\ ~Before(job[a], wants[a], l)
      BY <1>1, RunWaits
    <2>2. \/ wants[a].mode = "share" /\ m.mode = "row exclusive"
          \/ wants[a].mode = "row exclusive" /\ m.mode = "share"
          \/ wants[a].mode = "no key update" /\ m.mode = "no key update"
          \/ wants[a].mode = "insert" /\ m.mode = "insert"
      BY <1>4, <1>5, <2>1, ModesInConflict
    <2>3. m.mode # "share"
      BY <1>5 DEF LocksOf
    <2>4. wants[a].mode # "share"
      <3> SUFFICES ASSUME wants[a].mode = "share"
                   PROVE  FALSE
        OBVIOUS
      <3>1. job[a] = "index"
        BY <2>1 DEF LocksOf
      <3> QED
        BY <1>1, <1>2, <1>4, <1>5, <3>1, IndexPasses
    <2>5. m.what # "connection"
      BY <1>1, <2>2, <2>3, <2>4, ConnectionIsLast
    <2>6. wants[a].what = "version" /\ wants[a].mode # "key share"
      BY <1>5, <2>2, <2>3, <2>4, <2>5 DEF LocksOf
    <2>7. job[a] = "save"
      BY <2>1, <2>6, RelationType DEF LocksOf
    <2>8. PICK l \in got[a] : TRUE
      BY <1>2
    <2> QED
      BY <2>1, <2>6, <2>7, <2>8 DEF Before, SessionOrder
  <1>8. a \in Delete
    BY <1>1, <1>6, <1>7 DEF Actor
  <1>9. Owned(a, wants[a]) /\ Owned(r, m)
    BY <1>1, <1>8 DEF Own, Remaining
  <1>10. m.what \notin Relation
    <2> SUFFICES ASSUME m.what \in Relation
                 PROVE  FALSE
      OBVIOUS
    <2>1. m.mode = "row exclusive"
      BY <1>5, RelationType DEF LocksOf
    <2>2. {wants[a].mode, m.mode} \in Conflicting /\ wants[a].mode \in {"row exclusive", "update"}
      BY <1>4, <1>8, <1>9 DEF Conflict, Owned
    <2> QED
      BY <2>1, <2>2 DEF Conflicting
  <1>11. Target[a] = Target[r]
    BY <1>5, <1>9, <1>10 DEF Owned
  <1> QED
    BY <1>8, <1>11

\* Among any number of actors, a save that is part of a deadlock, and may be
\* ended by it, is of a connection that another of the circle is deleting.
THEOREM SavesSurvive == Spec => []SavesLostToDeletes
  BY Invariance, OwnInvariant, SavesLost, PTL
=============================================================================
