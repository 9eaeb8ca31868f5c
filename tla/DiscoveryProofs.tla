-------------------------- MODULE DiscoveryProofs --------------------------
(***************************************************************************)
(* Theorems about Discovery.tla, for every set of connections, runs and    *)
(* tables, every sequence of steps and every number of faults and crashes. *)
(*                                                                         *)
(* The safety theorems follow from one inductive invariant, Ind.  Beyond   *)
(* the properties themselves it says where in a run the map may be pending *)
(* or stored: a map is held only between its save and the next commit, on  *)
(* a connection nobody else holds, and none of its tables is stored yet; a *)
(* run whose tables are stored is past its last step and cannot build      *)
(* another map.                                                            *)
(***************************************************************************)
EXTENDS Discovery, TLAPS

\* pos[r] follows pc[r]: a body always has a step left to run.
Position ==
  \A r \in Run :
    /\ pc[r] \in {"idle", "prep", "queued"} => pos[r] = 0
    /\ pc[r] = "body" => pos[r] < NSteps
    /\ pc[r] = "write" => pos[r] + 1 = NSteps
    /\ pc[r] = "persist" => pos[r] > 0

\* A pending map: where its run stands, and whose tables it may not touch.
Pending ==
  \A r \in Run : held[r] =>
    /\ pc[r] = "persist" /\ pos[r] = NSteps
    /\ \A t \in found[r] : owner[Target[r]][t] = NoRun
    /\ \A w \in Run : Target[w] = Target[r] /\ held[w] => w = r

\* A stored map: all of what its run found, and the run is done building.
Stored ==
  \A c \in Conn, r \in Run : (\E t \in Table : owner[c][t] = r) =>
    /\ Target[r] = c
    /\ \A t \in Table : owner[c][t] = r <=> t \in found[r]
    /\ pc[r] \notin {"idle", "prep", "queued", "body", "write", "persist"}

\* Tables are stored under a context version only.
Versioned == \A c \in Conn : header[c] = NoRun => owner[c] = NoTables

Ind == TypeOK /\ Position /\ Pending /\ Stored /\ Versioned /\ Referential

-----------------------------------------------------------------------------
(***************************************************************************)
(* Lemmas about the constants and the operators.                           *)
(***************************************************************************)

\* There is a last step, and only it saves the map.
LEMMA LastStep ==
  /\ NSteps \in Nat /\ NSteps > 0
  /\ \A i \in 1..NSteps : Steps[i] = "ContextPersistence" <=> i = NSteps
BY StepsAssumption DEF NSteps

\* A fault stays within the bound.
LEMMA FaultTyped ==
  ASSUME TypeOK, Fault \/ UNCHANGED faults
  PROVE  faults' \in 0..MaxFaults
BY ConstantsAssumption DEF TypeOK, Fault

\* A run row is well formed, with the run's own start or with a new one.
LEMMA RowTyped ==
  ASSUME TypeOK, NEW r \in Run
  PROVE  /\ RowOf(r) \in Row
         /\ [RowOf(r) EXCEPT !.start = clock + 1] \in Row
BY DEF TypeOK, RowOf, Row

\* _persist_run writes one connection's row, never deletes it, and keeps the
\* types; a connection it wrote to is not absent.
LEMMA PersistTyped ==
  ASSUME TypeOK, NEW c \in Conn, NEW row \in Row, PersistRun(c, row)
  PROVE  /\ kind' \in [Conn -> {"absent", "real", "orphan"}]
         /\ status' \in [Conn -> ConnStatus]
         /\ log' \in [Conn -> SUBSET Row]
         /\ kind'[c] # "absent"
         /\ \A d \in Conn \ {c} : kind'[d] = kind[d] /\ log'[d] = log[d]
<1>1. ConnStatusOf(row) \in ConnStatus
  BY DEF ConnStatusOf, RowStatus, ConnStatus
<1>2. KindAfterPersist(c) \in {"real", "orphan"}
  BY DEF KindAfterPersist, TypeOK
<1> QED
  BY <1>1, <1>2 DEF PersistRun, TypeOK

\* Persisting a row, or failing to, keeps the references intact.
LEMMA PersistReferential ==
  ASSUME TypeOK, Referential, NEW c \in Conn, NEW row \in Row,
         PersistRun(c, row) \/ NothingPersisted,
         UNCHANGED <<header, owner>>
  PROVE  Referential'
<1>1. CASE PersistRun(c, row)
  BY <1>1, PersistTyped DEF Referential
<1>2. CASE NothingPersisted
  BY <1>2 DEF Referential, NothingPersisted
<1> QED
  BY <1>1, <1>2

-----------------------------------------------------------------------------
(***************************************************************************)
(* The inductive invariant.                                                *)
(***************************************************************************)

\* The first state satisfies the inductive invariant.
LEMMA InitInd == Init => Ind
<1> SUFFICES ASSUME Init PROVE Ind
  OBVIOUS
<1>1. TypeOK
  BY LastStep, ConstantsAssumption, SMTT(30)
  DEF Init, TypeOK, ConnStatus, PCs, Idle, Active, Over, Row, NoTables
<1>2. Position /\ Pending
  BY DEF Init, Position, Pending
<1>3. Stored
  BY ConstantsAssumption DEF Init, Stored, NoTables
<1>4. Versioned /\ Referential
  BY DEF Init, Versioned, Referential
<1> QED
  BY <1>1, <1>2, <1>3, <1>4 DEF Ind

\* A stuttering step changes none of the parts.
LEMMA StutterInd ==
  ASSUME Ind, UNCHANGED vars
  PROVE  Ind'
<1> USE DEF Ind, vars, dbVars, runVars, bookVars
<1>1. TypeOK'
  BY DEF TypeOK
<1>2. Position' /\ Pending'
  BY DEF Position, Pending
<1>3. Stored' /\ Versioned' /\ Referential'
  BY DEF Stored, Versioned, Referential
<1> QED
  BY <1>1, <1>2, <1>3

\* Connecting touches the connection row only.
LEMMA ConnectInd ==
  ASSUME Ind, NEW c \in Conn, Connect(c)
  PROVE  Ind'
<1> USE DEF Ind
<1>1. TypeOK'
  <2>1. kind' \in [Conn -> {"absent", "real", "orphan"}] /\ status' \in [Conn -> ConnStatus]
    <3>1. CASE UNCHANGED <<kind, status>>
      BY <3>1 DEF TypeOK
    <3>2. ASSUME NEW s \in {"CONNECTED", "ERROR"},
                 kind' = [kind EXCEPT ![c] = "real"], status' = [status EXCEPT ![c] = s]
          PROVE  kind' \in [Conn -> {"absent", "real", "orphan"}] /\ status' \in [Conn -> ConnStatus]
      BY <3>2 DEF TypeOK, ConnStatus
    <3> QED
      BY <3>1, <3>2 DEF Connect, StoreConnection
  <2>2. faults' \in 0..MaxFaults
    BY FaultTyped DEF Connect, StoreConnection
  <2>3. used' \in SUBSET Conn
    BY DEF Connect, StoreConnection, TypeOK
  <2> QED
    BY <2>1, <2>2, <2>3 DEF Connect, TypeOK, runVars
<1>2. Position' /\ Pending' /\ Stored' /\ Versioned'
  BY DEF Connect, runVars, Position, Pending, Stored, Versioned
<1>3. Referential'
  BY DEF Connect, StoreConnection, TypeOK, Referential
<1> QED
  BY <1>1, <1>2, <1>3

\* Connecting and queueing a run: the run holds and stores nothing.
LEMMA ConnectAndDiscoverInd ==
  ASSUME Ind, NEW r \in Run, ConnectAndDiscover(r)
  PROVE  Ind'
<1> USE DEF Ind
<1>0. Target[r] \in Conn
  BY ConstantsAssumption
<1>1. TypeOK'
  <2>1. kind' \in [Conn -> {"absent", "real", "orphan"}] /\ status' \in [Conn -> ConnStatus]
    BY <1>0 DEF ConnectAndDiscover, StoreConnection, TypeOK, ConnStatus
  <2>2. faults' \in 0..MaxFaults
    BY FaultTyped DEF ConnectAndDiscover, StoreConnection
  <2>3. used' \in SUBSET Conn /\ pc' \in [Run -> PCs]
    BY <1>0 DEF ConnectAndDiscover, StoreConnection, TypeOK, PCs, Active
  <2> QED
    BY <2>1, <2>2, <2>3 DEF ConnectAndDiscover, TypeOK
<1>2. Position'
  BY DEF ConnectAndDiscover, Position, TypeOK
<1>3. Pending'
  BY DEF ConnectAndDiscover, Pending, TypeOK
<1>4. Stored'
  BY DEF ConnectAndDiscover, Stored, TypeOK
<1>5. Versioned' /\ Referential'
  BY <1>0 DEF ConnectAndDiscover, StoreConnection, TypeOK, Versioned, Referential
<1> QED
  BY <1>1, <1>2, <1>3, <1>4, <1>5

\* A delete empties the connection, whose locks nobody holds.
LEMMA DeleteInd ==
  ASSUME Ind, NEW c \in Conn, Delete(c)
  PROVE  Ind'
<1> USE DEF Ind
<1>1. TypeOK'
  <2>1. /\ kind' \in [Conn -> {"absent", "real", "orphan"}]
        /\ header' \in [Conn -> Run \cup {NoRun}]
        /\ log' \in [Conn -> SUBSET Row]
    BY DEF Delete, TypeOK
  <2>2. owner' \in [Conn -> [Table -> Run \cup {NoRun}]]
    <3>1. NoTables \in [Table -> Run \cup {NoRun}]
      BY DEF NoTables
    <3> QED
      BY <3>1 DEF Delete, TypeOK
  <2>3. faults' \in 0..MaxFaults /\ removed' \in SUBSET Conn
    BY FaultTyped DEF Delete, TypeOK
  <2> QED
    BY <2>1, <2>2, <2>3 DEF Delete, TypeOK, runVars
<1>2. Position'
  BY DEF Delete, Position, runVars
<1>3. Pending'
  <2>1. ASSUME NEW r \in Run, NEW t \in found[r], owner[Target[r]][t] = NoRun
        PROVE  owner'[Target[r]][t] = NoRun
    <3>1. Target[r] \in Conn /\ t \in Table
      BY ConstantsAssumption DEF TypeOK
    <3>2. CASE owner' = [owner EXCEPT ![c] = NoTables]
      BY <2>1, <3>1, <3>2 DEF TypeOK, NoTables
    <3>3. CASE UNCHANGED owner
      BY <2>1, <3>3
    <3> QED
      BY <3>2, <3>3 DEF Delete
  <2> QED
    BY <2>1 DEF Delete, Pending, runVars
<1>4. Stored'
  <2>1. CASE owner' = [owner EXCEPT ![c] = NoTables]
    <3>1. \A d \in Conn \ {c} : owner'[d] = owner[d]
      BY <2>1 DEF TypeOK
    <3>2. \A t \in Table : owner'[c][t] = NoRun
      BY <2>1 DEF TypeOK, NoTables
    <3>3. UNCHANGED <<found, pc>>
      BY DEF Delete, runVars
    <3> QED
      BY <3>1, <3>2, <3>3, ConstantsAssumption DEF Stored
  <2>2. CASE UNCHANGED owner
    BY <2>2 DEF Delete, Stored, runVars
  <2> QED
    BY <2>1, <2>2 DEF Delete
<1>5. Versioned' /\ Referential'
  BY DEF Delete, TypeOK, Versioned, Referential
<1> QED
  BY <1>1, <1>2, <1>3, <1>4, <1>5

\* A request is accepted: nothing but where the run stands changes.
LEMMA StartDiscoveryInd ==
  ASSUME Ind, NEW r \in Run, StartDiscovery(r)
  PROVE  Ind'
<1> USE DEF Ind
<1>1. TypeOK'
  BY DEF StartDiscovery, TypeOK, PCs, Active, dbVars, bookVars
<1>2. Position'
  BY DEF StartDiscovery, Position, TypeOK
<1>3. Pending'
  BY DEF StartDiscovery, Pending, TypeOK, dbVars
<1>4. Stored'
  BY DEF StartDiscovery, Stored, TypeOK, dbVars
<1>5. Versioned' /\ Referential'
  BY DEF StartDiscovery, Versioned, Referential, dbVars
<1> QED
  BY <1>1, <1>2, <1>3, <1>4, <1>5

\* The first row of a request.
LEMMA PrepareRunInd ==
  ASSUME Ind, NEW r \in Run, PrepareRun(r)
  PROVE  Ind'
<1> USE DEF Ind
<1>0. Target[r] \in Conn /\ [RowOf(r) EXCEPT !.start = clock + 1] \in Row
  BY ConstantsAssumption, RowTyped
<1>1. TypeOK'
  <2>1. /\ kind' \in [Conn -> {"absent", "real", "orphan"}]
        /\ status' \in [Conn -> ConnStatus]
        /\ log' \in [Conn -> SUBSET Row]
    BY <1>0, PersistTyped DEF PrepareRun, NothingPersisted, TypeOK
  <2>2. faults' \in 0..MaxFaults /\ clock' \in Nat /\ pc' \in [Run -> PCs]
    BY FaultTyped DEF PrepareRun, Refused, TypeOK, PCs, Active
  <2> QED
    BY <2>1, <2>2 DEF PrepareRun, TypeOK
<1>2. Position'
  BY DEF PrepareRun, Position, TypeOK
<1>3. Pending'
  BY DEF PrepareRun, Pending, TypeOK
<1>4. Stored'
  BY DEF PrepareRun, Stored, TypeOK
<1>5. Versioned' /\ Referential'
  BY <1>0, PersistReferential DEF PrepareRun, Versioned
<1> QED
  BY <1>1, <1>2, <1>3, <1>4, <1>5

\* The background task starts.
LEMMA BeginRunInd ==
  ASSUME Ind, NEW r \in Run, BeginRun(r)
  PROVE  Ind'
<1> USE DEF Ind
<1>0. Target[r] \in Conn /\ [RowOf(r) EXCEPT !.start = clock + 1] \in Row
  BY ConstantsAssumption, RowTyped
<1>1. TypeOK'
  <2>1. /\ kind' \in [Conn -> {"absent", "real", "orphan"}]
        /\ status' \in [Conn -> ConnStatus]
        /\ log' \in [Conn -> SUBSET Row]
    BY <1>0, PersistTyped DEF BeginRun, NothingPersisted, TypeOK
  <2>2. /\ faults' \in 0..MaxFaults /\ clock' \in Nat
        /\ pc' \in [Run -> PCs] /\ start' \in [Run -> Nat]
    BY FaultTyped DEF BeginRun, Refused, TypeOK, PCs, Active
  <2> QED
    BY <2>1, <2>2 DEF BeginRun, TypeOK
<1>2. Position'
  BY LastStep DEF BeginRun, Position, TypeOK
<1>3. Pending'
  BY DEF BeginRun, Pending, TypeOK
<1>4. Stored'
  BY DEF BeginRun, Stored, TypeOK
<1>5. Versioned' /\ Referential'
  BY <1>0, PersistReferential DEF BeginRun, Versioned
<1> QED
  BY <1>1, <1>2, <1>3, <1>4, <1>5

\* A step that is not the last: what the run found may change, and nothing
\* of it is pending or stored yet.
LEMMA RunStepInd ==
  ASSUME Ind, NEW r \in Run, RunStep(r)
  PROVE  Ind'
<1> USE DEF Ind
<1>0. pos[r] \in 0..NSteps /\ pos[r] < NSteps
  BY DEF RunStep, Position, TypeOK
<1>1. TypeOK'
  <2>1. found' \in [Run -> SUBSET Table]
    BY DEF RunStep, TypeOK
  <2>2. pos' \in [Run -> 0..NSteps] /\ pc' \in [Run -> PCs]
    BY <1>0, LastStep DEF RunStep, TypeOK, PCs, Active
  <2> QED
    BY <2>1, <2>2 DEF RunStep, TypeOK, dbVars, bookVars
<1>2. Position'
  BY <1>0, LastStep DEF RunStep, Position, TypeOK
<1>3. Pending'
  <2>1. \A w \in Run : held[w] => w # r
    BY DEF RunStep, Pending
  <2>2. \A w \in Run \ {r} : found'[w] = found[w] /\ pos'[w] = pos[w] /\ pc'[w] = pc[w]
    BY DEF RunStep, TypeOK
  <2> QED
    BY <2>1, <2>2 DEF RunStep, Pending, dbVars
<1>4. Stored'
  <2>1. \A c \in Conn, t \in Table : owner[c][t] # r
    BY DEF RunStep, Stored
  <2>2. \A w \in Run \ {r} : found'[w] = found[w] /\ pc'[w] = pc[w]
    BY DEF RunStep, TypeOK
  <2> QED
    BY <2>1, <2>2 DEF RunStep, Stored, dbVars
<1>5. Versioned' /\ Referential'
  BY DEF RunStep, Versioned, Referential, dbVars
<1> QED
  BY <1>1, <1>2, <1>3, <1>4, <1>5

\* A step fails: the run heads for its exception handler.
LEMMA FailStepInd ==
  ASSUME Ind, NEW r \in Run, FailStep(r)
  PROVE  Ind'
<1> USE DEF Ind
<1>1. TypeOK'
  BY DEF FailStep, BrokenAfter, TypeOK, PCs, Active, dbVars, bookVars
<1>2. Position'
  BY DEF FailStep, Position, TypeOK
<1>3. Pending'
  BY DEF FailStep, Pending, TypeOK, dbVars
<1>4. Stored'
  BY DEF FailStep, Stored, TypeOK, dbVars
<1>5. Versioned' /\ Referential'
  BY DEF FailStep, Versioned, Referential, dbVars
<1> QED
  BY <1>1, <1>2, <1>3, <1>4, <1>5

\* Looking for a stored version: the run is at the last step.
LEMMA SelectVersionInd ==
  ASSUME Ind, NEW r \in Run, SelectVersion(r)
  PROVE  Ind'
<1> USE DEF Ind
<1>1. TypeOK'
  BY ConstantsAssumption DEF SelectVersion, TypeOK, PCs, Active, dbVars, bookVars
<1>2. Position'
  <2>1. pos[r] + 1 = NSteps
    <3>1. pos[r] + 1 \in 1..NSteps /\ Steps[pos[r] + 1] = "ContextPersistence"
      BY LastStep DEF SelectVersion, NextStep, Position, TypeOK
    <3> QED
      BY <3>1, LastStep
  <2> QED
    BY <2>1 DEF SelectVersion, Position, TypeOK
<1>3. Pending'
  BY DEF SelectVersion, Pending, TypeOK, dbVars
<1>4. Stored'
  BY DEF SelectVersion, Stored, TypeOK, dbVars
<1>5. Versioned' /\ Referential'
  BY DEF SelectVersion, Versioned, Referential, dbVars
<1> QED
  BY <1>1, <1>2, <1>3, <1>4, <1>5

\* A map is flushed: it becomes pending, and it touches no stored table.
LEMMA WriteMapInd ==
  ASSUME Ind, NEW r \in Run, WriteMap(r)
  PROVE  Ind'
<1> USE DEF Ind
<1>0. Target[r] \in Conn /\ pos[r] \in 0..NSteps /\ pos[r] + 1 = NSteps
  BY ConstantsAssumption DEF WriteMap, Position, TypeOK
<1>1. TypeOK'
  <2>1. pos' \in [Run -> 0..NSteps] /\ pc' \in [Run -> PCs]
    BY <1>0, LastStep DEF WriteMap, TypeOK, PCs, Active
  <2>2. held' \in [Run -> BOOLEAN] /\ sess' \in [Run -> BOOLEAN]
    BY DEF WriteMap, TypeOK
  <2>3. faults' \in 0..MaxFaults
    BY FaultTyped DEF WriteMap
  <2> QED
    BY <2>1, <2>2, <2>3 DEF WriteMap, TypeOK, dbVars
<1>2. Position'
  BY <1>0, LastStep DEF WriteMap, Position, TypeOK
<1>3. Pending'
  <2>1. \A w \in Run \ {r} : pc'[w] = pc[w] /\ pos'[w] = pos[w] /\ held'[w] = held[w]
    BY DEF WriteMap, TypeOK
  <2>2. pc'[r] = "persist" /\ pos'[r] = NSteps
    BY <1>0 DEF WriteMap, TypeOK
  <2>3. \A w \in Run : Target[w] = Target[r] => ~held[w]
    BY DEF WriteMap, Unlocked
  <2>4. held'[r] => \A t \in found[r] : owner[Target[r]][t] = NoRun
    <3>1. held'[r] => SaveFits(r)
      BY <2>3 DEF WriteMap, TypeOK
    <3>2. CASE saw[r] = NoRun
      BY <1>0, <3>1, <3>2 DEF SaveFits, Versioned, NoTables, TypeOK
    <3>3. CASE saw[r] # NoRun
      BY <3>1, <3>3 DEF SaveFits
    <3> QED
      BY <3>2, <3>3
  <2> QED
    BY <2>1, <2>2, <2>3, <2>4 DEF WriteMap, Pending, dbVars
<1>4. Stored'
  BY DEF WriteMap, Stored, TypeOK, dbVars
<1>5. Versioned' /\ Referential'
  BY DEF WriteMap, Versioned, Referential, dbVars
<1> QED
  BY <1>1, <1>2, <1>3, <1>4, <1>5

\* What a commit does to the stored tables: a pending map is published whole,
\* on top of nothing.
LEMMA CommitPublishes ==
  ASSUME Ind, NEW r \in Run, CommitStep(r)
  PROVE  /\ \A d \in Conn \ {Target[r]} : owner'[d] = owner[d] /\ header'[d] = header[d]
         /\ held[r] => /\ header'[Target[r]] # NoRun
                       /\ owner'[Target[r]] = MapAfterSave(r)
                       /\ \A t \in found[r] : owner[Target[r]][t] = NoRun
                       /\ \A t \in Table : owner[Target[r]][t] # r
         /\ ~held[r] => UNCHANGED <<header, owner>>
<1> USE DEF Ind
<1>0. Target[r] \in Conn
  BY ConstantsAssumption
<1>1. CASE held[r]
  <2>1. \A t \in found[r] : owner[Target[r]][t] = NoRun
    BY <1>1 DEF Pending
  <2>2. \A t \in Table : owner[Target[r]][t] # r
    BY <1>0 DEF CommitStep, Stored
  <2>3. owner' = [owner EXCEPT ![Target[r]] = MapAfterSave(r)]
    BY <1>1 DEF CommitStep, PublishHeld
  <2>4. header' = [header EXCEPT ![Target[r]] = IF @ = NoRun THEN r ELSE @]
    BY <1>1 DEF CommitStep, PublishHeld
  <2>5. header'[Target[r]] # NoRun
    BY <1>0, <2>4, ConstantsAssumption DEF TypeOK
  <2> QED
    BY <1>0, <1>1, <2>1, <2>2, <2>3, <2>4, <2>5 DEF TypeOK
<1>2. CASE ~held[r]
  BY <1>2 DEF CommitStep, PublishHeld
<1> QED
  BY <1>1, <1>2

\* A commit publishes what was pending.
LEMMA CommitStepInd ==
  ASSUME Ind, NEW r \in Run, CommitStep(r)
  PROVE  Ind'
<1> USE DEF Ind
<1>0. Target[r] \in Conn /\ RowOf(r) \in Row
  BY ConstantsAssumption, RowTyped
<1>1. TypeOK'
  <2>1. /\ kind' \in [Conn -> {"absent", "real", "orphan"}]
        /\ status' \in [Conn -> ConnStatus]
        /\ log' \in [Conn -> SUBSET Row]
    BY <1>0, PersistTyped DEF CommitStep
  <2>2. MapAfterSave(r) \in [Table -> Run \cup {NoRun}]
    BY <1>0 DEF MapAfterSave, TypeOK
  <2>3. owner' \in [Conn -> [Table -> Run \cup {NoRun}]]
    BY <2>2 DEF CommitStep, PublishHeld, TypeOK
  <2>4. header' \in [Conn -> Run \cup {NoRun}]
    BY DEF CommitStep, PublishHeld, TypeOK
  <2>5. pc' \in [Run -> PCs] /\ held' \in [Run -> BOOLEAN]
    BY DEF CommitStep, TypeOK, PCs, Active
  <2> QED
    BY <2>1, <2>3, <2>4, <2>5 DEF CommitStep, TypeOK, bookVars
<1>2. Position'
  BY LastStep DEF CommitStep, Position, TypeOK
<1>3. Pending'
  <2>1. ~held'[r] /\ \A w \in Run \ {r} : held'[w] = held[w] /\ pc'[w] = pc[w]
    BY DEF CommitStep, TypeOK
  <2>2. ASSUME NEW w \in Run \ {r}, held[w]
        PROVE  owner'[Target[w]] = owner[Target[w]]
    <3>1. CASE Target[w] = Target[r]
      BY <2>2, <3>1, CommitPublishes DEF Pending
    <3>2. CASE Target[w] # Target[r]
      BY <3>2, CommitPublishes, ConstantsAssumption
    <3> QED
      BY <3>1, <3>2
  <2> QED
    BY <2>1, <2>2 DEF CommitStep, Pending
<1>4. Stored'
  <2>1. UNCHANGED found /\ \A w \in Run \ {r} : pc'[w] = pc[w]
    BY DEF CommitStep, TypeOK
  <2>2. CASE held[r]
    <3>1. pc'[r] = "final"
      BY <2>2 DEF CommitStep, Pending, TypeOK
    <3>2. \A t \in Table : owner'[Target[r]][t] = IF t \in found[r] THEN r ELSE owner[Target[r]][t]
      <4>1. owner'[Target[r]] = MapAfterSave(r)
        BY <2>2, CommitPublishes
      <4> QED
        BY <4>1 DEF MapAfterSave
    <3>3. ASSUME NEW t \in Table PROVE owner'[Target[r]][t] = r <=> t \in found[r]
      BY <2>2, <3>2, CommitPublishes
    <3>4. ASSUME NEW w \in Run \ {r}, NEW t \in Table
          PROVE  owner'[Target[r]][t] = w <=> owner[Target[r]][t] = w
      BY <2>2, <3>2, CommitPublishes, ConstantsAssumption
    <3>5. ASSUME NEW c \in Conn, NEW w \in Run, \E t \in Table : owner'[c][t] = w
          PROVE  /\ Target[w] = c
                 /\ \A t \in Table : owner'[c][t] = w <=> t \in found[w]
                 /\ pc'[w] \notin {"idle", "prep", "queued", "body", "write", "persist"}
      <4>1. CASE c = Target[r] /\ w = r
        BY <3>1, <3>3, <4>1
      <4>2. CASE c = Target[r] /\ w # r
        BY <2>1, <3>4, <3>5, <4>2 DEF Stored
      <4>3. CASE c # Target[r]
        <5>1. owner'[c] = owner[c]
          BY <4>3, CommitPublishes
        <5>2. w # r
          BY <3>5, <4>3, <5>1 DEF Stored
        <5> QED
          BY <2>1, <3>5, <5>1, <5>2 DEF Stored
      <4> QED
        BY <4>1, <4>2, <4>3
    <3> QED
      BY <2>1, <3>5 DEF Stored
  <2>3. CASE ~held[r]
    <3>1. UNCHANGED owner
      BY <2>3, CommitPublishes
    <3>2. \A c \in Conn, t \in Table : owner[c][t] # r
      BY DEF CommitStep, Stored
    <3> QED
      BY <2>1, <3>1, <3>2 DEF Stored
  <2> QED
    BY <2>2, <2>3
<1>5. Versioned'
  BY <1>0, CommitPublishes DEF Versioned
<1>6. Referential'
  <2>1. /\ kind'[Target[r]] # "absent"
        /\ \A d \in Conn \ {Target[r]} : kind'[d] = kind[d] /\ log'[d] = log[d]
    BY <1>0, PersistTyped DEF CommitStep
  <2> QED
    BY <2>1, CommitPublishes DEF Referential
<1> QED
  BY <1>1, <1>2, <1>3, <1>4, <1>5, <1>6

\* A commit fails: what was pending is dropped.
LEMMA LoseStepInd ==
  ASSUME Ind, NEW r \in Run, LoseStep(r)
  PROVE  Ind'
<1> USE DEF Ind
<1>1. TypeOK'
  <2>1. pc' \in [Run -> PCs] /\ held' \in [Run -> BOOLEAN] /\ sess' \in [Run -> BOOLEAN]
    BY DEF LoseStep, HeldAfterRollback, TypeOK, PCs, Active
  <2>2. faults' \in 0..MaxFaults
    BY FaultTyped DEF LoseStep, Refused
  <2> QED
    BY <2>1, <2>2 DEF LoseStep, TypeOK, dbVars
<1>2. Position'
  BY LastStep DEF LoseStep, Position, TypeOK
<1>3. Pending'
  BY DEF LoseStep, HeldAfterRollback, Pending, TypeOK, dbVars
<1>4. Stored'
  BY DEF LoseStep, Stored, TypeOK, dbVars
<1>5. Versioned' /\ Referential'
  BY DEF LoseStep, Versioned, Referential, dbVars
<1> QED
  BY <1>1, <1>2, <1>3, <1>4, <1>5

\* The last row of a run that worked.
LEMMA FinishRunInd ==
  ASSUME Ind, NEW r \in Run, FinishRun(r)
  PROVE  Ind'
<1> USE DEF Ind
<1>0. Target[r] \in Conn /\ RowOf(r) \in Row
  BY ConstantsAssumption, RowTyped
<1>1. TypeOK'
  <2>1. /\ kind' \in [Conn -> {"absent", "real", "orphan"}]
        /\ status' \in [Conn -> ConnStatus]
        /\ log' \in [Conn -> SUBSET Row]
    BY <1>0, PersistTyped DEF FinishRun, NothingPersisted, TypeOK
  <2>2. faults' \in 0..MaxFaults
    BY FaultTyped DEF FinishRun, Refused
  <2>3. pc' \in [Run -> PCs]
    BY DEF FinishRun, TypeOK, PCs, Active, Over
  <2> QED
    BY <2>1, <2>2, <2>3 DEF FinishRun, TypeOK
<1>2. Position'
  BY DEF FinishRun, Position, TypeOK
<1>3. Pending'
  BY DEF FinishRun, Pending, TypeOK
<1>4. Stored'
  BY DEF FinishRun, Stored, TypeOK
<1>5. Versioned' /\ Referential'
  BY <1>0, PersistReferential DEF FinishRun, Versioned
<1> QED
  BY <1>1, <1>2, <1>3, <1>4, <1>5

\* The exception handler of a run.
LEMMA FailRunInd ==
  ASSUME Ind, NEW r \in Run, FailRun(r)
  PROVE  Ind'
<1> USE DEF Ind
<1>0. Target[r] \in Conn /\ RowOf(r) \in Row
  BY ConstantsAssumption, RowTyped
<1>1. TypeOK'
  <2>1. /\ kind' \in [Conn -> {"absent", "real", "orphan"}]
        /\ status' \in [Conn -> ConnStatus]
        /\ log' \in [Conn -> SUBSET Row]
    BY <1>0, PersistTyped DEF FailRun, NothingPersisted, TypeOK
  <2>2. faults' \in 0..MaxFaults
    BY FaultTyped DEF FailRun, Refused
  <2>3. pc' \in [Run -> PCs] /\ held' \in [Run -> BOOLEAN] /\ sess' \in [Run -> BOOLEAN]
    BY DEF FailRun, HeldAfterRollback, TypeOK, PCs, Over
  <2> QED
    BY <2>1, <2>2, <2>3 DEF FailRun, TypeOK
<1>2. Position'
  BY DEF FailRun, Position, TypeOK
<1>3. Pending'
  BY DEF FailRun, HeldAfterRollback, Pending, TypeOK
<1>4. Stored'
  BY DEF FailRun, Stored, TypeOK
<1>5. Versioned' /\ Referential'
  BY <1>0, PersistReferential DEF FailRun, Versioned
<1> QED
  BY <1>1, <1>2, <1>3, <1>4, <1>5

\* The process dies: nothing stays pending, and what is stored stays.
LEMMA CrashInd ==
  ASSUME Ind, Crash
  PROVE  Ind'
<1> USE DEF Ind
<1>1. TypeOK'
  <2>1. pc' \in [Run -> PCs] /\ held' \in [Run -> BOOLEAN] /\ sess' \in [Run -> BOOLEAN]
    BY DEF Crash, TypeOK, PCs, Over
  <2>2. crashes' \in 0..MaxCrashes
    BY ConstantsAssumption DEF Crash, TypeOK
  <2> QED
    BY <2>1, <2>2 DEF Crash, TypeOK, dbVars
<1>2. Position'
  BY DEF Crash, Position, TypeOK, Active
<1>3. Pending'
  BY DEF Crash, Pending
<1>4. Stored'
  BY DEF Crash, Stored, Active, dbVars
<1>5. Versioned' /\ Referential'
  BY DEF Crash, Versioned, Referential, dbVars
<1> QED
  BY <1>1, <1>2, <1>3, <1>4, <1>5

\* Every step preserves the invariant.
LEMMA NextInd ==
  ASSUME Ind, [Next]_vars
  PROVE  Ind'
<1>1. CASE UNCHANGED vars
  BY <1>1, StutterInd
<1>2. ASSUME NEW c \in Conn, Connect(c) \/ Delete(c) PROVE Ind'
  BY <1>2, ConnectInd, DeleteInd
<1>3. ASSUME NEW r \in Run, ConnectAndDiscover(r) \/ StartDiscovery(r) PROVE Ind'
  BY <1>3, ConnectAndDiscoverInd, StartDiscoveryInd
<1>4. ASSUME NEW r \in Run, Progress(r) PROVE Ind'
  BY <1>4, PrepareRunInd, BeginRunInd, RunStepInd, FailStepInd, SelectVersionInd,
     WriteMapInd, CommitStepInd, LoseStepInd, FinishRunInd, FailRunInd DEF Progress
<1>5. CASE Crash
  BY <1>5, CrashInd
<1> QED
  BY <1>1, <1>2, <1>3, <1>4, <1>5 DEF Next

-----------------------------------------------------------------------------
(***************************************************************************)
(* Theorems.                                                               *)
(***************************************************************************)

\* The invariant holds in every state of every behaviour.
THEOREM Invariance == Spec => []Ind
BY InitInd, NextInd, PTL DEF Spec

\* Every variable keeps its type: in particular a run never counts more
\* steps than the pipeline has.
THEOREM TypeCorrect == Spec => []TypeOK
<1>1. Ind => TypeOK
  BY DEF Ind
<1> QED
  BY <1>1, Invariance, PTL

\* No context version, table or run row is without its connection row,
\* however deletes, placeholders and saves interleave.
THEOREM ReferentialHolds == Spec => []Referential
<1>1. Ind => Referential
  BY DEF Ind
<1> QED
  BY <1>1, Invariance, PTL

\* The tables a reader sees of a run are all the tables the run found: no
\* save is seen half-done.
THEOREM MapWholeHolds == Spec => []MapWhole
<1>1. Ind => MapWhole
  <2> SUFFICES ASSUME Ind, NEW c \in Conn, NEW r \in Run, Contribution(c, r) # {}
               PROVE  c = Target[r] /\ Contribution(c, r) = found[r]
    BY DEF MapWhole
  <2>1. \E t \in Table : owner[c][t] = r
    BY DEF Contribution
  <2>2. Target[r] = c /\ \A t \in Table : owner[c][t] = r <=> t \in found[r]
    BY <2>1 DEF Ind, Stored
  <2>3. found[r] \subseteq Table
    BY DEF Ind, TypeOK
  <2> QED
    BY <2>2, <2>3 DEF Contribution
<1> QED
  BY <1>1, Invariance, PTL

\* The steps that leave the stored tables as they are.
LEMMA OwnerUnchanged ==
  ASSUME NEW r \in Run,
         \/ ConnectAndDiscover(r) \/ StartDiscovery(r)
         \/ PrepareRun(r) \/ BeginRun(r) \/ RunStep(r) \/ FailStep(r)
         \/ SelectVersion(r) \/ WriteMap(r) \/ LoseStep(r)
         \/ FinishRun(r) \/ FailRun(r)
  PROVE  UNCHANGED owner
BY DEF ConnectAndDiscover, StartDiscovery, PrepareRun, BeginRun, RunStep, FailStep,
       SelectVersion, WriteMap, LoseStep, FinishRun, FailRun, dbVars

\* A step publishes a run's whole map on top of nothing, or empties one
\* connection together with its row, or leaves the stored tables alone.
LEMMA OwnerSteps ==
  ASSUME Ind, [Next]_vars
  PROVE  \/ UNCHANGED owner
         \/ \E c \in Conn : /\ kind'[c] = "absent"
                            /\ owner' = [owner EXCEPT ![c] = NoTables]
         \/ \E r \in Run : /\ \A t \in Table : owner[Target[r]][t] # r
                           /\ \A t \in found[r] : owner[Target[r]][t] = NoRun
                           /\ owner' = [owner EXCEPT ![Target[r]] = MapAfterSave(r)]
<1>1. CASE UNCHANGED vars
  BY <1>1 DEF vars, dbVars
<1>2. ASSUME NEW c \in Conn, Connect(c) PROVE UNCHANGED owner
  BY <1>2 DEF Connect
<1>3. ASSUME NEW c \in Conn, Delete(c)
      PROVE  \/ UNCHANGED owner
             \/ kind'[c] = "absent" /\ owner' = [owner EXCEPT ![c] = NoTables]
  BY <1>3 DEF Delete, Ind, TypeOK
<1>4. ASSUME NEW r \in Run, CommitStep(r)
      PROVE  \/ UNCHANGED owner
             \/ /\ \A t \in Table : owner[Target[r]][t] # r
                /\ \A t \in found[r] : owner[Target[r]][t] = NoRun
                /\ owner' = [owner EXCEPT ![Target[r]] = MapAfterSave(r)]
  BY <1>4, CommitPublishes DEF CommitStep, PublishHeld
<1>5. CASE Crash
  BY <1>5 DEF Crash, dbVars
<1> QED
  BY <1>1, <1>2, <1>3, <1>4, <1>5, OwnerUnchanged DEF Next, Progress

\* A stored table stays with the run that stored it until its connection is
\* deleted: no rejected, failed or interrupted re-discovery damages the map.
THEOREM StoredTablesKeptHolds == Spec => StoredTablesKept
<1>1. Ind /\ [Next]_vars =>
        [\A c \in Conn, t \in Table :
           owner[c][t] # NoRun => owner'[c][t] = owner[c][t] \/ kind'[c] = "absent"]_vars
  <2> SUFFICES ASSUME Ind, [Next]_vars, NEW c \in Conn, NEW t \in Table, owner[c][t] # NoRun
               PROVE  owner'[c][t] = owner[c][t] \/ kind'[c] = "absent"
    OBVIOUS
  <2>1. CASE UNCHANGED owner
    BY <2>1
  <2>2. ASSUME NEW d \in Conn, kind'[d] = "absent", owner' = [owner EXCEPT ![d] = NoTables]
        PROVE  owner'[c][t] = owner[c][t] \/ kind'[c] = "absent"
    BY <2>2 DEF Ind, TypeOK
  <2>3. ASSUME NEW r \in Run,
               \A u \in found[r] : owner[Target[r]][u] = NoRun,
               owner' = [owner EXCEPT ![Target[r]] = MapAfterSave(r)]
        PROVE  owner'[c][t] = owner[c][t]
    BY <2>3 DEF MapAfterSave, Ind, TypeOK
  <2> QED
    BY <2>1, <2>2, <2>3, OwnerSteps
<1> QED
  BY <1>1, Invariance, PTL DEF Spec, StoredTablesKept

\* To a reader the metadata database is a catalogue of published maps: every
\* step of the agent is one Publish, one Drop, or nothing at all.
THEOREM PublishedAtomicallyHolds == Spec => PublishedAtomically
<1>1. Init => Catalogue!Init
  BY DEF Init, NoTables, Catalogue!Init, Catalogue!Empty
<1>2. Ind /\ [Next]_vars => [Catalogue!Next]_owner
  <2> SUFFICES ASSUME Ind, [Next]_vars
               PROVE  Catalogue!Next \/ UNCHANGED owner
    OBVIOUS
  <2>1. ASSUME NEW c \in Conn, owner' = [owner EXCEPT ![c] = NoTables]
        PROVE  Catalogue!Drop(c)
    BY <2>1 DEF Catalogue!Drop, Catalogue!Empty, NoTables
  <2>2. ASSUME NEW r \in Run,
               \A t \in Table : owner[Target[r]][t] # r,
               \A t \in found[r] : owner[Target[r]][t] = NoRun,
               owner' = [owner EXCEPT ![Target[r]] = MapAfterSave(r)]
        PROVE  Catalogue!Publish(Target[r], r, found[r])
    BY <2>2 DEF Catalogue!Publish, MapAfterSave, Ind, TypeOK
  <2>3. \A r \in Run : Target[r] \in Conn /\ found[r] \in SUBSET Table
    BY ConstantsAssumption DEF Ind, TypeOK
  <2> QED
    BY <2>1, <2>2, <2>3, OwnerSteps DEF Catalogue!Next
<1> QED
  BY <1>1, <1>2, Invariance, PTL DEF Spec, PublishedAtomically, Catalogue!Spec

\* A step shows a reader of connection c nothing new, or a connection row, or
\* an empty connection, or a map that has grown by new tables.
LEMMA ReaderSteps ==
  ASSUME Ind, [Next]_vars, NEW c \in Conn
  PROVE  \/ kind'[c] = kind[c] /\ header'[c] = header[c] /\ owner'[c] = owner[c]
         \/ kind'[c] # "absent" /\ header'[c] = header[c] /\ owner'[c] = owner[c]
         \/ kind[c] # "absent" /\ kind'[c] = "absent" /\ header'[c] = NoRun /\ owner'[c] = NoTables
         \/ /\ kind'[c] # "absent" /\ header'[c] # NoRun
            /\ \E ts \in SUBSET Table :
                 /\ \A t \in ts : owner[c][t] = NoRun
                 /\ \A t \in Table : owner'[c][t] # NoRun <=> t \in ts \/ owner[c][t] # NoRun
<1> DEFINE Seen == \/ kind'[c] = kind[c] /\ header'[c] = header[c] /\ owner'[c] = owner[c]
                   \/ kind'[c] # "absent" /\ header'[c] = header[c] /\ owner'[c] = owner[c]
<1> USE DEF Ind
<1>1. CASE UNCHANGED vars
  BY <1>1 DEF vars, dbVars
<1>2. ASSUME NEW d \in Conn, StoreConnection(d), UNCHANGED <<header, owner>>
      PROVE  Seen
  BY <1>2 DEF StoreConnection, TypeOK
<1>3. ASSUME NEW d \in Conn, Delete(d)
      PROVE  \/ Seen
             \/ kind[c] # "absent" /\ kind'[c] = "absent" /\ header'[c] = NoRun /\ owner'[c] = NoTables
  <2>1. CASE d = c
    BY <1>3, <2>1 DEF Delete, TypeOK
  <2>2. CASE d # c
    BY <1>3, <2>2 DEF Delete, TypeOK
  <2> QED
    BY <2>1, <2>2
<1>4. ASSUME NEW d \in Conn, NEW row \in Row, PersistRun(d, row) \/ NothingPersisted,
             UNCHANGED <<header, owner>>
      PROVE  Seen
  <2>1. CASE PersistRun(d, row)
    BY <1>4, <2>1, PersistTyped
  <2>2. CASE NothingPersisted
    BY <1>4, <2>2 DEF NothingPersisted
  <2> QED
    BY <1>4, <2>1, <2>2
<1>5. ASSUME NEW r \in Run, PrepareRun(r) \/ BeginRun(r) \/ FinishRun(r) \/ FailRun(r)
      PROVE  Seen
  <2>1. Target[r] \in Conn /\ RowOf(r) \in Row /\ [RowOf(r) EXCEPT !.start = clock + 1] \in Row
    BY ConstantsAssumption, RowTyped
  <2>2. UNCHANGED <<header, owner>>
    BY <1>5 DEF PrepareRun, BeginRun, FinishRun, FailRun
  <2>3. \/ PersistRun(Target[r], RowOf(r))
        \/ PersistRun(Target[r], [RowOf(r) EXCEPT !.start = clock + 1])
        \/ NothingPersisted
    BY <1>5 DEF PrepareRun, BeginRun, FinishRun, FailRun
  <2> QED
    BY <1>4, <2>1, <2>2, <2>3
<1>6. ASSUME NEW r \in Run, \/ StartDiscovery(r) \/ RunStep(r) \/ FailStep(r)
                            \/ SelectVersion(r) \/ WriteMap(r) \/ LoseStep(r)
      PROVE  Seen
  BY <1>6 DEF StartDiscovery, RunStep, FailStep, SelectVersion, WriteMap, LoseStep, dbVars
<1>7. ASSUME NEW r \in Run, CommitStep(r)
      PROVE  \/ Seen
             \/ /\ kind'[c] # "absent" /\ header'[c] # NoRun
                /\ \E ts \in SUBSET Table :
                     /\ \A t \in ts : owner[c][t] = NoRun
                     /\ \A t \in Table : owner'[c][t] # NoRun <=> t \in ts \/ owner[c][t] # NoRun
  <2>1. Target[r] \in Conn /\ RowOf(r) \in Row /\ PersistRun(Target[r], RowOf(r))
    BY <1>7, ConstantsAssumption, RowTyped DEF CommitStep
  <2>2. kind'[Target[r]] # "absent" /\ \A d \in Conn \ {Target[r]} : kind'[d] = kind[d]
    BY <2>1, PersistTyped
  <2>3. CASE c # Target[r]
    BY <1>7, <2>2, <2>3, CommitPublishes
  <2>4. CASE c = Target[r] /\ ~held[r]
    BY <1>7, <2>2, <2>4, CommitPublishes
  <2>5. CASE c = Target[r] /\ held[r]
    <3>1. /\ header'[c] # NoRun /\ owner'[c] = MapAfterSave(r)
          /\ \A t \in found[r] : owner[c][t] = NoRun
      BY <1>7, <2>5, CommitPublishes
    <3>2. \A t \in Table : owner'[c][t] # NoRun <=> t \in found[r] \/ owner[c][t] # NoRun
      BY <2>5, <3>1, ConstantsAssumption DEF MapAfterSave
    <3>3. found[r] \in SUBSET Table
      BY DEF TypeOK
    <3> QED
      BY <2>2, <2>5, <3>1, <3>2, <3>3
  <2> QED
    BY <2>3, <2>4, <2>5
<1>8. CASE Crash
  BY <1>8 DEF Crash, dbVars
<1>9. ASSUME NEW r \in Run, ConnectAndDiscover(r) PROVE Seen
  BY <1>2, <1>9, ConstantsAssumption DEF ConnectAndDiscover
<1>10. ASSUME NEW d \in Conn, Connect(d) PROVE Seen
  BY <1>2, <1>10 DEF Connect
<1> HIDE DEF Seen, Ind
<1>11. ASSUME NEW r \in Run, Progress(r)
       PROVE  \/ Seen
              \/ /\ kind'[c] # "absent" /\ header'[c] # NoRun
                 /\ \E ts \in SUBSET Table :
                      /\ \A t \in ts : owner[c][t] = NoRun
                      /\ \A t \in Table : owner'[c][t] # NoRun <=> t \in ts \/ owner[c][t] # NoRun
  BY <1>5, <1>6, <1>7, <1>11 DEF Progress
<1>12. CASE Next
  <2>1. CASE \E d \in Conn : Connect(d) \/ Delete(d)
    BY <1>3, <1>10, <2>1 DEF Seen
  <2>2. CASE \E r \in Run : ConnectAndDiscover(r) \/ StartDiscovery(r) \/ Progress(r)
    BY <1>6, <1>9, <1>11, <2>2 DEF Seen
  <2> QED
    BY <1>8, <1>12, <2>1, <2>2 DEF Next
<1> QED
  BY <1>1, <1>12

\* What questions see of each connection is what StoredMap says: its map grows
\* by new tables until the connection goes, and goes with it.
THEOREM ReadersViewHolds == Spec => ReadersView
<1>1. Init => \A c \in Conn : Reader(c)!Init
  BY DEF Init, NoTables, Reader!Init
<1>2. Ind /\ [Next]_vars => [\A c \in Conn : [Reader(c)!Next]_(Reader(c)!view)]_vars
  <2> SUFFICES ASSUME Ind, [Next]_vars, NEW c \in Conn
               PROVE  Reader(c)!Next \/ UNCHANGED Reader(c)!view
    OBVIOUS
  <2>1. CASE kind'[c] = kind[c] /\ header'[c] = header[c] /\ owner'[c] = owner[c]
    BY <2>1 DEF Reader!view
  <2>2. CASE kind'[c] # "absent" /\ header'[c] = header[c] /\ owner'[c] = owner[c]
    BY <2>2 DEF Reader!Next, Reader!Appear
  <2>3. CASE kind[c] # "absent" /\ kind'[c] = "absent" /\ header'[c] = NoRun /\ owner'[c] = NoTables
    BY <2>3 DEF Reader!Next, Reader!Drop, NoTables
  <2>4. ASSUME kind'[c] # "absent", header'[c] # NoRun, NEW ts \in SUBSET Table,
               \A t \in ts : owner[c][t] = NoRun,
               \A t \in Table : owner'[c][t] # NoRun <=> t \in ts \/ owner[c][t] # NoRun
        PROVE  Reader(c)!Publish
    BY <2>4 DEF Reader!Publish, Reader!TablesAfterSave
  <2> QED
    BY <2>1, <2>2, <2>3, <2>4, ReaderSteps DEF Reader!Next
<1> QED
  BY <1>1, <1>2, Invariance, PTL DEF Spec, ReadersView
=============================================================================
