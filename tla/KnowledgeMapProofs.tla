-------------------------- MODULE KnowledgeMapProofs --------------------------
(***************************************************************************)
(* Theorems about a discovery run, from the first statement to the target  *)
(* to the map that a query reads, for all tables, columns, keys, patterns, *)
(* presets and answers of the LLM.                                         *)
(***************************************************************************)
EXTENDS KnowledgeMap, ListLemmas

-----------------------------------------------------------------------------
(* The engines of a run *)

\* The adapter is opened before anything else is, and the engine of the target
\* only after the adapter was closed.
PoolsInd ==
  /\ pools \in {{}, {"adapter"}, {"target"}}
  /\ step = "SchemaDiscovery" /\ call = "open" => pools = {}
  /\ step \in {"done", "failed"} => pools = {}

LEMMA IntroKeepsPools ==
  ASSUME PoolsInd, IntroNext
  PROVE  PoolsInd'
<1> USE DEF PoolsInd, discovered, database, cursor, metadata, Reading, Fail
<1>1. CASE Outage BY <1>1 DEF Outage
<1>2. CASE Recovery BY <1>2 DEF Recovery
<1>3. CASE \E t \in Table : DropTable(t) BY <1>3 DEF DropTable
<1>4. CASE OpenAdapter BY <1>4 DEF OpenAdapter
<1>5. CASE GetSchemas BY <1>5 DEF GetSchemas
<1>6. CASE GetTables BY <1>6 DEF GetTables
<1>7. CASE ReadTable
  <2>1. call' # "open"
    BY <1>7 DEF ReadTable, NextCall
  <2> QED BY <1>7, <2>1 DEF ReadTable
<1>8. CASE SkipTable BY <1>8 DEF SkipTable, AfterTable
<1>9. CASE KeepTable BY <1>9 DEF KeepTable, AfterTable
<1>10. CASE EndSchema BY <1>10 DEF EndSchema
<1>11. CASE OpenTarget BY <1>11 DEF OpenTarget
<1>12. CASE SampleTable BY <1>12 DEF SampleTable
<1>13. CASE EndSamples BY <1>13 DEF EndSamples
<1>14. CASE ProfileTable BY <1>14 DEF ProfileTable
<1>15. CASE EndProfiles BY <1>15 DEF EndProfiles
<1> QED
  BY <1>1, <1>2, <1>3, <1>4, <1>5, <1>6, <1>7, <1>8, <1>9, <1>10, <1>11, <1>12, <1>13,
     <1>14, <1>15 DEF IntroNext, Environment, IntroStep

\* The steps that a run makes on its own data and the query that reads its map
\* leave the engines as they are, or release them.
LEMMA RestKeepsPools ==
  ASSUME PoolsInd,
         \/ LayerStep \/ RelationshipGraphCreation \/ KnowledgeMapGeneration
         \/ ContextPersistence \/ LoadMap \/ RetrieveContext
  PROVE  PoolsInd'
<1> USE DEF PoolsInd, discovered, cursor
<1>1. CASE LayerStep
  BY <1>1 DEF LayerStep, TableSemanticAnalysis, AnalysisFails, Fail, BusinessDomainDiscovery,
     BusinessEntityDiscovery, BusinessConceptDiscovery, MetricDiscovery, DimensionDiscovery,
     DateSemanticDiscovery, TerminologyDiscovery
<1>2. CASE RelationshipGraphCreation BY <1>2 DEF RelationshipGraphCreation
<1>3. CASE KnowledgeMapGeneration BY <1>3 DEF KnowledgeMapGeneration
<1>4. CASE ContextPersistence BY <1>4 DEF ContextPersistence
<1>5. CASE LoadMap BY <1>5 DEF LoadMap, vars, introVars
<1>6. CASE RetrieveContext BY <1>6 DEF RetrieveContext, vars, introVars
<1> QED BY <1>1, <1>2, <1>3, <1>4, <1>5, <1>6

LEMMA PoolsNext ==
  ASSUME PoolsInd, [MapNext]_mapVars
  PROVE  PoolsInd'
<1>1. CASE IntroNext BY <1>1, IntroKeepsPools
<1>2. CASE UNCHANGED mapVars
  BY <1>2 DEF PoolsInd, mapVars, vars, introVars, discovered, cursor
<1> QED BY <1>1, <1>2, RestKeepsPools DEF MapNext, Next

\* A discovery run has at most one engine open, and has closed it when it ends,
\* whatever failed and whenever (discover_schema's finally, run()'s handlers).
THEOREM PoolsReleasedHolds == MapSpec => []PoolsReleased
<1>1. MapInit => PoolsInd
  BY DEF MapInit, Init, IntroInit, PoolsInd
<1>2. PoolsInd /\ [MapNext]_mapVars => PoolsInd'
  BY PoolsNext
<1>3. PoolsInd => PoolsReleased
  <2>1. Cardinality({}) = 0 /\ Cardinality({"adapter"}) = 1 /\ Cardinality({"target"}) = 1
    BY FS_EmptySet, FS_Singleton
  <2> QED BY <2>1 DEF PoolsInd, PoolsReleased
<1> QED BY <1>1, <1>2, <1>3, PTL DEF MapSpec

-----------------------------------------------------------------------------
(* Tables are whole *)

LateCalls == {"primary keys", "foreign keys", "indexes", "constraints"}

\* All columns that the target lists of a table were read.
AllRead == \A t \in tables : columnsOf[t] = Cols[t]

\* The calls for one table are made in order, and those that follow the one for
\* the columns raise for a table that is gone: what is read of a table that was
\* dropped is never kept.  On SQL Server nothing comes after the columns.
WholeInd ==
  /\ AllRead
  /\ engine \in {"postgresql", "sqlserver"}
  /\ step # "SchemaDiscovery" => call \in {"open", "none"}
  /\ engine = "sqlserver" => call \notin LateCalls
  /\ read = [columns |-> read.columns, keys |-> read.keys]
  /\ call = "primary keys" => Head(todo) \notin exists \/ read.columns = Cols[Head(todo)]
  /\ call \in LateCalls \ {"primary keys"} => read.columns = Cols[Head(todo)]

LEMMA ReadTableKeepsWhole ==
  ASSUME WholeInd, ReadTable
  PROVE  WholeInd'
<1> DEFINE t == Head(todo)
<1>1. /\ step = "SchemaDiscovery" /\ step' = step /\ ~Raises(call, t)
      /\ UNCHANGED <<engine, exists, todo, tables, columnsOf>>
  BY DEF ReadTable, database, metadata
<1>2. CASE call = "columns"
  <2>1. read' = [read EXCEPT !.columns = IF t \in exists THEN Cols[t] ELSE <<>>]
    BY <1>2 DEF ReadTable, ColumnsRead
  <2>2. read'.columns = (IF t \in exists THEN Cols[t] ELSE <<>>)
        /\ read' = [columns |-> read'.columns, keys |-> read'.keys]
    BY <2>1 DEF WholeInd
  <2>3. engine # "sqlserver" /\ call' = "primary keys"
    BY <1>1, <1>2, SysColsAssumption DEF ReadTable, ColumnsRead, Raises, LostTable, UnknownName, NextCall
  <2> QED BY <1>1, <2>2, <2>3 DEF WholeInd, AllRead, LateCalls
<1>3. CASE call \in {"primary keys", "indexes"}
  <2>1. read' = read /\ call' = NextCall(call)
    BY <1>3 DEF ReadTable
  <2>2. engine # "sqlserver" /\ read.columns = Cols[t]
    BY <1>1, <1>3 DEF WholeInd, Raises, LostTable, UnknownName, LateCalls
  <2>3. call' \in LateCalls
    BY <1>3, <2>1 DEF NextCall, LateCalls
  <2> QED BY <1>1, <2>1, <2>2, <2>3 DEF WholeInd, AllRead
<1>4. CASE call = "foreign keys"
  <2>1. PICK keys \in ReadKeys(t) : read' = [read EXCEPT !.keys = keys]
    BY <1>4 DEF ReadTable
  <2>2. read'.columns = read.columns /\ read' = [columns |-> read'.columns, keys |-> read'.keys]
    BY <2>1 DEF WholeInd
  <2>3. call' = "indexes" /\ engine # "sqlserver" /\ read.columns = Cols[t]
    BY <1>4 DEF ReadTable, NextCall, WholeInd, LateCalls
  <2> QED BY <1>1, <2>2, <2>3 DEF WholeInd, AllRead, LateCalls
<1> QED BY <1>2, <1>3, <1>4 DEF ReadTable

LEMMA KeepTableKeepsWhole ==
  ASSUME WholeInd, KeepTable
  PROVE  WholeInd'
<1>1. read.columns = Cols[Head(todo)]
  BY DEF KeepTable, WholeInd, LateCalls
<1>2. AllRead'
  BY <1>1 DEF KeepTable, WholeInd, AllRead, Put
<1>3. call' \in {"tables", "columns"} /\ read' = Nothing
  BY DEF KeepTable, AfterTable
<1> QED BY <1>2, <1>3 DEF KeepTable, WholeInd, LateCalls, Nothing, database

LEMMA IntroKeepsWhole ==
  ASSUME WholeInd, IntroNext
  PROVE  WholeInd'
<1> USE DEF WholeInd, AllRead, LateCalls, discovered, database, cursor, metadata, Reading, Fail
<1>1. CASE Outage BY <1>1 DEF Outage
<1>2. CASE Recovery BY <1>2 DEF Recovery
<1>3. CASE \E t \in Table : DropTable(t) BY <1>3 DEF DropTable
<1>4. CASE OpenAdapter BY <1>4 DEF OpenAdapter
<1>5. CASE GetSchemas BY <1>5 DEF GetSchemas
<1>6. CASE GetTables BY <1>6 DEF GetTables
<1>7. CASE ReadTable BY <1>7, ReadTableKeepsWhole
<1>8. CASE SkipTable BY <1>8 DEF SkipTable, AfterTable, Nothing
<1>9. CASE KeepTable BY <1>9, KeepTableKeepsWhole
<1>10. CASE EndSchema BY <1>10 DEF EndSchema
<1>11. CASE OpenTarget BY <1>11 DEF OpenTarget
<1>12. CASE SampleTable BY <1>12 DEF SampleTable
<1>13. CASE EndSamples BY <1>13 DEF EndSamples
<1>14. CASE ProfileTable BY <1>14 DEF ProfileTable
<1>15. CASE EndProfiles BY <1>15 DEF EndProfiles
<1> QED
  BY <1>1, <1>2, <1>3, <1>4, <1>5, <1>6, <1>7, <1>8, <1>9, <1>10, <1>11, <1>12, <1>13,
     <1>14, <1>15 DEF IntroNext, Environment, IntroStep

\* The steps of the layers and the map, and a stutter, do not read the target.
LEMMA OthersLeaveDiscovered ==
  ASSUME [MapNext]_mapVars, ~IntroNext
  PROVE  UNCHANGED discovered /\ (step = "SchemaDiscovery" <=> step' = "SchemaDiscovery")
<1>1. CASE UNCHANGED mapVars BY <1>1 DEF mapVars, vars, introVars
<1>2. CASE LayerStep
  BY <1>2 DEF LayerStep, TableSemanticAnalysis, AnalysisFails, Fail, BusinessDomainDiscovery,
     BusinessEntityDiscovery, BusinessConceptDiscovery, MetricDiscovery, DimensionDiscovery,
     DateSemanticDiscovery, TerminologyDiscovery
<1>3. CASE RelationshipGraphCreation \/ KnowledgeMapGeneration \/ ContextPersistence
  BY <1>3 DEF RelationshipGraphCreation, KnowledgeMapGeneration, ContextPersistence
<1>4. CASE LoadMap \/ RetrieveContext
  BY <1>4 DEF LoadMap, RetrieveContext, vars, introVars
<1> QED BY <1>1, <1>2, <1>3, <1>4 DEF MapNext, Next

\* Nor do they go back to reading it.
LEMMA OthersLeaveReading ==
  ASSUME [MapNext]_mapVars, ~IntroNext
  PROVE  step' # step => step' \notin {"SchemaDiscovery", "SampleDiscovery", "ColumnProfiling"}
<1>1. CASE UNCHANGED mapVars BY <1>1 DEF mapVars, vars, introVars
<1>2. CASE LayerStep
  BY <1>2 DEF LayerStep, TableSemanticAnalysis, AnalysisFails, Fail, BusinessDomainDiscovery,
     BusinessEntityDiscovery, BusinessConceptDiscovery, MetricDiscovery, DimensionDiscovery,
     DateSemanticDiscovery, TerminologyDiscovery
<1>3. CASE RelationshipGraphCreation \/ KnowledgeMapGeneration \/ ContextPersistence
  BY <1>3 DEF RelationshipGraphCreation, KnowledgeMapGeneration, ContextPersistence
<1>4. CASE LoadMap \/ RetrieveContext
  BY <1>4 DEF LoadMap, RetrieveContext, vars, introVars
<1> QED BY <1>1, <1>2, <1>3, <1>4 DEF MapNext, Next

LEMMA WholeInit == MapInit => WholeInd
BY EnginesAssumption
DEF MapInit, Init, IntroInit, WholeInd, AllRead, LateCalls, Nothing

LEMMA WholeNext ==
  ASSUME WholeInd, [MapNext]_mapVars
  PROVE  WholeInd'
<1>1. CASE IntroNext BY <1>1, IntroKeepsWhole
<1>2. CASE ~IntroNext
  BY <1>2, OthersLeaveDiscovered
  DEF WholeInd, AllRead, LateCalls, discovered, database, cursor, metadata
<1> QED BY <1>1, <1>2

-----------------------------------------------------------------------------
(* The layers settle *)

ReadingSteps == {"SchemaDiscovery", "SampleDiscovery", "ColumnProfiling", "TableSemanticAnalysis"}

\* A layer is empty until its step; the concepts are those that the second pass
\* will find.
LayersInd ==
  /\ step \in ReadingSteps => columns = {}
  /\ step \in ReadingSteps \cup {"BusinessDomainDiscovery"} => domains = {}
  /\ step \in ReadingSteps \cup {"BusinessDomainDiscovery", "BusinessEntityDiscovery"} =>
       entities = {}
  /\ step \in ReadingSteps \cup {"BusinessDomainDiscovery", "BusinessEntityDiscovery",
                                "BusinessConceptDiscovery"} => concepts = {}
  /\ step = "MetricDiscovery" => concepts = DetectConcepts(entities, metrics)

\* What a step may do to the layers.
LayersStay ==
  /\ domains # {} => domains' = domains
  /\ entities # {} => entities' = entities
  /\ concepts # {} => concepts' = concepts
  /\ columns # {} => tables' = tables /\ foreign' = foreign /\ rels' = rels

\* detect_concepts does not look at the metrics, so the second pass finds the
\* codes of the first.
LEMMA SecondPassEmpty ==
  ASSUME concepts = DetectConcepts(entities, metrics), NEW found
  PROVE  SecondPass(found) = {}
<1>1. DetectConcepts(entities, found) = concepts
  BY DEF DetectConcepts
<1> QED BY <1>1 DEF SecondPass, CodesIn

LEMMA IntroStepSteps ==
  ASSUME IntroNext
  PROVE  step \in ReadingSteps \ {"TableSemanticAnalysis"} /\ step' \in ReadingSteps \cup {"failed"}
<1> USE DEF ReadingSteps, Reading, Fail, discovered, database, cursor, metadata
<1>1. CASE Environment
  BY <1>1 DEF Environment, Outage, Recovery, DropTable
<1>2. CASE OpenAdapter \/ GetSchemas \/ GetTables
  BY <1>2 DEF OpenAdapter, GetSchemas, GetTables
<1>3. CASE ReadTable \/ SkipTable \/ KeepTable \/ EndSchema
  BY <1>3 DEF ReadTable, SkipTable, KeepTable, EndSchema
<1>4. CASE OpenTarget \/ SampleTable \/ EndSamples \/ ProfileTable \/ EndProfiles
  BY <1>4 DEF OpenTarget, SampleTable, EndSamples, ProfileTable, EndProfiles
<1> QED BY <1>1, <1>2, <1>3, <1>4 DEF IntroNext, IntroStep

LEMMA LayersNext ==
  ASSUME LayersInd, [MapNext]_mapVars
  PROVE  LayersInd' /\ LayersStay
<1> USE DEF LayersStay, LayersInd, ReadingSteps, discovered, metadata
<1>1. CASE IntroNext /\ UNCHANGED layerVars
  BY <1>1, IntroStepSteps DEF layerVars
<1>2. CASE UNCHANGED <<step, tables, foreign, rels, layerVars>>
  BY <1>2 DEF layerVars, DetectConcepts
<1>3. CASE TableSemanticAnalysis BY <1>3 DEF TableSemanticAnalysis
<1>4. CASE AnalysisFails BY <1>4 DEF AnalysisFails, Fail, layerVars
<1>5. CASE BusinessDomainDiscovery BY <1>5 DEF BusinessDomainDiscovery
<1>6. CASE BusinessEntityDiscovery BY <1>6 DEF BusinessEntityDiscovery
<1>7. CASE BusinessConceptDiscovery
  <2>1. concepts' = DetectConcepts(entities', metrics')
    BY <1>7 DEF BusinessConceptDiscovery
  <2> QED BY <1>7, <2>1 DEF BusinessConceptDiscovery
<1>8. CASE MetricDiscovery
  <2>1. SecondPass(metrics') = {} BY <1>8, SecondPassEmpty DEF MetricDiscovery
  <2>2. concepts' = concepts BY <1>8, <2>1 DEF MetricDiscovery
  <2> QED BY <1>8, <2>2 DEF MetricDiscovery
<1>9. CASE DimensionDiscovery \/ DateSemanticDiscovery \/ TerminologyDiscovery
  BY <1>9 DEF DimensionDiscovery, DateSemanticDiscovery, TerminologyDiscovery
<1>10. CASE RelationshipGraphCreation \/ KnowledgeMapGeneration \/ ContextPersistence
  BY <1>10 DEF RelationshipGraphCreation, KnowledgeMapGeneration, ContextPersistence, layerVars
<1>11. CASE LoadMap \/ RetrieveContext \/ UNCHANGED mapVars
  BY <1>2, <1>11 DEF LoadMap, RetrieveContext, mapVars, vars, introVars
<1> QED
  BY <1>1, <1>3, <1>4, <1>5, <1>6, <1>7, <1>8, <1>9, <1>10, <1>11 DEF MapNext, Next, LayerStep

\* A layer that a later step has read does not change any more, and the second
\* pass over the concepts (database_discovery_pipeline.py, MetricDiscovery)
\* never adds one.
THEOREM LayersSettleHolds == MapSpec => LayersSettle
<1>1. MapInit => LayersInd
  BY DEF MapInit, Init, IntroInit, LayersInd, ReadingSteps
<1>2. LayersInd /\ [MapNext]_mapVars => LayersInd' /\ [LayersStay]_vars
  BY LayersNext
<1>3. MapSpec => [][LayersStay]_vars
  BY <1>1, <1>2, PTL DEF MapSpec
<1> QED BY <1>3, PTL DEF LayersSettle, LayersStay

-----------------------------------------------------------------------------
(* The map that a query reads *)

\* The map is built from the state of the run, which stays as it is from then
\* on: the map is its rows, and what is loaded is what the rows give.
MapInd ==
  /\ step = "ContextPersistence" => knowledgeMap = BuildMap
  /\ stored # NotYet => step = "done" /\ stored = Rows(BuildMap)
  /\ loaded # NotYet => stored # NotYet /\ loaded = Load(stored)

MapState == <<tables, columnsOf, foreign, rels, graph, layerVars>>

LEMMA SameMap ==
  ASSUME UNCHANGED MapState
  PROVE  BuildMap' = BuildMap
BY DEF MapState, layerVars, BuildMap, ColumnsFound

LEMMA MapNextKeeps ==
  ASSUME MapInd, [MapNext]_mapVars
  PROVE  MapInd'
<1>1. CASE Next /\ UNCHANGED endVars
  <2>1. step \notin {"ContextPersistence", "done"} /\ step' # "ContextPersistence"
    <3>1. CASE IntroNext BY <3>1, IntroStepSteps DEF ReadingSteps
    <3>2. CASE LayerStep
      BY <3>2 DEF LayerStep, TableSemanticAnalysis, AnalysisFails, Fail, BusinessDomainDiscovery,
         BusinessEntityDiscovery, BusinessConceptDiscovery, MetricDiscovery, DimensionDiscovery,
         DateSemanticDiscovery, TerminologyDiscovery
    <3> QED BY <1>1, <3>1, <3>2 DEF Next
  <2> QED BY <1>1, <2>1 DEF MapInd, endVars
<1>2. CASE RelationshipGraphCreation
  BY <1>2 DEF RelationshipGraphCreation, MapInd
<1>3. CASE KnowledgeMapGeneration
  <2>1. BuildMap' = BuildMap
    BY <1>3, SameMap DEF KnowledgeMapGeneration, MapState, discovered, metadata
  <2> QED BY <1>3, <2>1 DEF KnowledgeMapGeneration, MapInd
<1>4. CASE ContextPersistence
  <2>1. BuildMap' = BuildMap
    BY <1>4, SameMap DEF ContextPersistence, MapState, discovered, metadata
  <2>2. Rows(knowledgeMap) = Rows(BuildMap)'
    BY <1>4, <2>1 DEF ContextPersistence, MapInd, Rows
  <2> QED BY <1>4, <2>2 DEF ContextPersistence, MapInd
<1>5. CASE LoadMap \/ RetrieveContext \/ UNCHANGED mapVars
  <2>1. UNCHANGED <<vars, graph, knowledgeMap, stored>>
        /\ (loaded' = loaded \/ (stored # NotYet /\ loaded' = Load(stored)))
    <3>1. CASE LoadMap BY <3>1 DEF LoadMap
    <3>2. CASE RetrieveContext BY <3>2 DEF RetrieveContext
    <3>3. CASE UNCHANGED mapVars BY <3>3 DEF mapVars, endVars
    <3> QED BY <1>5, <3>1, <3>2, <3>3
  <2>2. BuildMap' = BuildMap
    BY <2>1, SameMap DEF MapState, vars, introVars, discovered, metadata
  <2>3. Rows(BuildMap)' = Rows(BuildMap) /\ Load(stored)' = Load(stored)
    BY <2>1, <2>2 DEF Rows, Load, TargetRead
  <2> QED BY <2>1, <2>2, <2>3 DEF MapInd, vars, introVars
<1> QED BY <1>1, <1>2, <1>3, <1>4, <1>5 DEF MapNext

\* Two layers with the same codes and tables.
LEMMA SamePairs ==
  ASSUME NEW S, NEW T,
         \A x \in S : \E y \in T : y.code = x.code /\ y.tables = x.tables,
         \A y \in T : \E x \in S : y.code = x.code /\ y.tables = x.tables
  PROVE  {<<x.code, x.tables>> : x \in S} = {<<x.code, x.tables>> : x \in T}
OBVIOUS

\* The records of the rows, seen from the run: what the conversion of the rows
\* keeps of columns, relationships and layers.
LEMMA LoadedMap ==
  ASSUME MapInd, WholeInd, loaded # NotYet
  PROVE  MapSurvives
<1> DEFINE rows == Rows(BuildMap)
           keysAt(t, c) == IF c \in DOMAIN foreign[t] THEN {foreign[t][c]} ELSE {}
           columnRow(x) == [table |-> x[1], column |-> x[2], dated |-> x \in dates, keys |-> keysAt(x[1], x[2])]
<1>1. loaded = [rows EXCEPT !.columns =
                  {[x EXCEPT !.keys = {TargetRead(k) : k \in @}] : x \in @}]
  BY DEF MapInd, Load
<1>2. rows.columns = {columnRow(x) : x \in ColumnsFound}
  BY DEF Rows, BuildMap
<1>3. loaded.columns = {[x EXCEPT !.keys = {TargetRead(k) : k \in @}] : x \in rows.columns}
  BY <1>1 DEF Rows
<1>4. /\ loaded.tables = rows.tables /\ loaded.relationships = rows.relationships
      /\ loaded.entities = rows.entities /\ loaded.concepts = rows.concepts
      /\ loaded.metrics = rows.metrics /\ loaded.terms = rows.terms
      /\ loaded.domains = rows.domains /\ loaded.dimensions = rows.dimensions
  BY <1>1 DEF Rows
<1>5. loaded.tables = tables /\ loaded.terms = terms /\ loaded.domains = CodesIn(domains)
  BY <1>4 DEF Rows, BuildMap, CodesIn
<1>6. ASSUME NEW y \in loaded.columns
      PROVE  \E x \in ColumnsFound :
               /\ y.table = x[1] /\ y.column = x[2]
               /\ y.keys = {TargetRead(k) : k \in keysAt(x[1], x[2])}
  <2>1. PICK r \in rows.columns : y = [r EXCEPT !.keys = {TargetRead(k) : k \in @}]
    BY <1>3
  <2>2. PICK x \in ColumnsFound : r = columnRow(x)
    BY <1>2
  <2>3. r.table = x[1] /\ r.column = x[2] /\ r.keys = keysAt(x[1], x[2])
    BY <2>2
  <2>4. y.table = r.table /\ y.column = r.column /\ y.keys = {TargetRead(k) : k \in r.keys}
    BY <2>1, <2>2
  <2> QED BY <2>3, <2>4
<1>7. ASSUME NEW x \in ColumnsFound
      PROVE  \E y \in loaded.columns : y.table = x[1] /\ y.column = x[2]
  <2> DEFINE r == columnRow(x)
             y == [r EXCEPT !.keys = {TargetRead(k) : k \in @}]
  <2>1. y \in loaded.columns
    <3>1. r \in rows.columns BY <1>2
    <3> HIDE DEF r
    <3> QED BY <1>3, <3>1
  <2>2. y.table = x[1] /\ y.column = x[2] OBVIOUS
  <2> QED BY <2>1, <2>2
<1>8. ASSUME NEW t \in tables
      PROVE  {x.column : x \in {y \in loaded.columns : y.table = t}} = ToSet(Cols[t])
  <2>1. ASSUME NEW c PROVE <<t, c>> \in ColumnsFound <=> c \in ToSet(Cols[t])
    <3>1. columnsOf[t] = Cols[t] BY DEF WholeInd, AllRead
    <3>2. CASE <<t, c>> \in ColumnsFound
      <4>1. PICK u \in tables : <<t, c>> \in {<<u, d>> : d \in ToSet(columnsOf[u])}
        BY <3>2 DEF ColumnsFound
      <4>2. PICK d \in ToSet(columnsOf[u]) : <<t, c>> = <<u, d>>
        BY <4>1
      <4> QED BY <3>1, <3>2, <4>2
    <3>3. CASE c \in ToSet(Cols[t])
      <4>1. <<t, c>> \in {<<t, d>> : d \in ToSet(columnsOf[t])} BY <3>1, <3>3
      <4> QED BY <3>3, <4>1 DEF ColumnsFound
    <3> QED BY <3>2, <3>3
  <2>2. \A x \in ColumnsFound : x = <<x[1], x[2]>>
    BY DEF ColumnsFound
  <2>3. ASSUME NEW y \in loaded.columns, y.table = t PROVE y.column \in ToSet(Cols[t])
    BY <1>6, <2>1, <2>2, <2>3
  <2>4. ASSUME NEW c \in ToSet(Cols[t])
        PROVE  \E y \in loaded.columns : y.table = t /\ y.column = c
    <3>1. <<t, c>> \in ColumnsFound BY <2>1
    <3> QED BY <1>7, <3>1
  <2> QED BY <2>3, <2>4
<1>9. ASSUME NEW r \in rels
      PROVE  \E x \in loaded.relationships : <<x.source, x.from, x.target, x.to>> =
                                           <<r.source, r.pairs[1][1], r.target, r.pairs[1][2]>>
  <2> DEFINE x == [source |-> r.source, from |-> r.pairs[1][1],
                   target |-> r.target, to |-> r.pairs[1][2], copy |-> 1]
  <2>1. <<r, 1>> \in BuildMap.relationships BY DEF BuildMap
  <2>2. x \in loaded.relationships BY <1>4, <2>1 DEF Rows
  <2>3. <<x.source, x.from, x.target, x.to>> = <<r.source, r.pairs[1][1], r.target, r.pairs[1][2]>>
    OBVIOUS
  <2> QED BY <2>2, <2>3
<1>10. ASSUME NEW y \in loaded.columns
       PROVE  {k.column : k \in y.keys} = IF y.column \in DOMAIN foreign[y.table]
                                          THEN {foreign[y.table][y.column].column} ELSE {}
  <2>1. PICK x \in ColumnsFound :
          /\ y.table = x[1] /\ y.column = x[2]
          /\ y.keys = {TargetRead(q) : q \in keysAt(x[1], x[2])}
    BY <1>6
  <2>2. CASE x[2] \in DOMAIN foreign[x[1]]
    <3>1. y.keys = {TargetRead(foreign[x[1]][x[2]])}
      BY <2>1, <2>2
    <3>2. TargetRead(foreign[x[1]][x[2]]).column = foreign[x[1]][x[2]].column
      BY DEF TargetRead
    <3> QED BY <2>1, <2>2, <3>1, <3>2
  <2>3. CASE x[2] \notin DOMAIN foreign[x[1]]
    <3>1. y.keys = {}
      BY <2>1, <2>3
    <3> QED BY <2>1, <2>3, <3>1
  <2> QED BY <2>2, <2>3
<1>12. {<<d.code, d.table, d.column>> : d \in dimensions} =
       {<<d.code, d.table, d.column>> : d \in loaded.dimensions}
  <2>1. loaded.dimensions =
          {[code |-> d.code, table |-> d.table, column |-> d.column, joins |-> d.joins] : d \in dimensions}
    BY <1>4 DEF Rows, BuildMap
  <2>2. ASSUME NEW d \in dimensions
        PROVE  \E x \in loaded.dimensions : x.code = d.code /\ x.table = d.table /\ x.column = d.column
    <3>1. [code |-> d.code, table |-> d.table, column |-> d.column, joins |-> d.joins] \in loaded.dimensions
      BY <2>1
    <3> QED BY <3>1
  <2>3. \A x \in loaded.dimensions :
          \E d \in dimensions : x.code = d.code /\ x.table = d.table /\ x.column = d.column
    BY <2>1
  <2> QED BY <2>2, <2>3
<1>11. /\ {<<e.code, e.tables>> : e \in entities} = {<<e.code, e.tables>> : e \in loaded.entities}
       /\ {<<c.code, c.tables>> : c \in concepts} = {<<c.code, c.tables>> : c \in loaded.concepts}
       /\ {<<m.code, m.tables>> : m \in metrics} = {<<m.code, m.tables>> : m \in loaded.metrics}
  <2>1. /\ loaded.entities = {[code |-> e.code, domain |-> e.domain, tables |-> e.tables] : e \in entities}
        /\ loaded.concepts = {[code |-> c.code, entity |-> c.entity, tables |-> c.tables] : c \in concepts}
        /\ loaded.metrics = {[code |-> x.code, tables |-> x.tables, source |-> x.source, date |-> x.date,
                              filter |-> x.filter] : x \in metrics}
    BY <1>4 DEF Rows, BuildMap
  <2>2. \A e \in entities : \E x \in loaded.entities : x.code = e.code /\ x.tables = e.tables
    <3> TAKE e \in entities
    <3>1. [code |-> e.code, domain |-> e.domain, tables |-> e.tables] \in loaded.entities BY <2>1
    <3> QED BY <3>1
  <2>3. \A c \in concepts : \E x \in loaded.concepts : x.code = c.code /\ x.tables = c.tables
    <3> TAKE c \in concepts
    <3>1. [code |-> c.code, entity |-> c.entity, tables |-> c.tables] \in loaded.concepts BY <2>1
    <3> QED BY <3>1
  <2>4. \A m \in metrics : \E x \in loaded.metrics : x.code = m.code /\ x.tables = m.tables
    <3> TAKE m \in metrics
    <3>1. [code |-> m.code, tables |-> m.tables, source |-> m.source, date |-> m.date,
                 filter |-> m.filter] \in loaded.metrics BY <2>1
    <3> QED BY <3>1
  <2>5. \A x \in loaded.entities : \E e \in entities : x.code = e.code /\ x.tables = e.tables
    BY <2>1
  <2>6. \A x \in loaded.concepts : \E c \in concepts : x.code = c.code /\ x.tables = c.tables
    BY <2>1
  <2>7. \A x \in loaded.metrics : \E m \in metrics : x.code = m.code /\ x.tables = m.tables
    BY <2>1
  <2> QED BY <2>2, <2>3, <2>4, <2>5, <2>6, <2>7, SamePairs
<1>13. \A t \in tables : {x.column : x \in {y \in loaded.columns : y.table = t}} = ToSet(Cols[t])
  BY <1>8
<1>14. \A r \in rels : Len(r.pairs) = 1 =>
         \E x \in loaded.relationships : <<x.source, x.from, x.target, x.to>> =
                                         <<r.source, r.pairs[1][1], r.target, r.pairs[1][2]>>
  BY <1>9
<1>15. \A x \in loaded.columns :
         {k.column : k \in x.keys} = IF x.column \in DOMAIN foreign[x.table]
                                     THEN {foreign[x.table][x.column].column} ELSE {}
  BY <1>10
<1>16. \A p \in {<<entities, loaded.entities>>, <<concepts, loaded.concepts>>, <<metrics, loaded.metrics>>} :
         {<<x.code, x.tables>> : x \in p[1]} = {<<x.code, x.tables>> : x \in p[2]}
  <2> SUFFICES ASSUME NEW A, NEW B,
                      <<A, B>> \in {<<entities, loaded.entities>>, <<concepts, loaded.concepts>>,
                                   <<metrics, loaded.metrics>>}
               PROVE  {<<x.code, x.tables>> : x \in A} = {<<x.code, x.tables>> : x \in B}
    OBVIOUS
  <2>1. \/ A = entities /\ B = loaded.entities
        \/ A = concepts /\ B = loaded.concepts
        \/ A = metrics /\ B = loaded.metrics
    OBVIOUS
  <2> QED BY <1>11, <2>1
<1> QED BY <1>5, <1>12, <1>13, <1>14, <1>15, <1>16 DEF MapSurvives

\* A query reads what discovery found (save_context_full, get_knowledge_map):
\* all tables with the columns that were read, both ends of every relationship,
\* the column each foreign key refers to, and the codes of every layer with their
\* tables or columns; the table of a foreign key is lost, and MapSurvives does
\* not claim it.
THEOREM MapSurvivesHolds == MapSpec => []MapSurvives
<1>1. MapInit => MapInd
  BY DEF MapInit, Init, IntroInit, MapInd
<1>2. MapInd /\ [MapNext]_mapVars => MapInd'
  BY MapNextKeeps
<1>3. MapInit => WholeInd
  BY WholeInit
<1>4. WholeInd /\ [MapNext]_mapVars => WholeInd'
  BY WholeNext
<1>5. MapInd /\ WholeInd => MapSurvives
  BY LoadedMap DEF MapSurvives
<1> QED BY <1>1, <1>2, <1>3, <1>4, <1>5, PTL DEF MapSpec

-----------------------------------------------------------------------------
(* Tables in their order *)

\* Tables have places of their own.
LEMMA EarlierOrder ==
  ASSUME NEW S \in SUBSET Table, NEW R, \A x, y \in S : <<x, y>> \in R <=> Earlier(x, y)
  PROVE  IsFiniteSet(S) /\ StrictOrder(S, R)
<1> DEFINE a == [x \in S |-> Pos[x]]
<1>1. IsFiniteSet(S)
  BY CatalogueAssumption, FS_Subset
<1>2. a \in [S -> Nat] /\ \A x, y \in S : a[x] = a[y] => x = y
  BY CatalogueAssumption
<1>3. \A x, y \in S : <<x, y>> \in R <=> a[x] < a[y]
  BY DEF Earlier
<1> HIDE DEF a
<1> QED BY <1>1, <1>2, <1>3, ByNumber

\* The tables of a set in the order of their places: every table once.
LEMMA PlacesListed ==
  ASSUME NEW S \in SUBSET Table, NEW p \in [Table -> Nat], \A t, u \in Table : p[t] = p[u] => t = u,
         NEW s,
         s = [i \in 1..Cardinality(S) |-> CHOOSE x \in S : Cardinality({y \in S : p[y] < p[x]}) = i - 1]
  PROVE  s \in Seq(S) /\ ToSet(s) = S
<1> DEFINE n == Cardinality(S)
           R == {q \in S \X S : p[q[1]] < p[q[2]]}
           a == [x \in S |-> p[x]]
<1>1. \A x, y \in S : <<x, y>> \in R <=> p[x] < p[y]
  OBVIOUS
<1> HIDE DEF R
<1>2. IsFiniteSet(S) /\ StrictOrder(S, R)
  <2>1. IsFiniteSet(S)
    BY CatalogueAssumption, FS_Subset
  <2>2. a \in [S -> Nat] /\ (\A x, y \in S : a[x] = a[y] => x = y)
        /\ \A x, y \in S : <<x, y>> \in R <=> a[x] < a[y]
    BY <1>1
  <2> HIDE DEF a
  <2> QED BY <2>1, <2>2, ByNumber
<1>3. ASSUME NEW x \in S PROVE {y \in S : p[y] < p[x]} = Before(S, R, x)
  BY <1>1 DEF Before
<1>4. ASSUME NEW i \in 1..n PROVE s[i] \in S /\ Cardinality(Before(S, R, s[i])) = i - 1
  <2>0. PICK w \in S : Cardinality(Before(S, R, w)) = i - 1
    BY <1>2, PlaceExists
  <2>1. \E y \in S : Cardinality({z \in S : p[z] < p[y]}) = i - 1
    BY <1>3, <2>0
  <2>2. s[i] = CHOOSE x \in S : Cardinality({y \in S : p[y] < p[x]}) = i - 1
    OBVIOUS
  <2>3. s[i] \in S /\ Cardinality({y \in S : p[y] < p[s[i]]}) = i - 1
    BY <2>1, <2>2
  <2> QED BY <1>3, <2>3
<1>5. s \in [1..Cardinality(S) -> S]
  BY <1>4
<1>6. \A i \in 1..Cardinality(S) : Cardinality(Before(S, R, s[i])) = i - 1
  BY <1>4
<1>7. ASSUME NEW z, z \in [1..Cardinality(S) -> S],
             \A i \in 1..Cardinality(S) : Cardinality(Before(S, R, z[i])) = i - 1
      PROVE  z \in Seq(S) /\ ToSet(z) = S
  BY <1>2, <1>7, ListRange, Zenon
<1> QED BY <1>5, <1>6, <1>7, Zenon

LEMMA TablesListed ==
  ASSUME NEW S \in SUBSET Table
  PROVE  Listed(S, Earlier) \in Seq(S) /\ ToSet(Listed(S, Earlier)) = S
BY PlacesListed, CatalogueAssumption DEF Listed, Earlier

LEMMA NamesListed ==
  ASSUME NEW S \in SUBSET Table
  PROVE  Listed(S, ByTableName) \in Seq(S) /\ ToSet(Listed(S, ByTableName)) = S
BY PlacesListed, CatalogueAssumption DEF Listed, ByTableName

\* get_tables lists the tables of a schema that are there.
LEMMA TablesInSchema ==
  ASSUME exists \subseteq Table, NEW s
  PROVE  TablesIn(s) \in Seq(Table) /\ ToSet(TablesIn(s)) = {t \in exists : SchemaOf[t] = s}
<1> DEFINE here == {t \in exists : SchemaOf[t] = s}
<1>1. here \ MatViews \in SUBSET Table /\ here \cap MatViews \in SUBSET Table
  OBVIOUS
<1>2. PICK f, g : f = Listed(here \ MatViews, ByTableName) /\ g = Listed(here \cap MatViews, ByTableName)
  OBVIOUS
<1>3. TablesIn(s) = f \o g
  BY <1>2 DEF TablesIn
<1> HIDE DEF here
<1>4. /\ f \in Seq(here \ MatViews) /\ ToSet(f) = here \ MatViews
      /\ g \in Seq(here \cap MatViews) /\ ToSet(g) = here \cap MatViews
  BY <1>1, <1>2, NamesListed
<1>5. f \in Seq(Table) /\ g \in Seq(Table)
  BY <1>1, <1>4
<1>6. f \o g \in Seq(Table) /\ ToSet(f \o g) = ToSet(f) \cup ToSet(g)
  BY <1>5, ToSetConcat
<1>7. ToSet(f \o g) = here
  BY <1>4, <1>6
<1> QED BY <1>3, <1>6, <1>7 DEF here

\* The first table of a set that is not empty is in it.
LEMMA FirstTable ==
  ASSUME NEW S \in SUBSET Table, S # {}
  PROVE  FirstOf(S, Earlier) \in S
<1> DEFINE R == {p \in S \X S : Earlier(p[1], p[2])}
<1>1. \A x, y \in S : <<x, y>> \in R <=> Earlier(x, y)
  OBVIOUS
<1> HIDE DEF R
<1>0. IsFiniteSet(S) /\ StrictOrder(S, R)
  BY <1>1, EarlierOrder
<1>2. PICK x \in S : \A y \in S \ {x} : <<x, y>> \in R
  BY <1>0, FirstExists
<1>3. \E z \in S : \A y \in S \ {z} : Earlier(z, y)
  BY <1>1, <1>2
<1> QED BY <1>3 DEF FirstOf

\* Tables have columns; materialized views have none.
LEMMA ColsType == Cols \in [Table -> Seq(Column)]
BY CatalogueAssumption DEF Cols

\* The first column of t that is in P is a column of t, and in P.
LEMMA FirstColIn ==
  ASSUME NEW t \in Table, NEW P
  PROVE  FirstCol(t, P) = NoColumn \/ FirstCol(t, P) \in ToSet(Cols[t]) \cap P
<1> DEFINE hits == {i \in DOMAIN Cols[t] : Cols[t][i] \in P}
<1>1. Cols[t] \in Seq(Column)
  BY ColsType
<1>2. hits \in SUBSET Nat
  BY <1>1
<1>3. CASE hits = {} BY <1>3 DEF FirstCol
<1>4. CASE hits # {}
  <2>1. Min(hits) \in hits
    <3> HIDE DEF hits
    <3> QED BY <1>2, <1>4, MinPlace
  <2>2. FirstCol(t, P) = Cols[t][Min(hits)]
    BY <1>4 DEF FirstCol
  <2>3. \A i \in hits : Cols[t][i] \in ToSet(Cols[t]) \cap P
    BY DEF ToSet
  <2> HIDE DEF hits
  <2> QED BY <2>1, <2>2, <2>3
<1> QED BY <1>3, <1>4

-----------------------------------------------------------------------------
(* Relationships are grounded *)

\* What a run goes through are schemas and tables of the catalogue.
ReadInd ==
  /\ exists \subseteq Table /\ tables \subseteq Table
  /\ schemas \in Seq(ToSet(Schemas)) /\ todo \in Seq(Table)

LEMMA IntroKeepsRead ==
  ASSUME ReadInd, IntroNext
  PROVE  ReadInd'
<1> USE DEF ReadInd, discovered, database, cursor, metadata
<1>1. CASE Environment
  BY <1>1 DEF Environment, Outage, Recovery, DropTable
<1>2. CASE OpenAdapter BY <1>2 DEF OpenAdapter
<1>3. CASE GetSchemas BY <1>3, CatalogueAssumption DEF GetSchemas
<1>4. CASE GetTables
  <2>3. todo' \in Seq(Table)
    BY <1>4, TablesInSchema DEF GetTables
  <2>4. schemas' = Tail(schemas) /\ schemas # <<>>
    BY <1>4 DEF GetTables
  <2> QED BY <1>4, <2>3, <2>4 DEF GetTables
<1>5. CASE ReadTable BY <1>5 DEF ReadTable
<1>6. CASE SkipTable BY <1>6 DEF SkipTable, AfterTable, SkipRest
<1>7. CASE KeepTable BY <1>7 DEF KeepTable, AfterTable
<1>8. CASE EndSchema BY <1>8 DEF EndSchema
<1>9. CASE OpenTarget \/ EndSamples
  <2>1. InOrder(tables) \in Seq(tables)
    BY TablesListed DEF InOrder
  <2>2. InOrder(tables) \in Seq(Table)
    BY <2>1
  <2> QED BY <1>9, <2>2 DEF OpenTarget, EndSamples
<1>10. CASE SampleTable BY <1>10 DEF SampleTable
<1>11. CASE ProfileTable BY <1>11 DEF ProfileTable
<1>12. CASE EndProfiles BY <1>12 DEF EndProfiles
<1> QED
  BY <1>1, <1>2, <1>3, <1>4, <1>5, <1>6, <1>7, <1>8, <1>9, <1>10, <1>11, <1>12
  DEF IntroNext, IntroStep

LEMMA ReadInit == MapInit => ReadInd
BY DEF MapInit, Init, IntroInit, ReadInd

LEMMA ReadNext ==
  ASSUME ReadInd, [MapNext]_mapVars
  PROVE  ReadInd'
<1>1. CASE IntroNext BY <1>1, IntroKeepsRead
<1>2. CASE ~IntroNext
  BY <1>2, OthersLeaveDiscovered DEF ReadInd, discovered, database, cursor, metadata
<1> QED BY <1>1, <1>2

\* Whatever happens to the target between the calls for one table, the table is
\* kept with all its columns, or not at all (SchemaInspector.extract_schema); a
\* materialized view is kept without a column.
THEOREM TablesWholeHolds == MapSpec => []TablesWhole
<1>1. MapInit => WholeInd /\ ReadInd
  BY WholeInit, ReadInit
<1>2. WholeInd /\ ReadInd /\ [MapNext]_mapVars => WholeInd' /\ ReadInd'
  BY WholeNext, ReadNext
<1>3. WholeInd /\ ReadInd => TablesWhole
  BY DEF WholeInd, AllRead, ReadInd, TablesWhole, Cols
<1> QED BY <1>1, <1>2, <1>3, PTL DEF MapSpec

\* A constraint is one of the catalogue, and the only one of its name on its
\* table.
LEMMA KeyTypes ==
  ASSUME NEW t \in Table, NEW k \in ToSet(Constraints[t])
  PROVE  /\ k.name \in KeyName /\ k.cols \in Seq(Column) /\ k.to \in Seq(Column) /\ k.target \in Table
         /\ k.foreign => Len(k.cols) = Len(k.to)
         /\ ToSet(k.cols) \subseteq ToSet(Cols[t]) /\ ToSet(k.to) \subseteq ToSet(Cols[k.target])
         /\ \A l \in ToSet(Constraints[t]) : k.name = l.name => k = l
<1> DEFINE R == [name : KeyName, foreign : BOOLEAN, cols : Seq(Column), target : Table, to : Seq(Column)]
<1>1. Constraints[t] \in Seq(R)
  BY KeysAssumption
<1>2. k \in R
  <2> HIDE DEF R
  <2> QED BY <1>1, ToSetFinite
<1>3. k.name \in KeyName /\ k.cols \in Seq(Column) /\ k.to \in Seq(Column) /\ k.target \in Table
  BY <1>2
<1> QED BY <1>3, KeysAssumption

\* A constraint that the target still has.
LEMMA LiveKey ==
  ASSUME ReadInd, NEW n, NEW x \in Live(n)
  PROVE  /\ x[1] \in Table /\ x[2] \in ToSet(Constraints[x[1]])
         /\ x[2].name = n /\ x[2].target \in exists
<1>1. PICK t \in exists : x \in {t} \X ToSet(Constraints[t])
  BY DEF Live
<1>2. x[1] = t /\ x[2] \in ToSet(Constraints[t])
  BY <1>1
<1> QED BY <1>2 DEF Live, ReadInd

LEMMA LiveFinite ==
  ASSUME ReadInd, NEW n
  PROVE  IsFiniteSet(Live(n))
<1> DEFINE f == [t \in exists |-> {t} \X ToSet(Constraints[t])]
<1>1. IsFiniteSet(exists)
  BY CatalogueAssumption, FS_Subset DEF ReadInd
<1>2. ASSUME NEW t \in exists PROVE IsFiniteSet(f[t])
  <2>1. t \in Table BY DEF ReadInd
  <2>2. IsFiniteSet(ToSet(Constraints[t]))
    BY <2>1, KeysAssumption, ToSetFinite
  <2>3. IsFiniteSet({t} \X ToSet(Constraints[t]))
    BY <2>2, FS_Singleton, FS_Product
  <2> QED BY <2>3
<1>3. UNION {f[t] : t \in exists} = UNION {{t} \X ToSet(Constraints[t]) : t \in exists}
  OBVIOUS
<1> HIDE DEF f
<1>4. IsFiniteSet(UNION {f[t] : t \in exists})
  BY <1>1, <1>2, FiniteUnion
<1> QED BY <1>3, <1>4, FS_Subset DEF Live

\* The rows that are joined for a name are finitely many.
LEMMA RowsFinite ==
  ASSUME ReadInd, NEW n, NEW s
  PROVE  IsFiniteSet(JoinRows(n, s))
<1> DEFINE K == {y \in Live(n) : SchemaOf[y[1]] = s}
           C == {y \in Live(n) : SchemaOf[y[2].target] = s /\ y[2].target \in Owned}
           F(x) == {<<x, i, x[2].cols[i]>> : i \in DOMAIN x[2].cols}
           G(x) == {<<x, x[2].target, c>> : c \in ToSet(x[2].to)}
           f == [x \in K |-> F(x)]
           g == [x \in C |-> G(x)]
<1>1. IsFiniteSet(K) /\ IsFiniteSet(C)
  BY LiveFinite, FS_Subset
<1>2. ASSUME NEW x \in K PROVE IsFiniteSet(f[x])
  <2>1. PICK m \in Nat : DOMAIN x[2].cols = 1..m
    BY LiveKey, KeyTypes
  <2>2. IsFiniteSet(1..m)
    BY FS_Interval
  <2> DEFINE h == [i \in 1..m |-> <<x, i, x[2].cols[i]>>]
  <2>3. f[x] = {h[i] : i \in 1..m}
    BY <2>1
  <2> HIDE DEF h, f
  <2> QED BY <2>2, <2>3, FiniteImage
<1>3. ASSUME NEW x \in C PROVE IsFiniteSet(g[x])
  <2>1. IsFiniteSet(ToSet(x[2].to))
    BY LiveKey, KeyTypes, ToSetFinite
  <2> DEFINE h == [c \in ToSet(x[2].to) |-> <<x, x[2].target, c>>]
  <2>2. g[x] = {h[c] : c \in ToSet(x[2].to)}
    OBVIOUS
  <2> HIDE DEF h, g
  <2> QED BY <2>1, <2>2, FiniteImage
<1>4. KeyUsage(n, s) = UNION {f[x] : x \in K}
  <2>1. KeyUsage(n, s) = UNION {F(x) : x \in K}
    BY Zenon DEF KeyUsage
  <2> HIDE DEF F, K
  <2> QED BY <2>1
<1>5. ColumnUsage(n, s) = UNION {g[x] : x \in C}
  <2>1. ColumnUsage(n, s) = UNION {G(x) : x \in C}
    BY Zenon DEF ColumnUsage
  <2> HIDE DEF G, C
  <2> QED BY <2>1
<1> HIDE DEF K, C, f, g
<1>6. IsFiniteSet(KeyUsage(n, s))
  BY <1>1, <1>2, <1>4, FiniteUnion
<1>7. IsFiniteSet(ColumnUsage(n, s))
  BY <1>1, <1>3, <1>5, FiniteUnion
<1> QED BY <1>6, <1>7, FS_Product DEF JoinRows

\* A row pairs a column of one constraint of the name with a column that one of
\* them refers to, each in the schema.
LEMMA RowShape ==
  ASSUME NEW n, NEW s, NEW q \in JoinRows(n, s)
  PROVE  \E x, y \in Live(n) : \E i \in DOMAIN x[2].cols, c \in ToSet(y[2].to) :
           /\ q = <<<<x, i, x[2].cols[i]>>, <<y, y[2].target, c>>>>
           /\ SchemaOf[x[1]] = s /\ SchemaOf[y[2].target] = s
<1>1. PICK a \in KeyUsage(n, s), b \in ColumnUsage(n, s) : q = <<a, b>>
  BY DEF JoinRows
<1>2. PICK x \in Live(n) : SchemaOf[x[1]] = s /\ a \in {<<x, i, x[2].cols[i]>> : i \in DOMAIN x[2].cols}
  BY DEF KeyUsage
<1>3. PICK y \in Live(n) : SchemaOf[y[2].target] = s /\ b \in {<<y, y[2].target, c>> : c \in ToSet(y[2].to)}
  BY DEF ColumnUsage
<1>4. PICK i \in DOMAIN x[2].cols : a = <<x, i, x[2].cols[i]>>
  BY <1>2
<1>5. PICK c \in ToSet(y[2].to) : b = <<y, y[2].target, c>>
  BY <1>3
<1> QED BY <1>1, <1>2, <1>3, <1>4, <1>5

\* A pair of columns of constraints with that name.
PairOf(p, n, s) ==
  \E t, u \in Bearers(n, s) : \E x \in ToSet(Constraints[t]), y \in ToSet(Constraints[u]) :
    {x.name, y.name} = {n} /\ p \in ToSet(x.cols) \X ToSet(y.to)

\* The columns and the table of a row are those of constraints of the name.
LEMMA RowGrounded ==
  ASSUME ReadInd, NEW n, NEW s, NEW q \in JoinRows(n, s)
  PROVE  /\ PairOf(<<q[1][3], q[2][3]>>, n, s)
         /\ q[2][2] \in Table /\ SchemaOf[q[2][2]] = s
<1>1. PICK x \in Live(n), y \in Live(n) : \E i \in DOMAIN x[2].cols, c \in ToSet(y[2].to) :
        /\ q = <<<<x, i, x[2].cols[i]>>, <<y, y[2].target, c>>>>
        /\ SchemaOf[x[1]] = s /\ SchemaOf[y[2].target] = s
  BY RowShape
<1>2. PICK i \in DOMAIN x[2].cols, c \in ToSet(y[2].to) :
        /\ q = <<<<x, i, x[2].cols[i]>>, <<y, y[2].target, c>>>>
        /\ SchemaOf[x[1]] = s /\ SchemaOf[y[2].target] = s
  BY <1>1
<1>3. /\ x[1] \in Table /\ x[2] \in ToSet(Constraints[x[1]]) /\ x[2].name = n
      /\ y[1] \in Table /\ y[2] \in ToSet(Constraints[y[1]]) /\ y[2].name = n
      /\ y[2].target \in Table
  BY LiveKey DEF ReadInd
<1>4. x[1] \in Bearers(n, s) /\ y[1] \in Bearers(n, s)
  BY <1>2, <1>3 DEF Bearers
<1>5. q[1][3] = x[2].cols[i] /\ q[2][3] = c /\ q[2][2] = y[2].target
  BY <1>2
<1>6. x[2].cols[i] \in ToSet(x[2].cols)
  BY DEF ToSet
<1>7. PairOf(<<q[1][3], q[2][3]>>, n, s)
  BY <1>3, <1>4, <1>5, <1>6 DEF PairOf
<1> QED BY <1>2, <1>3, <1>5, <1>7

\* If only t bears the name, they are those of its constraint k.
LEMMA SoleRow ==
  ASSUME ReadInd, NEW t \in Table, NEW k \in ToSet(Constraints[t]),
         NEW n, n = k.name, NEW s, Bearers(n, s) = {t}, NEW q \in JoinRows(n, s)
  PROVE  /\ q[2][2] = k.target
         /\ \E i \in DOMAIN k.cols, c \in ToSet(k.to) :
              q = <<<<<<t, k>>, i, k.cols[i]>>, <<<<t, k>>, k.target, c>>>>
<1>1. PICK x \in Live(n), y \in Live(n) : \E i \in DOMAIN x[2].cols, c \in ToSet(y[2].to) :
        /\ q = <<<<x, i, x[2].cols[i]>>, <<y, y[2].target, c>>>>
        /\ SchemaOf[x[1]] = s /\ SchemaOf[y[2].target] = s
  BY RowShape
<1>2. PICK i \in DOMAIN x[2].cols, c \in ToSet(y[2].to) :
        /\ q = <<<<x, i, x[2].cols[i]>>, <<y, y[2].target, c>>>>
        /\ SchemaOf[x[1]] = s /\ SchemaOf[y[2].target] = s
  BY <1>1
<1>3. /\ x[1] \in Table /\ x[2] \in ToSet(Constraints[x[1]]) /\ x[2].name = n
      /\ y[1] \in Table /\ y[2] \in ToSet(Constraints[y[1]]) /\ y[2].name = n
      /\ y[2].target \in Table
  BY LiveKey DEF ReadInd
<1>4. x[1] \in Bearers(n, s) /\ y[1] \in Bearers(n, s)
  BY <1>2, <1>3 DEF Bearers
<1>5. x[1] = t /\ y[1] = t
  BY <1>4
<1>6. x[2] = k /\ y[2] = k
  BY <1>3, <1>5, KeyTypes
<1>7. x = <<x[1], x[2]>> /\ y = <<y[1], y[2]>>
  BY DEF Live
<1>8. q = <<<<<<t, k>>, i, k.cols[i]>>, <<<<t, k>>, k.target, c>>>>
  BY <1>2, <1>5, <1>6, <1>7
<1> QED BY <1>6, <1>8

\* What is read of a key of t with the name n.
FromKey(t, n, target, pairs) ==
  \E k \in ToSet(Constraints[t]) :
    /\ k.foreign /\ k.name = n /\ target \in Table /\ SchemaOf[target] = SchemaOf[t]
    /\ Bearers(n, SchemaOf[t]) = {t} =>
         /\ target = k.target
         /\ \A p \in ToSet(pairs) : p \in ToSet(k.cols) \X ToSet(k.to)
         /\ Len(k.cols) = 1 => pairs = <<<<k.cols[1], k.to[1]>>>>
    /\ \A p \in ToSet(pairs) : PairOf(p, n, SchemaOf[t])

\* The rows of a foreign key, in any order that the statement leaves open.
LEMMA KeyEntryGrounded ==
  ASSUME ReadInd, NEW t \in Table, NEW k \in ToSet(Constraints[t]), k.foreign,
         JoinRows(k.name, SchemaOf[t]) # {}, NEW f \in RowOrders(JoinRows(k.name, SchemaOf[t]))
  PROVE  FromKey(t, k.name, KeyEntry(k.name, f).target, KeyEntry(k.name, f).pairs)
<1> DEFINE n == k.name
           s == SchemaOf[t]
           rows == JoinRows(n, s)
           target == f[1][2][2]
           pairs == [i \in DOMAIN f |-> <<f[i][1][3], f[i][2][3]>>]
<1>1. PICK m \in Nat : m = Cardinality(rows) /\ m # 0
  BY RowsFinite, FS_CardinalityType, FS_EmptySet
<1>2. f \in [1..m -> rows] /\ 1 \in 1..m
  BY <1>1 DEF RowOrders, SetToSeqs
<1>3. KeyEntry(n, f).target = target /\ KeyEntry(n, f).pairs = pairs
  BY DEF KeyEntry
<1> HIDE DEF rows
<1>4. \A i \in 1..m : f[i] \in JoinRows(n, s)
  BY <1>2 DEF rows
<1>5. target \in Table /\ SchemaOf[target] = s
  <2>1. PICK q, u : q = f[1] /\ u = s
    OBVIOUS
  <2>2. q \in JoinRows(n, u)
    BY <1>2, <1>4, <2>1
  <2>3. q[2][2] \in Table /\ SchemaOf[q[2][2]] = u
    BY <2>2, RowGrounded
  <2> QED BY <2>1, <2>3
<1>6. ASSUME NEW p \in ToSet(pairs) PROVE \E i \in 1..m : p = <<f[i][1][3], f[i][2][3]>>
  BY <1>2 DEF ToSet
<1>7. \A p \in ToSet(pairs) : PairOf(p, n, s)
  BY <1>4, <1>6, RowGrounded
<1>8. ASSUME Bearers(n, s) = {t}
      PROVE  /\ target = k.target
             /\ \A p \in ToSet(pairs) : p \in ToSet(k.cols) \X ToSet(k.to)
             /\ Len(k.cols) = 1 => pairs = <<<<k.cols[1], k.to[1]>>>>
  <2>1. ASSUME NEW q \in rows
        PROVE  /\ q[2][2] = k.target
               /\ \E i \in DOMAIN k.cols, c \in ToSet(k.to) :
                    q = <<<<<<t, k>>, i, k.cols[i]>>, <<<<t, k>>, k.target, c>>>>
    BY <1>8, SoleRow DEF rows
  <2>2. target = k.target
    BY <1>2, <2>1
  <2>3. ASSUME NEW q \in rows PROVE <<q[1][3], q[2][3]>> \in ToSet(k.cols) \X ToSet(k.to)
    <3>1. PICK i \in DOMAIN k.cols, c \in ToSet(k.to) :
            q = <<<<<<t, k>>, i, k.cols[i]>>, <<<<t, k>>, k.target, c>>>>
      BY <2>1
    <3>2. q[1][3] = k.cols[i] /\ q[2][3] = c /\ k.cols[i] \in ToSet(k.cols)
      BY <3>1 DEF ToSet
    <3> QED BY <3>2
  <2>4. \A p \in ToSet(pairs) : p \in ToSet(k.cols) \X ToSet(k.to)
    BY <1>2, <1>6, <2>3
  <2>5. ASSUME Len(k.cols) = 1 PROVE pairs = <<<<k.cols[1], k.to[1]>>>>
    <3> DEFINE row == <<<<<<t, k>>, 1, k.cols[1]>>, <<<<t, k>>, k.target, k.to[1]>>>>
    <3>1. /\ k.cols \in Seq(Column) /\ k.to \in Seq(Column)
          /\ Len(k.to) = 1 /\ DOMAIN k.cols = 1..1
      BY <2>5, KeyTypes
    <3>2. ToSet(k.to) = {k.to[1]}
      BY <3>1, ToSetFinite
    <3>3. ASSUME NEW q \in rows PROVE q = row
      <4>1. PICK i \in DOMAIN k.cols, c \in ToSet(k.to) :
              q = <<<<<<t, k>>, i, k.cols[i]>>, <<<<t, k>>, k.target, c>>>>
        BY <2>1
      <4>2. i = 1 /\ c = k.to[1]
        BY <3>1, <3>2
      <4> QED BY <4>1, <4>2
    <3>4. row[1][3] = k.cols[1] /\ row[2][3] = k.to[1]
      OBVIOUS
    <3> HIDE DEF row
    <3>5. rows = {row}
      BY <1>2, <3>3
    <3>6. m = 1
      BY <1>1, <3>5, FS_Singleton
    <3>7. DOMAIN f = 1..1 /\ f[1] = row
      BY <1>2, <3>3, <3>6
    <3>8. pairs = [i \in 1..1 |-> <<k.cols[1], k.to[1]>>]
      BY <3>4, <3>7
    <3> QED BY <3>8
  <2> QED BY <2>2, <2>4, <2>5
<1> HIDE DEF target, pairs
<1> QED BY <1>3, <1>5, <1>7, <1>8 DEF FromKey

\* What was read of keys of t.
KeysMet(t, keys) ==
  \A i \in DOMAIN keys : keys[i].name \in KeyName /\ FromKey(t, keys[i].name, keys[i].target, keys[i].pairs)

\* A relationship was read of a kept table, or inferred between two of them.
Grounded(r) ==
  /\ r.source \in tables
  /\ IF r.key = NoKey
     THEN /\ r.target \in tables
          /\ \E c \in ToSet(Cols[r.source]), k \in Pk[r.target] : r.pairs = <<<<c, k>>>>
     ELSE FromKey(r.source, r.key, r.target, r.pairs)

\* Keys are held only between the call for them and the end of their table.
GroundedInd ==
  /\ \A r \in rels : Grounded(r)
  /\ \/ read.keys = <<>>
     \/ /\ step = "SchemaDiscovery" /\ todo # <<>> /\ call \in {"indexes", "constraints"}
        /\ KeysMet(Head(todo), read.keys)

\* The names that there are rows for are those of foreign keys of the table.
LEMMA VisibleKeysMet ==
  ASSUME NEW t \in Table
  PROVE  \A i \in DOMAIN VisibleKeys(t) :
           \E k \in ToSet(Constraints[t]) :
             /\ k.foreign /\ VisibleKeys(t)[i] = k.name
             /\ JoinRows(k.name, SchemaOf[t]) # {}
<1> DEFINE ks == Constraints[t]
           Seen(k) == k.foreign /\ <<t, k>> \in Live(k.name) /\ t \in Writable
                        /\ JoinRows(k.name, SchemaOf[t]) # {}
           E == {x.name : x \in {k \in ToSet(ks) : Seen(k)}}
           IfVisible(k) == IF Seen(k) THEN <<k.name>> ELSE <<>>
           s == [i \in DOMAIN ks |-> IfVisible(ks[i])]
<1>1. PICK m \in Nat : DOMAIN ks = 1..m
  BY KeysAssumption
<1>2. VisibleKeys(t) = FlattenSeq(s)
  BY DEF VisibleKeys
<1>3. \A e \in E : \E k \in ToSet(ks) : k.foreign /\ e = k.name /\ JoinRows(k.name, SchemaOf[t]) # {}
  OBVIOUS
<1> HIDE DEF Seen
<1>4. ASSUME NEW i \in 1..m PROVE IfVisible(ks[i]) \in Seq(E)
  <2>1. ks[i] \in ToSet(ks) BY <1>1 DEF ToSet
  <2>2. CASE Seen(ks[i])
    <3>1. ks[i].name \in E BY <2>1, <2>2
    <3> HIDE DEF E
    <3> QED BY <2>2, <3>1
  <2>3. CASE ~Seen(ks[i])
    <3> HIDE DEF E
    <3> QED BY <2>3
  <2> QED BY <2>2, <2>3
<1>5. s \in Seq(Seq(E))
  <2> HIDE DEF E, IfVisible
  <2> QED BY <1>1, <1>4
<1>6. VisibleKeys(t) \in Seq(E)
  <2> HIDE DEF s, E
  <2> QED BY <1>2, <1>5, FlattenRange
<1>7. \A i \in DOMAIN VisibleKeys(t) : VisibleKeys(t)[i] \in E
  BY <1>6
<1> HIDE DEF E
<1> QED BY <1>3, <1>7

LEMMA ReadKeysMet ==
  ASSUME ReadInd, NEW t \in Table, NEW keys \in ReadKeys(t)
  PROVE  KeysMet(t, keys)
<1> DEFINE names == VisibleKeys(t)
<1>1. DOMAIN keys = DOMAIN names
      /\ \A i \in DOMAIN names :
           keys[i] \in {KeyEntry(names[i], f) : f \in RowOrders(JoinRows(names[i], SchemaOf[t]))}
  BY DEF ReadKeys
<1>2. ASSUME NEW i \in DOMAIN keys
      PROVE  keys[i].name \in KeyName /\ FromKey(t, keys[i].name, keys[i].target, keys[i].pairs)
  <2>1. PICK k \in ToSet(Constraints[t]) :
          k.foreign /\ names[i] = k.name /\ JoinRows(k.name, SchemaOf[t]) # {}
    BY <1>1, VisibleKeysMet
  <2>2. PICK f \in RowOrders(JoinRows(k.name, SchemaOf[t])) : keys[i] = KeyEntry(k.name, f)
    BY <1>1, <2>1
  <2>3. keys[i].name = k.name
    BY <2>2 DEF KeyEntry
  <2>4. FromKey(t, k.name, keys[i].target, keys[i].pairs)
    BY <2>1, <2>2, KeyEntryGrounded
  <2> QED BY <2>3, <2>4, KeyTypes
<1> QED BY <1>2 DEF KeysMet

LEMMA GroundedStays ==
  ASSUME NEW r, Grounded(r), tables \subseteq tables'
  PROVE  Grounded(r)'
BY DEF Grounded, FromKey, PairOf

LEMMA KeepTableKeepsGrounded ==
  ASSUME GroundedInd, ReadInd, KeepTable
  PROVE  GroundedInd'
<1> DEFINE t == Head(todo)
<1>1. tables \subseteq tables' /\ t \in tables' /\ rels' = rels \cup RelationshipsOf(t, read.keys)
  BY DEF KeepTable
<1>2. ASSUME NEW r \in RelationshipsOf(t, read.keys) PROVE Grounded(r)'
  <2>1. PICK i \in DOMAIN read.keys :
          r = [source |-> t, pairs |-> read.keys[i].pairs, target |-> read.keys[i].target,
               key |-> read.keys[i].name]
    BY DEF RelationshipsOf
  <2>2. KeysMet(t, read.keys)
    BY DEF GroundedInd, KeysMet
  <2>3. /\ r.source = t /\ r.key = read.keys[i].name
        /\ r.target = read.keys[i].target /\ r.pairs = read.keys[i].pairs
    BY <2>1
  <2>4. r.key \in KeyName /\ FromKey(r.source, r.key, r.target, r.pairs)
    BY <2>2, <2>3 DEF KeysMet
  <2>5. r.key # NoKey
    BY <2>4, KeysAssumption
  <2>6. FromKey(r.source, r.key, r.target, r.pairs)'
    BY <2>4 DEF FromKey, PairOf
  <2> HIDE DEF t
  <2> QED BY <1>1, <2>3, <2>5, <2>6 DEF Grounded
<1>3. \A r \in rels : Grounded(r)'
  BY <1>1, GroundedStays DEF GroundedInd
<1>4. read'.keys = <<>>
  BY DEF KeepTable, AfterTable, Nothing
<1> QED BY <1>1, <1>2, <1>3, <1>4 DEF GroundedInd

LEMMA EndSchemaKeepsGrounded ==
  ASSUME GroundedInd, ReadInd, WholeInd, EndSchema
  PROVE  GroundedInd'
<1>1. UNCHANGED <<tables, read>> /\ rels' = rels \cup InferRelationships /\ read.keys = <<>>
  BY DEF EndSchema, GroundedInd
<1>2. ASSUME NEW r \in InferRelationships PROVE Grounded(r)'
  <2> DEFINE To(x) == InferTarget(x[1], x[2])
  <2>1. PICK x \in {y \in tables \X Column :
                  /\ y[2] \in ToSet(columnsOf[y[1]]) \ DOMAIN foreign[y[1]]
                  /\ InferTarget(y[1], y[2]) # NoTable} :
          r \in {[source |-> x[1], pairs |-> <<<<x[2], k>>>>, target |-> To(x),
                  key |-> NoKey] : k \in KeyColumns(To(x), x[2])}
    BY DEF InferRelationships
  <2>2. PICK k \in KeyColumns(To(x), x[2]) :
          r = [source |-> x[1], pairs |-> <<<<x[2], k>>>>, target |-> To(x), key |-> NoKey]
    BY <2>1
  <2>3. x[1] \in tables /\ x[2] \in ToSet(Cols[x[1]]) /\ To(x) # NoTable
    BY <2>1 DEF WholeInd, AllRead
  <2>4. To(x) \in tables
    BY <2>3 DEF InferTarget
  <2>5. k \in Pk[To(x)]
    BY <2>2 DEF KeyColumns
  <2>6. r.source = x[1] /\ r.pairs = <<<<x[2], k>>>> /\ r.target = To(x) /\ r.key = NoKey
    BY <2>2
  <2> HIDE DEF To
  <2> QED BY <1>1, <2>3, <2>4, <2>5, <2>6 DEF Grounded
<1>3. \A r \in rels : Grounded(r)'
  BY <1>1, GroundedStays DEF GroundedInd
<1> QED BY <1>1, <1>2, <1>3 DEF GroundedInd

LEMMA IntroKeepsGrounded ==
  ASSUME GroundedInd, ReadInd, WholeInd, IntroNext
  PROVE  GroundedInd'
<1>1. CASE UNCHANGED <<rels, tables>> /\ UNCHANGED <<step, todo, call, read>>
  BY <1>1, GroundedStays DEF GroundedInd, KeysMet
<1>2. CASE UNCHANGED <<rels, tables>> /\ read'.keys = <<>>
  BY <1>2, GroundedStays DEF GroundedInd
<1> USE DEF discovered, database, cursor, metadata
<1>3. CASE Environment
  BY <1>1, <1>3 DEF Environment, Outage, Recovery, DropTable
<1>4. CASE OpenAdapter \/ GetSchemas \/ GetTables \/ OpenTarget \/ SampleTable \/ EndSamples
           \/ ProfileTable \/ EndProfiles
  <2>1. read.keys = <<>>
    BY <1>4 DEF GroundedInd, OpenAdapter, GetSchemas, GetTables, OpenTarget, SampleTable, EndSamples,
       ProfileTable, EndProfiles
  <2>2. UNCHANGED <<rels, tables, read>>
    BY <1>4 DEF OpenAdapter, GetSchemas, GetTables, OpenTarget, SampleTable, EndSamples,
       ProfileTable, EndProfiles
  <2> QED BY <1>2, <2>1, <2>2
<1>5. CASE ReadTable
  <2>1. UNCHANGED <<step, todo, tables, rels>> /\ step = "SchemaDiscovery" /\ todo # <<>>
        /\ call # "constraints" /\ call' = NextCall(call)
    BY <1>5 DEF ReadTable
  <2>2. CASE call = "columns"
    <3>1. read.keys = <<>> /\ read' = [read EXCEPT !.columns = ColumnsRead(Head(todo))]
      BY <1>5, <2>2 DEF ReadTable, GroundedInd
    <3>2. read'.keys = <<>>
      BY <3>1 DEF WholeInd
    <3> QED BY <1>2, <2>1, <3>2
  <2>3. CASE call = "foreign keys"
    <3>1. PICK keys \in ReadKeys(Head(todo)) : read' = [read EXCEPT !.keys = keys]
      BY <1>5, <2>3 DEF ReadTable
    <3>2. read'.keys = keys
      BY <3>1 DEF WholeInd
    <3>3. Head(todo) \in Table
      BY <2>1 DEF ReadInd
    <3>4. KeysMet(Head(todo), read'.keys)
      BY <3>2, <3>3, ReadKeysMet
    <3>5. KeysMet(Head(todo), read.keys)'
      BY <2>1, <3>4 DEF KeysMet
    <3>6. call' = "indexes"
      BY <2>1, <2>3 DEF NextCall
    <3>7. \A r \in rels : Grounded(r)'
      BY <2>1, GroundedStays DEF GroundedInd
    <3> QED BY <2>1, <3>5, <3>6, <3>7 DEF GroundedInd
  <2>4. CASE call \in {"primary keys", "indexes"}
    <3>1. read' = read
      BY <1>5, <2>4 DEF ReadTable
    <3>2. call = "primary keys" => read.keys = <<>>
      BY DEF GroundedInd
    <3>3. CASE read.keys = <<>>
      BY <1>2, <2>1, <3>1, <3>3
    <3>4. CASE read.keys # <<>>
      <4>1. call = "indexes" /\ call' = "constraints" /\ KeysMet(Head(todo), read.keys)
        BY <2>1, <2>4, <3>2, <3>4 DEF NextCall, GroundedInd
      <4>2. KeysMet(Head(todo), read.keys)'
        BY <2>1, <3>1, <4>1 DEF KeysMet
      <4>3. \A r \in rels : Grounded(r)'
        BY <2>1, GroundedStays DEF GroundedInd
      <4> QED BY <2>1, <4>1, <4>2, <4>3 DEF GroundedInd
    <3> QED BY <3>3, <3>4
  <2> QED BY <1>5, <2>2, <2>3, <2>4 DEF ReadTable
<1>6. CASE SkipTable
  BY <1>2, <1>6 DEF SkipTable, AfterTable, Nothing
<1>7. CASE KeepTable BY <1>7, KeepTableKeepsGrounded
<1>8. CASE EndSchema BY <1>8, EndSchemaKeepsGrounded
<1> QED BY <1>3, <1>4, <1>5, <1>6, <1>7, <1>8 DEF IntroNext, IntroStep

LEMMA GroundedInit == MapInit => GroundedInd
BY DEF MapInit, Init, IntroInit, GroundedInd, Nothing

LEMMA GroundedNext ==
  ASSUME GroundedInd, ReadInd, WholeInd, [MapNext]_mapVars
  PROVE  GroundedInd'
<1>1. CASE IntroNext BY <1>1, IntroKeepsGrounded
<1>2. CASE ~IntroNext
  <2>1. UNCHANGED discovered /\ (step = "SchemaDiscovery" <=> step' = "SchemaDiscovery")
    BY <1>2, OthersLeaveDiscovered
  <2>2. UNCHANGED <<tables, rels, read, todo, call>>
    BY <2>1 DEF discovered, cursor, metadata
  <2>3. \A r \in rels : Grounded(r)'
    BY <2>2, GroundedStays DEF GroundedInd
  <2> QED BY <2>1, <2>2, <2>3 DEF GroundedInd, KeysMet
<1> QED BY <1>1, <1>2

\* The pairs of a relationship that is alone with its name are columns of its
\* two tables.
LEMMA GroundedPairs ==
  ASSUME ReadInd, NEW r, Grounded(r), Sole(r)
  PROVE  \A p \in ToSet(r.pairs) : p[1] \in ToSet(Cols[r.source]) /\ p[2] \in ToSet(Cols[r.target])
<1>1. r.source \in Table
  BY DEF Grounded, ReadInd
<1>2. CASE r.key = NoKey
  <2>1. PICK c \in ToSet(Cols[r.source]), k \in Pk[r.target] : r.pairs = <<<<c, k>>>>
    BY <1>2 DEF Grounded
  <2>2. r.target \in Table
    BY <1>2 DEF Grounded, ReadInd
  <2>3. k \in ToSet(Cols[r.target])
    BY <2>1, <2>2, CatalogueAssumption
  <2>4. ToSet(r.pairs) = {<<c, k>>}
    BY <2>1 DEF ToSet
  <2> QED BY <2>3, <2>4
<1>3. CASE r.key # NoKey
  <2>1. PICK k \in ToSet(Constraints[r.source]) :
          r.target = k.target /\ \A p \in ToSet(r.pairs) : p \in ToSet(k.cols) \X ToSet(k.to)
    BY <1>3 DEF Grounded, FromKey, Sole
  <2>2. ToSet(k.cols) \subseteq ToSet(Cols[r.source]) /\ ToSet(k.to) \subseteq ToSet(Cols[r.target])
    BY <1>1, <2>1, KeyTypes
  <2> QED BY <2>1, <2>2
<1> QED BY <1>2, <1>3

\* extract_schema and _infer_relationships make no relationship up: one that
\* was read bears the name of a foreign key of a kept table and is that key,
\* exactly it if it has one column, unless another table bears the name as well;
\* then its columns are those of constraints with that name.  One that was
\* inferred leads from a column of a kept table to the key of another.
THEOREM RelationshipsGroundedHolds == MapSpec => []RelationshipsGrounded
<1>1. MapInit => GroundedInd /\ ReadInd /\ WholeInd
  BY GroundedInit, ReadInit, WholeInit
<1>2. GroundedInd /\ ReadInd /\ WholeInd /\ [MapNext]_mapVars => GroundedInd' /\ ReadInd' /\ WholeInd'
  BY GroundedNext, ReadNext, WholeNext
<1>3. GroundedInd => RelationshipsGrounded
  <2> SUFFICES ASSUME GroundedInd, NEW r \in rels
               PROVE  /\ r.source \in tables
                      /\ r.key = NoKey =>
                           /\ r.target \in tables
                           /\ r.pairs[1][1] \in ToSet(Cols[r.source]) /\ r.pairs[1][2] \in Pk[r.target]
                      /\ r.key # NoKey => FromKey(r.source, r.key, r.target, r.pairs)
    BY DEF RelationshipsGrounded, FromKey, PairOf, Sole
  <2>1. Grounded(r)
    BY DEF GroundedInd
  <2>2. CASE r.key = NoKey
    <3>1. PICK c \in ToSet(Cols[r.source]), k \in Pk[r.target] : r.pairs = <<<<c, k>>>>
      BY <2>1, <2>2 DEF Grounded
    <3>2. r.pairs[1][1] = c /\ r.pairs[1][2] = k
      BY <3>1
    <3> QED BY <2>1, <2>2, <3>2 DEF Grounded
  <2>3. CASE r.key # NoKey
    BY <2>1, <2>3 DEF Grounded
  <2> QED BY <2>2, <2>3
<1> QED BY <1>1, <1>2, <1>3, PTL DEF MapSpec

-----------------------------------------------------------------------------
(* Faults stay local *)

CanSample == {t \in exists \ MatViews : ~(ToSet(Attributes[t]) \subseteq BlobCols)}

\* Of a PostgreSQL database that stays in reach, every table that is there is
\* kept, or in the list of its schema, or its schema is still to be listed; and
\* every one that can be sampled was, or is in the list.
LocalInd ==
  /\ outages \in Nat
  /\ engine = "postgresql" /\ outages = 0 =>
       /\ up
       /\ step = "SchemaDiscovery" /\ call \notin {"open", "schemas"} =>
            \A t \in exists : t \in tables \cup ToSet(todo) \/ SchemaOf[t] \in ToSet(schemas)
       /\ step # "SchemaDiscovery" => exists \subseteq tables
       /\ step = "SampleDiscovery" /\ call # "open" => CanSample \subseteq samples \cup ToSet(todo)
       /\ step = "ColumnProfiling" => CanSample \subseteq samples

LEMMA EnvironmentKeepsLocal ==
  ASSUME LocalInd, Environment
  PROVE  LocalInd'
<1> USE DEF LocalInd, CanSample, cursor, metadata, Reading
<1>1. CASE Outage
  <2>1. outages' = outages + 1 /\ outages \in Nat
    BY <1>1 DEF Outage
  <2>2. outages' \in Nat /\ outages' # 0
    BY <2>1
  <2> QED BY <2>2
<1>2. CASE Recovery BY <1>2 DEF Recovery
<1>3. CASE \E t \in Table : DropTable(t)
  <2>1. exists' \subseteq exists
        /\ UNCHANGED <<step, engine, up, outages, cursor, metadata, samples>>
    BY <1>3 DEF DropTable
  <2> QED BY <2>1
<1> QED BY <1>1, <1>2, <1>3 DEF Environment

\* While nothing goes wrong with the target, only a table that is gone is
\* skipped.
LEMMA SchemaStepKeepsLocal ==
  ASSUME LocalInd, ReadInd, engine = "postgresql", outages = 0,
         \/ OpenAdapter \/ GetSchemas \/ GetTables \/ ReadTable \/ SkipTable \/ KeepTable \/ EndSchema
  PROVE  LocalInd'
<1> USE DEF discovered, database, cursor, metadata
<1>0. up /\ UNCHANGED database /\ step = "SchemaDiscovery" /\ UNCHANGED samples
  BY DEF LocalInd, OpenAdapter, GetSchemas, GetTables, ReadTable, SkipTable, KeepTable, EndSchema
<1> DEFINE Covered == \A t \in exists : t \in tables \cup ToSet(todo) \/ SchemaOf[t] \in ToSet(schemas)
<1>1. call \notin {"open", "schemas"} => Covered
  BY <1>0 DEF LocalInd
<1>2. CASE OpenAdapter
  BY <1>0, <1>2 DEF OpenAdapter, LocalInd
<1>3. CASE GetSchemas
  <2>1. schemas' = Schemas /\ UNCHANGED <<exists, step>>
    BY <1>0, <1>3 DEF GetSchemas
  <2>2. Covered'
    BY <2>1, CatalogueAssumption DEF ReadInd
  <2> QED BY <1>0, <2>1, <2>2 DEF LocalInd
<1>4. CASE GetTables
  <2>1. todo = <<>> /\ schemas # <<>> /\ schemas' = Tail(schemas)
        /\ todo' = TablesIn(Head(schemas)) /\ UNCHANGED <<step, tables, exists>>
    BY <1>0, <1>4 DEF GetTables
  <2>2. ToSet(schemas) = {Head(schemas)} \cup ToSet(schemas')
    BY <2>1, ToSetTail DEF ReadInd
  <2>3. ToSet(todo') = {t \in exists : SchemaOf[t] = Head(schemas)}
    BY <2>1, TablesInSchema DEF ReadInd
  <2>4. ToSet(todo) = {}
    BY <2>1 DEF ToSet
  <2>5. Covered'
    <3> SUFFICES ASSUME NEW t \in exists
                 PROVE  t \in tables \cup ToSet(todo') \/ SchemaOf[t] \in ToSet(schemas')
      BY <2>1
    <3>1. t \in tables \/ SchemaOf[t] \in ToSet(schemas)
      BY <1>1, <1>4, <2>4 DEF GetTables
    <3> QED BY <2>2, <2>3, <3>1
  <2> QED BY <1>0, <2>1, <2>5 DEF LocalInd
<1>5. CASE ReadTable
  <2>1. UNCHANGED <<step, exists, schemas, todo, tables>> /\ call \notin {"open", "schemas"}
    BY <1>5 DEF ReadTable
  <2> QED BY <1>0, <1>1, <2>1 DEF LocalInd
<1>6. CASE SkipTable \/ KeepTable
  <2>1. UNCHANGED <<step, exists, schemas>> /\ todo # <<>> /\ todo' = Tail(todo) /\ tables \subseteq tables'
    BY <1>6 DEF SkipTable, KeepTable, AfterTable, SkipRest
  <2>2. ToSet(todo) = {Head(todo)} \cup ToSet(todo')
    BY <2>1, ToSetTail DEF ReadInd
  <2>3. Head(todo) \in exists => Head(todo) \in tables'
    <3>1. CASE KeepTable BY <3>1 DEF KeepTable
    <3>2. CASE SkipTable
      BY <1>0, <3>2 DEF SkipTable, Raises, LostTable
    <3> QED BY <1>6, <3>1, <3>2
  <2>4. call \notin {"open", "schemas"}
    <3>1. CASE KeepTable BY <3>1 DEF KeepTable
    <3>2. CASE SkipTable
      BY <1>0, <3>2 DEF SkipTable, Raises, LostTable
    <3> QED BY <1>6, <3>1, <3>2
  <2>5. Covered'
    <3> SUFFICES ASSUME NEW t \in exists
                 PROVE  t \in tables' \cup ToSet(todo') \/ SchemaOf[t] \in ToSet(schemas')
      BY <2>1
    <3>1. t \in tables \cup ToSet(todo) \/ SchemaOf[t] \in ToSet(schemas)
      BY <1>1, <2>4
    <3> QED BY <2>1, <2>2, <2>3, <3>1
  <2> QED BY <1>0, <2>1, <2>5 DEF LocalInd
<1>7. CASE EndSchema
  <2>1. todo = <<>> /\ schemas = <<>> /\ step' = "SampleDiscovery" /\ call' = "open" /\ UNCHANGED tables
        /\ call = "tables"
    BY <1>7 DEF EndSchema
  <2>2. ToSet(todo) = {} /\ ToSet(schemas) = {}
    BY <2>1 DEF ToSet
  <2>3. exists \subseteq tables
    BY <1>1, <2>1, <2>2
  <2> QED BY <1>0, <2>1, <2>3 DEF LocalInd
<1> QED BY <1>2, <1>3, <1>4, <1>5, <1>6, <1>7

LEMMA SampleStepKeepsLocal ==
  ASSUME LocalInd, ReadInd, WholeInd, engine = "postgresql", outages = 0,
         \/ OpenTarget \/ SampleTable \/ EndSamples \/ ProfileTable \/ EndProfiles
  PROVE  LocalInd'
<1> USE DEF discovered, database, cursor, metadata
<1>0. up /\ UNCHANGED <<database, metadata>> /\ step \in {"SampleDiscovery", "ColumnProfiling"}
      /\ exists \subseteq tables
  BY DEF LocalInd, OpenTarget, SampleTable, EndSamples, ProfileTable, EndProfiles
<1>1. step' # "SchemaDiscovery" /\ outages' \in Nat /\ up' /\ exists' \subseteq tables'
      /\ UNCHANGED CanSample
  BY <1>0 DEF OpenTarget, SampleTable, EndSamples, ProfileTable, EndProfiles, Fail, LocalInd, CanSample
<1>2. CASE OpenTarget
  <2>1. todo' = InOrder(tables) /\ step' = "SampleDiscovery"
    BY <1>0, <1>2 DEF OpenTarget
  <2>2. ToSet(todo') = tables
    BY <2>1, TablesListed DEF InOrder, ReadInd
  <2>3. CanSample' \subseteq samples' \cup ToSet(todo')
    BY <1>0, <1>1, <2>2 DEF CanSample
  <2> QED BY <1>1, <2>1, <2>3 DEF LocalInd
<1>3. CASE SampleTable
  <2>1. todo # <<>> /\ todo' = Tail(todo) /\ call = "none" /\ UNCHANGED <<step, call>>
        /\ step = "SampleDiscovery"
    BY <1>3 DEF SampleTable
  <2>2. ToSet(todo) = {Head(todo)} \cup ToSet(todo')
    BY <2>1, ToSetTail DEF ReadInd
  <2>3. samples \subseteq samples' /\ (Head(todo) \in CanSample => Head(todo) \in samples')
    <3>1. samples \subseteq samples'
      BY <1>3 DEF SampleTable
    <3>2. ASSUME Head(todo) \in CanSample PROVE Head(todo) \in samples'
      <4>1. Head(todo) \in exists \ MatViews /\ Head(todo) \in tables /\ Head(todo) \in Table
        BY <1>0, <3>2 DEF CanSample, ReadInd
      <4>2. columnsOf[Head(todo)] = Attributes[Head(todo)]
        BY <4>1 DEF WholeInd, AllRead, Cols
      <4> QED BY <1>0, <1>3, <3>2, <4>1, <4>2 DEF SampleTable, CanSample, Sampleable
    <3> QED BY <3>1, <3>2
  <2>4. CanSample \subseteq samples \cup ToSet(todo)
    BY <2>1 DEF LocalInd
  <2>5. CanSample' \subseteq samples' \cup ToSet(todo')
    BY <1>1, <2>2, <2>3, <2>4
  <2> QED BY <1>1, <2>1, <2>5 DEF LocalInd
<1>4. CASE EndSamples
  <2>1. ToSet(todo) = {} /\ call = "none" /\ step = "SampleDiscovery" /\ step' = "ColumnProfiling"
        /\ UNCHANGED samples
    BY <1>4 DEF EndSamples, ToSet
  <2>2. CanSample' \subseteq samples'
    BY <1>1, <2>1 DEF LocalInd
  <2> QED BY <1>1, <2>1, <2>2 DEF LocalInd
<1>5. CASE ProfileTable
  <2>1. step = "ColumnProfiling" /\ UNCHANGED <<step, samples>>
    BY <1>5 DEF ProfileTable
  <2>2. CanSample' \subseteq samples'
    BY <1>1, <2>1 DEF LocalInd
  <2> QED BY <1>1, <2>1, <2>2 DEF LocalInd
<1>6. CASE EndProfiles
  BY <1>1, <1>6 DEF EndProfiles, LocalInd
<1> QED BY <1>2, <1>3, <1>4, <1>5, <1>6

LEMMA LocalNext ==
  ASSUME LocalInd, ReadInd, WholeInd, [MapNext]_mapVars
  PROVE  LocalInd'
<1>1. CASE Environment BY <1>1, EnvironmentKeepsLocal
<1>2. CASE IntroStep
  <2>1. UNCHANGED database
    BY <1>2 DEF IntroStep, OpenAdapter, GetSchemas, GetTables, ReadTable, SkipTable, KeepTable, EndSchema,
       OpenTarget, SampleTable, EndSamples, ProfileTable, EndProfiles
  <2>2. CASE engine = "postgresql" /\ outages = 0
    BY <1>2, <2>2, SchemaStepKeepsLocal, SampleStepKeepsLocal DEF IntroStep
  <2>3. CASE ~(engine = "postgresql" /\ outages = 0)
    BY <2>1, <2>3 DEF LocalInd, database
  <2> QED BY <2>2, <2>3
<1>3. CASE ~IntroNext
  <2>1. UNCHANGED discovered /\ (step = "SchemaDiscovery" <=> step' = "SchemaDiscovery")
    BY <1>3, OthersLeaveDiscovered
  <2>2. step' # step => step' \notin {"SampleDiscovery", "ColumnProfiling"}
    BY <1>3, OthersLeaveReading
  <2> QED BY <2>1, <2>2 DEF LocalInd, CanSample, discovered, database, cursor, metadata
<1> QED BY <1>1, <1>2, <1>3 DEF IntroNext

LEMMA LocalInit == MapInit => LocalInd
BY DEF MapInit, Init, IntroInit, LocalInd

\* What goes wrong with one table, or a table that its owner drops, costs no
\* other table (extract_schema's handlers, one for each table; the sampling
\* service's): every table of a PostgreSQL database in reach is found and, if it
\* is no materialized view and has a column that can be, sampled.
THEOREM FaultsStayLocalHolds == MapSpec => []FaultsStayLocal
<1>1. MapInit => LocalInd /\ ReadInd /\ WholeInd
  BY LocalInit, ReadInit, WholeInit
<1>2. LocalInd /\ ReadInd /\ WholeInd /\ [MapNext]_mapVars => LocalInd' /\ ReadInd' /\ WholeInd'
  BY LocalNext, ReadNext, WholeNext
<1>3. LocalInd => FaultsStayLocal
  BY DEF LocalInd, FaultsStayLocal, CanSample
<1> QED BY <1>1, <1>2, <1>3, PTL DEF MapSpec

-----------------------------------------------------------------------------
(* The graph is grounded *)

\* The graph is that of the relationships, which do not change any more.
GraphInd ==
  graph # NotYet =>
    /\ step \in {"KnowledgeMapGeneration", "ContextPersistence", "done"}
    /\ graph = BuildGraph(tables)

LEMMA GraphInit == MapInit => GraphInd
BY DEF MapInit, GraphInd

LEMMA GraphNext ==
  ASSUME GraphInd, [MapNext]_mapVars
  PROVE  GraphInd'
<1>1. UNCHANGED <<tables, columnsOf, rels>> => BuildGraph(tables)' = BuildGraph(tables)
  <2> SUFFICES ASSUME UNCHANGED <<tables, columnsOf, rels>>
               PROVE  BuildGraph(tables)' = BuildGraph(tables)
    OBVIOUS
  <2>1. KeyEdges(tables)' = KeyEdges(tables)
    BY DEF KeyEdges
  <2>2. NameEdges(tables)' = NameEdges(tables)
    BY DEF NameEdges
  <2> QED BY <2>1, <2>2 DEF BuildGraph
<1>2. CASE Next /\ UNCHANGED endVars
  <2>1. step \notin {"KnowledgeMapGeneration", "ContextPersistence", "done"}
    <3>1. CASE IntroNext BY <3>1, IntroStepSteps DEF ReadingSteps
    <3>2. CASE LayerStep
      BY <3>2 DEF LayerStep, TableSemanticAnalysis, AnalysisFails, BusinessDomainDiscovery,
         BusinessEntityDiscovery, BusinessConceptDiscovery, MetricDiscovery, DimensionDiscovery,
         DateSemanticDiscovery, TerminologyDiscovery
    <3> QED BY <1>2, <3>1, <3>2 DEF Next
  <2> QED BY <1>2, <2>1 DEF GraphInd, endVars
<1>3. CASE RelationshipGraphCreation
  <2>1. graph' = BuildGraph(tables) /\ step' = "KnowledgeMapGeneration" /\ UNCHANGED <<tables, columnsOf, rels>>
    BY <1>3 DEF RelationshipGraphCreation, discovered, metadata
  <2> QED BY <1>1, <2>1 DEF GraphInd
<1>4. CASE KnowledgeMapGeneration \/ ContextPersistence
  <2>1. UNCHANGED <<graph, tables, columnsOf, rels>> /\ step' \in {"ContextPersistence", "done"}
    BY <1>4 DEF KnowledgeMapGeneration, ContextPersistence, discovered, metadata
  <2> QED BY <1>1, <2>1 DEF GraphInd
<1>5. CASE LoadMap \/ RetrieveContext \/ UNCHANGED mapVars
  <2>1. UNCHANGED <<step, graph, tables, columnsOf, rels>>
    BY <1>5 DEF LoadMap, RetrieveContext, mapVars, endVars, vars, introVars, discovered, metadata
  <2> QED BY <1>1, <2>1 DEF GraphInd
<1> QED BY <1>2, <1>3, <1>4, <1>5 DEF MapNext

\* A column is taken to point to a table of ts.
LEMMA PointsToIn ==
  ASSUME NEW ts \in SUBSET Table, NEW t, NEW c, PointsTo(t, c, ts) # NoTable
  PROVE  PointsTo(t, c, ts) \in ts
<1> DEFINE Found(S) == IF S \cap ts # {} THEN FirstOf(S \cap ts, Earlier) ELSE NoTable
           u == IF Found(NameOf[c]) # NoTable THEN Found(NameOf[c]) ELSE Found(PrefixOf[c])
<1>1. PointsTo(t, c, ts) = u /\ u # NoTable
  BY DEF PointsTo
<1>2. ASSUME NEW S PROVE Found(S) \in ts \cup {NoTable}
  <2>1. CASE S \cap ts # {}
    <3>1. FirstOf(S \cap ts, Earlier) \in S \cap ts BY <2>1, FirstTable
    <3> QED BY <2>1, <3>1
  <2>2. CASE S \cap ts = {} BY <2>2
  <2> QED BY <2>1, <2>2
<1>3. u \in {Found(NameOf[c]), Found(PrefixOf[c])}
  OBVIOUS
<1> HIDE DEF Found
<1> QED BY <1>1, <1>2, <1>3

\* The ends of an edge.
EdgeOk(e) ==
  /\ {e[1], e[3]} \subseteq tables
  /\ \/ e[2] \in ToSet(Cols[e[1]]) /\ (e[4] = "id" \/ e[4] \in ToSet(Cols[e[3]]))
     \/ \E r \in rels : ~Sole(r) /\ {e, Reverse4(e)} \subseteq EdgeOf(r)

LEMMA KeyEdgesOk ==
  ASSUME GroundedInd, ReadInd, NEW e \in KeyEdges(tables)
  PROVE  EdgeOk(e)
<1>1. PICK r \in rels : /\ r.source \in tables /\ r.target \in tables
                        /\ e \in {<<r.source, r.pairs[i][1], r.target, r.pairs[i][2]>> : i \in DOMAIN r.pairs}
  BY DEF KeyEdges
<1>2. PICK i \in DOMAIN r.pairs : e = <<r.source, r.pairs[i][1], r.target, r.pairs[i][2]>>
  BY <1>1
<1>3. PICK p \in ToSet(r.pairs) : p = r.pairs[i]
  BY DEF ToSet
<1>4. e = <<r.source, p[1], r.target, p[2]>>
  BY <1>2, <1>3
<1>5. CASE Sole(r)
  <2>1. p[1] \in ToSet(Cols[r.source]) /\ p[2] \in ToSet(Cols[r.target])
    BY <1>5, GroundedPairs DEF GroundedInd
  <2> QED BY <1>1, <1>4, <2>1 DEF EdgeOk
<1>6. CASE ~Sole(r)
  <2> DEFINE own == {<<r.source, x[1], r.target, x[2]>> : x \in ToSet(r.pairs)}
  <2>1. e \in own
    BY <1>4
  <2> HIDE DEF own
  <2>2. {e, Reverse4(e)} \subseteq BothWays(own)
    BY <2>1 DEF BothWays
  <2>3. {e, Reverse4(e)} \subseteq EdgeOf(r)
    BY <2>2 DEF EdgeOf, own
  <2> QED BY <1>1, <1>4, <1>6, <2>3 DEF EdgeOk
<1> QED BY <1>5, <1>6

LEMMA NameEdgesOk ==
  ASSUME WholeInd, ReadInd, NEW e \in NameEdges(tables)
  PROVE  EdgeOk(e)
<1>1. PICK x \in tables \X Column :
        /\ x[2] \in ToSet(columnsOf[x[1]]) /\ PointsTo(x[1], x[2], tables) # NoTable
        /\ e = <<x[1], x[2], PointsTo(x[1], x[2], tables), AssumedKey(PointsTo(x[1], x[2], tables), x[2])>>
  BY DEF NameEdges
<1>2. PICK u : u = PointsTo(x[1], x[2], tables)
  OBVIOUS
<1>3. u \in tables /\ u \in Table
  BY <1>1, <1>2, PointsToIn DEF ReadInd
<1>4. x[1] \in tables /\ x[2] \in ToSet(Cols[x[1]])
  BY <1>1 DEF WholeInd, AllRead
<1>5. AssumedKey(u, x[2]) = "id" \/ AssumedKey(u, x[2]) \in ToSet(Cols[u])
  BY <1>3, FirstColIn DEF AssumedKey
<1>6. e = <<x[1], x[2], u, AssumedKey(u, x[2])>>
  BY <1>1, <1>2
<1> QED BY <1>3, <1>4, <1>5, <1>6 DEF EdgeOk

\* build_graph joins kept tables at columns that they have, unless the column is
\* an id that it assumes or the edge comes from a foreign key with a name that
\* another table bears; it can be walked both ways, and leaves out no
\* relationship between kept tables.
THEOREM GraphGroundedHolds == MapSpec => []GraphGrounded
<1>1. MapInit => GraphInd /\ GroundedInd /\ ReadInd /\ WholeInd
  BY GraphInit, GroundedInit, ReadInit, WholeInit
<1>2. GraphInd /\ GroundedInd /\ ReadInd /\ WholeInd /\ [MapNext]_mapVars =>
        GraphInd' /\ GroundedInd' /\ ReadInd' /\ WholeInd'
  BY GraphNext, GroundedNext, ReadNext, WholeNext
<1>3. GraphInd /\ GroundedInd /\ ReadInd /\ WholeInd => GraphGrounded
  <2> SUFFICES ASSUME GraphInd, GroundedInd, ReadInd, WholeInd, graph # NotYet
               PROVE  GraphGrounded
    BY DEF GraphGrounded
  <2> DEFINE edges == KeyEdges(tables) \cup NameEdges(tables)
  <2>1. graph = edges \cup {Reverse4(e) : e \in edges}
    BY DEF GraphInd, BuildGraph, BothWays
  <2>2. ASSUME NEW e \in edges PROVE EdgeOk(e) /\ e = Reverse4(Reverse4(e))
    <3>1. e = <<e[1], e[2], e[3], e[4]>>
      BY DEF KeyEdges, NameEdges
    <3> QED BY <3>1, KeyEdgesOk, NameEdgesOk DEF Reverse4
  <2> HIDE DEF edges
  <2>3. ASSUME NEW g \in graph
        PROVE  /\ {g[1], g[3]} \subseteq tables
               /\ \/ g[2] = "id" \/ g[2] \in ToSet(Cols[g[1]])
                  \/ \E r \in rels : ~Sole(r) /\ g \in EdgeOf(r)
               /\ Reverse4(g) \in graph
    <3>1. CASE g \in edges
      BY <2>1, <2>2, <3>1 DEF EdgeOk
    <3>2. CASE g \notin edges
      <4>1. PICK e \in edges : g = Reverse4(e)
        BY <2>1, <3>2
      <4>2. g[1] = e[3] /\ g[2] = e[4] /\ g[3] = e[1] /\ Reverse4(g) = e
        BY <2>2, <4>1 DEF Reverse4
      <4>3. EdgeOk(e)
        BY <2>2
      <4>4. {g[1], g[3]} \subseteq tables /\ Reverse4(g) \in graph
        BY <2>1, <4>2, <4>3 DEF EdgeOk
      <4>5. CASE e[4] = "id" \/ e[4] \in ToSet(Cols[e[3]])
        BY <4>2, <4>4, <4>5
      <4>6. CASE \E r \in rels : ~Sole(r) /\ {e, Reverse4(e)} \subseteq EdgeOf(r)
        BY <4>1, <4>4, <4>6
      <4> QED BY <4>3, <4>5, <4>6 DEF EdgeOk
    <3> QED BY <3>1, <3>2
  <2>4. ASSUME NEW r \in rels, r.target \in tables
        PROVE  EdgeOf(r) \subseteq graph
    <3> DEFINE own == {<<r.source, p[1], r.target, p[2]>> : p \in ToSet(r.pairs)}
    <3>1. r.source \in tables
      BY DEF GroundedInd, Grounded
    <3>2. ASSUME NEW p \in ToSet(r.pairs) PROVE <<r.source, p[1], r.target, p[2]>> \in KeyEdges(tables)
      <4>1. PICK i \in DOMAIN r.pairs : p = r.pairs[i]
        BY DEF ToSet
      <4> QED BY <2>4, <3>1, <4>1 DEF KeyEdges
    <3>3. own \subseteq edges
      BY <3>2 DEF edges
    <3>4. EdgeOf(r) = own \cup {Reverse4(e) : e \in own}
      BY DEF EdgeOf, BothWays
    <3> HIDE DEF own
    <3> QED BY <2>1, <3>3, <3>4
  <2> QED BY <2>3, <2>4 DEF GraphGrounded
<1> QED BY <1>1, <1>2, <1>3, PTL DEF MapSpec
=============================================================================
