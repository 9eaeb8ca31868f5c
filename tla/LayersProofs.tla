----------------------------- MODULE LayersProofs -----------------------------
(***************************************************************************)
(* Theorems about the layers that a discovery run derives from the tables  *)
(* it found, and about the part of the map that a question is given.       *)
(*                                                                         *)
(* Each layer is, from its step on, what its service makes of the layers   *)
(* below it (MadeInd).  What the theorems say of a layer follows from what *)
(* they say of the layers it is made of, and from facts about the          *)
(* operators that stand for the services.                                  *)
(***************************************************************************)
EXTENDS KnowledgeMapProofs

-----------------------------------------------------------------------------
(* The layers are made of the layers below them *)

\* The steps at which a layer is not there yet.
BeforeMetrics == ReadingSteps \cup {"BusinessDomainDiscovery", "BusinessEntityDiscovery",
                                    "BusinessConceptDiscovery", "MetricDiscovery"}
BeforeDimensions == BeforeMetrics \cup {"DimensionDiscovery"}
BeforeDates == BeforeDimensions \cup {"DateSemanticDiscovery"}
BeforeTerms == BeforeDates \cup {"TerminologyDiscovery"}

\* A layer is empty until its step.
EmptyInd ==
  /\ LayersInd
  /\ step \in BeforeMetrics => metrics = {}
  /\ step \in BeforeDimensions => dimensions = {}
  /\ step \in BeforeDates => dates = {}
  /\ step \in BeforeTerms => terms = {}

DomainsMade ==
  domains = {} \/ \E answer \in BoundedSeq(LLMItem, MaxItems) : domains = DetectDomains(tables, answer)

\* A layer is what its service makes of the layers below it.  What is under the
\* terms stays as it is, because the layers above it are still empty when it
\* changes.
MadeInd ==
  /\ EmptyInd
  /\ columns \subseteq tables \X Column
  /\ DomainsMade
  /\ entities = {} \/ entities \in DetectEntities(tables, domains)
  /\ concepts = {} \/ concepts = DetectConcepts(entities, {})
  /\ metrics = {} \/ metrics = DetectMetrics(entities, concepts)
  /\ dimensions = {} \/ dimensions = DetectDimensions(tables)
  /\ dates = {} \/ dates = DetectDates(tables)
  /\ terms = {} \/ terms = BuildTerminology
  /\ step = "RelationshipGraphCreation" => terms = BuildTerminology

LEMMA EmptyNext ==
  ASSUME EmptyInd, [MapNext]_mapVars
  PROVE  EmptyInd'
<1>0. LayersInd' BY LayersNext DEF EmptyInd
<1> USE DEF EmptyInd, BeforeMetrics, BeforeDimensions, BeforeDates, BeforeTerms, ReadingSteps,
            discovered, metadata
<1> HIDE DEF LayersInd
<1>1. CASE IntroNext /\ UNCHANGED layerVars
  BY <1>0, <1>1, IntroStepSteps DEF layerVars
<1>2. CASE UNCHANGED <<step, layerVars>>
  BY <1>0, <1>2 DEF layerVars
<1>3. CASE TableSemanticAnalysis BY <1>0, <1>3 DEF TableSemanticAnalysis
<1>4. CASE AnalysisFails BY <1>0, <1>4 DEF AnalysisFails, Fail, layerVars
<1>5. CASE BusinessDomainDiscovery BY <1>0, <1>5 DEF BusinessDomainDiscovery
<1>6. CASE BusinessEntityDiscovery BY <1>0, <1>6 DEF BusinessEntityDiscovery
<1>7. CASE BusinessConceptDiscovery BY <1>0, <1>7 DEF BusinessConceptDiscovery
<1>8. CASE MetricDiscovery BY <1>0, <1>8 DEF MetricDiscovery
<1>9. CASE DimensionDiscovery \/ DateSemanticDiscovery \/ TerminologyDiscovery
  BY <1>0, <1>9 DEF DimensionDiscovery, DateSemanticDiscovery, TerminologyDiscovery
<1>10. CASE RelationshipGraphCreation \/ KnowledgeMapGeneration \/ ContextPersistence
  BY <1>0, <1>10 DEF RelationshipGraphCreation, KnowledgeMapGeneration, ContextPersistence, layerVars
<1>11. CASE LoadMap \/ RetrieveContext \/ UNCHANGED mapVars
  BY <1>2, <1>11 DEF LoadMap, RetrieveContext, mapVars, vars, introVars
<1> QED
  BY <1>1, <1>3, <1>4, <1>5, <1>6, <1>7, <1>8, <1>9, <1>10, <1>11 DEF MapNext, Next, LayerStep

\* detect_concepts does not use the metrics.
LEMMA ConceptsAlone ==
  ASSUME NEW es, NEW ms
  PROVE  DetectConcepts(es, ms) = DetectConcepts(es, {})
BY DEF DetectConcepts

\* What the services make depends on the layers below and the metadata alone.
LEMMA DomainsSame ==
  ASSUME UNCHANGED <<tables, domains>>, DomainsMade
  PROVE  DomainsMade'
BY DEF DomainsMade, DetectDomains, DomainTables

LEMMA DimensionsSame ==
  ASSUME UNCHANGED <<tables, foreign>>
  PROVE  DetectDimensions(tables)' = DetectDimensions(tables)
BY DEF DetectDimensions, AllDimensions, Accumulated, AddDimension, DimensionOf, JoinsOf

LEMMA TermsSame ==
  ASSUME UNCHANGED <<domains, entities, concepts, metrics, dimensions>>
  PROVE  BuildTerminology' = BuildTerminology
BY DEF BuildTerminology

\* A step that leaves the layers and what they are made of.
LEMMA MadeStays ==
  ASSUME MadeInd, EmptyInd', UNCHANGED <<tables, foreign, layerVars>>,
         step' = "RelationshipGraphCreation" => step = "RelationshipGraphCreation"
  PROVE  MadeInd'
<1>1. UNCHANGED <<domains, entities, concepts, metrics, dimensions>>
  BY DEF layerVars
<1>2. DomainsMade'
  BY <1>1, DomainsSame DEF MadeInd
<1>3. DetectDimensions(tables)' = DetectDimensions(tables)
  BY DimensionsSame
<1>4. BuildTerminology' = BuildTerminology
  BY <1>1, TermsSame
<1>5. (entities = {} \/ entities \in DetectEntities(tables, domains))'
  BY <1>1 DEF MadeInd
<1>6. (concepts = {} \/ concepts = DetectConcepts(entities, {}))'
  BY <1>1 DEF MadeInd
<1>7. (metrics = {} \/ metrics = DetectMetrics(entities, concepts))'
  BY <1>1 DEF MadeInd
<1>8. (dates = {} \/ dates = DetectDates(tables))' /\ (columns \subseteq tables \X Column)'
  BY DEF MadeInd, layerVars
<1> QED BY <1>1, <1>2, <1>3, <1>4, <1>5, <1>6, <1>7, <1>8 DEF MadeInd, layerVars

\* Without layers there is nothing to show of them.
LEMMA MadeEmpty ==
  ASSUME EmptyInd', step' # "RelationshipGraphCreation",
         columns' = {}, domains' = {}, entities' = {}, concepts' = {}, metrics' = {},
         dimensions' = {}, dates' = {}, terms' = {}
  PROVE  MadeInd'
BY DEF MadeInd, DomainsMade


LEMMA LayerStepMakes ==
  ASSUME MadeInd, ReadInd, EmptyInd', LayerStep
  PROVE  MadeInd'
<1> DEFINE Free(n) == /\ n <= 1 => domains = {}
                      /\ n <= 2 => entities = {}
                      /\ n <= 3 => concepts = {}
                      /\ n <= 4 => metrics = {}
                      /\ n <= 5 => dimensions = {}
                      /\ n <= 6 => dates = {}
                      /\ n <= 7 => terms = {}
<1>0. /\ step = "TableSemanticAnalysis" => Free(0)
      /\ step = "BusinessDomainDiscovery" => Free(1)
      /\ step = "BusinessEntityDiscovery" => Free(2)
      /\ step = "BusinessConceptDiscovery" => Free(3)
      /\ step = "MetricDiscovery" => Free(4) /\ concepts = DetectConcepts(entities, metrics)
      /\ step = "DimensionDiscovery" => Free(5)
      /\ step = "DateSemanticDiscovery" => Free(6)
      /\ step = "TerminologyDiscovery" => Free(7)
  BY DEF MadeInd, EmptyInd, LayersInd, ReadingSteps, BeforeMetrics, BeforeDimensions, BeforeDates, BeforeTerms
<1>1. CASE AnalysisFails
  <2>1. UNCHANGED <<tables, foreign, layerVars>> /\ step' = "failed"
    BY <1>1 DEF AnalysisFails, Fail, discovered, metadata
  <2> QED BY <2>1, MadeStays
<1>2. CASE TableSemanticAnalysis
  <2>1. /\ UNCHANGED <<tables, foreign, domains, entities, concepts, metrics, dimensions, dates, terms>>
        /\ step = "TableSemanticAnalysis" /\ step' = "BusinessDomainDiscovery"
    BY <1>2 DEF TableSemanticAnalysis, discovered, metadata
  <2>2. columns' \subseteq tables \X Column
    <3>1. PICK named \in SUBSET SemanticCols : columns' = {x \in tables \X named : x[2] \in ToSet(Cols[x[1]])}
      BY <1>2 DEF TableSemanticAnalysis
    <3>2. \A t \in tables : Cols[t] \in Seq(Column)
      BY ColsType DEF ReadInd
    <3>3. \A t \in tables : ToSet(Cols[t]) \subseteq Column
      BY <3>2, ToSetFinite
    <3> QED BY <3>1, <3>3
  <2> QED BY <1>0, <2>1, <2>2 DEF MadeInd, DomainsMade
<1>3. CASE BusinessDomainDiscovery
  <2>1. /\ UNCHANGED <<tables, foreign, columns, entities, concepts, metrics, dimensions, dates, terms>>
        /\ step = "BusinessDomainDiscovery" /\ step' = "BusinessEntityDiscovery"
    BY <1>3 DEF BusinessDomainDiscovery, discovered, metadata
  <2>2. DomainsMade'
    <3>1. PICK answer \in BoundedSeq(LLMItem, IF tables = {} THEN 0 ELSE MaxItems) :
            domains' = DetectDomains(tables, answer)
      BY <1>3 DEF BusinessDomainDiscovery
    <3>2. answer \in BoundedSeq(LLMItem, MaxItems)
      BY AnswerAssumption DEF BoundedSeq, SeqOf
    <3> QED BY <2>1, <3>1, <3>2 DEF DomainsMade, DetectDomains, DomainTables
  <2> QED BY <1>0, <2>1, <2>2 DEF MadeInd
<1>4. CASE BusinessEntityDiscovery
  <2>1. /\ UNCHANGED <<tables, foreign, columns, domains, concepts, metrics, dimensions, dates, terms>>
        /\ step = "BusinessEntityDiscovery" /\ step' = "BusinessConceptDiscovery"
        /\ entities' \in DetectEntities(tables, domains)
    BY <1>4 DEF BusinessEntityDiscovery, discovered, metadata
  <2>2. DomainsMade'
    BY <2>1, DomainsSame DEF MadeInd
  <2> QED BY <1>0, <2>1, <2>2 DEF MadeInd
<1>5. CASE BusinessConceptDiscovery
  <2>1. /\ UNCHANGED <<tables, foreign, columns, domains, entities, metrics, dimensions, dates, terms>>
        /\ step = "BusinessConceptDiscovery" /\ step' = "MetricDiscovery"
        /\ concepts' = DetectConcepts(entities, {})
    BY <1>5, ConceptsAlone DEF BusinessConceptDiscovery, discovered, metadata
  <2>2. DomainsMade'
    BY <2>1, DomainsSame DEF MadeInd
  <2> QED BY <1>0, <2>1, <2>2 DEF MadeInd
<1>6. CASE MetricDiscovery
  <2>1. /\ UNCHANGED <<tables, foreign, columns, domains, entities, dimensions, dates, terms>>
        /\ step = "MetricDiscovery" /\ step' = "DimensionDiscovery"
        /\ metrics' = DetectMetrics(entities, concepts)
    BY <1>6 DEF MetricDiscovery, discovered, metadata
  <2>2. DomainsMade'
    BY <2>1, DomainsSame DEF MadeInd
  <2>3. concepts' = concepts
    <3>1. SecondPass(metrics') = {} BY <1>0, <2>1, SecondPassEmpty
    <3> QED BY <1>6, <3>1 DEF MetricDiscovery
  <2> QED BY <1>0, <2>1, <2>2, <2>3 DEF MadeInd
<1>7. CASE DimensionDiscovery
  <2>1. /\ UNCHANGED <<tables, foreign, columns, domains, entities, concepts, metrics, dates, terms>>
        /\ step = "DimensionDiscovery" /\ step' = "DateSemanticDiscovery"
        /\ dimensions' = DetectDimensions(tables)
    BY <1>7 DEF DimensionDiscovery, discovered, metadata
  <2>2. DomainsMade'
    BY <2>1, DomainsSame DEF MadeInd
  <2>3. DetectDimensions(tables)' = DetectDimensions(tables)
    BY <2>1, DimensionsSame
  <2> QED BY <1>0, <2>1, <2>2, <2>3 DEF MadeInd
<1>8. CASE DateSemanticDiscovery
  <2>1. /\ UNCHANGED <<tables, foreign, columns, domains, entities, concepts, metrics, dimensions, terms>>
        /\ step = "DateSemanticDiscovery" /\ step' = "TerminologyDiscovery"
        /\ dates' = DetectDates(tables)
    BY <1>8 DEF DateSemanticDiscovery, discovered, metadata
  <2>2. DomainsMade'
    BY <2>1, DomainsSame DEF MadeInd
  <2>3. DetectDimensions(tables)' = DetectDimensions(tables)
    BY <2>1, DimensionsSame
  <2> QED BY <1>0, <2>1, <2>2, <2>3 DEF MadeInd
<1>9. CASE TerminologyDiscovery
  <2>1. /\ UNCHANGED <<tables, foreign, columns, domains, entities, concepts, metrics, dimensions, dates>>
        /\ step = "TerminologyDiscovery" /\ step' = "RelationshipGraphCreation"
        /\ terms' = BuildTerminology
    BY <1>9 DEF TerminologyDiscovery, discovered, metadata
  <2>2. DomainsMade'
    BY <2>1, DomainsSame DEF MadeInd
  <2>3. DetectDimensions(tables)' = DetectDimensions(tables)
    BY <2>1, DimensionsSame
  <2>4. BuildTerminology' = BuildTerminology
    BY <2>1, TermsSame
  <2> QED BY <2>1, <2>2, <2>3, <2>4 DEF MadeInd
<1> QED BY <1>1, <1>2, <1>3, <1>4, <1>5, <1>6, <1>7, <1>8, <1>9 DEF LayerStep

LEMMA MadeNext ==
  ASSUME MadeInd, ReadInd, [MapNext]_mapVars
  PROVE  MadeInd'
<1>0. EmptyInd'
  BY EmptyNext DEF MadeInd
<1>1. CASE IntroNext /\ UNCHANGED layerVars
  <2>1. step \in ReadingSteps /\ step' \in ReadingSteps \cup {"failed"}
    BY <1>1, IntroStepSteps
  <2>2. /\ columns = {} /\ domains = {} /\ entities = {} /\ concepts = {} /\ metrics = {}
        /\ dimensions = {} /\ dates = {} /\ terms = {}
    BY <2>1 DEF MadeInd, EmptyInd, LayersInd, BeforeMetrics, BeforeDimensions, BeforeDates, BeforeTerms
  <2> QED BY <1>0, <1>1, <2>1, <2>2, MadeEmpty DEF layerVars, ReadingSteps
<1>2. CASE LayerStep
  BY <1>0, <1>2, LayerStepMakes
<1>3. CASE RelationshipGraphCreation \/ KnowledgeMapGeneration \/ ContextPersistence
  <2>1. UNCHANGED <<tables, foreign, layerVars>> /\ step' # "RelationshipGraphCreation"
    BY <1>3 DEF RelationshipGraphCreation, KnowledgeMapGeneration, ContextPersistence, discovered, metadata
  <2> QED BY <1>0, <2>1, MadeStays
<1>4. CASE LoadMap \/ RetrieveContext \/ UNCHANGED mapVars
  <2>1. UNCHANGED <<step, tables, foreign, layerVars>>
    BY <1>4 DEF LoadMap, RetrieveContext, mapVars, vars, introVars, discovered, metadata
  <2> QED BY <1>0, <2>1, MadeStays
<1> QED BY <1>1, <1>2, <1>3, <1>4 DEF MapNext, Next

LEMMA MadeInit == MapInit => MadeInd
BY DEF MapInit, Init, IntroInit, MadeInd, EmptyInd, LayersInd, DomainsMade

-----------------------------------------------------------------------------
(* The orders of tables, domains and entities *)

LEMMA TablesFinite ==
  ASSUME NEW S \in SUBSET Table
  PROVE  IsFiniteSet(S) /\ Cardinality(S) \in Nat
<1>1. IsFiniteSet(S)
  BY CatalogueAssumption, FS_Subset
<1> QED BY <1>1, FS_CardinalityType

\* The main table first, then the one with more key columns.
LEMMA TableOrder ==
  ASSUME NEW S \in SUBSET Table, NEW R, \A x, y \in S : <<x, y>> \in R <=> TableBefore(x, y)
  PROVE  StrictOrder(S, R)
<1> DEFINE main == [x \in S |-> IF IsMain[x] THEN 1 ELSE 0]
           size == [x \in S |-> Cardinality(Pk[x])]
           P == {p \in S \X S : Earlier(p[1], p[2])}
           Q == {p \in S \X S : size[p[1]] > size[p[2]] \/ (size[p[1]] = size[p[2]] /\ p \in P)}
<1>1. StrictOrder(S, P)
  <2>1. \A x, y \in S : <<x, y>> \in P <=> Earlier(x, y)
    OBVIOUS
  <2> HIDE DEF P
  <2> QED BY <2>1, EarlierOrder
<1>2. \A x, y \in S : <<x, y>> \in P <=> Earlier(x, y)
  OBVIOUS
<1>3. size \in [S -> Nat]
  <2>1. ASSUME NEW x \in S PROVE Cardinality(Pk[x]) \in Nat
    <3>1. Cols[x] \in Seq(Column) /\ Pk[x] \subseteq ToSet(Cols[x])
      BY CatalogueAssumption, ColsType
    <3>2. IsFiniteSet(Pk[x])
      BY <3>1, ToSetFinite, FS_Subset
    <3> QED BY <3>2, FS_CardinalityType
  <2> QED BY <2>1
<1>4. main \in [S -> Nat]
  OBVIOUS
<1>5. \A x, y \in S : <<x, y>> \in Q <=> size[x] > size[y] \/ (size[x] = size[y] /\ <<x, y>> \in P)
  <2> HIDE DEF P, size
  <2> QED OBVIOUS
<1>6. StrictOrder(S, Q)
  <2> HIDE DEF P, Q, size
  <2> QED BY <1>1, <1>3, <1>5, Lexicographic
<1>7. ASSUME NEW x \in S, NEW y \in S
      PROVE  <<x, y>> \in R <=> main[x] > main[y] \/ (main[x] = main[y] /\ <<x, y>> \in Q)
  <2>0. IsMain[x] \in BOOLEAN /\ IsMain[y] \in BOOLEAN
    BY MainAssumption
  <2>1. main[x] = (IF IsMain[x] THEN 1 ELSE 0) /\ main[y] = (IF IsMain[y] THEN 1 ELSE 0)
    OBVIOUS
  <2>2. <<x, y>> \in Q <=> size[x] > size[y] \/ (size[x] = size[y] /\ Earlier(x, y))
    <3> HIDE DEF P, Q, size
    <3> QED BY <1>2, <1>5
  <2>3. size[x] = Cardinality(Pk[x]) /\ size[y] = Cardinality(Pk[y])
    OBVIOUS
  <2>4. size[x] \in Nat /\ size[y] \in Nat
    BY <1>3
  <2> HIDE DEF main, Q, size
  <2>5. CASE IsMain[x] = IsMain[y]
    <3>1. TableBefore(x, y) <=> size[x] > size[y] \/ (size[x] = size[y] /\ Earlier(x, y))
      BY <2>3, <2>4, <2>5 DEF TableBefore
    <3>2. main[x] = main[y] /\ main[x] \in Nat
      BY <2>1, <2>5
    <3> QED BY <2>2, <3>1, <3>2
  <2>6. CASE IsMain[x] # IsMain[y]
    <3>1. TableBefore(x, y) <=> IsMain[x]
      BY <2>6 DEF TableBefore
    <3>2. CASE IsMain[x]
      <4>1. ~IsMain[y] BY <2>0, <2>6, <3>2
      <4> QED BY <2>1, <3>1, <3>2, <4>1
    <3>3. CASE ~IsMain[x]
      <4>1. IsMain[y] BY <2>0, <2>6, <3>3
      <4> QED BY <2>1, <3>1, <3>3, <4>1
    <3> QED BY <3>2, <3>3
  <2> QED BY <2>5, <2>6
<1> HIDE DEF main, Q
<1> QED BY <1>4, <1>6, <1>7, Lexicographic

LEMMA FirstMain ==
  ASSUME NEW S \in SUBSET Table, S # {}
  PROVE  FirstOf(S, TableBefore) \in S
<1> DEFINE R == {p \in S \X S : TableBefore(p[1], p[2])}
<1>1. \A x, y \in S : <<x, y>> \in R <=> TableBefore(x, y)
  OBVIOUS
<1> HIDE DEF R
<1>2. IsFiniteSet(S) /\ StrictOrder(S, R)
  BY <1>1, TablesFinite, TableOrder
<1>3. PICK x \in S : \A y \in S \ {x} : <<x, y>> \in R
  BY <1>2, FirstExists
<1>4. \E z \in S : \A y \in S \ {z} : TableBefore(z, y)
  BY <1>1, <1>3
<1> QED BY <1>4 DEF FirstOf

\* Sets of tables with codes of their own.
Sized(S) ==
  /\ \A x \in S : x.tables \subseteq Table /\ x.code \in DOMAIN NameRank
  /\ \A x, y \in S : x.code = y.code => x = y

LEMMA SizedFinite ==
  ASSUME NEW S, Sized(S), NEW K, IsFiniteSet(K), \A x \in S : x.code \in K
  PROVE  IsFiniteSet(S)
BY FiniteByCode DEF Sized

\* Domains and entities with more tables come first.
LEMMA SizeOrder ==
  ASSUME NEW S, Sized(S), NEW R, \A x, y \in S : <<x, y>> \in R <=> EntityBefore(x, y)
  PROVE  StrictOrder(S, R)
<1> DEFINE size == [x \in S |-> Cardinality(x.tables)]
           rank == [x \in S |-> NameRank[x.code]]
           Q == {p \in S \X S : rank[p[1]] < rank[p[2]]}
<1>1. size \in [S -> Nat]
  BY TablesFinite DEF Sized
<1>2. rank \in [S -> Nat] /\ \A x, y \in S : rank[x] = rank[y] => x = y
  BY NamesAssumption DEF Sized
<1>3. \A x, y \in S : <<x, y>> \in Q <=> rank[x] < rank[y]
  <2> HIDE DEF rank
  <2> QED OBVIOUS
<1>4. StrictOrder(S, Q)
  <2> HIDE DEF Q, rank
  <2> QED BY <1>2, <1>3, ByNumber
<1>5. \A x, y \in S : <<x, y>> \in R <=> size[x] > size[y] \/ (size[x] = size[y] /\ <<x, y>> \in Q)
  BY DEF EntityBefore
<1> HIDE DEF size, Q
<1> QED BY <1>1, <1>4, <1>5, Lexicographic

LEMMA SizeEnds ==
  ASSUME NEW S, Sized(S), IsFiniteSet(S), S # {}
  PROVE  FirstOf(S, EntityBefore) \in S /\ LastOf(S, EntityBefore) \in S /\ LastOf(S, DomainBefore) \in S
<1> DEFINE R == {p \in S \X S : EntityBefore(p[1], p[2])}
<1>1. \A x, y \in S : <<x, y>> \in R <=> EntityBefore(x, y)
  OBVIOUS
<1> HIDE DEF R
<1>2. PICK x \in S : \A y \in S \ {x} : <<x, y>> \in R
  BY <1>1, SizeOrder, FirstExists
<1>3. \E z \in S : \A y \in S \ {z} : EntityBefore(z, y)
  BY <1>1, <1>2
<1>4. PICK w \in S : \A y \in S \ {w} : <<y, w>> \in R
  BY <1>1, SizeOrder, LastExists
<1>5. \E z \in S : \A y \in S \ {z} : EntityBefore(y, z)
  BY <1>1, <1>4
<1>6. \A y, z : DomainBefore(y, z) <=> EntityBefore(y, z)
  BY DEF DomainBefore, EntityBefore
<1>7. \E z \in S : \A y \in S \ {z} : DomainBefore(y, z)
  BY <1>5, <1>6
<1> QED BY <1>3, <1>5, <1>7 DEF FirstOf, LastOf

\* The tables of the first entity come first.
LEMMA SourceOrder ==
  ASSUME NEW es, Sized(es), IsFiniteSet(es), NEW S \in SUBSET (es \X Table), NEW R,
         \A x, y \in S : <<x, y>> \in R <=> SourceBefore(x, y)
  PROVE  IsFiniteSet(S) /\ StrictOrder(S, R)
<1> DEFINE E == {p \in es \X es : EntityBefore(p[1], p[2])}
           T == {p \in Table \X Table : TableBefore(p[1], p[2])}
<1>1. StrictOrder(es, E) /\ \A x, y \in es : <<x, y>> \in E <=> EntityBefore(x, y)
  <2>1. \A x, y \in es : <<x, y>> \in E <=> EntityBefore(x, y)
    OBVIOUS
  <2> HIDE DEF E
  <2> QED BY <2>1, SizeOrder
<1>2. StrictOrder(Table, T) /\ \A x, y \in Table : <<x, y>> \in T <=> TableBefore(x, y)
  <2>1. \A x, y \in Table : <<x, y>> \in T <=> TableBefore(x, y)
    OBVIOUS
  <2> HIDE DEF T
  <2> QED BY <2>1, TableOrder
<1> HIDE DEF E, T
<1>3. \A x \in S : x = <<x[1], x[2]>> /\ x[1] \in es /\ x[2] \in Table
  OBVIOUS
<1>4. \A x, y \in S : <<x, y>> \in R <=>
        IF x[1] = y[1] THEN <<x[2], y[2]>> \in T ELSE <<x[1], y[1]>> \in E
  BY <1>1, <1>2, <1>3 DEF SourceBefore
<1>5. \A x \in S : <<x, x>> \notin R
  BY <1>2, <1>3, <1>4 DEF StrictOrder
<1>6. ASSUME NEW x \in S, NEW y \in S, x # y PROVE <<x, y>> \in R \/ <<y, x>> \in R
  <2>1. CASE x[1] = y[1]
    <3>1. x[2] # y[2] BY <1>3, <1>6, <2>1
    <3>2. <<x[2], y[2]>> \in T \/ <<y[2], x[2]>> \in T
      BY <1>2, <1>3, <3>1 DEF StrictOrder
    <3> QED BY <1>4, <2>1, <3>2
  <2>2. CASE x[1] # y[1]
    <3>1. <<x[1], y[1]>> \in E \/ <<y[1], x[1]>> \in E
      BY <1>1, <1>3, <2>2 DEF StrictOrder
    <3> QED BY <1>4, <2>2, <3>1
  <2> QED BY <2>1, <2>2
<1>7. ASSUME NEW x \in S, NEW y \in S, NEW z \in S, <<x, y>> \in R, <<y, z>> \in R
      PROVE  <<x, z>> \in R
  <2>1. CASE x[1] = y[1] /\ y[1] = z[1]
    <3>1. <<x[2], y[2]>> \in T /\ <<y[2], z[2]>> \in T
      BY <1>4, <1>7, <2>1
    <3>2. <<x[2], z[2]>> \in T
      BY <1>2, <1>3, <3>1 DEF StrictOrder
    <3> QED BY <1>4, <2>1, <3>2
  <2>2. CASE x[1] # y[1] /\ y[1] = z[1]
    BY <1>3, <1>4, <1>7, <2>2
  <2>3. CASE x[1] = y[1] /\ y[1] # z[1]
    BY <1>3, <1>4, <1>7, <2>3
  <2>4. CASE x[1] # y[1] /\ y[1] # z[1]
    <3>1. <<x[1], y[1]>> \in E /\ <<y[1], z[1]>> \in E
      BY <1>4, <1>7, <2>4
    <3>2. <<x[1], z[1]>> \in E /\ x[1] # z[1]
      BY <1>1, <1>3, <3>1 DEF StrictOrder
    <3> QED BY <1>4, <3>2
  <2> QED BY <2>1, <2>2, <2>3, <2>4
<1>8. IsFiniteSet(S)
  BY FS_Product, FS_Subset, CatalogueAssumption
<1> QED BY <1>5, <1>6, <1>7, <1>8 DEF StrictOrder

-----------------------------------------------------------------------------
(* Domains and entities *)

LEMMA TableColumns ==
  ASSUME NEW t \in Table
  PROVE  ToSet(Cols[t]) \subseteq Column
<1>1. Cols[t] \in Seq(Column)
  BY ColsType
<1> QED BY <1>1, ToSetFinite

\* A name that stands for no table that was found is dropped.
LEMMA ResolvedIn ==
  ASSUME NEW ts \in SUBSET Table, NEW n
  PROVE  Resolved(n, ts) \in ts \cup {NoTable}
<1>1. CASE Exact[n] \in ts
  BY <1>1 DEF Resolved
<1>2. CASE Exact[n] \notin ts /\ Within[n] \cap ts = {}
  BY <1>2 DEF Resolved
<1>3. CASE Exact[n] \notin ts /\ Within[n] \cap ts # {}
  <2>1. FirstOf(Within[n] \cap ts, Earlier) \in Within[n] \cap ts
    BY <1>3, FirstTable
  <2> QED BY <1>3, <2>1 DEF Resolved
<1> QED BY <1>1, <1>2, <1>3

LEMMA DomainTablesIn ==
  ASSUME NEW ts \in SUBSET Table, NEW c, NEW answer
  PROVE  DomainTables(c, ts, answer) \subseteq ts
<1>1. \A names : ResolvedTables(names, ts) \subseteq ts
  BY ResolvedIn DEF ResolvedTables
<1> QED BY <1>1 DEF DomainTables

\* Whatever the LLM answers, domains have codes of their own and tables that
\* were found.
LEMMA DomainsOk ==
  ASSUME NEW ts \in SUBSET Table, NEW answer \in BoundedSeq(LLMItem, MaxItems), NEW ds,
         ds = DetectDomains(ts, answer)
  PROVE  Sized(ds) /\ IsFiniteSet(ds) /\ \A d \in ds : d.tables \subseteq ts
<1> DEFINE Hits == {r \in RuleCode : RuleHits[r] \cap ts # {}}
           code == [i \in DOMAIN answer |-> answer[i].code]
           Named == {code[i] : i \in DOMAIN answer}
<1>1. PICK m \in Nat : answer \in [1..m -> LLMItem]
  BY AnswerAssumption DEF BoundedSeq, SeqOf
<1>2. ds = {[code |-> c, tables |-> DomainTables(c, ts, answer)] : c \in Named \cup Hits}
  BY DEF DetectDomains
<1>3. IsFiniteSet(DOMAIN answer)
  BY <1>1, FS_Interval
<1>4. IsFiniteSet(Named)
  <2> HIDE DEF code
  <2> QED BY <1>3, FiniteImage
<1>5. IsFiniteSet(Named \cup Hits)
  <2>1. IsFiniteSet(Hits) BY PresetsAssumption, FS_Subset
  <2> QED BY <1>4, <2>1, FS_Union
<1>6. Named \cup Hits \subseteq DOMAIN NameRank
  <2>1. \A i \in DOMAIN answer : answer[i].code \in LLMCode
    BY <1>1 DEF LLMItem
  <2> QED BY <2>1, AnswerAssumption, NamesAssumption
<1> HIDE DEF Named, Hits
<1>7. ASSUME NEW d \in ds
      PROVE  d.code \in Named \cup Hits /\ d.tables = DomainTables(d.code, ts, answer) /\ d.tables \subseteq ts
             /\ d = [code |-> d.code, tables |-> DomainTables(d.code, ts, answer)]
  BY <1>2, DomainTablesIn
<1>8. Sized(ds)
  <2>1. \A d \in ds : d.tables \subseteq Table /\ d.code \in DOMAIN NameRank
    BY <1>6, <1>7
  <2>2. ASSUME NEW d \in ds, NEW e \in ds, d.code = e.code PROVE d = e
    BY <1>7, <2>2
  <2> QED BY <2>1, <2>2 DEF Sized
<1> QED BY <1>5, <1>7, <1>8, SizedFinite

\* The domain of a table lists it.
LEMMA DomainOfLists ==
  ASSUME NEW ds, Sized(ds), IsFiniteSet(ds), NEW t, DomainOf(t, ds) # NoCode
  PROVE  \E d \in ds : d.code = DomainOf(t, ds) /\ t \in d.tables
<1> DEFINE claims == {d \in ds : t \in d.tables}
<1>1. claims # {} /\ DomainOf(t, ds) = LastOf(claims, DomainBefore).code
  BY DEF DomainOf
<1>2. claims \in SUBSET ds /\ IsFiniteSet(claims) /\ Sized(claims)
  BY FS_Subset DEF Sized
<1>3. LastOf(claims, DomainBefore) \in claims
  <2> HIDE DEF claims
  <2> QED BY <1>1, <1>2, SizeEnds
<1> QED BY <1>1, <1>3

LEMMA StatusColumn ==
  ASSUME NEW ms \in SUBSET Table, ms # {}
  PROVE  EntityStatus(ms) \in Column \cup {NoColumn}
<1> DEFINE primary == FirstOf(ms, TableBefore)
           others == {t \in ms : FirstCol(t, StatusCols.entity) # NoColumn}
<1>1. primary \in ms
  BY FirstMain
<1>2. \A t \in Table : FirstCol(t, StatusCols.entity) \in Column \cup {NoColumn}
  BY FirstColIn, TableColumns
<1>3. CASE primary \in others \/ others = {}
  <2>1. EntityStatus(ms) = FirstCol(primary, StatusCols.entity)
    BY <1>3 DEF EntityStatus
  <2> HIDE DEF primary
  <2> QED BY <1>1, <1>2, <2>1
<1>4. CASE ~(primary \in others \/ others = {})
  <2>1. EntityStatus(ms) = FirstCol(FirstOf(others, Earlier), StatusCols.entity)
    BY <1>4 DEF EntityStatus
  <2>2. others \in SUBSET Table /\ others # {}
    BY <1>4
  <2>3. FirstOf(others, Earlier) \in others
    <3> HIDE DEF others
    <3> QED BY <2>2, FirstTable
  <2>4. FirstOf(others, Earlier) \in Table
    <3> HIDE DEF others
    <3> QED BY <2>2, <2>3
  <2> QED BY <1>2, <2>1, <2>4
<1> QED BY <1>3, <1>4

\* What the theorems say of an entity.
EntityOk(e, ts, ds) ==
  /\ e.tables \subseteq ts /\ e.tables # {}
  /\ e.status \in Column \cup {NoColumn}
  /\ e.domain # NoCode => \E d \in ds : d.code = e.domain /\ d.tables \cap e.tables # {}

LEMMA EntitiesOk ==
  ASSUME NEW ts \in SUBSET Table, NEW ds, Sized(ds), IsFiniteSet(ds), NEW es,
         es \in DetectEntities(ts, ds)
  PROVE  Sized(es) /\ IsFiniteSet(es) /\ \A e \in es : EntityOk(e, ts, ds)
<1>1. PICK choice \in [EntityCodes(ts) -> {d.code : d \in ds} \cup {NoCode}] :
        /\ \A c \in EntityCodes(ts) : choice[c] \in DomainChoices(Members(c, ts), ds)
        /\ es = {[code |-> c, domain |-> choice[c], tables |-> Members(c, ts),
                  status |-> EntityStatus(Members(c, ts))] : c \in EntityCodes(ts)}
  BY DEF DetectEntities
<1>2. ASSUME NEW e \in es
      PROVE  /\ e.code \in EntityCodes(ts) /\ e.domain = choice[e.code] /\ e.tables = Members(e.code, ts)
             /\ e.status = EntityStatus(Members(e.code, ts))
             /\ e = [code |-> e.code, domain |-> choice[e.code], tables |-> Members(e.code, ts),
                     status |-> EntityStatus(Members(e.code, ts))]
  BY <1>1
<1>3. ASSUME NEW c \in EntityCodes(ts)
      PROVE  c \in DOMAIN NameRank /\ Members(c, ts) \subseteq ts /\ Members(c, ts) # {}
  BY NamesAssumption DEF EntityCodes, Members
<1>4. ASSUME NEW e \in es PROVE EntityOk(e, ts, ds)
  <2>1. PICK c \in EntityCodes(ts) : c = e.code
    BY <1>2
  <2>2. Members(c, ts) \in SUBSET ts /\ Members(c, ts) # {}
    BY <1>3
  <2>3. e.status \in Column \cup {NoColumn}
    BY <1>2, <2>1, <2>2, StatusColumn
  <2>4. ASSUME e.domain # NoCode
        PROVE  \E d \in ds : d.code = e.domain /\ d.tables \cap e.tables # {}
    <3>1. e.domain \in DomainChoices(Members(c, ts), ds)
      BY <1>1, <1>2, <2>1
    <3>2. PICK t \in Members(c, ts) : e.domain = DomainOf(t, ds)
      BY <2>4, <3>1 DEF DomainChoices, DomainCodes
    <3>3. \E d \in ds : d.code = e.domain /\ t \in d.tables
      BY <2>4, <3>2, DomainOfLists
    <3> QED BY <1>2, <2>1, <3>2, <3>3
  <2> QED BY <1>2, <2>1, <2>2, <2>3, <2>4 DEF EntityOk
<1>5. Sized(es)
  <2>1. \A e \in es : e.tables \subseteq Table /\ e.code \in DOMAIN NameRank
    BY <1>2, <1>3
  <2>2. ASSUME NEW d \in es, NEW e \in es, d.code = e.code PROVE d = e
    BY <1>2, <2>2
  <2> QED BY <2>1, <2>2 DEF Sized
<1>6. IsFiniteSet(EntityCodes(ts))
  <2> DEFINE f == [t \in ts |-> EntityOf[t]]
             K == {f[t] : t \in ts}
  <2>1. IsFiniteSet(K)
    <3> HIDE DEF f
    <3> QED BY TablesFinite, FiniteImage
  <2>2. EntityCodes(ts) \in SUBSET K
    BY DEF EntityCodes
  <2> HIDE DEF K
  <2> QED BY <2>1, <2>2, FS_Subset
<1> QED BY <1>2, <1>4, <1>5, <1>6, SizedFinite

-----------------------------------------------------------------------------
(* Concepts and metrics *)

\* A source that was found first is one of the sources.
LEMMA FirstSource ==
  ASSUME NEW es, Sized(es), IsFiniteSet(es), NEW S \in SUBSET Sources(es), S # {}
  PROVE  FirstOf(S, SourceBefore) \in S
<1> DEFINE R == {p \in S \X S : SourceBefore(p[1], p[2])}
<1>1. \A x, y \in S : <<x, y>> \in R <=> SourceBefore(x, y)
  OBVIOUS
<1> HIDE DEF R
<1>2. S \in SUBSET (es \X Table)
  BY DEF Sources
<1>3. IsFiniteSet(S) /\ StrictOrder(S, R)
  BY <1>1, <1>2, SourceOrder
<1>4. PICK x \in S : \A y \in S \ {x} : <<x, y>> \in R
  BY <1>3, FirstExists
<1>5. \E z \in S : \A y \in S \ {z} : SourceBefore(z, y)
  BY <1>1, <1>4
<1> QED BY <1>5 DEF FirstOf

\* The first source with a column has it.
FoundIn(es, c) == c = NoColumn \/ \E e \in es : \E t \in e.tables : t \in Table /\ c \in ToSet(Cols[t])

LEMMA WantedIn ==
  ASSUME NEW t \in Table, NEW wants
  PROVE  Wanted(wants, t) = NoColumn \/ Wanted(wants, t) \in ToSet(Cols[t])
BY FirstColIn DEF Wanted

LEMMA SourceTables ==
  ASSUME NEW es, NEW s \in Sources(es)
  PROVE  s[1] \in es /\ s[2] \in s[1].tables /\ s[2] \in Table
BY DEF Sources

\* The columns of a metric, each looked for on its own.
SourceOf(p, es) == FirstFound(es, LAMBDA t : Wanted(SourceWants(p, t), t))
DateOf(es) == FirstFound(es, LAMBDA t : Wanted(DateWants, t))
StatusOf(es) == FirstFound(es, LAMBDA t : FirstCol(t, StatusCols.metric))

LEMMA SourceFound ==
  ASSUME NEW es, Sized(es), IsFiniteSet(es), NEW p
  PROVE  /\ FoundIn(es, SourceOf(p, es))
         /\ FoundIn(es, DateOf(es))
         /\ FoundIn(es, StatusOf(es))
<1>1. FoundIn(es, SourceOf(p, es))
  <2> DEFINE having == {s \in Sources(es) : Wanted(SourceWants(p, s[2]), s[2]) # NoColumn}
             s == FirstOf(having, SourceBefore)
  <2>1. CASE having = {} BY <2>1 DEF FirstFound, SourceOf, FoundIn
  <2>2. CASE having # {}
    <3>1. s \in having
      <4>1. having \in SUBSET Sources(es) OBVIOUS
      <4> HIDE DEF having
      <4> QED BY <2>2, <4>1, FirstSource
    <3>2. SourceOf(p, es) = Wanted(SourceWants(p, s[2]), s[2])
      BY <2>2 DEF FirstFound, SourceOf
    <3>3. s \in Sources(es)
      BY <3>1
    <3> HIDE DEF having, s
    <3>4. s[1] \in es /\ s[2] \in s[1].tables /\ s[2] \in Table
      BY <3>3, SourceTables
    <3>5. Wanted(SourceWants(p, s[2]), s[2]) = NoColumn \/ Wanted(SourceWants(p, s[2]), s[2]) \in ToSet(Cols[s[2]])
      BY <3>4, WantedIn
    <3> QED BY <3>2, <3>4, <3>5 DEF FoundIn
  <2> QED BY <2>1, <2>2
<1>2. FoundIn(es, DateOf(es))
  <2> DEFINE having == {s \in Sources(es) : Wanted(DateWants, s[2]) # NoColumn}
             s == FirstOf(having, SourceBefore)
  <2>1. CASE having = {} BY <2>1 DEF FirstFound, DateOf, FoundIn
  <2>2. CASE having # {}
    <3>1. s \in having
      <4>1. having \in SUBSET Sources(es) OBVIOUS
      <4> HIDE DEF having
      <4> QED BY <2>2, <4>1, FirstSource
    <3>2. DateOf(es) = Wanted(DateWants, s[2])
      BY <2>2 DEF FirstFound, DateOf
    <3>3. s \in Sources(es)
      BY <3>1
    <3> HIDE DEF having, s
    <3>4. s[1] \in es /\ s[2] \in s[1].tables /\ s[2] \in Table
      BY <3>3, SourceTables
    <3>5. Wanted(DateWants, s[2]) = NoColumn \/ Wanted(DateWants, s[2]) \in ToSet(Cols[s[2]])
      BY <3>4, WantedIn
    <3> QED BY <3>2, <3>4, <3>5 DEF FoundIn
  <2> QED BY <2>1, <2>2
<1>3. FoundIn(es, StatusOf(es))
  <2> DEFINE having == {s \in Sources(es) : FirstCol(s[2], StatusCols.metric) # NoColumn}
             s == FirstOf(having, SourceBefore)
  <2>1. CASE having = {} BY <2>1 DEF FirstFound, StatusOf, FoundIn
  <2>2. CASE having # {}
    <3>1. s \in having
      <4>1. having \in SUBSET Sources(es) OBVIOUS
      <4> HIDE DEF having
      <4> QED BY <2>2, <4>1, FirstSource
    <3>2. StatusOf(es) = FirstCol(s[2], StatusCols.metric)
      BY <2>2 DEF FirstFound, StatusOf
    <3>3. s \in Sources(es)
      BY <3>1
    <3> HIDE DEF having, s
    <3>4. s[1] \in es /\ s[2] \in s[1].tables /\ s[2] \in Table
      BY <3>3, SourceTables
    <3>5. FirstCol(s[2], StatusCols.metric) = NoColumn \/ FirstCol(s[2], StatusCols.metric) \in ToSet(Cols[s[2]])
      BY <3>4, FirstColIn
    <3> QED BY <3>2, <3>4, <3>5 DEF FoundIn
  <2> QED BY <2>1, <2>2
<1> QED BY <1>1, <1>2, <1>3

\* What the theorems say of a concept and of a metric: the entity and the domain
\* that it names are those of entities below it.
NamesEntity(x, es) ==
  /\ \E e \in es : x.entity = e.code
  /\ x.domain = NoCode \/ \E e \in es : x.domain = e.domain

LEMMA ConceptsOk ==
  ASSUME NEW ts \in SUBSET Table, NEW es, Sized(es), IsFiniteSet(es), \A e \in es : e.tables \subseteq ts,
         NEW ms, NEW cs, cs = DetectConcepts(es, ms)
  PROVE  Sized(cs) /\ IsFiniteSet(cs) /\ \A c \in cs : c.tables \subseteq ts /\ NamesEntity(c, es)
<1> DEFINE hit(p) == {e \in es : Hit(p.hits, e)}
           code == [p \in Concepts |-> p.code]
<1>1. ASSUME NEW c \in cs
      PROVE  \E p \in Concepts : c = ConceptOf(p, hit(p)) /\ hit(p) # {}
  BY DEF DetectConcepts
<1>2. ASSUME NEW p \in Concepts, hit(p) # {}
      PROVE  /\ ConceptOf(p, hit(p)).code = p.code /\ ConceptOf(p, hit(p)).tables \subseteq ts
             /\ NamesEntity(ConceptOf(p, hit(p)), es)
  <2> DEFINE first == FirstOf(hit(p), EntityBefore)
  <2>1. hit(p) \in SUBSET es /\ IsFiniteSet(hit(p)) /\ Sized(hit(p))
    BY FS_Subset DEF Sized
  <2>2. first \in hit(p)
    <3> HIDE DEF hit
    <3> QED BY <1>2, <2>1, SizeEnds
  <2>3. /\ ConceptOf(p, hit(p)).code = p.code
        /\ ConceptOf(p, hit(p)).entity = first.code /\ ConceptOf(p, hit(p)).domain = first.domain
        /\ ConceptOf(p, hit(p)).tables = UNION {e.tables : e \in hit(p)}
    BY DEF ConceptOf
  <2>4. UNION {e.tables : e \in hit(p)} \subseteq ts
    OBVIOUS
  <2> HIDE DEF first, hit
  <2> QED BY <2>1, <2>2, <2>3, <2>4 DEF NamesEntity
<1> HIDE DEF hit
<1>3. \A c \in cs : c.code \in {code[p] : p \in Concepts} /\ c.tables \subseteq ts /\ NamesEntity(c, es)
  BY <1>1, <1>2
<1>4. ASSUME NEW c \in cs, NEW d \in cs, c.code = d.code PROVE c = d
  BY <1>1, <1>2, <1>4, PresetsAssumption
<1>5. IsFiniteSet({code[p] : p \in Concepts})
  <2> HIDE DEF code
  <2> QED BY PresetsAssumption, FiniteImage
<1>6. {code[p] : p \in Concepts} \subseteq DOMAIN NameRank
  BY NamesAssumption
<1> HIDE DEF code
<1>7. Sized(cs)
  BY <1>3, <1>4, <1>6 DEF Sized
<1> QED BY <1>3, <1>5, <1>7, SizedFinite

\* A metric's columns are columns of its tables.
MetricOk(m, ts, es) ==
  /\ m.tables \subseteq ts /\ NamesEntity(m, es)
  /\ m.source \in Column \cup {NoColumn}
  /\ \A c \in {m.source, m.date} \cup (m.filter \ {DueDate}) : ColumnOf(c, m.tables)

MainEntity(es) == FirstOf(es, EntityBefore)

MetricDomain(es) ==
  LET withDomain == {e \in es : e.domain # NoCode}
  IN  IF withDomain = {} THEN NoCode ELSE LastOf(withDomain, EntityBefore).domain

LEMMA FoundColumn ==
  ASSUME NEW es, NEW ts \in SUBSET Table, UNION {e.tables : e \in es} \subseteq ts, NEW c, FoundIn(es, c)
  PROVE  c \in Column \cup {NoColumn} /\ ColumnOf(c, ts)
<1>1. ASSUME c # NoColumn PROVE \E t \in ts : t \in Table /\ c \in ToSet(Cols[t])
  BY <1>1 DEF FoundIn
<1> QED BY <1>1, TableColumns DEF ColumnOf

MetricTables(p, es, cs) ==
  (UNION {e.tables : e \in es}) \cup (UNION {c.tables : c \in {d \in cs : d.code = p.concept}})

\* m is the metric of preset p over es.
MetricShape(m, p, es, cs) ==
  /\ m.code = p.code /\ m.entity = MainEntity(es).code /\ m.domain = MetricDomain(es)
  /\ m.tables = MetricTables(p, es, cs)
  /\ m.source = SourceOf(p, es) /\ m.date = DateOf(es) /\ m.filter = FilterOf(p, StatusOf(es))

LEMMA MetricShaped ==
  ASSUME NEW p, NEW es, NEW cs
  PROVE  MetricShape(MetricOf(p, es, cs), p, es, cs)
BY DEF MetricShape, MetricOf, SourceOf, DateOf, StatusOf, MainEntity, MetricDomain, MetricTables

LEMMA MetricFits ==
  ASSUME NEW ts \in SUBSET Table, NEW es, Sized(es), IsFiniteSet(es), es # {},
         \A e \in es : e.tables \subseteq ts, NEW cs, \A c \in cs : c.tables \subseteq ts, NEW p
  PROVE  MetricOf(p, es, cs).code = p.code /\ MetricOk(MetricOf(p, es, cs), ts, es)
<1> DEFINE m == MetricOf(p, es, cs)
           withDomain == {e \in es : e.domain # NoCode}
           found == UNION {e.tables : e \in es}
<1>1. /\ m.code = p.code /\ m.entity = MainEntity(es).code /\ m.domain = MetricDomain(es)
      /\ m.tables = MetricTables(p, es, cs)
      /\ m.source = SourceOf(p, es) /\ m.date = DateOf(es) /\ m.filter = FilterOf(p, StatusOf(es))
  <2>1. MetricShape(m, p, es, cs)
    BY MetricShaped
  <2> HIDE DEF m
  <2> QED BY <2>1 DEF MetricShape
<1> HIDE DEF m
<1>2. MainEntity(es) \in es
  BY SizeEnds DEF MainEntity
<1>3. m.domain = NoCode \/ \E e \in es : m.domain = e.domain
  <2>1. withDomain \in SUBSET es /\ IsFiniteSet(withDomain) /\ Sized(withDomain)
    BY FS_Subset DEF Sized
  <2>2. withDomain # {} => LastOf(withDomain, EntityBefore) \in withDomain
    <3> HIDE DEF withDomain
    <3> QED BY <2>1, SizeEnds
  <2>3. CASE withDomain = {} BY <1>1, <2>3 DEF MetricDomain
  <2>4. CASE withDomain # {} BY <1>1, <2>1, <2>2, <2>4 DEF MetricDomain
  <2> QED BY <2>3, <2>4
<1>4. found \subseteq m.tables /\ m.tables \subseteq ts
  <2> DEFINE added == UNION {c.tables : c \in {d \in cs : d.code = p.concept}}
  <2>1. MetricTables(p, es, cs) = found \cup added
    BY DEF MetricTables
  <2>2. found \subseteq ts /\ added \subseteq ts
    OBVIOUS
  <2> HIDE DEF added
  <2> HIDE DEF found
  <2> QED BY <1>1, <2>1, <2>2
<1>5. ASSUME NEW c \in {SourceOf(p, es), DateOf(es), StatusOf(es)}
      PROVE  c \in Column \cup {NoColumn} /\ ColumnOf(c, m.tables)
  <2>1. FoundIn(es, c)
    BY SourceFound
  <2>2. m.tables \in SUBSET Table /\ UNION {e.tables : e \in es} \subseteq m.tables
    BY <1>4
  <2> QED BY <2>1, <2>2, FoundColumn
<1>6. m.filter \subseteq {StatusOf(es), DueDate}
  BY <1>1 DEF FilterOf
<1>7. NamesEntity(m, es)
  BY <1>1, <1>2, <1>3 DEF NamesEntity
<1>8. m.source \in Column \cup {NoColumn}
  BY <1>1, <1>5
<1>9. \A c \in {m.source, m.date} \cup (m.filter \ {DueDate}) : ColumnOf(c, m.tables)
  BY <1>1, <1>5, <1>6
<1>10. MetricOk(m, ts, es)
  BY <1>4, <1>7, <1>8, <1>9 DEF MetricOk
<1> QED BY <1>1, <1>10 DEF m

LEMMA MetricsOk ==
  ASSUME NEW ts \in SUBSET Table, NEW es, Sized(es), IsFiniteSet(es), \A e \in es : e.tables \subseteq ts,
         NEW cs, \A c \in cs : c.tables \subseteq ts, NEW ms, ms = DetectMetrics(es, cs)
  PROVE  Sized(ms) /\ IsFiniteSet(ms) /\ \A m \in ms : MetricOk(m, ts, es)
<1> DEFINE of(p) == Counted(p, es)
           code == [p \in Metrics |-> p.code]
<1>1. ASSUME NEW m \in ms
      PROVE  \E p \in Metrics : m = MetricOf(p, of(p), cs) /\ of(p) # {}
  BY DEF DetectMetrics
<1>2. ASSUME NEW p \in Metrics, of(p) # {}
      PROVE  MetricOf(p, of(p), cs).code = p.code /\ MetricOk(MetricOf(p, of(p), cs), ts, es)
  <2>1. of(p) \in SUBSET es /\ IsFiniteSet(of(p)) /\ Sized(of(p))
    BY FS_Subset DEF Sized, Counted
  <2> HIDE DEF of
  <2>2. MetricOf(p, of(p), cs).code = p.code /\ MetricOk(MetricOf(p, of(p), cs), ts, of(p))
    BY <1>2, <2>1, MetricFits
  <2> QED BY <2>1, <2>2 DEF MetricOk, NamesEntity
<1> HIDE DEF of
<1>3. \A m \in ms : m.code \in {code[p] : p \in Metrics} /\ MetricOk(m, ts, es)
  BY <1>1, <1>2
<1>4. ASSUME NEW c \in ms, NEW d \in ms, c.code = d.code PROVE c = d
  BY <1>1, <1>2, <1>4, PresetsAssumption
<1>5. IsFiniteSet({code[p] : p \in Metrics})
  <2> HIDE DEF code
  <2> QED BY PresetsAssumption, FiniteImage
<1>6. {code[p] : p \in Metrics} \subseteq DOMAIN NameRank
  BY NamesAssumption
<1> HIDE DEF code
<1>7. Sized(ms)
  BY <1>3, <1>4, <1>6 DEF Sized, MetricOk
<1> QED BY <1>3, <1>5, <1>7, SizedFinite

-----------------------------------------------------------------------------
(* The layers of every run *)

\* Domains, entities, concepts and metrics, when they are there, are what the
\* lemmas above say of them.
BusinessOk ==
  /\ Sized(domains) /\ IsFiniteSet(domains) /\ \A d \in domains : d.tables \subseteq tables
  /\ Sized(entities) /\ IsFiniteSet(entities) /\ \A e \in entities : EntityOk(e, tables, domains)
  /\ Sized(concepts) /\ IsFiniteSet(concepts)
  /\ \A c \in concepts : c.tables \subseteq tables /\ NamesEntity(c, entities)
  /\ Sized(metrics) /\ IsFiniteSet(metrics) /\ \A m \in metrics : MetricOk(m, tables, entities)

LEMMA EmptySized == Sized({}) /\ IsFiniteSet({})
BY FS_EmptySet DEF Sized

LEMMA BusinessHolds ==
  ASSUME MadeInd, ReadInd
  PROVE  BusinessOk
<1>0. tables \in SUBSET Table
  BY DEF ReadInd
<1>1. Sized(domains) /\ IsFiniteSet(domains) /\ \A d \in domains : d.tables \subseteq tables
  <2>1. CASE domains = {} BY <2>1, EmptySized
  <2>2. CASE domains # {}
    <3>1. PICK answer \in BoundedSeq(LLMItem, MaxItems) : domains = DetectDomains(tables, answer)
      BY <2>2 DEF MadeInd, DomainsMade
    <3> QED BY <1>0, <3>1, DomainsOk
  <2> QED BY <2>1, <2>2
<1>2. Sized(entities) /\ IsFiniteSet(entities) /\ \A e \in entities : EntityOk(e, tables, domains)
  <2>1. CASE entities = {} BY <2>1, EmptySized
  <2>2. CASE entities # {}
    <3>1. entities \in DetectEntities(tables, domains)
      BY <2>2 DEF MadeInd
    <3> QED BY <1>0, <1>1, <3>1, EntitiesOk
  <2> QED BY <2>1, <2>2
<1>3. \A e \in entities : e.tables \subseteq tables
  BY <1>2 DEF EntityOk
<1>4. Sized(concepts) /\ IsFiniteSet(concepts)
      /\ \A c \in concepts : c.tables \subseteq tables /\ NamesEntity(c, entities)
  <2>1. CASE concepts = {} BY <2>1, EmptySized
  <2>2. CASE concepts # {}
    <3>1. concepts = DetectConcepts(entities, {})
      BY <2>2 DEF MadeInd
    <3> QED BY <1>0, <1>2, <1>3, <3>1, ConceptsOk
  <2> QED BY <2>1, <2>2
<1>5. Sized(metrics) /\ IsFiniteSet(metrics) /\ \A m \in metrics : MetricOk(m, tables, entities)
  <2>1. CASE metrics = {} BY <2>1, EmptySized
  <2>2. CASE metrics # {}
    <3>1. metrics = DetectMetrics(entities, concepts)
      BY <2>2 DEF MadeInd
    <3>2. \A c \in concepts : c.tables \subseteq tables
      BY <1>4
    <3> QED BY <1>0, <1>2, <1>3, <3>1, <3>2, MetricsOk
  <2> QED BY <2>1, <2>2
<1> QED BY <1>1, <1>2, <1>4, <1>5 DEF BusinessOk

\* Of every state of a run, the layers are made of the layers below them.
LEMMA RunsMakeLayers == MapSpec => [](MadeInd /\ ReadInd)
<1>1. MapInit => MadeInd /\ ReadInd
  BY MadeInit, ReadInit
<1>2. MadeInd /\ ReadInd /\ [MapNext]_mapVars => (MadeInd /\ ReadInd)'
  BY MadeNext, ReadNext
<1> QED BY <1>1, <1>2, PTL DEF MapSpec

\* Whatever the LLM answers (TableSemanticAnalysis, BusinessDomainDiscovery), the
\* layers are made of tables, columns and codes; no entity is without a table.
THEOREM LayersTypeHolds == MapSpec => []TypeOK
<1>1. MadeInd /\ ReadInd => TypeOK
  <2> SUFFICES ASSUME MadeInd, ReadInd PROVE TypeOK
    OBVIOUS
  <2>1. BusinessOk
    BY BusinessHolds
  <2>2. tables \subseteq Table /\ columns \subseteq tables \X Column
    BY DEF MadeInd, ReadInd
  <2>3. \A d \in domains : d.tables \subseteq Table
    BY <2>1, <2>2 DEF BusinessOk
  <2>4. ASSUME NEW e \in entities
        PROVE  e.tables \in (SUBSET Table) \ {{}} /\ e.status \in Column \cup {NoColumn}
    BY <2>1, <2>2 DEF BusinessOk, EntityOk
  <2>5. ASSUME NEW m \in metrics
        PROVE  m.tables \subseteq Table /\ m.source \in Column \cup {NoColumn}
    BY <2>1, <2>2 DEF BusinessOk, MetricOk
  <2>6. dates \subseteq Table \X DateCols
    BY <2>2 DEF MadeInd, DetectDates
  <2> QED BY <2>2, <2>3, <2>4, <2>5, <2>6 DEF TypeOK
<1> QED BY <1>1, RunsMakeLayers, PTL

\* detect_metrics takes each column of a metric from a table of an entity that
\* the metric counts, and that table is one of the metric's.
THEOREM MetricColumnsExistHolds == MapSpec => []MetricColumnsExist
<1>1. MadeInd /\ ReadInd => MetricColumnsExist
  BY BusinessHolds DEF BusinessOk, MetricOk, MetricColumnsExist
<1> QED BY <1>1, RunsMakeLayers, PTL

\* detect_entities gives an entity a domain of one of its tables, and of a table
\* only a domain that lists it.
THEOREM EntityDomainHolds == MapSpec => []EntityDomain
<1>1. MadeInd /\ ReadInd => EntityDomain
  BY BusinessHolds DEF BusinessOk, EntityOk, EntityDomain
<1> QED BY <1>1, RunsMakeLayers, PTL

-----------------------------------------------------------------------------
(* What a question is given *)

\* A context is made of the map that was loaded, which stays.
ContextInd ==
  context # NotYet =>
    /\ loaded # NotYet
    /\ \E named \in Questions : context = ContextOf(context.docs, named, loaded)

LEMMA ContextInit == MapInit => ContextInd
BY DEF MapInit, ContextInd

LEMMA ContextNext ==
  ASSUME ContextInd, [MapNext]_mapVars
  PROVE  ContextInd'
<1> USE DEF ContextInd
<1>1. CASE RetrieveContext
  <2>1. PICK docs \in BestDocs(Docs(loaded)), named \in Questions :
          context' = ContextOf(docs, named, loaded)
    BY <1>1 DEF RetrieveContext
  <2>2. loaded' = loaded /\ loaded # NotYet
    BY <1>1 DEF RetrieveContext
  <2>3. ContextOf(docs, named, loaded).docs = docs
    BY DEF ContextOf
  <2>4. ContextOf(context.docs, named, loaded)' = ContextOf(docs, named, loaded)
    <3>1. context'.docs = docs
      BY <2>1, <2>3
    <3> QED BY <2>2, <3>1, SMTT(20) DEF ContextOf, DocTables, RelevantEntities
  <2> QED BY <2>1, <2>2, <2>4
<1>2. CASE LoadMap \/ ~RetrieveContext
  <2> SUFFICES ASSUME context' # NotYet PROVE ContextInd'
    OBVIOUS
  <2>1. UNCHANGED <<loaded, context>>
    BY <1>2 DEF MapNext, LoadMap, RelationshipGraphCreation, KnowledgeMapGeneration,
       ContextPersistence, endVars, mapVars
  <2>2. ASSUME NEW named
        PROVE  ContextOf(context.docs, named, loaded)' = ContextOf(context.docs, named, loaded)
    BY <2>1 DEF ContextOf, DocTables, RelevantEntities
  <2> QED BY <2>1, <2>2
<1> QED BY <1>1, <1>2

\* A relationship, whatever its columns, has a row.
LEMMA LoadedRelationships ==
  ASSUME MapInd, loaded # NotYet, NEW r \in rels
  PROVE  \E x \in loaded.relationships : x.source = r.source /\ x.target = r.target
<1> DEFINE x == [source |-> r.source, from |-> r.pairs[1][1],
                 target |-> r.target, to |-> r.pairs[1][2], copy |-> 1]
<1>1. loaded.relationships = Rows(BuildMap).relationships
  BY DEF MapInd, Load, Rows
<1>2. <<r, 1>> \in BuildMap.relationships
  BY DEF BuildMap
<1>3. x \in loaded.relationships
  BY <1>1, <1>2 DEF Rows
<1> QED BY <1>3

Pairs(S) == {<<x.code, x.tables>> : x \in S}

LEMMA PairFound ==
  ASSUME NEW S, NEW T, Pairs(S) = Pairs(T), NEW x \in S
  PROVE  \E y \in T : y.code = x.code /\ y.tables = x.tables
<1>1. <<x.code, x.tables>> \in Pairs(T)
  BY DEF Pairs
<1> QED BY <1>1 DEF Pairs

\* The tables that a match brings, from the map and from the run.
LEMMA MatchTables ==
  ASSUME MapSurvives, loaded # NotYet, NEW x, NEW type,
         \/ type = "metric" /\ x \in metrics
         \/ type = "concept" /\ x \in concepts
         \/ type = "entity" /\ x \in entities
  PROVE  x.tables \subseteq DocTables(<<type, x.code>>, loaded)
<1>1. /\ Pairs(entities) = Pairs(loaded.entities) /\ Pairs(concepts) = Pairs(loaded.concepts)
      /\ Pairs(metrics) = Pairs(loaded.metrics)
  BY DEF MapSurvives, Pairs
<1>2. CASE type = "metric" /\ x \in metrics
  <2>1. PICK y \in loaded.metrics : y.code = x.code /\ y.tables = x.tables
    BY <1>1, <1>2, PairFound
  <2>2. DocTables(<<type, x.code>>, loaded) = UNION {z.tables : z \in {w \in loaded.metrics : w.code = x.code}}
    BY <1>2 DEF DocTables
  <2> QED BY <2>1, <2>2
<1>3. CASE type = "concept" /\ x \in concepts
  <2>1. PICK y \in loaded.concepts : y.code = x.code /\ y.tables = x.tables
    BY <1>1, <1>3, PairFound
  <2>2. DocTables(<<type, x.code>>, loaded) = UNION {z.tables : z \in {w \in loaded.concepts : w.code = x.code}}
    BY <1>3 DEF DocTables
  <2> QED BY <2>1, <2>2
<1>4. CASE type = "entity" /\ x \in entities
  <2>1. PICK y \in loaded.entities : y.code = x.code /\ y.tables = x.tables
    BY <1>1, <1>4, PairFound
  <2>2. DocTables(<<type, x.code>>, loaded) = UNION {z.tables : z \in {w \in loaded.entities : w.code = x.code}}
    BY <1>4 DEF DocTables
  <2> QED BY <2>1, <2>2
<1> QED BY <1>2, <1>3, <1>4

\* SchemaRetrievalService gives a question all tables of a metric, a concept or
\* an entity that it matched, every relationship between them, and so the column
\* that a matched metric computes over, through the rows and back.
THEOREM ContextCompleteHolds == MapSpec => []ContextComplete
<1>1. MapInit => ContextInd /\ MapInd /\ WholeInd
  BY ContextInit, WholeInit DEF MapInit, Init, IntroInit, MapInd
<1>2. ContextInd /\ MapInd /\ WholeInd /\ [MapNext]_mapVars => ContextInd' /\ MapInd' /\ WholeInd'
  BY ContextNext, MapNextKeeps, WholeNext
<1>3. ContextInd /\ MapInd /\ WholeInd /\ MadeInd /\ ReadInd => ContextComplete
  <2> SUFFICES ASSUME ContextInd, MapInd, WholeInd, MadeInd, ReadInd, context # NotYet,
                      NEW type, NEW layer,
                      \/ type = "metric" /\ layer = metrics
                      \/ type = "concept" /\ layer = concepts
                      \/ type = "entity" /\ layer = entities,
                      NEW x \in layer, <<type, x.code>> \in context.docs
               PROVE  /\ x.tables \subseteq context.tables
                      /\ \A r \in rels : {r.source, r.target} \subseteq x.tables =>
                           \E y \in context.relationships : y.source = r.source /\ y.target = r.target
                      /\ type = "metric" => ColumnOf(x.source, context.tables)
    BY DEF ContextComplete
  <2>1. loaded # NotYet /\ MapSurvives /\ BusinessOk
    BY LoadedMap, BusinessHolds DEF ContextInd
  <2>2. PICK named \in Questions : context = ContextOf(context.docs, named, loaded)
    BY DEF ContextInd
  <2>3. /\ context.tables = (UNION {DocTables(d, loaded) : d \in context.docs}) \cap loaded.tables
        /\ context.relationships = {r \in loaded.relationships : {r.source, r.target} \subseteq context.tables}
    BY <2>2 DEF ContextOf
  <2>4. x.tables \subseteq DocTables(<<type, x.code>>, loaded)
    BY <2>1, MatchTables
  <2>5. x.tables \subseteq tables /\ (type = "metric" => ColumnOf(x.source, x.tables))
    BY <2>1 DEF BusinessOk, EntityOk, MetricOk
  <2>6. loaded.tables = tables
    BY <2>1 DEF MapSurvives
  <2>7. x.tables \subseteq context.tables
    BY <2>3, <2>4, <2>5, <2>6
  <2>8. ASSUME NEW r \in rels, {r.source, r.target} \subseteq x.tables
        PROVE  \E y \in context.relationships : y.source = r.source /\ y.target = r.target
    <3>1. PICK y \in loaded.relationships : y.source = r.source /\ y.target = r.target
      BY <2>1, LoadedRelationships
    <3> QED BY <2>3, <2>7, <2>8, <3>1
  <2>9. type = "metric" => ColumnOf(x.source, context.tables)
    BY <2>5, <2>7 DEF ColumnOf
  <2> QED BY <2>7, <2>8, <2>9
<1> QED BY <1>1, <1>2, <1>3, RunsMakeLayers, PTL DEF MapSpec

-----------------------------------------------------------------------------
(* The services that go through a list *)

\* What holds of the empty result, and stays true when the next element of the
\* list is added, holds of the whole.  P has a pair for each place in the list
\* and each result that there may be up to it.
LEMMA DimensionFold ==
  ASSUME NEW ts, NEW E, NEW s \in Seq(E), s = ColumnsInOrder(ts), NEW P, <<0, <<>>>> \in P,
         \A i \in 1..Len(s) : \A v : <<i - 1, v>> \in P => <<i, AddDimension(v, s[i], ts)>> \in P
  PROVE  <<Len(s), AllDimensions(ts)>> \in P
<1>1. PICK n \in Nat : n = Len(s)
  OBVIOUS
<1> DEFINE V == {p[2] : p \in P}
           F == [i \in 1..n |-> [v \in V |-> AddDimension(v, s[i], ts)]]
           Joins(f) == f = [i \in 0..n |-> IF i = 0 THEN <<>> ELSE AddDimension(f[i - 1], s[i], ts)]
           c == CHOOSE f : Joins(f)
<1>2. \A i, v : <<i, v>> \in P => v \in V
  <2> SUFFICES ASSUME NEW i, NEW v, <<i, v>> \in P PROVE v \in V
    OBVIOUS
  <2>1. <<i, v>>[2] = v
    OBVIOUS
  <2> QED BY <2>1
<1> HIDE DEF V
<1>3. \A i \in 1..n, v \in V : F[i][v] = AddDimension(v, s[i], ts)
  OBVIOUS
<1> HIDE DEF F
<1>4. Leads(F, n, P)
  BY <1>1, <1>2, <1>3 DEF Leads
<1>5. PICK g : /\ Follows(g, F, n, <<>>) /\ UpTo(g, n)
               /\ \A i \in 0..n : <<i, g[i]>> \in P
  BY <1>4, FoldAlong
<1>6. \A i \in 0..n : g[i] = IF i = 0 THEN <<>> ELSE AddDimension(g[i - 1], s[i], ts)
  <2>1. ASSUME NEW i \in 1..n PROVE g[i] = AddDimension(g[i - 1], s[i], ts)
    <3>0. i - 1 \in 0..n
      OBVIOUS
    <3>1. g[i - 1] \in V
      BY <1>2, <1>5, <3>0
    <3>2. g[i] = F[i][g[i - 1]]
      BY <1>5 DEF Follows
    <3> QED BY <1>3, <3>1, <3>2
  <2>2. g[0] = <<>>
    BY <1>5 DEF Follows
  <2>3. \A i \in 0..n : i # 0 => i \in 1..n
    OBVIOUS
  <2> QED BY <2>1, <2>2, <2>3
<1>7. Joins(g)
  BY <1>5, <1>6 DEF UpTo
<1>8. Joins(c)
  <2> HIDE DEF Joins
  <2> QED BY <1>7
<1>9. AllDimensions(ts) = c[n]
  BY <1>1 DEF AllDimensions, Accumulated
<1>10. \A i \in 0..n : c[i] = IF i = 0 THEN <<>> ELSE AddDimension(c[i - 1], s[i], ts)
  <2> HIDE DEF c
  <2> QED BY <1>8
<1> HIDE DEF c, Joins
<1>11. ASSUME NEW i \in 0..(n - 1), c[i] = g[i] PROVE c[i + 1] = g[i + 1]
  <2> DEFINE j == i + 1
  <2>1. j \in 0..n /\ j # 0 /\ j - 1 = i
    OBVIOUS
  <2> HIDE DEF j
  <2> QED BY <1>6, <1>10, <1>11, <2>1 DEF j
<1>12. c[n] = g[n]
  <2>1. c[0] = g[0]
    BY <1>6, <1>10
  <2>2. \A i \in 0..(n - 1) : c[i] = g[i] => c[i + 1] = g[i + 1]
    BY <1>11
  <2>3. \A i \in 0..n : c[i] = g[i]
    BY <2>1, <2>2, FoldUnique
  <2> QED BY <2>3
<1> QED BY <1>1, <1>5, <1>9, <1>12

LEMMA MergeFold ==
  ASSUME NEW ts, NEW E, NEW s \in Seq(E), s = AllDimensions(ts), NEW P, <<0, {}>> \in P,
         \A i \in 1..Len(s) : \A v : <<i - 1, v>> \in P => <<i, Merged(v, s[i])>> \in P
  PROVE  <<Len(s), DetectDimensions(ts)>> \in P
<1>1. PICK n \in Nat : n = Len(s)
  OBVIOUS
<1> DEFINE V == {p[2] : p \in P}
           F == [i \in 1..n |-> [v \in V |-> Merged(v, s[i])]]
           Joins(f) == f = [i \in 0..n |-> IF i = 0 THEN {} ELSE Merged(f[i - 1], s[i])]
           c == CHOOSE f : Joins(f)
<1>2. \A i, v : <<i, v>> \in P => v \in V
  <2> SUFFICES ASSUME NEW i, NEW v, <<i, v>> \in P PROVE v \in V
    OBVIOUS
  <2>1. <<i, v>>[2] = v
    OBVIOUS
  <2> QED BY <2>1
<1> HIDE DEF V
<1>3. \A i \in 1..n, v \in V : F[i][v] = Merged(v, s[i])
  OBVIOUS
<1> HIDE DEF F
<1>4. Leads(F, n, P)
  BY <1>1, <1>2, <1>3 DEF Leads
<1>5. PICK g : /\ Follows(g, F, n, {}) /\ UpTo(g, n)
               /\ \A i \in 0..n : <<i, g[i]>> \in P
  BY <1>4, FoldAlong
<1>6. \A i \in 0..n : g[i] = IF i = 0 THEN {} ELSE Merged(g[i - 1], s[i])
  <2>1. ASSUME NEW i \in 1..n PROVE g[i] = Merged(g[i - 1], s[i])
    <3>0. i - 1 \in 0..n
      OBVIOUS
    <3>1. g[i - 1] \in V
      BY <1>2, <1>5, <3>0
    <3>2. g[i] = F[i][g[i - 1]]
      BY <1>5 DEF Follows
    <3> QED BY <1>3, <3>1, <3>2
  <2>2. g[0] = {}
    BY <1>5 DEF Follows
  <2>3. \A i \in 0..n : i # 0 => i \in 1..n
    OBVIOUS
  <2> QED BY <2>1, <2>2, <2>3
<1>7. Joins(g)
  BY <1>5, <1>6 DEF UpTo
<1>8. Joins(c)
  <2> HIDE DEF Joins
  <2> QED BY <1>7
<1>9. DetectDimensions(ts) = c[n]
  BY <1>1 DEF DetectDimensions, Accumulated
<1>10. \A i \in 0..n : c[i] = IF i = 0 THEN {} ELSE Merged(c[i - 1], s[i])
  <2> HIDE DEF c
  <2> QED BY <1>8
<1> HIDE DEF c, Joins
<1>11. ASSUME NEW i \in 0..(n - 1), c[i] = g[i] PROVE c[i + 1] = g[i + 1]
  <2> DEFINE j == i + 1
  <2>1. j \in 0..n /\ j # 0 /\ j - 1 = i
    OBVIOUS
  <2> HIDE DEF j
  <2> QED BY <1>6, <1>10, <1>11, <2>1 DEF j
<1>12. c[n] = g[n]
  <2>1. c[0] = g[0]
    BY <1>6, <1>10
  <2>2. \A i \in 0..(n - 1) : c[i] = g[i] => c[i + 1] = g[i + 1]
    BY <1>11
  <2>3. \A i \in 0..n : c[i] = g[i]
    BY <2>1, <2>2, FoldUnique
  <2> QED BY <2>3
<1> QED BY <1>1, <1>5, <1>9, <1>12

LEMMA EntryFold ==
  ASSUME NEW b, NEW E, NEW s \in Seq(E), NEW P, <<0, b>> \in P,
         \A i \in 1..Len(s) : \A v : <<i - 1, v>> \in P => <<i, AddEntry(v, s[i])>> \in P
  PROVE  <<Len(s), AddEntries(b, s)>> \in P
<1>1. PICK n \in Nat : n = Len(s)
  OBVIOUS
<1> DEFINE V == {p[2] : p \in P}
           F == [i \in 1..n |-> [v \in V |-> AddEntry(v, s[i])]]
           Joins(f) == f = [i \in 0..n |-> IF i = 0 THEN b ELSE AddEntry(f[i - 1], s[i])]
           c == CHOOSE f : Joins(f)
<1>2. \A i, v : <<i, v>> \in P => v \in V
  <2> SUFFICES ASSUME NEW i, NEW v, <<i, v>> \in P PROVE v \in V
    OBVIOUS
  <2>1. <<i, v>>[2] = v
    OBVIOUS
  <2> QED BY <2>1
<1> HIDE DEF V
<1>3. \A i \in 1..n, v \in V : F[i][v] = AddEntry(v, s[i])
  OBVIOUS
<1> HIDE DEF F
<1>4. Leads(F, n, P)
  BY <1>1, <1>2, <1>3 DEF Leads
<1>5. PICK g : /\ Follows(g, F, n, b) /\ UpTo(g, n)
               /\ \A i \in 0..n : <<i, g[i]>> \in P
  BY <1>4, FoldAlong
<1>6. \A i \in 0..n : g[i] = IF i = 0 THEN b ELSE AddEntry(g[i - 1], s[i])
  <2>1. ASSUME NEW i \in 1..n PROVE g[i] = AddEntry(g[i - 1], s[i])
    <3>0. i - 1 \in 0..n
      OBVIOUS
    <3>1. g[i - 1] \in V
      BY <1>2, <1>5, <3>0
    <3>2. g[i] = F[i][g[i - 1]]
      BY <1>5 DEF Follows
    <3> QED BY <1>3, <3>1, <3>2
  <2>2. g[0] = b
    BY <1>5 DEF Follows
  <2>3. \A i \in 0..n : i # 0 => i \in 1..n
    OBVIOUS
  <2> QED BY <2>1, <2>2, <2>3
<1>7. Joins(g)
  BY <1>5, <1>6 DEF UpTo
<1>8. Joins(c)
  <2> HIDE DEF Joins
  <2> QED BY <1>7
<1>9. AddEntries(b, s) = c[n]
  BY <1>1 DEF AddEntries, Accumulated
<1>10. \A i \in 0..n : c[i] = IF i = 0 THEN b ELSE AddEntry(c[i - 1], s[i])
  <2> HIDE DEF c
  <2> QED BY <1>8
<1> HIDE DEF c, Joins
<1>11. ASSUME NEW i \in 0..(n - 1), c[i] = g[i] PROVE c[i + 1] = g[i + 1]
  <2> DEFINE j == i + 1
  <2>1. j \in 0..n /\ j # 0 /\ j - 1 = i
    OBVIOUS
  <2> HIDE DEF j
  <2> QED BY <1>6, <1>10, <1>11, <2>1 DEF j
<1>12. c[n] = g[n]
  <2>1. c[0] = g[0]
    BY <1>6, <1>10
  <2>2. \A i \in 0..(n - 1) : c[i] = g[i] => c[i + 1] = g[i + 1]
    BY <1>11
  <2>3. \A i \in 0..n : c[i] = g[i]
    BY <2>1, <2>2, FoldUnique
  <2> QED BY <2>3
<1> QED BY <1>1, <1>5, <1>9, <1>12

LEMMA FamilyFold ==
  ASSUME NEW b, NEW E, NEW s \in Seq(E), NEW P, <<0, b>> \in P,
         \A i \in 1..Len(s) : \A v : <<i - 1, v>> \in P => <<i, AddFamily(v, s[i])>> \in P
  PROVE  <<Len(s), AddFamilies(b, s)>> \in P
<1>1. PICK n \in Nat : n = Len(s)
  OBVIOUS
<1> DEFINE V == {p[2] : p \in P}
           F == [i \in 1..n |-> [v \in V |-> AddFamily(v, s[i])]]
           Joins(f) == f = [i \in 0..n |-> IF i = 0 THEN b ELSE AddFamily(f[i - 1], s[i])]
           c == CHOOSE f : Joins(f)
<1>2. \A i, v : <<i, v>> \in P => v \in V
  <2> SUFFICES ASSUME NEW i, NEW v, <<i, v>> \in P PROVE v \in V
    OBVIOUS
  <2>1. <<i, v>>[2] = v
    OBVIOUS
  <2> QED BY <2>1
<1> HIDE DEF V
<1>3. \A i \in 1..n, v \in V : F[i][v] = AddFamily(v, s[i])
  OBVIOUS
<1> HIDE DEF F
<1>4. Leads(F, n, P)
  BY <1>1, <1>2, <1>3 DEF Leads
<1>5. PICK g : /\ Follows(g, F, n, b) /\ UpTo(g, n)
               /\ \A i \in 0..n : <<i, g[i]>> \in P
  BY <1>4, FoldAlong
<1>6. \A i \in 0..n : g[i] = IF i = 0 THEN b ELSE AddFamily(g[i - 1], s[i])
  <2>1. ASSUME NEW i \in 1..n PROVE g[i] = AddFamily(g[i - 1], s[i])
    <3>0. i - 1 \in 0..n
      OBVIOUS
    <3>1. g[i - 1] \in V
      BY <1>2, <1>5, <3>0
    <3>2. g[i] = F[i][g[i - 1]]
      BY <1>5 DEF Follows
    <3> QED BY <1>3, <3>1, <3>2
  <2>2. g[0] = b
    BY <1>5 DEF Follows
  <2>3. \A i \in 0..n : i # 0 => i \in 1..n
    OBVIOUS
  <2> QED BY <2>1, <2>2, <2>3
<1>7. Joins(g)
  BY <1>5, <1>6 DEF UpTo
<1>8. Joins(c)
  <2> HIDE DEF Joins
  <2> QED BY <1>7
<1>9. AddFamilies(b, s) = c[n]
  BY <1>1 DEF AddFamilies, Accumulated
<1>10. \A i \in 0..n : c[i] = IF i = 0 THEN b ELSE AddFamily(c[i - 1], s[i])
  <2> HIDE DEF c
  <2> QED BY <1>8
<1> HIDE DEF c, Joins
<1>11. ASSUME NEW i \in 0..(n - 1), c[i] = g[i] PROVE c[i + 1] = g[i + 1]
  <2> DEFINE j == i + 1
  <2>1. j \in 0..n /\ j # 0 /\ j - 1 = i
    OBVIOUS
  <2> HIDE DEF j
  <2> QED BY <1>6, <1>10, <1>11, <2>1 DEF j
<1>12. c[n] = g[n]
  <2>1. c[0] = g[0]
    BY <1>6, <1>10
  <2>2. \A i \in 0..(n - 1) : c[i] = g[i] => c[i + 1] = g[i + 1]
    BY <1>11
  <2>3. \A i \in 0..n : c[i] = g[i]
    BY <2>1, <2>2, FoldUnique
  <2> QED BY <2>3
<1> QED BY <1>1, <1>5, <1>9, <1>12


-----------------------------------------------------------------------------
(* Dimensions *)

\* The columns of a set of tables.
ColumnPairs(ts) == {x \in ts \X Column : x[2] \in ToSet(Cols[x[1]])}

LEMMA ColumnsListed ==
  ASSUME NEW ts \in SUBSET Table
  PROVE  ColumnsInOrder(ts) \in Seq(ColumnPairs(ts))
<1> DEFINE inOrder == InOrder(ts)
           E == ColumnPairs(ts)
           s == [i \in DOMAIN inOrder |-> [k \in DOMAIN Cols[inOrder[i]] |->
                                             <<inOrder[i], Cols[inOrder[i]][k]>>]]
<1>1. inOrder \in Seq(ts)
  BY TablesListed DEF InOrder
<1>2. ColumnsInOrder(ts) = FlattenSeq(s)
  BY DEF ColumnsInOrder
<1>3. ASSUME NEW t \in ts
      PROVE  [k \in DOMAIN Cols[t] |-> <<t, Cols[t][k]>>] \in Seq(E)
  <2>1. PICK cs \in Seq(Column) : cs = Cols[t]
    BY ColsType
  <2>2. PICK n \in Nat : n = Len(cs)
    BY <2>1
  <2>3. DOMAIN cs = 1..n /\ \A k \in 1..n : cs[k] \in Column /\ cs[k] \in ToSet(cs)
    BY <2>1, <2>2 DEF ToSet
  <2>4. \A k \in 1..n : <<t, cs[k]>> \in E
    BY <2>1, <2>3 DEF ColumnPairs
  <2>5. [k \in 1..n |-> <<t, cs[k]>>] \in Seq(E)
    BY <2>2, <2>4
  <2> QED BY <2>1, <2>3, <2>5
<1>4. s \in Seq(Seq(E))
  <2>1. PICK n \in Nat : n = Len(inOrder)
    BY <1>1
  <2>2. DOMAIN inOrder = 1..n /\ \A i \in 1..n : inOrder[i] \in ts
    BY <1>1, <2>1
  <2>3. \A i \in 1..n : s[i] \in Seq(E)
    <3> HIDE DEF inOrder, E
    <3> QED BY <1>3, <2>2
  <2>4. s \in [1..n -> Seq(E)]
    BY <2>2, <2>3
  <2> HIDE DEF s, E
  <2> QED BY <2>1, <2>4
<1> HIDE DEF s, E
<1> QED BY <1>2, <1>4, FlattenRange DEF E

\* A dimension of tables that were found: its column and the columns of its
\* joins are columns of theirs.
Dim(ts) ==
  {d \in [code : DOMAIN NameRank, table : ts, column : Column,
          joins : SUBSET (ts \X Column \X ts), confidence : {6, 8}] :
     /\ d.column \in ToSet(Cols[d.table])
     /\ \A j \in d.joins : j[2] \in ToSet(Cols[j[1]])}

LEMMA DimensionIs ==
  ASSUME NEW ts \in SUBSET Table, NEW x \in ColumnPairs(ts), DimCode(x[2]) # NoCode, NEW d,
         d = DimensionOf(x[1], x[2], ts)
  PROVE  d \in Dim(ts) /\ d.code = DimCode(x[2]) /\ x = <<d.table, d.column>>
<1>1. x = <<x[1], x[2]>> /\ x[1] \in ts /\ x[2] \in Column /\ x[2] \in ToSet(Cols[x[1]])
  BY DEF ColumnPairs
<1>2. DimCode(x[2]) \in DOMAIN NameRank
  BY <1>1, DimensionsAssumption
<1>3. JoinsOf(x[1], x[2], ts) \subseteq {<<x[1], x[2], u>> : u \in ts}
  BY DEF JoinsOf
<1>4. JoinsOf(x[1], x[2], ts) \subseteq ts \X Column \X ts
      /\ \A j \in JoinsOf(x[1], x[2], ts) : j[2] \in ToSet(Cols[j[1]])
  BY <1>1, <1>3
<1>5. /\ d.code = DimCode(x[2]) /\ d.table = x[1] /\ d.column = x[2]
      /\ d.joins = JoinsOf(x[1], x[2], ts) /\ d.confidence \in {6, 8}
      /\ d = [code |-> d.code, table |-> d.table, column |-> d.column, joins |-> d.joins,
              confidence |-> d.confidence]
  BY DEF DimensionOf
<1>6. d \in [code : DOMAIN NameRank, table : ts, column : Column,
             joins : SUBSET (ts \X Column \X ts), confidence : {6, 8}]
  BY <1>1, <1>2, <1>4, <1>5
<1> QED BY <1>1, <1>4, <1>5, <1>6 DEF Dim

\* The places of a code in a list of dimensions and in a list of columns.
Having(dims, c) == {i \in DOMAIN dims : dims[i].code = c}
Coded(s, c) == {j \in DOMAIN s : DimCode(s[j][2]) = c}

LEMMA MinIs ==
  ASSUME NEW S \in SUBSET Nat, NEW m \in S, \A y \in S : m <= y
  PROVE  Min(S) = m
<1>1. PICK k \in S : k = Min(S) /\ k <= m
  BY MinPlace
<1>2. k \in Nat /\ m \in Nat /\ m <= k
  OBVIOUS
<1> QED BY <1>1, <1>2

\* A dimension at the end of a list is the first of its code only if there was
\* none before it.
LEMMA HavingAppend ==
  ASSUME NEW E, NEW dims \in Seq(E), NEW d \in E, NEW c
  PROVE  /\ Having(dims, c) \in SUBSET Nat
         /\ Having(dims, c) # {} => /\ Min(Having(dims, c)) \in Having(dims, c)
                                    /\ Min(Having(Append(dims, d), c)) = Min(Having(dims, c))
         /\ Having(dims, c) = {} /\ d.code = c => Min(Having(Append(dims, d), c)) = Len(dims) + 1
<1>1. PICK n \in Nat : n = Len(dims)
  OBVIOUS
<1>2. DOMAIN dims = 1..n /\ DOMAIN Append(dims, d) = 1..(n + 1)
      /\ Append(dims, d)[n + 1] = d /\ \A i \in 1..n : Append(dims, d)[i] = dims[i]
  BY <1>1
<1>3. Having(dims, c) \in SUBSET (1..n)
  BY <1>2 DEF Having
<1>4. Having(Append(dims, d), c) = Having(dims, c) \cup (IF d.code = c THEN {n + 1} ELSE {})
  BY <1>2 DEF Having
<1>5. Having(dims, c) \in SUBSET Nat /\ Having(Append(dims, d), c) \in SUBSET Nat
  BY <1>3, <1>4
<1>6. CASE Having(dims, c) # {}
  <2>1. Min(Having(dims, c)) \in Having(dims, c) /\ \A y \in Having(dims, c) : Min(Having(dims, c)) <= y
    BY <1>5, <1>6, MinPlace
  <2>2. \A y \in Having(Append(dims, d), c) : Min(Having(dims, c)) <= y
    BY <1>3, <1>4, <2>1
  <2> QED BY <1>4, <1>5, <1>6, <2>1, <2>2, MinIs
<1>7. CASE Having(dims, c) = {}
  BY <1>1, <1>4, <1>5, <1>7, MinIs
<1> QED BY <1>5, <1>6, <1>7


\* Each dimension in the list follows the one of the first column with its code,
\* and has no higher confidence.
Led(dims, s, ts) ==
  \A k \in DOMAIN dims :
    LET c == dims[k].code
        m == Min(Having(dims, c))
        f == Min(Coded(s, c))
    IN  /\ f \in DOMAIN s /\ dims[m] = DimensionOf(s[f][1], s[f][2], ts) /\ DimCode(s[f][2]) = c
        /\ dims[k].confidence <= dims[m].confidence

\* The columns up to the i-th have their dimensions.
Covered(dims, s, i) ==
  \A j \in 1..i : DimCode(s[j][2]) # NoCode => Having(dims, DimCode(s[j][2])) # {}

LEMMA DimensionAdded ==
  ASSUME NEW ts \in SUBSET Table, NEW s \in Seq(ColumnPairs(ts)), NEW i \in 0..(Len(s) - 1),
         NEW dims \in Seq(Dim(ts)), Led(dims, s, ts), Covered(dims, s, i), NEW new,
         new = AddDimension(dims, s[i + 1], ts)
  PROVE  new \in Seq(Dim(ts)) /\ Led(new, s, ts) /\ Covered(new, s, i + 1)
<1>0. PICK j \in 1..Len(s) : j = i + 1
  OBVIOUS
<1>1. PICK n \in Nat : n = Len(dims) /\ DOMAIN dims = 1..n /\ \A k \in 1..n : dims[k] \in Dim(ts)
  OBVIOUS
<1>2. PICK x \in ColumnPairs(ts) : x = s[j]
  BY <1>0
<1> DEFINE c == DimCode(x[2])
           d == DimensionOf(x[1], x[2], ts)
           same == Having(dims, c)
<1>3. d.code = c
  BY DEF DimensionOf
<1>4. new = IF c = NoCode \/ (same # {} /\ Skipped(dims[Min(same)], d)) THEN dims ELSE Append(dims, d)
  BY <1>0, <1>2 DEF AddDimension, Having, DimensionOf
<1>5. 1..(i + 1) = (1..i) \cup {j}
  BY <1>0
<1>6. CASE c = NoCode \/ (same # {} /\ Skipped(dims[Min(same)], d))
  <2>1. new = dims
    BY <1>4, <1>6
  <2>2. Covered(dims, s, i + 1)
    BY <1>2, <1>5, <1>6 DEF Covered
  <2> QED BY <2>1, <2>2
<1>7. CASE ~(c = NoCode \/ (same # {} /\ Skipped(dims[Min(same)], d)))
  <2>1. new = Append(dims, d) /\ c # NoCode
    BY <1>4, <1>7
  <2>2. d \in Dim(ts)
    BY <2>1, DimensionIs
  <2> HIDE DEF d, c
  <2>3. new \in Seq(Dim(ts)) /\ DOMAIN new = 1..(n + 1) /\ new[n + 1] = d
        /\ \A k \in 1..n : new[k] = dims[k]
    BY <1>1, <2>1, <2>2
  <2>4. \A b : /\ Having(dims, b) \in SUBSET (1..n)
               /\ Having(dims, b) # {} => /\ Min(Having(dims, b)) \in Having(dims, b)
                                          /\ Min(Having(new, b)) = Min(Having(dims, b))
               /\ Having(dims, b) = {} /\ b = c => Min(Having(new, b)) = n + 1
               /\ Having(dims, b) \subseteq Having(new, b)
    <3> TAKE b
    <3>1. Having(dims, b) \in SUBSET (1..n)
      BY <1>1 DEF Having
    <3>2. Having(dims, b) \subseteq Having(new, b)
      BY <1>1, <2>3 DEF Having
    <3> QED BY <1>1, <1>3, <2>1, <2>2, <3>1, <3>2, HavingAppend
  <2>5. Covered(new, s, i + 1)
    <3>1. Having(new, c) # {}
      BY <1>3, <2>3 DEF Having
    <3>2. DimCode(s[j][2]) = c
      BY <1>2 DEF c
    <3>3. ASSUME NEW k \in 1..(i + 1), DimCode(s[k][2]) # NoCode PROVE Having(new, DimCode(s[k][2])) # {}
      <4>1. CASE k \in 1..i BY <2>4, <3>3, <4>1 DEF Covered
      <4>2. CASE k = j BY <3>1, <3>2, <4>2
      <4> QED BY <1>5, <4>1, <4>2
    <3> QED BY <3>3 DEF Covered
  <2>6. ASSUME NEW k \in 1..n
        PROVE  LET b == new[k].code
                   m == Min(Having(new, b))
                   f == Min(Coded(s, b))
               IN  /\ f \in DOMAIN s /\ new[m] = DimensionOf(s[f][1], s[f][2], ts) /\ DimCode(s[f][2]) = b
                   /\ new[k].confidence <= new[m].confidence
    <3> DEFINE b == dims[k].code
               m == Min(Having(dims, b))
    <3>1. k \in Having(dims, b)
      BY <1>1 DEF Having
    <3>2. m \in 1..n /\ Min(Having(new, b)) = m
      BY <2>4, <3>1
    <3>3. new[k] = dims[k] /\ new[m] = dims[m]
      BY <2>3, <3>2
    <3> HIDE DEF m
    <3> QED BY <1>1, <3>2, <3>3 DEF Led, m
  <2>7. LET m == Min(Having(new, c))
            f == Min(Coded(s, c))
        IN  /\ f \in DOMAIN s /\ new[m] = DimensionOf(s[f][1], s[f][2], ts) /\ DimCode(s[f][2]) = c
            /\ d.confidence <= new[m].confidence
    <3>1. CASE same # {}
      <4> DEFINE m == Min(same)
      <4>1. m \in same /\ m \in 1..n /\ Min(Having(new, c)) = m
        BY <2>4, <3>1
      <4>2. dims[m].code = c /\ new[m] = dims[m]
        BY <2>3, <4>1 DEF Having
      <4>3. ~(dims[m].confidence < d.confidence)
        BY <1>7, <3>1 DEF Skipped
      <4>4. dims[m].confidence \in {6, 8} /\ d.confidence \in {6, 8}
        BY <1>1, <2>2, <4>1 DEF Dim
      <4>5. d.confidence <= dims[m].confidence
        BY <4>3, <4>4
      <4>6. LET f == Min(Coded(s, c))
            IN  f \in DOMAIN s /\ dims[m] = DimensionOf(s[f][1], s[f][2], ts) /\ DimCode(s[f][2]) = c
        BY <1>1, <4>1, <4>2 DEF Led
      <4> HIDE DEF m
      <4> QED BY <4>1, <4>2, <4>5, <4>6
    <3>2. CASE same = {}
      <4>1. Min(Having(new, c)) = n + 1
        BY <2>4, <3>2
      <4>2. Coded(s, c) \in SUBSET Nat /\ j \in Coded(s, c)
        BY <1>2 DEF Coded, c
      <4>3. ASSUME NEW k \in Coded(s, c) PROVE j <= k
        <5>1. k \in 1..Len(s) /\ DimCode(s[k][2]) = c
          BY DEF Coded
        <5>2. k \notin 1..i
          BY <2>1, <3>2, <5>1 DEF Covered
        <5> QED BY <1>0, <5>1, <5>2
      <4>4. Min(Coded(s, c)) = j
        BY <4>2, <4>3, MinIs
      <4>5. d.confidence \in {6, 8}
        BY <2>2 DEF Dim
      <4>6. new[n + 1] = DimensionOf(s[j][1], s[j][2], ts) /\ DimCode(s[j][2]) = c
        BY <1>2, <2>3 DEF d, c
      <4> QED BY <1>0, <2>3, <4>1, <4>4, <4>5, <4>6
    <3> QED BY <3>1, <3>2
  <2>8. Led(new, s, ts)
    <3> SUFFICES ASSUME NEW k \in 1..(n + 1)
                 PROVE  LET b == new[k].code
                            m == Min(Having(new, b))
                            f == Min(Coded(s, b))
                        IN  /\ f \in DOMAIN s /\ new[m] = DimensionOf(s[f][1], s[f][2], ts)
                            /\ DimCode(s[f][2]) = b /\ new[k].confidence <= new[m].confidence
      BY <2>3 DEF Led
    <3>1. CASE k \in 1..n BY <2>6, <3>1
    <3>2. CASE k = n + 1 BY <1>3, <2>3, <2>7, <3>2
    <3>3. k \in 1..n \/ k = n + 1
      OBVIOUS
    <3> QED BY <3>1, <3>2, <3>3, Zenon
  <2> QED BY <2>3, <2>5, <2>8
<1> QED BY <1>6, <1>7


LEMMA DimensionsListed ==
  ASSUME NEW ts \in SUBSET Table
  PROVE  /\ AllDimensions(ts) \in Seq(Dim(ts))
         /\ Led(AllDimensions(ts), ColumnsInOrder(ts), ts)
<1>1. PICK s \in Seq(ColumnPairs(ts)) : s = ColumnsInOrder(ts)
  BY ColumnsListed
<1> DEFINE P == {p \in (0..Len(s)) \X Seq(Dim(ts)) : Led(p[2], s, ts) /\ Covered(p[2], s, p[1])}
<1>2. \A i, v : <<i, v>> \in P <=> /\ i \in 0..Len(s) /\ v \in Seq(Dim(ts))
                                   /\ Led(v, s, ts) /\ Covered(v, s, i)
  OBVIOUS
<1> HIDE DEF P
<1>3. <<0, <<>>>> \in P
  <2>1. Led(<<>>, s, ts) /\ Covered(<<>>, s, 0)
    BY DEF Led, Covered
  <2>2. 0 \in 0..Len(s) /\ <<>> \in Seq(Dim(ts))
    BY <1>1
  <2> QED BY <1>2, <2>1, <2>2
<1>4. ASSUME NEW i \in 1..Len(s), NEW v, <<i - 1, v>> \in P PROVE <<i, AddDimension(v, s[i], ts)>> \in P
  <2> DEFINE k == i - 1
  <2>1. k \in 0..(Len(s) - 1) /\ k + 1 = i /\ <<k, v>> \in P
    BY <1>4
  <2> HIDE DEF k
  <2> QED BY <1>2, <2>1, DimensionAdded
<1>5. <<Len(s), AllDimensions(ts)>> \in P
  BY <1>1, <1>3, <1>4, DimensionFold
<1> QED BY <1>1, <1>2, <1>5

\* Up to the k-th dimension, the first of each code is kept, with all its joins.
Kept(kept, dims, k, ts) ==
  /\ kept \subseteq Dim(ts) /\ IsFiniteSet(kept)
  /\ \A d, e \in kept : d.code = e.code => d = e
  /\ \A j \in 1..k : \E e \in kept : e.code = dims[j].code
  /\ \A e \in kept :
       LET m == Min(Having(dims, e.code))
       IN  /\ m \in 1..k /\ dims[m].code = e.code
           /\ <<e.table, e.column>> = <<dims[m].table, dims[m].column>>
           /\ e.confidence = dims[m].confidence

LEMMA MergedFinite ==
  ASSUME NEW kept, IsFiniteSet(kept), NEW d
  PROVE  IsFiniteSet(Merged(kept, d))
<1>1. \A x, y : IsFiniteSet(kept \cup {x}) /\ IsFiniteSet((kept \ {x}) \cup {y})
  BY FS_AddElement, FS_RemoveElement
<1> QED BY <1>1 DEF Merged

LEMMA DimensionMerged ==
  ASSUME NEW ts \in SUBSET Table, NEW s, NEW dims \in Seq(Dim(ts)), Led(dims, s, ts),
         NEW k \in 0..(Len(dims) - 1), NEW kept, Kept(kept, dims, k, ts), NEW new,
         new = Merged(kept, dims[k + 1])
  PROVE  Kept(new, dims, k + 1, ts)
<1>1. PICK n \in Nat : n = Len(dims) /\ DOMAIN dims = 1..n /\ \A i \in 1..n : dims[i] \in Dim(ts)
  OBVIOUS
<1>2. k + 1 \in 1..n /\ 1..(k + 1) = (1..k) \cup {k + 1} /\ k \in Nat
  BY <1>1
<1>3. PICK d \in Dim(ts) : d = dims[k + 1]
  BY <1>1, <1>2
<1> DEFINE same == {e \in kept : e.code = d.code}
           m == Min(Having(dims, d.code))
<1>4. /\ Having(dims, d.code) \in SUBSET Nat /\ k + 1 \in Having(dims, d.code)
      /\ d.confidence <= dims[m].confidence
  <2>1. Having(dims, d.code) \in SUBSET Nat /\ k + 1 \in Having(dims, d.code)
    BY <1>1, <1>2, <1>3 DEF Having
  <2>2. k + 1 \in DOMAIN dims
    BY <1>1, <1>2
  <2>3. d.confidence <= dims[m].confidence
    BY <1>3, <2>2 DEF Led
  <2> QED BY <2>1, <2>3
<1>5. IsFiniteSet(new)
  BY MergedFinite DEF Kept
<1>6. CASE same = {}
  <2>1. new = kept \cup {d}
    BY <1>3, <1>6 DEF Merged
  <2>2. m = k + 1
    <3>1. ASSUME NEW i \in Having(dims, d.code) PROVE k + 1 <= i
      <4>1. i \in 1..n /\ dims[i].code = d.code
        BY <1>1 DEF Having
      <4>2. i \notin 1..k
        BY <1>6, <4>1 DEF Kept
      <4> QED BY <1>2, <4>1, <4>2
    <3> QED BY <1>4, <3>1, MinIs
  <2>3. new \subseteq Dim(ts) /\ \A e, f \in new : e.code = f.code => e = f
    BY <1>6, <2>1 DEF Kept
  <2>4. \A j \in 1..(k + 1) : \E e \in new : e.code = dims[j].code
    BY <1>2, <1>3, <2>1 DEF Kept
  <2>5. ASSUME NEW e \in new
        PROVE  LET l == Min(Having(dims, e.code))
               IN  /\ l \in 1..(k + 1) /\ dims[l].code = e.code
                   /\ <<e.table, e.column>> = <<dims[l].table, dims[l].column>>
                   /\ e.confidence = dims[l].confidence
    <3>1. CASE e \in kept
      BY <1>2, <3>1 DEF Kept
    <3>2. CASE e = d
      BY <1>2, <1>3, <2>2, <3>2
    <3> QED BY <2>1, <3>1, <3>2
  <2> QED BY <1>5, <2>3, <2>4, <2>5 DEF Kept
<1>7. CASE same # {}
  <2>1. PICK e \in kept : e.code = d.code /\ same = {e} /\ (CHOOSE x \in same : TRUE) = e
    <3>1. PICK e \in kept : e.code = d.code
      BY <1>7
    <3>2. same = {e}
      BY <3>1 DEF Kept
    <3> QED BY <3>1, <3>2
  <2>2. /\ e \in Dim(ts) /\ m \in 1..k /\ <<e.table, e.column>> = <<dims[m].table, dims[m].column>>
        /\ dims[m].code = e.code /\ e.confidence = dims[m].confidence
    BY <2>1 DEF Kept
  <2>3. d.confidence \in {6, 8} /\ e.confidence \in {6, 8}
    BY <2>2 DEF Dim
  <2>4. ~(d.confidence > e.confidence)
    BY <1>4, <2>2, <2>3
  <2> DEFINE f == [e EXCEPT !.joins = @ \cup d.joins]
  <2>5. new = IF d.confidence = e.confidence THEN (kept \ {e}) \cup {f} ELSE kept
    BY <1>3, <1>7, <2>1, <2>4 DEF Merged
  <2>6. /\ f \in Dim(ts) /\ f.code = e.code /\ f.table = e.table /\ f.column = e.column
        /\ f.confidence = e.confidence
    <3>1. /\ e \in [code : DOMAIN NameRank, table : ts, column : Column,
                    joins : SUBSET (ts \X Column \X ts), confidence : {6, 8}]
          /\ e.column \in ToSet(Cols[e.table])
          /\ \A j \in e.joins \cup d.joins : j[2] \in ToSet(Cols[j[1]])
          /\ d.joins \in SUBSET (ts \X Column \X ts)
      BY <2>2 DEF Dim
    <3>2. /\ f \in [code : DOMAIN NameRank, table : ts, column : Column,
                    joins : SUBSET (ts \X Column \X ts), confidence : {6, 8}]
          /\ f.joins = e.joins \cup d.joins
          /\ f.code = e.code /\ f.table = e.table /\ f.column = e.column /\ f.confidence = e.confidence
      BY <3>1
    <3> HIDE DEF f
    <3> QED BY <3>1, <3>2 DEF Dim
  <2> HIDE DEF f
  <2>7. \A x \in new : x \in Dim(ts) /\ \E y \in kept : /\ x.code = y.code /\ x.table = y.table
                                                        /\ x.column = y.column /\ x.confidence = y.confidence
    BY <2>5, <2>6 DEF Kept
  <2>8. \A x, y \in new : x.code = y.code => x = y
    BY <2>5, <2>6 DEF Kept
  <2>9. \A y \in kept : \E x \in new : x.code = y.code
    BY <2>5, <2>6
  <2>10. \A j \in 1..(k + 1) : \E x \in new : x.code = dims[j].code
    BY <1>2, <1>3, <2>1, <2>9 DEF Kept
  <2>11. ASSUME NEW x \in new
         PROVE  LET l == Min(Having(dims, x.code))
                IN  /\ l \in 1..(k + 1) /\ dims[l].code = x.code
                    /\ <<x.table, x.column>> = <<dims[l].table, dims[l].column>>
                    /\ x.confidence = dims[l].confidence
    <3>1. PICK y \in kept : /\ x.code = y.code /\ x.table = y.table
                            /\ x.column = y.column /\ x.confidence = y.confidence
      BY <2>7
    <3>2. LET l == Min(Having(dims, y.code))
          IN  /\ l \in 1..k /\ dims[l].code = y.code
              /\ <<y.table, y.column>> = <<dims[l].table, dims[l].column>>
              /\ y.confidence = dims[l].confidence
      BY DEF Kept
    <3> QED BY <1>2, <3>1, <3>2
  <2> QED BY <1>5, <2>7, <2>8, <2>10, <2>11 DEF Kept
<1> QED BY <1>6, <1>7

\* One dimension for each code, and it is that of the first column with it.
LEMMA DimensionsOk ==
  ASSUME NEW ts \in SUBSET Table, NEW ds, ds = DetectDimensions(ts)
  PROVE  /\ ds \subseteq Dim(ts) /\ IsFiniteSet(ds)
         /\ \A d, e \in ds : d.code = e.code => d = e
         /\ \A d \in ds : ColumnsInOrder(ts)[Min(Coded(ColumnsInOrder(ts), d.code))] = <<d.table, d.column>>
<1>1. PICK s \in Seq(ColumnPairs(ts)) : s = ColumnsInOrder(ts)
  BY ColumnsListed
<1>2. PICK dims \in Seq(Dim(ts)) : dims = AllDimensions(ts) /\ Led(dims, s, ts)
  BY <1>1, DimensionsListed
<1> DEFINE P == {p \in (0..Len(dims)) \X (SUBSET Dim(ts)) : Kept(p[2], dims, p[1], ts)}
<1>3. \A i, v : <<i, v>> \in P <=> i \in 0..Len(dims) /\ Kept(v, dims, i, ts)
  BY DEF Kept
<1> HIDE DEF P
<1>4. <<0, {}>> \in P
  <2>1. Kept({}, dims, 0, ts)
    BY FS_EmptySet DEF Kept
  <2>2. 0 \in 0..Len(dims)
    BY <1>2
  <2> QED BY <1>3, <2>1, <2>2
<1>5. ASSUME NEW i \in 1..Len(dims), NEW v, <<i - 1, v>> \in P PROVE <<i, Merged(v, dims[i])>> \in P
  <2> DEFINE k == i - 1
  <2>1. k \in 0..(Len(dims) - 1) /\ k + 1 = i /\ <<k, v>> \in P
    BY <1>5
  <2> HIDE DEF k
  <2> QED BY <1>2, <1>3, <2>1, DimensionMerged
<1>6. <<Len(dims), ds>> \in P
  BY <1>2, <1>4, <1>5, MergeFold
<1>7. Kept(ds, dims, Len(dims), ts)
  BY <1>3, <1>6
<1>8. ASSUME NEW d \in ds
       PROVE  s[Min(Coded(s, d.code))] = <<d.table, d.column>>
  <2> DEFINE m == Min(Having(dims, d.code))
             f == Min(Coded(s, d.code))
  <2>1. /\ m \in DOMAIN dims /\ dims[m].code = d.code
        /\ <<d.table, d.column>> = <<dims[m].table, dims[m].column>>
    BY <1>7 DEF Kept
  <2>2. /\ f \in DOMAIN s /\ dims[m] = DimensionOf(s[f][1], s[f][2], ts)
    BY <1>2, <2>1 DEF Led
  <2>3. s[f] \in ColumnPairs(ts)
    BY <2>2
  <2>4. s[f] = <<s[f][1], s[f][2]>> /\ dims[m].table = s[f][1] /\ dims[m].column = s[f][2]
    BY <2>2, <2>3 DEF ColumnPairs, DimensionOf
  <2> QED BY <2>1, <2>4
<1> QED BY <1>1, <1>7, <1>8 DEF Kept

\* detect_dimensions and _dedupe_dimensions, with their two comparisons, keep
\* for each code the first column that has it, of the columns in order.
THEOREM FirstColumnWinsHolds == MapSpec => []FirstColumnWins
<1>1. MadeInd /\ ReadInd => FirstColumnWins
  <2> SUFFICES ASSUME MadeInd, ReadInd, NEW x \in dimensions
               PROVE  ColumnsInOrder(tables)[Min(Coded(ColumnsInOrder(tables), x.code))]
                        = <<x.table, x.column>>
    BY DEF FirstColumnWins, Coded
  <2>1. tables \in SUBSET Table
    BY DEF ReadInd
  <2>2. dimensions = DetectDimensions(tables)
    BY DEF MadeInd
  <2> QED BY <2>1, <2>2, DimensionsOk
<1> QED BY <1>1, RunsMakeLayers, PTL

-----------------------------------------------------------------------------
(* Terminology *)

\* Layers whose elements have codes of their own, with a place by name.
Named(S) ==
  /\ \A x \in S : x.code \in DOMAIN NameRank
  /\ \A x, y \in S : x.code = y.code => x = y

LEMMA ListedBySize ==
  ASSUME NEW S, Sized(S), IsFiniteSet(S)
  PROVE  Listed(S, EntityBefore) \in Seq(S) /\ ToSet(Listed(S, EntityBefore)) = S
<1> DEFINE n == Cardinality(S)
           R == {p \in S \X S : EntityBefore(p[1], p[2])}
           s == Listed(S, EntityBefore)
<1>1. \A x, y \in S : <<x, y>> \in R <=> EntityBefore(x, y)
  OBVIOUS
<1> HIDE DEF R
<1>2. StrictOrder(S, R)
  BY <1>1, SizeOrder
<1>3. ASSUME NEW x \in S PROVE {y \in S : EntityBefore(y, x)} = Before(S, R, x)
  BY <1>1 DEF Before
<1>4. ASSUME NEW i \in 1..n PROVE s[i] \in S /\ Cardinality(Before(S, R, s[i])) = i - 1
  <2>0. PICK w \in S : Cardinality(Before(S, R, w)) = i - 1
    BY <1>2, PlaceExists
  <2>1. \E y \in S : Cardinality({z \in S : EntityBefore(z, y)}) = i - 1
    BY <1>3, <2>0
  <2>2. s[i] = CHOOSE x \in S : Cardinality({y \in S : EntityBefore(y, x)}) = i - 1
    BY DEF Listed
  <2>3. s[i] \in S /\ Cardinality({y \in S : EntityBefore(y, s[i])}) = i - 1
    BY <2>1, <2>2
  <2> QED BY <1>3, <2>3
<1>5. s \in [1..n -> S]
  BY <1>4 DEF Listed
<1> QED BY <1>2, <1>4, <1>5, ListRange

LEMMA ListedByName ==
  ASSUME NEW S, Named(S), IsFiniteSet(S)
  PROVE  Listed(S, ByName) \in Seq(S) /\ ToSet(Listed(S, ByName)) = S
<1> DEFINE n == Cardinality(S)
           rank == [x \in S |-> NameRank[x.code]]
           R == {p \in S \X S : rank[p[1]] < rank[p[2]]}
           s == Listed(S, ByName)
<1>1. \A x, y \in S : <<x, y>> \in R <=> ByName(x, y)
  BY DEF ByName
<1>2. StrictOrder(S, R)
  <2>1. rank \in [S -> Nat] /\ \A x, y \in S : rank[x] = rank[y] => x = y
    BY NamesAssumption DEF Named
  <2>2. \A x, y \in S : <<x, y>> \in R <=> rank[x] < rank[y]
    OBVIOUS
  <2> HIDE DEF rank, R
  <2> QED BY <2>1, <2>2, ByNumber
<1> HIDE DEF R
<1>3. ASSUME NEW x \in S PROVE {y \in S : ByName(y, x)} = Before(S, R, x)
  BY <1>1 DEF Before
<1>4. ASSUME NEW i \in 1..n PROVE s[i] \in S /\ Cardinality(Before(S, R, s[i])) = i - 1
  <2>0. PICK w \in S : Cardinality(Before(S, R, w)) = i - 1
    BY <1>2, PlaceExists
  <2>1. \E y \in S : Cardinality({z \in S : ByName(z, y)}) = i - 1
    BY <1>3, <2>0
  <2>2. s[i] = CHOOSE x \in S : Cardinality({y \in S : ByName(y, x)}) = i - 1
    BY DEF Listed
  <2>3. s[i] \in S /\ Cardinality({y \in S : ByName(y, s[i])}) = i - 1
    BY <2>1, <2>2
  <2> QED BY <1>3, <2>3
<1>5. s \in [1..n -> S]
  BY <1>4 DEF Listed
<1> QED BY <1>2, <1>4, <1>5, ListRange

\* The entries that words W can name for targets G, pairs of a type and a code.
EntrySet(W, G) ==
  {e \in [term : W, canonical : W, type : {g[1] : g \in G}, target : {g[2] : g \in G}] :
     <<e.type, e.target>> \in G}

\* The keys of a list of entries: duplicates share one.
Keys(es) == {<<es[i].term, es[i].type, es[i].target>> : i \in DOMAIN es}

LEMMA EntryAdded ==
  ASSUME NEW E, NEW es \in Seq(E), NEW e \in E
  PROVE  /\ AddEntry(es, e) \in Seq(E)
         /\ Keys(AddEntry(es, e)) = Keys(es) \cup {<<e.term, e.type, e.target>>}
<1>1. CASE \E i \in DOMAIN es : SameEntry(es[i], e)
  <2>1. AddEntry(es, e) = es
    BY <1>1 DEF AddEntry
  <2>2. PICK i \in DOMAIN es : SameEntry(es[i], e)
    BY <1>1
  <2>3. <<e.term, e.type, e.target>> \in Keys(es)
    BY <2>2 DEF SameEntry, Keys
  <2> QED BY <2>1, <2>3
<1>2. CASE ~\E i \in DOMAIN es : SameEntry(es[i], e)
  <2>1. AddEntry(es, e) = Append(es, e)
    BY <1>2 DEF AddEntry
  <2>2. PICK n \in Nat : n = Len(es)
    OBVIOUS
  <2>3. /\ DOMAIN es = 1..n /\ DOMAIN Append(es, e) = (1..n) \cup {n + 1}
        /\ Append(es, e)[n + 1] = e /\ \A i \in 1..n : Append(es, e)[i] = es[i]
    BY <2>2
  <2>4. Keys(Append(es, e)) = Keys(es) \cup {<<e.term, e.type, e.target>>}
    BY <2>3 DEF Keys
  <2> QED BY <2>1, <2>4
<1> QED BY <1>1, <1>2

LEMMA EntriesAdded ==
  ASSUME NEW E, NEW b \in Seq(E), NEW s \in Seq(E), NEW es, es = AddEntries(b, s)
  PROVE  es \in Seq(E) /\ Keys(b) \subseteq Keys(es) /\ Keys(s) \subseteq Keys(es)
<1>1. PICK n \in Nat : n = Len(s) /\ DOMAIN s = 1..n /\ \A i \in 1..n : s[i] \in E
  OBVIOUS
<1> DEFINE key(i) == <<s[i].term, s[i].type, s[i].target>>
           P == {p \in (0..n) \X Seq(E) : /\ Keys(b) \subseteq Keys(p[2])
                                          /\ \A j \in 1..p[1] : key(j) \in Keys(p[2])}
<1>2. \A i, v : <<i, v>> \in P <=> /\ i \in 0..n /\ v \in Seq(E) /\ Keys(b) \subseteq Keys(v)
                                   /\ \A j \in 1..i : key(j) \in Keys(v)
  OBVIOUS
<1> HIDE DEF P
<1>3. <<0, b>> \in P
  BY <1>2
<1>4. ASSUME NEW i \in 1..n, NEW v, <<i - 1, v>> \in P PROVE <<i, AddEntry(v, s[i])>> \in P
  <2>1. PICK k \in Nat : k = i - 1 /\ i = k + 1 /\ 1..i = (1..k) \cup {i}
    OBVIOUS
  <2>2. v \in Seq(E) /\ Keys(b) \subseteq Keys(v) /\ \A j \in 1..k : key(j) \in Keys(v)
    BY <1>2, <1>4, <2>1
  <2>3. /\ AddEntry(v, s[i]) \in Seq(E)
        /\ Keys(AddEntry(v, s[i])) = Keys(v) \cup {key(i)}
    <3>1. PICK e \in E : e = s[i]
      BY <1>1
    <3>2. /\ AddEntry(v, e) \in Seq(E)
          /\ Keys(AddEntry(v, e)) = Keys(v) \cup {<<e.term, e.type, e.target>>}
      BY <2>2, EntryAdded
    <3> QED BY <3>1, <3>2
  <2> HIDE DEF key
  <2>4. \A j \in 1..i : key(j) \in Keys(AddEntry(v, s[i]))
    BY <2>1, <2>2, <2>3
  <2>5. Keys(b) \subseteq Keys(AddEntry(v, s[i])) /\ i \in 0..n
    BY <2>2, <2>3
  <2> QED BY <1>2, <2>3, <2>4, <2>5
<1>5. <<n, es>> \in P
  BY <1>1, <1>3, <1>4, EntryFold
<1>6. es \in Seq(E) /\ Keys(b) \subseteq Keys(es) /\ \A j \in 1..n : key(j) \in Keys(es)
  BY <1>2, <1>5
<1> QED BY <1>1, <1>6 DEF Keys

\* A family adds entries for a target that has entries already, and drops none.
LEMMA FamilyAdded ==
  ASSUME NEW W, NEW G, NEW es \in Seq(EntrySet(W, G)), NEW family, family.key \in W,
         family.aliases \in Seq(W), NEW new, new = AddFamily(es, family)
  PROVE  new \in Seq(EntrySet(W, G)) /\ Keys(es) \subseteq Keys(new)
<1> DEFINE related == {i \in DOMAIN es : family.key \in {es[i].term, es[i].canonical}}
           first == es[Min(related)]
           Entry(alias) == [term |-> alias, canonical |-> family.key, type |-> first.type,
                            target |-> first.target]
           added == [i \in DOMAIN family.aliases |-> Entry(family.aliases[i])]
<1>1. CASE related = {}
  BY <1>1 DEF AddFamily
<1>2. CASE related # {}
  <2>1. related \in SUBSET Nat
    OBVIOUS
  <2>2. Min(related) \in related
    BY <1>2, <2>1, MinPlace
  <2>3. first \in EntrySet(W, G)
    BY <2>2
  <2>4. new = AddEntries(es, added)
    BY <1>2 DEF AddFamily
  <2> HIDE DEF first
  <2>5. ASSUME NEW alias \in W PROVE Entry(alias) \in EntrySet(W, G)
    BY <2>3 DEF EntrySet
  <2>6. PICK n \in Nat : /\ DOMAIN family.aliases = 1..n
                         /\ \A i \in 1..n : family.aliases[i] \in W
    OBVIOUS
  <2>7. added \in Seq(EntrySet(W, G))
    <3>1. added \in [1..n -> EntrySet(W, G)]
      BY <2>5, <2>6
    <3> HIDE DEF added
    <3> QED BY <3>1
  <2> HIDE DEF added
  <2> QED BY <2>4, <2>7, EntriesAdded
<1> QED BY <1>1, <1>2

LEMMA FamiliesAdded ==
  ASSUME NEW W, NEW G, NEW b \in Seq(EntrySet(W, G)), NEW fs, fs \in Seq(ToSet(fs)),
         \A f \in ToSet(fs) : f.key \in W /\ f.aliases \in Seq(W), NEW es, es = AddFamilies(b, fs)
  PROVE  es \in Seq(EntrySet(W, G)) /\ Keys(b) \subseteq Keys(es)
<1> DEFINE E == EntrySet(W, G)
<1>1. PICK n \in Nat : n = Len(fs) /\ \A i \in 1..n : fs[i] \in ToSet(fs)
  OBVIOUS
<1> DEFINE P == {p \in (0..n) \X Seq(E) : Keys(b) \subseteq Keys(p[2])}
<1>2. \A i, v : <<i, v>> \in P <=> i \in 0..n /\ v \in Seq(E) /\ Keys(b) \subseteq Keys(v)
  OBVIOUS
<1> HIDE DEF P
<1>3. <<0, b>> \in P
  BY <1>2
<1>4. ASSUME NEW i \in 1..n, NEW v, <<i - 1, v>> \in P PROVE <<i, AddFamily(v, fs[i])>> \in P
  <2>1. v \in Seq(E) /\ Keys(b) \subseteq Keys(v)
    BY <1>2, <1>4
  <2>2. fs[i].key \in W /\ fs[i].aliases \in Seq(W)
    BY <1>1
  <2>3. AddFamily(v, fs[i]) \in Seq(E) /\ Keys(v) \subseteq Keys(AddFamily(v, fs[i]))
    BY <2>1, <2>2, FamilyAdded
  <2>4. Keys(b) \subseteq Keys(AddFamily(v, fs[i])) /\ i \in 0..n
    BY <2>1, <2>3
  <2> HIDE DEF E
  <2> QED BY <1>2, <2>3, <2>4
<1>5. <<n, es>> \in P
  BY <1>1, <1>3, <1>4, FamilyFold
<1> QED BY <1>2, <1>5


\* The names and aliases there are, of codes and of families.
Words ==
  {Term[c] : c \in DOMAIN NameRank} \cup (UNION {ToSet(AliasesOf[c]) : c \in DOMAIN NameRank})
  \cup {f.key : f \in ToSet(GlobalAliases)} \cup (UNION {ToSet(f.aliases) : f \in ToSet(GlobalAliases)})

LEMMA KeysOf ==
  ASSUME NEW es
  PROVE  Keys(es) = {<<e.term, e.type, e.target>> : e \in ToSet(es)}
BY DEF Keys, ToSet

LEMMA FirstStays ==
  ASSUME NEW E, NEW e \in E, NEW t \in Seq(E)
  PROVE  /\ <<e>> \o t \in Seq(E) /\ 1 \in DOMAIN (<<e>> \o t)
         /\ (<<e>> \o t)[1] = e
<1>1. PICK s \in Seq(E) : s = <<e>> /\ Len(s) = 1 /\ s[1] = e
  <2>1. <<e>> \in Seq(E)
    OBVIOUS
  <2>2. Len(<<e>>) = 1 /\ <<e>>[1] = e
    OBVIOUS
  <2> QED BY <2>1, <2>2
<1>2. PICK n \in Nat : n = Len(t)
  OBVIOUS
<1>3. s \o t \in Seq(E) /\ Len(s \o t) = 1 + n /\ (s \o t)[1] = e
  BY <1>1, <1>2
<1>4. 1 \in DOMAIN (s \o t)
  BY <1>2, <1>3
<1> QED BY <1>1, <1>3, <1>4

\* A code's entries are about it, and one of them is its name.
LEMMA CodeEntries ==
  ASSUME NEW c \in DOMAIN NameRank, NEW type, NEW G, <<type, c>> \in G
  PROVE  /\ EntriesOf(type, c) \in Seq(EntrySet(Words, G))
         /\ <<Term[c], type, c>> \in Keys(EntriesOf(type, c))
<1> DEFINE E == EntrySet(Words, G)
           Entry(term) == [term |-> term, canonical |-> Term[c], type |-> type, target |-> c]
           named == <<Entry(Term[c])>>
           others == IF type = "dimension" THEN <<>>
                     ELSE [i \in DOMAIN AliasesOf[c] |-> Entry(AliasesOf[c][i])]
<1>1. ASSUME NEW w \in Words PROVE Entry(w) \in E
  <2>1. Term[c] \in Words
    BY DEF Words
  <2>2. <<type, c>>[1] = type /\ <<type, c>>[2] = c
    OBVIOUS
  <2>3. type \in {g[1] : g \in G} /\ c \in {g[2] : g \in G}
    BY <2>2
  <2> QED BY <2>1, <2>3 DEF EntrySet
<1>2. Term[c] \in Words
  BY DEF Words
<1>3. others \in Seq(E)
  <2>1. CASE type = "dimension"
    BY <2>1
  <2>2. CASE type # "dimension"
    <3>1. PICK as \in Seq(ToSet(AliasesOf[c])) : as = AliasesOf[c]
      BY AliasesAssumption
    <3>2. PICK n \in Nat : DOMAIN as = 1..n /\ \A i \in 1..n : as[i] \in ToSet(AliasesOf[c])
      BY <3>1
    <3>3. \A i \in 1..n : as[i] \in Words
      BY <3>2 DEF Words
    <3>4. [i \in 1..n |-> Entry(as[i])] \in [1..n -> E]
      BY <1>1, <3>3
    <3>5. others = [i \in 1..n |-> Entry(as[i])]
      BY <2>2, <3>1, <3>2
    <3>6. others \in [1..n -> E]
      BY <3>4, <3>5
    <3> HIDE DEF E, others
    <3> QED BY <3>6
  <2> QED BY <2>1, <2>2
<1>4. EntriesOf(type, c) = named \o others
  BY DEF EntriesOf
<1> HIDE DEF E, named, others
<1>5. PICK e \in E : e = Entry(Term[c])
  BY <1>1, <1>2
<1>6. named = <<e>>
  BY <1>5 DEF named
<1> HIDE DEF Entry
<1>7. /\ named \o others \in Seq(E) /\ 1 \in DOMAIN (named \o others)
      /\ (named \o others)[1] = e
  BY <1>3, <1>6, FirstStays
<1>8. <<Term[c], type, c>> \in Keys(named \o others)
  BY <1>7, <1>5 DEF Keys, Entry
<1> QED BY <1>7, <1>4, <1>8 DEF E

\* The entries of the codes of a list.
EntryLists(type, s) == [i \in DOMAIN s |-> EntriesOf(type, s[i].code)]

LEMMA ListEntries ==
  ASSUME NEW S, Named(S), NEW s \in Seq(S), ToSet(s) = S, NEW type, NEW G,
         \A x \in S : <<type, x.code>> \in G, NEW es, es = FlattenSeq(EntryLists(type, s))
  PROVE  /\ es \in Seq(EntrySet(Words, G))
         /\ \A x \in S : <<Term[x.code], type, x.code>> \in Keys(es)
<1> DEFINE E == EntrySet(Words, G)
<1>1. PICK n \in Nat : n = Len(s) /\ DOMAIN s = 1..n /\ \A i \in 1..n : s[i] \in S
  OBVIOUS
<1>2. ASSUME NEW x \in S
      PROVE  EntriesOf(type, x.code) \in Seq(E) /\ <<Term[x.code], type, x.code>> \in Keys(EntriesOf(type, x.code))
  BY CodeEntries DEF Named
<1> HIDE DEF E
<1>3. EntryLists(type, s) \in [1..n -> Seq(E)]
  BY <1>1, <1>2 DEF EntryLists
<1>4. PICK t \in Seq(Seq(E)) : t = EntryLists(type, s) /\ Len(t) = n
  BY <1>3
<1>5. es \in Seq(E) /\ \A e : e \in ToSet(es) <=> \E i \in 1..n : e \in ToSet(t[i])
  BY <1>4, FlattenRange
<1>6. ASSUME NEW x \in S PROVE <<Term[x.code], type, x.code>> \in Keys(es)
  <2>1. PICK i \in 1..n : s[i] = x
    BY <1>1 DEF ToSet
  <2>2. t[i] = EntriesOf(type, x.code)
    BY <1>1, <1>4, <2>1 DEF EntryLists
  <2>3. ToSet(t[i]) \subseteq ToSet(es)
    BY <1>5
  <2>4. <<Term[x.code], type, x.code>> \in {<<e.term, e.type, e.target>> : e \in ToSet(t[i])}
    BY <1>2, <2>2, KeysOf
  <2>5. <<Term[x.code], type, x.code>> \in {<<e.term, e.type, e.target>> : e \in ToSet(es)}
    BY <2>3, <2>4
  <2> QED BY <2>5, KeysOf
<1> QED BY <1>5, <1>6 DEF E

\* The layers that are listed, and the pairs of a type and their codes.
Listable(S) == Named(S) /\ IsFiniteSet(S)

Aimed(type, S, G) == \A x \in S : <<type, x.code>> \in G

\* Entries that are about G, with one for the name of each code of S.
Entries(es, type, S, G) ==
  /\ es \in Seq(EntrySet(Words, G))
  /\ \A x \in S : <<Term[x.code], type, x.code>> \in Keys(es)

\* The entries of the layers, each in its order.
LEMMA LayerListed ==
  ASSUME NEW S, Listable(S), NEW type, NEW G, Aimed(type, S, G), NEW es,
         \/ Sized(S) /\ es = LayerEntries(type, S, DomainBefore)
         \/ Sized(S) /\ es = LayerEntries(type, S, EntityBefore)
         \/ es = LayerEntries(type, S, ByName)
  PROVE  Entries(es, type, S, G)
<1> USE DEF Listable, Aimed
<1>1. PICK s \in Seq(S) : ToSet(s) = S /\ es = FlattenSeq(EntryLists(type, s))
  <2>1. CASE Sized(S) /\ es = LayerEntries(type, S, DomainBefore)
    <3>1. LayerEntries(type, S, DomainBefore) = LayerEntries(type, S, EntityBefore)
      BY DEF LayerEntries, Listed, DomainBefore, EntityBefore
    <3>2. es = FlattenSeq(EntryLists(type, Listed(S, EntityBefore)))
      BY <2>1, <3>1 DEF LayerEntries, EntryLists
    <3> QED BY <2>1, <3>2, ListedBySize
  <2>2. CASE Sized(S) /\ es = LayerEntries(type, S, EntityBefore)
    <3>1. es = FlattenSeq(EntryLists(type, Listed(S, EntityBefore)))
      BY <2>2 DEF LayerEntries, EntryLists
    <3> QED BY <2>2, <3>1, ListedBySize
  <2>3. CASE es = LayerEntries(type, S, ByName)
    <3>1. es = FlattenSeq(EntryLists(type, Listed(S, ByName)))
      BY <2>3 DEF LayerEntries, EntryLists
    <3> QED BY <3>1, ListedByName
  <2> QED BY <2>1, <2>2, <2>3
<1> QED BY <1>1, ListEntries DEF Entries

\* The layers and what a term of theirs is about.
Targets ==
  ({"domain"} \X CodesIn(domains)) \cup ({"entity"} \X CodesIn(entities))
  \cup ({"concept"} \X CodesIn(concepts)) \cup ({"metric"} \X CodesIn(metrics))
  \cup ({"dimension"} \X CodesIn(dimensions))

Concatenation(l, s, t) == l = s \o t

LEMMA KeysConcat ==
  ASSUME NEW E, NEW s \in Seq(E), NEW t \in Seq(E), NEW l, Concatenation(l, s, t)
  PROVE  l \in Seq(E) /\ Keys(l) = Keys(s) \cup Keys(t)
<1>1. l = s \o t
  BY DEF Concatenation
<1>2. l \in Seq(E)
  BY <1>1
<1>3. ToSet(l) = ToSet(s) \cup ToSet(t)
  BY <1>1, ToSetConcat
<1>4. Keys(l) = {<<e.term, e.type, e.target>> : e \in ToSet(s) \cup ToSet(t)}
  BY <1>3, KeysOf
<1>5. Keys(s) = {<<e.term, e.type, e.target>> : e \in ToSet(s)}
      /\ Keys(t) = {<<e.term, e.type, e.target>> : e \in ToSet(t)}
  BY KeysOf
<1>6. Keys(l) = Keys(s) \cup Keys(t)
  BY <1>4, <1>5
<1> QED BY <1>2, <1>6

\* l is made of five lists.
OfFive(l, a, b, c, d, f) == l = a \o b \o c \o d \o f

LEMMA KeysJoined ==
  ASSUME NEW E, NEW a \in Seq(E), NEW b \in Seq(E), NEW c \in Seq(E), NEW d \in Seq(E), NEW f \in Seq(E),
         NEW l, OfFive(l, a, b, c, d, f)
  PROVE  l \in Seq(E) /\ Keys(a) \cup Keys(b) \cup Keys(c) \cup Keys(d) \cup Keys(f) \subseteq Keys(l)
<1>1. PICK ab : ab = a \o b
  OBVIOUS
<1>2. PICK abc : abc = ab \o c
  OBVIOUS
<1>3. PICK abcd : abcd = abc \o d
  OBVIOUS
<1>4. l = abcd \o f
  BY <1>1, <1>2, <1>3 DEF OfFive
<1>5. /\ Concatenation(ab, a, b) /\ Concatenation(abc, ab, c)
      /\ Concatenation(abcd, abc, d) /\ Concatenation(l, abcd, f)
  BY <1>1, <1>2, <1>3, <1>4 DEF Concatenation
<1>6. ab \in Seq(E) /\ Keys(ab) = Keys(a) \cup Keys(b)
  BY <1>5, KeysConcat
<1>7. abc \in Seq(E) /\ Keys(abc) = Keys(ab) \cup Keys(c)
  BY <1>5, <1>6, KeysConcat
<1>8. abcd \in Seq(E) /\ Keys(abcd) = Keys(abc) \cup Keys(d)
  BY <1>5, <1>7, KeysConcat
<1>9. l \in Seq(E) /\ Keys(l) = Keys(abcd) \cup Keys(f)
  BY <1>5, <1>8, KeysConcat
<1> QED BY <1>6, <1>7, <1>8, <1>9

\* The entries that are made of a list, from none.
LEMMA FromNone ==
  ASSUME NEW E, NEW l \in Seq(E)
  PROVE  AddEntries(<<>>, l) \in Seq(E) /\ Keys(l) \subseteq Keys(AddEntries(<<>>, l))
<1>1. <<>> \in Seq(E)
  OBVIOUS
<1> QED BY <1>1, EntriesAdded

\* Each code has the entry with its name among the terms.
HasTerms(type, S, ts) ==
  \A x \in S : \E e \in ts : e.type = type /\ e.target = x.code /\ e.term = Term[x.code]

\* Terms are about the codes of the layers, and no code is without its name:
\* entries that are left out have one with the same term and target.
LEMMA TerminologyOk ==
  ASSUME BusinessOk, Listable(dimensions), NEW ts, ts = BuildTerminology
  PROVE  /\ \A e \in ts : <<e.type, e.target>> \in Targets
         /\ HasTerms("domain", domains, ts) /\ HasTerms("entity", entities, ts)
         /\ HasTerms("concept", concepts, ts) /\ HasTerms("metric", metrics, ts)
         /\ HasTerms("dimension", dimensions, ts)
<1> DEFINE E == EntrySet(Words, Targets)
           Has(type, S, es) == \A x \in S : <<Term[x.code], type, x.code>> \in Keys(es)
<1>1. /\ Sized(domains) /\ Listable(domains) /\ Sized(entities) /\ Listable(entities)
      /\ Listable(concepts) /\ Listable(metrics)
  BY DEF BusinessOk, Sized, Named, Listable
<1>2. /\ Aimed("domain", domains, Targets) /\ Aimed("entity", entities, Targets)
      /\ Aimed("concept", concepts, Targets) /\ Aimed("metric", metrics, Targets)
      /\ Aimed("dimension", dimensions, Targets)
  BY DEF Aimed, Targets, CodesIn
<1>3. PICK a : a = LayerEntries("domain", domains, DomainBefore) /\ Entries(a, "domain", domains, Targets)
  BY <1>1, <1>2, LayerListed
<1>4. PICK b : b = LayerEntries("entity", entities, EntityBefore) /\ Entries(b, "entity", entities, Targets)
  BY <1>1, <1>2, LayerListed
<1>5. PICK c : c = LayerEntries("concept", concepts, ByName) /\ Entries(c, "concept", concepts, Targets)
  BY <1>1, <1>2, LayerListed
<1>6. PICK d : d = LayerEntries("metric", metrics, ByName) /\ Entries(d, "metric", metrics, Targets)
  BY <1>1, <1>2, LayerListed
<1>7. PICK f : f = LayerEntries("dimension", dimensions, ByName) /\ Entries(f, "dimension", dimensions, Targets)
  BY <1>1, <1>2, LayerListed
<1>8. PICK l \in Seq(E) : /\ OfFive(l, a, b, c, d, f)
                          /\ Keys(a) \cup Keys(b) \cup Keys(c) \cup Keys(d) \cup Keys(f) \subseteq Keys(l)
  <2>1. a \in Seq(E) /\ b \in Seq(E) /\ c \in Seq(E) /\ d \in Seq(E) /\ f \in Seq(E)
    BY <1>3, <1>4, <1>5, <1>6, <1>7 DEF Entries
  <2>2. PICK l : OfFive(l, a, b, c, d, f)
    BY DEF OfFive
  <2>3. /\ l \in Seq(E)
        /\ Keys(a) \cup Keys(b) \cup Keys(c) \cup Keys(d) \cup Keys(f) \subseteq Keys(l)
    <3> HIDE DEF E
    <3> QED BY <2>1, <2>2, KeysJoined
  <2> QED BY <2>2, <2>3
<1>9. ts = ToSet(AddFamilies(AddEntries(<<>>, l), GlobalAliases))
  BY <1>3, <1>4, <1>5, <1>6, <1>7, <1>8 DEF BuildTerminology, OfFive
<1>10. PICK m \in Seq(E) : m = AddEntries(<<>>, l) /\ Keys(l) \subseteq Keys(m)
  <2> HIDE DEF E, Has
  <2> QED BY FromNone
<1>11. \A g \in ToSet(GlobalAliases) : g.key \in Words /\ g.aliases \in Seq(Words)
  <2> TAKE g \in ToSet(GlobalAliases)
  <2>1. g.key \in Words /\ ToSet(g.aliases) \subseteq Words
    BY DEF Words
  <2>2. g.aliases \in Seq(ToSet(g.aliases))
    BY AliasesAssumption
  <2> QED BY <2>1, <2>2
<1>12. PICK n \in Seq(E) : n = AddFamilies(m, GlobalAliases) /\ Keys(m) \subseteq Keys(n)
  BY <1>11, AliasesAssumption, FamiliesAdded
<1>13. ts = ToSet(n) /\ Keys(n) = {<<e.term, e.type, e.target>> : e \in ts}
  BY <1>9, <1>10, <1>12, KeysOf
<1>14. ToSet(n) \subseteq E
  <2> HIDE DEF E
  <2> QED BY ToSetFinite
<1>15. \A e \in ts : <<e.type, e.target>> \in Targets
  BY <1>13, <1>14 DEF EntrySet
<1>16. ASSUME NEW type, NEW S, Has(type, S, l) PROVE HasTerms(type, S, ts)
  BY <1>10, <1>12, <1>13, <1>16 DEF HasTerms
<1>17. /\ Has("domain", domains, l) /\ Has("entity", entities, l) /\ Has("concept", concepts, l)
       /\ Has("metric", metrics, l) /\ Has("dimension", dimensions, l)
  BY <1>3, <1>4, <1>5, <1>6, <1>7, <1>8 DEF Entries
<1> HIDE DEF Has
<1> QED BY <1>15, <1>16, <1>17

-----------------------------------------------------------------------------
(* What the layers say of each other *)

LEMMA DimensionsListable ==
  ASSUME MadeInd, ReadInd
  PROVE  Listable(dimensions) /\ dimensions \subseteq Dim(tables)
<1>1. tables \in SUBSET Table
  BY DEF ReadInd
<1>2. CASE dimensions = {}
  BY <1>2, FS_EmptySet DEF Listable, Named
<1>3. CASE dimensions = DetectDimensions(tables)
  <2>1. /\ dimensions \subseteq Dim(tables) /\ IsFiniteSet(dimensions)
        /\ \A d, e \in dimensions : d.code = e.code => d = e
    BY <1>1, <1>3, DimensionsOk
  <2>2. \A d \in dimensions : d.code \in DOMAIN NameRank
    BY <2>1 DEF Dim
  <2> QED BY <2>1, <2>2 DEF Listable, Named
<1> QED BY <1>2, <1>3 DEF MadeInd

\* What is built for the terms of a run is about its layers.
LEMMA TermsResolve ==
  ASSUME MadeInd, ReadInd, NEW e \in terms
  PROVE  <<e.type, e.target>> \in Targets
<1>1. terms = BuildTerminology
  BY DEF MadeInd
<1> QED BY <1>1, BusinessHolds, DimensionsListable, TerminologyOk

\* Every reference from one layer to another resolves: the services
\* (detect_domains, detect_entities, detect_concepts, detect_metrics,
\* detect_dimensions, build_terminology) name tables that were found, codes of
\* the layers below, columns of the tables, and no code twice.
THEOREM LayersResolveHolds == MapSpec => []LayersResolve
<1>1. ASSUME MadeInd, ReadInd PROVE LayersResolve
  <2>1. BusinessOk
    BY <1>1, BusinessHolds
  <2>2. Listable(dimensions) /\ dimensions \subseteq Dim(tables)
    BY <1>1, DimensionsListable
  <2>3. \A x \in domains \cup entities \cup concepts \cup metrics : x.tables \subseteq tables
    BY <2>1 DEF BusinessOk, EntityOk, MetricOk
  <2>4. \A e \in entities : e.domain \in CodesIn(domains) \cup {NoCode}
    BY <2>1 DEF BusinessOk, EntityOk, CodesIn
  <2>5. ASSUME NEW x \in concepts \cup metrics
        PROVE  x.entity \in CodesIn(entities) /\ x.domain \in CodesIn(domains) \cup {NoCode}
    <3>1. NamesEntity(x, entities)
      BY <2>1 DEF BusinessOk, MetricOk
    <3> QED BY <2>4, <3>1 DEF NamesEntity, CodesIn
  <2>6. ASSUME NEW x \in dimensions, NEW j \in {<<x.table, x.column, x.table>>} \cup x.joins
        PROVE  {j[1], j[3]} \subseteq tables /\ j[2] \in ToSet(Cols[j[1]])
    <3>1. /\ x.table \in tables /\ x.column \in ToSet(Cols[x.table])
          /\ x.joins \subseteq tables \X Column \X tables
          /\ \A i \in x.joins : i[2] \in ToSet(Cols[i[1]])
      BY <2>2 DEF Dim
    <3>2. CASE j = <<x.table, x.column, x.table>>
      BY <3>1, <3>2
    <3>3. CASE j \in x.joins
      BY <3>1, <3>3
    <3> QED BY <3>2, <3>3
  <2>7. \A e \in terms : e.target \in
          CodesIn(domains \cup entities \cup concepts \cup metrics \cup dimensions)
    <3> TAKE e \in terms
    <3>1. <<e.type, e.target>> \in Targets
      BY <1>1, TermsResolve
    <3>2. e.target \in CodesIn(domains) \cup CodesIn(entities) \cup CodesIn(concepts)
                      \cup CodesIn(metrics) \cup CodesIn(dimensions)
      BY <3>1 DEF Targets
    <3> QED BY <3>2 DEF CodesIn
  <2>8. \A layer \in {domains, entities, concepts, metrics, dimensions} :
          \A x, y \in layer : x.code = y.code => x = y
    BY <2>1, <2>2 DEF BusinessOk, Sized, Listable, Named
  <2> QED BY <2>3, <2>4, <2>5, <2>6, <2>7, <2>8 DEF LayersResolve
<1> QED BY <1>1, RunsMakeLayers, PTL

\* build_terminology leaves no code of a layer without its name: an entry is
\* only left out for one with the same term, type and target.
THEOREM EveryCodeHasTermHolds == MapSpec => []EveryCodeHasTerm
<1>1. ASSUME MadeInd, ReadInd, step = "RelationshipGraphCreation" PROVE EveryCodeHasTerm
  <2>1. terms = BuildTerminology
    BY <1>1 DEF MadeInd
  <2>2. /\ HasTerms("domain", domains, terms) /\ HasTerms("entity", entities, terms)
        /\ HasTerms("concept", concepts, terms) /\ HasTerms("metric", metrics, terms)
        /\ HasTerms("dimension", dimensions, terms)
    BY <1>1, <2>1, BusinessHolds, DimensionsListable, TerminologyOk
  <2>3. ASSUME NEW p \in {<<"domain", domains>>, <<"entity", entities>>, <<"concept", concepts>>,
                           <<"metric", metrics>>, <<"dimension", dimensions>>}
        PROVE  HasTerms(p[1], p[2], terms)
    BY <2>2
  <2> QED BY <2>3 DEF EveryCodeHasTerm, HasTerms, CodesIn
<1>2. MadeInd /\ ReadInd => EveryCodeHasTerm
  BY <1>1 DEF EveryCodeHasTerm
<1> QED BY <1>2, RunsMakeLayers, PTL
===============================================================================
