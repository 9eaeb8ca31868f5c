----------------------------- MODULE KnowledgeMap -----------------------------
(***************************************************************************)
(* The end of a discovery run and the first use of what it made: the       *)
(* relationship graph, the knowledge map, its rows in the metadata         *)
(* database, the map that get_knowledge_map makes of the rows, and the     *)
(* part of it that SchemaRetrievalService gives to a question.             *)
(*                                                                         *)
(* Discovery.tla has the failures of these steps, and QueryPipeline.tla a  *)
(* map that changes while it is read; here every call succeeds.            *)
(***************************************************************************)
EXTENDS SemanticLayers

CONSTANTS
  NotYet,       \* the value of a variable that no step has set
  NameOf,       \* for each column <stem>_id, the tables with a name for the stem
  PrefixOf,     \* and the tables with a name that begins with the stem and _
  CodeWithin,   \* for each code, the entity codes that it contains
  FixedConcepts,\* concepts that come with their entity
  Questions,    \* for each question, the metrics that its metric keywords name
  TopN          \* documents a retrieval takes: 12, or twice top_k

VARIABLES
  graph,        \* RelationshipGraph: its edges <<table, column, table, column>>
  knowledgeMap, \* DatabaseKnowledgeMap, as built
  stored,       \* its rows
  loaded,       \* the map a query reads
  context       \* RetrievalContext of a question

endVars == <<graph, knowledgeMap, stored, loaded, context>>
mapVars == <<vars, endVars>>

-----------------------------------------------------------------------------
(* The relationship graph *)

Reverse4(e) == <<e[3], e[4], e[1], e[2]>>
BothWays(edges) == edges \cup {Reverse4(e) : e \in edges}

\* Bug: the target of a relationship need not be a node.
KeyEdges_Any(ts) ==
  UNION {{<<r.source, r.pairs[i][1], r.target, r.pairs[i][2]>> : i \in DOMAIN r.pairs} : r \in rels}

\* An edge for every pair of columns of a relationship between nodes.
KeyEdges(ts) ==
  UNION {{<<r.source, r.pairs[i][1], r.target, r.pairs[i][2]>> : i \in DOMAIN r.pairs} :
         r \in {x \in rels : x.source \in ts /\ x.target \in ts}}

\* The table a column <stem>_id points to: one with a name for the stem, else
\* one whose name begins with it, and never its own.
PointsTo(t, c, ts) ==
  LET Found(S) == IF S \cap ts # {} THEN FirstOf(S \cap ts, Earlier) ELSE NoTable
  IN  IF c \notin DOMAIN NameOf THEN NoTable
      ELSE LET u == IF Found(NameOf[c]) # NoTable THEN Found(NameOf[c]) ELSE Found(PrefixOf[c])
           IN  IF u = t THEN NoTable ELSE u

\* Its key is id or of the column's own name; without one, id is assumed.
AssumedKey(u, c) ==
  IF FirstCol(u, Pk[u] \cap {"id", c}) = NoColumn THEN "id" ELSE FirstCol(u, Pk[u] \cap {"id", c})

\* _infer_edges_by_column_pattern: it looks at every column, those with a
\* foreign key included.
NameEdges(ts) ==
  {<<x[1], x[2], PointsTo(x[1], x[2], ts), AssumedKey(PointsTo(x[1], x[2], ts), x[2])>> :
     x \in {y \in ts \X Column : y[2] \in ToSet(columnsOf[y[1]]) /\ PointsTo(y[1], y[2], ts) # NoTable}}

\* build_graph: an edge and its reverse, each once.
BuildGraph(ts) == BothWays(KeyEdges(ts) \cup NameEdges(ts))

-----------------------------------------------------------------------------
(* The map and its rows *)

ColumnsFound == UNION {{<<t, c>> : c \in ToSet(columnsOf[t])} : t \in tables}

\* Bug: the relationships that were inferred are left out of the map.
BuildMap_Read ==
  [tables |-> tables, columns |-> ColumnsFound, foreign |-> foreign,
   relationships |-> {r \in rels : r.key # NoKey} \X {1, 2}, graph |-> graph, domains |-> domains,
   entities |-> entities, concepts |-> concepts, metrics |-> metrics, dimensions |-> dimensions,
   dates |-> dates, terms |-> terms]

\* build_knowledge_map, but for the hash of the structure, which nothing is
\* compared with.  The pipeline hands over the relationships twice, by
\* themselves and in the metadata, and the map has both.
BuildMap ==
  [tables |-> tables, columns |-> ColumnsFound, foreign |-> foreign,
   relationships |-> rels \X {1, 2}, graph |-> graph, domains |-> domains,
   entities |-> entities, concepts |-> concepts, metrics |-> metrics, dimensions |-> dimensions,
   dates |-> dates, terms |-> terms]

\* What _split_schema_table makes of the target of a foreign key, which stays in
\* its schema and has no schema's name: "customers.id" is read as the column id
\* of "customers.public", a table there is not.
TargetRead(key) == [table |-> NoTable, column |-> key.column]

\* save_context_full: one row for each column with its foreign key, for each
\* relationship with its first pair of columns, and for each code.  The date
\* columns, the graph and the column semantics have no rows.
Rows(m) ==
  [columns |-> {[table |-> x[1], column |-> x[2], dated |-> x \in m.dates,
                 keys |-> IF x[2] \in DOMAIN m.foreign[x[1]] THEN {m.foreign[x[1]][x[2]]} ELSE {}] :
                  x \in m.columns},
   tables |-> m.tables,
   relationships |-> {[source |-> y[1].source, from |-> y[1].pairs[1][1],
                       target |-> y[1].target, to |-> y[1].pairs[1][2], copy |-> y[2]] :
                        y \in m.relationships},
   domains |-> {d.code : d \in m.domains},
   entities |-> {[code |-> e.code, domain |-> e.domain, tables |-> e.tables] : e \in m.entities},
   concepts |-> {[code |-> c.code, entity |-> c.entity, tables |-> c.tables] : c \in m.concepts},
   metrics |-> {[code |-> x.code, tables |-> x.tables, source |-> x.source, date |-> x.date,
                 filter |-> x.filter] : x \in m.metrics},
   dimensions |-> {[code |-> d.code, table |-> d.table, column |-> d.column, joins |-> d.joins] :
                     d \in m.dimensions},
   terms |-> m.terms]

\* get_knowledge_map: the rows, but for the targets of foreign keys.  A domain
\* has no tables, a concept no domain, a metric neither entity nor domain.
Load(rows) ==
  [rows EXCEPT !.columns = {[x EXCEPT !.keys = {TargetRead(k) : k \in @}] : x \in @}]

-----------------------------------------------------------------------------
(* Retrieval *)

\* The documents that are scored.  Terms about one target share a document, and
\* each date column has a term of its own.
Docs(m) ==
  ({"metric"} \X CodesIn(m.metrics)) \cup ({"concept"} \X CodesIn(m.concepts))
  \cup ({"entity"} \X CodesIn(m.entities)) \cup ({"domain"} \X m.domains)
  \cup ({"dimension"} \X CodesIn(m.dimensions)) \cup ({"table"} \X m.tables)
  \cup ({"term"} \X {e.target : e \in m.terms})
  \cup ({"date term"} \X {<<x.table, x.column>> : x \in {y \in m.columns : y.dated}})

\* Bug: only the table of a metric's column comes with it.
DocTables_Source(doc, m) ==
  LET Of(layer) == UNION {x.tables : x \in {y \in layer : y.code = doc[2]}}
  IN  CASE doc[1] = "metric" ->
             UNION {{t \in x.tables : x.source \in ToSet(Cols[t])} : x \in {y \in m.metrics : y.code = doc[2]}}
        [] doc[1] = "concept" -> Of(m.concepts)
        [] doc[1] = "entity" -> Of(m.entities)
        [] doc[1] = "dimension" -> {d.table : d \in {x \in m.dimensions : x.code = doc[2]}}
        [] doc[1] = "table" -> {doc[2]}
        [] OTHER -> {}

\* _to_retrieval_match: the tables that a match brings.
DocTables(doc, m) ==
  LET Of(layer) == UNION {x.tables : x \in {y \in layer : y.code = doc[2]}}
  IN  CASE doc[1] = "metric" -> Of(m.metrics)
        [] doc[1] = "concept" -> Of(m.concepts)
        [] doc[1] = "entity" -> Of(m.entities)
        [] doc[1] = "dimension" -> {d.table : d \in {x \in m.dimensions : x.code = doc[2]}}
        [] doc[1] = "table" -> {doc[2]}
        [] OTHER -> {}

Codes(type, docs) == {d[2] : d \in {x \in docs : x[1] = type}}

\* The entities that were matched, and those with a code inside that of a
\* matched metric or concept.
RelevantEntities(docs, m) ==
  Codes("entity", docs)
  \cup (CodesIn(m.entities) \cap
        UNION {CodeWithin[c] : c \in Codes("metric", docs) \cup Codes("concept", docs)})

\* The context for the documents that score best.  The graph that was loaded
\* is empty, so no related table is added.  Without a matched metric, up to
\* four that the question has a word of come without their tables.
ContextOf(docs, named, m) ==
  LET found == (UNION {DocTables(d, m) : d \in docs}) \cap m.tables
      entityCodes == RelevantEntities(docs, m)
  IN  [docs |-> docs, tables |-> found, entities |-> entityCodes,
       concepts |-> Codes("concept", docs) \cup
                    {c.code : c \in {x \in m.concepts : x.entity \in entityCodes /\ x.code \in FixedConcepts}},
       metrics |-> IF Codes("metric", docs) # {} THEN Codes("metric", docs)
                   ELSE named \cap CodesIn(m.metrics),
       dimensions |-> Codes("dimension", docs),
       relationships |-> {r \in m.relationships : {r.source, r.target} \subseteq found}]

-----------------------------------------------------------------------------

MapInit ==
  /\ Init
  /\ graph = NotYet /\ knowledgeMap = NotYet /\ stored = NotYet /\ loaded = NotYet /\ context = NotYet

RelationshipGraphCreation ==
  /\ step = "RelationshipGraphCreation"
  /\ graph' = BuildGraph(tables)
  /\ step' = "KnowledgeMapGeneration"
  /\ UNCHANGED <<discovered, pools, layerVars, knowledgeMap, stored, loaded, context>>

\* The embedding steps after it find a map without an id and do nothing.
KnowledgeMapGeneration ==
  /\ step = "KnowledgeMapGeneration"
  /\ knowledgeMap' = BuildMap
  /\ step' = "ContextPersistence"
  /\ UNCHANGED <<discovered, pools, layerVars, graph, stored, loaded, context>>

\* The last step; after it run() closes the engine of the target.
ContextPersistence ==
  /\ step = "ContextPersistence"
  /\ stored' = Rows(knowledgeMap)
  /\ step' = "done"
  /\ pools' = {}
  /\ UNCHANGED <<discovered, layerVars, graph, knowledgeMap, loaded, context>>

LoadMap ==
  /\ stored # NotYet /\ loaded = NotYet
  /\ loaded' = Load(stored)
  /\ UNCHANGED <<vars, graph, knowledgeMap, stored, context>>

\* The documents that score best may be any.
BestDocs(docs) ==
  IF Cardinality(docs) <= TopN THEN {docs}
  ELSE {S \in {ToSet(f) : f \in [1..TopN -> docs]} : Cardinality(S) = TopN}

RetrieveContext ==
  /\ loaded # NotYet /\ context = NotYet
  /\ \E docs \in BestDocs(Docs(loaded)), named \in Questions :
       context' = ContextOf(docs, named, loaded)
  /\ UNCHANGED <<vars, graph, knowledgeMap, stored, loaded>>

MapNext ==
  \/ Next /\ UNCHANGED endVars
  \/ RelationshipGraphCreation \/ KnowledgeMapGeneration \/ ContextPersistence
  \/ LoadMap \/ RetrieveContext

MapSpec == MapInit /\ [][MapNext]_mapVars

-----------------------------------------------------------------------------
(* Properties *)

\* An edge that a relationship stands for, one way or the other.
EdgeOf(r) == BothWays({<<r.source, p[1], r.target, p[2]>> : p \in ToSet(r.pairs)})

\* Every edge joins tables that were kept and can be walked both ways; it is at
\* columns that they have, unless the column is an assumed id or the edge comes
\* from a foreign key whose name another table bears as well.  Every
\* relationship between kept tables is among the edges.
GraphGrounded ==
  graph # NotYet =>
    /\ \A e \in graph :
         /\ {e[1], e[3]} \subseteq tables
         /\ \/ e[2] = "id" \/ e[2] \in ToSet(Cols[e[1]])
            \/ \E r \in rels : ~Sole(r) /\ e \in EdgeOf(r)
         /\ Reverse4(e) \in graph
    /\ \A r \in rels : r.target \in tables => EdgeOf(r) \subseteq graph

\* What a query reads is what discovery found: every table with its columns,
\* which of them are foreign keys and of what column, every relationship of one
\* column with both its ends, and every layer's codes with the tables or the
\* column they are about, but for the tables of a domain, which have no rows.
\* The table of a foreign key does not survive: get_knowledge_map reads another.
MapSurvives ==
  loaded # NotYet =>
    /\ loaded.tables = tables
    /\ \A t \in tables : {x.column : x \in {y \in loaded.columns : y.table = t}} = ToSet(Cols[t])
    /\ \A x \in loaded.columns :
         {k.column : k \in x.keys} = IF x.column \in DOMAIN foreign[x.table]
                                     THEN {foreign[x.table][x.column].column} ELSE {}
    /\ \A r \in rels : Len(r.pairs) = 1 =>
         \E x \in loaded.relationships : <<x.source, x.from, x.target, x.to>> =
                                         <<r.source, r.pairs[1][1], r.target, r.pairs[1][2]>>
    /\ \A p \in {<<entities, loaded.entities>>, <<concepts, loaded.concepts>>, <<metrics, loaded.metrics>>} :
         {<<x.code, x.tables>> : x \in p[1]} = {<<x.code, x.tables>> : x \in p[2]}
    /\ {<<d.code, d.table, d.column>> : d \in dimensions} =
       {<<d.code, d.table, d.column>> : d \in loaded.dimensions}
    /\ loaded.domains = CodesIn(domains)
    /\ loaded.terms = terms

\* A question that is answered with a metric, a concept or an entity that was
\* matched is given all its tables, with every relationship that discovery
\* found between them; a metric that was matched has the column it computes
\* over in one of these tables.
ContextComplete ==
  context # NotYet =>
    \A p \in {<<"metric", metrics>>, <<"concept", concepts>>, <<"entity", entities>>} :
      \A x \in p[2] : <<p[1], x.code>> \in context.docs =>
        /\ x.tables \subseteq context.tables
        /\ \A r \in rels : {r.source, r.target} \subseteq x.tables =>
             \E y \in context.relationships : y.source = r.source /\ y.target = r.target
        /\ p[1] = "metric" => ColumnOf(x.source, context.tables)
==============================================================================
