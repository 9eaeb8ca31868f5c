---------------------------- MODULE SemanticLayers ----------------------------
(***************************************************************************)
(* The steps of a discovery run from TableSemanticAnalysis to              *)
(* TerminologyDiscovery (database_discovery_pipeline.py:463): each reads   *)
(* the layers that the steps before it left in run_globals and adds its    *)
(* own.  BusinessLayers.tla has the first layers; the dimensions, date     *)
(* semantics and terminology are here.                                     *)
(***************************************************************************)
EXTENDS BusinessLayers

CONSTANTS
  DateCols,     \* columns of a date type
  Preset,       \* the first DIMENSION_PRESETS entry a column name fits, or NoCode
  GenericCode,  \* the code a date column has without a preset: its name and _DATE
  Term,         \* the canonical name of each code
  AliasesOf,    \* the canonical aliases of each code, in order
  GlobalAliases,\* GLOBAL_ALIAS_MAP: a sequence of [key, aliases]
  LLMCode,      \* codes of the domains the LLM may name
  SemanticCols, \* column names the LLM may return for any table
  MaxItems      \* bound: domains in one answer of the LLM

\* What the LLM names has a place in the order of names, and aliases are lists.
ASSUME AnswerAssumption == LLMCode \subseteq DOMAIN NameRank /\ MaxItems \in Nat

ASSUME AliasesAssumption ==
  /\ \A c \in DOMAIN NameRank : AliasesOf[c] \in Seq(ToSet(AliasesOf[c]))
  /\ GlobalAliases \in Seq(ToSet(GlobalAliases))
  /\ \A family \in ToSet(GlobalAliases) : family.aliases \in Seq(ToSet(family.aliases))

VARIABLES
  columns,      \* column_semantics
  domains, entities, concepts, metrics, dimensions, dates,
  terms         \* terminology

layerVars == <<columns, domains, entities, concepts, metrics, dimensions, dates, terms>>
vars == <<introVars, layerVars>>

-----------------------------------------------------------------------------
(* Dimensions *)

\* Every column of the tables, table by table.
ColumnsInOrder(ts) ==
  LET inOrder == InOrder(ts)
      Of(t) == [i \in DOMAIN Cols[t] |-> <<t, Cols[t][i]>>]
  IN  FlattenSeq([i \in DOMAIN inOrder |-> Of(inOrder[i])])

DimCode(c) ==
  IF Preset[c] # NoCode THEN Preset[c] ELSE IF c \in DateCols THEN GenericCode[c] ELSE NoCode

ASSUME DimensionsAssumption == {DimCode(c) : c \in Column} \ {NoCode} \subseteq DOMAIN NameRank

\* _infer_required_joins: the foreign key of the column, to a table found under
\* its name in a map by full names.  The inspector stores a full name for a key
\* that leaves the schema only, and the adapter reads none of these.
JoinsOf(t, c, ts) ==
  IF c \notin DOMAIN foreign[t] THEN {}
  ELSE {<<t, c, u>> : u \in {x \in ts : x = foreign[t][c].table /\ SchemaOf[x] # SchemaOf[t]}}

\* Confidence 0.6 for a code that is the column's generic one, else 0.8.
DimensionOf(t, c, ts) ==
  [code |-> DimCode(c), table |-> t, column |-> c, joins |-> JoinsOf(t, c, ts),
   confidence |-> IF DimCode(c) = GenericCode[c] THEN 6 ELSE 8]

\* Bug: the comparison is the one _dedupe_dimensions would suggest.
Skipped_Worse(existing, dim) == existing.confidence > dim.confidence

\* A dimension is dropped when its code was met with a lower confidence.
Skipped(existing, dim) == existing.confidence < dim.confidence

\* What comes of base when Add has taken it through s.
Accumulated(Add(_, _), base, s) ==
  LET upTo[i \in 0..Len(s)] == IF i = 0 THEN base ELSE Add(upTo[i - 1], s[i])
  IN  upTo[Len(s)]

\* The dimension of a column joins those of the columns before it.
AddDimension(dims, x, ts) ==
  LET dim == DimensionOf(x[1], x[2], ts)
      same == {i \in DOMAIN dims : dims[i].code = dim.code}
  IN  IF DimCode(x[2]) = NoCode \/ (same # {} /\ Skipped(dims[Min(same)], dim))
      THEN dims ELSE Append(dims, dim)

\* The dimensions of all columns, before duplicates are merged.
AllDimensions(ts) == Accumulated(LAMBDA dims, x : AddDimension(dims, x, ts), <<>>, ColumnsInOrder(ts))

\* _dedupe_dimensions: one dimension for each code.
Merged(kept, d) ==
  LET same == {e \in kept : e.code = d.code}
      e == CHOOSE x \in same : TRUE
  IN  IF same = {} THEN kept \cup {d}
      ELSE IF d.confidence > e.confidence THEN (kept \ {e}) \cup {d}
      ELSE IF d.confidence = e.confidence
           THEN (kept \ {e}) \cup {[e EXCEPT !.joins = @ \cup d.joins]}
      ELSE kept

DetectDimensions(ts) == Accumulated(Merged, {}, AllDimensions(ts))

\* One entry for each date column; its role depends on the names alone.
DetectDates(ts) ==
  {x \in ts \X DateCols : x[2] \in ToSet(Cols[x[1]])}

-----------------------------------------------------------------------------
(* Terminology *)

\* Bug: a term has one entry for each type of target.
SameEntry_Loose(a, b) == a.term = b.term /\ a.type = b.type

\* The key of an entry: its term, its type and its target.
SameEntry(a, b) == a.term = b.term /\ a.type = b.type /\ a.target = b.target

AddEntry(entries, e) ==
  IF \E i \in DOMAIN entries : SameEntry(entries[i], e) THEN entries ELSE Append(entries, e)

AddEntries(entries, es) == Accumulated(AddEntry, entries, es)

\* The entries of one code: its name, and its aliases but for a dimension's.
EntriesOf(type, code) ==
  LET Entry(term) == [term |-> term, canonical |-> Term[code], type |-> type, target |-> code]
  IN  <<Entry(Term[code])>> \o
      (IF type = "dimension" THEN <<>>
       ELSE [i \in DOMAIN AliasesOf[code] |-> Entry(AliasesOf[code][i])])

CodesIn(layer) == {x.code : x \in layer}

\* The entries of a layer, in the order of its list.
LayerEntries(type, layer, Before(_, _)) ==
  LET inOrder == Listed(layer, Before)
  IN  FlattenSeq([i \in DOMAIN inOrder |-> EntriesOf(type, inOrder[i].code)])

\* Concepts, metrics and dimensions are sorted by confidence and name; which
\* of two codes of one layer comes first decides nothing, as no two share a
\* name that heads a family of aliases.
ByName(x, y) == NameRank[x.code] < NameRank[y.code]

\* The family of aliases of a term goes to what the first entry with that
\* term, or of that canonical form, is about.
AddFamily(entries, family) ==
  LET related == {i \in DOMAIN entries : family.key \in {entries[i].term, entries[i].canonical}}
      first == entries[Min(related)]
      Entry(alias) == [term |-> alias, canonical |-> family.key, type |-> first.type,
                       target |-> first.target]
  IN  IF related = {} THEN entries
      ELSE AddEntries(entries, [i \in DOMAIN family.aliases |-> Entry(family.aliases[i])])

AddFamilies(entries, families) == Accumulated(AddFamily, entries, families)

\* build_terminology.  Date columns come last, each with an entry of its own
\* for itself: they are in dates and not repeated here.
BuildTerminology ==
  LET layers == LayerEntries("domain", domains, DomainBefore)
                \o LayerEntries("entity", entities, EntityBefore)
                \o LayerEntries("concept", concepts, ByName)
                \o LayerEntries("metric", metrics, ByName)
                \o LayerEntries("dimension", dimensions, ByName)
  IN  ToSet(AddFamilies(AddEntries(<<>>, layers), GlobalAliases))

-----------------------------------------------------------------------------
(* The run *)

Init ==
  /\ IntroInit
  /\ columns = {} /\ domains = {} /\ entities = {} /\ concepts = {} /\ metrics = {}
  /\ dimensions = {} /\ dates = {} /\ terms = {}

\* analyze_table_semantics drops what the LLM says of columns that a table
\* does not have.
TableSemanticAnalysis ==
  /\ step = "TableSemanticAnalysis"
  /\ \E named \in SUBSET SemanticCols :
       columns' = {x \in tables \X named : x[2] \in ToSet(Cols[x[1]])}
  /\ step' = "BusinessDomainDiscovery"
  /\ UNCHANGED <<discovered, pools, domains, entities, concepts, metrics, dimensions, dates, terms>>

\* One table whose analysis fails ends the run: the variant with a fallback
\* for each table has no caller.
AnalysisFails ==
  /\ step = "TableSemanticAnalysis"
  /\ tables # {}
  /\ Fail
  /\ UNCHANGED <<discovered, layerVars>>

LLMItem == [code : LLMCode, names : SUBSET RawName]

\* The items with a name in the answer of the LLM, which is not asked about
\* no tables; a call that fails leaves the rules to find the domains.
BusinessDomainDiscovery ==
  /\ step = "BusinessDomainDiscovery"
  /\ \E answer \in BoundedSeq(LLMItem, IF tables = {} THEN 0 ELSE MaxItems) :
       domains' = DetectDomains(tables, answer)
  /\ step' = "BusinessEntityDiscovery"
  /\ UNCHANGED <<discovered, pools, columns, entities, concepts, metrics, dimensions, dates, terms>>

BusinessEntityDiscovery ==
  /\ step = "BusinessEntityDiscovery"
  /\ entities' \in DetectEntities(tables, domains)
  /\ step' = "BusinessConceptDiscovery"
  /\ UNCHANGED <<discovered, pools, columns, domains, concepts, metrics, dimensions, dates, terms>>

BusinessConceptDiscovery ==
  /\ step = "BusinessConceptDiscovery"
  /\ concepts' = DetectConcepts(entities, metrics)
  /\ step' = "MetricDiscovery"
  /\ UNCHANGED <<discovered, pools, columns, domains, entities, metrics, dimensions, dates, terms>>

\* The second pass over the concepts, now with the metrics: what it finds
\* under a new code is added.
SecondPass(found) ==
  {c \in DetectConcepts(entities, found) : c.code \notin CodesIn(concepts)}

MetricDiscovery ==
  /\ step = "MetricDiscovery"
  /\ metrics' = DetectMetrics(entities, concepts)
  /\ concepts' = IF concepts = {} THEN concepts ELSE concepts \cup SecondPass(metrics')
  /\ step' = "DimensionDiscovery"
  /\ UNCHANGED <<discovered, pools, columns, domains, entities, dimensions, dates, terms>>

DimensionDiscovery ==
  /\ step = "DimensionDiscovery"
  /\ dimensions' = DetectDimensions(tables)
  /\ step' = "DateSemanticDiscovery"
  /\ UNCHANGED <<discovered, pools, columns, domains, entities, concepts, metrics, dates, terms>>

DateSemanticDiscovery ==
  /\ step = "DateSemanticDiscovery"
  /\ dates' = DetectDates(tables)
  /\ step' = "TerminologyDiscovery"
  /\ UNCHANGED <<discovered, pools, columns, domains, entities, concepts, metrics, dimensions, terms>>

TerminologyDiscovery ==
  /\ step = "TerminologyDiscovery"
  /\ terms' = BuildTerminology
  /\ step' = "RelationshipGraphCreation"
  /\ UNCHANGED <<discovered, pools, columns, domains, entities, concepts, metrics, dimensions, dates>>

LayerStep ==
  \/ TableSemanticAnalysis \/ AnalysisFails
  \/ BusinessDomainDiscovery \/ BusinessEntityDiscovery
  \/ BusinessConceptDiscovery \/ MetricDiscovery
  \/ DimensionDiscovery \/ DateSemanticDiscovery \/ TerminologyDiscovery

Next == LayerStep \/ (IntroNext /\ UNCHANGED layerVars)

-----------------------------------------------------------------------------
(* Properties *)

ColumnOf(c, ts) == c = NoColumn \/ \E t \in ts : c \in ToSet(Cols[t])

\* Type correctness: whatever the LLM answers, the layers are made of tables,
\* columns and codes.
TypeOK ==
  /\ tables \subseteq Table
  /\ columns \subseteq tables \X Column
  /\ \A d \in domains : d.tables \subseteq Table
  /\ \A e \in entities : e.tables \in (SUBSET Table) \ {{}} /\ e.status \in Column \cup {NoColumn}
  /\ \A m \in metrics : m.tables \subseteq Table /\ m.source \in Column \cup {NoColumn}
  /\ dates \subseteq Table \X DateCols

\* Every reference from one layer to another resolves: the tables of a layer
\* were discovered, the codes a layer names are codes of a lower layer, a
\* term is about something that exists, and no code is met twice.  The layers
\* come from different services, which match each on keywords of its own.
LayersResolve ==
  /\ \A x \in domains \cup entities \cup concepts \cup metrics : x.tables \subseteq tables
  /\ \A e \in entities : e.domain \in CodesIn(domains) \cup {NoCode}
  /\ \A x \in concepts \cup metrics : x.entity \in CodesIn(entities)
                                      /\ x.domain \in CodesIn(domains) \cup {NoCode}
  /\ \A x \in dimensions : \A j \in {<<x.table, x.column, x.table>>} \cup x.joins :
       {j[1], j[3]} \subseteq tables /\ j[2] \in ToSet(Cols[j[1]])
  /\ \A e \in terms : e.target \in
       CodesIn(domains \cup entities \cup concepts \cup metrics \cup dimensions)
  /\ \A layer \in {domains, entities, concepts, metrics, dimensions} :
       \A x, y \in layer : x.code = y.code => x = y

\* A column that a metric computes over, dates or filters by is a column of
\* one of its tables, found while the tables were not yet joined by those of
\* the concept.  due_date is the exception: the filter for overdue invoices
\* names it whether or not a table has it.
MetricColumnsExist ==
  \A m \in metrics : \A c \in {m.source, m.date} \cup (m.filter \ {DueDate}) :
    ColumnOf(c, m.tables)

\* The domain of an entity lists one of the entity's tables, whichever of its
\* domains the service takes.
EntityDomain ==
  \A e \in entities : e.domain # NoCode =>
    \E d \in domains : d.code = e.domain /\ d.tables \cap e.tables # {}

\* The first column with a dimension's code keeps it, whatever confidence a
\* later column has: the two comparisons of the service cancel each other.
FirstColumnWins ==
  \A x \in dimensions :
    LET inOrder == ColumnsInOrder(tables)
        same == {i \in DOMAIN inOrder : DimCode(inOrder[i][2]) = x.code}
    IN  inOrder[Min(same)] = <<x.table, x.column>>

\* Every code of a layer can be asked for by its name: terms that two layers
\* share do not push each other out of the terminology.
EveryCodeHasTerm ==
  step = "RelationshipGraphCreation" =>
    \A p \in {<<"domain", domains>>, <<"entity", entities>>, <<"concept", concepts>>,
              <<"metric", metrics>>, <<"dimension", dimensions>>} :
      \A code \in CodesIn(p[2]) :
        \E e \in terms : e.type = p[1] /\ e.target = code /\ e.term = Term[code]

\* A run never changes a layer once a later step has read it.  The second
\* pass over the concepts, which the pipeline runs for the sake of the
\* metrics, adds none: detect_concepts does not look at the metrics.
LayersSettle ==
  [][/\ domains # {} => domains' = domains
     /\ entities # {} => entities' = entities
     /\ concepts # {} => concepts' = concepts
     /\ columns # {} => tables' = tables /\ foreign' = foreign /\ rels' = rels]_vars
===============================================================================
