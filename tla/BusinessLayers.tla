---------------------------- MODULE BusinessLayers ----------------------------
(***************************************************************************)
(* The domains, entities, concepts and metrics that discovery derives from *)
(* the tables it found: business_domain_service.py,                        *)
(* business_entity_service.py, business_concept_service.py and             *)
(* business_metric_service.py.                                             *)
(*                                                                         *)
(* The services compare names with lists of keywords.  What matters of a   *)
(* name is which lists it hits, and the constants say that; what matters   *)
(* of a list is its order, kept by Pos for tables, by Cols for columns and *)
(* by NameRank for the names that sort domains and entities.               *)
(***************************************************************************)
EXTENDS Introspection

CONSTANTS
  NoColumn,     \* None, for a column
  NoCode,       \* None, for a code
  NumericCols, MonetaryCols,  \* columns of a numeric type, of a monetary name
  DateWants,    \* what _pick_date_column looks for: sets of columns in turn
  StatusCols,   \* columns a service takes for a status, for each service
  RawName,      \* what the LLM may call a table
  Exact,        \* the table a raw name names in full, or NoTable
  Within,       \* the tables whose full name a raw name is a part of
  RuleHits,     \* for each domain pattern, the tables it has a keyword in
  NameRank,     \* the order of the names of domains and of entities
  EntityOf,     \* the entity whose keyword or prefix a table name has
  IsMain,       \* the table's name is its entity's
  Concepts,     \* CONCEPT_PRESETS: [code, hits]
  Metrics,      \* METRIC_PRESETS: [code, key, counts, hint, like, filter, concept]
  DueDate,      \* the column due_date, which the filter "overdue" names
  KeyHits       \* COUNTABLE_ENTITY_KEYWORDS, a sequence of [key, hits]

RuleCode == DOMAIN RuleHits

\* The patterns and presets are lists, with one entry for each code.
ASSUME PresetsAssumption ==
  /\ IsFiniteSet(RuleCode) /\ IsFiniteSet(Concepts) /\ IsFiniteSet(Metrics)
  /\ \A p, q \in Concepts : p.code = q.code => p = q
  /\ \A p, q \in Metrics : p.code = q.code => p = q

\* Lists are sorted by name, and codes with one name (the rules' HR next to a
\* domain the LLM called Human Resources) stay in the order they were met in: no
\* two codes share a place.
ASSUME NamesAssumption ==
  /\ NameRank \in [DOMAIN NameRank -> Nat]
  /\ \A c, d \in DOMAIN NameRank : NameRank[c] = NameRank[d] => c = d
  /\ RuleCode \cup {p.code : p \in Concepts \cup Metrics} \subseteq DOMAIN NameRank
  /\ {EntityOf[t] : t \in Table} \ {NoCode} \subseteq DOMAIN NameRank

ASSUME MainAssumption == IsMain \in [Table -> BOOLEAN]

\* The first and the last element of a set under a strict order.
FirstOf(S, Less(_, _)) == CHOOSE x \in S : \A y \in S \ {x} : Less(x, y)
LastOf(S, Less(_, _)) == CHOOSE x \in S : \A y \in S \ {x} : Less(y, x)

\* The first column of t that is in P.
FirstCol(t, P) ==
  LET hits == {i \in DOMAIN Cols[t] : Cols[t][i] \in P}
  IN  IF hits = {} THEN NoColumn ELSE Cols[t][Min(hits)]

-----------------------------------------------------------------------------
(* Domains *)

\* Bug: a name that is no table's goes into the domain as the LLM wrote it.
Resolved_Raw(n, ts) ==
  IF Exact[n] \in ts THEN Exact[n]
  ELSE IF Within[n] \cap ts = {} THEN n ELSE FirstOf(Within[n] \cap ts, Earlier)

\* Bug: a table that is named in full need not have been discovered.
Resolved_Listed(n, ts) ==
  IF Exact[n] # NoTable THEN Exact[n]
  ELSE IF Within[n] \cap ts = {} THEN NoTable ELSE FirstOf(Within[n] \cap ts, Earlier)

\* The table a raw name stands for: by its full name, else the first one
\* whose full name contains it.
Resolved(n, ts) ==
  IF Exact[n] \in ts THEN Exact[n]
  ELSE IF Within[n] \cap ts = {} THEN NoTable ELSE FirstOf(Within[n] \cap ts, Earlier)

ResolvedTables(names, ts) == {Resolved(n, ts) : n \in names} \ {NoTable}

\* Of two items with one code, the later replaces the earlier.
LastItem(answer, code) ==
  LastOf({i \in DOMAIN answer : answer[i].code = code}, <)

DomainTables(code, ts, answer) ==
  (IF \E i \in DOMAIN answer : answer[i].code = code
   THEN ResolvedTables(answer[LastItem(answer, code)].names, ts) ELSE {})
  \cup (IF code \in RuleCode THEN RuleHits[code] \cap ts ELSE {})

\* detect_domains: what the LLM answered, merged with the rule patterns that
\* hit a table.  A call that fails answers with nothing.
DetectDomains(ts, answer) ==
  {[code |-> c, tables |-> DomainTables(c, ts, answer)] :
     c \in {answer[i].code : i \in DOMAIN answer}
           \cup {r \in RuleCode : RuleHits[r] \cap ts # {}}}

DomainBefore(d, e) ==
  LET n == Cardinality(d.tables)
      m == Cardinality(e.tables)
  IN  n > m \/ (n = m /\ NameRank[d.code] < NameRank[e.code])

-----------------------------------------------------------------------------
(* Entities *)

\* A table that several domains list belongs to the last of them.
DomainOf(t, domains) ==
  LET claims == {d \in domains : t \in d.tables}
  IN  IF claims = {} THEN NoCode ELSE LastOf(claims, DomainBefore).code

Members(code, ts) == {t \in ts : EntityOf[t] = code}

DomainCodes(ms, domains) == {DomainOf(t, domains) : t \in ms} \ {NoCode}

\* The entity's main table first, then by the size of the primary key.
TableBefore(t, u) ==
  IF IsMain[t] # IsMain[u] THEN IsMain[t]
  ELSE IF Cardinality(Pk[t]) # Cardinality(Pk[u]) THEN Cardinality(Pk[t]) > Cardinality(Pk[u])
  ELSE Earlier(t, u)

\* The primary table's first status column, else the first one found.
EntityStatus(ms) ==
  LET primary == FirstOf(ms, TableBefore)
      others == {t \in ms : FirstCol(t, StatusCols.entity) # NoColumn}
  IN  IF primary \in others \/ others = {}
      THEN FirstCol(primary, StatusCols.entity)
      ELSE FirstCol(FirstOf(others, Earlier), StatusCols.entity)

\* Bug: the entity takes the first of all domains.
DomainChoices_Any(ms, domains) ==
  IF domains = {} THEN {NoCode} ELSE {FirstOf(domains, DomainBefore).code}

\* next(iter(domain_codes)): any element of the set.
DomainChoices(ms, domains) ==
  IF DomainCodes(ms, domains) = {} THEN {NoCode} ELSE DomainCodes(ms, domains)

EntityCodes(ts) == {EntityOf[t] : t \in ts} \ {NoCode}

\* detect_entities: the results it may return, which differ in the domain of
\* an entity whose tables belong to several.
DetectEntities(ts, domains) ==
  {{[code |-> c, domain |-> choice[c], tables |-> Members(c, ts),
     status |-> EntityStatus(Members(c, ts))] : c \in EntityCodes(ts)} :
   choice \in {f \in [EntityCodes(ts) -> {d.code : d \in domains} \cup {NoCode}] :
                 \A c \in EntityCodes(ts) : f[c] \in DomainChoices(Members(c, ts), domains)}}

EntityBefore(e, f) ==
  LET n == Cardinality(e.tables)
      m == Cardinality(f.tables)
  IN  n > m \/ (n = m /\ NameRank[e.code] < NameRank[f.code])

-----------------------------------------------------------------------------
(* Concepts *)

\* Keywords are looked for in an entity's name, code, aliases and tables.
Hit(hits, e) == e.code \in hits \/ e.tables \cap hits # {}

\* Bug: columns are looked for in tables of other entities too.
Sources_Any(es) == es \X Table

\* The places where concepts and metrics look for columns, in their order.
Sources(es) == {s \in es \X Table : s[2] \in s[1].tables}

SourceBefore(s, r) ==
  IF s[1] = r[1] THEN TableBefore(s[2], r[2]) ELSE EntityBefore(s[1], r[1])

WithStatus(es) == {s \in Sources(es) : FirstCol(s[2], StatusCols.concept) # NoColumn}

\* A concept of a preset that matches entities; one that matches none stays
\* below the confidence that is kept.  The status column of the last table
\* that has one goes into the condition.
ConceptOf(p, es) ==
  LET first == FirstOf(es, EntityBefore)
  IN  [code |-> p.code, entity |-> first.code, domain |-> first.domain,
       tables |-> UNION {e.tables : e \in es},
       status |-> IF WithStatus(es) = {} THEN NoColumn
                  ELSE FirstCol(LastOf(WithStatus(es), SourceBefore)[2], StatusCols.concept)]

\* Bug: the concepts of the metrics that are known so far are left out.
DetectConcepts_Seeded(entities, metrics) ==
  {ConceptOf(p, {e \in entities : Hit(p.hits, e)}) :
     p \in {q \in Concepts : (\E e \in entities : Hit(q.hits, e))
                             /\ (metrics = {} => \A r \in Metrics : r.concept # q.code)}}

\* detect_concepts: it takes the metrics and does not use them.
DetectConcepts(entities, metrics) ==
  {ConceptOf(p, {e \in entities : Hit(p.hits, e)}) :
     p \in {q \in Concepts : \E e \in entities : Hit(q.hits, e)}}

-----------------------------------------------------------------------------
(* Metrics *)

\* The first keyword list that an entity hits.
KeyOf(e) ==
  LET hits == {i \in DOMAIN KeyHits : Hit(KeyHits[i].hits, e)}
  IN  IF hits = {} THEN NoCode ELSE KeyHits[Min(hits)].key

\* _pick_source_column: what a metric looks for in a table, rule by rule.
SourceWants(p, t) ==
  IF p.counts THEN <<p.hint, Pk[t], p.like>>
  ELSE <<p.hint \cap NumericCols, p.like \cap NumericCols,
         MonetaryCols \cap NumericCols, NumericCols>>

\* The first column of t by the first rule that t has one for.
Wanted(wants, t) ==
  LET found == {i \in DOMAIN wants : FirstCol(t, wants[i]) # NoColumn}
  IN  IF found = {} THEN NoColumn ELSE FirstCol(t, wants[Min(found)])

\* The column that the first source with one gives.
FirstFound(es, ColumnIn(_)) ==
  LET having == {s \in Sources(es) : ColumnIn(s[2]) # NoColumn}
  IN  IF having = {} THEN NoColumn ELSE ColumnIn(FirstOf(having, SourceBefore)[2])

\* _build_filter_condition: the columns that the condition names.
FilterOf(p, status) ==
  IF status = NoColumn \/ p.filter = "none" THEN {}
  ELSE {status} \cup IF p.filter = "overdue" THEN {DueDate} ELSE {}

\* A metric of a preset over the entities of its key.  Each of its columns is
\* looked for on its own, before the concept's tables join the metric's.
MetricOf(p, es, concepts) ==
  LET withDomain == {e \in es : e.domain # NoCode}
  IN  [code |-> p.code, entity |-> FirstOf(es, EntityBefore).code,
       domain |-> IF withDomain = {} THEN NoCode ELSE LastOf(withDomain, EntityBefore).domain,
       tables |-> (UNION {e.tables : e \in es})
                  \cup (UNION {c.tables : c \in {d \in concepts : d.code = p.concept}}),
       source |-> FirstFound(es, LAMBDA t : Wanted(SourceWants(p, t), t)),
       date |-> FirstFound(es, LAMBDA t : Wanted(DateWants, t)),
       filter |-> FilterOf(p, FirstFound(es, LAMBDA t : FirstCol(t, StatusCols.metric)))]

Counted(p, entities) == {e \in entities : KeyOf(e) = p.key}

\* A sum or an average needs a column.
Computable(p, m) == p.counts \/ m.source # NoColumn

\* detect_metrics: one metric for each preset that counts an entity.
DetectMetrics(entities, concepts) ==
  LET Built(p) == MetricOf(p, Counted(p, entities), concepts)
  IN  {Built(p) : p \in {q \in Metrics : Counted(q, entities) # {} /\ Computable(q, Built(q))}}
===============================================================================
