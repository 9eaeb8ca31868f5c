SPECIFICATION MapSpec
CONSTANTS
  Table <- MCTable
  Column <- MCColumn
  NoColumn = "no column"
  NoTable = "no table"
  NoCode = "no code"
  Pos <- MCPos
  MatViews <- MCMatViews
  NamePos <- MCNamePos
  Attributes <- MCAttributes
  Pk <- MCPk
  NumericCols <- MCNumeric
  MonetaryCols <- MCMonetary
  DateWants <- MCDateWants
  StatusCols <- MCStatusCols
  RawName <- MCRawName
  Exact <- MCExact
  Within <- MCWithin
  RuleHits <- MCRuleHits
  NameRank <- MCNameRank
  EntityOf <- MCEntityOf
  IsMain <- MCIsMain
  Concepts <- MCConcepts
  Metrics <- MCMetrics
  DueDate = "due_date"
  KeyHits <- MCKeyHits
  DateCols <- MCDateCols
  Preset <- MCPreset
  GenericCode <- MCGenericCode
  SchemaOf <- MCSchemaOf
  Schemas <- MCSchemas
  KeyName <- MCKeyName
  NoKey = "no key"
  Constraints <- MCConstraints
  Writable <- MCTable
  StemNames <- MCStemNames
  BlobCols <- MCBlobCols
  Owned <- MCTable
  StatsCols <- MCStatsCols
  SysCols <- MCSysCols
  Engines <- MCEngines
  MaxFaults = 1
  Term <- MCTerm
  AliasesOf <- MCAliasesOf
  GlobalAliases <- MCGlobalAliases
  LLMCode <- MCLLMCode
  SemanticCols <- MCSemanticCols
  MaxItems = 1
  NotYet = NotYet
  NameOf <- MCNameOf
  PrefixOf <- MCPrefixOf
  CodeWithin <- MCCodeWithin
  FixedConcepts <- MCFixedConcepts
  Questions <- MCQuestions
  TopN = 1
INVARIANTS
  TypeOK
  LayersResolve
  MetricColumnsExist
  EntityDomain
  FirstColumnWins
  EveryCodeHasTerm
  TablesWhole
  RelationshipsGrounded
  PoolsReleased
  FaultsStayLocal
  GraphGrounded
  MapSurvives
  ContextComplete
PROPERTIES
  LayersSettle
CHECK_DEADLOCK FALSE
