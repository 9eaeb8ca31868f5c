SPECIFICATION Spec
CONSTANTS
  Question = {q1}
  t1 = t1
  t2 = t2
  t3 = t3
  cat = cat
  x = x
  y = y
  z = z
  public = public
  other = other
  system = system
  Table = {t1, t2, t3, cat}
  NameOf <- MCName
  SchemaOf <- MCSchema
  CteName = {x}
  SystemSchemas = {system}
  SystemNames = {y}
  SearchPath = public
  Public = public
  TargetKind = "postgresql"
  SqlRetryCount = 1
  MaxQueryRows = 1
  Limits = {}
  MaxMatching = 0
INVARIANTS
  NamesCovered
  JoinsCoverTables
CONSTRAINT
  MCPlain
CHECK_DEADLOCK FALSE
