SPECIFICATION FairSpec
CONSTANTS
  Question = {q1}
  t1 = t1
  t2 = t2
  t3 = t3
  cat = cat
  x = x
  y = y
  z = z
  public = public
  other = other
  system = system
  Table = {t1}
  NameOf <- MCName
  SchemaOf <- MCSchema
  CteName = {}
  SystemSchemas = {system}
  SystemNames = {}
  SearchPath = public
  Public = public
  TargetKind = "postgresql"
  SqlRetryCount = 2
  MaxQueryRows = 2
  Limits <- MCLimits
  MaxMatching = 4
INVARIANTS
  TypeOK
  AttemptsAccounted
  MissingRowsFlagged
  EnginesReleased
PROPERTIES
  EveryQuestionEnds
CHECK_DEADLOCK FALSE
