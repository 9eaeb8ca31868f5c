SPECIFICATION OrderedSpec
CONSTANTS
  c1 = c1
  Conn = {c1}
  Run = {r1, r2}
  Table = {t1, t2}
  NoRun = NoRun
  Target <- MCSameTarget
  Steps <- MCShortSteps
  MaxFaults = 1
  MaxCrashes = 1
INVARIANTS
  TypeOK
  Referential
  MapWhole
  ReadyIsQueryable
  FirstDiscoveryStored
  OutcomeRecorded
PROPERTIES
  RunsEnd
  StoredTablesKept
  GoneForGood
  PublishedAtomically
  ReadersView
CHECK_DEADLOCK FALSE
