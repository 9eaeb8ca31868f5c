SPECIFICATION SerialSpec
CONSTANTS
  c1 = c1
  Conn = {c1}
  Run = {r1, r2}
  Table = {t1, t2}
  NoRun = NoRun
  Target <- MCSameTarget
  Steps <- MCSteps
  MaxFaults = 0
  MaxCrashes = 0
INVARIANTS
  RefreshStored
CHECK_DEADLOCK FALSE
