SPECIFICATION Spec
CONSTANTS
  r1 = r1
  r2 = r2
  d1 = d1
  d2 = d2
  q1 = q1
  c1 = c1
  c2 = c2
  Run = {r1, r2}
  Delete = {d1, d2}
  Question = {q1}
  Conn = {c1, c2}
  Target <- MCTarget
  Indexes <- MCIndexes
  PoolSize = 2
  NoConn = NoConn
  NoLock = NoLock
SYMMETRY MCSymmetry
INVARIANTS
  TypeOK
  NoDeadlockWithoutDelete
  SavesLostToDeletes
  PoolTurnsOver
CHECK_DEADLOCK FALSE
