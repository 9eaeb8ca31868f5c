SPECIFICATION Spec
CONSTANT SqlRetryCount = 2
INVARIANTS
  TypeOK
  RequestsBounded
  OutageNotMultiplied
CHECK_DEADLOCK FALSE
