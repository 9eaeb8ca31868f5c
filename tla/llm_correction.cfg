SPECIFICATION Spec
CONSTANTS
  SqlRetryCount = 2
INVARIANTS
  RetrySeesStatement
CHECK_DEADLOCK FALSE
