SPECIFICATION Spec
CONSTANTS
  ThreadNum = 2
  Connection = {c1}
INVARIANTS
  StopIsThreadSafe
CHECK_DEADLOCK FALSE
