\* Once the server has stopped nothing follows.
SPECIFICATION Spec
CONSTANTS
  ThreadNum = 2
  Connection = {c1, c2, c3}
INVARIANTS
  TypeOK
  DroppedOnlyByStop
  LoadIsEven
PROPERTIES
  StopCompletes
  AcceptedIsAnnounced
  CallsBackOnlyUntilStopped
CHECK_DEADLOCK FALSE
