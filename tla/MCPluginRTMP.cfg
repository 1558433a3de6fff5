\* Once the server has stopped nothing follows.
SPECIFICATION PluginSpec
CONSTANTS
  ThreadNum = 2
  Connection = {c1, c2, c3}
  MaxConnections = 1
INVARIANTS
  LimitOverrun
  CountsOpenConnections
PROPERTIES
  CallbacksInOrder
CHECK_DEADLOCK FALSE
