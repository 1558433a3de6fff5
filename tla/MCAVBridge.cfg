\* The program ends.
SPECIFICATION Spec
CONSTANTS
  File = {rtmp}
  Name = {name}
  Object = {object}
  PluginFile = rtmp
  Route = {hello, other}
  ThreadNum = 2
  Connection = {c1, c2}
INVARIANTS
  TypeOK
  PluginCodeLoaded
  ExitsOnlyWithoutRoutes
  RacesOnlyBeforeTcp
PROPERTIES
  TeardownCompletes
  ServesAtEndOfInput
CHECK_DEADLOCK FALSE
