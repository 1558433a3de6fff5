\* Once the manager is destroyed nothing follows.
SPECIFICATION Spec
CONSTANTS
  File = {f1, f2}
  Name = {n1, n2}
  Object = {o1, o2, o3}
INVARIANTS
  TypeOK
  OpenAsOftenAsItHasPlugins
  EntriesOwnTheirPlugins
  GivenPluginsLive
CHECK_DEADLOCK FALSE
