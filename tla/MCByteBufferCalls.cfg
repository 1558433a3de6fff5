SPECIFICATION Spec
CONSTANT U32 = 8
INVARIANTS
  TypeOK
  StrayAccessOnlyThroughKnownHoles
PROPERTIES
  CheckedCallsKeepTheCursorInside
