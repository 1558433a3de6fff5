SPECIFICATION Spec
CONSTANTS
  Types <- MCTypes
  Bodies <- MCBodies
  Messages <- MCMessages
INVARIANTS
  ReadsBackAsKnown
  OnlyControlEndsProgram
\* The program may have ended.
CHECK_DEADLOCK FALSE
