SPECIFICATION Spec
CONSTANTS
  U32 = 65536
  Hellos <- MCHellos
  S1Sums <- MCDigestSums
INVARIANTS
  Scheme1KeyInKeyBlock
CHECK_DEADLOCK FALSE
