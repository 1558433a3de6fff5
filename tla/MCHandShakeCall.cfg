\* The call returns or ends the program: nothing follows it.
SPECIFICATION Spec
CONSTANTS
  U32 = 65536
  Hellos <- MCHellos
  S1Sums <- MCDigestSums
INVARIANTS
  TypeOK
  ThrowsOnlyOnLoneC0
  DigestWhereClientLooks
  Scheme0KeyInKeyBlock
CHECK_DEADLOCK FALSE
