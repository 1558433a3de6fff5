\* The program may have ended, or MaxReads buffers have been read.
SPECIFICATION Spec
CONSTANTS
  U32 = 1073741824
  ChunkStreamID = {s1, s2}
  Hellos <- MCHellos
  Chunks <- MCChunks
  Garbage <- MCGarbage
  S1Sums <- MCS1Sums
  MaxReads = 6
SYMMETRY StreamSymmetry
INVARIANTS
  TypeOK
  BodiesStayEmpty
  NothingDispatched
  WindowCoversReads
  WindowNeverWraps
PROPERTIES
  StreamsNeverReopen
  ImplementsSession
CHECK_DEADLOCK FALSE
