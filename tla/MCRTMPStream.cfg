\* The publisher may wait for ever, and the program may have ended.
SPECIFICATION StreamSpec
CONSTANTS
  U32 = 1073741824
  ChunkStreamID = {"command", "audio", "stray"}
  Hellos = {}
  Chunks <- MCChunks
  Garbage <- MCGarbage
  S1Sums <- MCS1Sums
  MaxReads = 20
  PublisherC1 <- MCC1
  PublisherChunk <- MCPublisherChunk
  WriteEnd <- MCEnd
  Cuts <- MCCuts
INVARIANTS
  StreamTypeOK
  AnsweredOnlyInOnePiece
  TakesEveryByteIfWhole
PROPERTIES
  EstablishedIfWhole
  OrdinaryMessageEndsProgram
CHECK_DEADLOCK FALSE
