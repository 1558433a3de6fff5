----------------------------- MODULE MCRTMPClient -----------------------------
(* Two chunk streams.  The lengths stand on both sides of every limit: of one   *)
(* chunk (128), of an int (HalfU32), and of the window (524288); the buffers    *)
(* end inside the stream id, the type 0 header, the body, and after it.         *)
EXTENDS RTMPClient, TLC

MCC1 == [zeroVersion : BOOLEAN,
         digestSum : {[s \in Scheme |-> 1020]}, keySum : {[s \in Scheme |-> 0]},
         signed : {{}, {0}, {1}}]

MCHellos == [size : {1, 1536, 1537}, c0 : BOOLEAN, c1 : MCC1]

MCChunks ==
  [size : {1, 7, 12, 139, 140}, chunkType : {0}, form : {0, 2},
   csid : ChunkStreamID, extended : BOOLEAN,
   messageLength : {0, 64, 128, 129, 600000}]
    \cup
  [size : {1, 2, 128, 129, 130, 1536}, chunkType : {1, 3}, form : {0, 1},
   csid : ChunkStreamID, extended : {FALSE}, messageLength : {0}]

MCGarbage == {0, 100, 129, HalfU32 - 1, HalfU32, HalfU32 + 600000}

MCS1Sums == {0, 727}

StreamSymmetry == Permutations(ChunkStreamID)
=============================================================================
