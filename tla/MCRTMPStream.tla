----------------------------- MODULE MCRTMPStream -----------------------------
(* A publisher that writes one message of 300 bytes in three chunks.  Reads may *)
(* end inside C0 and C1, C2, a chunk header and a chunk body, and 1536 bytes    *)
(* into the chunks.                                                             *)
EXTENDS RTMPStream

MCC1 == [zeroVersion |-> FALSE, digestSum |-> [s \in Scheme |-> 500],
         keySum |-> [s \in Scheme |-> 500], signed |-> {1}]

MCPublisherChunk == [i \in 1 .. 4 |->
  CASE i = 1 -> [size |-> 144, chunkType |-> 0, form |-> 0, csid |-> "command",
                 extended |-> TRUE, messageLength |-> 300]
    [] i = 2 -> [size |-> 129, chunkType |-> 3, form |-> 0, csid |-> "command",
                 extended |-> FALSE, messageLength |-> 0]
    [] i = 3 -> [size |-> 45, chunkType |-> 3, form |-> 0, csid |-> "command",
                 extended |-> FALSE, messageLength |-> 0]
    [] i = 4 -> [size |-> 1600, chunkType |-> 0, form |-> 0, csid |-> "audio",
                 extended |-> FALSE, messageLength |-> 1500]]

MCEnd[i \in Writes] == IF i = 0 THEN 0 ELSE MCEnd[i - 1] + Length(i)

\* A chunk read from the middle of another one.
MCChunks == [size : {1}, chunkType : {0, 3}, form : {0, 1},
             csid : {"command", "stray"}, extended : {FALSE},
             messageLength : {64, 400}]

MCGarbage == {0, 100, 300, HalfU32}

MCS1Sums == {500}

MCCuts == {1, 2, 1536, 1538, 2000, 3072, 3074, 3080, 3085, 3100, 3218, 4609}

\* The publisher is one that the theorems of RTMPClient_proofs are about.
ASSUME PublisherIsOrdinary == Ordinary
=============================================================================
