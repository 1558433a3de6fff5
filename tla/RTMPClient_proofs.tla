-------------------------- MODULE RTMPClient_proofs --------------------------
(***************************************************************************)
(* The invariants of RTMPClient and its refinement of RTMPSession, for any  *)
(* chunk streams, buffers, garbage and number of reads, and what a          *)
(* publisher of RTMPStream must do to be answered, however reads are cut.   *)
(***************************************************************************)
EXTENDS RTMPStream, SequenceTheorems, WellFoundedInduction, TLAPS

USE U32Assumption, ClientAssumption

USE DEF readChunkSize, RTMP_DEFAULT_CHUNK_SIZE, RTMP_MAX_CHUNK_HEADER

\* A client is answered at most once, and only then is its C2 awaited.
AnsweredOnce == replies = IF lastStatus = "New" THEN 0 ELSE 1

\* The invariants are inductive together: the count stays below its bound because
\* the bodies it adds are no longer than an int, nothing is dispatched because a
\* body's cursor is at 0 before a chunk is put, and both are BodiesStayEmpty.
Inv ==
  /\ TypeOK
  /\ BodiesStayEmpty
  /\ NothingDispatched
  /\ WindowCoversReads
  /\ WindowNeverWraps
  /\ AnsweredOnce

\* The sizes the other facts need, without their values.
LEMMA Sizes ==
  /\ bandwidth \in Nat /\ bandwidth > 0
  /\ ThreeBytes \in Nat
  /\ HalfU32 \in Nat /\ 2 * HalfU32 <= U32
<1>1. bandwidth \in Nat /\ bandwidth > 0
  BY DEF bandwidth, RTMP_MAX_CHUNK_SIZE
<1>2. ThreeBytes \in Nat
  BY DEF ThreeBytes
<1>3. HalfU32 \in Nat /\ 2 * HalfU32 <= U32
  BY DEF HalfU32
<1> QED
  BY <1>1, <1>2, <1>3

\* A sum that fits the word is what it is.
LEMMA Add32Fits ==
  ASSUME NEW a \in Nat, NEW b \in Nat, a + b < U32
  PROVE  Add32(a, b) = a + b
BY DEF Add32

-----------------------------------------------------------------------------
(* Calls of Execute *)

\* What the client relies on in a buffer, whatever its size: the stream, the further
\* bytes that takes and the message length are made of so many bytes.
Readable(c) ==
  /\ c.csid \in ChunkStreamID
  /\ c.form \in 0 .. 2
  /\ c.messageLength \in 0 .. ThreeBytes - 1

\* A call of Execute, with any buffer at all.
Call ==
  \/ \E h : AcceptC0C1(h) \/ RefuseC0C1(h) \/ FailC0C1(h)
  \/ \E size : ReceiveC2(size) \/ IgnoreInC0C1(size)
  \/ \E c : /\ Readable(c)
            /\ \/ FaultOnChunk(c)
               \/ \E stored \in storedLengths(c) : ReadChunk(c, stored)

\* A step of the client is a call.
LEMMA NextCalls == Next => Call
<1>1. \A c \in Chunks : Readable(c)
  BY DEF Chunk, Readable
<1> QED
  BY <1>1 DEF Next, Greet, AwaitC2, HandleMsg, Call

-----------------------------------------------------------------------------
\* What a chunk's header takes from the buffer.
LEMMA HeaderSizes ==
  ASSUME NEW c, Readable(c)
  PROVE  /\ c.csid \in ChunkStreamID
         /\ basicHeaderSize(c) \in Nat /\ 1 <= basicHeaderSize(c)
         /\ chunkTypeSize(c) \in Nat
         /\ basicHeaderSize(c) + chunkTypeSize(c) <= 18
BY DEF Readable, basicHeaderSize, chunkTypeSize

\* The message length a chunk is read with.
LEMMA Lengths ==
  ASSUME TypeOK, NEW c, Readable(c), NEW stored \in storedLengths(c)
  PROVE  stored \in Word /\ msgLen(c, stored) \in Word
<1>1. stored \in Word
  BY DEF storedLengths, TypeOK
<1>2. c.messageLength \in Word
  <2>1. c.messageLength \in 0 .. ThreeBytes - 1
    BY DEF Readable
  <2> QED
    BY <2>1, Sizes DEF Word
<1> QED
  BY <1>1, <1>2 DEF msgLen

\* The copy of the body has its cursor at 0, so all of the message is unread.
LEMMA CopyFacts ==
  ASSUME Inv, fate = "running", NEW c, Readable(c),
         NEW stored \in storedLengths(c)
  PROVE  /\ currentBody(c, stored) \in Buffer
         /\ currentBody(c, stored).position = 0
         /\ unRead(c, stored) = msgLen(c, stored)
<1>1. stored \in Word /\ msgLen(c, stored) \in Word
  BY Lengths DEF Inv
<1>2. currentBody(c, stored) \in Buffer /\ currentBody(c, stored).position = 0
  <2>1. CASE bodyKnown(c)
    BY <2>1 DEF bodyKnown, currentBody, Inv, TypeOK, BodiesStayEmpty
  <2>2. CASE ~bodyKnown(c)
    BY <1>1, <2>2 DEF currentBody, NewBuffer, Buffer, Word
  <2> QED
    BY <2>1, <2>2
<1>3. Sub32(msgLen(c, stored), 0) = msgLen(c, stored)
  BY <1>1 DEF Sub32, Word
<1> QED
  BY <1>2, <1>3 DEF unRead

\* What is taken from a chunk whose checks pass.
LEMMA TakeFacts ==
  ASSUME Inv, fate = "running", NEW c, Readable(c),
         NEW stored \in storedLengths(c),
         bodyOK(c, stored)
  PROVE  /\ needRead(c, stored) \in Nat /\ needRead(c, stored) <= 128
         /\ needRead(c, stored) <= currentBody(c, stored).size
         /\ needRead(c, stored) # 128 => needRead(c, stored) = msgLen(c, stored)
         /\ msgLen(c, stored) < HalfU32
         /\ currentBody(c, stored).size \in Nat
         /\ currentBody(c, stored).size < HalfU32
         /\ filled(c, stored).position = needRead(c, stored)
         /\ filled(c, stored).size = currentBody(c, stored).size
<1> DEFINE body == currentBody(c, stored)
           len  == msgLen(c, stored)
           need == needRead(c, stored)
<1>1. len \in Word /\ len \in Nat
  BY Lengths DEF Inv, Word
<1>2. body \in Buffer /\ body.position = 0 /\ unRead(c, stored) = len
  BY CopyFacts
<1>3. len < HalfU32
  BY <1>2 DEF bodyOK
<1>4. need \in Nat /\ need <= 128 /\ need <= len /\ (need # 128 => need = len)
  BY <1>1, <1>2 DEF needRead
<1>5. Add32(0, need) = need
  BY <1>1, <1>3, <1>4, Sizes DEF Add32
<1>6. body.size \in Nat
  BY <1>2 DEF Buffer, Word
<1>7. need <= body.size
  BY <1>2, <1>5 DEF bodyOK, PutBytesOK, CheckRemaining
<1>8. body.size < HalfU32
  <2>1. CASE bodyKnown(c)
    BY <2>1 DEF bodyKnown, currentBody, Inv, BodiesStayEmpty
  <2>2. CASE ~bodyKnown(c)
    BY <1>3, <2>2 DEF currentBody, NewBuffer
  <2> QED
    BY <2>1, <2>2
<1>9. filled(c, stored).position = need /\ filled(c, stored).size = body.size
  BY <1>2, <1>5 DEF filled, Advance, Buffer
<1> QED
  BY <1>3, <1>4, <1>6, <1>7, <1>8, <1>9

\* A chunk is never fetched from a body it completes: the call throws or faults.
LEMMA CompleteEnds ==
  ASSUME Inv, fate = "running", NEW c, Readable(c),
         NEW stored \in storedLengths(c),
         bodyOK(c, stored), complete(c, stored)
  PROVE  ~(/\ GetBytesOK(filled(c, stored), msgLen(c, stored))
           /\ ~(msgLen(c, stored) > 0))
<1> SUFFICES ASSUME GetBytesOK(filled(c, stored), msgLen(c, stored)),
                    ~(msgLen(c, stored) > 0)
             PROVE  FALSE
  OBVIOUS
<1>1. msgLen(c, stored) \in Nat
  BY Lengths DEF Inv, Word
<1>2. filled(c, stored).position = 0 /\ msgLen(c, stored) = 0
  BY <1>1 DEF complete
<1>3. filled(c, stored).size \in Nat /\ filled(c, stored).size < U32
  BY TakeFacts, Sizes
<1>4. Add32(0, 0) = 0 /\ Sub32(0, 1) = U32 - 1
  BY DEF Add32, Sub32
<1> QED
  BY <1>2, <1>3, <1>4 DEF GetBytesOK, GetBytesAtOK, CheckIndex

\* The window after HandleMsg has looked at it.
LEMMA WindowFacts ==
  ASSUME Inv, fate = "running"
  PROVE  /\ seqNum \in Nat /\ seqNum < bandwidth
         /\ takenNow \in Nat /\ takenNow <= seqNum
         /\ IF windowFull THEN Add32(totalRead, readSeqNum) \in Word
                          ELSE totalRead \in Word
<1>1. readSeqNum \in Nat /\ totalRead \in Nat /\ taken \in Nat
  BY DEF Inv, TypeOK, Word
<1>2. taken <= readSeqNum
  BY DEF Inv, WindowCoversReads
<1>3. Add32(totalRead, readSeqNum) \in Word /\ totalRead \in Word
  BY <1>1 DEF Inv, TypeOK, Add32, Word
<1> QED
  BY <1>1, <1>2, <1>3, Sizes DEF seqNum, takenNow, windowFull

-----------------------------------------------------------------------------
\* Init establishes the invariant.
LEMMA InitInv == Init => Inv
<1> SUFFICES ASSUME Init PROVE Inv
  OBVIOUS
<1>1. rtmpHeader \in [DOMAIN rtmpHeader -> Word] /\ DOMAIN rtmpHeader = {}
  BY DEF Init
<1>2. /\ incompleteRtmpBody \in [DOMAIN incompleteRtmpBody -> Buffer]
      /\ DOMAIN incompleteRtmpBody = {}
  BY DEF Init
<1>3. readSeqNum \in Word /\ totalRead \in Word
  <2>1. 0 \in Word
    BY DEF Word
  <2> QED
    BY <2>1 DEF Init
<1>4. TypeOK
  <2>1. DOMAIN rtmpHeader \subseteq ChunkStreamID
    BY <1>1
  <2>2. DOMAIN incompleteRtmpBody \subseteq ChunkStreamID
    BY <1>2
  <2>3. replies \in 0 .. MaxReads /\ reads \in 0 .. MaxReads /\ taken \in Nat
    BY DEF Init
  <2>4. dispatched \in BOOLEAN
    BY DEF Init
  <2>5. lastStatus \in {"New", "C0C1", "C2"} /\ fate \in {"running", "threw", "faulted"}
    BY DEF Init
  <2> QED
    BY <1>1, <1>2, <1>3, <2>1, <2>2, <2>3, <2>4, <2>5 DEF TypeOK
<1>5. BodiesStayEmpty
  BY <1>1, <1>2 DEF BodiesStayEmpty
<1>6. WindowCoversReads /\ WindowNeverWraps
  BY Sizes DEF Init, WindowCoversReads, WindowNeverWraps
<1>7. NothingDispatched /\ AnsweredOnce
  BY DEF Init, NothingDispatched, AnsweredOnce
<1> QED
  BY <1>4, <1>5, <1>6, <1>7 DEF Inv

\* A chunk that is dropped leaves headers and bodies as they were.
LEMMA RejectKeeps ==
  ASSUME Inv, NEW c, Readable(c), NEW stored \in storedLengths(c),
         RejectChunk(c, stored)
  PROVE  rtmpHeader' = rtmpHeader /\ incompleteRtmpBody' = incompleteRtmpBody
<1>1. c.csid \in DOMAIN rtmpHeader
  BY DEF RejectChunk, Read, rejected, bodyKnown, Inv, BodiesStayEmpty
<1>2. stored = rtmpHeader[c.csid]
  BY <1>1 DEF storedLengths
<1>3. rtmpHeader = [s \in DOMAIN rtmpHeader |-> rtmpHeader[s]]
  BY DEF Inv, TypeOK
<1>4. headers(c, stored) = rtmpHeader
  BY <1>1, <1>2, <1>3 DEF headers
<1> QED
  BY <1>4 DEF RejectChunk

\* A chunk that is dropped.
LEMMA RejectInv ==
  ASSUME Inv, NEW c, Readable(c), NEW stored \in storedLengths(c),
         RejectChunk(c, stored)
  PROVE  Inv'
<1>0. fate = "running" /\ fate' = "running"
  BY DEF RejectChunk, Read
<1>1. stored \in Word
  BY Lengths DEF Inv
<1>2. basicHeaderSize(c) \in Nat /\ 1 <= basicHeaderSize(c) /\ basicHeaderSize(c) <= 18
  BY HeaderSizes
<1>3. /\ seqNum \in Nat /\ seqNum < bandwidth
      /\ takenNow \in Nat /\ takenNow <= seqNum
  BY <1>0, WindowFacts
<1>4. readSeqNum' = seqNum + basicHeaderSize(c)
  <2>1. Add32(seqNum, basicHeaderSize(c)) = seqNum + basicHeaderSize(c)
    BY <1>2, <1>3, Sizes DEF Add32
  <2> QED
    BY <2>1 DEF RejectChunk
<1>5. taken' = takenNow + basicHeaderSize(c)
  BY DEF RejectChunk
<1>6. rtmpHeader' = rtmpHeader /\ incompleteRtmpBody' = incompleteRtmpBody
  BY RejectKeeps
<1>7. totalRead' \in Word
  BY <1>0, WindowFacts DEF RejectChunk, CloseWindow
<1>8. TypeOK'
  <2>1. readSeqNum' \in Word /\ taken' \in Nat
    BY <1>2, <1>3, <1>4, <1>5, Sizes DEF Word
  <2>2. reads' \in 0 .. MaxReads
    BY DEF RejectChunk, Read, Inv, TypeOK
  <2> QED
    BY <1>6, <1>7, <2>1, <2>2 DEF RejectChunk, Inv, TypeOK
<1>9. BodiesStayEmpty'
  BY <1>0, <1>6 DEF Inv, BodiesStayEmpty
<1>10. WindowCoversReads' /\ WindowNeverWraps'
  BY <1>2, <1>3, <1>4, <1>5, Sizes DEF WindowCoversReads, WindowNeverWraps
<1>11. NothingDispatched' /\ AnsweredOnce'
  BY DEF RejectChunk, Inv, NothingDispatched, AnsweredOnce
<1> QED
  BY <1>8, <1>9, <1>10, <1>11 DEF Inv

\* A chunk that is taken, whether or not it completes its message: what holds of
\* the types and of the window.
LEMMA TakeInv ==
  ASSUME Inv, NEW c, Readable(c), NEW stored \in storedLengths(c),
         TakeChunk(c, stored)
  PROVE  /\ DOMAIN rtmpHeader' \subseteq ChunkStreamID
         /\ rtmpHeader' \in [DOMAIN rtmpHeader' -> Word]
         /\ DOMAIN incompleteRtmpBody' \subseteq ChunkStreamID
         /\ incompleteRtmpBody' \in [DOMAIN incompleteRtmpBody' -> Buffer]
         /\ readSeqNum' \in Word /\ totalRead' \in Word /\ taken' \in Nat
         /\ reads' \in 0 .. MaxReads
         /\ WindowCoversReads' /\ WindowNeverWraps' /\ AnsweredOnce'
<1>0. fate = "running" /\ bodyOK(c, stored)
  BY DEF TakeChunk, Read
<1>1. stored \in Word
  BY Lengths DEF Inv
<1>2. /\ c.csid \in ChunkStreamID
      /\ basicHeaderSize(c) \in Nat /\ 1 <= basicHeaderSize(c)
      /\ chunkTypeSize(c) \in Nat
      /\ basicHeaderSize(c) + chunkTypeSize(c) <= 18
  BY HeaderSizes
<1>3. /\ seqNum \in Nat /\ seqNum < bandwidth
      /\ takenNow \in Nat /\ takenNow <= seqNum
  BY <1>0, WindowFacts
<1>4. /\ needRead(c, stored) \in Nat /\ needRead(c, stored) <= 128
      /\ needRead(c, stored) <= currentBody(c, stored).size
      /\ currentBody(c, stored).size \in Nat
      /\ currentBody(c, stored).size < HalfU32
  BY <1>0, TakeFacts
<1>5. currentBody(c, stored) \in Buffer
  BY <1>0, CopyFacts
<1>6. rtmpHeader' = headers(c, stored) /\ incompleteRtmpBody' = bodies(c, stored)
  BY DEF TakeChunk
<1>7. /\ DOMAIN rtmpHeader' \subseteq ChunkStreamID
      /\ rtmpHeader' \in [DOMAIN rtmpHeader' -> Word]
  BY <1>1, <1>2, <1>6 DEF headers, Inv, TypeOK
<1>8. /\ DOMAIN incompleteRtmpBody' \subseteq ChunkStreamID
      /\ incompleteRtmpBody' \in [DOMAIN incompleteRtmpBody' -> Buffer]
  BY <1>2, <1>5, <1>6 DEF bodies, Inv, TypeOK
<1>9. /\ counted(c, stored) \in Nat
      /\ counted(c, stored) < 18 + HalfU32
      /\ basicHeaderSize(c) + chunkTypeSize(c) + needRead(c, stored)
           <= counted(c, stored)
  BY <1>2, <1>4, Sizes DEF counted
<1>10. readSeqNum' = seqNum + counted(c, stored)
  <2>1. Add32(seqNum, counted(c, stored)) = seqNum + counted(c, stored)
    BY <1>3, <1>9, Sizes, Add32Fits
  <2> QED
    BY <2>1 DEF TakeChunk
<1>11. taken' = takenNow + basicHeaderSize(c) + chunkTypeSize(c) + needRead(c, stored)
  BY DEF TakeChunk
<1>12. readSeqNum' \in Word /\ taken' \in Nat
  BY <1>2, <1>3, <1>4, <1>9, <1>10, <1>11, Sizes DEF Word
<1>13. totalRead' \in Word
  BY <1>0, WindowFacts DEF TakeChunk, CloseWindow
<1>14. reads' \in 0 .. MaxReads
  BY DEF TakeChunk, Read, Inv, TypeOK
<1>15. WindowCoversReads' /\ WindowNeverWraps'
  BY <1>2, <1>3, <1>4, <1>9, <1>10, <1>11, Sizes
     DEF WindowCoversReads, WindowNeverWraps
<1>16. AnsweredOnce'
  BY DEF TakeChunk, Inv, AnsweredOnce
<1> QED
  BY <1>7, <1>8, <1>12, <1>13, <1>14, <1>15, <1>16

\* A chunk that is kept waits for more of its message than one chunk holds.
LEMMA KeepInv ==
  ASSUME Inv, NEW c, Readable(c), NEW stored \in storedLengths(c),
         KeepChunk(c, stored)
  PROVE  Inv'
<1>0. /\ TakeChunk(c, stored) /\ fate = "running" /\ bodyOK(c, stored)
      /\ ~complete(c, stored) /\ fate' = fate /\ dispatched' = dispatched
  BY DEF KeepChunk, TakeChunk, Read
<1>1. TypeOK'
  BY <1>0, TakeInv DEF TakeChunk, Inv, TypeOK
<1>2. /\ currentBody(c, stored).position = 0
      /\ currentBody(c, stored).size > 128
      /\ currentBody(c, stored).size < HalfU32
  <2>1. currentBody(c, stored).position = 0
    BY <1>0, CopyFacts
  <2>2. CASE bodyKnown(c)
    BY <1>0, <2>1, <2>2 DEF bodyKnown, currentBody, Inv, BodiesStayEmpty
  <2>3. CASE ~bodyKnown(c)
    <3>1. currentBody(c, stored).size = msgLen(c, stored)
      BY <2>3 DEF currentBody, NewBuffer
    <3>2. needRead(c, stored) # msgLen(c, stored)
      BY <1>0, TakeFacts DEF complete
    <3> QED
      BY <1>0, <2>1, <3>1, <3>2, TakeFacts
  <2> QED
    BY <2>2, <2>3
<1>3. BodiesStayEmpty'
  <2>1. rtmpHeader' = headers(c, stored) /\ incompleteRtmpBody' = bodies(c, stored)
    BY <1>0 DEF TakeChunk
  <2>2. /\ DOMAIN rtmpHeader = DOMAIN incompleteRtmpBody
        /\ \A s \in DOMAIN incompleteRtmpBody :
             /\ incompleteRtmpBody[s].position = 0
             /\ incompleteRtmpBody[s].size > 128
             /\ incompleteRtmpBody[s].size < HalfU32
    BY <1>0 DEF Inv, BodiesStayEmpty
  <2>3. DOMAIN rtmpHeader' = DOMAIN incompleteRtmpBody'
    BY <2>1, <2>2 DEF headers, bodies
  <2>4. ASSUME NEW s \in DOMAIN incompleteRtmpBody'
        PROVE  /\ incompleteRtmpBody'[s].position = 0
               /\ incompleteRtmpBody'[s].size > 128
               /\ incompleteRtmpBody'[s].size < HalfU32
    <3>1. CASE s = c.csid
      BY <1>2, <2>1, <3>1 DEF bodies
    <3>2. CASE s # c.csid
      BY <2>1, <2>2, <2>4, <3>2 DEF bodies
    <3> QED
      BY <3>1, <3>2
  <2> QED
    BY <2>3, <2>4 DEF BodiesStayEmpty
<1>4. NothingDispatched'
  BY <1>0 DEF Inv, NothingDispatched
<1> QED
  BY <1>0, <1>1, <1>3, <1>4, TakeInv DEF Inv

\* A chunk that completes its message ends the program.
LEMMA CompleteInv ==
  ASSUME Inv, NEW c, Readable(c), NEW stored \in storedLengths(c),
         CompleteChunk(c, stored)
  PROVE  Inv' /\ fate' \in {"threw", "faulted"}
<1>0. /\ TakeChunk(c, stored) /\ fate = "running" /\ bodyOK(c, stored)
      /\ complete(c, stored)
  BY DEF CompleteChunk, TakeChunk, Read
<1>1. fate' \in {"threw", "faulted"}
  BY <1>0, CompleteEnds DEF CompleteChunk
<1>2. dispatched' = FALSE
  BY <1>1 DEF CompleteChunk, Inv, NothingDispatched
<1>3. TypeOK'
  BY <1>0, <1>1, <1>2, TakeInv DEF TakeChunk, Inv, TypeOK
<1>4. BodiesStayEmpty' /\ NothingDispatched'
  BY <1>1, <1>2 DEF BodiesStayEmpty, NothingDispatched
<1> QED
  BY <1>0, <1>1, <1>3, <1>4, TakeInv DEF Inv

\* The steps that end the program and change nothing else.
LEMMA EndInv ==
  ASSUME Inv, reads' = reads + 1, reads < MaxReads,
         fate' \in {"threw", "faulted"},
         UNCHANGED <<lastStatus, session, replies, dispatched>>
  PROVE  Inv'
BY Sizes DEF session, Inv, TypeOK, BodiesStayEmpty, NothingDispatched,
   WindowCoversReads, WindowNeverWraps, AnsweredOnce

\* The steps of the handshake that the program survives.
LEMMA HandshakeInv ==
  ASSUME Inv, reads' = reads + 1, reads < MaxReads,
         UNCHANGED <<session, fate, dispatched>>,
         \/ UNCHANGED <<lastStatus, replies>>
         \/ lastStatus = "New" /\ lastStatus' = "C0C1" /\ replies' = replies + 1
         \/ lastStatus = "C0C1" /\ lastStatus' = "C2" /\ replies' = replies
  PROVE  Inv'
<1>1. TypeOK'
  BY DEF session, Inv, TypeOK, AnsweredOnce
<1>2. AnsweredOnce'
  BY DEF Inv, AnsweredOnce, TypeOK
<1>3. BodiesStayEmpty' /\ NothingDispatched' /\ WindowCoversReads' /\ WindowNeverWraps'
  BY DEF session, Inv, BodiesStayEmpty, NothingDispatched,
         WindowCoversReads, WindowNeverWraps
<1> QED
  BY <1>1, <1>2, <1>3 DEF Inv

\* Every call keeps the invariant.
LEMMA CallInv == Inv /\ [Call]_vars => Inv'
<1> SUFFICES ASSUME Inv, [Call]_vars PROVE Inv'
  OBVIOUS
<1>1. ASSUME NEW h, AcceptC0C1(h) PROVE Inv'
  BY <1>1, HandshakeInv DEF AcceptC0C1, Read
<1>2. ASSUME NEW h, RefuseC0C1(h) PROVE Inv'
  BY <1>2, HandshakeInv DEF RefuseC0C1, Read
<1>3. ASSUME NEW h, FailC0C1(h) PROVE Inv'
  BY <1>3, EndInv DEF FailC0C1, Read
<1>4. ASSUME NEW size, ReceiveC2(size) PROVE Inv'
  BY <1>4, HandshakeInv DEF ReceiveC2, Read
<1>5. ASSUME NEW size, IgnoreInC0C1(size) PROVE Inv'
  BY <1>5, HandshakeInv DEF IgnoreInC0C1, Read
<1>6. ASSUME NEW c, FaultOnChunk(c) PROVE Inv'
  BY <1>6, EndInv DEF FaultOnChunk, Read
<1>7. ASSUME NEW c, Readable(c), NEW stored \in storedLengths(c), ReadChunk(c, stored)
      PROVE  Inv'
  <2>1. CASE RejectChunk(c, stored)
    BY <1>7, <2>1, RejectInv
  <2>2. CASE KeepChunk(c, stored)
    BY <1>7, <2>2, KeepInv
  <2>3. CASE CompleteChunk(c, stored)
    BY <1>7, <2>3, CompleteInv
  <2>4. CASE ThrowOnChunk(c, stored)
    BY <2>4, EndInv DEF ThrowOnChunk, Read
  <2> QED
    BY <1>7, <2>1, <2>2, <2>3, <2>4 DEF ReadChunk
<1>8. CASE UNCHANGED vars
  BY <1>8 DEF vars, session, Inv, TypeOK, BodiesStayEmpty, NothingDispatched,
     WindowCoversReads, WindowNeverWraps, AnsweredOnce
<1> QED
  BY <1>1, <1>2, <1>3, <1>4, <1>5, <1>6, <1>7, <1>8
     DEF Call

\* The inductive invariant holds throughout.
LEMMA Invariance == Spec => []Inv
<1>1. Inv /\ [Next]_vars => Inv'
  BY NextCalls, CallInv
<1> QED
  BY <1>1, InitInv, PTL DEF Spec

-----------------------------------------------------------------------------
\* Type correctness.
THEOREM TypeCorrect == Spec => []TypeOK
<1>1. Inv => TypeOK
  BY DEF Inv
<1> QED
  BY <1>1, Invariance, PTL

\* Whatever buffers arrive, no body ever holds a byte of its message: readChunk
\* reads into a copy that it does not write back.
THEOREM BodiesNeverFilled == Spec => []BodiesStayEmpty
<1>1. Inv => BodiesStayEmpty
  BY DEF Inv
<1> QED
  BY <1>1, Invariance, PTL

\* No sequence of buffers whatever makes HandleMsg reach GetRtmpMessage.
THEOREM NothingEverDispatched == Spec => []NothingDispatched
<1>1. Inv => NothingDispatched
  BY DEF Inv
<1> QED
  BY <1>1, Invariance, PTL

\* The window count of HandleMsg is never behind the bytes taken.
THEOREM WindowNeverBehind == Spec => []WindowCoversReads
<1>1. Inv => WindowCoversReads
  BY DEF Inv
<1> QED
  BY <1>1, Invariance, PTL

\* The uint32_t readSeqNum of RTMPClient.h never wraps.
THEOREM WindowNeverWrapsAround == Spec => []WindowNeverWraps
<1>1. Inv => WindowNeverWraps
  BY DEF Inv
<1> QED
  BY <1>1, Invariance, PTL

-----------------------------------------------------------------------------
\* What a step of HandleMsg leaves of the streams known before it.
LEMMA KnownStreamsKept ==
  ASSUME Inv, fate = "running", NEW c, Readable(c),
         NEW stored \in storedLengths(c),
         rtmpHeader' = headers(c, stored), incompleteRtmpBody' = bodies(c, stored),
         NEW s \in DOMAIN incompleteRtmpBody
  PROVE  /\ s \in DOMAIN incompleteRtmpBody'
         /\ incompleteRtmpBody'[s] = incompleteRtmpBody[s]
         /\ rtmpHeader'[s] = rtmpHeader[s]
<1>1. s \in DOMAIN rtmpHeader
  BY DEF Inv, BodiesStayEmpty
<1>2. CASE s = c.csid
  BY <1>1, <1>2 DEF headers, bodies, storedLengths, currentBody, bodyKnown
<1>3. CASE s # c.csid
  BY <1>1, <1>3 DEF headers, bodies
<1> QED
  BY <1>2, <1>3

\* The streams that have begun, their headers and their bodies.
Kept ==
  \A s \in DOMAIN incompleteRtmpBody :
    /\ s \in DOMAIN incompleteRtmpBody'
    /\ incompleteRtmpBody'[s] = incompleteRtmpBody[s]
    /\ rtmpHeader'[s] = rtmpHeader[s]

\* They outlast every call.
LEMMA CallKeeps == Inv /\ [Call]_vars => [Kept]_vars
<1> USE DEF Kept
<1>1. ASSUME Inv, Call PROVE Kept
  <2>1. CASE UNCHANGED <<rtmpHeader, incompleteRtmpBody>>
    BY <2>1
  <2>2. ASSUME NEW c, Readable(c), NEW stored \in storedLengths(c), TakeChunk(c, stored)
        PROVE  Kept
    BY <1>1, <2>2, KnownStreamsKept DEF TakeChunk, Read
  <2>3. ASSUME NEW c, Readable(c), NEW stored \in storedLengths(c),
               RejectChunk(c, stored)
        PROVE  Kept
    BY <1>1, <2>1, <2>3, RejectKeeps
  <2>4. ASSUME NEW c, Readable(c), NEW stored \in storedLengths(c), ReadChunk(c, stored)
        PROVE  Kept
    BY <2>1, <2>2, <2>3, <2>4
       DEF ReadChunk, KeepChunk, CompleteChunk, ThrowOnChunk, session
  <2>5. ASSUME NEW h, AcceptC0C1(h) \/ RefuseC0C1(h) \/ FailC0C1(h) PROVE Kept
    BY <2>1, <2>5 DEF AcceptC0C1, RefuseC0C1, FailC0C1, session
  <2>6. ASSUME NEW size, ReceiveC2(size) \/ IgnoreInC0C1(size) PROVE Kept
    BY <2>1, <2>6 DEF ReceiveC2, IgnoreInC0C1, session
  <2>7. ASSUME NEW c, FaultOnChunk(c) PROVE Kept
    BY <2>1, <2>7 DEF FaultOnChunk, session
  <2> QED
    BY <1>1, <2>4, <2>5, <2>6, <2>7 DEF Call
<1> QED
  BY <1>1

\* The streams that have begun, their headers and their bodies outlast every step.
THEOREM StreamsNeverReopened == Spec => StreamsNeverReopen
<1>1. Inv /\ [Next]_vars => [Kept]_vars
  BY NextCalls, CallKeeps
<1> QED
  BY <1>1, Invariance, PTL DEF Spec, StreamsNeverReopen, Kept

-----------------------------------------------------------------------------
\* A chunk that is kept begins its stream, or changes nothing the session shows.
LEMMA KeepBegins ==
  ASSUME Inv, NEW c, Readable(c), NEW stored \in storedLengths(c),
         KeepChunk(c, stored)
  PROVE  Session!Begin(c.csid) \/ UNCHANGED Session!session
<1>1. /\ TakeChunk(c, stored) /\ fate = "running" /\ lastStatus = "C2"
      /\ fate' = fate /\ dispatched' = dispatched
      /\ lastStatus' = lastStatus /\ replies' = replies
  BY DEF KeepChunk, TakeChunk, Read
<1>2. DOMAIN incompleteRtmpBody' = DOMAIN incompleteRtmpBody \cup {c.csid}
  BY <1>1 DEF TakeChunk, bodies
<1>3. CASE c.csid \in DOMAIN incompleteRtmpBody
  BY <1>1, <1>2, <1>3 DEF Session!session
<1>4. CASE c.csid \notin DOMAIN incompleteRtmpBody
  BY <1>1, <1>2, <1>4 DEF Session!Begin
<1> QED
  BY <1>3, <1>4

\* Every call is a step of the session or changes nothing it shows.
LEMMA CallSimulation ==
  Inv /\ Inv' /\ [Call]_vars => [Session!Next]_(Session!session)
<1> SUFFICES ASSUME Inv, Inv', [Call]_vars
             PROVE  Session!Next \/ UNCHANGED Session!session
  OBVIOUS
<1>1. DOMAIN incompleteRtmpBody' \subseteq ChunkStreamID
  BY DEF Inv, TypeOK
<1>2. ASSUME NEW h, AcceptC0C1(h) PROVE Session!Next
  BY <1>2 DEF AcceptC0C1, Read, session, Session!Next, Session!Answer
<1>3. ASSUME NEW h, RefuseC0C1(h) PROVE UNCHANGED Session!session
  BY <1>3 DEF RefuseC0C1, session, Session!session
<1>4. ASSUME NEW h, FailC0C1(h) PROVE Session!Next
  BY <1>1, <1>4 DEF FailC0C1, Read, session, Session!Next, Session!End
<1>5. ASSUME NEW size, ReceiveC2(size) PROVE Session!Next
  BY <1>5 DEF ReceiveC2, Read, session, Session!Next, Session!Establish
<1>6. ASSUME NEW size, IgnoreInC0C1(size)
      PROVE  UNCHANGED Session!session
  BY <1>6 DEF IgnoreInC0C1, session, Session!session
<1>7. ASSUME NEW c, FaultOnChunk(c) PROVE Session!Next
  BY <1>1, <1>7 DEF FaultOnChunk, Read, session, Session!Next, Session!End
<1>8. ASSUME NEW c, Readable(c), NEW stored \in storedLengths(c), ReadChunk(c, stored)
      PROVE  Session!Next \/ UNCHANGED Session!session
  <2>1. CASE RejectChunk(c, stored)
    BY <1>8, <2>1, RejectKeeps DEF RejectChunk, Session!session
  <2>2. CASE KeepChunk(c, stored)
    <3>1. c.csid \in ChunkStreamID
      BY <1>8, HeaderSizes
    <3> QED
      BY <1>8, <2>2, <3>1, KeepBegins DEF Session!Next
  <2>3. CASE CompleteChunk(c, stored)
    <3>1. dispatched = FALSE /\ dispatched' = FALSE
      BY <1>8, <2>3, CompleteInv DEF Inv, TypeOK, NothingDispatched
    <3>2. (fate' = "running") = FALSE
      BY <1>8, <2>3, CompleteInv
    <3>3. /\ fate = "running" /\ lastStatus = "C2"
          /\ lastStatus' = lastStatus /\ replies' = replies
      BY <2>3 DEF CompleteChunk, TakeChunk, Read
    <3>4. Session!End
      BY <1>1, <3>1, <3>2, <3>3 DEF Session!End
    <3> QED
      BY <3>4 DEF Session!Next
  <2>4. CASE ThrowOnChunk(c, stored)
    BY <1>1, <2>4 DEF ThrowOnChunk, Read, session, Session!Next, Session!End
  <2> QED
    BY <1>8, <2>1, <2>2, <2>3, <2>4 DEF ReadChunk
<1>9. CASE UNCHANGED vars
  BY <1>9 DEF vars, session, Session!session
<1> QED
  BY <1>2, <1>3, <1>4, <1>5, <1>6, <1>7, <1>8, <1>9
     DEF Call

\* RTMPClient implements RTMPSession: to the rest of the program a session answers
\* once, then only opens streams, hands nothing on, and may end the program.
THEOREM ClientImplementsSession == Spec => ImplementsSession
<1>1. Init => Session!Init
  BY DEF Init, Session!Init
<1>2. Inv /\ Inv' /\ [Next]_vars => [Session!Next]_(Session!session)
  BY NextCalls, CallSimulation
<1> QED
  BY <1>1, <1>2, Invariance, PTL
     DEF Spec, ImplementsSession, Session!Spec

-----------------------------------------------------------------------------
(* RTMPStream *)

\* Only a buffer of 1537 bytes with a digest is answered.
LEMMA ExecuteAnswers ==
  ASSUME NEW h, NEW sum, execute(h, sum) = "OK", h.size \in Nat
  PROVE  h.size = 1537 /\ h.c1.signed # {}
BY DEF execute, C1SizeOK, C1S1_SIZE

\* The client leaves New with the first read or never.
FirstDecides ==
  /\ read \in Nat
  /\ read = 0 => lastStatus = "New"
  /\ AnsweredOnlyInOnePiece

\* What Execute does to the status.
LEMMA ExecuteStatus ==
  ASSUME NEW size \in Nat, Execute(size)
  PROVE  \/ UNCHANGED lastStatus
         \/ lastStatus = "C0C1"
         \/ \E h \in HelloAt(size) : AcceptC0C1(h)
<1>1. ASSUME NEW h \in HelloAt(size), AcceptC0C1(h) \/ RefuseC0C1(h) \/ FailC0C1(h)
      PROVE  UNCHANGED lastStatus \/ \E g \in HelloAt(size) : AcceptC0C1(g)
  BY <1>1 DEF RefuseC0C1, FailC0C1
<1>2. ASSUME ReceiveC2(size) \/ IgnoreInC0C1(size)
      PROVE  UNCHANGED lastStatus \/ lastStatus = "C0C1"
  BY <1>2 DEF ReceiveC2, IgnoreInC0C1, Read
<1>3. ASSUME NEW c, FaultOnChunk(c) PROVE UNCHANGED lastStatus
  BY <1>3 DEF FaultOnChunk
<1>4. ASSUME NEW c, NEW stored, ReadChunk(c, stored) PROVE UNCHANGED lastStatus
  BY <1>4 DEF ReadChunk, RejectChunk, KeepChunk, CompleteChunk, TakeChunk, ThrowOnChunk
<1> QED
  BY <1>1, <1>2, <1>3, <1>4 DEF Execute

LEMMA OnReadKeeps == FirstDecides /\ OnRead => FirstDecides'
<1> SUFFICES ASSUME FirstDecides, OnRead PROVE FirstDecides'
  OBVIOUS
<1>1. PICK to \in Arrived :
        /\ Execute(to - read)
        /\ read' = to /\ first' = IF read = 0 THEN to ELSE first
  BY DEF OnRead
<1>2. to \in Nat /\ read < to /\ to - read \in Nat /\ read \in Nat
  <2>1. to \in Nat /\ read < to
    BY StreamAssumption DEF Arrived
  <2> QED
    BY <2>1 DEF FirstDecides
<1>3. CASE lastStatus = "C0C1" \/ UNCHANGED lastStatus
  BY <1>1, <1>2, <1>3 DEF FirstDecides, AnsweredOnlyInOnePiece
<1>4. ASSUME NEW h \in HelloAt(to - read), AcceptC0C1(h) PROVE FirstDecides'
  <2>1. h.size = to - read /\ (read # 0 => h.c1.signed = {})
    BY DEF HelloAt
  <2>2. h.size = 1537 /\ h.c1.signed # {}
    BY <1>2, <1>4, <2>1, ExecuteAnswers DEF AcceptC0C1
  <2> QED
    BY <1>1, <1>2, <2>1, <2>2 DEF FirstDecides, AnsweredOnlyInOnePiece
<1> QED
  BY <1>1, <1>2, <1>3, <1>4, ExecuteStatus

\* Whatever a publisher sends and however TCP cuts it, the client answers only when
\* its first read is the 1537 bytes of C0 and C1 (RTMPClient.cpp:11).
THEOREM PublisherAnswered == StreamSpec => []AnsweredOnlyInOnePiece
<1>1. StreamInit => FirstDecides
  BY DEF StreamInit, Init, FirstDecides, AnsweredOnlyInOnePiece
<1>2. FirstDecides /\ [StreamNext]_streamVars => FirstDecides'
  <2> SUFFICES ASSUME FirstDecides, [StreamNext]_streamVars PROVE FirstDecides'
    OBVIOUS
  <2>1. CASE OnRead
    BY <2>1, OnReadKeeps
  <2>2. CASE Publish \/ UNCHANGED streamVars
    BY <2>2 DEF Publish, streamVars, vars, FirstDecides, AnsweredOnlyInOnePiece
  <2> QED
    BY <2>1, <2>2 DEF StreamNext
<1>3. FirstDecides => AnsweredOnlyInOnePiece
  BY DEF FirstDecides
<1> QED
  BY <1>1, <1>2, <1>3, PTL DEF StreamSpec

-----------------------------------------------------------------------------
(* The client behind TCP *)

\* What a read hands to Execute as a chunk is readable, whatever its size.
LEMMA StreamChunks ==
  ASSUME NEW size, NEW c \in ChunkAt(size)
  PROVE  Readable(c)
<1>1. ASSUME NEW d \in Chunk, c = [d EXCEPT !.size = size]
      PROVE  Readable(c)
  BY <1>1 DEF Chunk, Readable
<1>2. ASSUME NEW i \in Writes, i >= 2, i + 1 \in Writes
      PROVE  PublisherChunk[i - 1] \in Chunk
  <2>1. PublisherChunk \in Seq(Chunk) /\ i - 1 \in 1 .. Len(PublisherChunk)
    BY <1>2, StreamAssumption DEF Writes
  <2> QED
    BY <2>1
<1>3. Chunks \subseteq Chunk
  OBVIOUS
<1> QED
  BY <1>1, <1>2, <1>3 DEF ChunkAt

\* So a step of the stream is a call of Execute, or leaves the client alone.
LEMMA StreamCalls == [StreamNext]_streamVars => [Call]_vars
<1>1. ASSUME NEW size, Execute(size) PROVE Call
  <2>1. \A c \in ChunkAt(size) : Readable(c)
    BY StreamChunks
  <2> QED
    BY <1>1, <2>1 DEF Execute, Call
<1>2. OnRead => Call
  BY <1>1 DEF OnRead
<1>3. Publish => UNCHANGED vars
  BY DEF Publish
<1> QED
  BY <1>2, <1>3 DEF StreamNext, streamVars

\* The invariant of the client holds behind TCP, and with it all that it implies.
LEMMA StreamInvariance == StreamSpec => []Inv
<1>1. StreamInit => Inv
  BY InitInv DEF StreamInit
<1>2. Inv /\ [StreamNext]_streamVars => Inv'
  BY StreamCalls, CallInv
<1> QED
  BY <1>1, <1>2, PTL DEF StreamSpec

\* However TCP cuts what a publisher writes, the client keeps no byte of a message,
\* hands none on and never loses count (RTMPClient.cpp:62, :84 and :88).
THEOREM StreamKeepsInvariants ==
  StreamSpec => [](/\ BodiesStayEmpty /\ NothingDispatched
                   /\ WindowCoversReads /\ WindowNeverWraps)
<1>1. Inv => /\ BodiesStayEmpty /\ NothingDispatched
             /\ WindowCoversReads /\ WindowNeverWraps
  BY DEF Inv
<1> QED
  BY <1>1, StreamInvariance, PTL

\* And it is the session that RTMPSession promises, behind TCP as alone.
THEOREM StreamImplementsSession == StreamSpec => ImplementsSession
<1>1. StreamInit => Session!Init
  BY DEF StreamInit, Init, Session!Init
<1>2. Inv /\ Inv' /\ [StreamNext]_streamVars => [Session!Next]_(Session!session)
  BY StreamCalls, CallSimulation
<1> QED
  BY <1>1, <1>2, StreamInvariance, PTL DEF StreamSpec, ImplementsSession, Session!Spec

-----------------------------------------------------------------------------
(* The stream of bytes *)

LEMMA WriteLengths ==
  /\ WriteEnd \in [Writes -> Nat] /\ WriteEnd[0] = 0
  /\ \A i \in Writes \ {0} :
       /\ i \in Nat /\ i - 1 \in Writes
       /\ Length(i) \in Nat /\ Length(i) > 0
       /\ WriteEnd[i] = WriteEnd[i - 1] + Length(i)
<1>1. Len(PublisherChunk) \in Nat
  BY StreamAssumption
<1>2. ASSUME NEW i \in Writes \ {0}
      PROVE  Length(i) \in Nat /\ Length(i) > 0 /\ i \in Nat /\ i - 1 \in Writes
  <2>1. i \in Nat /\ i > 0 /\ i - 1 \in Writes
    BY <1>1 DEF Writes
  <2>2. CASE i <= 2
    BY <2>1, <2>2 DEF Length
  <2>3. CASE i > 2
    <3>1. PublisherChunk \in Seq(Chunk) /\ i - 2 \in 1 .. Len(PublisherChunk)
      BY <1>1, <2>1, <2>3, StreamAssumption DEF Writes
    <3>2. PublisherChunk[i - 2] \in Chunk
      BY <3>1
    <3>3. PublisherChunk[i - 2].size \in 1 .. U32 - 1
      BY <3>2 DEF Chunk
    <3> QED
      BY <2>1, <2>3, <3>3 DEF Length
  <2> QED
    BY <2>1, <2>2, <2>3
<1> QED
  BY <1>2, StreamAssumption

\* A set of numbers that is not empty has a least one.
Less == OpToRel(<, Nat)

LEMMA LeastNumber ==
  ASSUME NEW T, T \subseteq Nat, T # {}
  PROVE  \E x \in T : \A y \in T : x <= y
<1>1. IsWellFoundedOn(Less, Nat)
  BY NatLessThanWellFounded DEF Less
<1>2. PICK x \in T : \A y \in T : ~(<<y, x>> \in Less)
  BY <1>1, WFMin
<1>3. ASSUME NEW y \in T PROVE x <= y
  <2>1. ~(<<y, x>> \in Less)
    BY <1>2
  <2>2. x \in Nat /\ y \in Nat
    OBVIOUS
  <2>3. ~(y < x)
    BY <2>1, <2>2 DEF Less, OpToRel
  <2> QED
    BY <2>2, <2>3
<1> QED
  BY <1>2, <1>3

\* Every write ends behind the one before it: by the least one that does not.
LEMMA WritesInOrder ==
  ASSUME NEW i \in Writes, NEW j \in Writes, i < j
  PROVE  WriteEnd[i] < WriteEnd[j]
<1> DEFINE T == {n \in Writes : i < n /\ ~(WriteEnd[i] < WriteEnd[n])}
<1> SUFFICES ASSUME T # {} PROVE FALSE
  OBVIOUS
<1>1. Writes \subseteq Nat
  BY StreamAssumption DEF Writes
<1>2. PICK n \in T : \A m \in T : n <= m
  <2>1. T \subseteq Nat
    BY <1>1
  <2> HIDE DEF T
  <2> QED
    BY <2>1, LeastNumber
<1>3. n \in Writes /\ i < n /\ ~(WriteEnd[i] < WriteEnd[n])
  OBVIOUS
<1>4. n \in Nat /\ i \in Nat /\ n # 0
  BY <1>1, <1>3
<1>5. /\ n - 1 \in Writes /\ Length(n) \in Nat /\ Length(n) > 0
      /\ WriteEnd[n] = WriteEnd[n - 1] + Length(n)
      /\ WriteEnd[n - 1] \in Nat /\ WriteEnd[i] \in Nat
  BY <1>3, <1>4, WriteLengths
<1>6. CASE i = n - 1
  BY <1>3, <1>5, <1>6
<1>7. CASE i # n - 1
  <2>1. n - 1 \notin T
    <3>1. ~(n <= n - 1)
      BY <1>4
    <3> QED
      BY <1>2, <3>1
  <2>2. WriteEnd[i] < WriteEnd[n - 1]
    BY <1>3, <1>4, <1>5, <1>7, <2>1
  <2> QED
    BY <1>3, <1>5, <2>2
<1> QED
  BY <1>6, <1>7

\* So no two writes end at the same byte.
LEMMA WritesApart ==
  ASSUME NEW i \in Writes, NEW j \in Writes, WriteEnd[i] = WriteEnd[j]
  PROVE  i = j
<1>1. i \in Nat /\ j \in Nat /\ WriteEnd[i] \in Nat /\ WriteEnd[j] \in Nat
  BY WriteLengths, StreamAssumption DEF Writes
<1>2. i < j \/ j < i \/ i = j
  BY <1>1
<1> QED
  BY <1>1, <1>2, WritesInOrder

\* The bytes read were written, and the client's state is well-formed.
THEOREM StreamTypesCorrect == StreamSpec => []StreamTypeOK
<1> DEFINE Bytes == /\ sent \in Writes /\ whole \in BOOLEAN
                    /\ read \in 0 .. WriteEnd[sent] /\ first \in 0 .. WriteEnd[sent]
<1>1. StreamInit => Bytes
  BY StreamAssumption DEF StreamInit, Writes
<1>2. Bytes /\ [StreamNext]_streamVars => Bytes'
  <2> SUFFICES ASSUME Bytes, [StreamNext]_streamVars PROVE Bytes'
    OBVIOUS
  <2>1. WriteEnd[sent] \in Nat
    BY WriteLengths
  <2>2. CASE Publish
    <3>1. sent + 1 \in Writes /\ sent < sent + 1
      BY <2>2, StreamAssumption DEF Publish, Writes
    <3>2. WriteEnd[sent] < WriteEnd[sent + 1] /\ WriteEnd[sent + 1] \in Nat
      BY <3>1, WritesInOrder, WriteLengths
    <3> QED
      BY <2>1, <2>2, <3>1, <3>2 DEF Publish
  <2>3. CASE OnRead
    <3>1. PICK to \in Arrived :
            /\ read' = to /\ first' = (IF read = 0 THEN to ELSE first)
            /\ whole' = (/\ whole
                         /\ \E i \in Writes \ {0} :
                              WriteEnd[i - 1] = read /\ WriteEnd[i] = to)
            /\ sent' = sent
      BY <2>3 DEF OnRead
    <3>2. Cuts \subseteq Nat /\ \A i \in Writes : WriteEnd[i] \in Nat
      BY StreamAssumption
    <3>3. to \in Nat /\ to <= WriteEnd[sent]
      BY <3>2 DEF Arrived
    <3> QED
      BY <2>1, <3>1, <3>3
  <2>4. CASE UNCHANGED streamVars
    BY <2>4 DEF streamVars
  <2> QED
    BY <2>2, <2>3, <2>4 DEF StreamNext
<1>3. Bytes /\ Inv => StreamTypeOK
  BY DEF Inv, StreamTypeOK
<1> QED
  BY <1>1, <1>2, <1>3, StreamInvariance, PTL DEF StreamSpec

-----------------------------------------------------------------------------
(* Reads that are whole writes: the handshake *)

\* Nothing was taken or kept before the chunks.
NothingYet ==
  lastStatus # "C2" =>
    readSeqNum = 0 /\ taken = 0 /\ DOMAIN incompleteRtmpBody = {}

\* While every read is one write, the status follows the reads.
HandshakeFollowsReads ==
  whole /\ fate = "running" =>
    \/ lastStatus = "New" /\ read = 0
    \/ lastStatus = "C0C1" /\ read = WriteEnd[1]
    \/ lastStatus = "C2" /\ \E k \in 0 .. Len(PublisherChunk) : read = WriteEnd[k + 2]

\* A read of the i-th write, after which the program still runs.
WholeRead(i) ==
  /\ WriteEnd[i - 1] = read /\ Execute(Length(i))
  /\ read' = WriteEnd[i] /\ whole /\ fate' = "running"

\* The writes with numbers of their own.
LEMMA FirstWrites ==
  /\ Len(PublisherChunk) \in Nat
  /\ 0 \in Writes /\ 1 \in Writes /\ 2 \in Writes
  /\ \A k \in 0 .. Len(PublisherChunk) : k + 2 \in Writes
  /\ Length(1) = 1537 /\ Length(2) = 1536
  /\ WriteEnd[0] = 0 /\ WriteEnd[1] = 1537 /\ WriteEnd[2] = 3073
<1>1. Len(PublisherChunk) \in Nat
  BY StreamAssumption
<1>2. 0 \in Writes /\ 1 \in Writes /\ 2 \in Writes
  BY <1>1 DEF Writes
<1>3. Length(1) = 1537 /\ Length(2) = 1536
  BY DEF Length
<1>4. WriteEnd[1] = WriteEnd[0] + Length(1) /\ WriteEnd[2] = WriteEnd[1] + Length(2)
  BY <1>2, WriteLengths
<1> QED
  BY <1>1, <1>2, <1>3, <1>4, WriteLengths DEF Writes

\* A read that leaves whole true was of a write.
LEMMA ReadsAreWrites ==
  ASSUME OnRead, whole', fate' = "running"
  PROVE  \E i \in Writes \ {0} : WholeRead(i)
<1>1. PICK to \in Arrived :
        /\ Execute(to - read) /\ read' = to
        /\ whole /\ \E i \in Writes \ {0} : WriteEnd[i - 1] = read /\ WriteEnd[i] = to
  BY DEF OnRead
<1>2. PICK i \in Writes \ {0} : WriteEnd[i - 1] = read /\ WriteEnd[i] = to
  BY <1>1
<1>3. to - read = Length(i)
  BY <1>2, WriteLengths
<1> QED
  BY <1>1, <1>2, <1>3 DEF WholeRead

\* The first bytes of a publisher are its C0, and its C1 if there are enough.
LEMMA FirstHello ==
  ASSUME NEW size, NEW hello, hello \in HelloAt(size), read = 0
  PROVE  hello.c0 /\ hello.size = size /\ hello.c1.signed # {}
BY StreamAssumption DEF HelloAt

\* What a client is told that is not answered.
Refusals == {"C0 Error", "C1 Error", "Client scheme error"}

\* C0 and C1 in one read are not refused.
LEMMA WholeHelloNotRefused ==
  ASSUME NEW hello, hello.c0, hello.size = 1537, hello.c1.signed # {}, NEW s1Sum
  PROVE  execute(hello, s1Sum) \notin Refusals
BY DEF Refusals, execute, C1SizeOK, C1S1_SIZE

\* The two steps of the handshake, and that no chunk disturbs it.
LEMMA HandshakeStep ==
  ASSUME HandshakeFollowsReads, NEW i \in Writes \ {0}, WholeRead(i)
  PROVE  \/ i = 1 /\ lastStatus = "New" /\ lastStatus' = "C0C1" /\ UNCHANGED session
         \/ i = 2 /\ lastStatus = "C0C1" /\ lastStatus' = "C2" /\ UNCHANGED session
         \/ i > 2 /\ lastStatus = "C2" /\ lastStatus' = "C2"
<1>0. whole /\ WriteEnd[i - 1] = read /\ fate' = "running" /\ Execute(Length(i))
  BY DEF WholeRead
<1>1. i \in Nat /\ i - 1 \in Writes
  BY WriteLengths
<1>2. ASSUME fate = "running", lastStatus = "New" PROVE i = 1 /\ read = 0
  <2>1. read = WriteEnd[0]
    BY <1>0, <1>2, FirstWrites DEF HandshakeFollowsReads
  <2>2. i - 1 = 0
    BY <1>0, <1>1, <2>1, FirstWrites, WritesApart
  <2> QED
    BY <1>1, <2>1, <2>2, FirstWrites
<1>3. ASSUME fate = "running", lastStatus = "C0C1" PROVE i = 2
  <2>1. read = WriteEnd[1]
    BY <1>0, <1>3 DEF HandshakeFollowsReads
  <2>2. i - 1 = 1
    BY <1>0, <1>1, <2>1, FirstWrites, WritesApart
  <2> QED
    BY <1>1, <2>2
<1>4. ASSUME fate = "running", lastStatus = "C2" PROVE i > 2
  <2>1. PICK k \in 0 .. Len(PublisherChunk) : read = WriteEnd[k + 2]
    BY <1>0, <1>4 DEF HandshakeFollowsReads
  <2>2. i - 1 = k + 2
    BY <1>0, <1>1, <2>1, FirstWrites, WritesApart
  <2> QED
    BY <1>1, <2>1, <2>2, FirstWrites
<1>5. ASSUME NEW h \in HelloAt(Length(i)), AcceptC0C1(h)
      PROVE  i = 1 /\ lastStatus = "New" /\ lastStatus' = "C0C1" /\ UNCHANGED session
  BY <1>2, <1>5 DEF AcceptC0C1, Read
<1>6. ASSUME NEW h, h \in HelloAt(Length(i)), RefuseC0C1(h) PROVE FALSE
  <2>1. i = 1 /\ read = 0
    BY <1>2, <1>6 DEF RefuseC0C1, Read
  <2>2. h \in HelloAt(1537)
    BY <1>6, <2>1, FirstWrites
  <2>3. h.c0 /\ h.size = 1537 /\ h.c1.signed # {}
    BY <2>1, <2>2, FirstHello
  <2>4. PICK sum \in RandomS1(S1Sums) : execute(h, sum) \in Refusals
    BY <1>6 DEF RefuseC0C1, Refusals
  <2> QED
    BY <2>3, <2>4, WholeHelloNotRefused
<1>7. ASSUME NEW h, FailC0C1(h) PROVE FALSE
  BY <1>0, <1>7 DEF FailC0C1
<1>8. ASSUME ReceiveC2(Length(i))
      PROVE  i = 2 /\ lastStatus = "C0C1" /\ lastStatus' = "C2" /\ UNCHANGED session
  BY <1>3, <1>8 DEF ReceiveC2, Read
<1>9. ASSUME IgnoreInC0C1(Length(i)) PROVE FALSE
  BY <1>3, <1>9, FirstWrites DEF IgnoreInC0C1, Read
<1>10. ASSUME NEW c, FaultOnChunk(c) PROVE FALSE
  BY <1>0, <1>10 DEF FaultOnChunk
<1>11. ASSUME NEW c, NEW stored, ReadChunk(c, stored)
       PROVE  i > 2 /\ lastStatus = "C2" /\ lastStatus' = "C2"
  BY <1>4, <1>11 DEF ReadChunk, RejectChunk, KeepChunk, CompleteChunk, TakeChunk,
     ThrowOnChunk, Read
<1> QED
  BY <1>0, <1>5, <1>6, <1>7, <1>8, <1>9, <1>10, <1>11 DEF Execute

LEMMA HandshakeKept ==
  HandshakeFollowsReads /\ [StreamNext]_streamVars => HandshakeFollowsReads'
<1> SUFFICES ASSUME HandshakeFollowsReads, [StreamNext]_streamVars,
                    whole', fate' = "running"
             PROVE  \/ lastStatus' = "New" /\ read' = 0
                    \/ lastStatus' = "C0C1" /\ read' = WriteEnd[1]
                    \/ /\ lastStatus' = "C2"
                       /\ \E k \in 0 .. Len(PublisherChunk) : read' = WriteEnd[k + 2]
  BY DEF HandshakeFollowsReads
<1>1. CASE OnRead
  <2>1. PICK i \in Writes \ {0} : WholeRead(i)
    BY <1>1, ReadsAreWrites
  <2>2. read' = WriteEnd[i]
    BY <2>1 DEF WholeRead
  <2>3. i > 2 => i - 2 \in 0 .. Len(PublisherChunk) /\ i = (i - 2) + 2
    BY FirstWrites DEF Writes
  <2> QED
    BY <2>1, <2>2, <2>3, HandshakeStep, FirstWrites
<1>2. CASE Publish \/ UNCHANGED streamVars
  BY <1>2 DEF Publish, streamVars, vars, HandshakeFollowsReads
<1> QED
  BY <1>1, <1>2 DEF StreamNext

\* If every read is one write and the program still runs, the handshake is over as
\* soon as C2 has been read: no read is wasted (RTMPClient.cpp:11 and :22).
THEOREM HandshakeInTwoReads ==
  StreamSpec => [](whole /\ fate = "running" =>
                     (read >= WriteEnd[2] => lastStatus = "C2"))
<1>1. StreamInit => HandshakeFollowsReads
  BY DEF StreamInit, Init, HandshakeFollowsReads
<1>2. HandshakeFollowsReads =>
        (whole /\ fate = "running" => (read >= WriteEnd[2] => lastStatus = "C2"))
  BY FirstWrites DEF HandshakeFollowsReads
<1> QED
  BY <1>1, <1>2, HandshakeKept, PTL DEF StreamSpec

-----------------------------------------------------------------------------
(* Reads that are whole writes: the chunks *)

\* What the client has made of the first k chunks: all of them were full, and it took
\* every byte of them and keeps their streams.
Served(k) ==
  /\ read = WriteEnd[k + 2]
  /\ taken = read - WriteEnd[2]
  /\ Len(PublisherChunk) * readSeqNum <= k * (bandwidth - 1)
  /\ \A i \in 1 .. k : Full(PublisherChunk[i])
  /\ DOMAIN incompleteRtmpBody = {PublisherChunk[i].csid : i \in 1 .. k}
  /\ \A s \in DOMAIN incompleteRtmpBody :
       Len(PublisherChunk) * (RTMP_MAX_CHUNK_HEADER + incompleteRtmpBody[s].size)
         < bandwidth

WholeChunksServed ==
  whole /\ fate = "running" /\ lastStatus = "C2" =>
    \E k \in 0 .. Len(PublisherChunk) : Served(k)

\* As long as the chunks share out a window, k of n of them do not fill it.
LEMMA Share ==
  ASSUME NEW n \in Nat, NEW k \in Nat, k < n, NEW r \in Nat, NEW b \in Nat,
         n * r <= k * b
  PROVE  r <= b
<1> SUFFICES ASSUME r > b PROVE FALSE
  OBVIOUS
<1>1. PICK d \in Nat : n = k + d /\ d > 0
  <2>1. n - k \in Nat /\ n = k + (n - k) /\ n - k > 0
    OBVIOUS
  <2> QED
    BY <2>1
<1>2. PICK e \in Nat : r = b + e /\ e > 0
  <2>1. r - b \in Nat /\ r = b + (r - b) /\ r - b > 0
    OBVIOUS
  <2> QED
    BY <2>1
<1>3. n * r = k * b + d * b + n * e
  <2>1. n * r = n * b + n * e
    BY <1>2
  <2>2. n * b = k * b + d * b
    BY <1>1
  <2> QED
    BY <2>1, <2>2
<1>4. d * b \in Nat /\ n * e \in Nat /\ n * e > 0
  OBVIOUS
<1>5. k * b \in Nat /\ n * r \in Nat
  OBVIOUS
<1> QED
  BY <1>3, <1>4, <1>5

\* Another share is added.
LEMMA AddShare ==
  ASSUME NEW n \in Nat, NEW k \in Nat, NEW r \in Nat, NEW x \in Nat, NEW b \in Nat,
         n * r <= k * (b - 1), n * x < b
  PROVE  n * (r + x) <= (k + 1) * (b - 1)
<1>1. n * (r + x) = n * r + n * x /\ n * r \in Nat /\ n * x \in Nat
  OBVIOUS
<1>2. (k + 1) * (b - 1) = k * (b - 1) + (b - 1) /\ k * (b - 1) \in Int
  OBVIOUS
<1> QED
  BY <1>1, <1>2

\* A read that is the k-th chunk hands on that chunk.
LEMMA WholeChunk ==
  ASSUME NEW k \in 0 .. Len(PublisherChunk), k + 3 \in Writes, read = WriteEnd[k + 2],
         NEW c \in ChunkAt(Length(k + 3))
  PROVE  /\ k + 1 \in DOMAIN PublisherChunk
         /\ c = PublisherChunk[k + 1] /\ c \in Chunk
<1>1. /\ PublisherChunk \in Seq(Chunk) /\ k + 1 \in 1 .. Len(PublisherChunk)
      /\ k \in Nat /\ k + 2 \in Writes
  BY FirstWrites, StreamAssumption DEF Writes
<1>2. PublisherChunk[k + 1] \in Chunk /\ k + 1 \in DOMAIN PublisherChunk
  BY <1>1
<1>3. Length(k + 3) = PublisherChunk[k + 1].size
  BY <1>1 DEF Length
<1>4. PICK i \in {j \in Writes : j >= 2 /\ j + 1 \in Writes /\ WriteEnd[j] = read} :
        c = [PublisherChunk[i - 1] EXCEPT !.size = Length(k + 3)]
  <2>1. k + 2 >= 2 /\ (k + 2) + 1 \in Writes /\ WriteEnd[k + 2] = read
    BY <1>1
  <2>2. \E i \in Writes : i >= 2 /\ i + 1 \in Writes /\ WriteEnd[i] = read
    BY <1>1, <2>1
  <2> QED
    BY <2>2 DEF ChunkAt
<1>5. i = k + 2
  BY <1>1, <1>4, WritesApart
<1>6. c = [PublisherChunk[k + 1] EXCEPT !.size = PublisherChunk[k + 1].size]
  BY <1>1, <1>3, <1>4, <1>5
<1> QED
  BY <1>2, <1>6 DEF Chunk

\* The state in which the k-th chunk of an ordinary publisher, read whole, is served.
Serving(k, c, stored) ==
  /\ Inv /\ Ordinary /\ fate = "running" /\ Served(k)
  /\ k \in 0 .. Len(PublisherChunk) /\ k + 1 \in DOMAIN PublisherChunk
  /\ c = PublisherChunk[k + 1] /\ c \in Chunk
  /\ stored \in storedLengths(c)

\* It is the first chunk of a message, on a stream that is new, or one of its rest.
LEMMA NextOrdinary ==
  ASSUME NEW k, NEW c, NEW stored, Serving(k, c, stored)
  PROVE  /\ Readable(c)
         /\ c.chunkType = IF bodyKnown(c) THEN 3 ELSE 0
         /\ c.size \in Nat /\ c.messageLength \in Nat
         /\ c.size <= basicHeaderSize(c) + chunkTypeSize(c) + 128
         /\ Len(PublisherChunk) * (18 + c.messageLength) < bandwidth
<1>1. /\ Ordinary /\ Served(k) /\ c \in Chunk
      /\ k + 1 \in DOMAIN PublisherChunk /\ c = PublisherChunk[k + 1]
      /\ k \in Nat /\ (k + 1) - 1 = k
  BY StreamAssumption DEF Serving
<1>2. \A j \in 1 .. k : Full(PublisherChunk[j])
  BY <1>1 DEF Served
<1>3. bodyKnown(c) <=> \E j \in 1 .. k : PublisherChunk[j].csid = c.csid
  BY <1>1 DEF bodyKnown, Served
<1>4. /\ Len(PublisherChunk) * (18 + c.messageLength) < bandwidth
      /\ c.size <= basicHeaderSize(c) + chunkTypeSize(c) + 128
      /\ c.chunkType = IF \E j \in 1 .. k : PublisherChunk[j].csid = c.csid
                         THEN 3 ELSE 0
  BY <1>1, <1>2 DEF Ordinary
<1>5. Readable(c) /\ c.size \in Nat /\ c.messageLength \in Nat
  BY <1>1 DEF Chunk, Readable
<1> QED
  BY <1>3, <1>4, <1>5

\* No chunk of it is dropped.
LEMMA OrdinaryNotRejected ==
  ASSUME NEW k, NEW c, NEW stored, Serving(k, c, stored)
  PROVE  ~rejected(c)
BY NextOrdinary DEF rejected

\* The window is open, and stays so with what this chunk counts for.
LEMMA OrdinaryCount ==
  ASSUME NEW k, NEW c, NEW stored, Serving(k, c, stored), bodyOK(c, stored)
  PROVE  /\ ~windowFull
         /\ readSeqNum \in Nat /\ counted(c, stored) \in Nat
         /\ Add32(readSeqNum, counted(c, stored)) = readSeqNum + counted(c, stored)
         /\ Len(PublisherChunk) * (readSeqNum + counted(c, stored))
              <= (k + 1) * (bandwidth - 1)
         /\ Len(PublisherChunk) * (18 + currentBody(c, stored).size) < bandwidth
<1> DEFINE n == Len(PublisherChunk)
           size == currentBody(c, stored).size
<1>1. /\ Inv /\ Served(k) /\ fate = "running" /\ stored \in storedLengths(c)
      /\ k \in Nat /\ n \in Nat /\ k < n
  BY StreamAssumption DEF Serving
<1>2. bandwidth \in Nat /\ bandwidth - 1 \in Nat
  BY Sizes
<1>3. readSeqNum \in Nat /\ n * readSeqNum <= k * (bandwidth - 1)
  BY <1>1 DEF Inv, TypeOK, Word, Served
<1>4. readSeqNum <= bandwidth - 1
  <2> HIDE DEF n
  <2> QED
    BY <1>1, <1>2, <1>3, Share
<1>5. ~windowFull
  BY <1>2, <1>3, <1>4 DEF windowFull
<1>6. n * (18 + size) < bandwidth
  <2>1. CASE bodyKnown(c)
    BY <1>1, <2>1 DEF bodyKnown, currentBody, Served
  <2>2. CASE ~bodyKnown(c)
    <3>1. size = c.messageLength
      BY <2>2, NextOrdinary DEF currentBody, NewBuffer, msgLen
    <3> QED
      BY <3>1, NextOrdinary
  <2> QED
    BY <2>1, <2>2
<1>7. /\ size \in Nat /\ size < HalfU32
      /\ counted(c, stored) = basicHeaderSize(c) + chunkTypeSize(c) + size
  BY <1>1, NextOrdinary, TakeFacts DEF counted
<1>8. /\ basicHeaderSize(c) \in Nat /\ chunkTypeSize(c) \in Nat
      /\ basicHeaderSize(c) + chunkTypeSize(c) <= 18
  BY NextOrdinary, HeaderSizes
<1>9. counted(c, stored) \in Nat /\ counted(c, stored) <= 18 + size
  BY <1>7, <1>8
<1>10. n * counted(c, stored) < bandwidth
  <2>1. PICK d \in Nat : 18 + size = counted(c, stored) + d
    <3>1. (18 + size) - counted(c, stored) \in Nat
      BY <1>7, <1>9
    <3> QED
      BY <1>7, <1>9, <3>1
  <2>2. n * (18 + size) = n * counted(c, stored) + n * d
    BY <1>1, <1>9, <2>1
  <2>3. n * d \in Nat /\ n * counted(c, stored) \in Nat
    BY <1>1, <1>9, <2>1
  <2> QED
    BY <1>2, <1>6, <2>2, <2>3
<1>11. n * (readSeqNum + counted(c, stored)) <= (k + 1) * (bandwidth - 1)
  <2> HIDE DEF n
  <2> QED
    BY <1>1, <1>2, <1>3, <1>9, <1>10, AddShare
<1>12. Add32(readSeqNum, counted(c, stored)) = readSeqNum + counted(c, stored)
  <2> DEFINE count == counted(c, stored)
  <2>1. count \in Nat /\ count <= 18 + size
    BY <1>9
  <2> HIDE DEF n, count, size
  <2>2. size \in Nat /\ size < HalfU32
    BY <1>7
  <2>3. bandwidth + 18 < HalfU32
    BY <1>2, Sizes, ClientAssumption
  <2>4. readSeqNum + count < U32
    BY <1>2, <1>3, <1>4, <2>1, <2>2, <2>3, Sizes
  <2>5. Add32(readSeqNum, count) = readSeqNum + count
    BY <1>3, <2>1, <2>4, Add32Fits
  <2> QED
    BY <2>5 DEF count
<1> QED
  BY <1>3, <1>5, <1>6, <1>9, <1>11, <1>12

\* A chunk that is kept was full, and all of it was taken.
LEMMA OrdinaryTaken ==
  ASSUME NEW k, NEW c, NEW stored, Serving(k, c, stored), KeepChunk(c, stored)
  PROVE  Full(c) /\ taken' = taken + c.size
<1>1. /\ TakeChunk(c, stored) /\ bodyOK(c, stored) /\ ~complete(c, stored)
      /\ Inv /\ fate = "running" /\ stored \in storedLengths(c)
  BY DEF KeepChunk, TakeChunk, Serving
<1>2. /\ Readable(c) /\ c.size \in Nat
      /\ c.size <= basicHeaderSize(c) + chunkTypeSize(c) + 128
  BY NextOrdinary
<1>3. /\ basicHeaderSize(c) \in Nat /\ chunkTypeSize(c) \in Nat
      /\ basicHeaderSize(c) + chunkTypeSize(c) <= 18
  BY <1>2, HeaderSizes
<1>4. needRead(c, stored) = 128
  BY <1>1, <1>2, TakeFacts DEF complete
<1>5. c.size >= basicHeaderSize(c) + chunkTypeSize(c) + 128
  <2> DEFINE at == basicHeaderSize(c) + chunkTypeSize(c)
  <2>1. at \in Nat /\ at <= 18
    BY <1>3
  <2>2. 1000 < U32
    BY Sizes DEF ThreeBytes
  <2>3. /\ Add32(basicHeaderSize(c), chunkTypeSize(c)) = at
        /\ Add32(at, 128) = at + 128
    <3>1. at < U32 /\ at + 128 < U32
      BY <2>1, <2>2
    <3>2. Add32(basicHeaderSize(c), chunkTypeSize(c)) = at
      BY <1>3, <3>1, Add32Fits
    <3> HIDE DEF at
    <3>3. Add32(at, 128) = at + 128
      BY <2>1, <3>1, Add32Fits
    <3> QED
      BY <3>2, <3>3
  <2>4. Sub32(at + 128, 1) = at + 127
    BY <2>1, <2>2 DEF Sub32
  <2>5. atBody(c) = [size |-> c.size, position |-> at]
    BY <2>3 DEF atBody, atType, Advance
  <2>6. GetBytesOK(atBody(c), 128)
    BY <1>1, <1>4 DEF bodyOK
  <2> HIDE DEF at
  <2>7. at + 127 < c.size
    BY <2>3, <2>4, <2>5, <2>6 DEF GetBytesOK, GetBytesAtOK, CheckIndex
  <2> QED
    BY <1>2, <2>1, <2>7 DEF at
<1>6. takenNow = taken /\ taken \in Nat
  BY <1>1, OrdinaryCount DEF takenNow, Inv, TypeOK
<1>7. taken' = takenNow + basicHeaderSize(c) + chunkTypeSize(c) + needRead(c, stored)
  BY <1>1 DEF TakeChunk
<1> QED
  BY <1>2, <1>3, <1>4, <1>5, <1>6, <1>7 DEF Full

\* What the client keeps of it is its stream.
LEMMA OrdinaryKept ==
  ASSUME NEW k, NEW c, NEW stored, Serving(k, c, stored), KeepChunk(c, stored)
  PROVE  /\ DOMAIN incompleteRtmpBody' = DOMAIN incompleteRtmpBody \cup {c.csid}
         /\ \A s \in DOMAIN incompleteRtmpBody' :
              Len(PublisherChunk) * (18 + incompleteRtmpBody'[s].size) < bandwidth
<1>1. incompleteRtmpBody' = bodies(c, stored) /\ bodyOK(c, stored)
  BY DEF KeepChunk, TakeChunk
<1>2. DOMAIN incompleteRtmpBody' = DOMAIN incompleteRtmpBody \cup {c.csid}
  BY <1>1 DEF bodies
<1>3. ASSUME NEW s \in DOMAIN incompleteRtmpBody'
      PROVE  Len(PublisherChunk) * (18 + incompleteRtmpBody'[s].size) < bandwidth
  <2>1. CASE s = c.csid
    <3>1. incompleteRtmpBody'[s] = currentBody(c, stored)
      BY <1>1, <2>1 DEF bodies
    <3> QED
      BY <1>1, <3>1, OrdinaryCount
  <2>2. CASE s # c.csid
    <3>1. /\ s \in DOMAIN incompleteRtmpBody
          /\ incompleteRtmpBody'[s] = incompleteRtmpBody[s]
      BY <1>1, <1>2, <1>3, <2>2 DEF bodies
    <3> QED
      BY <3>1 DEF Serving, Served
  <2> QED
    BY <2>1, <2>2
<1> QED
  BY <1>2, <1>3

\* The step from k chunks to one more.
LEMMA OneMoreServed ==
  ASSUME NEW k, NEW c, NEW stored, Serving(k, c, stored), KeepChunk(c, stored),
         k + 3 \in Writes, read' = WriteEnd[k + 3]
  PROVE  Served(k + 1)'
<1>1. /\ k \in Nat /\ Len(PublisherChunk) \in Nat /\ c = PublisherChunk[k + 1]
      /\ Served(k) /\ c \in Chunk /\ k + 2 \in Writes
  BY FirstWrites DEF Serving
<1>2. Full(c) /\ taken' = taken + c.size
  BY OrdinaryTaken
<1>3. taken' = read' - WriteEnd[2]
  <2>1. WriteEnd[k + 3] = WriteEnd[k + 2] + Length(k + 3)
    <3>1. k + 3 \in Writes \ {0} /\ (k + 3) - 1 = k + 2
      BY <1>1
    <3> QED
      BY <3>1, WriteLengths
  <2>2. Length(k + 3) = c.size
    BY <1>1 DEF Length
  <2>3. taken = WriteEnd[k + 2] - WriteEnd[2]
    BY <1>1 DEF Served
  <2>4. WriteEnd[k + 2] \in Nat /\ WriteEnd[2] \in Nat
    BY <1>1, WriteLengths, FirstWrites
  <2>5. c.size \in Nat
    BY NextOrdinary
  <2> QED
    BY <1>2, <2>1, <2>2, <2>3, <2>4, <2>5
<1>4. Len(PublisherChunk) * readSeqNum' <= (k + 1) * (bandwidth - 1)
  <2>1. bodyOK(c, stored)
    BY DEF KeepChunk, TakeChunk
  <2>2. readSeqNum' = Add32(seqNum, counted(c, stored)) /\ seqNum = readSeqNum
    BY <2>1, OrdinaryCount DEF KeepChunk, TakeChunk, seqNum
  <2> QED
    BY <2>1, <2>2, OrdinaryCount
<1>5. \A i \in 1 .. k + 1 : Full(PublisherChunk[i])
  <2>1. \A i \in 1 .. k : Full(PublisherChunk[i])
    BY <1>1 DEF Served
  <2> QED
    BY <1>1, <1>2, <2>1
<1>6. DOMAIN incompleteRtmpBody' = {PublisherChunk[i].csid : i \in 1 .. k + 1}
  <2>1. DOMAIN incompleteRtmpBody = {PublisherChunk[i].csid : i \in 1 .. k}
    BY <1>1 DEF Served
  <2>2. DOMAIN incompleteRtmpBody' = DOMAIN incompleteRtmpBody \cup {c.csid}
    BY OrdinaryKept
  <2>3. 1 .. k + 1 = (1 .. k) \cup {k + 1}
    BY <1>1
  <2>4. {PublisherChunk[i].csid : i \in 1 .. k + 1}
          = {PublisherChunk[i].csid : i \in 1 .. k} \cup {PublisherChunk[k + 1].csid}
    BY <2>3
  <2> QED
    BY <1>1, <2>1, <2>2, <2>4
<1>7. (k + 1) + 2 = k + 3
  BY <1>1
<1> QED
  BY <1>3, <1>4, <1>5, <1>6, <1>7, OrdinaryKept DEF Served

\* The invariants of a client whose reads are whole, together.
WholeInv ==
  /\ Inv
  /\ NothingYet
  /\ HandshakeFollowsReads
  /\ WholeChunksServed

\* A read of a whole chunk is kept, or ends the program.
LEMMA WholeChunkServed ==
  ASSUME WholeInv, Ordinary, NEW i \in Writes \ {0}, WholeRead(i), i > 2
  PROVE  \E k \in 0 .. Len(PublisherChunk) : Served(k)'
<1>1. /\ whole /\ WriteEnd[i - 1] = read /\ Execute(Length(i))
      /\ read' = WriteEnd[i] /\ fate' = "running"
  BY DEF WholeRead
<1>2. lastStatus = "C2"
  BY HandshakeStep DEF WholeInv
<1>3. PICK c \in ChunkAt(Length(i)) :
        fate = "running" /\ \E stored \in storedLengths(c) : ReadChunk(c, stored)
  <2>1. ASSUME NEW h, AcceptC0C1(h) \/ RefuseC0C1(h) \/ FailC0C1(h) PROVE FALSE
    BY <1>2, <2>1 DEF AcceptC0C1, RefuseC0C1, FailC0C1, Read
  <2>2. ASSUME ReceiveC2(Length(i)) \/ IgnoreInC0C1(Length(i)) PROVE FALSE
    BY <1>2, <2>2 DEF ReceiveC2, IgnoreInC0C1, Read
  <2>3. ASSUME NEW d, FaultOnChunk(d) PROVE FALSE
    BY <1>1, <2>3 DEF FaultOnChunk
  <2>4. ASSUME NEW d, NEW e, ReadChunk(d, e) PROVE fate = "running"
    BY <2>4 DEF ReadChunk, RejectChunk, KeepChunk, CompleteChunk, TakeChunk,
       ThrowOnChunk, Read
  <2> QED
    BY <1>1, <2>1, <2>2, <2>3, <2>4 DEF Execute
<1>4. PICK stored \in storedLengths(c) : ReadChunk(c, stored)
  BY <1>3
<1>5. PICK k \in 0 .. Len(PublisherChunk) : Served(k)
  BY <1>1, <1>2, <1>3 DEF WholeInv, WholeChunksServed
<1>6. k \in Nat /\ i = k + 3
  <2>1. k \in Nat /\ k + 2 \in Writes /\ i \in Nat /\ i - 1 \in Writes
    BY FirstWrites, WriteLengths
  <2>2. WriteEnd[i - 1] = WriteEnd[k + 2]
    BY <1>1, <1>5 DEF Served
  <2>3. i - 1 = k + 2
    BY <2>1, <2>2, WritesApart
  <2> QED
    BY <2>1, <2>3
<1>7. Serving(k, c, stored)
  <2>1. /\ k + 1 \in DOMAIN PublisherChunk
        /\ c = PublisherChunk[k + 1] /\ c \in Chunk
    BY <1>1, <1>5, <1>6, WholeChunk DEF Served
  <2> QED
    BY <1>3, <1>5, <2>1 DEF Serving, WholeInv
<1>8. KeepChunk(c, stored)
  <2>1. ~RejectChunk(c, stored)
    BY <1>7, OrdinaryNotRejected DEF RejectChunk
  <2>2. ~ThrowOnChunk(c, stored)
    BY <1>1 DEF ThrowOnChunk
  <2>3. ASSUME CompleteChunk(c, stored) PROVE FALSE
    <3>1. Inv /\ Readable(c)
      BY <1>7, NextOrdinary DEF Serving
    <3>2. fate' \in {"threw", "faulted"}
      BY <2>3, <3>1, CompleteInv
    <3> QED
      BY <1>1, <3>2
  <2> QED
    BY <1>4, <2>1, <2>2, <2>3 DEF ReadChunk
<1>9. Served(k + 1)'
  BY <1>1, <1>6, <1>7, <1>8, OneMoreServed
<1>10. k + 1 \in 0 .. Len(PublisherChunk)
  BY <1>6, <1>7, FirstWrites DEF Serving
<1> QED
  BY <1>9, <1>10

LEMMA WholeStart == StreamInit => WholeInv
<1>1. StreamInit => Inv
  BY InitInv DEF StreamInit
<1>2. StreamInit => NothingYet /\ HandshakeFollowsReads /\ WholeChunksServed
  BY DEF StreamInit, Init, NothingYet, HandshakeFollowsReads, WholeChunksServed
<1> QED
  BY <1>1, <1>2 DEF WholeInv

\* Only the chunks of a client in C2 change what it has taken or keeps.
LEMMA NothingYetKept ==
  NothingYet /\ [StreamNext]_streamVars => NothingYet'
<1> SUFFICES ASSUME NothingYet, [StreamNext]_streamVars, lastStatus' # "C2"
             PROVE  UNCHANGED session /\ lastStatus # "C2"
  BY DEF NothingYet, session
<1>1. CASE OnRead
  <2>1. PICK size : Execute(size)
    BY <1>1 DEF OnRead
  <2>2. ASSUME NEW h, AcceptC0C1(h) \/ RefuseC0C1(h) \/ FailC0C1(h)
        PROVE  UNCHANGED session /\ lastStatus # "C2"
    BY <2>2 DEF AcceptC0C1, RefuseC0C1, FailC0C1, Read
  <2>3. ASSUME ReceiveC2(size) \/ IgnoreInC0C1(size)
        PROVE  UNCHANGED session /\ lastStatus # "C2"
    BY <2>3 DEF ReceiveC2, IgnoreInC0C1, Read
  <2>4. ASSUME NEW c, FaultOnChunk(c) PROVE FALSE
    BY <2>4 DEF FaultOnChunk, Read
  <2>5. ASSUME NEW c, NEW stored, ReadChunk(c, stored) PROVE FALSE
    BY <2>5 DEF ReadChunk, RejectChunk, KeepChunk, CompleteChunk, TakeChunk,
       ThrowOnChunk, Read
  <2> QED
    BY <2>1, <2>2, <2>3, <2>4, <2>5 DEF Execute
<1>2. CASE Publish \/ UNCHANGED streamVars
  BY <1>2 DEF Publish, streamVars, vars, session
<1> QED
  BY <1>1, <1>2 DEF StreamNext

LEMMA ChunksKept ==
  ASSUME Ordinary, WholeInv, [StreamNext]_streamVars
  PROVE  WholeChunksServed'
<1> SUFFICES ASSUME whole', fate' = "running", lastStatus' = "C2"
             PROVE  \E k \in 0 .. Len(PublisherChunk) : Served(k)'
  BY DEF WholeChunksServed
<1>1. CASE OnRead
  <2>1. PICK i \in Writes \ {0} : WholeRead(i)
    BY <1>1, ReadsAreWrites
  <2>2. CASE i > 2
    BY <2>1, <2>2, WholeChunkServed
  <2>3. CASE ~(i > 2)
    <3>1. i = 2 /\ lastStatus = "C0C1" /\ UNCHANGED session
      BY <2>1, <2>3, HandshakeStep DEF WholeInv
    <3>2. /\ readSeqNum' = 0 /\ taken' = 0 /\ DOMAIN incompleteRtmpBody' = {}
          /\ read' = WriteEnd[2]
      BY <2>1, <3>1 DEF WholeInv, NothingYet, session, WholeRead
    <3>3. Len(PublisherChunk) \in Nat /\ bandwidth \in Nat
      BY FirstWrites, Sizes
    <3>4. Served(0)'
      BY <3>2, <3>3, FirstWrites DEF Served
    <3> QED
      BY <3>3, <3>4
  <2> QED
    BY <2>2, <2>3
<1>2. CASE Publish \/ UNCHANGED streamVars
  <2>1. UNCHANGED <<read, whole, taken, readSeqNum, incompleteRtmpBody, fate, lastStatus>>
    BY <1>2 DEF Publish, streamVars, vars, session
  <2> QED
    BY <2>1 DEF WholeInv, WholeChunksServed, Served
<1> QED
  BY <1>1, <1>2 DEF StreamNext

LEMMA WholeKept ==
  ASSUME Ordinary
  PROVE  WholeInv /\ [StreamNext]_streamVars => WholeInv'
<1> SUFFICES ASSUME WholeInv, [StreamNext]_streamVars PROVE WholeInv'
  OBVIOUS
<1>1. Inv'
  BY StreamCalls, CallInv DEF WholeInv
<1> QED
  BY <1>1, NothingYetKept, HandshakeKept, ChunksKept DEF WholeInv

\* Of an ordinary publisher whose writes are read one by one the client takes every
\* byte of the chunks, as long as the program runs: basic header, header and extended
\* timestamp, and readChunkSize bytes of body (RTMPClient.cpp:44, :95 and :82).
THEOREM WholeReadsTakeEveryByte ==
  ASSUME Ordinary
  PROVE  StreamSpec => []TakesEveryByteIfWhole
<1>1. WholeInv => TakesEveryByteIfWhole
  <2> SUFFICES ASSUME WholeInv, whole, fate = "running", lastStatus = "C2"
               PROVE  taken = read - WriteEnd[2]
    BY DEF TakesEveryByteIfWhole
  <2> QED
    BY DEF WholeInv, WholeChunksServed, Served
<1> QED
  BY <1>1, WholeStart, WholeKept, PTL DEF StreamSpec

\* Has the i-th chunk been read, with every read so far one write, although it was
\* not a full one?
ShortChunkRead(i) ==
  /\ whole /\ read >= WriteEnd[i + 2]
  /\ ~Full(PublisherChunk[i])

\* The chunk that ends an ordinary message carries less than readChunkSize bytes.  The
\* client asks for as many of it as of the others, its copy of the body never having
\* advanced (RTMPClient.cpp:62 and :77), or has read them all and copies them to an
\* empty body (:88): a program that has read such a chunk no longer runs.
THEOREM ShortChunkEndsProgram ==
  ASSUME Ordinary
  PROVE  StreamSpec =>
           [](\A i \in DOMAIN PublisherChunk : ShortChunkRead(i) => fate # "running")
<1> DEFINE Ends == \A i \in DOMAIN PublisherChunk : ShortChunkRead(i) => fate # "running"
<1>1. WholeInv => Ends
  <2> SUFFICES ASSUME WholeInv, NEW i \in DOMAIN PublisherChunk, ShortChunkRead(i),
                      fate = "running"
               PROVE  FALSE
    OBVIOUS
  <2>1. /\ i \in Nat /\ i >= 1 /\ i + 2 \in Writes /\ i + 2 > 2
        /\ 1 \in Writes /\ 2 \in Writes /\ i <= Len(PublisherChunk)
    BY FirstWrites, StreamAssumption DEF Writes
  <2>2. /\ WriteEnd[2] < WriteEnd[i + 2] /\ WriteEnd[1] < WriteEnd[i + 2]
        /\ WriteEnd[1] = 1537 /\ WriteEnd[i + 2] \in Nat /\ WriteEnd[2] \in Nat
    BY <2>1, WritesInOrder, WriteLengths, FirstWrites
  <2>3. lastStatus = "C2"
    BY <2>2 DEF WholeInv, HandshakeFollowsReads, ShortChunkRead
  <2>4. PICK k \in 0 .. Len(PublisherChunk) : Served(k)
    BY <2>3 DEF WholeInv, WholeChunksServed, ShortChunkRead
  <2>5. k \in Nat /\ k + 2 \in Writes /\ read = WriteEnd[k + 2]
    BY <2>4, FirstWrites DEF Served
  <2>6. i <= k
    <3>1. SUFFICES ASSUME i > k PROVE FALSE
      BY <2>1, <2>5
    <3>2. k + 2 < i + 2
      BY <2>1, <2>5, <3>1
    <3>3. WriteEnd[k + 2] < WriteEnd[i + 2] /\ WriteEnd[k + 2] \in Nat
      BY <2>1, <2>5, <3>2, WritesInOrder, WriteLengths
    <3> QED
      BY <2>2, <2>5, <3>3 DEF ShortChunkRead
  <2>7. Full(PublisherChunk[i])
    BY <2>1, <2>4, <2>5, <2>6 DEF Served
  <2> QED
    BY <2>7 DEF ShortChunkRead
<1> QED
  BY <1>1, WholeStart, WholeKept, PTL DEF StreamSpec
=============================================================================
