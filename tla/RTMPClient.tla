------------------------------ MODULE RTMPClient ------------------------------
(***************************************************************************)
(* One RTMPClient: RTMPClient::Execute is called with each buffer the event *)
(* loop read from the connection, and takes at most one handshake message   *)
(* or one chunk from it.  An exception leaves Execute through the event     *)
(* loop, which catches nothing, and ends the program ("threw"); an access   *)
(* outside a vector is undefined and may end it too ("faulted").  A call    *)
(* that ends the program leaves no state anyone could see.                  *)
(***************************************************************************)
EXTENDS HandShake

CONSTANTS
  ChunkStreamID,   \* the chunk streams, as readChunkStreamID returns them
  Hellos,          \* the buffers that may arrive while New
  Chunks,          \* the buffers that may arrive later
  Garbage,         \* what an uninitialised messageLength may hold
  S1Sums,          \* the sums the offset bytes of a random S1 may have
  MaxReads         \* bound: the number of buffers read

\* The number of values of the three bytes of a message length.
ThreeBytes == 256 * 256 * 256

\* A buffer as readChunk reads it: its length, the type, the chunk stream and how
\* many further bytes that takes, and, for type 0, the message length and whether
\* the timestamp is extended.
Chunk == [size : 1 .. U32 - 1, chunkType : 0 .. 3, form : 0 .. 2,
          csid : ChunkStreamID, extended : BOOLEAN,
          messageLength : 0 .. ThreeBytes - 1]

\* An int holds the values below U32 \div 2; the rest are its negative ones.
HalfU32 == U32 \div 2

ASSUME ClientAssumption ==
  /\ ThreeBytes <= U32
  /\ bandwidth + RTMP_MAX_CHUNK_HEADER + readChunkSize < HalfU32
  /\ Hellos \subseteq Hello
  /\ Chunks \subseteq Chunk
  /\ Garbage \subseteq Word
  /\ S1Sums \subseteq Sum
  /\ MaxReads \in Nat

VARIABLES
  lastStatus,           \* New, C0C1 or C2
  rtmpHeader,           \* chunk stream -> the messageLength its header has
  incompleteRtmpBody,   \* chunk stream -> ByteBuffer
  readSeqNum,           \* bytes counted since the last window
  totalRead,            \* bytes counted in the windows before
  fate,                 \* the program: running, threw, faulted
  replies,              \* answers written to the channel
  dispatched,           \* has GetRtmpMessage ever been called?
  taken,                \* bytes really taken since the last window
  reads                 \* buffers read

session == <<rtmpHeader, incompleteRtmpBody, readSeqNum, totalRead, taken>>

vars == <<lastStatus, session, fate, replies, dispatched, reads>>

TypeOK ==
  /\ lastStatus \in {"New", "C0C1", "C2"}
  /\ DOMAIN rtmpHeader \subseteq ChunkStreamID
  /\ rtmpHeader \in [DOMAIN rtmpHeader -> Word]
  /\ DOMAIN incompleteRtmpBody \subseteq ChunkStreamID
  /\ incompleteRtmpBody \in [DOMAIN incompleteRtmpBody -> Buffer]
  /\ readSeqNum \in Word
  /\ totalRead \in Word
  /\ fate \in {"running", "threw", "faulted"}
  /\ replies \in 0 .. MaxReads
  /\ dispatched \in BOOLEAN
  /\ taken \in Nat
  /\ reads \in 0 .. MaxReads

Init ==
  /\ lastStatus = "New"
  /\ rtmpHeader = [s \in {} |-> 0]
  /\ incompleteRtmpBody = [s \in {} |-> NewBuffer(0)]
  /\ readSeqNum = 0
  /\ totalRead = 0
  /\ fate = "running"
  /\ replies = 0
  /\ dispatched = FALSE
  /\ taken = 0
  /\ reads = 0

-----------------------------------------------------------------------------
(* Execute in the handshake.                                                *)

Read(status) ==
  /\ fate = "running"
  /\ lastStatus = status
  /\ reads < MaxReads
  /\ reads' = reads + 1

\* Mutant: the status stays New after the answer.
AcceptC0C1_StaysNew(hello) ==
  /\ Read("New")
  /\ \E sum \in RandomS1(S1Sums) : execute(hello, sum) = "OK"
  /\ replies' = replies + 1
  /\ UNCHANGED <<lastStatus, session, fate, dispatched>>

\* Mutant: the status skips C0C1, so C2 is read as a chunk.
AcceptC0C1_SkipsC2(hello) ==
  /\ Read("New")
  /\ \E sum \in RandomS1(S1Sums) : execute(hello, sum) = "OK"
  /\ lastStatus' = "C2"
  /\ replies' = replies + 1
  /\ UNCHANGED <<session, fate, dispatched>>

AcceptC0C1(hello) ==
  /\ Read("New")
  /\ \E sum \in RandomS1(S1Sums) : execute(hello, sum) = "OK"
  /\ lastStatus' = "C0C1"
  /\ replies' = replies + 1
  /\ UNCHANGED <<session, fate, dispatched>>

\* An error message is logged and the next buffer is taken for C0 and C1 again.
RefuseC0C1(hello) ==
  /\ Read("New")
  /\ \E sum \in RandomS1(S1Sums) :
       execute(hello, sum) \in {"C0 Error", "C1 Error", "Client scheme error"}
  /\ UNCHANGED <<lastStatus, session, fate, replies, dispatched>>

\* A std::string built from a null pointer is undefined: libraries throw or fault.
FailC0C1(hello) ==
  /\ Read("New")
  /\ \E sum \in RandomS1(S1Sums) :
       \/ execute(hello, sum) = "out_of_range" /\ fate' = "threw"
       \/ execute(hello, sum) = "null" /\ fate' \in {"threw", "faulted"}
  /\ UNCHANGED <<lastStatus, session, replies, dispatched>>

ReceiveC2(size) ==
  /\ Read("C0C1")
  /\ size = 1536
  /\ lastStatus' = "C2"
  /\ UNCHANGED <<session, fate, replies, dispatched>>

\* Any other length is dropped without a word.
IgnoreInC0C1(size) ==
  /\ Read("C0C1")
  /\ size # 1536
  /\ UNCHANGED <<lastStatus, session, fate, replies, dispatched>>

-----------------------------------------------------------------------------
(* The parts of readChunk.                                                  *)

\* HandleMsg closes the window before it reads the chunk.
windowFull == readSeqNum >= bandwidth
seqNum     == IF windowFull THEN 0 ELSE readSeqNum
takenNow   == IF windowFull THEN 0 ELSE taken

CloseWindow ==
  totalRead' = IF windowFull THEN Add32(totalRead, readSeqNum) ELSE totalRead

\* The cursor of inMsg past the head byte and the further bytes of the stream id.
basicHeaderSize(c) == 1 + c.form
atType(c) == [size |-> c.size, position |-> basicHeaderSize(c)]

\* get() checks nothing: it reads the bytes of the stream id and, after six bytes
\* of a type 0 header that were there, the message type.
streamIDOverRead(c) == c.size < basicHeaderSize(c)

typeIDOverRead(c) == c.chunkType = 0 /\ c.size = basicHeaderSize(c) + 6

\* readChunkType reads bytes for type 0 only.
chunkTypeSize(c) ==
  IF c.chunkType # 0 THEN 0 ELSE IF c.extended THEN 15 ELSE 11

chunkTypeOK(c) ==
  c.chunkType = 0 =>
    /\ GetBytesOK(atType(c), 3)
    /\ GetBytesOK(Advance(atType(c), 3), 3)
    /\ GetBytesOK(Advance(atType(c), 7), 4)
    /\ c.extended => GetBytesOK(Advance(atType(c), 11), 4)

atBody(c) == Advance(atType(c), chunkTypeSize(c))

\* The messageLength of the header kept for the stream.  When the stream is new it
\* is whatever the memory held, and stays that: type 0 writes to a copy.
storedLengths(c) ==
  IF c.csid \in DOMAIN rtmpHeader THEN {rtmpHeader[c.csid]} ELSE Garbage

headers(c, stored) ==
  [s \in DOMAIN rtmpHeader \cup {c.csid} |->
     IF s = c.csid THEN stored ELSE rtmpHeader[s]]

msgLen(c, stored) == IF c.chunkType = 0 THEN c.messageLength ELSE stored

\* Mutant: a body counts as kept only once bytes are in it.
bodyKnown_Started(c) ==
  /\ c.csid \in DOMAIN incompleteRtmpBody
  /\ incompleteRtmpBody[c.csid].position > 0

bodyKnown(c) == c.csid \in DOMAIN incompleteRtmpBody

\* The copy of the body that the chunk is read into.
currentBody(c, stored) ==
  IF bodyKnown(c) THEN incompleteRtmpBody[c.csid]
                  ELSE NewBuffer(msgLen(c, stored))

unRead(c, stored) ==
  Sub32(msgLen(c, stored), currentBody(c, stored).position)

needRead(c, stored) ==
  IF unRead(c, stored) < readChunkSize THEN unRead(c, stored) ELSE readChunkSize

\* Mutant: a needRead that is negative as an int is taken as it is.
bodyOK_Unsigned(c, stored) ==
  /\ GetBytesOK(atBody(c), needRead(c, stored))
  /\ PutBytesOK(currentBody(c, stored), needRead(c, stored))

\* A negative needRead is no size for a vector.
bodyOK(c, stored) ==
  /\ unRead(c, stored) < HalfU32
  /\ GetBytesOK(atBody(c), needRead(c, stored))
  /\ PutBytesOK(currentBody(c, stored), needRead(c, stored))

\* The copy once the chunk is in it.
filled(c, stored) == Advance(currentBody(c, stored), needRead(c, stored))

\* Mutant: the copy is written back.
bodies_WrittenBack(c, stored) ==
  [s \in DOMAIN incompleteRtmpBody \cup {c.csid} |->
     IF s = c.csid THEN filled(c, stored) ELSE incompleteRtmpBody[s]]

\* The map keeps the body as it was before.
bodies(c, stored) ==
  [s \in DOMAIN incompleteRtmpBody \cup {c.csid} |->
     IF s = c.csid THEN currentBody(c, stored) ELSE incompleteRtmpBody[s]]

\* Mutant: the bytes that were in the body before the chunk are counted.
counted_BytesBefore(c, stored) ==
  basicHeaderSize(c) + chunkTypeSize(c) + currentBody(c, stored).position

\* What readSeqNum grows by: the whole body instead of the part of it just read.
counted(c, stored) ==
  basicHeaderSize(c) + chunkTypeSize(c) + currentBody(c, stored).size

complete(c, stored) == filled(c, stored).position = msgLen(c, stored)

-----------------------------------------------------------------------------
(* Execute in C2: HandleMsg, by the way out of readChunk.                   *)

\* Mutant: a chunk of type 3 is a new message too.
rejected_AnyType(c) == bodyKnown(c) /\ incompleteRtmpBody[c.csid].size > 0

rejected(c) ==
  /\ c.chunkType # 3
  /\ bodyKnown(c)
  /\ incompleteRtmpBody[c.csid].size > 0

\* A new message on a stream whose body is incomplete is logged and dropped.
RejectChunk(c, stored) ==
  /\ Read("C2")
  /\ rejected(c)
  /\ CloseWindow
  /\ rtmpHeader' = headers(c, stored)
  /\ readSeqNum' = Add32(seqNum, basicHeaderSize(c))
  /\ taken' = takenNow + basicHeaderSize(c)
  /\ UNCHANGED <<lastStatus, incompleteRtmpBody, fate, replies, dispatched>>

TakeChunk(c, stored) ==
  /\ Read("C2")
  /\ ~rejected(c) /\ chunkTypeOK(c) /\ bodyOK(c, stored)
  /\ CloseWindow
  /\ rtmpHeader' = headers(c, stored)
  /\ incompleteRtmpBody' = bodies(c, stored)
  /\ readSeqNum' = Add32(seqNum, counted(c, stored))
  /\ taken' = takenNow + basicHeaderSize(c) + chunkTypeSize(c)
                + needRead(c, stored)
  /\ UNCHANGED <<lastStatus, replies>>

\* The chunk does not complete its message.
KeepChunk(c, stored) ==
  /\ TakeChunk(c, stored)
  /\ ~complete(c, stored)
  /\ UNCHANGED <<fate, dispatched>>

\* The chunk completes its message, which is fetched from the cursor on, that is
\* from behind the bytes just put, into msg.Body, a vector without elements.
CompleteChunk(c, stored) ==
  /\ TakeChunk(c, stored)
  /\ complete(c, stored)
  /\ fate' = IF ~GetBytesOK(filled(c, stored), msgLen(c, stored)) THEN "threw"
             ELSE IF msgLen(c, stored) > 0 THEN "faulted"
             ELSE "running"
  /\ dispatched' = (dispatched \/ fate' = "running")

\* A check of inMsg or of the body fails, or the vector cannot be made.
ThrowOnChunk(c, stored) ==
  /\ Read("C2")
  /\ ~rejected(c) /\ ~(chunkTypeOK(c) /\ bodyOK(c, stored))
  /\ fate' = "threw"
  /\ UNCHANGED <<lastStatus, session, replies, dispatched>>

\* Reading past the buffer gives some byte, with which the call goes on as above,
\* or faults.
FaultOnChunk(c) ==
  /\ Read("C2")
  /\ streamIDOverRead(c) \/ (typeIDOverRead(c) /\ ~rejected(c))
  /\ fate' = "faulted"
  /\ UNCHANGED <<lastStatus, session, replies, dispatched>>

-----------------------------------------------------------------------------
ReadChunk(c, stored) ==
  \/ RejectChunk(c, stored) \/ KeepChunk(c, stored)
  \/ CompleteChunk(c, stored) \/ ThrowOnChunk(c, stored)

Greet ==
  \E hello \in Hellos :
    AcceptC0C1(hello) \/ RefuseC0C1(hello) \/ FailC0C1(hello)

AwaitC2 == \E c \in Chunks : ReceiveC2(c.size) \/ IgnoreInC0C1(c.size)

HandleMsg ==
  \E c \in Chunks :
    \/ FaultOnChunk(c)
    \/ \E stored \in storedLengths(c) : ReadChunk(c, stored)

Next == Greet \/ AwaitC2 \/ HandleMsg

Spec == Init /\ [][Next]_vars

-----------------------------------------------------------------------------
\* While the program runs, every body that is kept waits for more than one chunk
\* of its message, and is kept as resize() made it: what was read into the copy
\* is lost.  Headers and bodies are kept for the same streams.
BodiesStayEmpty == fate = "running" =>
  /\ DOMAIN rtmpHeader = DOMAIN incompleteRtmpBody
  /\ \A s \in DOMAIN incompleteRtmpBody :
       LET body == incompleteRtmpBody[s]
       IN  body.position = 0 /\ body.size > readChunkSize /\ body.size < HalfU32

\* No message is ever handed to GetRtmpMessage, not even an empty one: the call
\* that would do it ends the program first.
NothingDispatched == ~dispatched

\* While the program runs, what it counts as read is never less than what it took,
\* so no window is left open past bandwidth bytes and one chunk.
WindowCoversReads == fate = "running" =>
  /\ taken <= readSeqNum
  /\ taken < bandwidth + RTMP_MAX_CHUNK_HEADER + readChunkSize

\* The count, which adds the whole message length for every chunk, stays below the
\* value at which it would wrap to 0 and the window would never be seen full.
WindowNeverWraps == readSeqNum < bandwidth + RTMP_MAX_CHUNK_HEADER + HalfU32

\* A chunk stream is never reopened: its header and its body are fixed by the
\* first chunk, and no later chunk, whatever its type, changes or removes them.
StreamsNeverReopen ==
  [][\A s \in DOMAIN incompleteRtmpBody :
       /\ s \in DOMAIN incompleteRtmpBody'
       /\ incompleteRtmpBody'[s] = incompleteRtmpBody[s]
       /\ rtmpHeader'[s] = rtmpHeader[s]]_vars

\* A session as the rest of the program sees it.
Session == INSTANCE RTMPSession WITH
  Stream   <- ChunkStreamID,
  phase    <- lastStatus,
  alive    <- fate = "running",
  answers  <- replies,
  open     <- DOMAIN incompleteRtmpBody,
  handedOn <- dispatched

\* RTMPClient implements RTMPSession.
ImplementsSession == Session!Spec
=============================================================================
