------------------------------ MODULE RTMPStream ------------------------------
(***************************************************************************)
(* A publisher, the TCP connection and the RTMPClient that serves it.  The  *)
(* publisher writes C0 and C1, waits for the answer, writes C2 and at once  *)
(* its chunks.  TCP keeps the order of the bytes and not the borders of the *)
(* writes: the event loop hands Execute any number of the bytes that have   *)
(* arrived, and Execute remembers nothing of a buffer it could not use.     *)
(***************************************************************************)
EXTENDS RTMPClient, Sequences

CONSTANTS
  PublisherC1,     \* the C1 of the publisher
  PublisherChunk,  \* its chunks
  WriteEnd,        \* where each of its writes ends in the stream of bytes
  Cuts             \* bound: where a read may end, besides the end of a write

Writes == 0 .. Len(PublisherChunk) + 2

Length(i) == IF i = 1 THEN 1537 ELSE IF i = 2 THEN 1536
             ELSE PublisherChunk[i - 2].size

ASSUME StreamAssumption ==
  /\ PublisherC1 \in C1 /\ PublisherC1.signed # {} /\ ~PublisherC1.zeroVersion
  /\ PublisherChunk \in Seq(Chunk)
  /\ Cuts \subseteq Nat
  /\ WriteEnd \in [Writes -> Nat] /\ WriteEnd[0] = 0
  /\ \A i \in Writes \ {0} : WriteEnd[i] = WriteEnd[i - 1] + Length(i)

VARIABLES
  sent,    \* writes of the publisher: C0 and C1, C2, the chunks
  read,    \* bytes handed to Execute
  first,   \* the length of the first buffer, 0 before it
  whole    \* has every buffer so far been exactly one write?

streamVars == <<vars, sent, read, first, whole>>

StreamTypeOK ==
  /\ TypeOK
  /\ sent \in Writes
  /\ read \in 0 .. WriteEnd[sent]
  /\ first \in 0 .. WriteEnd[sent]
  /\ whole \in BOOLEAN

StreamInit ==
  /\ Init
  /\ sent = 0
  /\ read = 0
  /\ first = 0
  /\ whole = TRUE

-----------------------------------------------------------------------------
Publish ==
  /\ sent + 1 \in Writes
  /\ sent = 1 => replies = 1
  /\ sent' = sent + 1
  /\ UNCHANGED <<vars, read, first, whole>>

\* The next size bytes as a first message.  Bytes from within a write can begin
\* with any byte and carry no digest.
HelloAt(size) ==
  {h \in [size : {size}, c0 : BOOLEAN,
          c1 : {PublisherC1, [PublisherC1 EXCEPT !.signed = {}]}] :
     IF read = 0 THEN h.c0 /\ h.c1 = PublisherC1 ELSE h.c1.signed = {}}

\* The next size bytes as a chunk, to which anything may follow in the buffer.
ChunkAt(size) ==
  IF \E i \in Writes : i >= 2 /\ i + 1 \in Writes /\ WriteEnd[i] = read
    THEN {[PublisherChunk[i - 1] EXCEPT !.size = size] :
            i \in {j \in Writes : j >= 2 /\ j + 1 \in Writes /\ WriteEnd[j] = read}}
    ELSE {[c EXCEPT !.size = size] : c \in Chunks}

Execute(size) ==
  \/ \E h \in HelloAt(size) : AcceptC0C1(h) \/ RefuseC0C1(h) \/ FailC0C1(h)
  \/ ReceiveC2(size) \/ IgnoreInC0C1(size)
  \/ \E c \in ChunkAt(size) :
       \/ FaultOnChunk(c)
       \/ \E stored \in storedLengths(c) : ReadChunk(c, stored)

\* Mutant: the event loop hands on its whole buffer.
Arrived_WholeBuffer == {to \in Cuts \cup {WriteEnd[i] : i \in Writes} : read < to}

\* Where a read may end that has only what was written.
Arrived == {to \in Cuts \cup {WriteEnd[i] : i \in Writes} : read < to /\ to <= WriteEnd[sent]}

OnRead ==
  \E to \in Arrived :
    /\ Execute(to - read)
    /\ read' = to
    /\ first' = IF read = 0 THEN to ELSE first
    /\ whole' = (whole /\ \E i \in Writes \ {0} : WriteEnd[i - 1] = read /\ WriteEnd[i] = to)
    /\ UNCHANGED sent

StreamNext == Publish \/ OnRead

\* The publisher writes when it may, and the event loop reads what has arrived.
StreamSpec ==
  /\ StreamInit /\ [][StreamNext]_streamVars
  /\ WF_streamVars(Publish) /\ WF_streamVars(OnRead)

-----------------------------------------------------------------------------
\* A publisher is answered only if the 1537 bytes of C0 and C1 came in one buffer:
\* after any other first read it waits for an answer for ever, whatever follows.
AnsweredOnlyInOnePiece == lastStatus # "New" => first = 1537

\* If every read is one write, the handshake ends.
EstablishedIfWhole == []whole => <>(lastStatus = "C2")

\* If every read is one write, the message of 300 bytes that the publisher begins
\* with ends the program: its third chunk is shorter than readChunkSize.
OrdinaryMessageEndsProgram == []whole => <>(fate # "running")

\* While reads are whole and the program runs, the client takes every byte of the
\* chunks it is handed.
TakesEveryByteIfWhole ==
  whole /\ fate = "running" /\ lastStatus = "C2" => taken = read - WriteEnd[2]

\* What the chunks of a publisher are like: up to the first that is not full, and so
\* ends a message, none is longer than a full one, each stream carries the one message
\* that it begins with, and all of them together are well within a window.
Full(c) == c.size = basicHeaderSize(c) + chunkTypeSize(c) + readChunkSize

Ordinary ==
  \A i \in DOMAIN PublisherChunk : LET c == PublisherChunk[i] IN
    /\ Len(PublisherChunk) * (RTMP_MAX_CHUNK_HEADER + c.messageLength) < bandwidth
    /\ (\A j \in 1 .. i - 1 : Full(PublisherChunk[j])) =>
         /\ c.size <= basicHeaderSize(c) + chunkTypeSize(c) + readChunkSize
         /\ c.chunkType = IF \E j \in 1 .. i - 1 : PublisherChunk[j].csid = c.csid
                            THEN 3 ELSE 0
=============================================================================
