--------------------------------- MODULE Msg ---------------------------------
(***************************************************************************)
(* The messages of Msg.h: Encode makes the body of a chunk of a message,    *)
(* GetRtmpMessage a message of the body.  A uint32_t is the sequence of its *)
(* four bytes, most significant first.  EventData is left out: nothing      *)
(* reads it but the test of its size, which is that of the whole body.      *)
(***************************************************************************)
EXTENDS RTMP, Sequences

CONSTANTS
  Types,     \* bound: the message types of the chunks
  Bodies,    \* bound: the bodies a peer sends
  Messages   \* bound: the messages that are encoded

Byte == 0 .. 255
UInt16 == 0 .. 65535
UInt32 == [1 .. 4 -> Byte]

Message ==
  [kind : {"uint32"}, m : UInt32]
  \cup [kind : {"userControl"}, event : UInt16]
  \cup [kind : {"streamID"}, event : UInt16, stream : UInt32]
  \cup [kind : {"setBuffer"}, event : UInt16, stream : UInt32, millisecond : UInt32]
  \cup [kind : {"ping"}, event : UInt16, timestamp : UInt32]
  \cup [kind : {"bandwidth"}, window : UInt32, limit : Byte]

ASSUME MsgAssumption ==
  /\ Types \subseteq Byte
  /\ \A b \in Bodies : b \in Seq(Byte)
  /\ \A m \in Messages : m \in Message

\* No chunk, one that was not read yet, one whose body was refused, one of a type
\* that is not read, and a message that was on the stack of GetRtmpMessage.
None    == [kind |-> "none"]
Empty   == [kind |-> "empty"]
Refused == [kind |-> "refused"]
Ignored == [kind |-> "ignored"]
Stack   == [kind |-> "stack"]

VARIABLES
  type,   \* messageTypeID of the chunk
  body,   \* Body of the chunk
  made,   \* the message the body was encoded from, None if a peer sent it
  data,   \* MsgData of the chunk, or why it is empty
  fate    \* "running", or how the program ended: "threw", "faulted"

msgVars == <<type, body, made, data, fate>>

Init == type = 0 /\ body = <<>> /\ made = None /\ data = None /\ fate = "running"

-----------------------------------------------------------------------------
(* Encode *)

Short(n) == <<n \div 256, n % 256>>

\* The type of the chunks a message is sent in: any of four for a uint32.
TypesOf(m) ==
  CASE m.kind = "uint32"    -> {RTMP_MSG_CHUNK_SIZE, RTMP_MSG_ABORT, RTMP_MSG_ACK,
                                RTMP_MSG_ACK_SIZE}
    [] m.kind = "bandwidth" -> {RTMP_MSG_BANDWIDTH}
    [] OTHER                -> {RTMP_MSG_USER_CONTROL}

Encoded(m) ==
  CASE m.kind = "uint32"    -> m.m
    [] m.kind = "streamID"  -> Short(m.event) \o m.stream
    [] m.kind = "setBuffer" -> Short(m.event) \o m.stream \o m.millisecond
    [] m.kind = "ping"      -> Short(m.event) \o m.timestamp
    [] m.kind = "bandwidth" -> m.window \o <<m.limit>>

Encode(m) ==
  /\ fate = "running" /\ data = None /\ m.kind # "userControl"
  /\ type' \in TypesOf(m) \cap Types
  /\ body' = Encoded(m) /\ made' = m /\ data' = Empty
  /\ UNCHANGED fate

\* UserControlMessage::Encode writes two bytes to a vector that has none.
EncodeUserControl(m) ==
  /\ fate = "running" /\ data = None /\ m.kind = "userControl"
  /\ type' = RTMP_MSG_USER_CONTROL /\ body' = <<>> /\ made' = m
  /\ fate' = "faulted"
  /\ UNCHANGED data

\* A chunk of a peer.
Receive(t, b) ==
  /\ fate = "running" /\ data = None
  /\ type' = t /\ body' = b /\ made' = None /\ data' = Empty
  /\ UNCHANGED fate

-----------------------------------------------------------------------------
(* GetRtmpMessage *)

\* Mutant: what the log says is compared with, "UserControlMessage.Body < 2".
minSize_OfEvent == 2

\* A shorter body is refused.
minSize == 4

\* Mutant: the two bytes that Encode writes.
eventSize_Short == 2

\* The event is read as an int, of which the uint16_t keeps the last two bytes.
eventSize == 4
EventType(b) == b[eventSize - 1] * 256 + b[eventSize]

\* The k-th int of b from an offset on, if b has it: else getInt throws.
HasInt(b, from, k) == from + 4 * k <= Len(b)
IntAt(b, from, k)  == SubSeq(b, from + 4 * k - 3, from + 4 * k)

isUint32(t) ==
  t \in {RTMP_MSG_CHUNK_SIZE, RTMP_MSG_ABORT, RTMP_MSG_ACK, RTMP_MSG_ACK_SIZE}
isControl(t)   == t = RTMP_MSG_USER_CONTROL
isBandwidth(t) == t = RTMP_MSG_BANDWIDTH

Typed(t) == isUint32(t) \/ isControl(t) \/ isBandwidth(t)

\* The ints that are read after the event; none if the event has no class.
IntsOf(event) ==
  CASE event \in {RTMP_USER_STREAM_BEGIN, RTMP_USER_STREAM_EOF, RTMP_USER_STREAM_DRY,
                  RTMP_USER_STREAM_IS_RECORDED, RTMP_USER_PING_REQUEST} -> 1
    [] event = RTMP_USER_SET_BUFFLEN -> 2
    [] OTHER -> 0

ReadControl(event, b) ==
  CASE IntsOf(event) = 0 -> Stack
    [] event = RTMP_USER_PING_REQUEST ->
         [kind |-> "ping", event |-> event, timestamp |-> IntAt(b, eventSize, 1)]
    [] event = RTMP_USER_SET_BUFFLEN ->
         [kind |-> "setBuffer", event |-> event,
          stream |-> IntAt(b, eventSize, 1), millisecond |-> IntAt(b, eventSize, 2)]
    [] OTHER ->
         [kind |-> "streamID", event |-> event, stream |-> IntAt(b, eventSize, 1)]

\* The limit type is the first byte of the body, which is the first of the window.
Read(t, b) ==
  IF isUint32(t) THEN [kind |-> "uint32", m |-> IntAt(b, 0, 1)]
  ELSE IF isBandwidth(t)
         THEN [kind |-> "bandwidth", window |-> IntAt(b, 0, 1), limit |-> b[1]]
         ELSE ReadControl(EventType(b), b)

\* The ints that Read takes are in the body.
ReadOK(t, b) ==
  /\ HasInt(b, 0, 1)
  /\ isControl(t) => HasInt(b, eventSize, IntsOf(EventType(b)))

Given == fate = "running" /\ data = Empty

IgnoreType ==
  /\ Given /\ ~Typed(type)
  /\ data' = Ignored /\ UNCHANGED <<type, body, made, fate>>

RefuseBody ==
  /\ Given /\ Typed(type) /\ Len(body) < minSize
  /\ data' = Refused /\ UNCHANGED <<type, body, made, fate>>

GetMessage ==
  /\ Given /\ Typed(type) /\ Len(body) >= minSize /\ ReadOK(type, body)
  /\ data' = Read(type, body) /\ UNCHANGED <<type, body, made, fate>>

\* getInt finds no four bytes, and nothing catches what it throws.
ThrowOnBody ==
  /\ Given /\ Typed(type) /\ Len(body) >= minSize /\ ~ReadOK(type, body)
  /\ fate' = "threw" /\ UNCHANGED <<type, body, made, data>>

GetRtmpMessage == IgnoreType \/ RefuseBody \/ GetMessage \/ ThrowOnBody

\* The chunk is destroyed and its unique_ptr deletes the message; to delete one that
\* was on a stack may go unnoticed, or fault.
DestroyChunk ==
  /\ fate = "running" /\ data # None
  /\ type' = 0 /\ body' = <<>> /\ made' = None /\ data' = None
  /\ UNCHANGED fate

DeleteFromStack ==
  /\ fate = "running" /\ data = Stack
  /\ fate' = "faulted"
  /\ UNCHANGED <<type, body, made, data>>

-----------------------------------------------------------------------------
Next ==
  \/ \E m \in Messages : Encode(m) \/ EncodeUserControl(m)
  \/ \E t \in Types, b \in Bodies : Receive(t, b)
  \/ GetRtmpMessage
  \/ DestroyChunk \/ DeleteFromStack

Spec == Init /\ [][Next]_msgVars

-----------------------------------------------------------------------------
\* What Encode wrote and GetRtmpMessage read is the message that was encoded if it is
\* a uint32, or a bandwidth whose limit type happens to be the first byte of its
\* window; a user control message never comes back.
ReadsBackAsKnown ==
  made # None /\ data \notin {None, Empty, Refused, Ignored, Stack} =>
    ((data = made) <=> \/ made.kind = "uint32"
                       \/ made.kind = "bandwidth" /\ made.limit = made.window[1])

\* Whatever its bytes are, a body that is not a user control message does not end
\* the program, nor does one that is refused.
OnlyControlEndsProgram ==
  fate # "running" => isControl(type) /\ (made.kind = "userControl" \/ Len(body) >= 4)
=============================================================================
