----------------------------- MODULE Msg_proofs ------------------------------
(***************************************************************************)
(* The invariants of Msg, for every message, every body a peer may send and *)
(* every type of chunk.                                                     *)
(***************************************************************************)
EXTENDS Msg, SequenceTheorems, TLAPS

USE DEF RTMP_MSG_CHUNK_SIZE, RTMP_MSG_ABORT, RTMP_MSG_ACK, RTMP_MSG_USER_CONTROL,
        RTMP_MSG_ACK_SIZE, RTMP_MSG_BANDWIDTH

\* The body of a chunk whose message was encoded is what Encode made of it.
HoldsWhatWasMade ==
  made # None =>
    /\ made \in Message
    /\ made.kind = "userControl" => isControl(type) /\ data = None
    /\ made.kind # "userControl" => type \in TypesOf(made) /\ body = Encoded(made)

\* What a chunk's message says is what its body says: reading does not disturb it.
HoldsWhatWasRead ==
  data \notin {None, Empty, Refused, Ignored} =>
    Typed(type) /\ Len(body) >= minSize /\ ReadOK(type, body) /\ data = Read(type, body)

\* A chunk that is given and not yet read, or was ignored or refused, ends nothing; so
\* the program ends on a chunk that holds what was made or what was read.
Inv ==
  /\ HoldsWhatWasMade
  /\ HoldsWhatWasRead
  /\ OnlyControlEndsProgram

-----------------------------------------------------------------------------
\* The sets of records that make up Message.
LEMMA Kinds ==
  ASSUME NEW m \in Message
  PROVE  \/ m.kind = "uint32" /\ m = [kind |-> "uint32", m |-> m.m] /\ m.m \in UInt32
         \/ m.kind = "userControl" /\ m.event \in UInt16
         \/ m.kind = "streamID" /\ m.event \in UInt16 /\ m.stream \in UInt32
         \/ /\ m.kind = "setBuffer" /\ m.event \in UInt16
            /\ m.stream \in UInt32 /\ m.millisecond \in UInt32
         \/ m.kind = "ping" /\ m.event \in UInt16 /\ m.timestamp \in UInt32
         \/ /\ m.kind = "bandwidth" /\ m.window \in UInt32 /\ m.limit \in Byte
            /\ m = [kind |-> "bandwidth", window |-> m.window, limit |-> m.limit]
BY DEF Message

\* Four bytes are a sequence of length four, alone and in front of another byte.
LEMMA FourBytes ==
  ASSUME NEW i \in UInt32
  PROVE  i \in Seq(Byte) /\ Len(i) = 4 /\ SubSeq(i, 1, 4) = i
<1>1. i \in [1 .. 4 -> Byte] /\ 4 \in Nat
  BY DEF UInt32
<1>2. i \in Seq(Byte)
  BY <1>1, SeqDef
<1>3. Len(i) \in Nat /\ DOMAIN i = 1 .. Len(i)
  BY <1>2, LenProperties
<1>4. Len(i) = 4
  <2>1. DOMAIN i = 1 .. 4
    BY <1>1
  <2>2. 4 \in 1 .. Len(i)
    BY <1>3, <2>1, 4 \in 1 .. 4
  <2>3. Len(i) \in 1 .. Len(i)
    BY <1>3, <2>2
  <2>4. Len(i) \in 1 .. 4
    BY <1>3, <2>1, <2>3
  <2> QED
    BY <1>3, <2>2, <2>4
<1> QED
  BY <1>2, <1>4, SubSeqFull

LEMMA FourBytesFirst ==
  ASSUME NEW i \in UInt32, NEW b \in Byte
  PROVE  SubSeq(i \o <<b>>, 1, 4) = i /\ (i \o <<b>>)[1] = i[1]
<1>1. i \in Seq(Byte) /\ Len(i) = 4 /\ SubSeq(i, 1, 4) = i
  BY FourBytes
<1>2. <<b>> \in Seq(Byte) /\ Len(<<b>>) = 1
  OBVIOUS
<1>3. SubSeq(i \o <<b>>, 1, 4) = SubSeq(i, 1, 4)
  <2>1. 1 \in 1 .. Len(i) /\ 4 \in 1 .. Len(i)
    BY <1>1
  <2> QED
    BY <1>1, <1>2, <2>1, SubSeqOfConcat1, Zenon
<1>4. (i \o <<b>>)[1] = i[1]
  BY <1>1, <1>2, ConcatProperties
<1> QED
  BY <1>1, <1>3, <1>4

LEMMA UInt16IsNat == UInt16 \subseteq Nat
BY DEF UInt16

\* How long the body of a user control message is.
LEMMA EncodedLength ==
  ASSUME NEW m \in Message
  PROVE  /\ m.kind \in {"streamID", "ping"} => Len(Encoded(m)) = 6
         /\ m.kind = "setBuffer" => Len(Encoded(m)) = 10
<1>1. ASSUME NEW n \in UInt16, NEW i \in UInt32
      PROVE  /\ Short(n) \o i \in Seq(Nat) /\ Len(Short(n) \o i) = 6
             /\ i \in Seq(Nat) /\ Len(i) = 4
  <2>1. Short(n) \in Seq(Nat) /\ Len(Short(n)) = 2
    <3>1. n \in Nat
      BY UInt16IsNat
    <3>2. n \div 256 \in Nat /\ n % 256 \in Nat
      BY <3>1
    <3> QED
      BY <3>2 DEF Short
  <2>2. i \in Seq(Nat) /\ Len(i) = 4
    <3>1. Byte \subseteq Nat
      BY DEF Byte
    <3> QED
      BY <3>1, FourBytes, SeqMonotonic, Zenon
  <2>3. /\ Short(n) \o i \in Seq(Nat)
        /\ Len(Short(n) \o i) = Len(Short(n)) + Len(i)
    BY <2>1, <2>2, ConcatProperties, Zenon
  <2> QED
    BY <2>1, <2>2, <2>3
<1>2. CASE m.kind = "streamID"
  <2>1. /\ m.event \in UInt16 /\ m.stream \in UInt32
        /\ Encoded(m) = Short(m.event) \o m.stream
    BY <1>2, Kinds DEF Encoded
  <2> QED
    BY <1>1, <1>2, <2>1
<1>3. CASE m.kind = "ping"
  <2>1. /\ m.event \in UInt16 /\ m.timestamp \in UInt32
        /\ Encoded(m) = Short(m.event) \o m.timestamp
    BY <1>3, Kinds DEF Encoded
  <2> QED
    BY <1>1, <1>3, <2>1
<1>4. CASE m.kind = "setBuffer"
  <2>1. /\ m.event \in UInt16 /\ m.stream \in UInt32 /\ m.millisecond \in UInt32
        /\ Encoded(m) = (Short(m.event) \o m.stream) \o m.millisecond
    BY <1>4, Kinds DEF Encoded
  <2>2. /\ Short(m.event) \o m.stream \in Seq(Nat) /\ m.millisecond \in Seq(Nat)
        /\ Len(Short(m.event) \o m.stream) = 6 /\ Len(m.millisecond) = 4
    BY <1>1, <2>1
  <2>3. Len((Short(m.event) \o m.stream) \o m.millisecond) =
          Len(Short(m.event) \o m.stream) + Len(m.millisecond)
    BY <2>2, ConcatProperties, Zenon
  <2> QED
    BY <1>4, <2>1, <2>2, <2>3
<1> QED
  BY <1>2, <1>3, <1>4

-----------------------------------------------------------------------------
\* What is read of any other type is never left on the stack.
LEMMA OnlyControlOnStack ==
  ASSUME NEW t, NEW b, Typed(t), Read(t, b) = Stack
  PROVE  isControl(t)
<1>1. CASE isUint32(t)
  BY <1>1 DEF Read, Stack
<1>2. CASE isBandwidth(t)
  BY <1>2 DEF Read, Stack, isBandwidth, isUint32
<1> QED
  BY <1>1, <1>2 DEF Typed

\* A body that is not refused has the int that is read of any other type.
LEMMA OnlyControlThrows ==
  ASSUME NEW t, NEW b, Len(b) >= minSize, ~ReadOK(t, b)
  PROVE  isControl(t)
BY DEF minSize, ReadOK, HasInt

LEMMA InitInv == Init => Inv
BY DEF Init, Inv, HoldsWhatWasMade, HoldsWhatWasRead, OnlyControlEndsProgram, None

\* A chunk is made, by Encode or from what a peer sent; its message is not read yet.
LEMMA MakeInv ==
  ASSUME Inv,
         \/ \E m \in Messages : Encode(m) \/ EncodeUserControl(m)
         \/ \E t \in Types, b \in Bodies : Receive(t, b)
  PROVE  Inv'
<1> USE DEF Inv, HoldsWhatWasMade, HoldsWhatWasRead, OnlyControlEndsProgram
<1>1. ASSUME NEW m \in Messages, Encode(m) PROVE Inv'
  <2>1. m \in Message
    BY MsgAssumption
  <2> QED
    BY <1>1, <2>1 DEF Encode, Empty
<1>2. ASSUME NEW m \in Messages, EncodeUserControl(m) PROVE Inv'
  <2>1. m \in Message
    BY MsgAssumption
  <2> QED
    BY <1>2, <2>1 DEF EncodeUserControl, isControl, None
<1>3. ASSUME NEW t \in Types, NEW b \in Bodies, Receive(t, b) PROVE Inv'
  BY <1>3 DEF Receive, Empty, None
<1> QED
  BY <1>1, <1>2, <1>3

\* A message is read, or the body is ignored or refused, or an int is missing from it.
LEMMA ReadInv ==
  ASSUME Inv, GetRtmpMessage
  PROVE  Inv'
<1> USE DEF Inv, HoldsWhatWasMade, HoldsWhatWasRead, OnlyControlEndsProgram, Given
<1>0. data = Empty /\ Empty # None /\ UNCHANGED <<type, body, made>>
  BY DEF GetRtmpMessage, IgnoreType, RefuseBody, GetMessage, ThrowOnBody, Empty, None
<1>1. CASE IgnoreType \/ RefuseBody
  BY <1>0, <1>1 DEF IgnoreType, RefuseBody
<1>2. CASE GetMessage
  <2>1. /\ data' = Read(type, body) /\ Typed(type) /\ Len(body) >= minSize
        /\ ReadOK(type, body) /\ fate = "running" /\ fate' = fate
    BY <1>2 DEF GetMessage
  <2> QED
    BY <1>0, <2>1, minSize' = minSize DEF minSize
<1>3. CASE ThrowOnBody
  <2>1. Len(body) >= minSize /\ ~ReadOK(type, body) /\ UNCHANGED data
    BY <1>3 DEF ThrowOnBody
  <2>2. isControl(type)
    BY <2>1, OnlyControlThrows
  <2> QED
    BY <1>0, <2>1, <2>2 DEF minSize
<1> QED
  BY <1>1, <1>2, <1>3 DEF GetRtmpMessage

\* The chunk is destroyed, with the message it holds.
LEMMA DestroyInv ==
  ASSUME Inv, DestroyChunk \/ DeleteFromStack
  PROVE  Inv'
<1> USE DEF Inv, HoldsWhatWasMade, HoldsWhatWasRead, OnlyControlEndsProgram
<1>1. CASE DestroyChunk
  BY <1>1 DEF DestroyChunk, None
<1>2. CASE DeleteFromStack
  <2>1. data = Stack /\ UNCHANGED <<type, body, made, data>>
    BY <1>2 DEF DeleteFromStack
  <2>2. Typed(type) /\ Len(body) >= minSize /\ Read(type, body) = Stack
    BY <2>1 DEF Stack, None, Empty, Refused, Ignored
  <2>3. isControl(type)
    BY <2>2, OnlyControlOnStack
  <2> QED
    BY <2>1, <2>2, <2>3 DEF minSize
<1> QED
  BY <1>1, <1>2

LEMMA NextInv == Inv /\ [Next]_msgVars => Inv'
<1> SUFFICES ASSUME Inv, [Next]_msgVars PROVE Inv'
  OBVIOUS
<1>1. CASE UNCHANGED msgVars
  BY <1>1 DEF msgVars, Inv, HoldsWhatWasMade, HoldsWhatWasRead, OnlyControlEndsProgram
<1> QED
  BY <1>1, MakeInv, ReadInv, DestroyInv DEF Next

LEMMA Invariance == Spec => []Inv
BY InitInv, NextInv, PTL DEF Spec

\* Whatever bytes a peer sends, a message that is not a user control message, or is
\* refused, does not end the program (Msg.h:131 and :162).
THEOREM OtherMessagesEndNothing == Spec => []OnlyControlEndsProgram
<1>1. Inv => OnlyControlEndsProgram
  BY DEF Inv
<1> QED
  BY <1>1, Invariance, PTL

-----------------------------------------------------------------------------
(* Encode and then GetRtmpMessage *)

\* A uint32 comes back as it was.
LEMMA Uint32ComesBack ==
  ASSUME NEW m \in Message, m.kind = "uint32", NEW t \in TypesOf(m)
  PROVE  Read(t, Encoded(m)) = m
<1>1. m = [kind |-> "uint32", m |-> m.m] /\ m.m \in UInt32
  BY Kinds
<1>2. Encoded(m) = m.m
  BY DEF Encoded
<1>3. isUint32(t)
  BY DEF TypesOf, isUint32
<1>4. IntAt(m.m, 0, 1) = m.m
  <2>1. SubSeq(m.m, 1, 4) = m.m
    BY <1>1, FourBytes
  <2> QED
    BY <2>1 DEF IntAt
<1> QED
  BY <1>1, <1>2, <1>3, <1>4 DEF Read

\* A bandwidth comes back with the first byte of its window for a limit type.
LEMMA BandwidthComesBackWithWindow ==
  ASSUME NEW m \in Message, m.kind = "bandwidth", NEW t \in TypesOf(m)
  PROVE  Read(t, Encoded(m)) = m <=> m.limit = m.window[1]
<1>1. /\ m = [kind |-> "bandwidth", window |-> m.window, limit |-> m.limit]
      /\ m.window \in UInt32 /\ m.limit \in Byte
  BY Kinds
<1> DEFINE b == m.window \o <<m.limit>>
<1>2. Encoded(m) = b
  BY DEF Encoded
<1>3. isBandwidth(t) /\ ~isUint32(t)
  BY DEF TypesOf, isBandwidth, isUint32
<1>4. IntAt(b, 0, 1) = m.window /\ b[1] = m.window[1]
  <2>1. SubSeq(b, 1, 4) = m.window /\ b[1] = m.window[1]
    BY <1>1, FourBytesFirst
  <2> QED
    BY <2>1 DEF IntAt
<1>5. Read(t, b) = [kind |-> "bandwidth", window |-> m.window, limit |-> m.window[1]]
  <2> HIDE DEF b
  <2> QED
    BY <1>3, <1>4 DEF Read
<1> QED
  BY <1>1, <1>2, <1>5

\* What is read of a user control message is one, and longer than its event just if it
\* is not left on the stack.
LEMMA ControlRead ==
  ASSUME NEW event, NEW b, ReadControl(event, b) # Stack
  PROVE  /\ IntsOf(event) \in {1, 2}
         /\ IntsOf(event) = 1 => ReadControl(event, b).kind \in {"ping", "streamID"}
BY DEF ReadControl, IntsOf, RTMP_USER_SET_BUFFLEN, RTMP_USER_STREAM_BEGIN,
       RTMP_USER_STREAM_EOF, RTMP_USER_STREAM_DRY, RTMP_USER_STREAM_IS_RECORDED,
       RTMP_USER_PING_REQUEST

\* A user control message does not: the two bytes of its event are read as four, so an
\* int is missing, or one is left over.
LEMMA ControlNeverComesBack ==
  ASSUME NEW m \in Message, m.kind \in {"streamID", "setBuffer", "ping"},
         NEW t \in TypesOf(m), NEW b, b = Encoded(m),
         ReadOK(t, b), Read(t, b) # Stack
  PROVE  Read(t, b) # m
<1> DEFINE event == EventType(b)
<1>1. isControl(t) /\ ~isUint32(t) /\ ~isBandwidth(t)
  BY DEF TypesOf, isControl, isUint32, isBandwidth
<1>2. Read(t, b) = ReadControl(event, b)
  BY <1>1 DEF Read
<1>3. /\ IntsOf(event) \in {1, 2}
      /\ IntsOf(event) = 1 => Read(t, b).kind \in {"ping", "streamID"}
  BY <1>2, ControlRead
<1>4. 4 + 4 * IntsOf(event) <= Len(b)
  BY <1>1 DEF ReadOK, HasInt, eventSize
<1> HIDE DEF event
<1>5. CASE m.kind \in {"streamID", "ping"}
  <2>1. Len(b) = 6
    BY <1>5, EncodedLength
  <2> QED
    BY <1>3, <1>4, <2>1
<1>6. CASE m.kind = "setBuffer"
  <2>1. Len(b) = 10
    BY <1>6, EncodedLength
  <2>2. IntsOf(event) = 1
    BY <1>3, <1>4, <2>1
  <2> QED
    BY <1>3, <1>6, <2>2
<1> QED
  BY <1>5, <1>6

\* A message survives Encode and GetRtmpMessage just if it is a uint32, or a bandwidth
\* whose limit type is the first byte of its window (Msg.h:177).
THEOREM MessagesReadBack == Spec => []ReadsBackAsKnown
<1>1. Inv => ReadsBackAsKnown
  <2> SUFFICES ASSUME Inv, made # None, data \notin {None, Empty, Refused, Ignored, Stack}
               PROVE  (data = made) <=> \/ made.kind = "uint32"
                                        \/ /\ made.kind = "bandwidth"
                                           /\ made.limit = made.window[1]
    BY DEF ReadsBackAsKnown
  <2>1. data = Read(type, body) /\ ReadOK(type, body) /\ Read(type, body) # Stack
    BY DEF Inv, HoldsWhatWasRead
  <2>2. made \in Message /\ made.kind # "userControl"
    BY DEF Inv, HoldsWhatWasMade
  <2>3. body = Encoded(made) /\ type \in TypesOf(made)
    BY <2>2 DEF Inv, HoldsWhatWasMade
  <2>4. made.kind \in {"uint32", "streamID", "setBuffer", "ping", "bandwidth"}
    BY <2>2, Kinds
  <2> QED
    BY <2>1, <2>2, <2>3, <2>4, Uint32ComesBack, BandwidthComesBackWithWindow,
       ControlNeverComesBack
<1> QED
  BY <1>1, Invariance, PTL
=============================================================================
