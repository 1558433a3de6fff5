--------------------------- MODULE ByteBufferCalls ---------------------------
(***************************************************************************)
(* One ByteBuffer and its callers: any sequence of the public calls, with   *)
(* any arguments.  The typed accessors (putShort, getInt, putChar, ...) are *)
(* putBytes and getBytes of sizeof(value) bytes, put(other) is putBytes of  *)
(* other's size, and put(value) is putBytes of one byte.                    *)
(***************************************************************************)
EXTENDS ByteBuffer

VARIABLES
  buf,    \* the object: size of buffer_ and position_
  call    \* the last call: its name, whether it returned, the bytes it touched

vars == <<buf, call>>

Calls == {"none", "resize", "setPosition", "putBytes", "putBytesAt", "get",
          "getAt", "getBytes", "getBytesAt", "getRange"}

TypeOK ==
  /\ buf \in Buffer
  /\ call \in [name : Calls, returned : BOOLEAN, from : Word, len : Word]

Init ==
  /\ buf = NewBuffer(0)
  /\ call = [name |-> "none", returned |-> TRUE, from |-> 0, len |-> 0]

\* A call that touches len bytes at from and leaves the buffer as after, or,
\* its check being false, throws before it has changed anything.
Perform(name, ok, from, len, after) ==
  /\ call' = [name |-> name, returned |-> ok, from |-> from, len |-> len]
  /\ buf' = IF ok THEN after ELSE buf

Resize(n) == Perform("resize", TRUE, 0, 0, NewBuffer(n))

SetPosition(p) ==
  Perform("setPosition", TRUE, 0, 0, [buf EXCEPT !.position = p])

PutBytes(len) ==
  Perform("putBytes", PutBytesOK(buf, len), buf.position, len, Advance(buf, len))

PutBytesAt(len, i) ==
  Perform("putBytesAt", PutBytesAtOK(buf, len, i), i, len, buf)

Get == Perform("get", TRUE, buf.position, 1, Advance(buf, 1))

\* get(index) and put(value, index)
GetAt(i) == Perform("getAt", CheckIndex(buf, i), i, 1, buf)

GetBytes(len) ==
  Perform("getBytes", GetBytesOK(buf, len), buf.position, len, Advance(buf, len))

GetBytesAt(i, len) ==
  Perform("getBytesAt", GetBytesAtOK(buf, i, len), i, len, buf)

GetRange(start, end) ==
  Perform("getRange", GetRangeOK(buf, start, end), start, Sub32(end, start), buf)

Next ==
  \/ Get
  \/ \E n \in Word : \/ Resize(n)
                     \/ SetPosition(n)
                     \/ PutBytes(n)
                     \/ GetAt(n)
                     \/ GetBytes(n)
  \/ \E m, n \in Word : \/ PutBytesAt(m, n)
                        \/ GetBytesAt(m, n)
                        \/ GetRange(m, n)

Spec == Init /\ [][Next]_vars

-----------------------------------------------------------------------------
\* The buffer the last call worked on held at least its last byte.
InBounds == call.from + call.len <= buf.size

\* A call that returned stayed inside the buffer, with three exceptions and no
\* others: get(), which has no check; the indexed putBytes at an index past the
\* cursor, because it checks the room behind the cursor and not behind the
\* index; and a length that makes a uint32_t sum of a check wrap.
StrayAccessOnlyThroughKnownHoles ==
  (call.returned /\ ~InBounds) =>
    \/ call.name = "get"
    \/ call.name = "putBytesAt" /\ call.from > buf.position
    \/ call.from + call.len >= U32
    \/ call.name = "putBytesAt" /\ buf.position + call.len >= U32

\* Only the unchecked get() and setPosition() can move the cursor past the end:
\* no checked call does, whatever the arguments and however the sums wrap.
CheckedCallsKeepTheCursorInside ==
  [][buf.position <= buf.size /\ buf'.position > buf'.size
       => call'.name \in {"get", "setPosition"}]_vars
=============================================================================
