------------------------------ MODULE ByteBuffer ------------------------------
(***************************************************************************)
(* The cursor arithmetic and the bounds checks of include/core/ByteBuffer.h,*)
(* as operators on a buffer value.  The bytes are abstracted away: what the *)
(* checks decide depends on the number of bytes held (buffer_.size()) and   *)
(* on the cursor (position_) only.  Every index and length is a uint32_t,   *)
(* so every sum and difference wraps at U32 (2^32 in the program).          *)
(***************************************************************************)
EXTENDS Integers

CONSTANT U32      \* the number of values of a uint32_t

ASSUME U32Assumption == U32 \in Nat /\ U32 > 1

Word == 0 .. U32 - 1

Buffer == [size : Word, position : Word]

\* Mutant: the sum of two lengths is taken to fit.
Add32_NoWrap(a, b) == a + b

Add32(a, b) == (a + b) % U32
Sub32(a, b) == (a - b) % U32

\* A buffer as the sized constructors, resize(), init() and reset() leave it.
NewBuffer(n) == [size |-> n, position |-> 0]

-----------------------------------------------------------------------------
(* The two checks; a call whose check is false throws std::out_of_range.    *)

\* Mutant: the index behind the last byte passes.
CheckIndex_OffByOne(b, i) == i <= b.size

CheckIndex(b, i) == i < b.size

\* Mutant: the room is that of the whole buffer, wherever the cursor is.
CheckRemaining_NoCursor(b, len) == len <= b.size

CheckRemaining(b, len) == Add32(b.position, len) <= b.size

-----------------------------------------------------------------------------
(* The cursor after a relative put or get of n bytes.                       *)
Advance(b, n) == [b EXCEPT !.position = Add32(@, n)]

(* When each call returns instead of throwing.  get() has no check at all.  *)

PutBytesOK(b, len) == CheckRemaining(b, len)

PutBytesAtOK(b, len, i) == CheckIndex(b, i) /\ CheckRemaining(b, len)

\* Mutant: getting no bytes is always allowed.
GetBytesAtOK_EmptyAllowed(b, i, len) ==
  len = 0 \/ (CheckIndex(b, i) /\ CheckIndex(b, Sub32(Add32(i, len), 1)))

GetBytesAtOK(b, i, len) ==
  CheckIndex(b, i) /\ CheckIndex(b, Sub32(Add32(i, len), 1))

GetBytesOK(b, len) == GetBytesAtOK(b, b.position, len)

GetRangeOK(b, start, end) ==
  /\ CheckIndex(b, start)
  /\ CheckIndex(b, Sub32(end, 1))
  /\ start <= Sub32(end, 1)
=============================================================================
