------------------------ MODULE ByteBufferCalls_proofs ------------------------
(***************************************************************************)
(* The invariants of ByteBufferCalls, for every width of the uint32_t.      *)
(***************************************************************************)
EXTENDS ByteBufferCalls, TLAPS

USE U32Assumption

\* The sum of two uint32_t is one.
LEMMA Add32Word ==
  ASSUME NEW a \in Nat, NEW b \in Nat
  PROVE  Add32(a, b) \in Word
BY DEF Add32, Word

\* It is the sum as long as that fits.
LEMMA Add32Small ==
  ASSUME NEW a \in Nat, NEW b \in Nat, a + b < U32
  PROVE  Add32(a, b) = a + b
BY DEF Add32

\* If it does not fit, U32 is taken off once.
LEMMA Add32Wraps ==
  ASSUME NEW a \in Word, NEW b \in Word, a + b >= U32
  PROVE  Add32(a, b) = a + b - U32
BY DEF Add32, Word

\* The difference of two uint32_t is one.
LEMMA Sub32Word ==
  ASSUME NEW a \in Nat, NEW b \in Nat
  PROVE  Sub32(a, b) \in Word
BY DEF Sub32, Word

LEMMA Sub32Small ==
  ASSUME NEW a \in Word, NEW b \in Word, b <= a
  PROVE  Sub32(a, b) = a - b
BY DEF Sub32, Word

\* A difference below zero wraps to the other end.
LEMMA Sub32Wraps ==
  ASSUME NEW a \in Word, NEW b \in Word, a < b
  PROVE  Sub32(a, b) = a - b + U32
BY DEF Sub32, Word

-----------------------------------------------------------------------------

\* What one call leaves is typed if its arguments are.
LEMMA PerformTyped ==
  ASSUME TypeOK,
         NEW name \in Calls, NEW ok \in BOOLEAN, NEW from \in Word, NEW len \in Word,
         NEW after \in Buffer, Perform(name, ok, from, len, after)
  PROVE  TypeOK'
BY DEF TypeOK, Perform

\* The cursor after a relative put or get is a uint32_t.
LEMMA AdvanceTyped ==
  ASSUME NEW b \in Buffer, NEW n \in Word
  PROVE  /\ Advance(b, n) \in Buffer
         /\ Advance(b, n).size = b.size
         /\ Advance(b, n).position = Add32(b.position, n)
<1>1. Add32(b.position, n) \in Word
  <2>1. b.position \in Nat /\ n \in Nat
    BY DEF Buffer, Word
  <2> QED
    BY <2>1, Add32Word
<1> QED
  BY <1>1 DEF Advance, Buffer

\* The type invariant is kept by every call.
THEOREM TypeCorrect == Spec => []TypeOK
<1>1. Init => TypeOK
  BY DEF Init, TypeOK, NewBuffer, Buffer, Calls, Word
<1>2. TypeOK /\ [Next]_vars => TypeOK'
  <2> SUFFICES ASSUME TypeOK, [Next]_vars PROVE TypeOK'
    OBVIOUS
  <2>0. buf \in Buffer /\ buf.position \in Word /\ 0 \in Word /\ 1 \in Word
    BY DEF TypeOK, Buffer, Word
  <2>1. ASSUME Get PROVE TypeOK'
    BY <2>0, <2>1, AdvanceTyped, PerformTyped DEF Get, Calls
  <2>2. ASSUME NEW n \in Word, Resize(n) PROVE TypeOK'
    BY <2>0, <2>2, PerformTyped DEF Resize, Calls, NewBuffer, Buffer
  <2>3. ASSUME NEW n \in Word, SetPosition(n) PROVE TypeOK'
    BY <2>0, <2>3, PerformTyped DEF SetPosition, Calls, Buffer
  <2>4. ASSUME NEW n \in Word, PutBytes(n) PROVE TypeOK'
    <3>1. PutBytesOK(buf, n) \in BOOLEAN
      BY DEF PutBytesOK, CheckRemaining
    <3> QED
      BY <2>0, <2>4, <3>1, AdvanceTyped, PerformTyped DEF PutBytes, Calls
  <2>5. ASSUME NEW n \in Word, GetAt(n) PROVE TypeOK'
    <3>1. CheckIndex(buf, n) \in BOOLEAN
      BY DEF CheckIndex
    <3> QED
      BY <2>0, <2>5, <3>1, PerformTyped DEF GetAt, Calls
  <2>6. ASSUME NEW n \in Word, GetBytes(n) PROVE TypeOK'
    BY <2>0, <2>6, AdvanceTyped, PerformTyped
       DEF GetBytes, Calls, GetBytesOK, GetBytesAtOK
  <2>7. ASSUME NEW m \in Word, NEW n \in Word, PutBytesAt(m, n) PROVE TypeOK'
    BY <2>0, <2>7, PerformTyped DEF PutBytesAt, Calls, PutBytesAtOK
  <2>8. ASSUME NEW m \in Word, NEW n \in Word, GetBytesAt(m, n) PROVE TypeOK'
    BY <2>0, <2>8, PerformTyped DEF GetBytesAt, Calls, GetBytesAtOK
  <2>9. ASSUME NEW m \in Word, NEW n \in Word, GetRange(m, n) PROVE TypeOK'
    <3>1. Sub32(n, m) \in Word
      BY Sub32Word DEF Word
    <3> QED
      BY <2>0, <2>9, <3>1, PerformTyped DEF GetRange, Calls, GetRangeOK
  <2>10. CASE UNCHANGED vars
    BY <2>10 DEF vars, TypeOK
  <2> QED
    BY <2>1, <2>2, <2>3, <2>4, <2>5, <2>6, <2>7, <2>8, <2>9, <2>10 DEF Next
<1> QED
  BY <1>1, <1>2, PTL DEF Spec

-----------------------------------------------------------------------------
\* A relative put that returns stayed inside, or its sum wrapped, and leaves the
\* cursor inside in either case.
LEMMA PutBytesBounds ==
  ASSUME NEW b \in Buffer, NEW len \in Word, PutBytesOK(b, len)
  PROVE  /\ b.position + len <= b.size \/ b.position + len >= U32
         /\ Add32(b.position, len) <= b.size
<1>1. b.position \in Nat /\ b.size \in Nat /\ len \in Nat
  BY DEF Buffer, Word
<1> QED
  BY <1>1, Add32Small DEF PutBytesOK, CheckRemaining

\* So did a get, indexed or relative.
LEMMA GetBytesBounds ==
  ASSUME NEW b \in Buffer, NEW i \in Word, NEW len \in Word, GetBytesAtOK(b, i, len)
  PROVE  /\ i + len <= b.size \/ i + len >= U32
         /\ Add32(i, len) <= b.size
<1>1. b.size \in Nat /\ b.size < U32 /\ i \in Nat /\ len \in Nat
  BY DEF Buffer, Word
<1>2. Add32(i, len) \in Word
  BY <1>1, Add32Word
<1>3. Sub32(Add32(i, len), 1) < b.size
  BY DEF GetBytesAtOK, CheckIndex
<1>4. Add32(i, len) <= b.size
  <2>1. CASE Add32(i, len) = 0
    BY <2>1, <1>1
  <2>2. CASE Add32(i, len) # 0
    <3>1. Sub32(Add32(i, len), 1) = Add32(i, len) - 1
      BY <1>2, <2>2, Sub32Small DEF Word
    <3> QED
      BY <1>1, <1>2, <1>3, <3>1 DEF Word
  <2> QED
    BY <2>1, <2>2
<1> QED
  BY <1>1, <1>4, Add32Small

\* A range that is returned is a range of the buffer.
LEMMA GetRangeBounds ==
  ASSUME NEW b \in Buffer, NEW start \in Word, NEW end \in Word,
         GetRangeOK(b, start, end)
  PROVE  start < end /\ end <= b.size
<1>1. b.size \in Nat /\ b.size < U32
  BY DEF Buffer, Word
<1>2. end # 0
  BY <1>1, Sub32Wraps DEF GetRangeOK, CheckIndex, Word
<1>3. Sub32(end, 1) = end - 1
  BY <1>2, Sub32Small DEF Word
<1> QED
  BY <1>1, <1>3 DEF GetRangeOK, CheckIndex, Word

\* Every step leaves a call that strayed through a known hole only.
LEMMA StrayStep ==
  ASSUME TypeOK, Next
  PROVE  StrayAccessOnlyThroughKnownHoles'
<1> USE DEF StrayAccessOnlyThroughKnownHoles, InBounds, Perform
<1>0. /\ buf \in Buffer /\ buf.position \in Word /\ buf.size \in Word
      /\ buf.position \in Nat /\ buf.size \in Nat
  BY DEF TypeOK, Buffer, Word
<1>1. ASSUME Get PROVE StrayAccessOnlyThroughKnownHoles'
  BY <1>1 DEF Get
<1>2. ASSUME NEW n \in Word, Resize(n) PROVE StrayAccessOnlyThroughKnownHoles'
  BY <1>2 DEF Resize, NewBuffer, Word
<1>3. ASSUME NEW n \in Word, SetPosition(n)
      PROVE  StrayAccessOnlyThroughKnownHoles'
  BY <1>0, <1>3 DEF SetPosition, Buffer
<1>4. ASSUME NEW n \in Word, PutBytes(n) PROVE StrayAccessOnlyThroughKnownHoles'
  BY <1>0, <1>4, AdvanceTyped, PutBytesBounds DEF PutBytes
<1>5. ASSUME NEW n \in Word, GetAt(n) PROVE StrayAccessOnlyThroughKnownHoles'
  <2>1. /\ buf' = buf /\ call'.returned = CheckIndex(buf, n)
        /\ call'.from = n /\ call'.len = 1
    BY <1>5 DEF GetAt
  <2>2. CheckIndex(buf, n) => n + 1 <= buf.size
    BY <1>0 DEF CheckIndex, Word
  <2> QED
    BY <2>1, <2>2
<1>6. ASSUME NEW n \in Word, GetBytes(n) PROVE StrayAccessOnlyThroughKnownHoles'
  BY <1>0, <1>6, AdvanceTyped, GetBytesBounds DEF GetBytes, GetBytesOK
<1>7. ASSUME NEW m \in Word, NEW n \in Word, PutBytesAt(m, n)
      PROVE  StrayAccessOnlyThroughKnownHoles'
  <2>1. buf' = buf /\ call'.name = "putBytesAt" /\ call'.from = n /\ call'.len = m
    BY <1>7 DEF PutBytesAt
  <2>2. CASE PutBytesOK(buf, m) /\ n < buf.size
    <3>1. buf.position + m <= buf.size \/ buf.position + m >= U32
      BY <1>0, <2>2, PutBytesBounds
    <3> QED
      BY <1>0, <2>1, <3>1 DEF Word
  <2>3. CASE ~(PutBytesOK(buf, m) /\ n < buf.size)
    BY <1>7, <2>3 DEF PutBytesAt, PutBytesAtOK, PutBytesOK, CheckIndex
  <2> QED
    BY <2>2, <2>3
<1>8. ASSUME NEW m \in Word, NEW n \in Word, GetBytesAt(m, n)
      PROVE  StrayAccessOnlyThroughKnownHoles'
  BY <1>0, <1>8, GetBytesBounds DEF GetBytesAt
<1>9. ASSUME NEW m \in Word, NEW n \in Word, GetRange(m, n)
      PROVE  StrayAccessOnlyThroughKnownHoles'
  <2>1. /\ buf' = buf /\ call'.returned = GetRangeOK(buf, m, n)
        /\ call'.from = m /\ call'.len = Sub32(n, m)
    BY <1>9 DEF GetRange
  <2>2. ASSUME GetRangeOK(buf, m, n) PROVE InBounds'
    <3>1. m < n /\ n <= buf.size
      BY <1>0, <2>2, GetRangeBounds
    <3>2. Sub32(n, m) = n - m
      BY <3>1, Sub32Small DEF Word
    <3> QED
      BY <1>0, <2>1, <3>1, <3>2 DEF Word
  <2> QED
    BY <2>1, <2>2
<1> QED
  BY <1>1, <1>2, <1>3, <1>4, <1>5, <1>6, <1>7, <1>8, <1>9 DEF Next

\* Whatever the width and the arguments, a call that returned touched only bytes of
\* the buffer, except through the holes named.
THEOREM StrayAccessConfined == Spec => []StrayAccessOnlyThroughKnownHoles
<1>1. Init => StrayAccessOnlyThroughKnownHoles
  BY DEF Init, StrayAccessOnlyThroughKnownHoles, InBounds, NewBuffer
<1>2. /\ StrayAccessOnlyThroughKnownHoles /\ TypeOK /\ [Next]_vars
      => StrayAccessOnlyThroughKnownHoles'
  BY StrayStep DEF vars, StrayAccessOnlyThroughKnownHoles, InBounds
<1> QED
  BY <1>1, <1>2, TypeCorrect, PTL DEF Spec

\* No checked call moves a cursor that is inside the buffer past its end.
THEOREM CursorStaysInside == Spec => CheckedCallsKeepTheCursorInside
<1> DEFINE Step == /\ buf.position <= buf.size
                   /\ buf'.position > buf'.size
                   => call'.name \in {"get", "setPosition"}
<1>1. TypeOK /\ [Next]_vars => [Step]_vars
  <2> SUFFICES ASSUME TypeOK, Next PROVE Step
    OBVIOUS
  <2> USE DEF Perform
  <2>0. /\ buf \in Buffer /\ buf.position \in Word /\ buf.size \in Word
        /\ buf.position \in Nat /\ buf.size \in Nat
    BY DEF TypeOK, Buffer, Word
  <2>1. ASSUME Get PROVE Step
    BY <2>1 DEF Get
  <2>2. ASSUME NEW n \in Word, Resize(n) PROVE Step
    BY <2>2 DEF Resize, NewBuffer, Word
  <2>3. ASSUME NEW n \in Word, SetPosition(n) PROVE Step
    BY <2>3 DEF SetPosition
  <2>4. ASSUME NEW n \in Word, PutBytes(n) PROVE Step
    <3>1. CASE PutBytesOK(buf, n)
      <4>1. Add32(buf.position, n) <= buf.size
        BY <2>0, <3>1, PutBytesBounds
      <4>2. n \in Nat /\ Word \subseteq Nat
        BY DEF Word
      <4>3. Add32(buf.position, n) \in Nat
        BY <2>0, <4>2, Add32Word
      <4>4. buf' = Advance(buf, n)
        BY <2>4, <3>1 DEF PutBytes
      <4> QED
        BY <2>0, <4>1, <4>3, <4>4, AdvanceTyped
    <3>2. CASE ~PutBytesOK(buf, n)
      BY <2>0, <2>4, <3>2 DEF PutBytes
    <3> QED
      BY <3>1, <3>2
  <2>5. ASSUME NEW n \in Word, GetAt(n) PROVE Step
    BY <2>0, <2>5 DEF GetAt
  <2>6. ASSUME NEW n \in Word, GetBytes(n) PROVE Step
    <3>1. CASE GetBytesOK(buf, n)
      <4>1. Add32(buf.position, n) <= buf.size
        BY <2>0, <3>1, GetBytesBounds DEF GetBytesOK
      <4>2. n \in Nat /\ Word \subseteq Nat
        BY DEF Word
      <4>3. Add32(buf.position, n) \in Nat
        BY <2>0, <4>2, Add32Word
      <4>4. buf' = Advance(buf, n)
        BY <2>6, <3>1 DEF GetBytes
      <4> QED
        BY <2>0, <4>1, <4>3, <4>4, AdvanceTyped
    <3>2. CASE ~GetBytesOK(buf, n)
      BY <2>0, <2>6, <3>2 DEF GetBytes
    <3> QED
      BY <3>1, <3>2
  <2>7. ASSUME NEW m \in Word, NEW n \in Word,
               PutBytesAt(m, n) \/ GetBytesAt(m, n) \/ GetRange(m, n)
        PROVE  Step
    BY <2>0, <2>7 DEF PutBytesAt, GetBytesAt, GetRange
  <2> QED
    BY <2>1, <2>2, <2>3, <2>4, <2>5, <2>6, <2>7 DEF Next
<1> QED
  BY <1>1, TypeCorrect, PTL DEF Spec, CheckedCallsKeepTheCursorInside
=============================================================================
