------------------------ MODULE HandShakeCall_proofs ------------------------
(***************************************************************************)
(* The invariants of HandShakeCall, for every set of first messages and of  *)
(* random S1s: no 8-bit values of the offset bytes lead outside the blocks. *)
(***************************************************************************)
EXTENDS HandShakeCall, TLAPS

USE U32Assumption, CallAssumption

USE DEF C1S1_SIZE, C1S1_TIME_SIZE, C1S1_VERSION_SIZE, C1S1_DIGEST_OFFSET_SIZE,
        C1S1_DIGEST_OFFSET_MAX, C1S1_KEY_OFFSET_MAX, C1S1_DIGEST_SIZE,
        C1S1_KEY_SIZE, C1S1_DIGEST_DATA_SIZE, C1S1_KEY_DATA_SIZE

\* Every digest lies in its block, behind the four offset bytes.
LEMMA DigestOffsets ==
  ASSUME NEW sum \in Sum
  PROVE  /\ scheme0_Digest_Offset(sum) \in Nat /\ scheme1_Digest_Offset(sum) \in Nat
         /\ 12 <= scheme0_Digest_Offset(sum) /\ scheme0_Digest_Offset(sum) <= 739
         /\ 776 <= scheme1_Digest_Offset(sum) /\ scheme1_Digest_Offset(sum) <= 1503
BY DEF Sum, scheme0_Digest_Offset, scheme1_Digest_Offset

\* Both challenges lie in the block that begins at 772, before its last four bytes.
LEMMA KeyOffsets ==
  ASSUME NEW sum \in Sum
  PROVE  /\ scheme0_Key_Offset(sum) \in Nat /\ scheme1_Key_Offset(sum) \in Nat
         /\ 772 <= scheme0_Key_Offset(sum) /\ scheme0_Key_Offset(sum) <= 1403
         /\ 772 <= scheme1_Key_Offset(sum) /\ scheme1_Key_Offset(sum) <= 1403
BY DEF Sum, scheme0_Key_Offset, scheme1_Key_Offset

LEMMA SchemeOffsets ==
  ASSUME NEW scheme \in Scheme, NEW sum \in Sum
  PROVE  /\ scheme_Digest_Offset(scheme, sum) \in Nat
         /\ 12 <= scheme_Digest_Offset(scheme, sum)
         /\ scheme_Digest_Offset(scheme, sum) <= 1503
         /\ scheme_Key_Offset(scheme, sum) \in Nat
         /\ 772 <= scheme_Key_Offset(scheme, sum)
         /\ scheme_Key_Offset(scheme, sum) <= 1403
<1>1. CASE scheme = 0
  BY <1>1, DigestOffsets, KeyOffsets DEF scheme_Digest_Offset, scheme_Key_Offset
<1>2. CASE scheme # 0
  BY <1>2, DigestOffsets, KeyOffsets DEF scheme_Digest_Offset, scheme_Key_Offset
<1> QED
  BY <1>1, <1>2

\* getRange gives every range of the buffer that is not empty.
LEMMA RangeOK ==
  ASSUME NEW n \in Word, NEW start \in Nat, NEW end \in Nat, start < end, end <= n
  PROVE  GetRangeOK(NewBuffer(n), start, end)
<1>1. Sub32(end, 1) = end - 1
  BY DEF Sub32, Word
<1> QED
  BY <1>1 DEF GetRangeOK, CheckIndex, NewBuffer, Word

\* The two parts around a digest are never empty.
LEMMA PartsLegal ==
  ASSUME NEW d \in Nat, 12 <= d, d <= 1503
  PROVE  PartsOK(d)
<1>1. 1536 \in Word
  BY DEF Word
<1> QED
  BY <1>1, RangeOK DEF PartsOK, C1S1Buffer

\* No C1 makes validateClient throw.
LEMMA ValidateClientLegal ==
  ASSUME NEW c1 \in C1
  PROVE  validateClientOK(c1)
<1>1. ASSUME NEW scheme \in Scheme PROVE clientSchemeOK(c1, scheme)
  <2> DEFINE at == scheme_Digest_Offset(scheme, c1.digestSum[scheme])
             k == scheme_Key_Offset(scheme, c1.keySum[scheme])
  <2>1. c1.digestSum[scheme] \in Sum /\ c1.keySum[scheme] \in Sum
    BY DEF C1
  <2>2. at \in Nat /\ 12 <= at /\ at <= 1503
    BY <2>1, SchemeOffsets
  <2>3. k \in Nat /\ 772 <= k /\ k <= 1403
    BY <2>1, SchemeOffsets
  <2> HIDE DEF at, k
  <2>4. 1536 \in Word
    BY DEF Word
  <2>5. GetRangeOK(C1S1Buffer, at, at + 32) /\ GetRangeOK(C1S1Buffer, k, k + 128)
    BY <2>2, <2>3, <2>4, RangeOK DEF C1S1Buffer
  <2>6. PartsOK(at)
    BY <2>2, PartsLegal
  <2> QED
    BY <2>5, <2>6 DEF clientSchemeOK, at, k
<1> QED
  BY <1>1 DEF validateClientOK, Scheme

\* No S1 makes the complex handshake throw.
LEMMA S1Legal ==
  ASSUME NEW scheme \in Scheme, NEW sum \in RandomS1(Sum)
  PROVE  S1OK(scheme, sum)
<1> DEFINE at == scheme_Digest_Offset(scheme, sum[scheme])
<1>0. sum[scheme] \in Sum
  BY DEF RandomS1
<1>1. at \in Nat /\ 12 <= at /\ at <= 1503
  BY <1>0, SchemeOffsets
<1> HIDE DEF at
<1>2. PutBytesOK(NewBuffer(1536 - 32), at)
  <2>1. Add32(0, at) = at
    BY <1>1 DEF Add32
  <2> QED
    BY <1>1, <2>1 DEF PutBytesOK, CheckRemaining, NewBuffer
<1>3. PutBytesOK(Advance(NewBuffer(1536 - 32), at), 1536 - (at + 32))
  <2>1. Add32(0, at) = at /\ Add32(at, 1536 - (at + 32)) = 1504
    BY <1>1 DEF Add32
  <2> QED
    BY <1>1, <2>1 DEF PutBytesOK, CheckRemaining, NewBuffer, Advance
<1>4. PutBytesAtOK(C1S1Buffer, 32, at)
  <2>1. Add32(0, 32) = 32
    BY DEF Add32
  <2> QED
    BY <1>1, <2>1 DEF PutBytesAtOK, CheckIndex, CheckRemaining, C1S1Buffer, NewBuffer
<1>5. at \in Nat /\ 12 <= at /\ at <= 1503
  BY <1>1
<1>6. PartsOK(at)
  BY <1>5, PartsLegal
<1> QED
  BY <1>2, <1>3, <1>4, <1>6 DEF S1OK, at

\* The four parts of the reply fit into out and fill it.
LEMMA OutFilled == OutOK /\ filledOut = [size |-> 3073, position |-> 3073]
<1>1. /\ Add32(0, 1) = 1 /\ Add32(1, 1536) = 1537
      /\ Add32(1537, 1504) = 3041 /\ Add32(3041, 32) = 3073
  BY DEF Add32
<1>2. OutSize = 3073 /\ S2_SIZE = 1504
  BY DEF OutSize, S2_SIZE
<1>3. /\ atS0 = [size |-> 3073, position |-> 0]
      /\ atS1 = [size |-> 3073, position |-> 1]
  BY <1>1, <1>2 DEF atS0, atS1, NewBuffer, Advance
<1>4. atS2 = [size |-> 3073, position |-> 1537]
  BY <1>1, <1>3 DEF atS2, Advance
<1>5. atS2Digest = [size |-> 3073, position |-> 3041]
  BY <1>1, <1>2, <1>4 DEF atS2Digest, Advance
<1>6. filledOut = [size |-> 3073, position |-> 3073]
  BY <1>1, <1>5 DEF filledOut, Advance
<1> QED
  BY <1>1, <1>2, <1>3, <1>4, <1>5, <1>6 DEF OutOK, PutBytesOK, CheckRemaining

-----------------------------------------------------------------------------
\* execute throws on a lone C0 byte and on nothing else.
LEMMA ExecuteThrows ==
  ASSUME NEW h \in Hello, NEW sum \in RandomS1(Sum), execute(h, sum) = "out_of_range"
  PROVE  h.c0 /\ h.size = 1
<1>1. h.size \in Word /\ h.size >= 1 /\ h.c1 \in C1
  BY DEF Hello, Word
<1>2. h.size > 1 => GetRangeOK(NewBuffer(h.size), 1, h.size)
  BY <1>1, RangeOK DEF Word
<1>3. validateClientOK(h.c1)
  BY <1>1, ValidateClientLegal
<1>4. S1OK(clientScheme(h.c1), sum) /\ OutOK
  BY S1Legal, OutFilled DEF clientScheme, Scheme
<1> QED
  BY <1>1, <1>2, <1>3, <1>4 DEF execute, C1SizeOK, Word

\* A client that is answered has a digest, and clientScheme is its scheme.
LEMMA ExecuteAccepts ==
  ASSUME NEW h \in Hello, NEW sum, execute(h, sum) = "OK"
  PROVE  clientScheme(h.c1) \in Scheme /\ clientScheme(h.c1) \in h.c1.signed
<1>1. h.c1.signed \in {{}, {0}, {1}}
  BY DEF Hello, C1
<1>2. h.c1.signed # {}
  BY DEF execute, C1SizeOK
<1> QED
  BY <1>1, <1>2 DEF clientScheme, Scheme

LEMMA ExecuteResult ==
  ASSUME NEW h, NEW sum
  PROVE  execute(h, sum) \in Result
BY DEF execute, C1SizeOK, Result

\* The sums considered are sums.
LEMMA RandomSums == ASSUME NEW sum \in RandomS1(S1Sums) PROVE sum \in RandomS1(Sum)
BY DEF RandomS1

\* The S1 an answer carries.
LEMMA AcceptFacts ==
  ASSUME TypeOK, Accept
  PROVE  /\ hello' = hello /\ hello \in Hello
         /\ clientScheme(hello.c1) \in Scheme \cap hello.c1.signed
         /\ s1'.sum \in RandomS1(Sum) /\ s1'.key \in Key
         /\ s1' = [sum |-> s1'.sum, digestAt |-> s1'.digestAt, key |-> s1'.key]
         /\ s1'.digestAt = scheme_Digest_Offset(clientScheme(hello.c1),
                                                s1'.sum[clientScheme(hello.c1)])
<1>1. PICK sum \in RandomS1(S1Sums) :
        /\ execute(hello, sum) = "OK"
        /\ s1' = [sum |-> sum, digestAt |-> S1DigestAt(sum), key |-> keyOfS1]
  BY DEF Accept
<1>2. hello' = hello /\ hello \in Hello
  BY DEF Accept, TypeOK
<1>3. keyOfS1 \in Key
  BY DEF keyOfS1, Key
<1> QED
  BY <1>1, <1>2, <1>3, ExecuteAccepts, RandomSums DEF S1DigestAt

-----------------------------------------------------------------------------
\* The type invariant.
THEOREM TypeCorrect == Spec => []TypeOK
<1>1. Init => TypeOK
  BY DEF Init, TypeOK, NoS1, keyOfS1, Key, Sum, NewBuffer, Buffer, Word
<1>2. TypeOK /\ [Next]_vars => TypeOK'
  <2> SUFFICES ASSUME TypeOK, [Next]_vars PROVE TypeOK'
    OBVIOUS
  <2>1. CASE Refuse
    BY <2>1, ExecuteResult DEF Refuse, TypeOK
  <2>2. CASE Accept
    <3>1. s1'.sum[clientScheme(hello.c1)] \in Sum
      BY <2>2, AcceptFacts DEF RandomS1
    <3>2. s1'.digestAt \in 12 .. 1503
      BY <2>2, <3>1, AcceptFacts, SchemeOffsets
    <3>3. s1'.sum \in [Scheme -> Sum] /\ s1'.key \in Key
      BY <2>2, AcceptFacts DEF RandomS1
    <3>4. s1' \in [sum : [Scheme -> Sum], digestAt : {0} \cup 12 .. 1503, key : Key]
      BY <2>2, <3>2, <3>3, AcceptFacts
    <3>5. out' \in Buffer
      BY <2>2, OutFilled DEF Accept, Buffer, Word
    <3>6. hello' = hello /\ result' = "OK"
      BY <2>2 DEF Accept
    <3>7. result' \in Result \cup {"pending"}
      BY <3>6 DEF Result
    <3> QED
      BY <3>4, <3>5, <3>6, <3>7 DEF TypeOK
  <2>3. CASE UNCHANGED vars
    BY <2>3 DEF vars, TypeOK
  <2> QED
    BY <2>1, <2>2, <2>3 DEF Next
<1> QED
  BY <1>1, <1>2, PTL DEF Spec

\* No first message but a lone C0 makes a ByteBuffer throw.
THEOREM HandshakeThrowsOnlyOnLoneC0 == Spec => []ThrowsOnlyOnLoneC0
<1>1. Init => ThrowsOnlyOnLoneC0
  BY DEF Init, ThrowsOnlyOnLoneC0
<1>2. TypeOK /\ ThrowsOnlyOnLoneC0 /\ [Next]_vars => ThrowsOnlyOnLoneC0'
  <2> SUFFICES ASSUME TypeOK, ThrowsOnlyOnLoneC0, [Next]_vars
               PROVE  ThrowsOnlyOnLoneC0'
    OBVIOUS
  <2>1. CASE Refuse
    <3>1. PICK sum \in RandomS1(S1Sums) : result' = execute(hello, sum)
      BY <2>1 DEF Refuse
    <3>2. hello \in Hello /\ sum \in RandomS1(Sum) /\ hello' = hello
      BY <2>1, RandomSums DEF TypeOK, Refuse
    <3>3. execute(hello, sum) = "out_of_range" => hello.c0 /\ hello.size = 1
      BY <3>2, ExecuteThrows
    <3> QED
      BY <3>1, <3>2, <3>3 DEF ThrowsOnlyOnLoneC0
  <2>2. CASE Accept
    BY <2>2 DEF Accept, ThrowsOnlyOnLoneC0
  <2>3. CASE UNCHANGED vars
    BY <2>3 DEF vars, ThrowsOnlyOnLoneC0
  <2> QED
    BY <2>1, <2>2, <2>3 DEF Next
<1> QED
  BY <1>1, <1>2, TypeCorrect, PTL DEF Spec

\* A digest in S1 leaves alone the bytes it is found by.
LEMMA DigestApart ==
  ASSUME NEW scheme \in Scheme, NEW sum \in Sum,
         NEW d, d = scheme_Digest_Offset(scheme, sum)
  PROVE  LET block == IF scheme = 0 THEN 8 .. 771 ELSE 772 .. 1535
         IN  d .. d + 32 - 1 \subseteq block \ digestOffsetBytes(scheme)
<1>1. CASE scheme = 0
  <2>1. d \in 12 .. 739
    BY <1>1, DigestOffsets DEF scheme_Digest_Offset
  <2>2. d .. d + 32 - 1 \subseteq 8 .. 771
    BY <2>1
  <2>3. (d .. d + 32 - 1) \cap (8 .. 11) = {}
    BY <2>1
  <2> QED
    BY <1>1, <2>2, <2>3 DEF digestOffsetBytes
<1>2. CASE scheme = 1
  <2>1. d \in 776 .. 1503
    BY <1>2, DigestOffsets DEF scheme_Digest_Offset
  <2>2. d .. d + 32 - 1 \subseteq 772 .. 1535
    BY <2>1
  <2>3. (d .. d + 32 - 1) \cap (772 .. 775) = {}
    BY <2>1
  <2> QED
    BY <1>2, <2>2, <2>3 DEF digestOffsetBytes
<1> QED
  BY <1>1, <1>2 DEF Scheme

\* Every answer is complete and has its digest at the place where the client it is
\* sent to looks for it (HandShake.cpp:139 and :66).  With which key it was made is not
\* part of this.
THEOREM HandshakeDigestFound == Spec => []DigestWhereClientLooks
<1>1. Init => DigestWhereClientLooks
  BY DEF Init, DigestWhereClientLooks
<1>2. TypeOK /\ DigestWhereClientLooks /\ [Next]_vars => DigestWhereClientLooks'
  <2> SUFFICES ASSUME TypeOK, DigestWhereClientLooks, [Next]_vars
               PROVE  DigestWhereClientLooks'
    OBVIOUS
  <2>1. CASE Refuse
    BY <2>1 DEF Refuse, DigestWhereClientLooks
  <2>2. CASE Accept
    <3> DEFINE scheme == clientScheme(hello.c1)
               d == s1'.digestAt
    <3>1. scheme \in Scheme /\ scheme \in hello'.c1.signed /\ s1'.sum[scheme] \in Sum
      BY <2>2, AcceptFacts DEF RandomS1
    <3>2. d = scheme_Digest_Offset(scheme, s1'.sum[scheme])
      BY <2>2, AcceptFacts
    <3>3. out'.position = out'.size /\ out'.size = 3073
      BY <2>2, OutFilled DEF Accept
    <3> HIDE DEF scheme, d
    <3>4. d .. d + 32 - 1 \subseteq
            (IF scheme = 0 THEN 8 .. 771 ELSE 772 .. 1535) \ digestOffsetBytes(scheme)
      BY <3>1, <3>2, DigestApart
    <3>5. digest' = d .. d + 32 - 1
      BY DEF digest, d
    <3> QED
      BY <3>1, <3>2, <3>3, <3>4, <3>5 DEF DigestWhereClientLooks, d
  <2>3. CASE UNCHANGED vars
    BY <2>3 DEF vars, DigestWhereClientLooks, digest
  <2> QED
    BY <2>1, <2>2, <2>3 DEF Next
<1> QED
  BY <1>1, <1>2, TypeCorrect, PTL DEF Spec

\* The key of a scheme is looked for behind a sum of its offset bytes.
LEMMA HelloKey ==
  ASSUME TypeOK, NEW scheme \in Scheme
  PROVE  /\ scheme_Key_Offset(scheme, hello.c1.keySum[scheme]) \in Nat
         /\ 772 <= scheme_Key_Offset(scheme, hello.c1.keySum[scheme])
         /\ scheme_Key_Offset(scheme, hello.c1.keySum[scheme]) <= 1403
<1>1. hello \in Hello
  BY DEF TypeOK
<1>2. hello.c1 \in C1
  BY <1>1 DEF Hello
<1>3. hello.c1.keySum \in [Scheme -> Sum]
  BY <1>2 DEF C1
<1>4. hello.c1.keySum[scheme] \in Sum
  BY <1>3
<1> QED
  BY <1>4, SchemeOffsets

\* Where a challenge lies, from where its key was looked for.
LEMMA ChallengeBytes ==
  ASSUME TypeOK, NEW scheme \in Scheme
  PROVE  /\ \A b \in challenge(scheme) : b \in Int /\ 772 <= b /\ b <= 1530
         /\ challenge(scheme) # {}
<1> DEFINE k == scheme_Key_Offset(scheme, hello.c1.keySum[scheme])
<1>1. challenge(scheme) = k .. k + 127
  BY HelloKey DEF challenge
<1>2. k \in Nat /\ 772 <= k /\ k <= 1403
  BY HelloKey
<1> HIDE DEF k
<1>3. \A b \in k .. k + 127 : b \in Int /\ 772 <= b /\ b <= 1530
  BY <1>2
<1>4. k \in k .. k + 127
  BY <1>2
<1> QED
  BY <1>1, <1>3, <1>4

\* In scheme 0 every challenge is taken from the key block.
THEOREM HandshakeScheme0Key == Spec => []Scheme0KeyInKeyBlock
<1>1. TypeOK => Scheme0KeyInKeyBlock
  <2> SUFFICES ASSUME TypeOK PROVE Scheme0KeyInKeyBlock
    OBVIOUS
  <2>1. 0 \in Scheme
    BY DEF Scheme
  <2>2. \A b \in challenge(0) : b \in Int /\ 772 <= b /\ b <= 1530
    BY <2>1, ChallengeBytes
  <2> QED
    BY <2>2 DEF Scheme0KeyInKeyBlock
<1> QED
  BY <1>1, TypeCorrect, PTL

\* In scheme 1 none is: whatever the offset bytes, the challenge is cut out of the
\* block that begins at 772, where the comments at HandShake.cpp:202 and :240 have the
\* digest.  The message that run handshake_scheme1_key finds is one of all.
THEOREM HandshakeScheme1Key ==
  Spec => [](challenge(1) \subseteq 772 .. 1530 /\ ~Scheme1KeyInKeyBlock)
<1>1. TypeOK => challenge(1) \subseteq 772 .. 1530 /\ ~Scheme1KeyInKeyBlock
  <2> SUFFICES ASSUME TypeOK
               PROVE  challenge(1) \subseteq 772 .. 1530 /\ ~Scheme1KeyInKeyBlock
    OBVIOUS
  <2>1. 1 \in Scheme
    BY DEF Scheme
  <2>2. /\ \A b \in challenge(1) : b \in Int /\ 772 <= b /\ b <= 1530
        /\ challenge(1) # {}
    BY <2>1, ChallengeBytes
  <2>3. challenge(1) \subseteq 772 .. 1530
    BY <2>2
  <2>4. ~Scheme1KeyInKeyBlock
    BY <2>2 DEF Scheme1KeyInKeyBlock
  <2> QED
    BY <2>3, <2>4
<1> QED
  BY <1>1, TypeCorrect, PTL
=============================================================================
