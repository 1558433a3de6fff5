------------------------------ MODULE HandShake ------------------------------
(***************************************************************************)
(* Handshake::execute of HandShake.cpp as operators on the bytes a client   *)
(* sends first.  A message is abstracted to what the code asks of it: its   *)
(* length, its first byte, and of the 1536 bytes of C1 whether the version  *)
(* is zero, the sums of the offset bytes and the scheme whose digest they   *)
(* carry.  HMAC-SHA256 is the field "signed": the schemes for which the     *)
(* digest found in C1 is the one the server calculates.  A key is named by  *)
(* the constant it is cut from and the number of bytes that are taken.      *)
(***************************************************************************)
EXTENDS RTMP, ByteBuffer

Scheme == {0, 1}

\* The sum of four offset bytes.
Sum == 0 .. 4 * 255

\* The random S1s whose offset bytes, for either scheme, have one of the sums.
RandomS1(sums) == [Scheme -> sums]

C1 == [zeroVersion : BOOLEAN, digestSum : [Scheme -> Sum],
       keySum : [Scheme -> Sum], signed : {{}, {0}, {1}}]

\* c0 tells whether the first byte is RTMP_HANDSHAKE_VERSION.
Hello == [size : 1 .. U32 - 1, c0 : BOOLEAN, c1 : C1]

-----------------------------------------------------------------------------
(* Where a scheme keeps its digest and its key, from the sum of its offset  *)
(* bytes, and which bytes of C1 or S1 those four are.                       *)

\* Mutants: the offset bytes in front of the digest are not skipped.
scheme0_Digest_Offset_AtOffsetBytes(sum) ==
  (sum % C1S1_DIGEST_OFFSET_MAX) + C1S1_TIME_SIZE + C1S1_VERSION_SIZE

scheme1_Digest_Offset_AtOffsetBytes(sum) ==
  (sum % C1S1_DIGEST_OFFSET_MAX) + C1S1_TIME_SIZE + C1S1_VERSION_SIZE
    + C1S1_KEY_SIZE

scheme0_Digest_Offset(sum) ==
  (sum % C1S1_DIGEST_OFFSET_MAX) + C1S1_TIME_SIZE + C1S1_VERSION_SIZE
    + C1S1_DIGEST_OFFSET_SIZE

scheme1_Digest_Offset(sum) ==
  (sum % C1S1_DIGEST_OFFSET_MAX) + C1S1_TIME_SIZE + C1S1_VERSION_SIZE
    + C1S1_KEY_SIZE + C1S1_DIGEST_OFFSET_SIZE

scheme0_Key_Offset(sum) ==
  (sum % C1S1_KEY_OFFSET_MAX) + C1S1_TIME_SIZE + C1S1_VERSION_SIZE
    + C1S1_DIGEST_SIZE

scheme1_Key_Offset(sum) ==
  (sum % C1S1_KEY_OFFSET_MAX) + C1S1_TIME_SIZE + C1S1_VERSION_SIZE
    + C1S1_DIGEST_SIZE

scheme_Digest_Offset(scheme, sum) ==
  IF scheme = 0 THEN scheme0_Digest_Offset(sum) ELSE scheme1_Digest_Offset(sum)

scheme_Key_Offset(scheme, sum) ==
  IF scheme = 0 THEN scheme0_Key_Offset(sum) ELSE scheme1_Key_Offset(sum)

digestOffsetBytes(scheme) == IF scheme = 0 THEN 8 .. 11 ELSE 772 .. 775

-----------------------------------------------------------------------------
(* The bytes of C1 or S1 around a digest at offset d.                       *)

C1S1Buffer == NewBuffer(C1S1_SIZE)

\* The two parts that are hashed: all but the digest.
PartsOK(d) ==
  /\ GetRangeOK(C1S1Buffer, 0, d)
  /\ GetRangeOK(C1S1Buffer, d + C1S1_DIGEST_DATA_SIZE, C1S1_SIZE)

\* clientScheme cuts C1 into the parts, the digest and the challenge.
clientSchemeOK(c1, scheme) ==
  LET d == scheme_Digest_Offset(scheme, c1.digestSum[scheme])
      k == scheme_Key_Offset(scheme, c1.keySum[scheme])
  IN  /\ PartsOK(d)
      /\ GetRangeOK(C1S1Buffer, d, d + C1S1_DIGEST_DATA_SIZE)
      /\ GetRangeOK(C1S1Buffer, k, k + C1S1_KEY_DATA_SIZE)

\* Scheme 1 is tried first, and scheme 0 only if 1 does not match.
validateClientOK(c1) ==
  /\ clientSchemeOK(c1, 1)
  /\ 1 \notin c1.signed => clientSchemeOK(c1, 0)

\* Mutant: what the first try returned is kept when the second one matches.
clientScheme_FirstTried(c1) == 1

clientScheme(c1) == IF 1 \in c1.signed THEN 1 ELSE 0

-----------------------------------------------------------------------------
(* The keys of the HMACs *)

Key == [of : {"FMS_KEY", "FP_KEY"}, length : 1 .. 68]

\* Each constant is a name, which a comment spells out ("Genuine Adobe Flash Media
\* Server 001" and "Genuine Adobe Flash Player 001"), and 32 bytes behind it.
NameKeys  == {[of |-> "FMS_KEY", length |-> 36], [of |-> "FP_KEY", length |-> 30]}
WholeKeys == {[of |-> "FMS_KEY", length |-> 68], [of |-> "FP_KEY", length |-> 62]}

\* What execute signs S1 with.
keyOfS1 == [of |-> "FP_KEY", length |-> 36]

-----------------------------------------------------------------------------
\* The complex handshake answers a client whose digest matches.  s1Sum has for
\* each scheme the sum of its offset bytes in the random S1 it creates.
S1OK(scheme, s1Sum) ==
  LET d     == scheme_Digest_Offset(scheme, s1Sum[scheme])
      parts == NewBuffer(C1S1_SIZE - C1S1_DIGEST_DATA_SIZE)
  IN  /\ PartsOK(d)
      /\ PutBytesOK(parts, d)
      /\ PutBytesOK(Advance(parts, d), C1S1_SIZE - (d + C1S1_DIGEST_DATA_SIZE))
      /\ PutBytesAtOK(C1S1Buffer, C1S1_DIGEST_DATA_SIZE, d)

\* S0, S1, the random part of S2 and its digest are put into out, in this order.
S2_SIZE == C1S1_SIZE - C1S1_DIGEST_DATA_SIZE

OutSize == 1 + C1S1_SIZE + S2_SIZE + C1S1_DIGEST_DATA_SIZE

atS0       == NewBuffer(OutSize)
atS1       == Advance(atS0, 1)
atS2       == Advance(atS1, C1S1_SIZE)
atS2Digest == Advance(atS2, S2_SIZE)
filledOut  == Advance(atS2Digest, C1S1_DIGEST_DATA_SIZE)

OutOK ==
  /\ PutBytesOK(atS0, 1)
  /\ PutBytesOK(atS1, C1S1_SIZE)
  /\ PutBytesOK(atS2, S2_SIZE)
  /\ PutBytesOK(atS2Digest, C1S1_DIGEST_DATA_SIZE)

-----------------------------------------------------------------------------
\* Mutant: a C1 that is not complete passes.
C1SizeOK_Partial(hello) == hello.size - 1 <= C1S1_SIZE

C1SizeOK(hello) == hello.size - 1 = C1S1_SIZE

\* What Handshake::execute returns: "OK" (the empty message) for a client it
\* accepts, an error message, or how it ends without returning.  "out_of_range"
\* is an exception thrown by a ByteBuffer, "null" the std::string built from
\* SimpleHandShake's nullptr.
Result == {"OK", "C0 Error", "C1 Error", "Client scheme error",
           "out_of_range", "null"}

execute(hello, s1Sum) ==
  IF ~hello.c0 THEN "C0 Error"
  ELSE IF ~GetRangeOK(NewBuffer(hello.size), 1, hello.size) THEN "out_of_range"
  ELSE IF ~C1SizeOK(hello) THEN "C1 Error"
  ELSE IF hello.c1.zeroVersion THEN "null"
  ELSE IF ~validateClientOK(hello.c1) THEN "out_of_range"
  ELSE IF hello.c1.signed = {} THEN "Client scheme error"
  ELSE IF S1OK(clientScheme(hello.c1), s1Sum) /\ OutOK THEN "OK"
  ELSE "out_of_range"
=============================================================================
