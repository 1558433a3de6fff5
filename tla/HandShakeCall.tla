---------------------------- MODULE HandShakeCall ----------------------------
(***************************************************************************)
(* One call of Handshake::execute on the first message of a client, the     *)
(* answer it leaves in out, and where the digest of that answer lies.       *)
(***************************************************************************)
EXTENDS HandShake

CONSTANTS
  Hellos,   \* the first messages considered
  S1Sums    \* the sums the offset bytes of the random S1 may have

ASSUME CallAssumption ==
  /\ Hellos \subseteq Hello
  /\ S1Sums \subseteq Sum
  /\ U32 > 4608

VARIABLES
  hello,    \* the message
  result,   \* "pending", then what execute returned
  s1,       \* the S1 sent: the sums of its offset bytes, its digest's place and key
  out       \* the reply

vars == <<hello, result, s1, out>>

NoS1 == [sum |-> [scheme \in Scheme |-> 0], digestAt |-> 0, key |-> keyOfS1]

TypeOK ==
  /\ hello \in Hellos
  /\ result \in Result \cup {"pending"}
  /\ s1 \in [sum : [Scheme -> Sum], digestAt : {0} \cup 12 .. 1503, key : Key]
  /\ out \in Buffer

Init ==
  /\ hello \in Hellos
  /\ result = "pending"
  /\ s1 = NoS1
  /\ out = NewBuffer(0)

\* The client is not answered: out is as it was.
Refuse ==
  /\ result = "pending"
  /\ \E sum \in RandomS1(S1Sums) : result' = execute(hello, sum)
  /\ result' # "OK"
  /\ UNCHANGED <<hello, s1, out>>

\* The place of the digest in S1 is computed as that of the client's in C1.
S1DigestAt(sum) ==
  LET scheme == clientScheme(hello.c1) IN scheme_Digest_Offset(scheme, sum[scheme])

Accept ==
  /\ result = "pending"
  /\ \E sum \in RandomS1(S1Sums) :
       /\ execute(hello, sum) = "OK"
       /\ s1' = [sum |-> sum, digestAt |-> S1DigestAt(sum), key |-> keyOfS1]
  /\ result' = "OK"
  /\ out' = filledOut
  /\ UNCHANGED hello

Next == Refuse \/ Accept

Spec == Init /\ [][Next]_vars

-----------------------------------------------------------------------------
digest == s1.digestAt .. s1.digestAt + C1S1_DIGEST_DATA_SIZE - 1

\* The cuts of C1 and S1 are legal whatever the 8-bit sums in them are: the only
\* message on which a ByteBuffer throws is C0 alone, without any byte of C1.
ThrowsOnlyOnLoneC0 ==
  result = "out_of_range" => hello.c0 /\ hello.size = 1

\* The digest of S1 is where the client will look for it: in the digest block of the
\* scheme under which the client signed its own C1, at the place that S1 itself, as it
\* is sent, gives under that scheme; putting it there spared the four bytes that give
\* the place.  And out was filled to its end, so none of the 3073 bytes is as resize()
\* made it.  This is about the layout alone: S1KeyIsNamed is about the key.
DigestWhereClientLooks ==
  result = "OK" =>
    /\ out.position = out.size /\ out.size = 3073
    /\ \E scheme \in hello.c1.signed :
         LET block == IF scheme = 0 THEN 8 .. 771 ELSE 772 .. 1535
         IN  /\ digest \subseteq block \ digestOffsetBytes(scheme)
             /\ s1.digestAt = scheme_Digest_Offset(scheme, s1.sum[scheme])


\* The bytes of the challenge clientScheme takes from C1 under a scheme.
challenge(scheme) ==
  LET k == scheme_Key_Offset(scheme, hello.c1.keySum[scheme])
  IN  k .. k + C1S1_KEY_DATA_SIZE - 1

\* In scheme 0 (time + version + digest + key) the challenge lies in the key
\* block, before the offset bytes that end it.
Scheme0KeyInKeyBlock == challenge(0) \subseteq 772 .. 1531

\* In scheme 1 "time + version + key + digest" (HandShake.cpp:202 and :240) the
\* key comes first, so the challenge lies before the offset bytes 768 .. 771.
Scheme1KeyInKeyBlock == challenge(1) \subseteq 8 .. 767
=============================================================================
