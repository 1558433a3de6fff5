--------------------------- MODULE MCHandShakeCall ---------------------------
(* First messages around every length the code tests, and C1s whose sums      *)
(* reach both ends of the two moduli (728 and 632) and the largest sum.       *)
EXTENDS HandShakeCall

MCDigestSums == {0, 727, 728, 1020}
MCKeySums    == {0, 631, 635, 1020}

MCC1 == [zeroVersion : BOOLEAN, digestSum : [Scheme -> MCDigestSums],
         keySum : [Scheme -> MCKeySums], signed : {{}, {0}, {1}}]

MCPlainC1 == [zeroVersion |-> FALSE, digestSum |-> [s \in Scheme |-> 0],
              keySum |-> [s \in Scheme |-> 0], signed |-> {1}]

MCHellos ==
  [size : {1537}, c0 : {TRUE}, c1 : MCC1]
    \cup [size : {1, 2, 1536, 1537, 1538, 3073}, c0 : BOOLEAN, c1 : {MCPlainC1}]
=============================================================================
