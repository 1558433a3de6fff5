-------------------------------- MODULE MCMsg --------------------------------
(* Bodies of every length up to two bytes more than the longest message, whose  *)
(* event, read either way, is one of each kind.                                 *)
EXTENDS Msg

MCWords == {<<0, k, 0, l>> : k \in {0, 2, 3, 6, 31}, l \in {0, 3, 6, 7}}

MCBodies == {SubSeq(w \o v \o <<9, 9, 9, 9>>, 1, n) :
               w \in MCWords, v \in {<<1, 2, 3, 4>>}, n \in 0 .. 12}

MCEvents == {0, 1, 3, 6, 7}

MCMessages ==
  [kind : {"uint32"}, m : MCWords]
  \cup [kind : {"userControl"}, event : {7}]
  \cup [kind : {"streamID"}, event : MCEvents, stream : MCWords]
  \cup [kind : {"setBuffer"}, event : MCEvents, stream : MCWords,
        millisecond : {<<0, 3, 0, 0>>, <<1, 2, 3, 4>>}]
  \cup [kind : {"ping"}, event : MCEvents, timestamp : MCWords]
  \cup [kind : {"bandwidth"}, window : MCWords, limit : {0, 2}]

MCTypes == 0 .. 7
=============================================================================
