---------------------------- MODULE ConnectionLife ----------------------------
(***************************************************************************)
(* What PluginRTMP relies on when it keeps an RTMPClient in a channel and   *)
(* gives it a reference to that channel: the callbacks of a connection come *)
(* one at a time, connected, then messages, then closed; the client is made *)
(* by the first message and destroyed after the last callback.              *)
(***************************************************************************)
CONSTANT Connection

VARIABLES
  stage,    \* each connection: "new", "open", "closed"
  calling,  \* its callback: "none", "connected", "message", "closed"
  client    \* its RTMPClient: "none", "live", "destroyed"

vars == <<stage, calling, client>>

Init ==
  /\ stage = [c \in Connection |-> "new"]
  /\ calling = [c \in Connection |-> "none"]
  /\ client = [c \in Connection |-> "none"]

Enter(c, callback) ==
  calling[c] = "none" /\ calling' = [calling EXCEPT ![c] = callback]

Connected(c) ==
  /\ stage[c] = "new" /\ Enter(c, "connected")
  /\ stage' = [stage EXCEPT ![c] = "open"]
  /\ UNCHANGED client

\* Closed by the server without a callback.
Refused(c) ==
  /\ stage[c] = "new" /\ stage' = [stage EXCEPT ![c] = "closed"]
  /\ UNCHANGED <<calling, client>>

Message(c) ==
  /\ stage[c] = "open" /\ Enter(c, "message")
  /\ client' = [client EXCEPT ![c] = "live"]
  /\ UNCHANGED stage

Closed(c) ==
  /\ stage[c] = "open" /\ Enter(c, "closed")
  /\ stage' = [stage EXCEPT ![c] = "closed"]
  /\ UNCHANGED client

Return(c) ==
  /\ calling[c] # "none" /\ calling' = [calling EXCEPT ![c] = "none"]
  /\ client' = IF calling[c] = "closed" /\ client[c] = "live"
                 THEN [client EXCEPT ![c] = "destroyed"] ELSE client
  /\ UNCHANGED stage

Next ==
  \E c \in Connection :
    Connected(c) \/ Refused(c) \/ Message(c) \/ Closed(c) \/ Return(c)

Spec == Init /\ [][Next]_vars
=============================================================================
