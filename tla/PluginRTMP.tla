------------------------------ MODULE PluginRTMP ------------------------------
(***************************************************************************)
(* The channels of the TcpServer and the callbacks PluginRTMP gives it.     *)
(* newConnEvent looks at the number of channels and later adds one, both    *)
(* under the server's lock and not in between.  A channel is kept in the    *)
(* map from then until the callback that tells it was closed has returned;  *)
(* the RTMPClient is kept in the channel, and has a reference to the place  *)
(* in the map.  RTMPClient describes what Execute does in onMessage.        *)
(***************************************************************************)
EXTENDS TcpServerCalls

CONSTANT MaxConnections   \* max_connections, which the program leaves at 2^32 - 1

ASSUME MaxConnectionsAssumption == MaxConnections \in Nat

VARIABLES
  channels,   \* the connections in the map of channels
  passed,     \* the workers in newConnEvent that were below the limit
  serving,    \* the connection whose callback a worker is in: none or one
  client      \* contextPtr_ of each channel: "none", "live", "destroyed"

pluginVars == <<channels, passed, serving, client>>

PluginTypeOK ==
  /\ TypeOK
  /\ channels \subseteq Connection
  /\ passed \subseteq Worker
  /\ serving \in [Worker -> SUBSET Connection]
  /\ client \in [Connection -> {"none", "live", "destroyed"}]

PluginInit ==
  /\ Init
  /\ channels = {} /\ passed = {}
  /\ serving = [w \in Worker |-> {}]
  /\ client = [c \in Connection |-> "none"]

-----------------------------------------------------------------------------
(* newConnEvent *)

\* The worker takes over the next connection.
TakesOver(w) ==
  Runs /\ w \notin passed /\ thread[w] = "idle" /\ posted[w] # <<>>

\* Mutant: > instead of >=.
BelowLimit_OneMore == Cardinality(channels) <= MaxConnections

BelowLimit == Cardinality(channels) < MaxConnections

CheckLimit(w) ==
  /\ TakesOver(w) /\ BelowLimit
  /\ passed' = passed \cup {w}
  /\ UNCHANGED <<tcpVars, channels, serving, client>>

\* Over max_connections: the connection is closed, and no callback hears of it.
Refuse(w) ==
  /\ TakesOver(w) /\ ~BelowLimit
  /\ posted' = [posted EXCEPT ![w] = Tail(@)]
  /\ conn' = [conn EXCEPT ![Head(posted[w])] = "closed"]
  /\ UNCHANGED <<listenfd, accepting, loop, thread, next, home, stopping, fate, pluginVars>>

\* addChannel and onConnection, unless the loop has gone.
NewConnection(w) ==
  /\ w \in passed /\ NewConnEvent(w)
  /\ passed' = passed \ {w}
  /\ IF loop[w] = "null"
       THEN UNCHANGED <<channels, serving>>
       ELSE /\ channels' = channels \cup {Head(posted[w])}
            /\ serving' = [serving EXCEPT ![w] = {Head(posted[w])}]
  /\ UNCHANGED client

-----------------------------------------------------------------------------
(* The callbacks *)

\* onMessage makes the client of a channel that has none, and calls its Execute.
Message(c) ==
  /\ home[c] \notin passed /\ OnRead(c)
  /\ serving' = [serving EXCEPT ![home[c]] = {c}]
  /\ client' = [client EXCEPT ![c] = IF @ = "none" THEN "live" ELSE @]
  /\ UNCHANGED <<channels, passed>>

\* onclose sets the status and calls onConnection.
Close(c) ==
  /\ home[c] \notin passed /\ OnClose(c)
  /\ serving' = [serving EXCEPT ![home[c]] = {c}]
  /\ UNCHANGED <<channels, passed, client>>

\* Mutant: the channel stays in the map.
Removed_None(w) == {}

\* Mutant: the channel is removed after each callback.
Removed_Always(w) == serving[w]

\* What removeChannel erases when the callback has returned.
Removed(w) == {c \in serving[w] : conn[c] = "closed"}

\* A callback returns.  The channel that is removed destroys its client.
Return(w) ==
  /\ CallbackReturns(w)
  /\ channels' = channels \ Removed(w)
  /\ client' = [c \in Connection |->
       IF c \in Removed(w) /\ client[c] = "live" THEN "destroyed" ELSE client[c]]
  /\ serving' = [serving EXCEPT ![w] = {}]
  /\ UNCHANGED passed

-----------------------------------------------------------------------------
\* What concerns no channel.  A worker in newConnEvent is not at its loop's flag.
Elsewhere ==
  /\ \/ CreateSocket \/ Start \/ Stop \/ CloseSocket \/ StartAccept
     \/ \E c \in Connection : Connect(c) \/ OnAccept(c)
     \/ \E w \in Worker : CallbackThrows(w)
     \/ \E t \in Thread : StopLoop(t) \/ (t \notin passed /\ LoopEnds(t))
  /\ UNCHANGED pluginVars

PluginNext ==
  \/ \E w \in Worker : CheckLimit(w) \/ Refuse(w) \/ NewConnection(w) \/ Return(w)
  \/ \E c \in Connection : Message(c) \/ Close(c)
  \/ Elsewhere

PluginSpec == PluginInit /\ [][PluginNext]_<<tcpVars, pluginVars>>

-----------------------------------------------------------------------------
\* The limit can be passed, by as many connections as there are other workers
\* between the look at the number and the adding, and by no more.
LimitOverrun == Cardinality(channels) <= MaxConnections + ThreadNum - 1

\* Between two callbacks the map holds just the connections that are open: what
\* the limit counts is there, and what was closed makes room again.
CountsOpenConnections ==
  \A c \in Connection :
    c \in channels <=> conn[c] = "open" \/ \E w \in Worker : c \in serving[w]

\* A connection as PluginRTMP sees it.
Stage == [c \in Connection |-> IF conn[c] \in {"open", "closed"} THEN conn[c] ELSE "new"]

Calling == [c \in Connection |->
  IF \A w \in Worker : c \notin serving[w] THEN "none"
  ELSE IF conn[c] = "closed" THEN "closed"
  ELSE IF thread[home[c]] = "onMessage" THEN "message" ELSE "connected"]

Life == INSTANCE ConnectionLife WITH stage <- Stage, calling <- Calling, client <- client

\* The callbacks of a connection come one at a time and in order, and its client
\* lives from its first message to the end of its last callback.
CallbacksInOrder == Life!Spec
=============================================================================
